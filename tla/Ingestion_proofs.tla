------------------------- MODULE Ingestion_proofs -------------------------
(***************************************************************************)
(* Proofs about ingestion, for any clients, any requests, any sequence of  *)
(* configurations and any sessions that may crash.                         *)
(***************************************************************************)
EXTENDS IngestionProperties, TLAPS, FiniteSetTheorems, SequenceTheorems

----------------------------------------------------------------------------
(* The inductive invariant. *)

Control == {"idle", "record", "validate", "compare", "decide", "sync", "finish"}
Checks == {"source_label", "collection_method", "one_kind", "timestamp", "known",
           "required", "range", "ceiling", "duplicate"}
Verdict == [reasons : SUBSET Checks, config : 0..Len(Config)]
Transaction ==
    [raw : SUBSET RawRow, accepted : {{}}, rejected : {{}}, batches : SUBSET BatchRow]

\* The variables are functions, and a transaction never holds a verdict.
Typed ==
    /\ version \in 0..Len(Config) /\ twinVersion \in 0..version
    /\ twin \in [Entities -> Observation \cup {NULL}]
    /\ raw \subseteq RawRow
    /\ accepted \subseteq VerdictRow /\ rejected \subseteq VerdictRow
    /\ batches \subseteq BatchRow
    /\ uncommitted \in [Sessions -> Transaction]
    /\ pc \in [Sessions -> Control]
    /\ queue \in [Sessions -> Seq(Observation)]
    /\ batch \in [Sessions -> Ids \cup {NULL}]
    /\ tally \in [Sessions -> [accepted : Nat, rejected : Nat]]
    /\ verdict \in [Sessions -> Verdict]
    /\ submitted \in [Sessions -> Nat]
    /\ \A s \in Sessions : submitted[s] <= MaxRows[s]

\* A request is under way exactly while rows of it are left, its own rows, and
\* only where there is a campus.
Queued ==
    \A s \in Sessions :
        /\ queue[s] \in Seq(RowsOf(s))
        /\ queue[s] = <<>> <=> pc[s] \in {"idle", "finish"}
        /\ Len(queue[s]) <= submitted[s]
        /\ pc[s] # "idle" => version > 0

\* Between flush and commit the transaction holds the raw row in hand.
Held ==
    \A s \in Sessions :
        uncommitted[s].raw =
            IF pc[s] \in {"validate", "compare", "decide"}
            THEN {[id |-> RowId(s), obs |-> Head(queue[s]), batch |-> batch[s]]}
            ELSE {}

\* The position of the last row of a session that has its verdict.
Judged(s) == submitted[s] - Len(queue[s]) + (IF pc[s] = "sync" THEN 1 ELSE 0)

\* The ids of the committed rows are those of judged rows.
IdsUsed == \A r \in raw : r.id[2] <= Judged(r.id[1])

VerdictOf(r) == [raw |-> r.id, obs |-> r.obs, batch |-> r.batch]
RawOf(a) == [id |-> a.raw, obs |-> a.obs, batch |-> a.batch]

\* Raw rows have ids of their own, and every one is in exactly one of the two
\* tables of verdicts, with its own observation and batch.
Paired ==
    /\ \A r, q \in raw : r.id = q.id => r = q
    /\ \A r \in raw : VerdictOf(r) \in accepted <=> VerdictOf(r) \notin rejected
    /\ \A a \in accepted \cup rejected : RawOf(a) \in raw

\* A row that is past its validation passed it, under the configuration its
\* verdict names.
Passed ==
    \A s \in Sessions :
        pc[s] = "compare" \/ (pc[s] \in {"decide", "sync"} /\ verdict[s].reasons = {}) =>
            /\ verdict[s].config > 0
            /\ Reasons(Head(queue[s]), Config[verdict[s].config]) = {}

\* What is about to be copied into the twin is committed as accepted.
Accepted ==
    \A s \in Sessions : pc[s] = "sync" => Row(s) \in accepted /\ verdict[s].reasons = {}

IInv ==
    /\ Typed /\ Queued /\ Held /\ IdsUsed /\ Paired /\ Passed /\ Accepted
    /\ TwinShowsOnlyAccepted

\* No client has two of its observations of one key accepted.
NoDuplicateOfOneClient ==
    \A a, b \in accepted :
        a.raw # b.raw /\ a.raw[1] = b.raw[1] => ~SameKey(a.obs, b.obs)

\* Accepted rows were sent by the session their id names, and a row that was
\* compared with the committed ones stays without a double of its client.
Compared ==
    /\ \A a \in accepted : a.obs \in RowsOf(a.raw[1])
    /\ \A s \in Sessions :
          pc[s] = "decide" /\ verdict[s].reasons = {} =>
              \A a \in accepted : a.raw[1] = s => ~SameKey(a.obs, Head(queue[s]))
    /\ NoDuplicateOfOneClient

\* No two sessions ever send observations of one key.
KeysOfTheirOwn ==
    \A s, t \in Sessions : s # t =>
        \A o \in RowsOf(s), p \in RowsOf(t) : ~SameKey(o, p)

\* The rows of one batch, in one of the two tables of verdicts.
Of(rows, id) == {r \in rows : r.batch = id}

AddsUp(b) ==
    /\ b.accepted = Cardinality(Of(accepted, b.id))
    /\ b.rejected = Cardinality(Of(rejected, b.id))
    /\ b.accepted + b.rejected = b.total

\* Whose requests may end before their last commit.
MayEndEarly(s) == s \in Crashing \/ RowsOf(s) \cap TooLarge # {}

\* Every batch has one row, as soon as one of its rows is judged.  Once its
\* request is over, its counters agree with the two tables and add up to the
\* rows it came with, unless its server died or a row did not fit its columns,
\* which leaves them at zero.
BatchesCounted ==
    /\ \A b, c \in batches : b.id = c.id => b = c
    /\ \A a \in accepted \cup rejected : a.batch # NULL => \E b \in batches : b.id = a.batch
    /\ \A b \in batches :
          \/ b.id = batch[b.id[1]]
          \/ AddsUp(b)
          \/ MayEndEarly(b.id[1]) /\ b.accepted = 0 /\ b.rejected = 0

\* The rows of a request that have no verdict yet.
Left(s) == Len(queue[s]) - (IF pc[s] = "sync" THEN 1 ELSE 0)

OpenRow(s) ==
    [id |-> batch[s], total |-> Left(s) + tally[s].accepted + tally[s].rejected,
     accepted |-> 0, rejected |-> 0]

\* While a batch is under way its row, committed or not, has zero counters,
\* and what the session has counted is what the tables hold.
Opened(s) ==
    /\ pc[s] = "idle" => batch[s] = NULL
    /\ pc[s] = "finish" => batch[s] # NULL
    /\ batch[s] = NULL => uncommitted[s].batches = {}
    /\ batch[s] # NULL =>
          /\ batch[s][1] = s /\ batch[s][2] <= submitted[s]
          /\ tally[s].accepted = Cardinality(Of(accepted, batch[s]))
          /\ tally[s].rejected = Cardinality(Of(rejected, batch[s]))
          /\ \/ uncommitted[s].batches = {OpenRow(s)} /\ \A b \in batches : b.id # batch[s]
             \/ uncommitted[s].batches = {} /\ OpenRow(s) \in batches

Counted ==
    /\ IsFiniteSet(accepted) /\ IsFiniteSet(rejected)
    /\ \A b \in batches : b.id[2] <= submitted[b.id[1]]
    /\ \A s \in Sessions : Opened(s)
    /\ BatchesCounted

----------------------------------------------------------------------------
(* Lemmas on rows, ids and transactions. *)

LEMMA RowsOfRequests ==
    ASSUME NEW s, NEW o
    PROVE  o \in RowsOf(s) <=> o # Malformed /\ \E r \in Requests[s] : o \in RowsIn(r)
  BY Zenon DEF RowsOf

LEMMA RowsOfSessions ==
    ASSUME NEW o
    PROVE  o \in Observation <=> \E s \in Sessions : o \in RowsOf(s)
  BY Zenon DEF Observation

\* What the rows of a readable request are.
LEMMA RowsType ==
    ASSUME NEW s \in Sessions, NEW r \in Requests[s],
           \A i \in DOMAIN r.rows : r.rows[i] # Malformed
    PROVE  /\ r.rows \in Seq(RowsOf(s)) /\ Len(r.rows) \in Nat \ {0}
           /\ r.rows # <<>>
<1>1. r.rows \in Seq(ObservationIn \cup {Malformed}) /\ r.rows # <<>>
  BY RequestsAssumption
<1>2. Len(r.rows) \in Nat \ {0} /\ DOMAIN r.rows = 1..Len(r.rows)
  BY <1>1
<1>3. \A i \in 1..Len(r.rows) : r.rows[i] \in RowsOf(s)
  <2>1. \A i \in DOMAIN r.rows : r.rows[i] \in RowsIn(r)
    BY DEF RowsIn
  <2> QED BY <1>2, <2>1, RowsOfRequests
<1> QED BY <1>1, <1>2, <1>3

LEMMA ObservationType ==
    /\ Observation \subseteq ObservationIn
    /\ \A s \in Sessions : RowsOf(s) \subseteq Observation
<1>1. ASSUME NEW s \in Sessions, NEW r \in Requests[s], NEW o \in RowsIn(r), o # Malformed
      PROVE  o \in ObservationIn
  <2>1. r.rows \in Seq(ObservationIn \cup {Malformed})
    BY RequestsAssumption
  <2> QED BY <1>1, <2>1 DEF RowsIn
<1> QED BY <1>1, RowsOfRequests, RowsOfSessions

\* The rest of a queue.
LEMMA RestOfQueue ==
    ASSUME NEW S, NEW q \in Seq(S), q # <<>>
    PROVE  /\ Head(q) \in S /\ Tail(q) \in Seq(S) /\ Len(q) \in Nat \ {0}
           /\ Len(Tail(q)) = Len(q) - 1
           /\ Tail(q) = <<>> <=> ~(Len(q) > 1)
<1>1. Len(q) \in Nat \ {0} /\ Tail(q) \in Seq(S) /\ Len(Tail(q)) = Len(q) - 1
  OBVIOUS
<1>2. Tail(q) = <<>> <=> Len(Tail(q)) = 0
  BY <1>1, EmptySeq
<1> QED BY <1>1, <1>2

\* The row in hand has an id, its session's, one past the judged rows.
LEMMA RowIdType ==
    ASSUME Typed, Queued, NEW s \in Sessions, queue[s] # <<>>
    PROVE  /\ RowId(s) \in Ids /\ RowId(s)[1] = s
           /\ RowId(s)[2] = submitted[s] - Len(queue[s]) + 1
           /\ Head(queue[s]) \in Observation /\ Head(queue[s]) \in RowsOf(s)
           /\ Len(queue[s]) \in Nat \ {0} /\ submitted[s] \in Nat
<1>1. Len(queue[s]) \in Nat \ {0} /\ Head(queue[s]) \in RowsOf(s)
  BY RestOfQueue DEF Queued
<1>2. submitted[s] \in Nat /\ submitted[s] <= MaxRows[s] /\ Len(queue[s]) <= submitted[s]
  BY DEF Typed, Queued
<1>3. MaxRows[s] \in Nat
  BY RequestsAssumption
<1>4. submitted[s] - Len(queue[s]) + 1 \in 1..MaxRows[s]
  BY <1>1, <1>2, <1>3
<1> QED BY <1>1, <1>2, <1>4, ObservationType DEF RowId, Ids

\* The row in hand, as the tables hold it.
RawRowOf(s) == [id |-> RowId(s), obs |-> Head(queue[s]), batch |-> batch[s]]

LEMMA RowTypes ==
    ASSUME Typed, Queued, NEW s \in Sessions, queue[s] # <<>>
    PROVE  /\ Row(s) \in VerdictRow /\ RawRowOf(s) \in RawRow
           /\ VerdictOf(RawRowOf(s)) = Row(s) /\ RawOf(Row(s)) = RawRowOf(s)
  BY RowIdType DEF Typed, Row, RawRowOf, VerdictRow, RawRow, VerdictOf, RawOf

\* The commit that judges a row adds the raw row and its verdict, no more.
LEMMA CommitVerdict ==
    ASSUME Typed, Queued, Held, NEW s \in Sessions, pc[s] = "decide",
           NEW A \in SUBSET VerdictRow, NEW R \in SUBSET VerdictRow,
           CommitWith(s, [raw |-> {}, accepted |-> A, rejected |-> R, batches |-> {}])
    PROVE  /\ raw' = raw \cup {RawRowOf(s)}
           /\ accepted' = accepted \cup A /\ rejected' = rejected \cup R
           /\ batches' \subseteq BatchRow
           /\ uncommitted' \in [Sessions -> Transaction]
           /\ uncommitted'[s].raw = {}
           /\ \A q \in Sessions \ {s} : uncommitted'[q] = uncommitted[q]
<1>1. uncommitted[s] \in Transaction /\ uncommitted[s].raw = {RawRowOf(s)}
  BY DEF Typed, Held, RawRowOf
<1>2. uncommitted[s].accepted = {} /\ uncommitted[s].rejected = {}
        /\ uncommitted[s].batches \subseteq BatchRow
  BY <1>1 DEF Transaction
<1>3. Nothing \in Transaction /\ Nothing.raw = {}
  BY DEF Nothing, Transaction
<1> QED BY <1>1, <1>2, <1>3 DEF CommitWith, Typed

\* The tables after a rejection and after an acceptance.
LEMMA RejectEffect ==
    ASSUME Typed, Queued, Held, NEW s \in Sessions, Reject(s)
    PROVE  /\ pc[s] = "decide" /\ queue[s] # <<>>
           /\ raw' = raw \cup {RawRowOf(s)} /\ accepted' = accepted
           /\ rejected' = rejected \cup {Row(s)} /\ batches' \subseteq BatchRow
           /\ uncommitted' \in [Sessions -> Transaction] /\ uncommitted'[s].raw = {}
           /\ \A q \in Sessions \ {s} : uncommitted'[q] = uncommitted[q]
<1>1. pc[s] = "decide" /\ queue[s] # <<>>
  BY DEF Reject, Queued
<1>2. {} \in SUBSET VerdictRow /\ {Row(s)} \in SUBSET VerdictRow
  BY <1>1, RowTypes
<1>3. CommitWith(s, [raw |-> {}, accepted |-> {}, rejected |-> {Row(s)}, batches |-> {}])
  <2>1. [Nothing EXCEPT !.rejected = {Row(s)}] =
            [raw |-> {}, accepted |-> {}, rejected |-> {Row(s)}, batches |-> {}]
    BY DEF Nothing
  <2> QED BY <2>1 DEF Reject
<1>4. accepted' = accepted \cup {} /\ rejected' = rejected \cup {Row(s)}
        /\ raw' = raw \cup {RawRowOf(s)} /\ batches' \subseteq BatchRow
        /\ uncommitted' \in [Sessions -> Transaction] /\ uncommitted'[s].raw = {}
        /\ \A q \in Sessions \ {s} : uncommitted'[q] = uncommitted[q]
  BY <1>1, <1>2, <1>3, CommitVerdict
<1> QED BY <1>1, <1>4

LEMMA AcceptEffect ==
    ASSUME Typed, Queued, Held, NEW s \in Sessions, Accept(s)
    PROVE  /\ pc[s] = "decide" /\ queue[s] # <<>>
           /\ raw' = raw \cup {RawRowOf(s)} /\ rejected' = rejected
           /\ accepted' = accepted \cup {Row(s)} /\ batches' \subseteq BatchRow
           /\ uncommitted' \in [Sessions -> Transaction] /\ uncommitted'[s].raw = {}
           /\ \A q \in Sessions \ {s} : uncommitted'[q] = uncommitted[q]
<1>1. pc[s] = "decide" /\ queue[s] # <<>>
  BY DEF Accept, Queued
<1>2. {} \in SUBSET VerdictRow /\ {Row(s)} \in SUBSET VerdictRow
  BY <1>1, RowTypes
<1>3. CommitWith(s, [raw |-> {}, accepted |-> {Row(s)}, rejected |-> {}, batches |-> {}])
  <2>1. [Nothing EXCEPT !.accepted = {Row(s)}] =
            [raw |-> {}, accepted |-> {Row(s)}, rejected |-> {}, batches |-> {}]
    BY DEF Nothing
  <2> QED BY <2>1 DEF Accept
<1>4. accepted' = accepted \cup {Row(s)} /\ rejected' = rejected \cup {}
        /\ raw' = raw \cup {RawRowOf(s)} /\ batches' \subseteq BatchRow
        /\ uncommitted' \in [Sessions -> Transaction] /\ uncommitted'[s].raw = {}
        /\ \A q \in Sessions \ {s} : uncommitted'[q] = uncommitted[q]
  BY <1>1, <1>2, <1>3, CommitVerdict
<1> QED BY <1>1, <1>4

\* What follows a judged row.
LEMMA AdvanceEffect ==
    ASSUME Typed, Queued, NEW s \in Sessions, queue[s] # <<>>, Advance(s)
    PROVE  /\ queue' \in [Sessions -> Seq(Observation)] /\ pc' \in [Sessions -> Control]
           /\ queue'[s] = Tail(queue[s]) /\ pc'[s] \in {"record", "idle", "finish"}
           /\ queue'[s] = <<>> <=> pc'[s] \in {"idle", "finish"}
           /\ \A q \in Sessions \ {s} : queue'[q] = queue[q] /\ pc'[q] = pc[q]
<1>1. queue[s] \in Seq(Observation)
  BY DEF Typed
<1>2. Tail(queue[s]) \in Seq(Observation) /\ (Tail(queue[s]) = <<>> <=> ~(Len(queue[s]) > 1))
  BY <1>1, RestOfQueue
<1>3. queue' = [queue EXCEPT ![s] = Tail(queue[s])]
  BY DEF Advance
<1>4. pc'[s] = IF Len(queue[s]) > 1 THEN "record"
               ELSE IF batch[s] # NULL THEN "finish" ELSE "idle"
  BY DEF Advance, Typed
<1>5. pc' \in [Sessions -> Control] /\ \A q \in Sessions \ {s} : pc'[q] = pc[q]
  BY <1>4 DEF Advance, Typed, Control
<1> QED BY <1>2, <1>3, <1>4, <1>5 DEF Typed

\* The verdict on a row names only checks, and an empty one is a passed one.
LEMMA ReasonsType ==
    ASSUME NEW o, NEW c
    PROVE  Reasons(o, c) \in SUBSET Checks
  BY DEF Reasons, Failed, Labelled, Measured, Checks

----------------------------------------------------------------------------
(* Type correctness. *)

LEMMA TypedInit == Init => Typed
<1>1. Len(Config) \in Nat
  BY ConfigAssumption
<1>2. Nothing \in Transaction /\ NoVerdict \in Verdict /\ NoTally \in [accepted : Nat, rejected : Nat]
  BY <1>1 DEF Nothing, Transaction, NoVerdict, Verdict, NoTally
<1>3. \A s \in Sessions : 0 <= MaxRows[s]
  BY RequestsAssumption
<1> QED BY <1>1, <1>2, <1>3 DEF Init, Typed, Control

LEMMA TypedStep ==
    ASSUME Typed, Queued, Held, [Next]_vars
    PROVE  Typed'
<1>c. Len(Config) \in Nat /\ version \in 0..Len(Config) /\ twinVersion \in 0..version
  BY ConfigAssumption DEF Typed
<1>n. Nothing \in Transaction /\ NoVerdict \in Verdict /\ NoTally \in [accepted : Nat, rejected : Nat]
  BY <1>c DEF Nothing, Transaction, NoVerdict, Verdict, NoTally
<1>1. CASE Upsert \/ InitTwin \/ Quiet \/ UNCHANGED vars
  <2>1. version' \in 0..Len(Config) /\ twinVersion' \in 0..version'
    BY <1>1, <1>c DEF Upsert, InitTwin, Quiet, vars
  <2>2. UNCHANGED <<twin, tables, request, submitted>>
    BY <1>1 DEF Upsert, InitTwin, Quiet, vars
  <2> QED BY <2>1, <2>2 DEF Typed, tables, request
<1>2. ASSUME NEW s \in Sessions, NEW r \in Requests[s], Submit(s, r) PROVE Typed'
  <2>1. r.rows \in Seq(Observation) /\ Len(r.rows) \in Nat \ {0}
    <3>1. \A i \in DOMAIN r.rows : r.rows[i] # Malformed
      BY <1>2 DEF Submit
    <3> QED BY <3>1, RowsType, ObservationType
  <2>2. submitted[s] \in Nat /\ MaxRows[s] \in Nat /\ submitted[s] + Len(r.rows) <= MaxRows[s]
    BY <1>2, RequestsAssumption DEF Submit, Typed
  <2>3. <<s, submitted[s] + 1>> \in Ids
    <3>1. submitted[s] + 1 \in 1..MaxRows[s]
      BY <2>1, <2>2
    <3> QED BY <3>1 DEF Ids
  <2>4. batch' \in [Sessions -> Ids \cup {NULL}] /\ uncommitted' \in [Sessions -> Transaction]
    <3>1. CASE r.via = "one"
      BY <1>2, <3>1 DEF Submit, Typed
    <3>2. CASE r.via # "one"
      <4> DEFINE b == [id |-> <<s, submitted[s] + 1>>, total |-> Len(r.rows),
                       accepted |-> 0, rejected |-> 0]
      <4>1. b \in BatchRow
        BY <2>1, <2>3 DEF BatchRow
      <4>2. batch' = [batch EXCEPT ![s] = <<s, submitted[s] + 1>>]
              /\ uncommitted' = [uncommitted EXCEPT ![s].batches = {b}]
        BY <1>2, <3>2 DEF Submit
      <4>3. uncommitted[s] \in Transaction
        BY DEF Typed
      <4> HIDE DEF b
      <4>4. [uncommitted[s] EXCEPT !.batches = {b}] \in Transaction
        BY <4>1, <4>3 DEF Transaction
      <4> QED BY <2>3, <4>2, <4>4 DEF Typed
    <3> QED BY <3>1, <3>2
  <2>5. submitted' \in [Sessions -> Nat] /\ \A q \in Sessions : submitted'[q] <= MaxRows[q]
    BY <1>2, <2>1, <2>2 DEF Submit, Typed
  <2> QED BY <1>2, <1>n, <2>1, <2>4, <2>5 DEF Submit, Typed, Control, tables
<1>3. ASSUME NEW s \in Sessions, NEW r \in Requests[s], SubmitUnreadable(s, r) PROVE Typed'
  <2>1. r.rows \in Seq(ObservationIn \cup {Malformed})
    BY RequestsAssumption
  <2>2. Len(r.rows) \in Nat
    BY <2>1
  <2>3. submitted' \in [Sessions -> Nat] /\ \A q \in Sessions : submitted'[q] <= MaxRows[q]
    BY <1>3, <2>2 DEF SubmitUnreadable, Typed
  <2> QED BY <1>3, <2>3 DEF SubmitUnreadable, Typed, tables, request
<1>4. ASSUME NEW s \in Sessions, Record(s) PROVE Typed'
  <2>1. queue[s] # <<>>
    BY <1>4 DEF Record, Queued
  <2>2. RawRowOf(s) \in RawRow
    BY <2>1, RowTypes
  <2>3. uncommitted' = [uncommitted EXCEPT ![s].raw = @ \cup {RawRowOf(s)}]
    BY <1>4 DEF Record, RawRowOf
  <2>4. uncommitted[s] \in Transaction
    BY DEF Typed
  <2>5. [uncommitted[s] EXCEPT !.raw = @ \cup {RawRowOf(s)}] \in Transaction
    BY <2>2, <2>4 DEF Transaction
  <2>6. uncommitted' \in [Sessions -> Transaction]
    BY <2>3, <2>5 DEF Typed
  <2> QED BY <1>4, <2>6 DEF Record, Typed, Control, tables
<1>5. ASSUME NEW s \in Sessions, Validate(s) PROVE Typed'
  <2>1. [reasons |-> Reasons(Head(queue[s]), Config[version]), config |-> version] \in Verdict
    BY <1>c, ReasonsType DEF Verdict
  <2>2. verdict' \in [Sessions -> Verdict]
    BY <1>5, <2>1 DEF Validate, Typed
  <2> QED BY <1>5, <2>2 DEF Validate, Typed, Control, tables
<1>6. ASSUME NEW s \in Sessions, Compare(s) PROVE Typed'
  <2>1. verdict[s] \in Verdict
    BY DEF Typed
  <2>2. \A R \in SUBSET Checks : [verdict[s] EXCEPT !.reasons = R] \in Verdict
    BY <2>1 DEF Verdict
  <2>3. verdict' \in [Sessions -> Verdict]
    BY <1>6, <2>2 DEF Compare, Typed, Checks
  <2> QED BY <1>6, <2>3 DEF Compare, Typed, Control, tables
<1>7. ASSUME NEW s \in Sessions, Reject(s) PROVE Typed'
  <2>1. /\ pc[s] = "decide" /\ queue[s] # <<>>
        /\ raw' = raw \cup {RawRowOf(s)} /\ accepted' = accepted
        /\ rejected' = rejected \cup {Row(s)}
        /\ batches' \subseteq BatchRow /\ uncommitted' \in [Sessions -> Transaction]
    BY <1>7, RejectEffect
  <2>2. Row(s) \in VerdictRow /\ RawRowOf(s) \in RawRow
    BY <2>1, RowTypes
  <2>3. queue' \in [Sessions -> Seq(Observation)] /\ pc' \in [Sessions -> Control]
    BY <1>7, <2>1, AdvanceEffect DEF Reject
  <2>4. tally' \in [Sessions -> [accepted : Nat, rejected : Nat]]
    <3>1. tally[s] \in [accepted : Nat, rejected : Nat]
      BY DEF Typed
    <3>2. [tally[s] EXCEPT !.rejected = @ + 1] \in [accepted : Nat, rejected : Nat]
      BY <3>1
    <3> QED BY <1>7, <3>2 DEF Reject, Typed
  <2>5. verdict' \in [Sessions -> Verdict]
    BY <1>7, <1>n DEF Reject, Typed
  <2> QED BY <1>7, <2>1, <2>2, <2>3, <2>4, <2>5 DEF Reject, Typed
<1>8. ASSUME NEW s \in Sessions, Accept(s) PROVE Typed'
  <2>1. /\ pc[s] = "decide" /\ queue[s] # <<>>
        /\ raw' = raw \cup {RawRowOf(s)} /\ rejected' = rejected
        /\ accepted' = accepted \cup {Row(s)}
        /\ batches' \subseteq BatchRow /\ uncommitted' \in [Sessions -> Transaction]
    BY <1>8, AcceptEffect
  <2>2. Row(s) \in VerdictRow /\ RawRowOf(s) \in RawRow
    BY <2>1, RowTypes
  <2>3. tally' \in [Sessions -> [accepted : Nat, rejected : Nat]]
    <3>1. tally[s] \in [accepted : Nat, rejected : Nat]
      BY DEF Typed
    <3>2. [tally[s] EXCEPT !.accepted = @ + 1] \in [accepted : Nat, rejected : Nat]
      BY <3>1
    <3> QED BY <1>8, <3>2 DEF Accept, Typed
  <2>4. pc' \in [Sessions -> Control]
    BY <1>8 DEF Accept, Typed, Control
  <2> QED BY <1>8, <2>1, <2>2, <2>3, <2>4 DEF Accept, Typed
<1>9. ASSUME NEW s \in Sessions, SyncTwin(s) PROVE Typed'
  <2>1. queue[s] # <<>>
    BY <1>9 DEF SyncTwin, Queued
  <2>2. Head(queue[s]) \in Observation
    BY <2>1, RowIdType
  <2>3. twin' \in [Entities -> Observation \cup {NULL}]
    BY <1>9, <2>2 DEF SyncTwin, Typed
  <2>4. queue' \in [Sessions -> Seq(Observation)] /\ pc' \in [Sessions -> Control]
    BY <1>9, <2>1, AdvanceEffect DEF SyncTwin
  <2>5. verdict' \in [Sessions -> Verdict]
    BY <1>9, <1>n DEF SyncTwin, Typed
  <2> QED BY <1>9, <2>3, <2>4, <2>5 DEF SyncTwin, Typed, tables
<1>10. ASSUME NEW s \in Sessions, FinishBatch(s) PROVE Typed'
  <2>1. \A b \in BatchRow :
           [b EXCEPT !.accepted = tally[s].accepted, !.rejected = tally[s].rejected] \in BatchRow
    BY DEF Typed, BatchRow
  <2>2. uncommitted[s].batches \subseteq BatchRow /\ batches \subseteq BatchRow
    BY DEF Typed, Transaction
  <2>3. batches' \subseteq BatchRow
    BY <1>10, <2>1, <2>2 DEF FinishBatch
  <2> QED BY <1>10, <1>n, <2>3 DEF FinishBatch, Typed, Control
<1>11. ASSUME NEW s \in Sessions, Crash(s) \/ RecordFails(s) PROVE Typed'
  <2>1. Abandon(s)
    BY <1>11 DEF RecordFails, Crash
  <2>2. queue' \in [Sessions -> Seq(Observation)] /\ pc' \in [Sessions -> Control]
    BY <2>1, EmptySeq DEF Abandon, Typed, Control
  <2> QED BY <1>n, <2>1, <2>2 DEF Abandon, Typed, tables
<1> QED BY <1>1, <1>2, <1>3, <1>4, <1>5, <1>6, <1>7, <1>8, <1>9, <1>10, <1>11 DEF Next, Step

----------------------------------------------------------------------------
(* Requests. *)

\* A step of the request of one session.
Act(s) ==
    \/ \E r \in Requests[s] : Submit(s, r) \/ SubmitUnreadable(s, r)
    \/ Step(s)
    \/ Crash(s)

\* Every other step only moves to a later configuration.
Load ==
    /\ version' \in Int /\ version <= version'
    /\ twinVersion' = twinVersion \/ twinVersion' = version
    /\ UNCHANGED <<twin, tables, request, submitted>>

LEMMA ActOrLoad ==
    ASSUME Typed, [Next]_vars
    PROVE  Load \/ \E s \in Sessions : Act(s)
<1>1. version \in Int
  BY ConfigAssumption DEF Typed
<1>2. CASE Upsert \/ InitTwin \/ Quiet \/ UNCHANGED vars
  BY <1>1, <1>2 DEF Upsert, InitTwin, Quiet, vars, Load
<1>3. CASE \E s \in Sessions : Act(s)
  BY <1>3
<1> QED BY <1>2, <1>3 DEF Next, Act

\* A step of one session leaves the requests of the others where they are.
LEMMA Elsewhere ==
    ASSUME Typed, Queued, Held, NEW s \in Sessions, Act(s), NEW q \in Sessions \ {s}
    PROVE  /\ pc'[q] = pc[q] /\ queue'[q] = queue[q] /\ batch'[q] = batch[q]
           /\ verdict'[q] = verdict[q] /\ submitted'[q] = submitted[q]
           /\ uncommitted'[q] = uncommitted[q] /\ tally'[q] = tally[q]
           /\ version' = version /\ twinVersion' = twinVersion
<1>1. CASE \E r \in Requests[s] : Submit(s, r)
  BY <1>1 DEF Submit, Typed
<1>2. CASE \E r \in Requests[s] : SubmitUnreadable(s, r)
  BY <1>2 DEF SubmitUnreadable, Typed, request
<1>3. CASE Record(s) \/ Validate(s) \/ Compare(s)
  BY <1>3 DEF Record, Validate, Compare, Typed
<1>4. CASE Reject(s)
  BY <1>4, RejectEffect, AdvanceEffect DEF Reject, Typed
<1>5. CASE Accept(s)
  BY <1>5, AcceptEffect DEF Accept, Typed
<1>6. CASE SyncTwin(s)
  <2>1. queue[s] # <<>>
    BY <1>6 DEF SyncTwin, Queued
  <2> QED BY <1>6, <2>1, AdvanceEffect DEF SyncTwin, Typed
<1>7. CASE FinishBatch(s) \/ Crash(s) \/ RecordFails(s)
  BY <1>7 DEF FinishBatch, RecordFails, Crash, Abandon, Typed
<1> QED BY <1>1, <1>2, <1>3, <1>4, <1>5, <1>6, <1>7 DEF Act, Step

\* Committed rows stay.
LEMMA TablesGrow ==
    ASSUME Typed, Queued, Held, [Next]_vars
    PROVE  raw \subseteq raw' /\ accepted \subseteq accepted' /\ rejected \subseteq rejected'
<1>1. CASE Load
  BY <1>1 DEF Load, tables
<1>2. ASSUME NEW s \in Sessions, Act(s)
      PROVE  raw \subseteq raw' /\ accepted \subseteq accepted' /\ rejected \subseteq rejected'
  <2>1. CASE Reject(s) \/ Accept(s)
    BY <2>1, RejectEffect, AcceptEffect
  <2>2. CASE ~(Reject(s) \/ Accept(s))
    BY <1>2, <2>2 DEF Act, Step, Submit, SubmitUnreadable, Record, Validate, Compare,
                      SyncTwin, FinishBatch, RecordFails, Crash, Abandon, tables
  <2> QED BY <2>1, <2>2
<1> QED BY <1>1, <1>2, ActOrLoad

LEMMA QueuedStep ==
    ASSUME Typed, Queued, Held, [Next]_vars
    PROVE  Queued'
<1>1. CASE Load
  <2>1. version \in Int
    BY ConfigAssumption DEF Typed
  <2> QED BY <1>1, <2>1 DEF Load, Queued, request
<1>2. ASSUME NEW s \in Sessions, Act(s) PROVE Queued'
  <2> DEFINE QueuedBy(q) ==
        /\ queue[q] \in Seq(RowsOf(q))
        /\ queue[q] = <<>> <=> pc[q] \in {"idle", "finish"}
        /\ Len(queue[q]) <= submitted[q]
        /\ pc[q] # "idle" => version > 0
  <2>1. \A q \in Sessions : QueuedBy(q)
    BY DEF Queued
  <2>2. ASSUME NEW q \in Sessions \ {s} PROVE QueuedBy(q)'
    BY <1>2, <2>1, Elsewhere
  <2>3. submitted[s] \in Nat /\ Len(queue[s]) \in Nat
    BY <2>1 DEF Typed
  <2>4. QueuedBy(s)'
    <3>1. CASE \E r \in Requests[s] : Submit(s, r)
      <4> PICK r \in Requests[s] : Submit(s, r)
        BY <3>1
      <4>1. r.rows \in Seq(RowsOf(s)) /\ r.rows # <<>> /\ Len(r.rows) \in Nat
        BY RowsType DEF Submit
      <4>2. queue'[s] = r.rows /\ pc'[s] = "record" /\ submitted'[s] = submitted[s] + Len(r.rows)
              /\ version' > 0
        BY DEF Submit, Typed
      <4> QED BY <2>3, <4>1, <4>2
    <3>2. CASE \E r \in Requests[s] : SubmitUnreadable(s, r)
      <4> PICK r \in Requests[s] : SubmitUnreadable(s, r)
        BY <3>2
      <4>1. r.rows \in Seq(ObservationIn \cup {Malformed})
        BY RequestsAssumption
      <4>2. Len(r.rows) \in Nat
        BY <4>1
      <4>3. submitted'[s] = submitted[s] + Len(r.rows) /\ UNCHANGED <<queue, pc, version>>
        BY DEF SubmitUnreadable, Typed, request
      <4> QED BY <2>1, <2>3, <4>2, <4>3
    <3>3. CASE Record(s) \/ Validate(s) \/ Compare(s)
      <4>1. UNCHANGED <<queue, submitted, version>>
        BY <3>3 DEF Record, Validate, Compare
      <4>2. pc[s] \in {"record", "validate", "compare"}
              /\ pc'[s] \in {"validate", "compare", "decide"}
        BY <3>3 DEF Record, Validate, Compare, Typed
      <4> QED BY <2>1, <4>1, <4>2
    <3>4. CASE Accept(s)
      <4>1. UNCHANGED <<queue, submitted, version>> /\ pc[s] = "decide" /\ pc'[s] = "sync"
        BY <3>4 DEF Accept, Typed
      <4> QED BY <2>1, <4>1
    <3>5. CASE Reject(s) \/ SyncTwin(s)
      <4>1. queue[s] # <<>> /\ pc[s] # "idle" /\ Advance(s) /\ UNCHANGED <<submitted, version>>
        BY <3>5, <2>1 DEF Reject, SyncTwin
      <4>2. Tail(queue[s]) \in Seq(RowsOf(s)) /\ Len(Tail(queue[s])) = Len(queue[s]) - 1
        BY <2>1, <4>1, RestOfQueue
      <4>3. queue'[s] = Tail(queue[s]) /\ (queue'[s] = <<>> <=> pc'[s] \in {"idle", "finish"})
        BY <4>1, AdvanceEffect
      <4> QED BY <2>1, <2>3, <4>1, <4>2, <4>3
    <3>6. CASE FinishBatch(s)
      <4>1. UNCHANGED <<queue, submitted, version>> /\ pc[s] = "finish" /\ pc'[s] = "idle"
        BY <3>6 DEF FinishBatch, Typed
      <4> QED BY <2>1, <4>1
    <3>7. CASE Crash(s) \/ RecordFails(s)
      <4>1. UNCHANGED <<submitted, version>> /\ queue'[s] = <<>> /\ pc'[s] = "idle"
        BY <3>7 DEF RecordFails, Crash, Abandon, Typed
      <4> QED BY <2>3, <4>1, EmptySeq
    <3> QED BY <1>2, <3>1, <3>2, <3>3, <3>4, <3>5, <3>6, <3>7 DEF Act, Step
  <2> HIDE DEF QueuedBy
  <2>5. \A q \in Sessions : QueuedBy(q)'
    BY <2>2, <2>4
  <2> QED BY <2>5 DEF Queued, QueuedBy
<1> QED BY <1>1, <1>2, ActOrLoad

LEMMA HeldStep ==
    ASSUME Typed, Queued, Held, [Next]_vars
    PROVE  Held'
<1> DEFINE HeldBy(q) ==
      uncommitted[q].raw =
          IF pc[q] \in {"validate", "compare", "decide"} THEN {RawRowOf(q)} ELSE {}
<1>1. \A q \in Sessions : HeldBy(q)
  BY DEF Held, RawRowOf
<1>2. ASSUME \A q \in Sessions : HeldBy(q)' PROVE Held'
  BY <1>2 DEF Held, RawRowOf
<1>3. CASE Load
  <2>1. \A q \in Sessions : HeldBy(q)'
    BY <1>1, <1>3 DEF Load, request, RawRowOf, RowId
  <2> QED BY <1>2, <2>1
<1>4. ASSUME NEW s \in Sessions, Act(s) PROVE Held'
  <2>1. ASSUME NEW q \in Sessions \ {s} PROVE HeldBy(q)'
    BY <1>1, <1>4, <2>1, Elsewhere DEF RawRowOf, RowId
  <2>2. uncommitted[s] \in Transaction /\ Nothing.raw = {}
    BY DEF Typed, Nothing
  <2>3. HeldBy(s)'
    <3>1. CASE \E r \in Requests[s] : Submit(s, r)
      <4> PICK r \in Requests[s] : Submit(s, r)
        BY <3>1
      <4>1. pc[s] = "idle" /\ pc'[s] = "record"
        BY DEF Submit, Typed
      <4>2. uncommitted'[s].raw = uncommitted[s].raw
        BY <2>2 DEF Submit, Typed, Transaction
      <4> QED BY <1>1, <4>1, <4>2
    <3>2. CASE \E r \in Requests[s] : SubmitUnreadable(s, r)
      <4>1. UNCHANGED <<uncommitted, pc>> /\ pc[s] = "idle"
        BY <3>2 DEF SubmitUnreadable, request
      <4> QED BY <1>1, <4>1
    <3>3. CASE Record(s)
      <4>1. pc[s] = "record" /\ pc'[s] = "validate" /\ RawRowOf(s)' = RawRowOf(s)
        BY <3>3 DEF Record, Typed, RawRowOf, RowId
      <4>2. uncommitted'[s].raw = uncommitted[s].raw \cup {RawRowOf(s)}
        BY <2>2, <3>3 DEF Record, Typed, Transaction, RawRowOf
      <4> QED BY <1>1, <4>1, <4>2
    <3>4. CASE Validate(s) \/ Compare(s)
      <4>1. pc[s] \in {"validate", "compare"} /\ pc'[s] \in {"compare", "decide"}
        BY <3>4 DEF Validate, Compare, Typed
      <4>2. RawRowOf(s)' = RawRowOf(s) /\ uncommitted' = uncommitted
        BY <3>4 DEF Validate, Compare, RawRowOf, RowId
      <4> QED BY <1>1, <4>1, <4>2
    <3>5. CASE Reject(s)
      <4>1. uncommitted'[s].raw = {} /\ queue[s] # <<>> /\ Advance(s)
        BY <3>5, RejectEffect DEF Reject
      <4> QED BY <4>1, AdvanceEffect
    <3>6. CASE Accept(s)
      <4>1. uncommitted'[s].raw = {} /\ pc'[s] = "sync"
        BY <3>6, AcceptEffect DEF Accept, Typed
      <4> QED BY <4>1
    <3>7. CASE SyncTwin(s)
      <4>1. queue[s] # <<>> /\ Advance(s) /\ pc[s] = "sync" /\ uncommitted' = uncommitted
        BY <3>7 DEF SyncTwin, Queued
      <4> QED BY <1>1, <4>1, AdvanceEffect
    <3>8. CASE FinishBatch(s) \/ Crash(s) \/ RecordFails(s)
      <4>1. uncommitted'[s] = Nothing /\ pc'[s] = "idle"
        BY <3>8 DEF FinishBatch, RecordFails, Crash, Abandon, Typed
      <4> QED BY <2>2, <4>1
    <3> QED BY <1>4, <3>1, <3>2, <3>3, <3>4, <3>5, <3>6, <3>7, <3>8 DEF Act, Step
  <2> HIDE DEF HeldBy
  <2> QED BY <1>2, <2>1, <2>3
<1> QED BY <1>3, <1>4, ActOrLoad

----------------------------------------------------------------------------
(* Verdicts. *)

\* A session never judges backwards.
LEMMA JudgedStep ==
    ASSUME Typed, Queued, Held, NEW s \in Sessions, Act(s)
    PROVE  Judged(s) \in Int /\ Judged(s)' \in Int /\ Judged(s) <= Judged(s)'
<1>1. /\ submitted[s] \in Nat /\ Len(queue[s]) \in Nat /\ Len(queue[s]) <= submitted[s]
      /\ queue[s] = <<>> <=> pc[s] \in {"idle", "finish"}
      /\ Len(<<>>) = 0
  BY EmptySeq DEF Typed, Queued
<1>2. CASE \E r \in Requests[s] : Submit(s, r)
  <2> PICK r \in Requests[s] : Submit(s, r)
    BY <1>2
  <2>1. Len(r.rows) \in Nat
    BY RowsType DEF Submit
  <2>2. /\ pc[s] = "idle" /\ pc'[s] = "record" /\ queue'[s] = r.rows
        /\ submitted'[s] = submitted[s] + Len(r.rows)
    BY DEF Submit, Typed
  <2> QED BY <1>1, <2>1, <2>2 DEF Judged
<1>3. CASE \E r \in Requests[s] : SubmitUnreadable(s, r)
  <2> PICK r \in Requests[s] : SubmitUnreadable(s, r)
    BY <1>3
  <2>1. r.rows \in Seq(ObservationIn \cup {Malformed})
    BY RequestsAssumption
  <2>2. Len(r.rows) \in Nat
    BY <2>1
  <2>3. pc[s] = "idle" /\ UNCHANGED <<pc, queue>>
          /\ submitted'[s] = submitted[s] + Len(r.rows)
    BY DEF SubmitUnreadable, Typed, request
  <2> QED BY <1>1, <2>2, <2>3 DEF Judged
<1>4. CASE Record(s) \/ Validate(s) \/ Compare(s)
  <2>1. /\ pc[s] \in {"record", "validate", "compare"}
        /\ pc'[s] \in {"validate", "compare", "decide"} /\ UNCHANGED <<queue, submitted>>
    BY <1>4 DEF Record, Validate, Compare, Typed
  <2> QED BY <1>1, <2>1 DEF Judged
<1>5. CASE Reject(s) \/ SyncTwin(s)
  <2>1. queue[s] # <<>> /\ pc[s] \in {"decide", "sync"} /\ Advance(s) /\ UNCHANGED submitted
    BY <1>1, <1>5 DEF Reject, SyncTwin
  <2>2. queue'[s] = Tail(queue[s]) /\ pc'[s] # "sync"
    BY <2>1, AdvanceEffect
  <2>3. Len(Tail(queue[s])) = Len(queue[s]) - 1
    BY <2>1, RestOfQueue DEF Queued
  <2> QED BY <1>1, <2>1, <2>2, <2>3 DEF Judged
<1>6. CASE Accept(s)
  <2>1. queue[s] # <<>> /\ pc[s] = "decide" /\ pc'[s] = "sync" /\ UNCHANGED <<queue, submitted>>
    BY <1>1, <1>6 DEF Accept, Typed
  <2> QED BY <1>1, <2>1 DEF Judged
<1>7. CASE FinishBatch(s)
  <2>1. pc[s] = "finish" /\ pc'[s] = "idle" /\ UNCHANGED <<queue, submitted>>
    BY <1>7 DEF FinishBatch, Typed
  <2> QED BY <1>1, <2>1 DEF Judged
<1>8. CASE Crash(s) \/ RecordFails(s)
  <2>1. pc'[s] = "idle" /\ queue'[s] = <<>> /\ UNCHANGED submitted
    BY <1>8 DEF RecordFails, Crash, Abandon, Typed
  <2>2. pc[s] = "sync" => Len(queue[s]) > 0
    BY <1>1, RestOfQueue DEF Queued
  <2> QED BY <1>1, <2>1, <2>2 DEF Judged
<1> QED BY <1>2, <1>3, <1>4, <1>5, <1>6, <1>7, <1>8 DEF Act, Step

\* A verdict is on the next row.
LEMMA JudgedNext ==
    ASSUME Typed, Queued, NEW s \in Sessions, Reject(s) \/ Accept(s)
    PROVE  Judged(s)' = RowId(s)[2] /\ Judged(s) = RowId(s)[2] - 1
<1>1. queue[s] # <<>> /\ pc[s] = "decide" /\ submitted' = submitted
  BY DEF Reject, Accept, Queued
<1>2. /\ RowId(s)[2] = submitted[s] - Len(queue[s]) + 1
      /\ submitted[s] \in Nat /\ Len(queue[s]) \in Nat
  BY <1>1, RowIdType
<1>3. CASE Reject(s)
  <2>1. Len(Tail(queue[s])) = Len(queue[s]) - 1
    BY <1>1, RestOfQueue DEF Queued
  <2>2. queue'[s] = Tail(queue[s]) /\ pc'[s] # "sync"
    BY <1>1, <1>3, AdvanceEffect DEF Reject
  <2> QED BY <1>1, <1>2, <2>1, <2>2 DEF Judged
<1>4. CASE Accept(s)
  <2>1. pc'[s] = "sync" /\ queue' = queue
    BY <1>4 DEF Accept, Typed
  <2> QED BY <1>1, <1>2, <2>1 DEF Judged
<1> QED BY <1>3, <1>4

LEMMA IdsUsedStep ==
    ASSUME Typed, Queued, Held, IdsUsed, [Next]_vars
    PROVE  IdsUsed'
<1>1. \A r \in raw : r.id[1] \in Sessions /\ r.id[2] \in Int
  BY RequestsAssumption DEF Typed, RawRow, Ids
<1>2. CASE Load
  BY <1>2 DEF Load, tables, request, IdsUsed, Judged
<1>3. ASSUME NEW s \in Sessions, Act(s) PROVE IdsUsed'
  <2>1. \A q \in Sessions : Judged(q) \in Int /\ Judged(q)' \in Int /\ Judged(q) <= Judged(q)'
    <3>1. ASSUME NEW q \in Sessions \ {s} PROVE Judged(q)' = Judged(q)
      BY <1>3, Elsewhere DEF Judged
    <3>2. \A q \in Sessions : Judged(q) \in Int
      <4>1. \A q \in Sessions : submitted[q] \in Nat /\ Len(queue[q]) \in Nat
        BY EmptySeq DEF Typed
      <4> QED BY <4>1 DEF Judged
    <3> QED BY <1>3, <3>1, <3>2, JudgedStep
  <2>2. \A r \in raw : r.id[2] <= Judged(r.id[1])'
    BY <1>1, <2>1 DEF IdsUsed
  <2>3. CASE Reject(s) \/ Accept(s)
    <3>1. raw' = raw \cup {RawRowOf(s)} /\ queue[s] # <<>>
      BY <2>3, RejectEffect, AcceptEffect
    <3>2. RawRowOf(s).id = RowId(s) /\ RowId(s)[1] = s /\ Judged(s)' = RowId(s)[2]
      BY <2>3, <3>1, RowIdType, JudgedNext DEF RawRowOf
    <3> QED BY <2>1, <2>2, <3>1, <3>2 DEF IdsUsed
  <2>4. CASE ~(Reject(s) \/ Accept(s))
    <3>1. raw' = raw
      BY <1>3, <2>4 DEF Act, Step, Submit, SubmitUnreadable, Record, Validate, Compare,
                        SyncTwin, FinishBatch, RecordFails, Crash, Abandon, tables
    <3> QED BY <2>2, <3>1 DEF IdsUsed
  <2> QED BY <2>3, <2>4
<1> QED BY <1>2, <1>3, ActOrLoad

\* A row that is about to be judged is in none of the tables.
LEMMA UnjudgedIsNew ==
    ASSUME Typed, Queued, IdsUsed, Paired, NEW s \in Sessions, Reject(s) \/ Accept(s)
    PROVE  /\ \A r \in raw : r.id # RowId(s)
           /\ \A a \in accepted \cup rejected : a.raw # RowId(s)
<1>1. Judged(s) = RowId(s)[2] - 1 /\ RowId(s)[1] = s /\ RowId(s)[2] \in Int
  <2>1. queue[s] # <<>>
    BY DEF Reject, Accept, Queued
  <2> QED BY <2>1, JudgedNext, RowIdType
<1>2. \A r \in raw : r.id # RowId(s)
  BY <1>1 DEF IdsUsed
<1>3. \A a \in accepted \cup rejected : RawOf(a) \in raw /\ RawOf(a).id = a.raw
  BY DEF Paired, RawOf
<1> QED BY <1>2, <1>3

LEMMA PairedStep ==
    ASSUME Typed, Queued, Held, IdsUsed, Paired, [Next]_vars
    PROVE  Paired'
<1>1. CASE \E s \in Sessions : Reject(s) \/ Accept(s)
  <2> PICK s \in Sessions : Reject(s) \/ Accept(s)
    BY <1>1
  <2>1. /\ raw' = raw \cup {RawRowOf(s)} /\ queue[s] # <<>>
        /\ \/ accepted' = accepted /\ rejected' = rejected \cup {Row(s)}
           \/ accepted' = accepted \cup {Row(s)} /\ rejected' = rejected
    BY RejectEffect, AcceptEffect
  <2>2. /\ \A r \in raw : r.id # RowId(s)
        /\ \A a \in accepted \cup rejected : a.raw # RowId(s)
    BY UnjudgedIsNew
  <2>3. /\ RawRowOf(s).id = RowId(s) /\ Row(s).raw = RowId(s)
        /\ VerdictOf(RawRowOf(s)) = Row(s) /\ RawOf(Row(s)) = RawRowOf(s)
    BY <2>1, RowTypes DEF RawRowOf, Row
  <2>4. \A r, q \in raw' : r.id = q.id => r = q
    BY <2>1, <2>2, <2>3 DEF Paired
  <2>5. \A a \in accepted' \cup rejected' : RawOf(a) \in raw'
    BY <2>1, <2>3 DEF Paired
  <2>6. ASSUME NEW r \in raw'
        PROVE  VerdictOf(r) \in accepted' <=> VerdictOf(r) \notin rejected'
    <3>1. CASE r \in raw
      <4>1. VerdictOf(r) # Row(s)
        BY <2>2, <2>3, <3>1 DEF VerdictOf
      <4>2. VerdictOf(r) \in accepted <=> VerdictOf(r) \notin rejected
        BY <3>1 DEF Paired
      <4> QED BY <2>1, <4>1, <4>2
    <3>2. CASE r = RawRowOf(s)
      <4>1. Row(s) \notin accepted \cup rejected
        BY <2>2, <2>3
      <4> QED BY <2>1, <2>3, <3>2, <4>1
    <3> QED BY <2>1, <3>1, <3>2
  <2>7. \A r : VerdictOf(r)' = VerdictOf(r) /\ RawOf(r)' = RawOf(r)
    BY DEF VerdictOf, RawOf
  <2> QED BY <2>4, <2>5, <2>6, <2>7 DEF Paired
<1>2. CASE ~\E s \in Sessions : Reject(s) \/ Accept(s)
  <2>1. UNCHANGED <<raw, accepted, rejected>>
    BY <1>2 DEF Next, Upsert, InitTwin, Quiet, vars, Step, Submit, SubmitUnreadable, Record,
                Validate, Compare, SyncTwin, FinishBatch, RecordFails, Crash, Abandon, tables
  <2> QED BY <2>1 DEF Paired, VerdictOf, RawOf
<1> QED BY <1>1, <1>2

LEMMA PassedStep ==
    ASSUME Typed, Queued, Held, Passed, [Next]_vars
    PROVE  Passed'
<1> DEFINE PassedBy(q) ==
      pc[q] = "compare" \/ (pc[q] \in {"decide", "sync"} /\ verdict[q].reasons = {}) =>
          /\ verdict[q].config > 0
          /\ Reasons(Head(queue[q]), Config[verdict[q].config]) = {}
<1>1. CASE Load
  BY <1>1 DEF Load, request, Passed
<1>2. ASSUME NEW s \in Sessions, Act(s) PROVE Passed'
  <2>1. ASSUME NEW q \in Sessions \ {s} PROVE PassedBy(q)'
    BY <1>2, <2>1, Elsewhere DEF Passed
  <2>2. PassedBy(s)'
    <3>1. CASE Validate(s)
      <4>1. version > 0 /\ queue' = queue
        BY <3>1 DEF Validate, Queued
      <4>2. verdict'[s] = [reasons |-> Reasons(Head(queue[s]), Config[version]),
                           config |-> version]
        BY <3>1 DEF Validate, Typed
      <4>3. pc'[s] = IF Reasons(Head(queue[s]), Config[version]) = {} THEN "compare" ELSE "decide"
        BY <3>1 DEF Validate, Typed
      <4> HIDE DEF Reasons
      <4> QED BY <4>1, <4>2, <4>3
    <3>2. CASE Compare(s)
      <4>1. verdict[s] \in Verdict /\ pc[s] = "compare" /\ queue' = queue
        BY <3>2 DEF Compare, Typed
      <4>2. verdict'[s].config = verdict[s].config
        BY <3>2, <4>1 DEF Compare, Typed, Verdict
      <4> QED BY <4>1, <4>2 DEF Passed
    <3>3. CASE Accept(s)
      <4>1. pc[s] = "decide" /\ verdict[s].reasons = {} /\ UNCHANGED <<queue, verdict>>
        BY <3>3 DEF Accept
      <4> QED BY <4>1 DEF Passed
    <3>4. CASE Reject(s) \/ SyncTwin(s)
      <4>1. queue[s] # <<>> /\ Advance(s)
        BY <3>4 DEF Reject, SyncTwin, Queued
      <4>2. pc'[s] \in {"record", "idle", "finish"}
        BY <4>1, AdvanceEffect
      <4> QED BY <4>2
    <3>5. CASE Record(s) \/ FinishBatch(s) \/ Crash(s) \/ RecordFails(s) \/ \E r \in Requests[s] : Submit(s, r)
      <4>1. pc'[s] \in {"validate", "idle", "record"}
        BY <3>5 DEF Record, FinishBatch, RecordFails, Crash, Abandon, Submit, Typed
      <4> QED BY <4>1
    <3>6. CASE \E r \in Requests[s] : SubmitUnreadable(s, r)
      <4>1. pc'[s] = "idle"
        BY <3>6 DEF SubmitUnreadable, request
      <4> QED BY <4>1
    <3> QED BY <1>2, <3>1, <3>2, <3>3, <3>4, <3>5, <3>6 DEF Act, Step
  <2> HIDE DEF PassedBy
  <2>3. \A q \in Sessions : PassedBy(q)'
    BY <2>1, <2>2
  <2> QED BY <2>3 DEF Passed, PassedBy
<1> QED BY <1>1, <1>2, ActOrLoad

LEMMA AcceptedStep ==
    ASSUME Typed, Queued, Held, Accepted, [Next]_vars
    PROVE  Accepted'
<1> DEFINE AcceptedBy(q) == pc[q] = "sync" => Row(q) \in accepted /\ verdict[q].reasons = {}
<1>1. accepted \subseteq accepted'
  BY TablesGrow
<1>2. CASE Load
  BY <1>2 DEF Load, request, tables, Accepted, Row, RowId
<1>3. ASSUME NEW s \in Sessions, Act(s) PROVE Accepted'
  <2>1. ASSUME NEW q \in Sessions \ {s} PROVE AcceptedBy(q)'
    BY <1>1, <1>3, <2>1, Elsewhere DEF Accepted, Row, RowId
  <2>2. CASE Accept(s)
    <3>1. Row(s)' = Row(s) /\ Row(s) \in accepted' /\ verdict'[s].reasons = {}
      BY <2>2, AcceptEffect DEF Accept, Row, RowId
    <3> QED BY <2>1, <3>1 DEF Accepted
  <2>3. CASE ~Accept(s)
    <3>1. CASE Reject(s) \/ SyncTwin(s)
      <4>1. queue[s] # <<>> /\ Advance(s)
        BY <3>1 DEF Reject, SyncTwin, Queued
      <4>2. pc'[s] \in {"record", "idle", "finish"}
        BY <4>1, AdvanceEffect
      <4> QED BY <2>1, <4>2 DEF Accepted
    <3>2. CASE ~(Reject(s) \/ SyncTwin(s))
      <4>1. pc'[s] # "sync"
        BY <1>3, <2>3, <3>2 DEF Act, Step, Submit, SubmitUnreadable, Record, Validate, Compare,
                                FinishBatch, RecordFails, Crash, Abandon, request, Typed
      <4> QED BY <2>1, <4>1 DEF Accepted
    <3> QED BY <3>1, <3>2
  <2> QED BY <2>2, <2>3
<1> QED BY <1>2, <1>3, ActOrLoad

----------------------------------------------------------------------------
(* What validation guarantees. *)

LEMMA KindsFinite ==
    ASSUME NEW o
    PROVE  IsFiniteSet(Kinds(o))
<1>1. IsFiniteSet(KINDS)
  <2>1. KINDS = ({"gate_id"} \cup {"parking_lot_id"}) \cup {"event_type"}
    BY DEF KINDS
  <2> QED BY <2>1, FS_Singleton, FS_Union
<1> QED BY <1>1, FS_Subset DEF Kinds

\* An observation without a reason against it names one thing.
LEMMA OneKind ==
    ASSUME NEW o, NEW c, Reasons(o, c) = {}
    PROVE  /\ Cardinality(Kinds(o)) = 1 /\ Failed(Measured(o, c)) = {}
           /\ \E k \in KINDS : Kinds(o) = {k} /\ Subject(o) = o[k] /\ (CHOOSE x \in Kinds(o) : TRUE) = k
<1>1. "one_kind" \notin Failed(Labelled(o)) /\ Failed(Measured(o, c)) = {}
  BY DEF Reasons
<1>2. Cardinality(Kinds(o)) = 1
  BY <1>1 DEF Failed, Labelled
<1>3. PICK k : Kinds(o) = {k}
  BY <1>2, KindsFinite, FS_Singleton
<1>4. k \in KINDS /\ (CHOOSE x \in Kinds(o) : TRUE) = k
  BY <1>3 DEF Kinds
<1> QED BY <1>1, <1>2, <1>3, <1>4 DEF Subject

\* The twin is asked to show it there, and can: the entity is one of the
\* configuration it was validated against, below its ceiling.
LEMMA AcceptableTarget ==
    ASSUME NEW o \in ObservationIn, NEW v \in DOMAIN Config, Reasons(o, Config[v]) = {},
           Target(o) \in Entities
    PROVE  /\ Subject(o) = Target(o) /\ Target(o) \in DOMAIN Config[v]
           /\ Target(o) \in Lots => o.amount <= Config[v][Target(o)].total
<1> DEFINE c == Config[v]
           m == Measured(o, c)
<1>1. PICK k \in KINDS : Kinds(o) = {k} /\ Subject(o) = o[k] /\ (CHOOSE x \in Kinds(o) : TRUE) = k
  BY OneKind
<1>2. m = [timestamp |-> o.timestamp \in Plausible,
           known |-> k = "event_type" \/ Subject(o) \in DOMAIN c,
           required |-> o.amount # NULL,
           range |-> o.amount # NULL =>
                        o.amount >= 0 /\ (k = "event_type" => o.amount <= 5),
           ceiling |-> (k = "parking_lot_id" /\ Subject(o) \in DOMAIN c /\ o.amount # NULL) =>
                          o.amount <= c[Subject(o)].total]
  BY <1>1 DEF Measured
<1>3. m.known /\ m.required /\ m.ceiling
  <2>1. \A r \in DOMAIN m : m[r]
    BY OneKind DEF Failed
  <2> HIDE DEF m, c
  <2>2. DOMAIN m = {"timestamp", "known", "required", "range", "ceiling"}
    BY <1>2
  <2> QED BY <2>1, <2>2
<1>4. /\ k = "event_type" \/ Subject(o) \in DOMAIN c
      /\ o.amount # NULL
      /\ (k = "parking_lot_id" /\ Subject(o) \in DOMAIN c /\ o.amount # NULL) =>
            o.amount <= c[Subject(o)].total
  <2> HIDE DEF m, c
  <2> QED BY <1>2, <1>3
<1>5. CASE o.parking_lot_id # NULL
  <2>1. Target(o) = o.parking_lot_id /\ o.parking_lot_id # Blank
    BY <1>5, BlankAssumption DEF Target
  <2>2. k = "parking_lot_id"
    BY <1>1, <1>5, <2>1 DEF Kinds, KINDS
  <2> QED BY <1>1, <1>4, <2>1, <2>2
<1>6. CASE o.parking_lot_id = NULL
  <2>1. Target(o) = o.gate_id /\ o.gate_id \notin {NULL, Blank}
    BY <1>6, NamesAssumption, BlankAssumption DEF Target
  <2>2. k = "gate_id"
    BY <1>1, <2>1 DEF Kinds, KINDS
  <2>3. o.gate_id \in Gates
    BY <2>1 DEF ObservationIn
  <2> QED BY <1>1, <1>4, <2>1, <2>2, <2>3, NamesAssumption
<1> QED BY <1>5, <1>6

LEMMA TwinShowsStep ==
    ASSUME Typed, Queued, Held, Passed, Accepted, TwinShowsOnlyAccepted, [Next]_vars
    PROVE  TwinShowsOnlyAccepted'
<1>1. accepted \subseteq accepted'
  BY TablesGrow
<1>2. CASE \E s \in Sessions : SyncTwin(s)
  <2> PICK s \in Sessions : SyncTwin(s)
    BY <1>2
  <2> DEFINE o == Head(queue[s])
  <2>1. Row(s) \in accepted /\ Row(s).obs = o /\ o \in ObservationIn
    <3>1. queue[s] # <<>> /\ pc[s] = "sync"
      BY DEF SyncTwin, Queued
    <3> QED BY <3>1, RowIdType, ObservationType DEF Accepted, Row
  <2>2. CASE twin' = twin
    BY <1>1, <2>2 DEF TwinShowsOnlyAccepted
  <2>3. CASE ~Missing(Target(o)) /\ twin' = [twin EXCEPT ![Target(o)] = o]
    <3>1. Len(Config) \in Nat /\ DOMAIN Config = 1..Len(Config)
      BY ConfigAssumption
    <3>2. twinVersion \in DOMAIN Config /\ Target(o) \in DOMAIN Config[twinVersion]
      BY <2>3, <3>1 DEF Missing, Typed
    <3>3. Target(o) \in Entities
      BY <3>2, ConfigAssumption
    <3>4. verdict[s].config \in DOMAIN Config /\ Reasons(o, Config[verdict[s].config]) = {}
      <4>1. pc[s] = "sync" /\ verdict[s].reasons = {}
        BY DEF SyncTwin, Accepted
      <4>2. verdict[s].config > 0 /\ Reasons(o, Config[verdict[s].config]) = {}
        BY <4>1 DEF Passed
      <4>3. verdict[s].config \in 0..Len(Config)
        BY DEF Typed, Verdict
      <4> QED BY <3>1, <4>2, <4>3
    <3>5. Subject(o) = Target(o)
      BY <2>1, <3>3, <3>4, AcceptableTarget
    <3>6. ASSUME NEW e \in Entities, twin'[e] # NULL
          PROVE  \E a \in accepted' : a.obs = twin'[e] /\ Subject(a.obs) = e
      <4>1. CASE e = Target(o)
        <5>1. twin'[e] = o
          BY <2>3, <4>1 DEF Typed
        <5> HIDE DEF o
        <5> QED BY <1>1, <2>1, <3>5, <4>1, <5>1
      <4>2. CASE e # Target(o)
        <5>1. twin'[e] = twin[e]
          BY <2>3, <4>2 DEF Typed
        <5> QED BY <1>1, <3>6, <5>1 DEF TwinShowsOnlyAccepted
      <4> QED BY <4>1, <4>2
    <3> QED BY <3>6 DEF TwinShowsOnlyAccepted
  <2> QED BY <2>2, <2>3 DEF SyncTwin
<1>3. CASE ~\E s \in Sessions : SyncTwin(s)
  <2>1. twin' = twin
    BY <1>3 DEF Next, Upsert, InitTwin, Quiet, vars, Step, Submit, SubmitUnreadable, Record,
                Validate, Compare, Reject, Accept, FinishBatch, RecordFails, Crash, Abandon
  <2> QED BY <1>1, <2>1 DEF TwinShowsOnlyAccepted
<1> QED BY <1>2, <1>3

----------------------------------------------------------------------------
(* The inductive invariant holds. *)

LEMMA IInvInit == Init => IInv
<1>1. Init => Queued
  BY EmptySeq, RequestsAssumption DEF Init, Queued
<1>2. Init => Held /\ IdsUsed /\ Paired /\ Passed /\ Accepted /\ TwinShowsOnlyAccepted
  BY DEF Init, Held, Nothing, IdsUsed, Paired, Passed, Accepted, TwinShowsOnlyAccepted
<1> QED BY <1>1, <1>2, TypedInit DEF IInv

LEMMA IInvStep ==
    ASSUME IInv, [Next]_vars
    PROVE  IInv'
  BY TypedStep, QueuedStep, HeldStep, IdsUsedStep, PairedStep, PassedStep, AcceptedStep,
     TwinShowsStep DEF IInv

THEOREM Invariance == Spec => []IInv
  BY IInvInit, IInvStep, PTL DEF Spec

\* Every variable keeps its type: ids within the bound of their session,
\* queues of readable observations, counters that never go below zero.
THEOREM TypeCorrect == Spec => []TypeOK
<1>1. IInv => TypeOK
  <2> SUFFICES ASSUME IInv PROVE TypeOK
    OBVIOUS
  <2>1. \A s \in Sessions : submitted[s] \in 0..MaxRows[s]
    BY RequestsAssumption DEF IInv, Typed
  <2>2. \A s \in Sessions : uncommitted[s].raw \subseteq RawRow /\ uncommitted[s].batches \subseteq BatchRow
    BY DEF IInv, Typed, Transaction
  <2> QED BY <2>1, <2>2 DEF IInv, Typed, TypeOK, Control
<1> QED BY <1>1, Invariance, PTL

\* Every committed raw row has exactly one verdict and every verdict its raw
\* row, wherever in its request a server may have died.
THEOREM OneVerdict == Spec => []RawHasOneVerdict
<1>1. IInv => RawHasOneVerdict
  <2> SUFFICES ASSUME IInv PROVE RawHasOneVerdict
    OBVIOUS
  <2>1. ASSUME NEW r \in raw
        PROVE  Cardinality({a \in accepted : a.raw = r.id})
                 + Cardinality({a \in rejected : a.raw = r.id}) = 1
    <3>1. \A a \in accepted \cup rejected : a.raw = r.id => a = VerdictOf(r)
      <4> SUFFICES ASSUME NEW a \in accepted \cup rejected, a.raw = r.id
                   PROVE  a = VerdictOf(r)
        OBVIOUS
      <4>1. RawOf(a) = r
        BY DEF IInv, Paired, RawOf
      <4>2. a = [raw |-> a.raw, obs |-> a.obs, batch |-> a.batch]
        BY DEF IInv, Typed, VerdictRow
      <4> QED BY <4>1, <4>2 DEF RawOf, VerdictOf
    <3>2. VerdictOf(r).raw = r.id
      BY DEF VerdictOf
    <3>3. VerdictOf(r) \in accepted <=> VerdictOf(r) \notin rejected
      BY DEF IInv, Paired
    <3>4. CASE VerdictOf(r) \in accepted
      <4>1. {a \in accepted : a.raw = r.id} = {VerdictOf(r)} /\ {a \in rejected : a.raw = r.id} = {}
        BY <3>1, <3>2, <3>3, <3>4
      <4>2. Cardinality({a \in accepted : a.raw = r.id}) = 1
        BY <4>1, FS_Singleton
      <4>3. Cardinality({a \in rejected : a.raw = r.id}) = 0
        BY <4>1, FS_EmptySet
      <4> QED BY <4>2, <4>3
    <3>5. CASE VerdictOf(r) \notin accepted
      <4>1. {a \in rejected : a.raw = r.id} = {VerdictOf(r)} /\ {a \in accepted : a.raw = r.id} = {}
        BY <3>1, <3>2, <3>3, <3>5
      <4>2. Cardinality({a \in rejected : a.raw = r.id}) = 1
        BY <4>1, FS_Singleton
      <4>3. Cardinality({a \in accepted : a.raw = r.id}) = 0
        BY <4>1, FS_EmptySet
      <4> QED BY <4>2, <4>3
    <3> QED BY <3>4, <3>5
  <2>2. \A a \in accepted \cup rejected : \E r \in raw : r.id = a.raw /\ r.obs = a.obs /\ r.batch = a.batch
    BY DEF IInv, Paired, RawOf
  <2> QED BY <2>1, <2>2 DEF RawHasOneVerdict
<1> QED BY <1>1, Invariance, PTL

\* The twin shows of an entity only what was accepted for that entity: no
\* reading that was rejected, or that a crash rolled back, ever gets there.
THEOREM TwinShows == Spec => []TwinShowsOnlyAccepted
<1>1. IInv => TwinShowsOnlyAccepted
  BY DEF IInv
<1> QED BY <1>1, Invariance, PTL

\* The second check of the ceiling fails only if the twin's copy of the
\* configuration is another than the one the row was validated against.
THEOREM SyncFails == Spec => []SyncFailsOnlyAcrossReload
<1>1. IInv => SyncFailsOnlyAcrossReload
  <2> SUFFICES ASSUME IInv, NEW s \in Sessions, pc[s] = "sync",
                      Target(Head(queue[s])) \in Entities,
                      verdict[s].config = twinVersion
               PROVE  ~Missing(Target(Head(queue[s])))
                        /\ ~OverTwinCeiling(Target(Head(queue[s])), Head(queue[s]))
    BY DEF SyncFailsOnlyAcrossReload
  <2> DEFINE o == Head(queue[s])
  <2>1. Len(Config) \in Nat /\ DOMAIN Config = 1..Len(Config)
    BY ConfigAssumption
  <2>2. verdict[s].config > 0 /\ Reasons(o, Config[verdict[s].config]) = {}
    BY DEF IInv, Passed, Accepted
  <2>3. twinVersion \in DOMAIN Config /\ Reasons(o, Config[twinVersion]) = {} /\ twinVersion # 0
    BY <2>1, <2>2 DEF IInv, Typed
  <2>4. o \in ObservationIn
    <3>1. queue[s] # <<>>
      BY DEF IInv, Queued
    <3> QED BY <3>1, RowIdType, ObservationType DEF IInv
  <2>5. Target(o) \in DOMAIN Config[twinVersion]
          /\ (Target(o) \in Lots => o.amount <= Config[twinVersion][Target(o)].total)
    BY <2>3, <2>4, AcceptableTarget
  <2>6. o.amount # NULL
    <3>1. "required" \notin Failed(Measured(o, Config[twinVersion]))
      BY <2>3, OneKind
    <3> QED BY <3>1 DEF Failed, Measured
  <2>7. o.amount \in Int
    BY <2>4, <2>6 DEF ObservationIn
  <2>8. Target(o) \in Lots => Config[twinVersion][Target(o)].total \in Nat
    BY <2>3, <2>5, ConfigAssumption
  <2> QED BY <2>3, <2>5, <2>7, <2>8 DEF Missing, OverTwinCeiling
<1> QED BY <1>1, Invariance, PTL

----------------------------------------------------------------------------
(* No duplicates. *)

LEMMA ComparedStep ==
    ASSUME Typed, Queued, Held, IdsUsed, Paired, Compared, [Next]_vars
    PROVE  Compared'
<1>k. ASSUME NEW o, NEW p, SameKey(o, p) PROVE SameKey(p, o)
  BY <1>k DEF SameKey
<1> DEFINE ComparedBy(q) ==
      pc[q] = "decide" /\ verdict[q].reasons = {} =>
          \A a \in accepted : a.raw[1] = q => ~SameKey(a.obs, Head(queue[q]))
<1>1. CASE Load
  BY <1>1 DEF Load, tables, request, Compared, NoDuplicateOfOneClient
<1>2. ASSUME NEW s \in Sessions, Act(s), ~Accept(s) PROVE Compared'
  <2>1. accepted' = accepted
    <3>1. CASE Reject(s)
      BY <3>1, RejectEffect
    <3>2. CASE ~Reject(s)
      BY <1>2, <3>2 DEF Act, Step, Submit, SubmitUnreadable, Record, Validate, Compare,
                        SyncTwin, FinishBatch, RecordFails, Crash, Abandon, tables
    <3> QED BY <3>1, <3>2
  <2>2. ASSUME NEW q \in Sessions \ {s} PROVE ComparedBy(q)'
    BY <1>2, <2>1, <2>2, Elsewhere DEF Compared
  <2>3. ComparedBy(s)'
    <3>1. CASE Compare(s)
      <4>1. verdict[s] \in Verdict /\ queue' = queue
        BY <3>1 DEF Compare, Typed
      <4>2. verdict'[s].reasons =
               IF IsDuplicate(Head(queue[s]), accepted) THEN {"duplicate"} ELSE {}
        BY <3>1, <4>1 DEF Compare, Typed, Verdict
      <4>3. verdict'[s].reasons = {} => ~IsDuplicate(Head(queue[s]), accepted)
        BY <4>2
      <4> QED BY <2>1, <4>1, <4>3 DEF IsDuplicate
    <3>2. CASE Validate(s)
      <4>1. verdict'[s].reasons = Reasons(Head(queue[s]), Config[version])
        BY <3>2 DEF Validate, Typed
      <4>2. pc'[s] = IF Reasons(Head(queue[s]), Config[version]) = {} THEN "compare" ELSE "decide"
        BY <3>2 DEF Validate, Typed
      <4> HIDE DEF Reasons
      <4> QED BY <4>1, <4>2
    <3>3. CASE Reject(s) \/ SyncTwin(s)
      <4>1. queue[s] # <<>> /\ Advance(s)
        BY <3>3 DEF Reject, SyncTwin, Queued
      <4>2. pc'[s] \in {"record", "idle", "finish"}
        BY <4>1, AdvanceEffect
      <4> QED BY <4>2
    <3>4. CASE ~(Compare(s) \/ Validate(s) \/ Reject(s) \/ SyncTwin(s))
      <4>1. pc'[s] # "decide"
        BY <1>2, <3>4 DEF Act, Step, Submit, SubmitUnreadable, Record, FinishBatch, RecordFails, Crash, Abandon,
                          request, Typed
      <4> QED BY <4>1
    <3> QED BY <3>1, <3>2, <3>3, <3>4
  <2> HIDE DEF ComparedBy
  <2>4. \A q \in Sessions : ComparedBy(q)'
    BY <2>2, <2>3
  <2> QED BY <2>1, <2>4 DEF Compared, NoDuplicateOfOneClient, ComparedBy
<1>3. ASSUME NEW s \in Sessions, Accept(s) PROVE Compared'
  <2>1. /\ accepted' = accepted \cup {Row(s)} /\ queue[s] # <<>> /\ pc[s] = "decide"
        /\ verdict[s].reasons = {}
    BY <1>3, AcceptEffect DEF Accept
  <2>2. /\ Row(s).obs = Head(queue[s]) /\ Row(s).raw = RowId(s) /\ RowId(s)[1] = s
        /\ Head(queue[s]) \in RowsOf(s)
    BY <2>1, RowIdType DEF Row
  <2>3. \A a \in accepted' : a.obs \in RowsOf(a.raw[1])
    BY <2>1, <2>2 DEF Compared
  <2>4. \A a \in accepted : a.raw[1] = s =>
            ~SameKey(a.obs, Row(s).obs) /\ ~SameKey(Row(s).obs, a.obs)
    BY <1>k, <2>1, <2>2 DEF Compared
  <2>5. NoDuplicateOfOneClient'
    <3>1. ASSUME NEW a \in accepted', NEW b \in accepted', a.raw # b.raw, a.raw[1] = b.raw[1]
          PROVE  ~SameKey(a.obs, b.obs)
      BY <2>1, <2>2, <2>4, <3>1 DEF Compared, NoDuplicateOfOneClient
    <3> QED BY <3>1 DEF NoDuplicateOfOneClient
  <2>6. ASSUME NEW q \in Sessions PROVE ComparedBy(q)'
    <3>1. CASE q = s
      <4>1. pc'[s] = "sync"
        BY <1>3 DEF Accept, Typed
      <4> QED BY <3>1, <4>1
    <3>2. CASE q # s
      <4>1. pc'[q] = pc[q] /\ verdict'[q] = verdict[q] /\ queue'[q] = queue[q]
        BY <1>3, <3>2, Elsewhere DEF Act, Step
      <4> QED BY <2>1, <2>2, <3>2, <4>1 DEF Compared
    <3> QED BY <3>1, <3>2
  <2> HIDE DEF ComparedBy
  <2>7. \A q \in Sessions : ComparedBy(q)'
    BY <2>6
  <2> QED BY <2>3, <2>5, <2>7 DEF Compared, ComparedBy
<1> QED BY <1>1, <1>2, <1>3, ActOrLoad

THEOREM ComparedInvariance == Spec => []Compared
<1>1. Init => Compared
  BY DEF Init, Compared, NoDuplicateOfOneClient
<1>2. IInv /\ Compared /\ [Next]_vars => Compared'
  BY ComparedStep DEF IInv
<1> QED BY <1>1, <1>2, Invariance, PTL DEF Spec

\* Whatever else is uploaded meanwhile, a client that sends a row again, after
\* a crash of the server or in one file, never has it accepted twice: its
\* earlier rows are committed before the SELECT of the duplicates runs.
THEOREM RetriesAreSafe == Spec => []NoDuplicateOfOneClient
<1>1. Compared => NoDuplicateOfOneClient
  BY DEF Compared
<1> QED BY <1>1, ComparedInvariance, PTL

\* No two accepted observations have one key as long as no two clients send
\* observations of one key.
THEOREM NoDuplicates ==
    ASSUME KeysOfTheirOwn
    PROVE  Spec => []NoDuplicateAccepted
<1>1. IInv /\ Compared => NoDuplicateAccepted
  <2> SUFFICES ASSUME IInv, Compared, NEW a \in accepted, NEW b \in accepted, a.raw # b.raw
               PROVE  ~SameKey(a.obs, b.obs)
    BY DEF NoDuplicateAccepted
  <2>1. a.raw[1] \in Sessions /\ b.raw[1] \in Sessions
    BY DEF IInv, Typed, VerdictRow, Ids
  <2>2. a.obs \in RowsOf(a.raw[1]) /\ b.obs \in RowsOf(b.raw[1])
    BY DEF Compared
  <2> QED BY <2>1, <2>2 DEF KeysOfTheirOwn, Compared, NoDuplicateOfOneClient
<1> QED BY <1>1, ComparedInvariance, Invariance, PTL
----------------------------------------------------------------------------
(* The counters of the batches. *)

\* One row more in a table is one more of its batch and of no other.
LEMMA OneRowMore ==
    ASSUME NEW rows, IsFiniteSet(rows), NEW r, r \notin rows, NEW id
    PROVE  /\ IsFiniteSet(rows \cup {r})
           /\ r.batch = id => Cardinality(Of(rows \cup {r}, id)) = Cardinality(Of(rows, id)) + 1
           /\ r.batch # id => Cardinality(Of(rows \cup {r}, id)) = Cardinality(Of(rows, id))
<1>1. IsFiniteSet(rows \cup {r})
  BY FS_AddElement
<1>2. IsFiniteSet(Of(rows, id)) /\ r \notin Of(rows, id)
  BY FS_Subset DEF Of
<1>3. CASE r.batch = id
  <2>1. Of(rows \cup {r}, id) = Of(rows, id) \cup {r}
    BY <1>3 DEF Of
  <2>2. Cardinality(Of(rows, id) \cup {r}) = Cardinality(Of(rows, id)) + 1
    BY <1>2, FS_AddElement
  <2> QED BY <1>1, <1>3, <2>1, <2>2
<1>4. CASE r.batch # id
  <2>1. Of(rows \cup {r}, id) = Of(rows, id)
    BY <1>4 DEF Of
  <2> QED BY <1>1, <1>4, <2>1
<1> QED BY <1>3, <1>4

\* What the counters are, and which ids a batch may have.
LEMMA CountTypes ==
    ASSUME Typed, NEW s \in Sessions
    PROVE  /\ tally[s].accepted \in Nat /\ tally[s].rejected \in Nat
           /\ Len(queue[s]) \in Nat /\ submitted[s] \in Nat
           /\ uncommitted[s].batches \subseteq BatchRow
           /\ \A b \in BatchRow : /\ b.id \in Ids /\ b.total \in Nat
                                  /\ b.accepted \in Nat /\ b.rejected \in Nat
           /\ \A id \in Ids : id[1] \in Sessions /\ id[2] \in Nat \ {0} /\ id # NULL
<1>1. queue[s] \in Seq(Observation) /\ uncommitted[s] \in Transaction
        /\ tally[s] \in [accepted : Nat, rejected : Nat] /\ submitted[s] \in Nat
  BY DEF Typed
<1>2. \A id \in Ids : id[1] \in Sessions /\ id[2] \in Nat \ {0} /\ id # NULL
  BY RequestsAssumption, NullIsNoId DEF Ids
<1> QED BY <1>1, <1>2 DEF Transaction, BatchRow

\* A judged row: its batch row is committed with it, and one counter moves on.
LEMMA JudgeEffect ==
    ASSUME Typed, Queued, Held, IdsUsed, Paired, NEW s \in Sessions, Reject(s) \/ Accept(s)
    PROVE  /\ batches' = batches \cup uncommitted[s].batches
           /\ uncommitted'[s].batches = {} /\ batch' = batch /\ submitted' = submitted
           /\ Row(s).batch = batch[s] /\ Row(s) \notin accepted \cup rejected
           /\ \/ /\ accepted' = accepted \cup {Row(s)} /\ rejected' = rejected
                 /\ tally'[s].accepted = tally[s].accepted + 1
                 /\ tally'[s].rejected = tally[s].rejected
              \/ /\ rejected' = rejected \cup {Row(s)} /\ accepted' = accepted
                 /\ tally'[s].rejected = tally[s].rejected + 1
                 /\ tally'[s].accepted = tally[s].accepted
           /\ Left(s)' = Left(s) - 1 /\ Left(s) \in Int
           /\ pc[s] # "idle" /\ (pc'[s] = "idle" => batch[s] = NULL)
           /\ pc'[s] = "finish" => batch[s] # NULL
<1>1. queue[s] # <<>> /\ pc[s] = "decide" /\ Len(queue[s]) \in Nat \ {0}
  BY RestOfQueue DEF Reject, Accept, Queued
<1>2. batches' = batches \cup uncommitted[s].batches /\ uncommitted'[s].batches = {}
  BY DEF Reject, Accept, CommitWith, Nothing, Typed
<1>3. Row(s).batch = batch[s] /\ Row(s) \notin accepted \cup rejected
  BY UnjudgedIsNew DEF Row
<1>4. CASE Reject(s)
  <2>1. Advance(s) /\ batch' = batch /\ submitted' = submitted
    BY <1>4 DEF Reject
  <2>2. rejected' = rejected \cup {Row(s)} /\ accepted' = accepted
    BY <1>4, RejectEffect
  <2>3. tally'[s].rejected = tally[s].rejected + 1 /\ tally'[s].accepted = tally[s].accepted
    BY <1>4 DEF Reject, Typed
  <2>4. pc'[s] = IF Len(queue[s]) > 1 THEN "record"
                 ELSE IF batch[s] # NULL THEN "finish" ELSE "idle"
    BY <2>1 DEF Advance, Typed
  <2>5. queue'[s] = Tail(queue[s]) /\ Len(Tail(queue[s])) = Len(queue[s]) - 1
    <3>1. queue[s] \in Seq(Observation)
      BY DEF Typed
    <3> QED BY <1>1, <2>1, <3>1, AdvanceEffect, RestOfQueue
  <2>6. Left(s)' = Left(s) - 1 /\ Left(s) \in Int
    BY <1>1, <2>4, <2>5 DEF Left
  <2> QED BY <1>1, <1>2, <1>3, <2>1, <2>2, <2>3, <2>4, <2>6
<1>5. CASE Accept(s)
  <2>1. accepted' = accepted \cup {Row(s)} /\ rejected' = rejected
    BY <1>5, AcceptEffect
  <2>2. tally'[s].accepted = tally[s].accepted + 1 /\ tally'[s].rejected = tally[s].rejected
    BY <1>5 DEF Accept, Typed
  <2>3. pc'[s] = "sync" /\ queue' = queue /\ batch' = batch /\ submitted' = submitted
    BY <1>5 DEF Accept, Typed
  <2>4. Left(s)' = Left(s) - 1 /\ Left(s) \in Int
    BY <1>1, <2>3 DEF Left
  <2> QED BY <1>1, <1>2, <1>3, <2>1, <2>2, <2>3, <2>4
<1> QED BY <1>4, <1>5

\* The row of the batch under way, when a row of its request is judged.
LEMMA OpenedJudge ==
    ASSUME Typed, Queued, Held, IdsUsed, Paired, Counted, NEW s \in Sessions,
           Reject(s) \/ Accept(s)
    PROVE  Opened(s)'
<1>1. CASE batch[s] = NULL
  BY <1>1, JudgeEffect DEF Opened
<1>2. CASE batch[s] # NULL
  <2>1. /\ batch[s][1] = s /\ batch[s][2] <= submitted[s]
        /\ tally[s].accepted = Cardinality(Of(accepted, batch[s]))
        /\ tally[s].rejected = Cardinality(Of(rejected, batch[s]))
        /\ \/ uncommitted[s].batches = {OpenRow(s)} /\ \A b \in batches : b.id # batch[s]
           \/ uncommitted[s].batches = {} /\ OpenRow(s) \in batches
    BY <1>2 DEF Counted, Opened
  <2>2. OpenRow(s)' = OpenRow(s)
    <3>1. /\ tally[s].accepted \in Nat /\ tally[s].rejected \in Nat
          /\ Left(s)' = Left(s) - 1 /\ Left(s) \in Int /\ batch' = batch
      BY CountTypes, JudgeEffect
    <3>2. tally'[s].accepted + tally'[s].rejected = tally[s].accepted + tally[s].rejected + 1
      BY <3>1, JudgeEffect
    <3>3. Left(s)' + tally'[s].accepted + tally'[s].rejected =
              Left(s) + tally[s].accepted + tally[s].rejected
      BY <3>1, <3>2, JudgeEffect
    <3> HIDE DEF Left
    <3> QED BY <3>1, <3>3 DEF OpenRow
  <2>3. OpenRow(s)' \in batches' /\ uncommitted'[s].batches = {}
    BY <2>1, <2>2, JudgeEffect
  <2>4. /\ IsFiniteSet(accepted) /\ IsFiniteSet(rejected)
        /\ Row(s) \notin accepted /\ Row(s) \notin rejected /\ Row(s).batch = batch[s]
    BY JudgeEffect DEF Counted
  <2>5. /\ Cardinality(Of(accepted \cup {Row(s)}, batch[s])) = tally[s].accepted + 1
        /\ Cardinality(Of(rejected \cup {Row(s)}, batch[s])) = tally[s].rejected + 1
    <3> DEFINE r == Row(s)  id == batch[s]
    <3>1. r \notin accepted /\ r \notin rejected /\ r.batch = id
      BY <2>4
    <3>2. /\ Cardinality(Of(accepted, id)) = tally[s].accepted
          /\ Cardinality(Of(rejected, id)) = tally[s].rejected
      BY <2>1
    <3> HIDE DEF r, id
    <3>f. IsFiniteSet(accepted) /\ IsFiniteSet(rejected)
      BY <2>4
    <3>3. Cardinality(Of(accepted \cup {r}, id)) = Cardinality(Of(accepted, id)) + 1
      BY ONLY <3>f, <3>1, OneRowMore, Zenon
    <3>4. Cardinality(Of(rejected \cup {r}, id)) = Cardinality(Of(rejected, id)) + 1
      BY ONLY <3>f, <3>1, OneRowMore, Zenon
    <3>5. /\ Cardinality(Of(accepted \cup {r}, id)) = tally[s].accepted + 1
          /\ Cardinality(Of(rejected \cup {r}, id)) = tally[s].rejected + 1
      BY <3>2, <3>3, <3>4
    <3> QED BY <3>5 DEF r, id
  <2>6. /\ tally'[s].accepted = Cardinality(Of(accepted', batch[s]))
        /\ tally'[s].rejected = Cardinality(Of(rejected', batch[s]))
    BY <2>1, <2>5, JudgeEffect
  <2>7. /\ batch' = batch /\ submitted' = submitted
        /\ (pc'[s] = "idle" => batch[s] = NULL)
    BY JudgeEffect
  <2> QED BY <1>2, <2>1, <2>3, <2>6, <2>7 DEF Opened, Of
<1> QED BY <1>1, <1>2

\* The batches of the other sessions are not touched by a judged row.
LEMMA CountsElsewhere ==
    ASSUME Typed, Queued, Held, IdsUsed, Paired, Counted, NEW s \in Sessions,
           Reject(s) \/ Accept(s), NEW id, id # batch[s]
    PROVE  /\ Cardinality(Of(accepted', id)) = Cardinality(Of(accepted, id))
           /\ Cardinality(Of(rejected', id)) = Cardinality(Of(rejected, id))
<1>1. /\ IsFiniteSet(accepted) /\ IsFiniteSet(rejected)
      /\ Row(s) \notin accepted /\ Row(s) \notin rejected /\ Row(s).batch = batch[s]
  BY JudgeEffect DEF Counted
<1>2. /\ Cardinality(Of(accepted \cup {Row(s)}, id)) = Cardinality(Of(accepted, id))
      /\ Cardinality(Of(rejected \cup {Row(s)}, id)) = Cardinality(Of(rejected, id))
  <2> DEFINE r == Row(s)
  <2>1. r \notin accepted /\ r \notin rejected /\ r.batch # id
    BY <1>1
  <2> HIDE DEF r
  <2>2. /\ Cardinality(Of(accepted \cup {r}, id)) = Cardinality(Of(accepted, id))
        /\ Cardinality(Of(rejected \cup {r}, id)) = Cardinality(Of(rejected, id))
    BY <1>1, <2>1, OneRowMore
  <2> QED BY <2>2 DEF r
<1> QED BY <1>2, JudgeEffect

LEMMA CountedJudge ==
    ASSUME Typed, Queued, Held, IdsUsed, Paired, Counted, NEW s \in Sessions,
           Reject(s) \/ Accept(s)
    PROVE  Counted'
<1>1. /\ batches' = batches \cup uncommitted[s].batches /\ batch' = batch
      /\ submitted' = submitted /\ Row(s).batch = batch[s]
      /\ \/ accepted' = accepted \cup {Row(s)} /\ rejected' = rejected
         \/ rejected' = rejected \cup {Row(s)} /\ accepted' = accepted
  BY JudgeEffect
<1>2. Opened(s)
  BY DEF Counted
<1>3. ASSUME NEW b \in batches', b \notin batches
      PROVE  /\ b = OpenRow(s) /\ b.id = batch[s] /\ b.id[1] = s /\ b.id[2] <= submitted[s]
             /\ \A c \in batches : c.id # b.id
  <2>1. uncommitted[s].batches = {OpenRow(s)} /\ batch[s] # NULL
    BY <1>1, <1>2, <1>3 DEF Opened
  <2>2. \A c \in batches : c.id # batch[s]
    BY <1>2, <2>1 DEF Opened
  <2> QED BY <1>1, <1>2, <1>3, <2>1, <2>2 DEF Opened, OpenRow
<1>4. IsFiniteSet(accepted') /\ IsFiniteSet(rejected')
  BY <1>1, FS_AddElement DEF Counted
<1>5. \A b \in batches' : b.id[2] <= submitted'[b.id[1]]
  BY <1>1, <1>3 DEF Counted
<1>6. ASSUME NEW q \in Sessions \ {s} PROVE Opened(q)'
  <2>1. /\ pc'[q] = pc[q] /\ queue'[q] = queue[q] /\ batch'[q] = batch[q]
        /\ tally'[q] = tally[q] /\ uncommitted'[q] = uncommitted[q]
    BY Elsewhere DEF Act, Step
  <2>2. Opened(q)
    BY DEF Counted
  <2>3. batch[q] # NULL => batch[q] # batch[s]
    BY <1>2, <2>2 DEF Opened
  <2>4. CASE batch[q] # NULL
    <3>1. /\ Cardinality(Of(accepted', batch[q])) = Cardinality(Of(accepted, batch[q]))
          /\ Cardinality(Of(rejected', batch[q])) = Cardinality(Of(rejected, batch[q]))
      BY <2>3, <2>4, CountsElsewhere
    <3>2. OpenRow(q)' = OpenRow(q)
      BY <2>1 DEF OpenRow, Left
    <3>3. (\A b \in batches : b.id # batch[q]) => \A b \in batches' : b.id # batch[q]
      BY <1>3, <2>3, <2>4
    <3>4. OpenRow(q) \in batches => OpenRow(q) \in batches'
      BY <1>1
    <3> HIDE DEF OpenRow
    <3>5. /\ tally'[q].accepted = Cardinality(Of(accepted', batch'[q]))
          /\ tally'[q].rejected = Cardinality(Of(rejected', batch'[q]))
      BY <2>1, <2>2, <2>4, <3>1 DEF Opened
    <3> QED BY <1>1, <2>1, <2>2, <2>4, <3>2, <3>3, <3>4, <3>5 DEF Opened, Of
  <2>5. CASE batch[q] = NULL
    BY <2>1, <2>2, <2>5 DEF Opened
  <2> QED BY <2>4, <2>5
<1>7. \A b, c \in batches' : b.id = c.id => b = c
  <2>1. \A b, c \in batches : b.id = c.id => b = c
    BY DEF Counted, BatchesCounted
  <2> QED BY <1>3, <2>1
<1>8. ASSUME NEW a \in accepted' \cup rejected', a.batch # NULL
      PROVE  \E b \in batches' : b.id = a.batch
  <2>1. CASE a \in accepted \cup rejected
    BY <1>1, <1>8, <2>1 DEF Counted, BatchesCounted
  <2>2. CASE a = Row(s)
    <3>1. batch[s] # NULL /\ OpenRow(s).id = batch[s]
      BY <1>1, <1>8, <2>2 DEF OpenRow
    <3>2. OpenRow(s) \in batches'
      BY <1>1, <1>2, <3>1 DEF Opened
    <3> QED BY <1>1, <2>2, <3>1, <3>2
  <2> QED BY <1>1, <2>1, <2>2
<1>9. ASSUME NEW b \in batches', b.id # batch[b.id[1]]
      PROVE  AddsUp(b)' \/ (MayEndEarly(b.id[1]) /\ b.accepted = 0 /\ b.rejected = 0)
  <2>1. b \in batches
    BY <1>3, <1>9
  <2>2. b.id # batch[s]
    <3>1. b.id \in Ids
      BY <2>1, CountTypes DEF Typed
    <3>2. b.id # NULL
      BY <3>1, CountTypes
    <3>3. batch[s] # NULL => batch[s][1] = s
      BY <1>2 DEF Opened
    <3> QED BY <1>9, <3>2, <3>3
  <2>3. /\ Cardinality(Of(accepted', b.id)) = Cardinality(Of(accepted, b.id))
        /\ Cardinality(Of(rejected', b.id)) = Cardinality(Of(rejected, b.id))
    BY <2>2, CountsElsewhere
  <2>4. AddsUp(b) \/ (MayEndEarly(b.id[1]) /\ b.accepted = 0 /\ b.rejected = 0)
    BY <1>9, <2>1 DEF Counted, BatchesCounted
  <2> QED BY <2>3, <2>4 DEF AddsUp, Of
<1>10. BatchesCounted'
  BY <1>1, <1>7, <1>8, <1>9 DEF BatchesCounted
<1>11. \A q \in Sessions : Opened(q)'
  BY <1>6, OpenedJudge
<1> QED BY <1>4, <1>5, <1>10, <1>11 DEF Counted

\* The tables and the open batches of the sessions at rest stay.
LEMMA OpenedElsewhere ==
    ASSUME Typed, Queued, Held, Counted, NEW s \in Sessions, Act(s),
           NEW q \in Sessions \ {s}, UNCHANGED <<accepted, rejected>>,
           \A b : b.id # batch[s] \/ batch[s] = NULL => (b \in batches' <=> b \in batches)
    PROVE  Opened(q)'
<1>1. /\ pc'[q] = pc[q] /\ queue'[q] = queue[q] /\ batch'[q] = batch[q]
      /\ tally'[q] = tally[q] /\ uncommitted'[q] = uncommitted[q] /\ submitted'[q] = submitted[q]
  BY Elsewhere
<1>2. Opened(q) /\ Opened(s)
  BY DEF Counted
<1>3. OpenRow(q)' = OpenRow(q) /\ OpenRow(q).id = batch[q]
  BY <1>1 DEF OpenRow, Left
<1>4. batch[q] # NULL => batch[q] # batch[s] \/ batch[s] = NULL
  BY <1>2 DEF Opened
<1>5. batch[q] # NULL => \A b : b.id = batch[q] => (b \in batches' <=> b \in batches)
  BY <1>4
<1>6. \A id : Of(accepted, id)' = Of(accepted, id) /\ Of(rejected, id)' = Of(rejected, id)
  BY DEF Of
<1>7. CASE batch[q] = NULL
  BY <1>1, <1>2, <1>7 DEF Opened
<1>8. CASE batch[q] # NULL
  <2>1. (OpenRow(q) \in batches <=> OpenRow(q) \in batches')
    BY <1>3, <1>5, <1>8
  <2>2. (\A b \in batches : b.id # batch[q]) => \A b \in batches' : b.id # batch[q]
    BY <1>5, <1>8
  <2> HIDE DEF OpenRow
  <2> QED BY <1>1, <1>2, <1>3, <1>6, <1>8, <2>1, <2>2 DEF Opened
<1> QED BY <1>7, <1>8

\* The steps that commit nothing: a request begins, records, validates,
\* compares, syncs, or is abandoned.
LEMMA CountedQuietly ==
    ASSUME Typed, Queued, Held, Counted, NEW s \in Sessions, Act(s),
           ~(Reject(s) \/ Accept(s) \/ FinishBatch(s))
    PROVE  Counted'
<1>1. UNCHANGED <<accepted, rejected, batches>>
  BY DEF Act, Step, Submit, SubmitUnreadable, Record, Validate, Compare, SyncTwin, RecordFails, Crash, Abandon, tables
<1>2. Opened(s) /\ BatchesCounted
  BY DEF Counted
<1>3. \A q \in Sessions : submitted[q] \in Nat /\ submitted'[q] \in Nat /\ submitted[q] <= submitted'[q]
  <2>1. ASSUME NEW r \in Requests[s], Submit(s, r) \/ SubmitUnreadable(s, r)
        PROVE  submitted'[s] \in Nat /\ submitted[s] <= submitted'[s]
    <3>1. r.rows \in Seq(ObservationIn \cup {Malformed})
      BY RequestsAssumption
    <3>2. Len(r.rows) \in Nat
      BY <3>1
    <3> QED BY <2>1, <3>2, CountTypes DEF Submit, SubmitUnreadable, Typed
  <2>2. ASSUME ~\E r \in Requests[s] : Submit(s, r) \/ SubmitUnreadable(s, r)
        PROVE  submitted' = submitted
    BY <2>2 DEF Act, Step, Record, Validate, Compare, Reject, Accept, SyncTwin, FinishBatch, RecordFails, Crash, Abandon
  <2>3. submitted'[s] \in Nat /\ submitted[s] <= submitted'[s]
    <3>1. submitted[s] \in Nat
      BY CountTypes
    <3> QED BY <2>1, <2>2, <3>1
  <2>4. \A q \in Sessions \ {s} : submitted'[q] = submitted[q]
    BY Elsewhere
  <2>5. \A q \in Sessions : submitted[q] \in Nat
    BY CountTypes
  <2> QED BY <2>3, <2>4, <2>5
<1>4. \A b \in batches : b.id \in Ids /\ b.id # NULL /\ b.id[1] \in Sessions /\ b.id[2] \in Nat
  BY CountTypes DEF Typed
<1>5. \A b \in batches' : b.id[2] <= submitted'[b.id[1]]
  BY <1>1, <1>3, <1>4 DEF Counted
<1>6. \A q \in Sessions \ {s} : Opened(q)'
  BY <1>1, OpenedElsewhere
<1>7. \A id : Of(accepted, id)' = Of(accepted, id) /\ Of(rejected, id)' = Of(rejected, id)
  BY <1>1 DEF Of
<1>8. \A b : AddsUp(b)' <=> AddsUp(b)
  BY <1>7 DEF AddsUp
<1>9. ASSUME batch'[s] = batch[s] \/ batch[s] = NULL
             \/ \A b \in batches : b.id = batch[s] =>
                    MayEndEarly(s) /\ b.accepted = 0 /\ b.rejected = 0
      PROVE  BatchesCounted'
  <2>1. ASSUME NEW b \in batches'
        PROVE  \/ b.id = batch'[b.id[1]] \/ AddsUp(b)'
               \/ MayEndEarly(b.id[1]) /\ b.accepted = 0 /\ b.rejected = 0
    <3>1. \/ b.id = batch[b.id[1]] \/ AddsUp(b)
          \/ MayEndEarly(b.id[1]) /\ b.accepted = 0 /\ b.rejected = 0
      BY <1>1, <1>2 DEF BatchesCounted
    <3>2. b.id # NULL /\ b.id[1] \in Sessions
      BY <1>1, <1>4
    <3>3. CASE b.id[1] # s
      <4>1. batch'[b.id[1]] = batch[b.id[1]]
        BY <3>2, <3>3, Elsewhere
      <4> QED BY <1>8, <3>1, <4>1
    <3>4. CASE b.id[1] = s
      BY <1>1, <1>8, <1>9, <3>1, <3>2, <3>4
    <3> QED BY <3>3, <3>4
  <2> QED BY <1>1, <1>2, <2>1 DEF BatchesCounted
<1>10. CASE \E r \in Requests[s] : Submit(s, r)
  <2> PICK r \in Requests[s] : Submit(s, r)
    BY <1>10
  <2>1. pc[s] = "idle" /\ batch[s] = NULL /\ uncommitted[s].batches = {} /\ pc'[s] = "record"
    BY <1>2 DEF Submit, Opened, Typed
  <2>2. CASE r.via = "one"
    <3>1. batch' = batch /\ uncommitted' = uncommitted
      BY <2>2 DEF Submit
    <3> QED BY <1>1, <1>5, <1>6, <1>9, <2>1, <3>1 DEF Opened, Counted
  <2>3. CASE r.via # "one"
    <3> DEFINE id == <<s, submitted[s] + 1>>
    <3>1. Len(r.rows) \in Nat \ {0}
      BY RowsType DEF Submit
    <3>2. /\ batch'[s] = id /\ tally'[s] = [accepted |-> 0, rejected |-> 0]
          /\ queue'[s] = r.rows /\ submitted'[s] = submitted[s] + Len(r.rows)
          /\ uncommitted'[s].batches =
                {[id |-> id, total |-> Len(r.rows), accepted |-> 0, rejected |-> 0]}
      BY <2>3 DEF Submit, Typed, Transaction, NoTally
    <3>3. id \in Ids /\ id # NULL /\ id[1] = s /\ id[2] <= submitted'[s]
      <4>1. submitted[s] \in Nat /\ submitted[s] + Len(r.rows) <= MaxRows[s] /\ MaxRows[s] \in Nat
        BY CountTypes, RequestsAssumption DEF Submit
      <4>2. submitted[s] + 1 \in 1..MaxRows[s]
        BY <3>1, <4>1
      <4>3. id \in Ids
        BY <4>2 DEF Ids
      <4> QED BY <3>1, <3>2, <4>1, <4>3, CountTypes
    <3>4. \A b \in batches : b.id # id
      BY <1>4, CountTypes DEF Counted
    <3>5. \A a \in accepted \cup rejected : a.batch # id
      BY <1>2, <3>3, <3>4 DEF BatchesCounted
    <3>6. Of(accepted', id) = {} /\ Of(rejected', id) = {}
      BY <1>1, <3>5 DEF Of
    <3>7. Cardinality(Of(accepted', id)) = 0 /\ Cardinality(Of(rejected', id)) = 0
      BY <3>6, FS_EmptySet
    <3>8. OpenRow(s)' = [id |-> id, total |-> Len(r.rows), accepted |-> 0, rejected |-> 0]
      <4>1. Left(s)' = Len(r.rows)
        BY <2>1, <3>1, <3>2 DEF Left
      <4>2. Left(s)' + tally'[s].accepted + tally'[s].rejected = Len(r.rows)
        BY <3>1, <3>2, <4>1
      <4> HIDE DEF Left
      <4> QED BY <3>2, <4>2 DEF OpenRow
    <3> HIDE DEF id
    <3>9. Opened(s)'
      <4>1. \A b \in batches' : b.id # batch'[s]
        BY <1>1, <3>2, <3>4
      <4>2. /\ tally'[s].accepted = Cardinality(Of(accepted', batch'[s]))
            /\ tally'[s].rejected = Cardinality(Of(rejected', batch'[s]))
        BY <3>2, <3>7
      <4>3. uncommitted'[s].batches = {OpenRow(s)'}
        BY <3>2, <3>8
      <4> HIDE DEF OpenRow
      <4> QED BY <2>1, <3>2, <3>3, <4>1, <4>2, <4>3 DEF Opened, Of
    <3> QED BY <1>1, <1>5, <1>6, <1>9, <2>1, <3>9 DEF Counted
  <2> QED BY <2>2, <2>3
<1>11. CASE Crash(s) \/ RecordFails(s)
  <2>1. /\ pc'[s] = "idle" /\ batch'[s] = NULL /\ uncommitted'[s].batches = {}
    BY <1>11 DEF RecordFails, Crash, Abandon, Typed, Nothing
  <2>e. MayEndEarly(s)
    <3>1. CASE Crash(s)
      BY <3>1 DEF Crash, MayEndEarly
    <3>2. CASE RecordFails(s)
      BY <3>2, RowIdType DEF RecordFails, MayEndEarly, Queued
    <3> QED BY <1>11, <3>1, <3>2
  <2>2. Opened(s)'
    BY <2>1 DEF Opened
  <2>3. batch[s] # NULL => \A b \in batches : b.id = batch[s] =>
            MayEndEarly(s) /\ b.accepted = 0 /\ b.rejected = 0
    <3>1. ASSUME batch[s] # NULL, NEW b \in batches, b.id = batch[s]
          PROVE  b = OpenRow(s)
      <4>1. OpenRow(s) \in batches
        BY <1>2, <3>1 DEF Opened
      <4>2. OpenRow(s).id = batch[s]
        BY DEF OpenRow
      <4> QED BY <1>2, <3>1, <4>1, <4>2 DEF BatchesCounted
    <3> QED BY <2>e, <3>1 DEF OpenRow
  <2> QED BY <1>1, <1>5, <1>6, <1>9, <2>2, <2>3 DEF Counted
<1>12. CASE SyncTwin(s)
  <2>1. queue[s] # <<>> /\ pc[s] = "sync" /\ Advance(s)
    BY <1>12 DEF SyncTwin, Queued
  <2>2. /\ batch' = batch /\ tally' = tally /\ uncommitted' = uncommitted /\ submitted' = submitted
    BY <1>12 DEF SyncTwin
  <2>3. pc'[s] = IF Len(queue[s]) > 1 THEN "record"
                 ELSE IF batch[s] # NULL THEN "finish" ELSE "idle"
    BY <2>1 DEF Advance, Typed
  <2>4. queue'[s] = Tail(queue[s]) /\ Len(Tail(queue[s])) = Len(queue[s]) - 1
    <3>1. queue[s] \in Seq(Observation)
      BY DEF Typed
    <3> QED BY <2>1, <3>1, AdvanceEffect, RestOfQueue
  <2>5. Left(s)' = Left(s)
    BY <2>1, <2>3, <2>4 DEF Left
  <2>6. OpenRow(s)' = OpenRow(s)
    BY <2>2, <2>5 DEF OpenRow
  <2>7. Opened(s)'
    BY <1>1, <1>2, <1>7, <2>2, <2>3, <2>6 DEF Opened
  <2> QED BY <1>1, <1>5, <1>6, <1>9, <2>2, <2>7 DEF Counted
<1>13. CASE ~((\E r \in Requests[s] : Submit(s, r)) \/ Crash(s) \/ RecordFails(s) \/ SyncTwin(s))
  <2>1. batch' = batch /\ tally' = tally /\ queue' = queue
    BY <1>13 DEF Act, Step, SubmitUnreadable, Record, Validate, Compare, request
  <2>2. uncommitted'[s].batches = uncommitted[s].batches
    BY <1>13 DEF Act, Step, SubmitUnreadable, Record, Validate, Compare, request, Typed, Transaction
  <2>3. \/ pc'[s] = pc[s]
        \/ pc[s] # "sync" /\ pc'[s] \in {"validate", "compare", "decide"}
    BY <1>13 DEF Act, Step, SubmitUnreadable, Record, Validate, Compare, request, Typed
  <2>4. OpenRow(s)' = OpenRow(s)
    BY <2>1, <2>3 DEF OpenRow, Left
  <2>5. batch[s] # NULL => batch[s][2] <= submitted'[s]
    <3>1. batch[s] # NULL => batch[s][2] \in Nat /\ batch[s][2] <= submitted[s]
      BY <1>2, CountTypes DEF Typed, Opened
    <3> QED BY <1>3, <3>1
  <2>6. Opened(s)'
    BY <1>1, <1>2, <1>7, <2>1, <2>2, <2>3, <2>4, <2>5 DEF Opened
  <2> QED BY <1>1, <1>5, <1>6, <1>9, <2>1, <2>6 DEF Counted
<1> QED BY <1>10, <1>11, <1>12, <1>13

\* The last commit of a request: its batch row gets the counters.
LEMMA CountedFinish ==
    ASSUME Typed, Queued, Held, Counted, NEW s \in Sessions, FinishBatch(s)
    PROVE  Counted'
<1>1. Opened(s) /\ BatchesCounted
  BY DEF Counted
<1>2. pc[s] = "finish" /\ batch[s] # NULL /\ batch[s] \in Ids
  BY <1>1 DEF FinishBatch, Opened, Typed
<1>3. \A b \in batches : b.id \in Ids /\ b.id # NULL /\ b.id[1] \in Sessions
  BY CountTypes DEF Typed
<1>4. Left(s) = 0 /\ tally[s].accepted \in Nat /\ tally[s].rejected \in Nat
  BY <1>2, CountTypes, EmptySeq DEF Left, Queued
<1> DEFINE row == [OpenRow(s) EXCEPT !.accepted = tally[s].accepted,
                                     !.rejected = tally[s].rejected]
<1>5. {b \in batches \cup uncommitted[s].batches : b.id = batch[s]} = {OpenRow(s)}
  <2>1. OpenRow(s).id = batch[s]
    BY DEF OpenRow
  <2>2. \A b \in batches : b.id = batch[s] /\ OpenRow(s) \in batches => b = OpenRow(s)
    BY <1>1, <2>1 DEF BatchesCounted
  <2> HIDE DEF OpenRow
  <2> QED BY <1>1, <1>2, <2>1, <2>2 DEF Opened
<1>6. batches' = {b \in batches : b.id # batch[s]} \cup {row}
  <2>1. batches' = {b \in batches : ~(b.id = batch[s])}
                     \cup {[b EXCEPT !.accepted = tally[s].accepted,
                                     !.rejected = tally[s].rejected] :
                             b \in {b \in batches \cup uncommitted[s].batches : b.id = batch[s]}}
    BY DEF FinishBatch
  <2> HIDE DEF OpenRow
  <2> QED BY <1>5, <2>1
<1>7. /\ row.id = batch[s] /\ row.accepted = tally[s].accepted /\ row.rejected = tally[s].rejected
      /\ row.total = tally[s].accepted + tally[s].rejected
  BY <1>4 DEF OpenRow
<1>8. UNCHANGED <<accepted, rejected, submitted>>
  BY DEF FinishBatch
<1>9. /\ pc'[s] = "idle" /\ batch'[s] = NULL /\ uncommitted'[s].batches = {}
      /\ \A q \in Sessions \ {s} : batch'[q] = batch[q]
  BY DEF FinishBatch, Typed, Nothing
<1> HIDE DEF row
<1>10. \A id : Of(accepted, id)' = Of(accepted, id) /\ Of(rejected, id)' = Of(rejected, id)
  BY <1>8 DEF Of
<1>11. /\ row.accepted = Cardinality(Of(accepted', row.id))
       /\ row.rejected = Cardinality(Of(rejected', row.id))
       /\ row.accepted + row.rejected = row.total
  <2>1. /\ tally[s].accepted = Cardinality(Of(accepted, batch[s]))
        /\ tally[s].rejected = Cardinality(Of(rejected, batch[s]))
    BY <1>1, <1>2 DEF Opened
  <2> QED BY <1>7, <1>8, <2>1
<1>12. \A q \in Sessions : Opened(q)'
  <2>1. \A b : b.id # batch[s] => (b \in batches' <=> b \in batches)
    BY <1>6, <1>7
  <2>2. Opened(s)'
    BY <1>9 DEF Opened
  <2> QED BY <1>2, <1>8, <2>1, <2>2, OpenedElsewhere DEF Act, Step
<1>13. \A b \in batches' : b.id[2] <= submitted'[b.id[1]]
  <2>1. batch[s][1] = s /\ batch[s][2] <= submitted[s]
    BY <1>1, <1>2 DEF Opened
  <2> QED BY <1>6, <1>7, <1>8, <2>1 DEF Counted
<1>14. \A b, c \in batches' : b.id = c.id => b = c
  BY <1>1, <1>6, <1>7 DEF BatchesCounted
<1>15. \A a \in accepted' \cup rejected' : a.batch # NULL => \E b \in batches' : b.id = a.batch
  <2>1. ASSUME NEW a \in accepted \cup rejected, a.batch # NULL
        PROVE  \E b \in batches' : b.id = a.batch
    <3>1. PICK b \in batches : b.id = a.batch
      BY <1>1, <2>1 DEF BatchesCounted
    <3> QED BY <1>6, <1>7, <3>1
  <2> QED BY <1>8, <2>1
<1>16. ASSUME NEW b \in batches'
       PROVE  \/ b.id = batch'[b.id[1]] \/ AddsUp(b)'
              \/ MayEndEarly(b.id[1]) /\ b.accepted = 0 /\ b.rejected = 0
  <2>1. CASE b = row
    BY <1>11, <2>1 DEF AddsUp, Of
  <2>2. CASE b \in batches /\ b.id # batch[s]
    <3>1. \/ b.id = batch[b.id[1]] \/ AddsUp(b)
          \/ MayEndEarly(b.id[1]) /\ b.accepted = 0 /\ b.rejected = 0
      BY <1>1, <2>2 DEF BatchesCounted
    <3>2. AddsUp(b)' <=> AddsUp(b)
      BY <1>10 DEF AddsUp
    <3> QED BY <1>3, <1>9, <2>2, <3>1, <3>2
  <2> QED BY <1>6, <2>1, <2>2
<1> QED BY <1>8, <1>12, <1>13, <1>14, <1>15, <1>16 DEF Counted, BatchesCounted

LEMMA CountedStep ==
    ASSUME IInv, Counted, [Next]_vars
    PROVE  Counted'
<1>1. CASE Load
  <2>1. /\ UNCHANGED <<accepted, rejected, batches, batch, submitted>>
        /\ UNCHANGED <<pc, queue, tally, uncommitted>>
    BY <1>1 DEF Load, tables, request
  <2>2. \A id : Of(accepted, id)' = Of(accepted, id) /\ Of(rejected, id)' = Of(rejected, id)
    BY <2>1 DEF Of
  <2>3. \A b : AddsUp(b)' <=> AddsUp(b)
    BY <2>2 DEF AddsUp
  <2>4. \A q \in Sessions : OpenRow(q)' = OpenRow(q)
    BY <2>1 DEF OpenRow, Left
  <2>5. BatchesCounted'
    BY <2>1, <2>3 DEF Counted, BatchesCounted
  <2>6. ASSUME NEW q \in Sessions PROVE Opened(q)'
    <3>1. Opened(q)
      BY DEF Counted
    <3> QED BY <2>1, <2>2, <2>4, <3>1 DEF Opened
  <2> QED BY <2>1, <2>5, <2>6 DEF Counted
<1>2. ASSUME NEW s \in Sessions, Act(s) PROVE Counted'
  BY <1>2, CountedJudge, CountedFinish, CountedQuietly DEF IInv
<1> QED BY <1>1, <1>2, ActOrLoad DEF IInv

THEOREM CountedInvariance == Spec => []Counted
<1>1. Init => Counted
  BY FS_EmptySet DEF Init, Counted, BatchesCounted, Opened, Nothing
<1>2. IInv /\ Counted /\ [Next]_vars => Counted'
  BY CountedStep
<1> QED BY <1>1, <1>2, Invariance, PTL DEF Spec

\* What BatchesAddUp says of every batch that has ended, however many requests
\* ran beside it: one row, whose counters are the numbers of its rows in the
\* two tables and add up to the rows it came with, or, if the server died over
\* it, are still zero.  That a batch does end is the part left to TLC.
THEOREM EndedBatchesAddUp == Spec => []BatchesCounted
<1>1. Counted => BatchesCounted
  BY DEF Counted
<1> QED BY <1>1, CountedInvariance, PTL

----------------------------------------------------------------------------
(* Requests come to an end.                                                 *)

Ranks == [idle |-> 0, finish |-> 1, sync |-> 1, decide |-> 2, compare |-> 3, validate |-> 4,
          record |-> 5]

\* How many steps a request can still take at most.
Steps(q, p) == 6 * Len(q) + Ranks[p]
Ahead(s) == Steps(queue[s], pc[s])

\* The server's own steps shorten a request, and only the client's next one
\* gives a session more to do.
RequestsGetShorter ==
    [][\A s \in Sessions :
          /\ Step(s) => Ahead(s)' < Ahead(s)
          /\ Ahead(s)' > Ahead(s) => \E r \in Requests[s] : Submit(s, r)]_vars

LEMMA StepsAre ==
    ASSUME NEW q \in Seq(Observation), NEW p \in Control
    PROVE  /\ Len(q) \in Nat /\ Steps(q, p) \in Nat
           /\ p = "idle" => Steps(q, p) = 6 * Len(q)
           /\ p = "finish" => Steps(q, p) = 6 * Len(q) + 1
           /\ p = "sync" => Steps(q, p) = 6 * Len(q) + 1
           /\ p = "decide" => Steps(q, p) = 6 * Len(q) + 2
           /\ p = "compare" => Steps(q, p) = 6 * Len(q) + 3
           /\ p = "validate" => Steps(q, p) = 6 * Len(q) + 4
           /\ p = "record" => Steps(q, p) = 6 * Len(q) + 5
<1>1. Len(q) \in Nat
  OBVIOUS
<1> QED BY <1>1 DEF Steps, Ranks, Control

LEMMA ShorterStep ==
    ASSUME Typed, Typed', Queued, Held, NEW s \in Sessions, Step(s)
    PROVE  Ahead(s)' < Ahead(s)
<1> DEFINE q == queue[s]  p == pc[s]  qq == queue'[s]  pp == pc'[s]
<1>t. q \in Seq(Observation) /\ p \in Control /\ qq \in Seq(Observation) /\ pp \in Control
  BY DEF Typed
<1>s. SUFFICES Steps(qq, pp) < Steps(q, p)
  BY DEF Ahead
<1>1. CASE Record(s) \/ Validate(s) \/ Compare(s) \/ Accept(s) \/ FinishBatch(s)
  <2>1. queue' = queue
    BY <1>1 DEF Record, Validate, Compare, Accept, FinishBatch
  <2>2. \/ pc[s] = "record" /\ pc'[s] = "validate"
        \/ pc[s] = "validate" /\ pc'[s] \in {"compare", "decide"}
        \/ pc[s] = "compare" /\ pc'[s] = "decide"
        \/ pc[s] = "decide" /\ pc'[s] = "sync"
        \/ pc[s] = "finish" /\ pc'[s] = "idle"
    BY <1>1 DEF Record, Validate, Compare, Accept, FinishBatch, Typed
  <2>3. Len(qq) = Len(q)
    BY <2>1
  <2> HIDE DEF q, p, qq, pp
  <2>4. \/ p = "record" /\ pp = "validate"
        \/ p = "validate" /\ pp \in {"compare", "decide"}
        \/ p = "compare" /\ pp = "decide"
        \/ p = "decide" /\ pp = "sync"
        \/ p = "finish" /\ pp = "idle"
    BY <2>2 DEF p, pp
  <2> QED BY <1>t, <2>3, <2>4, StepsAre
<1>2. CASE Reject(s) \/ SyncTwin(s)
  <2>1. queue[s] # <<>> /\ pc[s] \in {"decide", "sync"} /\ Advance(s)
    BY <1>2 DEF Reject, SyncTwin, Queued
  <2>2. queue[s] \in Seq(Observation)
    BY DEF Typed
  <2>3. queue'[s] = Tail(queue[s]) /\ pc'[s] \in {"record", "idle", "finish"}
    BY <2>1, AdvanceEffect
  <2>4. Len(qq) = Len(q) - 1 /\ p \in {"decide", "sync"} /\ pp \in {"record", "idle", "finish"}
    BY <2>1, <2>2, <2>3, RestOfQueue
  <2> HIDE DEF q, p, qq, pp
  <2> QED BY <1>t, <2>4, StepsAre
<1>3. CASE RecordFails(s)
  <2>1. pc[s] = "record" /\ pc'[s] = "idle" /\ queue'[s] = <<>>
    BY <1>3 DEF RecordFails, Abandon, Typed
  <2>2. p = "record" /\ pp = "idle" /\ Len(qq) = 0
    BY <2>1, EmptySeq
  <2> HIDE DEF q, p, qq, pp
  <2>3. Len(q) \in Nat /\ Steps(q, p) = 6 * Len(q) + 5
    BY <1>t, <2>2, StepsAre
  <2>4. Steps(qq, pp) = 6 * Len(qq)
    BY <1>t, <2>2, StepsAre
  <2> QED BY <2>2, <2>3, <2>4
<1> QED BY <1>1, <1>2, <1>3 DEF Step

\* What of BatchesAddUp and of every other request's end is not about fairness:
\* no row is validated or compared twice, none is put back, and a failure only
\* leaves a session less to do.
THEOREM RequestsShorten == Spec => RequestsGetShorter
<1>1. ASSUME IInv, IInv', [Next]_vars, NEW s \in Sessions
      PROVE  /\ Step(s) => Ahead(s)' < Ahead(s)
             /\ Ahead(s)' > Ahead(s) => \E r \in Requests[s] : Submit(s, r)
  <2>1. Step(s) => Ahead(s)' < Ahead(s)
    BY <1>1, ShorterStep DEF IInv
  <2>2. Ahead(s) \in Nat /\ Ahead(s)' \in Int
    <3>1. /\ queue[s] \in Seq(Observation) /\ pc[s] \in Control
          /\ queue'[s] \in Seq(Observation) /\ pc'[s] \in Control
      BY <1>1 DEF IInv, Typed
    <3> QED BY <3>1, StepsAre DEF Ahead
  <2>3. CASE Load \/ \E q \in Sessions \ {s} : Act(q)
    <3>1. pc'[s] = pc[s] /\ queue'[s] = queue[s]
      BY <1>1, <2>3, Elsewhere DEF Load, request, IInv
    <3>2. Ahead(s)' = Ahead(s)
      BY <3>1 DEF Ahead
    <3> QED BY <2>1, <2>2, <3>2
  <2>4. CASE Act(s)
    <3>1. CASE Step(s)
      BY <2>1, <2>2, <3>1
    <3>2. CASE \E r \in Requests[s] : SubmitUnreadable(s, r)
      <4>1. Ahead(s)' = Ahead(s)
        BY <3>2 DEF SubmitUnreadable, request, Ahead
      <4> QED BY <2>1, <2>2, <4>1
    <3>3. CASE Crash(s) \/ RecordFails(s)
      <4>1. pc'[s] = "idle" /\ queue'[s] = <<>>
        BY <1>1, <3>3 DEF RecordFails, Crash, Abandon, IInv, Typed
      <4>2. Ahead(s)' = 0
        BY <4>1 DEF Ahead, Steps, Ranks
      <4> QED BY <2>1, <2>2, <4>2
    <3>4. CASE \E r \in Requests[s] : Submit(s, r)
      BY <2>1, <3>4
    <3> QED BY <2>4, <3>1, <3>2, <3>3, <3>4 DEF Act
  <2> QED BY <1>1, <2>3, <2>4, ActOrLoad DEF IInv
<1>2. IInv /\ IInv' /\ [Next]_vars =>
        [\A s \in Sessions :
            /\ Step(s) => Ahead(s)' < Ahead(s)
            /\ Ahead(s)' > Ahead(s) => \E r \in Requests[s] : Submit(s, r)]_vars
  BY <1>1
<1> QED BY <1>2, Invariance, PTL DEF Spec, RequestsGetShorter

============================================================================
