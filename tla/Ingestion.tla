----------------------------- MODULE Ingestion -----------------------------
(***************************************************************************)
(* Ingestion of observations (backend/app/services/ingestion.py): every    *)
(* row of a request is written raw, validated, committed as accepted or    *)
(* rejected, and, if accepted, copied into the digital twin in a second    *)
(* transaction.  Requests run concurrently, each in a database session of  *)
(* its own, and see of one another what is committed.                      *)
(*                                                                         *)
(* The configuration and the twin's copy of it change beside them, in the  *)
(* two transactions of load_campus_config.  The twin's update is one step  *)
(* here; DigitalTwin looks inside it.                                      *)
(***************************************************************************)
EXTENDS Integers, Sequences, FiniteSets

CONSTANTS
    Sessions,     \* clients, one request at a time each
    Requests,     \* session |-> the requests it may send: [via, rows]
    Crashing,     \* sessions whose server process may die mid-request
    Config,       \* successive campus files: entity |-> [total], gates have none
    Lots, Gates,
    Plausible,    \* timestamps between 2020 and now + 5 minutes
    MaxRows,      \* session |-> bound on the rows it sends
    Malformed,    \* a CSV row int(), float() or datetime cannot read
    TooLarge,     \* observations with a text or a number the columns cannot hold
    Blank,        \* the empty string as an id
    NULL

SOURCE_LABELS == {"REAL", "EXTERNAL", "SYNTHETIC", "SAMPLE"}
COLLECTION_METHODS == {"manual_count", "cv_auto", "cv_verified", "simulator"}
KINDS == {"gate_id", "parking_lot_id", "event_type"}
Entities == Lots \cup Gates

ASSUME ConfigAssumption ==
    /\ Config \in Seq({Config[v] : v \in DOMAIN Config})
    /\ \A v \in DOMAIN Config :
        /\ DOMAIN Config[v] \subseteq Entities
        /\ \A l \in Lots \cap DOMAIN Config[v] : Config[v][l].total \in Nat

\* A file that gives a lot and a gate one id is refused (validators.py).
ASSUME NamesAssumption == Lots \cap Gates = {} /\ NULL \notin Entities

\* No campus calls an entity "": the loader would let it, but no file does.
ASSUME BlankAssumption == Blank \notin Entities

\* A row as a client hands it in.  amount is the measure of its kind.
ObservationIn ==
    [gate_id : Gates \cup {NULL, Blank},
     parking_lot_id : Lots \cup {NULL, Blank},
     event_type : STRING \cup {NULL, Blank},
     amount : Int \cup {NULL},
     timestamp : Nat,
     source_label : STRING,
     collection_method : STRING]

ASSUME RequestsAssumption ==
    /\ \A s \in Sessions : MaxRows[s] \in Nat
    /\ \A s \in Sessions : \A r \in Requests[s] :
          /\ r.via \in {"one", "csv", "cv_batch"}
          /\ r.rows # <<>> /\ (r.via = "one" => Len(r.rows) = 1)
          /\ r.rows \in Seq(ObservationIn \cup {Malformed})
          /\ \A i \in DOMAIN r.rows :
                IF r.via = "csv"
                THEN r.rows[i] # Malformed => \A k \in KINDS : r.rows[i][k] # Blank
                ELSE r.rows[i] # Malformed

\* uuid4 never yields null: a batch that has an id is told from none.
ASSUME NullIsNoId == \A s \in Sessions : \A n \in 1..MaxRows[s] : <<s, n>> # NULL

VARIABLES
    version,      \* configuration in force; 0: no campus
    twinVersion,  \* configuration the twin's rows were last refreshed from
    twin,         \* entity |-> the observation the twin shows, or NULL
    raw, accepted, rejected, batches,   \* committed rows of the four tables
    uncommitted,  \* session |-> the rows its transaction holds
    pc,           \* session |-> where its request is
    queue,        \* session |-> rows not finished, the current one first
    batch,        \* session |-> id of the batch, or NULL
    tally,        \* session |-> accepted_count, rejected_count
    verdict,      \* session |-> reasons found, and the configuration they used
    submitted     \* session |-> rows handed in so far

tables == <<raw, accepted, rejected, batches>>
request == <<uncommitted, pc, queue, batch, tally, verdict>>
vars == <<version, twinVersion, twin, tables, request, submitted>>

Nothing == [raw |-> {}, accepted |-> {}, rejected |-> {}, batches |-> {}]
NoVerdict == [reasons |-> {}, config |-> 0]
NoTally == [accepted |-> 0, rejected |-> 0]

Init ==
    /\ version = 0 /\ twinVersion = 0
    /\ twin = [e \in Entities |-> NULL]
    /\ raw = {} /\ accepted = {} /\ rejected = {} /\ batches = {}
    /\ uncommitted = [s \in Sessions |-> Nothing]
    /\ pc = [s \in Sessions |-> "idle"]
    /\ queue = [s \in Sessions |-> <<>>]
    /\ batch = [s \in Sessions |-> NULL]
    /\ tally = [s \in Sessions |-> NoTally]
    /\ verdict = [s \in Sessions |-> NoVerdict]
    /\ submitted = [s \in Sessions |-> 0]

----------------------------------------------------------------------------
(* Validation. *)

Kinds(o) == {k \in KINDS : o[k] \notin {NULL, Blank}}

\* The row of the lot, gate or event type a validated observation names.
Subject(o) == o[CHOOSE k \in Kinds(o) : TRUE]

\* Two observations of one thing at one time by one method.
SameKey(o, p) ==
    /\ Cardinality(Kinds(o)) = 1 /\ Kinds(o) = Kinds(p)
    /\ Subject(o) = Subject(p)
    /\ o.timestamp = p.timestamp
    /\ o.collection_method = p.collection_method

Labelled(o) ==
    [source_label |-> o.source_label \in SOURCE_LABELS,
     collection_method |-> o.collection_method \in COLLECTION_METHODS,
     one_kind |-> Cardinality(Kinds(o)) = 1]

\* Variant of Measured without the lots' ceiling.
MeasuredNoCeiling(o, c) ==
    LET k == CHOOSE x \in Kinds(o) : TRUE
    IN [timestamp |-> o.timestamp \in Plausible,
        known |-> k = "event_type" \/ Subject(o) \in DOMAIN c,
        required |-> o.amount # NULL,
        range |-> o.amount # NULL => o.amount >= 0]

\* The checks that need the kind.  An unknown lot has no ceiling to exceed.
Measured(o, c) ==
    LET k == CHOOSE x \in Kinds(o) : TRUE
        known == Subject(o) \in DOMAIN c
    IN [timestamp |-> o.timestamp \in Plausible,
        known |-> k = "event_type" \/ known,
        required |-> o.amount # NULL,
        range |-> o.amount # NULL =>
                     o.amount >= 0 /\ (k = "event_type" => o.amount <= 5),
        ceiling |-> (k = "parking_lot_id" /\ known /\ o.amount # NULL) =>
                       o.amount <= c[Subject(o)].total]

Failed(checks) == {r \in DOMAIN checks : ~checks[r]}

\* Without exactly one kind nothing more is checked.
Reasons(o, c) ==
    LET first == Failed(Labelled(o))
    IN first \cup IF "one_kind" \in first THEN {} ELSE Failed(Measured(o, c))

\* Variant of IsDuplicate that never looks among the events.
IsDuplicateButEvents(o, rows) ==
    o.event_type \in {NULL, Blank} /\ \E r \in rows : SameKey(r.obs, o)

IsDuplicate(o, rows) == \E r \in rows : SameKey(r.obs, o)

----------------------------------------------------------------------------
(* Transactions. *)

\* commit() of everything the session holds and of "more".
CommitWith(s, more) ==
    LET mine == uncommitted[s] IN
    /\ raw' = raw \cup mine.raw \cup more.raw
    /\ accepted' = accepted \cup mine.accepted \cup more.accepted
    /\ rejected' = rejected \cup mine.rejected \cup more.rejected
    /\ batches' = batches \cup mine.batches \cup more.batches
    /\ uncommitted' = [uncommitted EXCEPT ![s] = Nothing]

\* uuid4 ids: the session and the position of the row among those it sent.
RowId(s) == <<s, submitted[s] - Len(queue[s]) + 1>>

\* What follows once the current row is finished.
Advance(s) ==
    /\ queue' = [queue EXCEPT ![s] = Tail(@)]
    /\ pc' = [pc EXCEPT ![s] =
                IF Len(queue[s]) > 1 THEN "record" ELSE IF batch[s] # NULL THEN "finish" ELSE "idle"]

\* A request ends before its last commit: the open transaction is rolled
\* back, the rest of the request is forgotten.
Abandon(s) ==
    /\ uncommitted' = [uncommitted EXCEPT ![s] = Nothing]
    /\ pc' = [pc EXCEPT ![s] = "idle"]
    /\ queue' = [queue EXCEPT ![s] = <<>>]
    /\ batch' = [batch EXCEPT ![s] = NULL]
    /\ tally' = [tally EXCEPT ![s] = NoTally]
    /\ verdict' = [verdict EXCEPT ![s] = NoVerdict]
    /\ UNCHANGED <<version, twinVersion, twin, tables, submitted>>

----------------------------------------------------------------------------
(* A request. *)

\* Variant of Submit that takes an unreadable row for an observation.
SubmitUnparsed(s, r) ==
    /\ pc[s] = "idle"
    /\ version > 0
    /\ submitted[s] + Len(r.rows) <= MaxRows[s]
    /\ LET id == <<s, submitted[s] + 1>> IN
       IF r.via = "one"
       THEN UNCHANGED <<batch, uncommitted>>
       ELSE /\ batch' = [batch EXCEPT ![s] = id]
            /\ uncommitted' = [uncommitted EXCEPT ![s].batches =
                  {[id |-> id, total |-> Len(r.rows), accepted |-> 0, rejected |-> 0]}]
    /\ queue' = [queue EXCEPT ![s] = r.rows]
    /\ pc' = [pc EXCEPT ![s] = "record"]
    /\ tally' = [tally EXCEPT ![s] = NoTally]
    /\ submitted' = [submitted EXCEPT ![s] = @ + Len(r.rows)]
    /\ UNCHANGED <<version, twinVersion, twin, tables, verdict>>

\* post_observation, or the head of ingest_bulk_csv and ingest_cv_batch: the
\* CSV is parsed whole, then the batch row is flushed.
Submit(s, r) ==
    /\ pc[s] = "idle"
    /\ version > 0
    /\ submitted[s] + Len(r.rows) <= MaxRows[s]
    /\ \A i \in DOMAIN r.rows : r.rows[i] # Malformed
    /\ LET id == <<s, submitted[s] + 1>> IN
       IF r.via = "one"
       THEN UNCHANGED <<batch, uncommitted>>
       ELSE /\ batch' = [batch EXCEPT ![s] = id]
            /\ uncommitted' = [uncommitted EXCEPT ![s].batches =
                  {[id |-> id, total |-> Len(r.rows), accepted |-> 0, rejected |-> 0]}]
    /\ queue' = [queue EXCEPT ![s] = r.rows]
    /\ pc' = [pc EXCEPT ![s] = "record"]
    /\ tally' = [tally EXCEPT ![s] = NoTally]
    /\ submitted' = [submitted EXCEPT ![s] = @ + Len(r.rows)]
    /\ UNCHANGED <<version, twinVersion, twin, tables, verdict>>

\* One unreadable cell raises out of _row_to_observation: the upload ends
\* before its first row has been recorded.
SubmitUnreadable(s, r) ==
    /\ pc[s] = "idle"
    /\ version > 0
    /\ submitted[s] + Len(r.rows) <= MaxRows[s]
    /\ \E i \in DOMAIN r.rows : r.rows[i] = Malformed
    /\ submitted' = [submitted EXCEPT ![s] = @ + Len(r.rows)]
    /\ UNCHANGED <<version, twinVersion, twin, tables, request>>

\* Variant of Record that commits the raw row at once.
RecordCommitted(s) ==
    /\ pc[s] = "record"
    /\ Head(queue[s]) \notin TooLarge
    /\ CommitWith(s, [Nothing EXCEPT !.raw =
          {[id |-> RowId(s), obs |-> Head(queue[s]), batch |-> batch[s]]}])
    /\ pc' = [pc EXCEPT ![s] = "validate"]
    /\ UNCHANGED <<version, twinVersion, twin, queue, batch, tally, verdict, submitted>>

\* session.add(raw); flush.
Record(s) ==
    /\ pc[s] = "record"
    /\ Head(queue[s]) \notin TooLarge
    /\ uncommitted' = [uncommitted EXCEPT ![s].raw =
          @ \cup {[id |-> RowId(s), obs |-> Head(queue[s]), batch |-> batch[s]]}]
    /\ pc' = [pc EXCEPT ![s] = "validate"]
    /\ UNCHANGED <<version, twinVersion, twin, tables, queue, batch, tally, verdict, submitted>>

\* Variant of RecordFails that leaves the row out and goes on with the next.
RecordSkips(s) ==
    /\ pc[s] = "record"
    /\ Head(queue[s]) \in TooLarge
    /\ Advance(s)
    /\ UNCHANGED <<version, twinVersion, twin, tables, uncommitted, batch, tally, verdict, submitted>>

\* The flush raises: ObservationIn bounds neither the texts nor the numbers
\* that the columns do.  Nobody catches it and the server goes on without the
\* request; what it has committed stays, the batch row with its zeros too.
RecordFails(s) ==
    /\ pc[s] = "record"
    /\ Head(queue[s]) \in TooLarge
    /\ Abandon(s)

\* _validate up to the SELECT of the gates or lots, which sees the committed
\* configuration.  The duplicates are only looked for if all went well so far.
Validate(s) ==
    /\ pc[s] = "validate"
    /\ LET reasons == Reasons(Head(queue[s]), Config[version])
       IN /\ verdict' = [verdict EXCEPT ![s] = [reasons |-> reasons, config |-> version]]
          /\ pc' = [pc EXCEPT ![s] = IF reasons = {} THEN "compare" ELSE "decide"]
    /\ UNCHANGED <<version, twinVersion, twin, tables, uncommitted, queue, batch, tally, submitted>>

\* The SELECT of the duplicates among the observations committed by now.
Compare(s) ==
    /\ pc[s] = "compare"
    /\ verdict' = [verdict EXCEPT ![s].reasons =
                     IF IsDuplicate(Head(queue[s]), accepted) THEN {"duplicate"} ELSE {}]
    /\ pc' = [pc EXCEPT ![s] = "decide"]
    /\ UNCHANGED <<version, twinVersion, twin, tables, uncommitted, queue, batch, tally, submitted>>

\* The raw row and its verdict, in one commit.
Row(s) == [raw |-> RowId(s), obs |-> Head(queue[s]), batch |-> batch[s]]

\* Variant of Reject that sends a duplicate on to the twin.
RejectThenSync(s) ==
    /\ pc[s] = "decide"
    /\ verdict[s].reasons # {}
    /\ CommitWith(s, [Nothing EXCEPT !.rejected = {Row(s)}])
    /\ tally' = [tally EXCEPT ![s].rejected = @ + 1]
    /\ IF verdict[s].reasons = {"duplicate"}
       THEN pc' = [pc EXCEPT ![s] = "sync"] /\ UNCHANGED <<queue, verdict>>
       ELSE Advance(s) /\ verdict' = [verdict EXCEPT ![s] = NoVerdict]
    /\ UNCHANGED <<version, twinVersion, twin, batch, submitted>>

\* Variant of Reject that counts duplicates as neither accepted nor rejected.
RejectUncounted(s) ==
    /\ pc[s] = "decide"
    /\ verdict[s].reasons # {}
    /\ CommitWith(s, [Nothing EXCEPT !.rejected = {Row(s)}])
    /\ tally' = [tally EXCEPT ![s].rejected =
                   IF verdict[s].reasons = {"duplicate"} THEN @ ELSE @ + 1]
    /\ Advance(s)
    /\ verdict' = [verdict EXCEPT ![s] = NoVerdict]
    /\ UNCHANGED <<version, twinVersion, twin, batch, submitted>>

Reject(s) ==
    /\ pc[s] = "decide"
    /\ verdict[s].reasons # {}
    /\ CommitWith(s, [Nothing EXCEPT !.rejected = {Row(s)}])
    /\ tally' = [tally EXCEPT ![s].rejected = @ + 1]
    /\ Advance(s)
    /\ verdict' = [verdict EXCEPT ![s] = NoVerdict]
    /\ UNCHANGED <<version, twinVersion, twin, batch, submitted>>

Accept(s) ==
    /\ pc[s] = "decide"
    /\ verdict[s].reasons = {}
    /\ CommitWith(s, [Nothing EXCEPT !.accepted = {Row(s)}])
    /\ tally' = [tally EXCEPT ![s].accepted = @ + 1]
    /\ pc' = [pc EXCEPT ![s] = "sync"]
    /\ UNCHANGED <<version, twinVersion, twin, queue, batch, verdict, submitted>>

\* Whom _sync_twin updates: it tests the ids against None, not against "".
Target(o) ==
    IF o.parking_lot_id # NULL THEN o.parking_lot_id
    ELSE IF o.gate_id # NULL THEN o.gate_id ELSE NULL

\* EntityNotFoundError: no such row in the twin.  Swallowed, with a warning.
Missing(e) == twinVersion = 0 \/ e \notin DOMAIN Config[twinVersion]

\* CapacityExceededError from the twin's copy of the ceiling: swallowed too.
OverTwinCeiling(e, o) == ~Missing(e) /\ e \in Lots /\ o.amount > Config[twinVersion][e].total

SyncTwin(s) ==
    /\ pc[s] = "sync"
    /\ LET o == Head(queue[s])
           e == Target(o)
       IN twin' = IF Missing(e) \/ OverTwinCeiling(e, o) THEN twin ELSE [twin EXCEPT ![e] = o]
    /\ Advance(s)
    /\ verdict' = [verdict EXCEPT ![s] = NoVerdict]
    /\ UNCHANGED <<version, twinVersion, tables, uncommitted, batch, tally, submitted>>

\* The counters of the batch row, in the last commit of the request.
FinishBatch(s) ==
    /\ pc[s] = "finish"
    /\ LET Mine(b) == b.id = batch[s]
           known == {b \in batches \cup uncommitted[s].batches : Mine(b)}
       IN batches' = {b \in batches : ~Mine(b)}
                       \cup {[b EXCEPT !.accepted = tally[s].accepted,
                                       !.rejected = tally[s].rejected] : b \in known}
    /\ uncommitted' = [uncommitted EXCEPT ![s] = Nothing]
    /\ pc' = [pc EXCEPT ![s] = "idle"]
    /\ batch' = [batch EXCEPT ![s] = NULL]
    /\ tally' = [tally EXCEPT ![s] = NoTally]
    /\ UNCHANGED <<version, twinVersion, twin, raw, accepted, rejected, queue, verdict, submitted>>

\* The server dies.  The client may send its rows again.
Crash(s) ==
    /\ s \in Crashing
    /\ pc[s] # "idle"
    /\ Abandon(s)

----------------------------------------------------------------------------
\* load_campus_config: the upsert commits, later init_campus commits, unless
\* the script died in between and is run again.
Upsert ==
    /\ version < Len(Config)
    /\ version' = version + 1
    /\ UNCHANGED <<twinVersion, twin, tables, request, submitted>>

InitTwin ==
    /\ twinVersion < version
    /\ twinVersion' = version
    /\ UNCHANGED <<version, twin, tables, request, submitted>>

\* No request is running and none has to come.
Quiet ==
    /\ \A s \in Sessions : pc[s] = "idle"
    /\ UNCHANGED vars

Step(s) ==
    \/ Record(s) \/ RecordFails(s) \/ Validate(s) \/ Compare(s) \/ Reject(s) \/ Accept(s)
    \/ SyncTwin(s) \/ FinishBatch(s)

Next ==
    \/ Upsert \/ InitTwin \/ Quiet
    \/ \E s \in Sessions :
        \/ \E r \in Requests[s] : Submit(s, r) \/ SubmitUnreadable(s, r)
        \/ Step(s)
        \/ Crash(s)

\* The server keeps running the requests it has taken, whatever the clients do.
Spec == Init /\ [][Next]_vars /\ \A s \in Sessions : WF_vars(Step(s))
============================================================================
