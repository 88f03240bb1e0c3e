------------------------ MODULE IngestionProperties ------------------------
(***************************************************************************)
(* What ingestion must, and is said to, guarantee.                         *)
(***************************************************************************)
EXTENDS Ingestion

Ids == UNION {{s} \X (1..MaxRows[s]) : s \in Sessions}

\* The observations a session may be given, and those of all sessions.
RowsIn(r) == {r.rows[i] : i \in DOMAIN r.rows}
RowsOf(s) == (UNION {RowsIn(r) : r \in Requests[s]}) \ {Malformed}
Observation == UNION {RowsOf(s) : s \in Sessions}

RawRow == [id : Ids, obs : Observation, batch : Ids \cup {NULL}]
VerdictRow == [raw : Ids, obs : Observation, batch : Ids \cup {NULL}]
BatchRow == [id : Ids, total : Nat, accepted : Nat, rejected : Nat]

\* Every variable has its type.
TypeOK ==
    /\ version \in 0..Len(Config) /\ twinVersion \in 0..version
    /\ \A e \in Entities : twin[e] \in Observation \cup {NULL}
    /\ raw \subseteq RawRow
    /\ accepted \subseteq VerdictRow /\ rejected \subseteq VerdictRow
    /\ batches \subseteq BatchRow
    /\ \A s \in Sessions :
          /\ uncommitted[s].raw \subseteq RawRow /\ uncommitted[s].batches \subseteq BatchRow
          /\ pc[s] \in {"idle", "record", "validate", "compare", "decide", "sync", "finish"}
          /\ queue[s] \in Seq(Observation)
          /\ batch[s] \in Ids \cup {NULL}
          /\ tally[s] \in [accepted : Nat, rejected : Nat]
          /\ submitted[s] \in 0..MaxRows[s]

\* A committed raw row has exactly one verdict and a verdict has its raw row,
\* wherever in a request the server may have died: a raw row nobody judged
\* would never be looked at again.
RawHasOneVerdict ==
    /\ \A r \in raw : Cardinality({a \in accepted : a.raw = r.id})
                         + Cardinality({a \in rejected : a.raw = r.id}) = 1
    /\ \A a \in accepted \cup rejected :
          \E r \in raw : r.id = a.raw /\ r.obs = a.obs /\ r.batch = a.batch

\* No two accepted observations have the same subject, time and method.
\* Holds as long as no two concurrent requests carry the same key.
NoDuplicateAccepted ==
    \A a, b \in accepted : a.raw # b.raw => ~SameKey(a.obs, b.obs)

\* The twin shows of a lot or gate only what was accepted for it: a reading
\* that was rejected, or that a crash rolled back, never gets there.
TwinShowsOnlyAccepted ==
    \A e \in Entities : twin[e] # NULL =>
        \E a \in accepted : a.obs = twin[e] /\ Subject(a.obs) = e

\* An accepted observation the twin turns down was validated against another
\* configuration than the twin's copy: the two checks of the same ceiling
\* ("should not happen") only disagree between the two transactions of a
\* configuration load, or after a load that died between them.
SyncFailsOnlyAcrossReload ==
    \A s \in Sessions : pc[s] = "sync" =>
        LET o == Head(queue[s]) IN
        (Target(o) \in Entities /\ (Missing(Target(o)) \/ OverTwinCeiling(Target(o), o)))
            => verdict[s].config # twinVersion

\* What is on record of a batch is the head of what was submitted, row by row:
\* a request that fails, or whose server dies, at some row has recorded and
\* judged every row before it and none after, so that the client knows where
\* to go on.
RecordedIsAPrefix ==
    \A r \in raw : r.batch # NULL =>
        \A n \in r.batch[2]..r.id[2] :
            \E q \in raw : q.id = <<r.id[1], n>> /\ q.batch = r.batch

\* A batch on a server that stays up, of rows that the columns can hold, ends
\* with counters that agree with the two tables and add up to the rows it came
\* with.  A row too large for its columns ends the request and leaves them at
\* zero.
BatchesAddUp ==
    \A s \in Sessions \ Crashing : \A n \in 1..MaxRows[s] :
        LET Of(rows) == Cardinality({r \in rows : r.batch = <<s, n>>})
            Fits == \A i \in DOMAIN queue[s] : queue[s][i] \notin TooLarge
        IN batch[s] = <<s, n>> /\ Fits ~>
              \E b \in batches :
                  /\ b.id = <<s, n>>
                  /\ b.accepted = Of(accepted) /\ b.rejected = Of(rejected)
                  /\ b.accepted + b.rejected = b.total
============================================================================
