------------------------ MODULE DigitalTwin_proofs ------------------------
(***************************************************************************)
(* Proofs about the digital twin, for any campus, any sessions and any     *)
(* sequence of configurations.                                             *)
(***************************************************************************)
EXTENDS TwinHistory, TLAPS

\* A row image, or no row.
Maybe == Row \cup {NoRow}

----------------------------------------------------------------------------
(* The unit of work. *)

\* What a session that committed without a conflict leaves is a row.
LEMMA FlushType ==
    ASSUME NEW cur \in Maybe, NEW old \in Maybe, NEW new \in Maybe,
           ~Conflict(cur, old, new)
    PROVE  Flush(cur, old, new) \in Maybe
<1>1. CASE new = old \/ old = NoRow \/ new = NoRow
  BY <1>1 DEF Flush
<1>2. CASE new # old /\ old # NoRow /\ new # NoRow
  <2>1. cur \in Row /\ new \in Row
    BY <1>2 DEF Conflict, Maybe
  <2>2. [c \in DOMAIN cur |-> IF c \in Dirty(old, new) THEN new[c] ELSE cur[c]] \in Row
    BY <2>1 DEF Row
  <2> QED BY <1>2, <2>2 DEF Flush, Maybe
<1> QED BY <1>1, <1>2

\* A session that was alone with the row writes exactly what it assigned.
LEMMA FlushAlone ==
    ASSUME NEW old \in Maybe, NEW new \in Maybe
    PROVE  Flush(old, old, new) = new /\ ~Conflict(old, old, new)
<1>1. CASE new = old \/ old = NoRow \/ new = NoRow
  BY <1>1 DEF Flush, Conflict
<1>2. CASE new # old /\ old # NoRow /\ new # NoRow
  BY <1>2 DEF Flush, Conflict, Dirty, Maybe, Row
<1> QED BY <1>1, <1>2

\* Of a row that stays, the statement changes no column the session did not
\* itself change between loading and flushing.
LEMMA FlushKeepsClean ==
    ASSUME NEW cur \in Row, NEW old \in Maybe, NEW new \in Maybe,
           ~Conflict(cur, old, new), cur # NoRow,
           Flush(cur, old, new) # NoRow,
           NEW c \in DOMAIN cur, Flush(cur, old, new)[c] # cur[c]
    PROVE  old # NoRow /\ new # NoRow /\ new[c] # old[c]
<1>1. new # old /\ old # NoRow /\ new # NoRow
  BY DEF Flush, Conflict
<1>2. c \in Dirty(old, new)
  BY <1>1 DEF Flush
<1> QED BY <1>1, <1>2 DEF Dirty

----------------------------------------------------------------------------
(* Type correctness. *)

\* init_campus runs on an existing campus, on entities of the file it read,
\* and a row it or an update is about to merge has been assigned.
Progress ==
    \A s \in Sessions :
        /\ pc[s] = "init" => version > 0
        /\ \A e \in todo[s] : seen[s] \in Versions /\ e \in {Campus} \cup DOMAIN Config[seen[s]]
        /\ \A e \in absent[s] : mapped[s][e] # NoRow
        /\ pc[s] \in {"idle", "reset", "snapshot"} => absent[s] = {}

TypeInv == TypeOK /\ Progress

LEMMA ImageType ==
    ASSUME TypeOK, NEW s \in Sessions, NEW E, NEW old, NEW new, Image(s, E, old, new),
           \A e \in E \cap Entities : old[e] \in Maybe /\ new[e] \in Maybe
    PROVE  /\ loaded' \in [Sessions -> Images] /\ mapped' \in [Sessions -> Images]
           /\ \A e \in Entities : mapped'[s][e] = IF e \in E THEN new[e] ELSE mapped[s][e]
           /\ \A e \in Entities : loaded'[s][e] = IF e \in E THEN old[e] ELSE loaded[s][e]
           /\ \A q \in Sessions \ {s} : mapped'[q] = mapped[q] /\ loaded'[q] = loaded[q]
  BY DEF Image, TypeOK, Images, Maybe

LEMMA EmptyType == EmptyRow \in Row /\ NoImages \in Images
  BY DEF EmptyRow, Row, NoImages, Images, Extras

LEMMA AssignedType ==
    ASSUME NEW e \in Observed, NEW o \in Observation, NEW row \in Row, now \in Times,
           o.source \in OBSERVATION_SOURCES, o.provenance \in PROVENANCE_LABELS
    PROVE  /\ Assigned(e, o, row) \in Row
           /\ Stamp(Assigned(e, o, row)) \in Stamps
<1>1. o.reading \in Int /\ o.status \in {NULL} \cup STATUSES
      /\ o.observation_timestamp \in {NULL} \cup Nat
  BY ObservationsAssumption
<1>2. now \in Nat
  BY TimeAssumption DEF Times
<1>3. Assigned(e, o, row) \in Row
  <2>1. o.extra \in Extras
    BY DEF Extras
  <2> DEFINE st == IF o.status = NULL \/ e \in Vehicles THEN row.status ELSE o.status
             ex == IF o.extra = NULL /\ e \in Lots \cup Gates THEN row.extra ELSE o.extra
             at == IF o.observation_timestamp = NULL THEN now ELSE o.observation_timestamp
  <2>2. st \in {NULL} \cup STATUSES /\ ex \in Extras /\ at \in {NULL} \cup Nat
    BY <1>1, <1>2, <2>1 DEF Row
  <2>3. Assigned(e, o, row) = [row EXCEPT !.reading = o.reading, !.status = st, !.extra = ex,
                                 !.observation_timestamp = at, !.source = o.source,
                                 !.provenance = o.provenance]
    BY DEF Assigned, Row
  <2> HIDE DEF st, ex, at
  <2> QED BY <1>1, <2>2, <2>3 DEF Row
<1>4. Stamp(Assigned(e, o, row)) \in Stamps
  <2> DEFINE t == IF o.observation_timestamp = NULL THEN now ELSE o.observation_timestamp
             ts == IF o.observation_timestamp = NULL THEN Times ELSE {o.observation_timestamp}
  <2>1. Stamp(Assigned(e, o, row)) = [reading |-> o.reading, observation_timestamp |-> t,
                                      source |-> o.source, provenance |-> o.provenance]
    BY <1>3, NoRowAssumption DEF Stamp, Assigned, Row
  <2>2. t \in ts
    OBVIOUS
  <2> QED BY <2>1, <2>2 DEF Stamps
<1> QED BY <1>3, <1>4

LEMMA RefreshedType ==
    ASSUME NEW v \in Versions, NEW e \in {Campus} \cup DOMAIN Config[v], NEW row \in Maybe
    PROVE  Refreshed(e, v, row) \in Row
<1>1. CASE e = Campus
  BY <1>1, EmptyType DEF Refreshed, Row, Maybe, EmptyRow
<1>2. CASE e # Campus
  <2>1. Config[v][e].status \in STATUSES /\ (e \in Lots => Config[v][e].total \in Nat)
    BY <1>2, ConfigAssumption
  <2> DEFINE base == IF row = NoRow THEN [EmptyRow EXCEPT !.status = Config[v][e].status] ELSE row
  <2>2. base \in Row
    BY <2>1, EmptyType DEF Row, Maybe, EmptyRow
  <2>3. e \in Lots => [base EXCEPT !.total_capacity = Config[v][e].total] \in Row
    BY <2>1, <2>2 DEF Row
  <2> QED BY <1>2, <2>2, <2>3 DEF Refreshed
<1> QED BY <1>1, <1>2

LEMMA ClearedType ==
    ASSUME NEW row \in Maybe
    PROVE  Cleared(row) \in Maybe
  BY DEF Cleared, Row, Maybe, Extras

LEMMA MergedType ==
    ASSUME NEW e \in Entities, NEW row \in Maybe, NEW new \in Row
    PROVE  Merged(e, row, new) \in Row
  BY DEF Merged, Row, Maybe

LEMMA CommitType ==
    ASSUME TypeOK, NEW s \in Sessions, Commit(s)
    PROVE  rows' \in Images /\ Close(s)
<1>1. CASE \E e \in Entities : Conflict(rows[e], loaded[s][e], mapped[s][e])
  BY <1>1 DEF Commit, TypeOK
<1>2. CASE ~\E e \in Entities : Conflict(rows[e], loaded[s][e], mapped[s][e])
  <2>1. \A e \in Entities : rows[e] \in Maybe /\ loaded[s][e] \in Maybe /\ mapped[s][e] \in Maybe
    BY DEF TypeOK, Images, Maybe
  <2>2. \A e \in Entities : Flush(rows[e], loaded[s][e], mapped[s][e]) \in Maybe
    BY <1>2, <2>1, FlushType
  <2> QED BY <1>2, <2>2 DEF Commit, Images, Maybe
<1> QED BY <1>1, <1>2

LEMMA CloseType ==
    ASSUME TypeInv, NEW s \in Sessions, Close(s), rows' \in Images,
           version' = version, now' = now
    PROVE  TypeInv'
<1>1. TypeOK'
  BY EmptyType DEF TypeInv, TypeOK, Close
<1>2. Progress'
  BY DEF TypeInv, TypeOK, Progress, Close
<1> QED BY <1>1, <1>2 DEF TypeInv

LEMMA TypeInit == Init => TypeInv
<1> SUFFICES ASSUME Init PROVE TypeInv
  OBVIOUS
<1>1. TypeOK
  BY EmptyType, ConfigAssumption, TimeAssumption DEF Init, TypeOK, Times
<1>2. Progress
  BY DEF Init, Progress
<1> QED BY <1>1, <1>2 DEF TypeInv

LEMMA TypeStep == TypeInv /\ [Next]_vars => TypeInv'
<1> SUFFICES ASSUME TypeInv, [Next]_vars PROVE TypeInv'
  OBVIOUS
<1>a. TypeOK /\ Progress
  BY DEF TypeInv
<1>b. Len(Config) \in Nat /\ now \in Times /\ version \in 0..Len(Config) /\ rows \in Images
  BY <1>a, ConfigAssumption DEF TypeOK
<1>c. \A e \in Entities : rows[e] \in Maybe
  BY <1>b DEF Images, Maybe
<1>1. ASSUME NEW s \in Sessions, NEW e \in Observed, NEW o \in Observations[e], Update(s, e, o)
      PROVE  TypeInv'
  <2> DEFINE base == IF rows[e] = NoRow THEN EmptyRow ELSE rows[e]
             new == Assigned(e, o, base)
  <2>1. base \in Row /\ o \in Observation /\ e \in Entities
    BY <1>c, EmptyType DEF Maybe, Observation, Entities
  <2>2. o.source \in OBSERVATION_SOURCES /\ o.provenance \in PROVENANCE_LABELS
    BY <1>1 DEF Update, Accepts
  <2>3. new \in Row /\ new # NoRow /\ Stamp(new) \in Stamps
    BY <1>b, <2>1, <2>2, AssignedType, NoRowAssumption
  <2> HIDE DEF new
  <2>4. /\ Image(s, {e}, [x \in {e} |-> rows[e]], [x \in {e} |-> new])
        /\ offer' = [offer EXCEPT ![s] = [entity |-> e, stamp |-> Stamp(new)]]
        /\ absent' = [absent EXCEPT ![s] = {x \in {e} : rows[x] = NoRow}]
        /\ pc' = [pc EXCEPT ![s] = "update"]
        /\ UNCHANGED <<version, rows, now, table, seen, todo>>
    BY <1>1 DEF Update, new
  <2>5. /\ loaded' \in [Sessions -> Images] /\ mapped' \in [Sessions -> Images]
        /\ mapped'[s][e] = new
        /\ \A q \in Sessions \ {s} : mapped'[q] = mapped[q]
    BY <1>a, <1>c, <2>1, <2>3, <2>4, ImageType DEF Maybe
  <2>6. TypeOK'
    BY <1>a, <2>1, <2>3, <2>4, <2>5 DEF TypeOK
  <2>7. Progress'
    BY <1>a, <2>3, <2>4, <2>5 DEF TypeOK, Progress
  <2> QED BY <2>6, <2>7 DEF TypeInv
<1>2. ASSUME NEW s \in Sessions, NEW l \in Lots, NEW p \in Forecasts, SetPredicted(s, l, p)
      PROVE  TypeInv'
  <2> DEFINE new == [rows[l] EXCEPT !.extra = p]
  <2>1. new \in Row /\ l \in Entities
    BY <1>2, <1>c DEF SetPredicted, Maybe, Row, Extras, Entities, Observed
  <2> HIDE DEF new
  <2>2. /\ Image(s, {l}, rows, [x \in {l} |-> new])
        /\ pc[s] = "idle" /\ pc' = [pc EXCEPT ![s] = "forecast"]
        /\ UNCHANGED <<version, rows, now, table, seen, todo, absent, offer>>
    BY <1>2 DEF SetPredicted, new
  <2>3. /\ loaded' \in [Sessions -> Images] /\ mapped' \in [Sessions -> Images]
        /\ \A e \in Entities : mapped'[s][e] = IF e = l THEN new ELSE mapped[s][e]
        /\ \A q \in Sessions \ {s} : mapped'[q] = mapped[q]
    BY <1>a, <1>c, <2>1, <2>2, ImageType DEF Maybe
  <2>4. TypeOK'
    BY <1>a, <2>2, <2>3 DEF TypeOK
  <2>5. Progress'
    BY <1>a, <2>1, <2>2, <2>3, NoRowAssumption DEF TypeOK, Progress
  <2> QED BY <2>4, <2>5 DEF TypeInv
<1>3. ASSUME NEW s \in Sessions, NEW e \in Structural, InitRow(s, e)
      PROVE  TypeInv'
  <2> DEFINE new == Refreshed(e, seen[s], rows[e])
  <2>1. e \in Entities /\ new \in Row
    BY <1>3, <1>a, <1>c, RefreshedType DEF InitRow, Progress, Structural, Entities, Observed
  <2> HIDE DEF new
  <2>2. /\ Image(s, {e}, rows, [x \in {e} |-> new])
        /\ absent' = [absent EXCEPT ![s] = {x \in {e} : rows[x] = NoRow}]
        /\ todo' = [todo EXCEPT ![s] = @ \ {e}]
        /\ pc[s] = "init"
        /\ UNCHANGED <<version, rows, now, pc, table, seen, offer>>
    BY <1>3 DEF InitRow, new
  <2>3. /\ loaded' \in [Sessions -> Images] /\ mapped' \in [Sessions -> Images]
        /\ mapped'[s][e] = new
        /\ \A q \in Sessions \ {s} : mapped'[q] = mapped[q]
    BY <1>a, <1>c, <2>1, <2>2, ImageType DEF Maybe
  <2>4. TypeOK'
    BY <1>a, <2>1, <2>2, <2>3 DEF TypeOK
  <2>5. Progress'
    BY <1>a, <2>1, <2>2, <2>3, NoRowAssumption DEF TypeOK, Progress
  <2> QED BY <2>4, <2>5 DEF TypeInv
<1>4. ASSUME NEW s \in Sessions, NEW e \in Entities, MergeNew(s, e)
      PROVE  TypeInv'
  <2> DEFINE new == Merged(e, rows[e], mapped[s][e])
  <2>1. mapped[s][e] \in Row
    BY <1>4, <1>a DEF MergeNew, Progress, TypeOK, Images
  <2>2. new \in Row
    BY <1>c, <2>1, MergedType
  <2> HIDE DEF new
  <2>3. /\ Image(s, {e}, rows, [x \in {e} |-> new])
        /\ absent' = [absent EXCEPT ![s] = @ \ {e}]
        /\ e \in absent[s]
        /\ UNCHANGED <<version, rows, now, pc, table, seen, todo, offer>>
    BY <1>4 DEF MergeNew, new
  <2>4. /\ loaded' \in [Sessions -> Images] /\ mapped' \in [Sessions -> Images]
        /\ \A x \in Entities \ {e} : mapped'[s][x] = mapped[s][x]
        /\ \A q \in Sessions \ {s} : mapped'[q] = mapped[q]
    BY <1>a, <1>c, <2>2, <2>3, ImageType DEF Maybe
  <2>5. TypeOK'
    BY <1>a, <2>3, <2>4 DEF TypeOK
  <2>6. ASSUME NEW q \in Sessions
        PROVE  absent'[q] \subseteq absent[q]
               /\ \A x \in absent'[q] : x \in Entities /\ mapped'[q][x] = mapped[q][x]
    <3>1. absent[q] \subseteq Entities
      BY <1>a DEF TypeOK
    <3>2. absent'[q] = IF q = s THEN absent[q] \ {e} ELSE absent[q]
      BY <1>a, <2>3 DEF TypeOK
    <3> QED BY <2>4, <3>1, <3>2
  <2>7. Progress'
    BY <1>a, <2>3, <2>6 DEF Progress
  <2> QED BY <2>5, <2>7 DEF TypeInv
<1>5. ASSUME NEW s \in Sessions, Upsert(s) \/ StartInit(s) \/ StartReset(s) \/ StartSnapshot(s)
      PROVE  TypeInv'
  <2>1. TypeOK'
    <3>1. version' \in 0..Len(Config)
      BY <1>5, <1>b DEF Upsert, StartInit, StartReset, StartSnapshot
    <3>2. pc' \in [Sessions -> {"idle", "update", "forecast", "init", "reset", "snapshot"}]
      BY <1>5, <1>a DEF TypeOK, Upsert, StartInit, StartReset, StartSnapshot
    <3>3. table' \in [Sessions -> 1..6]
      <4>1. table' = table \/ table' = [table EXCEPT ![s] = 2]
        BY <1>5 DEF Upsert, StartInit, StartReset, StartSnapshot, txVars
      <4>2. table \in [Sessions -> 1..6] /\ 2 \in 1..6
        BY <1>a DEF TypeOK
      <4> QED BY <4>1, <4>2
    <3>4. UNCHANGED <<rows, now, seen, todo, absent, loaded, mapped, offer>>
      BY <1>5 DEF Upsert, StartInit, StartReset, StartSnapshot, txVars
    <3> QED BY <1>a, <3>1, <3>2, <3>3, <3>4 DEF TypeOK
  <2>2. /\ pc[s] = "idle" /\ version' >= version
        /\ \E k \in {"init", "reset", "snapshot"} :
              pc' = [pc EXCEPT ![s] = k] /\ (k = "init" => version' > 0)
        /\ UNCHANGED <<seen, todo, absent, mapped>>
    BY <1>5, <1>b DEF Upsert, StartInit, StartReset, StartSnapshot, txVars
  <2>3. absent[s] = {} /\ version' \in Int /\ version \in Int
    BY <1>a, <2>1, <2>2 DEF Progress, TypeOK
  <2>4. ASSUME NEW q \in Sessions
        PROVE  (pc'[q] = "init" => version' > 0)
               /\ (pc'[q] \in {"idle", "reset", "snapshot"} => absent[q] = {})
    <3>1. (pc[q] = "init" => version > 0) /\ (pc[q] \in {"idle", "reset", "snapshot"} => absent[q] = {})
      BY <1>a DEF Progress
    <3>2. q = s \/ pc'[q] = pc[q]
      BY <1>a, <2>2 DEF TypeOK
    <3> QED BY <1>a, <2>2, <2>3, <3>1, <3>2 DEF TypeOK
  <2>5. Progress'
    BY <1>a, <2>2, <2>4 DEF Progress
  <2> QED BY <2>1, <2>5 DEF TypeInv
<1>6. ASSUME NEW s \in Sessions, InitRead(s)
      PROVE  TypeInv'
  <2>1. version \in Versions /\ table[s] \in 1..4
    BY <1>6, <1>a, <1>b DEF InitRead, Progress, TypeOK, Versions
  <2>2. OfKind(Kinds[table[s]]) \subseteq Structural
    BY <2>1 DEF Kinds, OfKind, Structural
  <2>3. TypeOK'
    BY <1>6, <1>a, <1>b, <2>1, <2>2 DEF TypeOK, InitRead
  <2>4. Progress'
    BY <1>6, <1>a, <2>1 DEF TypeOK, Progress, InitRead
  <2> QED BY <2>3, <2>4 DEF TypeInv
<1>7. ASSUME NEW s \in Sessions, ResetTable(s) \/ ReadTable(s)
      PROVE  TypeInv'
  <2> DEFINE E == OfKind(Kinds[table[s]])
  <2>1. PICK old, new :
          /\ Image(s, E, old, new)
          /\ \A e \in E \cap Entities : old[e] \in Maybe /\ new[e] \in Maybe
    <3>1. CASE ReadTable(s)
      BY <3>1, <1>c DEF ReadTable
    <3>2. CASE ResetTable(s)
      <4> DEFINE cleared == [e \in E |-> IF e \in Vehicles THEN NoRow ELSE Cleared(rows[e])]
      <4>1. \A e \in E \cap Entities : cleared[e] \in Maybe
        BY <1>c, ClearedType DEF Maybe
      <4> QED BY <3>2, <1>c, <4>1 DEF ResetTable
    <3> QED BY <1>7, <3>1, <3>2
  <2>2. /\ loaded' \in [Sessions -> Images] /\ mapped' \in [Sessions -> Images]
        /\ \A q \in Sessions \ {s} : mapped'[q] = mapped[q]
    BY <1>a, <2>1, ImageType
  <2>3. /\ table[s] <= 5
        /\ table' = [table EXCEPT ![s] = @ + 1]
        /\ pc[s] # "init"
        /\ UNCHANGED <<version, rows, now, pc, seen, todo, absent, offer>>
    BY <1>7 DEF ResetTable, ReadTable
  <2>4. table' \in [Sessions -> 1..6]
    <3>1. table[s] \in 1..6
      BY <1>a DEF TypeOK
    <3>2. table[s] + 1 \in 1..6
      BY <2>3, <3>1
    <3> QED BY <1>a, <2>3, <3>2 DEF TypeOK
  <2>5. TypeOK'
    BY <1>a, <2>2, <2>3, <2>4 DEF TypeOK
  <2>6. absent[s] = {}
    BY <1>7, <1>a DEF Progress, ResetTable, ReadTable
  <2>7. Progress'
    BY <1>a, <2>2, <2>3, <2>6 DEF TypeOK, Progress
  <2> QED BY <2>5, <2>7 DEF TypeInv
<1>8. ASSUME NEW s \in Sessions,
             CommitUpdate(s) \/ CommitPredicted(s) \/ CommitInit(s) \/ CommitReset(s)
      PROVE  TypeInv'
  <2>1. Commit(s) /\ UNCHANGED <<version, now>>
    BY <1>8 DEF CommitUpdate, CommitPredicted, CommitInit, CommitReset
  <2> QED BY <1>a, <2>1, CommitType, CloseType
<1>9. ASSUME NEW s \in Sessions, CommitSnapshot(s) \/ Crash(s)
      PROVE  TypeInv'
  BY <1>9, <1>b, CloseType DEF CommitSnapshot, Crash
<1>10. ASSUME Tick
       PROVE  TypeInv'
  <2>1. now + 1 \in Times
    BY <1>10, <1>b, TimeAssumption DEF Tick, Times
  <2> QED BY <1>10, <1>a, <2>1 DEF Tick, TypeInv, TypeOK, Progress, txVars
<1>11. CASE UNCHANGED vars
  BY <1>11, <1>a DEF vars, txVars, TypeInv, TypeOK, Progress
<1> QED
  BY <1>1, <1>2, <1>3, <1>4, <1>5, <1>6, <1>7, <1>8, <1>9, <1>10, <1>11 DEF Next

LEMMA TypeInvariant == Spec => []TypeInv
  BY TypeInit, TypeStep, PTL DEF Spec

\* Every variable has its type in every reachable state, whatever sessions run.
THEOREM TypeCorrect == Spec => []TypeOK
<1>1. TypeInv => TypeOK
  BY DEF TypeInv
<1> QED BY <1>1, TypeInvariant, PTL

----------------------------------------------------------------------------
(* Who writes what.  A session's two images of a row differ at most in the  *)
(* columns its operation owns, so its UPDATE names no other column.         *)

Columns(operation) ==
    CASE operation = "update" -> ObservationColumns \cup {"extra", "status"}
      [] operation = "reset" -> ObservationColumns \cup {"extra"}
      [] operation = "forecast" -> {"extra"}
      [] operation = "init" -> {"status", "total_capacity", "config_version"}
      [] OTHER -> {}

\* A vehicle's row has none of the structural columns.
Plain(row) ==
    row # NoRow => row.total_capacity = NULL /\ row.status = NULL /\ row.config_version = NULL

Pair(e, operation, old, new) ==
    /\ (old # NoRow /\ new # NoRow) =>
          \A c \in DOMAIN new : new[c] # old[c] => c \in Columns(operation)
    /\ e \in Vehicles => Plain(old) /\ Plain(new)

Confined ==
    /\ \A s \in Sessions, e \in Entities : Pair(e, pc[s], loaded[s][e], mapped[s][e])
    /\ \A e \in Vehicles : Plain(rows[e])
    /\ \A s \in Sessions : \A e \in absent[s] :
          IF e \in Vehicles THEN pc[s] = "update" ELSE pc[s] = "init"

LEMMA VehiclesApart == Vehicles \cap Structural = {}
<1>1. \A i \in 1..4 : OfKind(Kinds[i]) \cap Vehicles = {}
  <2>1. OfKind(Kinds[5]) = Vehicles /\ DOMAIN Kinds = 1..5
    BY DEF OfKind, Kinds
  <2> QED BY <2>1, EntitiesAssumption
<1>2. /\ OfKind(Kinds[1]) = {Campus} /\ OfKind(Kinds[2]) = Lots
      /\ OfKind(Kinds[3]) = Gates /\ OfKind(Kinds[4]) = Roads
  BY DEF OfKind, Kinds
<1> QED BY <1>1, <1>2 DEF Structural

LEMMA AssignedPair ==
    ASSUME NEW e \in Observed, NEW o \in Observation, NEW old \in Maybe,
           e \in Vehicles => Plain(old)
    PROVE  Pair(e, "update", old, Assigned(e, o, IF old = NoRow THEN EmptyRow ELSE old))
<1> DEFINE base == IF old = NoRow THEN EmptyRow ELSE old
<1>1. base \in Row
  BY EmptyType DEF Maybe
<1>2. ASSUME old # NoRow, NEW c \in DOMAIN Assigned(e, o, base), Assigned(e, o, base)[c] # old[c]
      PROVE  c \in Columns("update")
  BY <1>1, <1>2 DEF Assigned, Columns, ObservationColumns, Row
<1>3. e \in Vehicles => Plain(base)
  BY DEF Plain, EmptyRow
<1>4. e \in Vehicles => Plain(Assigned(e, o, base))
  BY <1>1, <1>3, NoRowAssumption DEF Assigned, Plain, Row
<1> QED BY <1>2, <1>4 DEF Pair

LEMMA ForecastPair ==
    ASSUME NEW l \in Lots, NEW row \in Row, NEW p
    PROVE  Pair(l, "forecast", row, [row EXCEPT !.extra = p])
<1>1. l \notin Vehicles
  BY VehiclesApart DEF Structural
<1> QED BY <1>1 DEF Pair, Columns, Row

LEMMA RefreshedPair ==
    ASSUME NEW v, NEW e \in Structural, NEW row \in Maybe
    PROVE  Pair(e, "init", row, Refreshed(e, v, row))
<1>1. e \notin Vehicles
  BY VehiclesApart
<1> QED BY <1>1 DEF Pair, Columns, Refreshed, Row, Maybe

LEMMA ClearedPair ==
    ASSUME NEW e \in Entities, NEW row \in Maybe, e \in Vehicles => Plain(row)
    PROVE  Pair(e, "reset", row, IF e \in Vehicles THEN NoRow ELSE Cleared(row))
  BY DEF Pair, Columns, ObservationColumns, Cleared, Row, Maybe, Plain

LEMMA MergedPair ==
    ASSUME NEW e \in Entities, NEW row \in Maybe, NEW new \in Row, NEW operation,
           IF e \in Vehicles THEN operation = "update" ELSE operation = "init",
           e \in Vehicles => Plain(row) /\ Plain(new)
    PROVE  Pair(e, operation, row, Merged(e, row, new))
<1>1. CASE row = NoRow
  BY <1>1 DEF Pair, Merged, Plain
<1>2. CASE row # NoRow /\ e \notin Vehicles
  BY <1>2 DEF Pair, Merged, Columns, Row, Maybe
<1>3. CASE row # NoRow /\ e \in Vehicles
  <2>1. Merged(e, row, new) = new /\ new # NoRow /\ row \in Row
    BY <1>3, NoRowAssumption DEF Merged, Maybe
  <2>2. \A c \in DOMAIN new : new[c] # row[c] => c \in Columns("update")
    BY <1>3, <2>1 DEF Plain, Columns, ObservationColumns, Row
  <2> QED BY <1>3, <2>1, <2>2 DEF Pair
<1> QED BY <1>1, <1>2, <1>3

\* The rows and absences stay as they are, and a session's images change as
\* its operation may change them.
LEMMA ConfinedImage ==
    ASSUME TypeOK, Confined, NEW s \in Sessions, NEW E, NEW old, NEW new, Image(s, E, old, new),
           \A e \in E \cap Entities : old[e] \in Maybe /\ new[e] \in Maybe,
           pc[s] \in {"idle", pc'[s]}, pc' = [pc EXCEPT ![s] = pc'[s]],
           \A e \in E \cap Entities : Pair(e, pc'[s], old[e], new[e])
    PROVE  \A q \in Sessions, e \in Entities : Pair(e, pc'[q], loaded'[q][e], mapped'[q][e])
<1>1. /\ \A e \in Entities : mapped'[s][e] = IF e \in E THEN new[e] ELSE mapped[s][e]
      /\ \A e \in Entities : loaded'[s][e] = IF e \in E THEN old[e] ELSE loaded[s][e]
      /\ \A q \in Sessions \ {s} : mapped'[q] = mapped[q] /\ loaded'[q] = loaded[q]
  BY ImageType
<1>2. \A q \in Sessions \ {s} : pc'[q] = pc[q]
  BY DEF TypeOK
<1>3. ASSUME NEW e \in Entities \ E
      PROVE  Pair(e, pc'[s], loaded[s][e], mapped[s][e])
  <2>1. Pair(e, pc[s], loaded[s][e], mapped[s][e])
    BY DEF Confined
  <2> QED BY <2>1 DEF Pair, Columns
<1>4. ASSUME NEW e \in Entities
      PROVE  Pair(e, pc'[s], loaded'[s][e], mapped'[s][e])
  BY <1>1, <1>2, <1>3
<1>5. ASSUME NEW q \in Sessions \ {s}, NEW e \in Entities
      PROVE  Pair(e, pc'[q], loaded'[q][e], mapped'[q][e])
  <2>1. Pair(e, pc[q], loaded[q][e], mapped[q][e])
    BY DEF Confined
  <2> QED BY <1>1, <1>2, <2>1
<1> QED BY <1>4, <1>5

LEMMA ConfinedClose ==
    ASSUME TypeOK, Confined, NEW s \in Sessions, Close(s), \A e \in Vehicles : Plain(rows'[e])
    PROVE  Confined'
<1>1. \A e \in Entities : NoImages[e] = NoRow
  BY DEF NoImages
<1>2. \A e \in Entities : Pair(e, "idle", NoRow, NoRow)
  BY DEF Pair, Plain
<1>3. \A q \in Sessions, e \in Entities : Pair(e, pc'[q], loaded'[q][e], mapped'[q][e])
  <2> SUFFICES ASSUME NEW q \in Sessions, NEW e \in Entities
               PROVE  Pair(e, pc'[q], loaded'[q][e], mapped'[q][e])
    OBVIOUS
  <2>1. CASE q = s
    BY <1>1, <1>2, <2>1 DEF Close, TypeOK
  <2>2. CASE q # s
    BY <2>2 DEF Close, TypeOK, Confined
  <2> QED BY <2>1, <2>2
<1>4. \A q \in Sessions : \A e \in absent'[q] : IF e \in Vehicles THEN pc'[q] = "update" ELSE pc'[q] = "init"
  BY DEF Close, TypeOK, Confined
<1> QED BY <1>3, <1>4 DEF Confined

\* A commit keeps vehicles plain.
LEMMA ConfinedCommit ==
    ASSUME TypeOK, Confined, NEW s \in Sessions, Commit(s)
    PROVE  Confined'
<1>1. Close(s) /\ \A e \in Vehicles : e \in Entities
  BY DEF Commit, Entities, Observed
<1>2. ASSUME NEW e \in Vehicles
      PROVE  Plain(rows'[e])
  <2>1. /\ Plain(rows[e]) /\ Plain(loaded[s][e]) /\ Plain(mapped[s][e])
        /\ rows[e] \in Maybe /\ loaded[s][e] \in Maybe /\ mapped[s][e] \in Maybe
    BY <1>1 DEF Confined, Pair, TypeOK, Images, Maybe
  <2>2. CASE rows' = rows
    BY <2>1, <2>2
  <2>3. CASE /\ ~Conflict(rows[e], loaded[s][e], mapped[s][e])
             /\ rows'[e] = Flush(rows[e], loaded[s][e], mapped[s][e])
    BY <2>1, <2>3 DEF Flush, Conflict, Plain, Maybe, Row
  <2> QED BY <1>1, <2>2, <2>3 DEF Commit
<1> QED BY <1>1, <1>2, ConfinedClose

LEMMA ConfinedInit == Init => Confined
  BY DEF Init, Confined, Pair, Plain, NoImages, Entities, Observed

LEMMA ConfinedStep == TypeInv /\ Confined /\ [Next]_vars => Confined'
<1> SUFFICES ASSUME TypeInv, Confined, [Next]_vars PROVE Confined'
  OBVIOUS
<1>a. TypeOK /\ Progress
  BY DEF TypeInv
<1>c. \A e \in Entities : rows[e] \in Maybe
  BY <1>a DEF TypeOK, Images, Maybe
<1>d. /\ \A e \in Vehicles : Plain(rows[e])
      /\ Vehicles \subseteq Observed /\ Observed \subseteq Entities /\ Structural \subseteq Entities
      /\ Lots \subseteq Entities
  BY DEF Confined, Observed, Entities, Structural
<1>1. ASSUME NEW s \in Sessions, NEW e \in Observed, NEW o \in Observations[e], Update(s, e, o)
      PROVE  Confined'
  <2> DEFINE new == Assigned(e, o, IF rows[e] = NoRow THEN EmptyRow ELSE rows[e])
  <2>1. o \in Observation /\ o.source \in OBSERVATION_SOURCES /\ o.provenance \in PROVENANCE_LABELS
        /\ (e \notin Vehicles => rows[e] # NoRow)
    BY <1>1 DEF Observation, Update, Accepts
  <2>2. new \in Maybe /\ Pair(e, "update", rows[e], new)
    BY <1>a, <1>c, <1>d, <2>1, AssignedType, AssignedPair, EmptyType DEF Maybe, TypeOK
  <2> HIDE DEF new
  <2>3. /\ Image(s, {e}, [x \in {e} |-> rows[e]], [x \in {e} |-> new])
        /\ absent' = [absent EXCEPT ![s] = {x \in {e} : rows[x] = NoRow}]
        /\ pc[s] = "idle" /\ pc'[s] = "update" /\ pc' = [pc EXCEPT ![s] = pc'[s]]
        /\ UNCHANGED rows
    BY <1>1, <1>a DEF Update, new, TypeOK
  <2> DEFINE olds == [x \in {e} |-> rows[e]]
             news == [x \in {e} |-> new]
  <2>a. \A x \in {e} \cap Entities : olds[x] \in Maybe /\ news[x] \in Maybe
                                   /\ Pair(x, "update", olds[x], news[x])
    BY <1>c, <2>2
  <2>b. Image(s, {e}, olds, news)
    BY <2>3
  <2> HIDE DEF olds, news
  <2>4. \A q \in Sessions, x \in Entities : Pair(x, pc'[q], loaded'[q][x], mapped'[q][x])
    BY <1>a, <2>3, <2>a, <2>b, ConfinedImage
  <2>5. \A q \in Sessions : \A x \in absent'[q] :
            IF x \in Vehicles THEN pc'[q] = "update" ELSE pc'[q] = "init"
    BY <1>a, <2>1, <2>3 DEF TypeOK, Confined
  <2> QED BY <1>d, <2>3, <2>4, <2>5 DEF Confined
<1>2. ASSUME NEW s \in Sessions, NEW l \in Lots, NEW p \in Forecasts, SetPredicted(s, l, p)
      PROVE  Confined'
  <2> DEFINE E == {l}
             news == [x \in {l} |-> [rows[l] EXCEPT !.extra = p]]
  <2>1. rows[l] \in Row /\ news[l] \in Row
    BY <1>2, <1>c, <1>d DEF SetPredicted, Maybe, Row, Extras
  <2>2. \A x \in E \cap Entities : rows[x] \in Maybe /\ news[x] \in Maybe
                                   /\ Pair(x, "forecast", rows[x], news[x])
    BY <2>1, ForecastPair DEF Maybe
  <2>3. /\ Image(s, E, rows, news)
        /\ pc[s] = "idle" /\ pc'[s] = "forecast" /\ pc' = [pc EXCEPT ![s] = pc'[s]]
        /\ UNCHANGED <<rows, absent>>
    BY <1>2, <1>a DEF SetPredicted, TypeOK
  <2> HIDE DEF E, news
  <2>4. \A q \in Sessions, x \in Entities : Pair(x, pc'[q], loaded'[q][x], mapped'[q][x])
    BY <1>a, <2>2, <2>3, ConfinedImage
  <2>5. absent[s] = {}
    BY <1>a, <2>3 DEF Progress
  <2> QED BY <1>a, <1>d, <2>3, <2>4, <2>5 DEF Confined, TypeOK
<1>3. ASSUME NEW s \in Sessions, NEW e \in Structural, InitRow(s, e)
      PROVE  Confined'
  <2> DEFINE E == {e}
             news == [x \in {e} |-> Refreshed(e, seen[s], rows[e])]
  <2>1. news[e] \in Row /\ e \in Entities /\ e \notin Vehicles
    BY <1>3, <1>a, <1>c, <1>d, RefreshedType, VehiclesApart DEF InitRow, Progress
  <2>2. \A x \in E \cap Entities : rows[x] \in Maybe /\ news[x] \in Maybe
                                   /\ Pair(x, "init", rows[x], news[x])
    BY <1>c, <2>1, RefreshedPair DEF Maybe
  <2>3. /\ Image(s, E, rows, news)
        /\ absent' = [absent EXCEPT ![s] = {x \in {e} : rows[x] = NoRow}]
        /\ pc[s] = "init" /\ pc'[s] = "init" /\ pc' = [pc EXCEPT ![s] = pc'[s]]
        /\ UNCHANGED rows
    BY <1>3, <1>a DEF InitRow, TypeOK
  <2> HIDE DEF E, news
  <2>4. \A q \in Sessions, x \in Entities : Pair(x, pc'[q], loaded'[q][x], mapped'[q][x])
    BY <1>a, <2>2, <2>3, ConfinedImage
  <2> QED BY <1>a, <1>d, <2>1, <2>3, <2>4 DEF Confined, TypeOK
<1>4. ASSUME NEW s \in Sessions, NEW e \in Entities, MergeNew(s, e)
      PROVE  Confined'
  <2> DEFINE E == {e}
             news == [x \in {e} |-> Merged(e, rows[e], mapped[s][e])]
  <2>1. mapped[s][e] \in Row
    BY <1>4, <1>a DEF MergeNew, Progress, TypeOK, Images
  <2>2. /\ IF e \in Vehicles THEN pc[s] = "update" ELSE pc[s] = "init"
        /\ e \in Vehicles => Plain(rows[e]) /\ Plain(mapped[s][e])
    BY <1>4 DEF MergeNew, Confined, Pair
  <2>3. news[e] \in Row /\ Pair(e, pc[s], rows[e], news[e])
    BY <1>c, <2>1, <2>2, MergedType, MergedPair
  <2>4. \A x \in E \cap Entities : rows[x] \in Maybe /\ news[x] \in Maybe
                                   /\ Pair(x, pc[s], rows[x], news[x])
    BY <1>c, <2>3 DEF Maybe
  <2>5. /\ Image(s, E, rows, news)
        /\ absent' = [absent EXCEPT ![s] = @ \ {e}]
        /\ pc'[s] = pc[s] /\ pc' = [pc EXCEPT ![s] = pc'[s]] /\ pc' = pc
        /\ UNCHANGED rows
    BY <1>4, <1>a DEF MergeNew, TypeOK
  <2> HIDE DEF E, news
  <2>6. \A q \in Sessions, x \in Entities : Pair(x, pc'[q], loaded'[q][x], mapped'[q][x])
    BY <1>a, <2>4, <2>5, ConfinedImage
  <2>7. \A q \in Sessions : absent'[q] \subseteq absent[q]
    BY <1>a, <2>5 DEF TypeOK
  <2> QED BY <1>d, <2>5, <2>6, <2>7 DEF Confined
<1>5. ASSUME NEW s \in Sessions,
             Upsert(s) \/ StartInit(s) \/ StartReset(s) \/ StartSnapshot(s) \/ InitRead(s)
      PROVE  Confined'
  <2>1. /\ UNCHANGED <<rows, absent, loaded, mapped>>
        /\ UNCHANGED pc \/ (pc[s] = "idle" /\ \E k : pc' = [pc EXCEPT ![s] = k])
    BY <1>5 DEF Upsert, StartInit, StartReset, StartSnapshot, InitRead, txVars
  <2>2. pc[s] = "idle" => absent[s] = {}
    BY <1>a DEF Progress
  <2>3. ASSUME NEW q \in Sessions, NEW e \in Entities
        PROVE  Pair(e, pc'[q], loaded'[q][e], mapped'[q][e])
    <3>1. Pair(e, pc[q], loaded[q][e], mapped[q][e])
      BY DEF Confined
    <3>2. pc'[q] = pc[q] \/ Columns(pc[q]) = {}
      BY <1>a, <2>1 DEF TypeOK, Columns
    <3> QED BY <2>1, <3>1, <3>2 DEF Pair
  <2>4. ASSUME NEW q \in Sessions, NEW e \in absent'[q]
        PROVE  IF e \in Vehicles THEN pc'[q] = "update" ELSE pc'[q] = "init"
    BY <1>a, <2>1, <2>2, <2>4 DEF TypeOK, Confined
  <2> QED BY <1>d, <2>1, <2>3, <2>4 DEF Confined
<1>7. ASSUME NEW s \in Sessions, ResetTable(s)
      PROVE  Confined'
  <2> DEFINE E == OfKind(Kinds[table[s]])
             news == [e \in E |-> IF e \in Vehicles THEN NoRow ELSE Cleared(rows[e])]
  <2>1. \A e \in E \cap Entities : rows[e] \in Maybe /\ news[e] \in Maybe
                                 /\ Pair(e, "reset", rows[e], news[e])
    BY <1>c, <1>d, ClearedType, ClearedPair DEF Maybe
  <2>2. /\ Image(s, E, rows, news)
        /\ pc[s] = "reset" /\ pc'[s] = "reset" /\ pc' = [pc EXCEPT ![s] = pc'[s]] /\ pc' = pc
        /\ UNCHANGED <<rows, absent>>
    BY <1>7, <1>a DEF ResetTable, TypeOK
  <2> HIDE DEF E, news
  <2>3. \A q \in Sessions, x \in Entities : Pair(x, pc'[q], loaded'[q][x], mapped'[q][x])
    BY <1>a, <2>1, <2>2, ConfinedImage
  <2> QED BY <1>d, <2>2, <2>3 DEF Confined
<1>8. ASSUME NEW s \in Sessions, ReadTable(s)
      PROVE  Confined'
  <2> DEFINE E == OfKind(Kinds[table[s]])
  <2>1. \A e \in E \cap Entities : rows[e] \in Maybe /\ Pair(e, "snapshot", rows[e], rows[e])
    BY <1>c, <1>d DEF Pair
  <2>2. /\ Image(s, E, rows, rows)
        /\ pc[s] = "snapshot" /\ pc'[s] = "snapshot" /\ pc' = [pc EXCEPT ![s] = pc'[s]] /\ pc' = pc
        /\ UNCHANGED <<rows, absent>>
    BY <1>8, <1>a DEF ReadTable, TypeOK
  <2> HIDE DEF E
  <2>3. \A q \in Sessions, x \in Entities : Pair(x, pc'[q], loaded'[q][x], mapped'[q][x])
    BY <1>a, <2>1, <2>2, ConfinedImage
  <2> QED BY <1>d, <2>2, <2>3 DEF Confined
<1>9. ASSUME NEW s \in Sessions,
             \/ CommitUpdate(s) \/ CommitPredicted(s) \/ CommitInit(s) \/ CommitReset(s)
             \/ CommitSnapshot(s) \/ Crash(s)
      PROVE  Confined'
  <2>1. Commit(s) \/ (Close(s) /\ UNCHANGED rows)
    BY <1>9 DEF CommitUpdate, CommitPredicted, CommitInit, CommitReset, CommitSnapshot, Crash
  <2> QED BY <1>a, <1>d, <2>1, ConfinedCommit, ConfinedClose
<1>10. CASE Tick \/ UNCHANGED vars
  BY <1>10 DEF Tick, vars, txVars, Confined
<1> QED
  BY <1>1, <1>2, <1>3, <1>4, <1>5, <1>7, <1>8, <1>9, <1>10 DEF Next

\* Of a row that stays, a step changes only the columns of the operation it ends.
LEMMA OwnersStep ==
    ASSUME TypeInv, Confined, [Next]_vars, NEW e \in Entities, rows[e] # NoRow, rows'[e] # NoRow,
           NEW c \in DOMAIN rows[e], rows'[e][c] # rows[e][c]
    PROVE  \E s \in Sessions : pc[s] # "idle" /\ pc'[s] = "idle" /\ c \in Columns(pc[s])
<1>a. TypeOK
  BY DEF TypeInv
<1>1. PICK s \in Sessions : Commit(s) /\ pc[s] # "idle"
  BY DEF Next, vars, txVars, Tick, Update, SetPredicted, InitRow, MergeNew, Upsert, StartInit, InitRead,
         StartReset, ResetTable, StartSnapshot, ReadTable, CommitSnapshot, Crash,
         CommitUpdate, CommitPredicted, CommitInit, CommitReset
<1>2. /\ ~Conflict(rows[e], loaded[s][e], mapped[s][e])
      /\ rows'[e] = Flush(rows[e], loaded[s][e], mapped[s][e])
      /\ pc'[s] = "idle"
  BY <1>a, <1>1 DEF Commit, Close, TypeOK
<1>3. /\ rows[e] \in Row /\ loaded[s][e] \in Maybe /\ mapped[s][e] \in Maybe
  BY <1>a DEF TypeOK, Images, Maybe
<1>4. /\ loaded[s][e] # NoRow /\ mapped[s][e] # NoRow /\ mapped[s][e][c] # loaded[s][e][c]
  BY <1>2, <1>3, FlushKeepsClean
<1>5. c \in DOMAIN mapped[s][e]
  BY <1>3, <1>4 DEF Row, Maybe
<1>6. c \in Columns(pc[s])
  BY <1>4, <1>5 DEF Confined, Pair
<1> QED BY <1>1, <1>2, <1>6

\* Whatever the sessions and however they overlap, nobody writes back a value he
\* merely read: each column of a row changes only by an operation that owns it.
THEOREM OwnersWrite == Spec => OnlyOwnersWrite
<1> DEFINE Own == \A e \in Entities :
        rows[e] # NoRow /\ rows'[e] # NoRow =>
        \A c \in DOMAIN rows[e] : rows'[e][c] # rows[e][c] =>
            \E s \in Sessions : pc[s] \in Owners(c) /\ pc'[s] = "idle"
<1>1. TypeInv /\ Confined /\ [Next]_vars => [Own]_vars
  <2> SUFFICES ASSUME TypeInv, Confined, [Next]_vars,
                      NEW e \in Entities, rows[e] # NoRow, rows'[e] # NoRow,
                      NEW c \in DOMAIN rows[e], rows'[e][c] # rows[e][c]
               PROVE  \E s \in Sessions : pc[s] \in Owners(c) /\ pc'[s] = "idle"
    OBVIOUS
  <2>1. PICK s \in Sessions : pc[s] # "idle" /\ pc'[s] = "idle" /\ c \in Columns(pc[s])
    BY OwnersStep
  <2>2. pc[s] \in Owners(c)
    BY <2>1 DEF Columns, Owners, ObservationColumns
  <2> QED BY <2>1, <2>2
<1>2. Spec => []Confined
  BY TypeInvariant, ConfinedInit, ConfinedStep, PTL DEF Spec
<1> QED BY <1>1, <1>2, TypeInvariant, PTL DEF Spec, OnlyOwnersWrite
----------------------------------------------------------------------------
(* What readers of the twin may rely on: that freshness only decays,       *)
(* whatever the sessions; that the twin is an atomic register as long as   *)
(* one session at a time observes; and that an init_campus nobody overtakes *)
(* makes it mirror the configuration, whatever ran or died before.         *)

----------------------------------------------------------------------------
(* What an operation makes of the rows it has loaded. *)

Shape(operation, offered, e, old, new) ==
    CASE operation = "update" ->
            IF e = offered.entity
            THEN /\ new # NoRow /\ Stamp(new) = offered.stamp
                 /\ e \in Structural => old # NoRow
            ELSE old = NoRow /\ new = NoRow
      [] operation = "reset" -> new = IF e \in Vehicles THEN NoRow ELSE Cleared(old)
      [] operation = "forecast" -> old = NoRow <=> new = NoRow
      [] operation = "init" ->
            /\ new = NoRow => old = NoRow
            /\ old = NoRow /\ new # NoRow => Stamp(new) = Unobserved
      [] OTHER -> new = old

\* The images of a session, and when it offers an observation.
ShapedBy(s) ==
    /\ \A e \in Entities : Shape(pc[s], offer[s], e, loaded[s][e], mapped[s][e])
    /\ \A e \in absent[s] : loaded[s][e] = NoRow
    /\ offer[s] # NULL <=> pc[s] = "update"
    /\ pc[s] \in {"update", "reset"} => s \in Observers
    /\ pc[s] = "idle" => loaded[s] = NoImages /\ mapped[s] = NoImages
                         /\ table[s] = 1 /\ todo[s] = {}
    /\ pc[s] = "reset" => table[s] \in 2..6

Shaped == \A s \in Sessions : ShapedBy(s)

----------------------------------------------------------------------------
(* One observer: the twin is a register. *)

OneObserver == \A s, t \in Observers : s = t

\* The entities a session that will write observations has looked at.
Tables(s) == UNION {OfKind(Kinds[k]) : k \in 2..(table[s] - 1)}
Looked(s) ==
    CASE pc[s] = "update" -> {offer[s].entity}
      [] pc[s] = "reset" -> Tables(s)
      [] OTHER -> {}

\* Nobody else has changed the observations it saw.
SeenIsCurrent ==
    \A s \in Sessions : \A e \in Looked(s) \cap Entities : Stamp(loaded[s][e]) = Stamp(rows[e])

----------------------------------------------------------------------------
(* An init_campus that nobody overtakes. *)

\* Two rows agree in the columns copied from the configuration.
SameCopies(row1, row2) ==
    /\ row1 = NoRow <=> row2 = NoRow
    /\ row1 # NoRow => /\ row1.total_capacity = row2.total_capacity
                       /\ row1.config_version = row2.config_version

\* A row shows version v of the configuration.
UpToDate(e, v, row) ==
    /\ row # NoRow
    /\ e = Campus => row.config_version = v
    /\ e \in Lots => row.total_capacity = Config[v][e].total

\* The entities of version v of the configuration in the first n tables.
Configured(v, n) ==
    {e \in {Campus} \cup DOMAIN Config[v] : \E k \in 1..n : e \in OfKind(Kinds[k])}

\* A session in init_campus that nobody has overtaken works on the configuration
\* in force, what it has dealt with is up to date, and it has seen the rows as
\* they are.
LoadingBy(s) ==
    /\ pc[s] = "init"
    /\ table[s] \in 1..5 /\ todo[s] \subseteq Configured(version, table[s] - 1)
    /\ table[s] > 1 => seen[s] = version
    /\ \A e \in Entities :
          IF e \in Configured(version, table[s] - 1) \ todo[s]
          THEN /\ UpToDate(e, version, mapped[s][e])
               /\ SameCopies(loaded[s][e], rows[e])
          ELSE loaded[s][e] = NoRow /\ mapped[s][e] = NoRow
LoadingProgress == alone \subseteq Sessions /\ \A s \in alone : LoadingBy(s)

\* What the last such session left is what the configuration says.
Mirrored ==
    mirrored =>
        /\ version > 0
        /\ \A e \in {Campus} \cup DOMAIN Config[version] : UpToDate(e, version, rows[e])

Mirror == LoadingProgress /\ Mirrored

----------------------------------------------------------------------------
(* Freshness. *)

LEMMA TimeGoesOn ==
    ASSUME TypeOK, [Next]_vars
    PROVE  now \in Nat /\ now' \in Nat /\ now <= now'
<1>1. now \in Nat
  BY TimeAssumption DEF TypeOK, Times
<1>2. now' = now \/ now' = now + 1
  BY DEF Next, vars, Tick, Update, SetPredicted, InitRow, MergeNew, Upsert, StartInit, InitRead,
         StartReset, ResetTable, StartSnapshot, ReadTable, CommitSnapshot, Crash,
         CommitUpdate, CommitPredicted, CommitInit, CommitReset
<1> QED BY <1>1, <1>2

\* Of one timestamp, a later look never says fresher.
LEMMA LaterIsOlder ==
    ASSUME NEW e \in Observed, NEW at \in Nat, NEW t \in Nat, NEW u \in Nat, t <= u
    PROVE  /\ Rank[Freshness(e, at, u)] <= Rank[Freshness(e, at, t)]
           /\ Rank[Freshness(e, at, t)] \in 1..3
<1>1. Fresh[e] \in Nat /\ Aging[e] \in Nat /\ Fresh[e] <= Aging[e] /\ at # NULL
  BY TimeAssumption
<1> DEFINE R(x) == IF x - at <= Fresh[e] THEN 3 ELSE IF x - at <= Aging[e] THEN 2 ELSE 1
<1>2. ASSUME NEW x \in Nat PROVE Rank[Freshness(e, at, x)] = R(x)
  <2>1. CASE x - at <= Fresh[e]
    BY <1>1, <2>1 DEF Freshness, Rank
  <2>2. CASE x - at > Fresh[e] /\ x - at <= Aging[e]
    BY <1>1, <2>2 DEF Freshness, Rank
  <2>3. CASE x - at > Aging[e]
    BY <1>1, <2>3 DEF Freshness, Rank
  <2> QED BY <1>1, <2>1, <2>2, <2>3
<1>3. R(u) <= R(t) /\ R(t) \in 1..3
  BY <1>1
<1> QED BY <1>2, <1>3

\* Without a new observation an entity never looks fresher than before.
THEOREM FreshnessDecays == Spec => FreshnessOnlyDecays
<1> DEFINE Decay == \A e \in Observed :
        Stamp(rows'[e]) = Stamp(rows[e]) =>
            LooksFresh(rows'[e], e, now') <= LooksFresh(rows[e], e, now)
<1>1. TypeInv /\ [Next]_vars => Decay
  <2> SUFFICES ASSUME TypeInv, [Next]_vars, NEW e \in Observed,
                      Stamp(rows'[e]) = Stamp(rows[e])
               PROVE  LooksFresh(rows'[e], e, now') <= LooksFresh(rows[e], e, now)
    OBVIOUS
  <2>1. TypeOK /\ TypeOK'
    BY TypeStep DEF TypeInv
  <2>2. rows[e] \in Maybe /\ rows'[e] \in Maybe
    BY <2>1 DEF TypeOK, Images, Maybe, Entities
  <2>3. now \in Nat /\ now' \in Nat /\ now <= now'
    BY <2>1, TimeGoesOn
  <2> DEFINE At(row) == IF row = NoRow THEN NULL ELSE row.observation_timestamp
  <2>4. ASSUME NEW row \in Maybe
        PROVE  /\ At(row) = Stamp(row).observation_timestamp /\ At(row) \in {NULL} \cup Nat
               /\ \A t \in Nat : LooksFresh(row, e, t) =
                     IF At(row) = NULL THEN 0 ELSE Rank[Freshness(e, At(row), t)]
    <3>1. Rank["UNKNOWN"] = 0 /\ \A t \in Nat : Freshness(e, NULL, t) = "UNKNOWN"
      BY DEF Rank, Freshness
    <3>2. At(row) = Stamp(row).observation_timestamp /\ At(row) \in {NULL} \cup Nat
      BY DEF Stamp, Unobserved, Maybe, Row
    <3> QED BY <3>1, <3>2 DEF LooksFresh
  <2>5. At(rows'[e]) = At(rows[e])
    BY <2>2, <2>4
  <2> HIDE DEF At
  <2>6. CASE At(rows[e]) = NULL
    BY <2>2, <2>3, <2>4, <2>5, <2>6
  <2>7. CASE At(rows[e]) # NULL
    <3>1. At(rows[e]) \in Nat
      BY <2>2, <2>4, <2>7
    <3>2. Rank[Freshness(e, At(rows[e]), now')] <= Rank[Freshness(e, At(rows[e]), now)]
      BY <2>3, <3>1, LaterIsOlder
    <3> QED BY <2>2, <2>3, <2>4, <2>5, <2>7, <3>2
  <2> QED BY <2>6, <2>7
<1> QED BY <1>1, TypeInvariant, PTL DEF Spec, FreshnessOnlyDecays

----------------------------------------------------------------------------
(* The shape of the images, whatever sessions run. *)

\* A step of a session leaves the other sessions alone.
OthersKeep(s) ==
    \A q \in Sessions \ {s} :
        /\ pc'[q] = pc[q] /\ table'[q] = table[q] /\ seen'[q] = seen[q] /\ todo'[q] = todo[q]
        /\ absent'[q] = absent[q] /\ offer'[q] = offer[q]
        /\ loaded'[q] = loaded[q] /\ mapped'[q] = mapped[q]

Act(s) ==
    \/ \E e \in Observed : \E o \in Observations[e] : Update(s, e, o)
    \/ \E l \in Lots, p \in Forecasts : SetPredicted(s, l, p)
    \/ \E e \in Structural : InitRow(s, e)
    \/ \E e \in Entities : MergeNew(s, e)
    \/ Upsert(s) \/ StartInit(s) \/ InitRead(s)
    \/ StartReset(s) \/ ResetTable(s)
    \/ StartSnapshot(s) \/ ReadTable(s) \/ CommitSnapshot(s)
    \/ CommitUpdate(s) \/ CommitPredicted(s) \/ CommitInit(s) \/ CommitReset(s)
    \/ Crash(s)

LEMMA OthersKeepLemma ==
    ASSUME TypeOK, NEW s \in Sessions, Act(s)
    PROVE  OthersKeep(s)
<1>1. CASE \E e \in Observed : \E o \in Observations[e] : Update(s, e, o)
  BY <1>1 DEF Update, Image, TypeOK, OthersKeep
<1>2. CASE \E l \in Lots, p \in Forecasts : SetPredicted(s, l, p)
  BY <1>2 DEF SetPredicted, Image, TypeOK, OthersKeep
<1>3. CASE \E e \in Structural : InitRow(s, e)
  BY <1>3 DEF InitRow, Image, TypeOK, OthersKeep
<1>4. CASE \E e \in Entities : MergeNew(s, e)
  BY <1>4 DEF MergeNew, Image, TypeOK, OthersKeep
<1>5. CASE Upsert(s) \/ StartInit(s) \/ InitRead(s) \/ StartReset(s) \/ StartSnapshot(s)
  BY <1>5 DEF Upsert, StartInit, InitRead, StartReset, StartSnapshot, txVars, TypeOK, OthersKeep
<1>6. CASE ResetTable(s) \/ ReadTable(s)
  BY <1>6 DEF ResetTable, ReadTable, Image, TypeOK, OthersKeep
<1>7. CASE Close(s)
  BY <1>7 DEF Close, TypeOK, OthersKeep
<1>8. CommitSnapshot(s) \/ CommitUpdate(s) \/ CommitPredicted(s) \/ CommitInit(s) \/ CommitReset(s)
        \/ Crash(s) => Close(s)
  BY DEF CommitSnapshot, CommitUpdate, CommitPredicted, CommitInit, CommitReset, Crash, Commit
<1> QED BY <1>1, <1>2, <1>3, <1>4, <1>5, <1>6, <1>7, <1>8 DEF Act

LEMMA ShapedElsewhere ==
    ASSUME Shaped, NEW s \in Sessions, OthersKeep(s), ShapedBy(s)'
    PROVE  Shaped'
<1>1. ASSUME NEW q \in Sessions \ {s} PROVE ShapedBy(q)'
  <2>1. ShapedBy(q)
    BY DEF Shaped
  <2> QED BY <2>1 DEF OthersKeep, ShapedBy, Shape
<1> QED BY <1>1 DEF Shaped

LEMMA ShapedClose ==
    ASSUME TypeOK, NEW s \in Sessions, Close(s)
    PROVE  ShapedBy(s)'
<1>1. /\ pc'[s] = "idle" /\ table'[s] = 1 /\ todo'[s] = {} /\ absent'[s] = {}
      /\ loaded'[s] = NoImages /\ mapped'[s] = NoImages /\ offer'[s] = NULL
  BY DEF Close, TypeOK
<1> QED BY <1>1 DEF ShapedBy, Shape

\* The images after a step that looks at the rows of E.
LEMMA ShapedImage ==
    ASSUME TypeOK, NEW s \in Sessions, NEW E, NEW old, NEW new, Image(s, E, old, new),
           \A e \in Entities \cap E : Shape(pc'[s], offer'[s], e, old[e], new[e]),
           \A e \in Entities \ E : Shape(pc'[s], offer'[s], e, loaded[s][e], mapped[s][e])
    PROVE  \A e \in Entities : Shape(pc'[s], offer'[s], e, loaded'[s][e], mapped'[s][e])
<1>1. \A e \in Entities : /\ loaded'[s][e] = IF e \in E THEN old[e] ELSE loaded[s][e]
                          /\ mapped'[s][e] = IF e \in E THEN new[e] ELSE mapped[s][e]
  BY DEF Image, TypeOK
<1> QED BY <1>1

\* The images of a session that has none.
LEMMA ShapedEmpty ==
    ASSUME NEW e \in Entities, NEW operation \in {"idle", "reset", "forecast", "init", "snapshot"},
           NEW offered
    PROVE  Shape(operation, offered, e, NoImages[e], NoImages[e])
  BY DEF Shape, NoImages, Cleared

LEMMA ShapedStep ==
    ASSUME TypeInv, Confined, Shaped, [Next]_vars
    PROVE  Shaped'
<1>a. TypeOK /\ Progress
  BY DEF TypeInv
<1>c. \A e \in Entities : rows[e] \in Maybe
  BY <1>a DEF TypeOK, Images, Maybe
<1>d. /\ Observed \subseteq Entities /\ Structural \subseteq Entities /\ Lots \subseteq Entities
      /\ \A e \in Entities : e \in Vehicles \/ e \in Structural
  BY DEF Observed, Structural, Entities
<1>1. ASSUME NEW s \in Sessions, NEW e \in Observed, NEW o \in Observations[e], Update(s, e, o)
      PROVE  ShapedBy(s)'
  <2> DEFINE new == Assigned(e, o, IF rows[e] = NoRow THEN EmptyRow ELSE rows[e])
             off == [entity |-> e, stamp |-> Stamp(new)]
             olds == [x \in {e} |-> rows[e]]
             news == [x \in {e} |-> new]
  <2>1. o \in Observation /\ o.source \in OBSERVATION_SOURCES /\ o.provenance \in PROVENANCE_LABELS
        /\ (e \notin Vehicles => rows[e] # NoRow) /\ s \in Observers /\ pc[s] = "idle"
    BY <1>1 DEF Observation, Update, Accepts
  <2>2. new \in Row /\ new # NoRow /\ Stamp(new) \in Stamps
    BY <1>a, <1>c, <1>d, <2>1, AssignedType, EmptyType, NoRowAssumption DEF Maybe, TypeOK
  <2>3. off # NULL
    BY <2>2, NoOfferAssumption
  <2>4. /\ Image(s, {e}, olds, news) /\ offer'[s] = off /\ pc'[s] = "update"
        /\ absent'[s] = {x \in {e} : rows[x] = NoRow}
    BY <1>1, <1>a DEF Update, TypeOK
  <2>5. Shape("update", off, e, rows[e], new)
    BY <2>1, <2>2, VehiclesApart DEF Shape
  <2>6. \A x \in Entities \ {e} : Shape("update", off, x, loaded[s][x], mapped[s][x])
    <3>1. \A x \in Entities : loaded[s][x] = NoRow /\ mapped[s][x] = NoRow
      BY <2>1 DEF Shaped, ShapedBy, NoImages
    <3> QED BY <3>1 DEF Shape
  <2>7. olds[e] = rows[e] /\ news[e] = new
    OBVIOUS
  <2>8. \A x \in absent'[s] : loaded'[s][x] = NoRow
    <3>1. loaded'[s][e] = rows[e]
      BY <1>a, <1>d, <2>4, <2>7 DEF Image, TypeOK
    <3> QED BY <2>4, <3>1
  <2> HIDE DEF new, off, olds, news
  <2>9. \A x \in Entities : Shape(pc'[s], offer'[s], x, loaded'[s][x], mapped'[s][x])
    BY <1>a, <2>4, <2>5, <2>6, <2>7, ShapedImage
  <2> QED BY <2>1, <2>3, <2>4, <2>8, <2>9 DEF ShapedBy
<1>2. ASSUME NEW s \in Sessions, NEW l \in Lots, NEW p \in Forecasts, SetPredicted(s, l, p)
      PROVE  ShapedBy(s)'
  <2> DEFINE news == [x \in {l} |-> [rows[l] EXCEPT !.extra = p]]
  <2>1. rows[l] # NoRow /\ news[l] # NoRow
    <3>1. rows[l] \in Row
      BY <1>2, <1>c, <1>d DEF SetPredicted, Maybe
    <3>2. news[l] \in Row
      BY <3>1 DEF Row, Extras
    <3> QED BY <3>1, <3>2, NoRowAssumption
  <2>2. /\ Image(s, {l}, rows, news) /\ offer' = offer /\ pc[s] = "idle" /\ pc'[s] = "forecast"
        /\ absent' = absent
    BY <1>2, <1>a DEF SetPredicted, TypeOK
  <2> HIDE DEF news
  <2>3. absent[s] = {} /\ offer[s] = NULL
    BY <1>a, <2>2 DEF Progress, Shaped, ShapedBy
  <2>4. \A x \in Entities \ {l} : Shape("forecast", offer'[s], x, loaded[s][x], mapped[s][x])
    BY <2>2, ShapedEmpty DEF Shaped, ShapedBy
  <2>5. Shape("forecast", offer'[s], l, rows[l], news[l])
    BY <2>1 DEF Shape
  <2>6. \A x \in Entities : Shape(pc'[s], offer'[s], x, loaded'[s][x], mapped'[s][x])
    BY <1>a, <2>2, <2>4, <2>5, ShapedImage
  <2> QED BY <2>2, <2>3, <2>6 DEF ShapedBy
<1>3. ASSUME NEW s \in Sessions, NEW e \in Structural, InitRow(s, e)
      PROVE  ShapedBy(s)'
  <2> DEFINE new == Refreshed(e, seen[s], rows[e])
             news == [x \in {e} |-> new]
  <2>1. new \in Row /\ new # NoRow
    BY <1>3, <1>a, <1>c, <1>d, RefreshedType, NoRowAssumption DEF InitRow, Progress
  <2>2. rows[e] = NoRow => Stamp(new) = Unobserved
    BY <2>1 DEF Refreshed, Stamp, Unobserved, EmptyRow
  <2>3. /\ Image(s, {e}, rows, news) /\ offer' = offer /\ pc[s] = "init" /\ pc' = pc
        /\ absent'[s] = {x \in {e} : rows[x] = NoRow}
    BY <1>3, <1>a DEF InitRow, TypeOK
  <2>4. Shape("init", offer'[s], e, rows[e], new)
    BY <2>1, <2>2 DEF Shape
  <2>5. \A x \in Entities : Shape("init", offer'[s], x, loaded[s][x], mapped[s][x])
    BY <2>3 DEF Shaped, ShapedBy
  <2>6. news[e] = new
    OBVIOUS
  <2>7. \A x \in absent'[s] : loaded'[s][x] = NoRow
    <3>1. loaded'[s][e] = rows[e]
      BY <1>a, <1>d, <2>3 DEF Image, TypeOK
    <3> QED BY <2>3, <3>1
  <2> HIDE DEF new, news
  <2>8. \A x \in Entities : Shape(pc'[s], offer'[s], x, loaded'[s][x], mapped'[s][x])
    BY <1>a, <2>3, <2>4, <2>5, <2>6, ShapedImage
  <2> QED BY <2>3, <2>7, <2>8 DEF Shaped, ShapedBy
<1>4. ASSUME NEW s \in Sessions, NEW e \in Entities, MergeNew(s, e)
      PROVE  ShapedBy(s)'
  <2> DEFINE new == Merged(e, rows[e], mapped[s][e])
             news == [x \in {e} |-> new]
  <2>1. /\ Image(s, {e}, rows, news) /\ offer' = offer /\ pc' = pc /\ table' = table
        /\ e \in absent[s] /\ absent' = [absent EXCEPT ![s] = @ \ {e}] /\ todo' = todo
    BY <1>4 DEF MergeNew
  <2>2. loaded[s][e] = NoRow /\ mapped[s][e] \in Row /\ mapped[s][e] # NoRow
    BY <1>a, <2>1 DEF Shaped, ShapedBy, Progress, TypeOK, Images
  <2>3. new \in Row /\ new # NoRow
    BY <1>c, <2>2, MergedType, NoRowAssumption
  <2>4. Shape(pc[s], offer[s], e, loaded[s][e], mapped[s][e])
    BY DEF Shaped, ShapedBy
  <2>5. Shape(pc[s], offer[s], e, rows[e], new)
    <3>1. CASE e \in Vehicles
      <4>1. pc[s] = "update" /\ new = mapped[s][e]
        BY <2>1, <3>1 DEF Confined, Merged
      <4>2. e \notin Structural
        BY <3>1, VehiclesApart
      <4> QED BY <2>2, <2>3, <2>4, <4>1, <4>2 DEF Shape
    <3>2. CASE e \notin Vehicles
      <4>1. pc[s] = "init" /\ (rows[e] = NoRow => new = mapped[s][e])
        BY <2>1, <3>2 DEF Confined, Merged
      <4> QED BY <2>2, <2>3, <2>4, <4>1 DEF Shape
    <3> QED BY <3>1, <3>2
  <2>6. news[e] = new
    OBVIOUS
  <2>7. \A x \in absent'[s] : loaded'[s][x] = NoRow
    <3>1. \A x \in Entities \ {e} : loaded'[s][x] = loaded[s][x]
      BY <1>a, <2>1 DEF Image, TypeOK
    <3>2. absent'[s] \subseteq absent[s] \ {e} /\ absent[s] \subseteq Entities
      BY <1>a, <2>1 DEF TypeOK
    <3> QED BY <3>1, <3>2 DEF Shaped, ShapedBy
  <2> HIDE DEF new, news
  <2>8. \A x \in Entities : Shape(pc'[s], offer'[s], x, loaded'[s][x], mapped'[s][x])
    <3>1. \A x \in Entities : Shape(pc'[s], offer'[s], x, loaded[s][x], mapped[s][x])
      BY <2>1 DEF Shaped, ShapedBy
    <3>2. Shape(pc'[s], offer'[s], e, rows[e], news[e])
      BY <2>1, <2>5, <2>6
    <3> QED BY <1>a, <2>1, <3>1, <3>2, ShapedImage
  <2>9. pc[s] # "idle"
    BY <1>a, <2>1 DEF Progress
  <2> QED BY <2>1, <2>7, <2>8, <2>9 DEF Shaped, ShapedBy
<1>5. ASSUME NEW s \in Sessions, Upsert(s) \/ StartInit(s) \/ StartReset(s) \/ StartSnapshot(s)
      PROVE  ShapedBy(s)'
  <2>1. /\ pc[s] = "idle" /\ pc'[s] \in {"init", "reset", "snapshot"}
        /\ UNCHANGED <<absent, loaded, mapped, offer>>
        /\ pc'[s] = "reset" => s \in Observers /\ table'[s] = 2
    BY <1>5, <1>a DEF Upsert, StartInit, StartReset, StartSnapshot, txVars, TypeOK
  <2>2. loaded[s] = NoImages /\ mapped[s] = NoImages /\ offer[s] = NULL /\ absent[s] = {}
    BY <1>a, <2>1 DEF Shaped, ShapedBy, Progress
  <2>3. \A x \in Entities : Shape(pc'[s], offer'[s], x, NoImages[x], NoImages[x])
    BY <2>1, ShapedEmpty
  <2> QED BY <2>1, <2>2, <2>3 DEF ShapedBy
<1>6. ASSUME NEW s \in Sessions, InitRead(s)
      PROVE  ShapedBy(s)'
  BY <1>6 DEF InitRead, Shaped, ShapedBy
<1>7. ASSUME NEW s \in Sessions, ResetTable(s) \/ ReadTable(s)
      PROVE  ShapedBy(s)'
  <2> DEFINE E == OfKind(Kinds[table[s]])
  <2>1. /\ pc[s] \in {"reset", "snapshot"} /\ UNCHANGED <<pc, absent, offer>>
        /\ table[s] <= 5 /\ table' = [table EXCEPT ![s] = @ + 1]
    BY <1>7 DEF ResetTable, ReadTable
  <2>2. absent[s] = {}
    BY <1>a, <2>1 DEF Progress
  <2>3. PICK news : /\ Image(s, E, rows, news)
                    /\ \A e \in Entities \cap E : Shape(pc[s], offer[s], e, rows[e], news[e])
    <3>1. CASE ReadTable(s)
      BY <3>1 DEF ReadTable, Shape
    <3>2. CASE ResetTable(s)
      <4> DEFINE cleared == [e \in E |-> IF e \in Vehicles THEN NoRow ELSE Cleared(rows[e])]
      <4>1. \A e \in Entities \cap E : Shape("reset", offer[s], e, rows[e], cleared[e])
        BY DEF Shape
      <4> QED BY <3>2, <4>1 DEF ResetTable
    <3> QED BY <1>7, <3>1, <3>2
  <2> HIDE DEF E
  <2>4. \A e \in Entities : Shape(pc'[s], offer'[s], e, loaded'[s][e], mapped'[s][e])
    <3>1. \A e \in Entities : Shape(pc[s], offer[s], e, loaded[s][e], mapped[s][e])
      BY DEF Shaped, ShapedBy
    <3> QED BY <1>a, <2>1, <2>3, <3>1, ShapedImage
  <2>5. table'[s] \in 2..6
    <3>1. table \in [Sessions -> 1..6] /\ table[s] \in 1..6
      BY <1>a DEF TypeOK
    <3>2. table'[s] = table[s] + 1
      BY <2>1, <3>1
    <3> QED BY <2>1, <3>1, <3>2
  <2> QED BY <2>1, <2>2, <2>4, <2>5 DEF Shaped, ShapedBy
<1>8. ASSUME NEW s \in Sessions,
             \/ CommitUpdate(s) \/ CommitPredicted(s) \/ CommitInit(s) \/ CommitReset(s)
             \/ CommitSnapshot(s) \/ Crash(s)
      PROVE  ShapedBy(s)'
  <2>1. Close(s)
    BY <1>8 DEF CommitUpdate, CommitPredicted, CommitInit, CommitReset, CommitSnapshot, Crash, Commit
  <2> QED BY <1>a, <2>1, ShapedClose
<1>9. CASE Tick \/ UNCHANGED vars
  BY <1>9 DEF Tick, vars, txVars, Shaped, ShapedBy
<1>10. ASSUME NEW s \in Sessions, Act(s)
       PROVE  Shaped'
  <2>1. ShapedBy(s)'
    BY <1>1, <1>2, <1>3, <1>4, <1>5, <1>6, <1>7, <1>8, <1>10 DEF Act
  <2> QED BY <1>a, <1>10, <2>1, OthersKeepLemma, ShapedElsewhere
<1> QED BY <1>9, <1>10 DEF Next, Act

LEMMA ShapedInit == Init => Shaped
  BY ShapedEmpty DEF Init, Shaped, ShapedBy, NoImages

\* What holds of every session in every reachable state.
Base == TypeInv /\ Confined /\ Shaped

LEMMA BaseInvariant == Spec => []Base
<1>1. Init => Base
  BY TypeInit, ConfinedInit, ShapedInit DEF Base
<1>2. Base /\ [Next]_vars => Base'
  BY TypeStep, ConfinedStep, ShapedStep DEF Base
<1> QED BY <1>1, <1>2, PTL DEF Spec

----------------------------------------------------------------------------
(* The register. *)

\* What a session flushes over observations it has seen is what it assigned.
LEMMA FlushStamp ==
    ASSUME NEW cur \in Maybe, NEW old \in Maybe, NEW new \in Maybe,
           ~Conflict(cur, old, new), Stamp(old) = Stamp(cur)
    PROVE  Stamp(Flush(cur, old, new)) = Stamp(new)
<1>1. CASE new = old \/ old = NoRow \/ new = NoRow
  BY <1>1 DEF Flush
<1>2. CASE new # old /\ old # NoRow /\ new # NoRow
  <2>1. cur # NoRow /\ cur \in Row /\ old \in Row /\ new \in Row
    BY <1>2 DEF Conflict, Maybe
  <2> DEFINE row == [c \in DOMAIN cur |-> IF c \in Dirty(old, new) THEN new[c] ELSE cur[c]]
  <2>2. Flush(cur, old, new) = row
    BY <1>2 DEF Flush
  <2>3. row \in Row
    BY <2>1 DEF Row
  <2>4. ObservationColumns \subseteq DOMAIN cur /\ DOMAIN new = DOMAIN cur
    BY <2>1 DEF Row, ObservationColumns
  <2>5. \A c \in ObservationColumns : old[c] = cur[c]
    BY <1>2, <2>1 DEF Stamp, ObservationColumns
  <2>6. \A c \in ObservationColumns : row[c] = new[c]
    BY <2>4, <2>5 DEF Dirty
  <2>7. row # NoRow
    BY <2>3, NoRowAssumption
  <2> HIDE DEF row
  <2> QED BY <1>2, <2>2, <2>6, <2>7 DEF Stamp, ObservationColumns
<1> QED BY <1>1, <1>2

\* A forecast or init_campus leaves the observations alone.
LEMMA FlushKeepsStamp ==
    ASSUME NEW cur \in Maybe, NEW old \in Maybe, NEW new \in Maybe, ~Conflict(cur, old, new),
           NEW operation \in {"forecast", "init"}, NEW offered, NEW e,
           Pair(e, operation, old, new), Shape(operation, offered, e, old, new)
    PROVE  Stamp(Flush(cur, old, new)) = Stamp(cur)
<1>1. CASE new = old
  BY <1>1 DEF Flush
<1>2. CASE new # old /\ old = NoRow
  BY <1>2 DEF Flush, Conflict, Shape, Stamp
<1>3. CASE new # old /\ old # NoRow
  <2>1. new # NoRow
    BY <1>3 DEF Shape
  <2>2. cur # NoRow /\ cur \in Row /\ old \in Row /\ new \in Row
    BY <1>3, <2>1 DEF Conflict, Maybe
  <2> DEFINE row == [c \in DOMAIN cur |-> IF c \in Dirty(old, new) THEN new[c] ELSE cur[c]]
  <2>3. Flush(cur, old, new) = row
    BY <1>3, <2>1 DEF Flush
  <2>4. row \in Row
    BY <2>2 DEF Row
  <2>5. ObservationColumns \subseteq DOMAIN cur
    BY <2>2 DEF Row, ObservationColumns
  <2>6. \A c \in ObservationColumns : c \notin Columns(operation)
    BY DEF Columns, ObservationColumns
  <2>7. \A c \in ObservationColumns : c \notin Dirty(old, new)
    BY <1>3, <2>1, <2>6 DEF Pair, Dirty
  <2>8. \A c \in ObservationColumns : row[c] = cur[c]
    BY <2>5, <2>7
  <2>9. row # NoRow
    BY <2>4, NoRowAssumption
  <2> HIDE DEF row
  <2> QED BY <2>2, <2>3, <2>8, <2>9 DEF Stamp, ObservationColumns
<1> QED BY <1>1, <1>2, <1>3

\* What a commit makes of a row; a conflict makes nothing of it.
Committed(s, e) == Flush(rows[e], loaded[s][e], mapped[s][e])
Conflicts(s) == \E e \in Entities : Conflict(rows[e], loaded[s][e], mapped[s][e])

LEMMA CommitRows ==
    ASSUME TypeOK, NEW s \in Sessions, Commit(s)
    PROVE  /\ Close(s)
           /\ Conflicts(s) => rows' = rows
           /\ ~Conflicts(s) => \A e \in Entities :
                 rows'[e] = Committed(s, e) /\ ~Conflict(rows[e], loaded[s][e], mapped[s][e])
           /\ \A e \in Entities : rows[e] \in Maybe /\ loaded[s][e] \in Maybe
                                  /\ mapped[s][e] \in Maybe
<1>1. \A e \in Entities : rows[e] \in Maybe /\ loaded[s][e] \in Maybe /\ mapped[s][e] \in Maybe
  BY DEF TypeOK, Images, Maybe
<1> QED BY <1>1 DEF Commit, Conflicts, Committed

\* A commit of a session that is not observing changes no observation.
LEMMA CommitKeepsStamps ==
    ASSUME Base, NEW s \in Sessions, Commit(s), pc[s] \in {"forecast", "init"}
    PROVE  \A e \in Entities : Stamp(rows'[e]) = Stamp(rows[e])
<1>a. TypeOK
  BY DEF Base, TypeInv
<1>1. CASE Conflicts(s)
  BY <1>a, <1>1, CommitRows
<1>2. CASE ~Conflicts(s)
  <2> SUFFICES ASSUME NEW e \in Entities PROVE Stamp(rows'[e]) = Stamp(rows[e])
    OBVIOUS
  <2>1. Pair(e, pc[s], loaded[s][e], mapped[s][e])
        /\ Shape(pc[s], offer[s], e, loaded[s][e], mapped[s][e])
    BY DEF Base, Confined, Shaped, ShapedBy
  <2>2. /\ rows'[e] = Flush(rows[e], loaded[s][e], mapped[s][e])
        /\ ~Conflict(rows[e], loaded[s][e], mapped[s][e])
        /\ rows[e] \in Maybe /\ loaded[s][e] \in Maybe /\ mapped[s][e] \in Maybe
    BY <1>a, <1>2, CommitRows DEF Committed
  <2> QED BY <2>1, <2>2, FlushKeepsStamp
<1> QED BY <1>1, <1>2

\* A commit of a session that has seen what it observes leaves what it assigned.
LEMMA CommitStamps ==
    ASSUME Base, SeenIsCurrent, NEW s \in Sessions, Commit(s), ~Conflicts(s), NEW e \in Looked(s),
           e \in Entities
    PROVE  Stamp(rows'[e]) = Stamp(mapped[s][e])
<1>a. TypeOK
  BY DEF Base, TypeInv
<1>1. /\ rows'[e] = Flush(rows[e], loaded[s][e], mapped[s][e])
      /\ ~Conflict(rows[e], loaded[s][e], mapped[s][e])
      /\ rows[e] \in Maybe /\ loaded[s][e] \in Maybe /\ mapped[s][e] \in Maybe
  BY <1>a, CommitRows DEF Committed
<1>2. Stamp(loaded[s][e]) = Stamp(rows[e])
  BY DEF SeenIsCurrent
<1> QED BY <1>1, <1>2, FlushStamp

LEMMA LookedObserver ==
    ASSUME Base, NEW s \in Sessions, NEW e \in Looked(s)
    PROVE  s \in Observers /\ pc[s] \in {"update", "reset"} /\ e \in Entities
<1>1. pc[s] = "update" \/ pc[s] = "reset"
  BY DEF Looked
<1>2. s \in Observers
  BY <1>1 DEF Base, Shaped, ShapedBy
<1>3. CASE pc[s] = "update"
  <2>1. offer[s] \in [entity : Observed, stamp : Stamps] /\ e = offer[s].entity
    BY <1>3 DEF Base, TypeInv, TypeOK, Shaped, ShapedBy, Looked
  <2> QED BY <1>1, <1>2, <2>1 DEF Entities
<1>4. CASE pc[s] = "reset"
  <2>1. table[s] \in 2..6 /\ e \in Tables(s)
    BY <1>4 DEF Base, Shaped, ShapedBy, Looked
  <2>2. PICK k \in 2..(table[s] - 1) : e \in OfKind(Kinds[k])
    BY <2>1 DEF Tables
  <2>3. k \in 2..5
    BY <2>1, <2>2
  <2> QED BY <1>1, <1>2, <2>2, <2>3 DEF OfKind, Kinds, Entities, Observed
<1> QED BY <1>1, <1>3, <1>4

LEMMA SeenInit == Init => SeenIsCurrent
  BY DEF Init, SeenIsCurrent, Looked

\* A session that looks at the rows of E and leaves them alone.
LEMMA SeenImage ==
    ASSUME TypeOK, SeenIsCurrent, NEW s \in Sessions, OthersKeep(s), rows' = rows,
           NEW E, NEW old, NEW new, Image(s, E, old, new),
           \A e \in E \cap Entities : old[e] = rows[e],
           pc'[s] \in {"update", "reset"} => \A e \in Looked(s)' : e \in E \/ e \in Looked(s)
    PROVE  SeenIsCurrent'
<1> SUFFICES ASSUME NEW q \in Sessions, NEW e \in Looked(q)', e \in Entities
             PROVE  Stamp(loaded'[q][e]) = Stamp(rows'[e])
  BY DEF SeenIsCurrent
<1>1. CASE q = s
  <2>1. pc'[s] \in {"update", "reset"}
    BY <1>1 DEF Looked
  <2>2. loaded'[s][e] = IF e \in E THEN old[e] ELSE loaded[s][e]
    BY DEF Image, TypeOK
  <2>3. e \in E \/ e \in Looked(s)
    BY <1>1, <2>1
  <2> QED BY <1>1, <2>2, <2>3 DEF SeenIsCurrent
<1>2. CASE q # s
  BY <1>2 DEF SeenIsCurrent, OthersKeep, Looked, Tables
<1> QED BY <1>1, <1>2

LEMMA SeenStep ==
    ASSUME OneObserver, Base, SeenIsCurrent, [Next]_vars
    PROVE  SeenIsCurrent'
<1>a. TypeOK /\ Progress /\ Shaped
  BY DEF Base, TypeInv
<1>d. /\ Observed \subseteq Entities /\ Lots \subseteq Entities /\ Structural \subseteq Entities
  BY DEF Entities, Observed, Structural
<1>1. ASSUME NEW s \in Sessions, NEW e \in Observed, NEW o \in Observations[e], Update(s, e, o)
      PROVE  SeenIsCurrent'
  <2> DEFINE new == Assigned(e, o, IF rows[e] = NoRow THEN EmptyRow ELSE rows[e])
             olds == [x \in {e} |-> rows[e]]
             news == [x \in {e} |-> new]
  <2>1. /\ Image(s, {e}, olds, news) /\ offer'[s].entity = e /\ pc'[s] = "update" /\ rows' = rows
    BY <1>1, <1>a DEF Update, TypeOK
  <2>2. Looked(s)' = {e} /\ olds[e] = rows[e]
    BY <2>1 DEF Looked
  <2>3. OthersKeep(s)
    BY <1>1, <1>a, OthersKeepLemma DEF Act
  <2> HIDE DEF new, olds, news
  <2> QED BY <1>a, <2>1, <2>2, <2>3, SeenImage
<1>2. ASSUME NEW s \in Sessions, NEW l \in Lots, NEW p \in Forecasts, SetPredicted(s, l, p)
      PROVE  SeenIsCurrent'
  <2>1. PICK news : Image(s, {l}, rows, news) /\ pc'[s] = "forecast" /\ rows' = rows
    BY <1>2, <1>a DEF SetPredicted, TypeOK
  <2>2. OthersKeep(s)
    BY <1>2, <1>a, OthersKeepLemma DEF Act
  <2> QED BY <1>a, <2>1, <2>2, SeenImage
<1>3. ASSUME NEW s \in Sessions, NEW e \in Structural, InitRow(s, e)
      PROVE  SeenIsCurrent'
  <2>1. PICK news : Image(s, {e}, rows, news) /\ pc'[s] = "init" /\ rows' = rows
    BY <1>3, <1>a DEF InitRow, TypeOK
  <2>2. OthersKeep(s)
    BY <1>3, <1>a, OthersKeepLemma DEF Act
  <2> QED BY <1>a, <2>1, <2>2, SeenImage
<1>4. ASSUME NEW s \in Sessions, NEW e \in Entities, MergeNew(s, e)
      PROVE  SeenIsCurrent'
  <2>1. PICK news : Image(s, {e}, rows, news) /\ UNCHANGED <<rows, pc, offer, table>>
    BY <1>4, <1>a DEF MergeNew, TypeOK
  <2>2. OthersKeep(s)
    BY <1>4, <1>a, OthersKeepLemma DEF Act
  <2>3. Looked(s)' = Looked(s)
    BY <2>1 DEF Looked, Tables
  <2> QED BY <1>a, <2>1, <2>2, <2>3, SeenImage
<1>5. ASSUME NEW s \in Sessions,
             Upsert(s) \/ StartInit(s) \/ StartSnapshot(s) \/ StartReset(s) \/ InitRead(s)
      PROVE  SeenIsCurrent'
  <2>1. /\ UNCHANGED <<rows, loaded>>
        /\ pc'[s] \in {"init", "snapshot", "reset"} /\ (pc'[s] = "reset" => table'[s] = 2)
    BY <1>5, <1>a DEF Upsert, StartInit, StartSnapshot, StartReset, InitRead, txVars, TypeOK
  <2>2. OthersKeep(s)
    BY <1>5, <1>a, OthersKeepLemma DEF Act
  <2>3. Looked(s)' = {}
    BY <2>1 DEF Looked, Tables
  <2>4. \A q \in Sessions \ {s} : Looked(q)' = Looked(q)
    BY <2>2 DEF OthersKeep, Looked, Tables
  <2> QED BY <2>1, <2>3, <2>4 DEF SeenIsCurrent
<1>6. ASSUME NEW s \in Sessions, ReadTable(s)
      PROVE  SeenIsCurrent'
  <2>1. Image(s, OfKind(Kinds[table[s]]), rows, rows) /\ pc'[s] = "snapshot" /\ rows' = rows
    BY <1>6, <1>a DEF ReadTable, TypeOK
  <2>2. OthersKeep(s)
    BY <1>6, <1>a, OthersKeepLemma DEF Act
  <2> QED BY <1>a, <2>1, <2>2, SeenImage
<1>7. ASSUME NEW s \in Sessions, ResetTable(s)
      PROVE  SeenIsCurrent'
  <2> DEFINE E == OfKind(Kinds[table[s]])
  <2>1. PICK news : Image(s, E, rows, news) /\ UNCHANGED <<rows, pc>> /\ pc[s] = "reset"
                    /\ table'[s] = table[s] + 1 /\ table[s] \in 1..6
    BY <1>7, <1>a DEF ResetTable, TypeOK
  <2>2. OthersKeep(s)
    BY <1>7, <1>a, OthersKeepLemma DEF Act
  <2>3. ASSUME NEW e \in Looked(s)' PROVE e \in E \/ e \in Looked(s)
    <3>1. PICK k \in 2..(table'[s] - 1) : e \in OfKind(Kinds[k])
      BY <2>1 DEF Looked, Tables
    <3>2. k = table[s] \/ k \in 2..(table[s] - 1)
      BY <2>1, <3>1
    <3> QED BY <2>1, <3>1, <3>2 DEF Looked, Tables
  <2> QED BY <1>a, <2>1, <2>2, <2>3, SeenImage
<1>8. ASSUME NEW s \in Sessions, CommitPredicted(s) \/ CommitInit(s) \/ CommitSnapshot(s) \/ Crash(s)
      PROVE  SeenIsCurrent'
  <2>1. Close(s) /\ \A e \in Entities : Stamp(rows'[e]) = Stamp(rows[e])
    BY <1>8, CommitKeepsStamps
       DEF CommitPredicted, CommitInit, CommitSnapshot, Crash, Commit
  <2>2. pc'[s] = "idle"
    BY <1>a, <2>1 DEF Close, TypeOK
  <2>3. OthersKeep(s)
    BY <1>8, <1>a, OthersKeepLemma DEF Act
  <2>4. Looked(s)' = {} /\ \A q \in Sessions \ {s} : Looked(q)' = Looked(q)
                                                     /\ loaded'[q] = loaded[q]
    BY <2>2, <2>3 DEF OthersKeep, Looked, Tables
  <2> QED BY <2>1, <2>4 DEF SeenIsCurrent
<1>9. ASSUME NEW s \in Sessions, CommitUpdate(s) \/ CommitReset(s)
      PROVE  SeenIsCurrent'
  <2>1. Close(s) /\ pc[s] \in {"update", "reset"}
    BY <1>9 DEF CommitUpdate, CommitReset, Commit
  <2>2. pc'[s] = "idle" /\ s \in Observers
    BY <1>a, <2>1 DEF Close, TypeOK, Shaped, ShapedBy
  <2>3. \A q \in Sessions \ {s} : Looked(q) = {}
    BY <2>2, LookedObserver DEF OneObserver
  <2>4. OthersKeep(s)
    BY <1>9, <1>a, OthersKeepLemma DEF Act
  <2>5. Looked(s)' = {} /\ \A q \in Sessions \ {s} : Looked(q)' = Looked(q)
    BY <2>2, <2>4 DEF OthersKeep, Looked, Tables
  <2> QED BY <2>3, <2>5 DEF SeenIsCurrent
<1>10. CASE Tick \/ UNCHANGED vars
  BY <1>10 DEF Tick, vars, txVars, SeenIsCurrent, Looked, Tables
<1> QED
  BY <1>1, <1>2, <1>3, <1>4, <1>5, <1>6, <1>7, <1>8, <1>9, <1>10 DEF Next

LEMMA RegisterInit == Init => Register!Init
<1>1. ASSUME Init, NEW e \in Observed PROVE Stamp(rows[e]) = Unobserved
  BY <1>1 DEF Init, NoImages, Stamp, Entities
<1> QED BY <1>1, SessionsAssumption DEF Init, Register!Init

\* Steps that change no observation and no offer of an observer.
LEMMA RegisterStutter ==
    ASSUME \A e \in Observed : Stamp(rows'[e]) = Stamp(rows[e]),
           \A w \in Observers : offer'[w] = offer[w]
    PROVE  /\ [e \in Observed |-> Stamp(rows'[e])] = [e \in Observed |-> Stamp(rows[e])]
           /\ [w \in Observers |-> offer'[w]] = [w \in Observers |-> offer[w]]
  OBVIOUS

\* Every step of the sessions is a step of the register, or changes nothing of it.
LEMMA RegisterStep ==
    ASSUME Base, SeenIsCurrent, [Next]_vars
    PROVE  [Register!Next]_<<[e \in Observed |-> Stamp(rows[e])], [s \in Observers |-> offer[s]]>>
<1> DEFINE register == [e \in Observed |-> Stamp(rows[e])]
           registerN == [e \in Observed |-> Stamp(rows'[e])]
           offered == [s \in Observers |-> offer[s]]
           offeredN == [s \in Observers |-> offer'[s]]
           Stutter == registerN = register /\ offeredN = offered
<1>a. TypeOK /\ Progress /\ Shaped
  BY DEF Base, TypeInv
<1>d. Observed \subseteq Entities /\ Observers \subseteq Sessions
  BY SessionsAssumption DEF Entities
<1>1. ASSUME NEW s \in Sessions, NEW e \in Observed, NEW o \in Observations[e], Update(s, e, o)
      PROVE  Register!Offer(s) /\ s \in Observers
  <2> DEFINE new == Assigned(e, o, IF rows[e] = NoRow THEN EmptyRow ELSE rows[e])
             off == [entity |-> e, stamp |-> Stamp(new)]
  <2>1. /\ pc[s] = "idle" /\ s \in Observers /\ offer' = [offer EXCEPT ![s] = off] /\ rows' = rows
        /\ o \in Observation /\ o.source \in OBSERVATION_SOURCES /\ o.provenance \in PROVENANCE_LABELS
    BY <1>1 DEF Update, Accepts, Observation
  <2>2. off \in [entity : Observed, stamp : Stamps]
    BY <1>a, <1>d, <2>1, AssignedType, EmptyType DEF TypeOK, Images
  <2> HIDE DEF off
  <2>3. offered[s] = NULL
    BY <1>a, <2>1 DEF Shaped, ShapedBy
  <2>4. offeredN = [offered EXCEPT ![s] = off]
    BY <1>a, <1>d, <2>1 DEF TypeOK
  <2>5. registerN = register
    BY <2>1
  <2> QED BY <2>1, <2>2, <2>3, <2>4, <2>5 DEF Register!Offer, Register!Offers
<1>2. ASSUME NEW s \in Sessions, CommitUpdate(s)
      PROVE  (Register!Install(s) \/ Register!Withdraw(s)) /\ s \in Observers
  <2>1. Commit(s) /\ pc[s] = "update" /\ Close(s)
    BY <1>2 DEF CommitUpdate, Commit
  <2>2. s \in Observers /\ offered[s] # NULL /\ offered[s] = offer[s]
    BY <1>a, <2>1 DEF Shaped, ShapedBy
  <2>3. offeredN = [offered EXCEPT ![s] = NULL]
    BY <1>a, <1>d, <2>1, <2>2 DEF Close, TypeOK
  <2>4. CASE Conflicts(s)
    <3>1. rows' = rows
      BY <1>a, <2>1, <2>4, CommitRows
    <3> QED BY <2>2, <2>3, <3>1 DEF Register!Withdraw
  <2>5. CASE ~Conflicts(s)
    <3>1. ASSUME NEW e \in Observed
          PROVE  Stamp(rows'[e]) = IF e = offer[s].entity THEN offer[s].stamp ELSE Stamp(rows[e])
      <4>1. Shape("update", offer[s], e, loaded[s][e], mapped[s][e])
        BY <1>a, <1>d, <2>1 DEF Shaped, ShapedBy
      <4>2. CASE e = offer[s].entity
        <5>1. Stamp(rows'[e]) = Stamp(mapped[s][e])
          BY <1>d, <2>1, <2>5, <4>2, CommitStamps DEF Looked
        <5> QED BY <4>1, <4>2, <5>1 DEF Shape
      <4>3. CASE e # offer[s].entity
        <5>1. rows'[e] = Flush(rows[e], loaded[s][e], mapped[s][e])
          BY <1>a, <1>d, <2>1, <2>5, CommitRows DEF Committed
        <5> QED BY <4>1, <4>3, <5>1 DEF Shape, Flush
      <4> QED BY <4>2, <4>3
    <3>2. offer[s].entity \in Observed
      BY <1>a, <2>2 DEF TypeOK
    <3>3. registerN = [register EXCEPT ![offered[s].entity] = offered[s].stamp]
      BY <2>2, <3>1, <3>2
    <3> QED BY <2>2, <2>3, <3>3 DEF Register!Install
  <2> QED BY <2>2, <2>4, <2>5
<1>3. ASSUME NEW s \in Sessions, CommitReset(s)
      PROVE  Register!Clear \/ Stutter
  <2>1. Commit(s) /\ pc[s] = "reset" /\ table[s] = 6 /\ Close(s)
    BY <1>3 DEF CommitReset, Commit
  <2>2. offer[s] = NULL /\ offer'[s] = NULL
    BY <1>a, <2>1 DEF Shaped, ShapedBy, Close, TypeOK
  <2>3. offeredN = offered
    BY <1>a, <1>d, <2>1, <2>2 DEF Close, TypeOK
  <2>4. CASE Conflicts(s)
    <3>1. rows' = rows
      BY <1>a, <2>1, <2>4, CommitRows
    <3> QED BY <2>3, <3>1
  <2>5. CASE ~Conflicts(s)
    <3>1. ASSUME NEW e \in Observed
          PROVE  Stamp(rows'[e]) = Unobserved
      <4>1. e \in Looked(s)
        <5>1. /\ OfKind(Kinds[2]) = Lots /\ OfKind(Kinds[3]) = Gates
              /\ OfKind(Kinds[4]) = Roads /\ OfKind(Kinds[5]) = Vehicles
          BY DEF OfKind, Kinds
        <5>2. \E k \in 2..5 : e \in OfKind(Kinds[k])
          BY <5>1 DEF Observed
        <5> QED BY <2>1, <5>2 DEF Looked, Tables
      <4>2. Stamp(rows'[e]) = Stamp(mapped[s][e])
        BY <1>d, <2>1, <2>5, <4>1, CommitStamps
      <4>3. Shape("reset", offer[s], e, loaded[s][e], mapped[s][e])
        BY <1>a, <1>d, <2>1 DEF Shaped, ShapedBy
      <4>4. loaded[s][e] \in Maybe
        BY <1>a, <1>d DEF TypeOK, Images, Maybe
      <4>5. Stamp(mapped[s][e]) = Unobserved
        <5>1. CASE e \in Vehicles \/ loaded[s][e] = NoRow
          BY <4>3, <5>1 DEF Shape, Cleared, Stamp
        <5>2. CASE e \notin Vehicles /\ loaded[s][e] # NoRow
          <6>1. Cleared(loaded[s][e]) \in Row
            BY <4>4, <5>2 DEF Cleared, Row, Maybe, Extras
          <6>2. mapped[s][e] = Cleared(loaded[s][e]) /\ mapped[s][e] # NoRow
            BY <4>3, <5>2, <6>1, NoRowAssumption DEF Shape
          <6> QED BY <4>4, <5>2, <6>2 DEF Cleared, Stamp, Unobserved, Row, Maybe
        <5> QED BY <5>1, <5>2
      <4> QED BY <4>2, <4>5
    <3>2. registerN = [e \in Observed |-> Unobserved]
      BY <3>1
    <3> QED BY <2>3, <3>2 DEF Register!Clear
  <2> QED BY <2>4, <2>5
<1>4. ASSUME NEW s \in Sessions, Crash(s)
      PROVE  (Register!Withdraw(s) /\ s \in Observers) \/ Stutter
  <2>1. rows' = rows /\ offer' = [offer EXCEPT ![s] = NULL]
    BY <1>4 DEF Crash, Close
  <2>2. CASE s \in Observers /\ offer[s] # NULL
    <3>1. offeredN = [offered EXCEPT ![s] = NULL] /\ offered[s] # NULL
      BY <1>a, <1>d, <2>1, <2>2 DEF TypeOK
    <3> QED BY <2>1, <2>2, <3>1 DEF Register!Withdraw
  <2>3. CASE s \notin Observers \/ offer[s] = NULL
    BY <1>a, <1>d, <2>1, <2>3, RegisterStutter DEF TypeOK
  <2> QED BY <2>2, <2>3
<1>5. ASSUME NEW s \in Sessions, CommitPredicted(s) \/ CommitInit(s) \/ CommitSnapshot(s)
      PROVE  Stutter
  <2>1. /\ \A e \in Entities : Stamp(rows'[e]) = Stamp(rows[e])
        /\ pc[s] # "update" /\ offer' = [offer EXCEPT ![s] = NULL]
    BY <1>5, CommitKeepsStamps DEF CommitPredicted, CommitInit, CommitSnapshot, Commit, Close
  <2>2. offer[s] = NULL
    BY <1>a, <2>1 DEF Shaped, ShapedBy
  <2> QED BY <1>a, <1>d, <2>1, <2>2, RegisterStutter DEF TypeOK
<1>6. ASSUME UNCHANGED <<rows, offer>>
      PROVE  Stutter
  BY <1>6
<1>7. ASSUME NEW s \in Sessions,
             \/ \E l \in Lots, p \in Forecasts : SetPredicted(s, l, p)
             \/ \E e \in Structural : InitRow(s, e)
             \/ \E e \in Entities : MergeNew(s, e)
             \/ Upsert(s) \/ StartInit(s) \/ InitRead(s) \/ StartReset(s) \/ ResetTable(s)
             \/ StartSnapshot(s) \/ ReadTable(s)
      PROVE  UNCHANGED <<rows, offer>>
  BY <1>7 DEF SetPredicted, InitRow, MergeNew, Upsert, StartInit, InitRead, StartReset,
              ResetTable, StartSnapshot, ReadTable, txVars
<1>8. Tick \/ UNCHANGED vars => UNCHANGED <<rows, offer>>
  BY DEF Tick, vars, txVars
<1>9. Register!Next \/ Stutter
  BY <1>1, <1>2, <1>3, <1>4, <1>5, <1>6, <1>7, <1>8 DEF Next, Register!Next
<1> QED BY <1>9

\* With one session at a time observing, the twin is an atomic register: whatever
\* loads, forecasts, snapshots and crashes happen meanwhile, a reader sees of an
\* entity one whole observation that was offered for it, or nothing.
THEOREM TwinIsRegister ==
    ASSUME OneObserver
    PROVE  Spec => RegisterSpec
<1>1. Base /\ SeenIsCurrent /\ [Next]_vars => SeenIsCurrent'
  BY SeenStep
<1>2. Base /\ SeenIsCurrent /\ [Next]_vars =>
        [Register!Next]_<<[e \in Observed |-> Stamp(rows[e])], [s \in Observers |-> offer[s]]>>
  BY RegisterStep
<1> QED BY <1>1, <1>2, BaseInvariant, SeenInit, RegisterInit, PTL DEF Spec, RegisterSpec, Register!Spec

----------------------------------------------------------------------------
(* The mirror. *)

LEMMA CopiesFollow ==
    ASSUME NEW a, NEW b, NEW c, SameCopies(a, b), SameCopies(b, c)
    PROVE  SameCopies(a, c)
  BY DEF SameCopies

LEMMA UpToDateFollows ==
    ASSUME NEW e, NEW v, NEW a, NEW b, SameCopies(a, b), UpToDate(e, v, a)
    PROVE  UpToDate(e, v, b)
  BY DEF SameCopies, UpToDate

\* What a session flushes over copies it has seen is what it assigned.
LEMMA FlushCopies ==
    ASSUME NEW cur \in Maybe, NEW old \in Maybe, NEW new \in Maybe,
           ~Conflict(cur, old, new), SameCopies(old, cur)
    PROVE  SameCopies(Flush(cur, old, new), new)
<1>1. CASE new = old
  BY <1>1 DEF Flush, SameCopies
<1>2. CASE new # old /\ (old = NoRow \/ new = NoRow)
  BY <1>2 DEF Flush, SameCopies
<1>3. CASE new # old /\ old # NoRow /\ new # NoRow
  <2>1. cur # NoRow /\ cur \in Row /\ old \in Row /\ new \in Row
    BY <1>3 DEF Conflict, Maybe
  <2> DEFINE row == [c \in DOMAIN cur |-> IF c \in Dirty(old, new) THEN new[c] ELSE cur[c]]
  <2>2. Flush(cur, old, new) = row /\ row \in Row
    BY <1>3, <2>1 DEF Flush, Row
  <2>3. \A c \in {"total_capacity", "config_version"} : row[c] = new[c]
    BY <1>3, <2>1 DEF SameCopies, Dirty, Row
  <2>4. row # NoRow
    BY <2>2, NoRowAssumption
  <2> HIDE DEF row
  <2> QED BY <1>3, <2>2, <2>3, <2>4 DEF SameCopies
<1> QED BY <1>1, <1>2, <1>3

\* Observations, resets and forecasts leave the copies alone.
LEMMA FlushKeepsCopies ==
    ASSUME NEW cur \in Maybe, NEW old \in Maybe, NEW new \in Maybe, ~Conflict(cur, old, new),
           NEW operation \in {"update", "reset", "forecast"}, NEW offered, NEW e \in Structural,
           Pair(e, operation, old, new), Shape(operation, offered, e, old, new)
    PROVE  SameCopies(cur, Flush(cur, old, new))
<1>1. old = NoRow <=> new = NoRow
  <2>1. CASE operation = "update"
    BY <2>1 DEF Shape
  <2>2. CASE operation = "reset"
    <3>1. new = Cleared(old)
      BY <2>2, VehiclesApart DEF Shape
    <3>2. old \in Row => Cleared(old) \in Row
      BY NoRowAssumption DEF Cleared, Row, Extras
    <3> QED BY <3>1, <3>2, NoRowAssumption DEF Cleared, Maybe
  <2>3. CASE operation = "forecast"
    BY <2>3 DEF Shape
  <2> QED BY <2>1, <2>2, <2>3
<1>2. CASE new = old
  BY <1>2 DEF Flush, SameCopies
<1>3. CASE new # old
  <2>1. old # NoRow /\ new # NoRow /\ cur # NoRow /\ cur \in Row /\ new \in Row /\ old \in Row
    BY <1>1, <1>3 DEF Conflict, Maybe
  <2> DEFINE row == [c \in DOMAIN cur |-> IF c \in Dirty(old, new) THEN new[c] ELSE cur[c]]
  <2>2. Flush(cur, old, new) = row /\ row \in Row
    BY <1>3, <2>1 DEF Flush, Row
  <2>3. \A c \in {"total_capacity", "config_version"} : c \notin Dirty(old, new)
    BY <2>1 DEF Pair, Columns, ObservationColumns, Dirty
  <2>4. \A c \in {"total_capacity", "config_version"} : row[c] = cur[c]
    BY <2>1, <2>3 DEF Row
  <2>5. row # NoRow
    BY <2>2, NoRowAssumption
  <2> HIDE DEF row
  <2> QED BY <2>1, <2>2, <2>4, <2>5 DEF SameCopies
<1> QED BY <1>2, <1>3

LEMMA CommitKeepsCopies ==
    ASSUME Base, NEW s \in Sessions, Commit(s), pc[s] \in {"update", "reset", "forecast"}
    PROVE  \A e \in Structural : SameCopies(rows[e], rows'[e])
<1>a. TypeOK /\ Structural \subseteq Entities
  BY DEF Base, TypeInv, Structural, Entities, Observed
<1>1. CASE Conflicts(s)
  BY <1>a, <1>1, CommitRows DEF SameCopies
<1>2. CASE ~Conflicts(s)
  <2> SUFFICES ASSUME NEW e \in Structural PROVE SameCopies(rows[e], rows'[e])
    OBVIOUS
  <2>1. Pair(e, pc[s], loaded[s][e], mapped[s][e])
        /\ Shape(pc[s], offer[s], e, loaded[s][e], mapped[s][e])
    BY <1>a DEF Base, Confined, Shaped, ShapedBy
  <2>2. /\ rows'[e] = Flush(rows[e], loaded[s][e], mapped[s][e])
        /\ ~Conflict(rows[e], loaded[s][e], mapped[s][e])
        /\ rows[e] \in Maybe /\ loaded[s][e] \in Maybe /\ mapped[s][e] \in Maybe
    BY <1>a, <1>2, CommitRows DEF Committed
  <2> QED BY <2>1, <2>2, FlushKeepsCopies
<1> QED BY <1>1, <1>2

\* The entities of the campus are in the first four tables.
LEMMA TablesCover ==
    /\ \A k \in 1..4 : OfKind(Kinds[k]) \subseteq Structural
    /\ \A e \in Structural : \E k \in 1..4 : e \in OfKind(Kinds[k])
    /\ \A i, j \in 1..4 : i # j => OfKind(Kinds[i]) \cap OfKind(Kinds[j]) = {}
<1>1. /\ OfKind(Kinds[1]) = {Campus} /\ OfKind(Kinds[2]) = Lots
      /\ OfKind(Kinds[3]) = Gates /\ OfKind(Kinds[4]) = Roads /\ DOMAIN Kinds = 1..5
  BY DEF OfKind, Kinds
<1>2. \A k \in 1..4 : k = 1 \/ k = 2 \/ k = 3 \/ k = 4
  OBVIOUS
<1>3. \A k \in 1..4 : OfKind(Kinds[k]) \subseteq Structural
  BY <1>1, <1>2 DEF Structural
<1>4. \A e \in Structural : \E k \in 1..4 : e \in OfKind(Kinds[k])
  BY <1>1 DEF Structural
<1>5. \A i, j \in 1..4 : i # j => OfKind(Kinds[i]) \cap OfKind(Kinds[j]) = {}
  BY <1>1, EntitiesAssumption
<1> QED BY <1>3, <1>4, <1>5

LEMMA ConfiguredIsStructural ==
    ASSUME version \in Versions
    PROVE  /\ \A n \in 0..4 : Configured(version, n) \subseteq Structural
           /\ Configured(version, 0) = {}
           /\ Configured(version, 4) = {Campus} \cup DOMAIN Config[version]
           /\ {Campus} \cup DOMAIN Config[version] \subseteq Structural
<1>1. {Campus} \cup DOMAIN Config[version] \subseteq Structural
  BY ConfigAssumption DEF Structural
<1>2. \A e \in {Campus} \cup DOMAIN Config[version] : \E k \in 1..4 : e \in OfKind(Kinds[k])
  BY <1>1, TablesCover
<1> QED BY <1>1, <1>2 DEF Configured

\* A step either overtakes whoever is in init_campus or leaves the version and
\* the copies alone.
LEMMA OvertakenOrKept ==
    ASSUME Base, NEW s \in Sessions, Act(s), ~Overtakes(s)
    PROVE  version' = version /\ \A e \in Structural : SameCopies(rows[e], rows'[e])
<1>a. TypeOK /\ Len(Config) \in Nat
  BY ConfigAssumption DEF Base, TypeInv
<1>b. \A e : SameCopies(rows[e], rows[e])
  BY DEF SameCopies
<1>1. CASE Upsert(s)
  <2>1. pc[s] = "idle" /\ pc'[s] = "init" /\ version' = version + 1 /\ version \in Nat
    BY <1>1, <1>a DEF Upsert, TypeOK
  <2> QED BY <2>1 DEF Overtakes
<1>2. CASE CommitUpdate(s) \/ CommitPredicted(s) \/ CommitReset(s)
  <2>1. pc[s] \in {"update", "forecast", "reset"} /\ Commit(s) /\ version' = version
    BY <1>2 DEF CommitUpdate, CommitPredicted, CommitReset
  <2> QED BY <2>1, CommitKeepsCopies
<1>3. CASE CommitInit(s)
  <2>1. pc[s] = "init" /\ Commit(s) /\ version' = version
    BY <1>3 DEF CommitInit
  <2>2. pc'[s] = "idle"
    BY <1>a, <2>1 DEF Commit, Close, TypeOK
  <2>3. rows' = rows
    BY <2>1, <2>2 DEF Overtakes
  <2> QED BY <1>b, <2>1, <2>3
<1>4. CASE /\ ~Upsert(s) /\ ~CommitUpdate(s) /\ ~CommitPredicted(s) /\ ~CommitReset(s)
           /\ ~CommitInit(s)
  <2>1. UNCHANGED <<version, rows>>
    BY <1>4 DEF Act, Update, SetPredicted, InitRow, MergeNew, StartInit, InitRead, StartReset,
                ResetTable, StartSnapshot, ReadTable, CommitSnapshot, Crash
  <2> QED BY <1>b, <2>1
<1> QED BY <1>1, <1>2, <1>3, <1>4

\* A session in init_campus is where it was after another one's step that did
\* not overtake it.
LEMMA LoadingElsewhere ==
    ASSUME TypeInv, NEW q \in Sessions, LoadingBy(q), version' = version,
           NEW s \in Sessions \ {q}, OthersKeep(s),
           \A e \in Structural : SameCopies(rows[e], rows'[e])
    PROVE  LoadingBy(q)'
<1>1. \A n : Configured(version', n) = Configured(version, n)
  BY DEF Configured
<1>2. pc[q] = "init" /\ version \in Versions
  BY ConfigAssumption DEF LoadingBy, TypeInv, TypeOK, Progress, Versions
<1>3. table[q] - 1 \in 0..4
  BY DEF LoadingBy
<1>4. \A e \in Configured(version, table[q] - 1) : SameCopies(rows[e], rows'[e])
  BY <1>2, <1>3, ConfiguredIsStructural
<1>5. UNCHANGED <<pc[q], table[q], todo[q], seen[q], loaded[q], mapped[q]>>
  BY DEF OthersKeep
<1> QED BY <1>1, <1>4, <1>5, CopiesFollow DEF LoadingBy

\* The row init_campus leaves is up to date, and stays so when it is merged.
LEMMA RefreshedUpToDate ==
    ASSUME NEW v \in Versions, NEW e \in {Campus} \cup DOMAIN Config[v], NEW row \in Maybe
    PROVE  UpToDate(e, v, Refreshed(e, v, row))
<1>1. Refreshed(e, v, row) # NoRow
  BY RefreshedType, NoRowAssumption
<1>2. CASE e = Campus
  <2>1. Campus \notin Lots
    <3>1. OfKind(Kinds[1]) = {Campus} /\ OfKind(Kinds[2]) = Lots
      BY DEF OfKind, Kinds
    <3> QED BY <3>1, TablesCover
  <2>2. Refreshed(e, v, row).config_version = v
    BY <1>2, EmptyType DEF Refreshed, Row, Maybe
  <2> QED BY <1>1, <1>2, <2>1, <2>2 DEF UpToDate
<1>3. CASE e # Campus
  <2>1. e \in Lots => Refreshed(e, v, row).total_capacity = Config[v][e].total
    BY <1>3, EmptyType DEF Refreshed, Row, Maybe
  <2> QED BY <1>1, <1>3, <2>1 DEF UpToDate
<1> QED BY <1>2, <1>3

LEMMA MergedUpToDate ==
    ASSUME NEW e, NEW v, NEW row \in Maybe, NEW new \in Row, UpToDate(e, v, new)
    PROVE  UpToDate(e, v, Merged(e, row, new))
<1>1. CASE row = NoRow \/ e \in Vehicles
  BY <1>1 DEF Merged
<1>2. CASE row # NoRow /\ e \notin Vehicles
  <2>1. Merged(e, row, new) \in Row
    BY <1>2 DEF Merged, Row, Maybe
  <2>2. /\ Merged(e, row, new).total_capacity = new.total_capacity
        /\ Merged(e, row, new).config_version = new.config_version
    BY <1>2 DEF Merged, Row, Maybe
  <2> QED BY <2>1, <2>2, NoRowAssumption DEF UpToDate
<1> QED BY <1>1, <1>2

LEMMA MirrorInit == HistoryInit => Mirror
  BY DEF HistoryInit, Mirror, LoadingProgress, Mirrored

\* What a session in init_campus that nobody has overtaken knows.
LEMMA LoadingFacts ==
    ASSUME TypeInv, NEW s \in Sessions, LoadingBy(s)
    PROVE  /\ version \in Versions
           /\ table[s] \in 1..5 /\ todo[s] \subseteq Configured(version, table[s] - 1)
           /\ Configured(version, table[s] - 1) \subseteq {Campus} \cup DOMAIN Config[version]
           /\ {Campus} \cup DOMAIN Config[version] \subseteq Entities
           /\ table[s] > 1 => seen[s] = version
           /\ \A e \in Entities :
                 IF e \in Configured(version, table[s] - 1) \ todo[s]
                 THEN /\ UpToDate(e, version, mapped[s][e])
                      /\ SameCopies(loaded[s][e], rows[e])
                 ELSE loaded[s][e] = NoRow /\ mapped[s][e] = NoRow
<1>1. version \in Versions
  BY ConfigAssumption DEF LoadingBy, TypeInv, TypeOK, Progress, Versions
<1>2. {Campus} \cup DOMAIN Config[version] \subseteq Entities
  BY <1>1, ConfiguredIsStructural DEF Structural, Entities, Observed
<1>3. Configured(version, table[s] - 1) \subseteq {Campus} \cup DOMAIN Config[version]
  BY DEF Configured
<1> QED BY <1>1, <1>2, <1>3 DEF LoadingBy

\* The session's own steps, from the first to the last before its commit.
LEMMA LoadingGoesOn ==
    ASSUME Base, NEW s \in Sessions, Act(s), pc'[s] = "init", pc[s] = "init" => LoadingBy(s)
    PROVE  LoadingBy(s)'
<1>a. TypeOK /\ TypeInv /\ Progress /\ Shaped /\ Confined
  BY DEF Base, TypeInv
<1>c. \A e \in Entities : rows[e] \in Maybe
  BY <1>a DEF TypeOK, Images, Maybe
<1>d. \A e : SameCopies(rows[e], rows[e])
  BY DEF SameCopies
<1>e. Structural \subseteq Entities /\ Lots \subseteq Entities
  BY DEF Structural, Entities, Observed
<1>1. ASSUME Upsert(s) \/ StartInit(s)
      PROVE  LoadingBy(s)'
  <2>1. /\ pc[s] = "idle" /\ pc'[s] = "init"
        /\ UNCHANGED <<table, todo, loaded, mapped>>
    BY <1>1, <1>a DEF Upsert, StartInit, txVars, TypeOK
  <2>2. /\ table[s] = 1 /\ todo[s] = {}
        /\ \A e \in Entities : loaded[s][e] = NoRow /\ mapped[s][e] = NoRow
    BY <1>a, <2>1 DEF Shaped, ShapedBy, NoImages
  <2>3. Configured(version', 0) = {}
    BY DEF Configured
  <2> QED BY <2>1, <2>2, <2>3 DEF LoadingBy
<1>2. ASSUME InitRead(s)
      PROVE  LoadingBy(s)'
  <2> DEFINE E == OfKind(Kinds[table[s]]) \cap ({Campus} \cup DOMAIN Config[version])
  <2>1. /\ pc[s] = "init" /\ pc'[s] = "init" /\ todo[s] = {} /\ table[s] <= 4
        /\ seen'[s] = version /\ todo'[s] = E /\ table'[s] = table[s] + 1
        /\ UNCHANGED <<version, rows, loaded, mapped>>
    BY <1>2, <1>a DEF InitRead, TypeOK
  <2>2. /\ table[s] \in 1..4
        /\ \A e \in Entities :
                 IF e \in Configured(version, table[s] - 1)
                 THEN /\ UpToDate(e, version, mapped[s][e])
                      /\ SameCopies(loaded[s][e], rows[e])
                 ELSE loaded[s][e] = NoRow /\ mapped[s][e] = NoRow
    BY <1>a, <2>1, LoadingFacts
  <2>3. E \subseteq Configured(version, table[s]) /\ Configured(version, table[s]) \ E = Configured(version, table[s] - 1)
    <3>1. \A k \in 1..table[s] : k \in 1..(table[s] - 1) \/ k = table[s]
      BY <2>2
    <3>2. \A k \in 1..(table[s] - 1) : k \in 1..table[s] /\ k \in 1..4 /\ k # table[s]
      BY <2>2
    <3>3. \A k \in 1..(table[s] - 1) : OfKind(Kinds[k]) \cap OfKind(Kinds[table[s]]) = {}
      BY <2>2, <3>2, TablesCover
    <3> QED BY <2>2, <3>1, <3>2, <3>3 DEF Configured
  <2>4. Configured(version', table'[s] - 1) = Configured(version, table[s])
    BY <2>1, <2>2 DEF Configured
  <2> HIDE DEF E
  <2> QED BY <2>1, <2>2, <2>3, <2>4 DEF LoadingBy
<1>3. ASSUME NEW e \in Structural, InitRow(s, e)
      PROVE  LoadingBy(s)'
  <2> DEFINE new == Refreshed(e, seen[s], rows[e])
             news == [x \in {e} |-> new]
  <2>1. /\ pc[s] = "init" /\ pc' = pc /\ e \in todo[s] /\ todo'[s] = todo[s] \ {e}
        /\ Image(s, {e}, rows, news) /\ UNCHANGED <<version, rows, table, seen>>
    BY <1>3, <1>a DEF InitRow, TypeOK
  <2>2. /\ version \in Versions
        /\ table[s] \in 1..5 /\ todo[s] \subseteq Configured(version, table[s] - 1)
        /\ Configured(version, table[s] - 1) \subseteq {Campus} \cup DOMAIN Config[version]
        /\ table[s] > 1 => seen[s] = version
        /\ \A x \in Entities :
              IF x \in Configured(version, table[s] - 1) \ todo[s]
              THEN /\ UpToDate(x, version, mapped[s][x])
                   /\ SameCopies(loaded[s][x], rows[x])
              ELSE loaded[s][x] = NoRow /\ mapped[s][x] = NoRow
    BY <1>a, <2>1, LoadingFacts
  <2>3. e \in Configured(version, table[s] - 1) /\ e \in {Campus} \cup DOMAIN Config[version]
    BY <2>1, <2>2
  <2>4. seen[s] = version
    <3>1. table[s] - 1 \in 0..4 /\ (table[s] - 1 = 0 => Configured(version, table[s] - 1) = {})
      BY <2>2, ConfiguredIsStructural
    <3> QED BY <2>2, <2>3, <3>1
  <2>5. UpToDate(e, version, new) /\ news[e] = new
    BY <1>c, <1>e, <2>2, <2>3, <2>4, RefreshedUpToDate
  <2>6. Configured(version', table'[s] - 1) = Configured(version, table[s] - 1)
    BY <2>1 DEF Configured
  <2> HIDE DEF new, news
  <2>7. \A x \in Entities : /\ loaded'[s][x] = IF x = e THEN rows[x] ELSE loaded[s][x]
                            /\ mapped'[s][x] = IF x = e THEN new ELSE mapped[s][x]
    BY <1>a, <2>1, <2>5 DEF Image, TypeOK
  <2>8. \A x \in Entities :
              IF x \in Configured(version, table[s] - 1) \ (todo[s] \ {e})
              THEN /\ UpToDate(x, version, mapped'[s][x])
                   /\ SameCopies(loaded'[s][x], rows[x])
              ELSE loaded'[s][x] = NoRow /\ mapped'[s][x] = NoRow
    BY <1>d, <2>2, <2>3, <2>5, <2>7
  <2> QED BY <2>1, <2>2, <2>6, <2>8 DEF LoadingBy
<1>4. ASSUME NEW e \in Entities, MergeNew(s, e)
      PROVE  LoadingBy(s)'
  <2> DEFINE new == Merged(e, rows[e], mapped[s][e])
             news == [x \in {e} |-> new]
  <2>1. /\ e \in absent[s] /\ pc[s] = "init" /\ pc' = pc /\ todo' = todo
        /\ Image(s, {e}, rows, news) /\ UNCHANGED <<version, rows, table, seen>>
    BY <1>4, <1>a DEF MergeNew, TypeOK
  <2>2. /\ table[s] \in 1..5 /\ todo[s] \subseteq Configured(version, table[s] - 1)
        /\ table[s] > 1 => seen[s] = version
        /\ \A x \in Entities :
              IF x \in Configured(version, table[s] - 1) \ todo[s]
              THEN /\ UpToDate(x, version, mapped[s][x])
                   /\ SameCopies(loaded[s][x], rows[x])
              ELSE loaded[s][x] = NoRow /\ mapped[s][x] = NoRow
    BY <1>a, <2>1, LoadingFacts
  <2>3. mapped[s][e] # NoRow /\ mapped[s][e] \in Row
    BY <1>a, <2>1 DEF Progress, TypeOK, Images
  <2>4. e \in Configured(version, table[s] - 1) \ todo[s]
    BY <2>2, <2>3
  <2>5. UpToDate(e, version, new) /\ news[e] = new
    BY <1>c, <2>2, <2>3, <2>4, MergedUpToDate
  <2>6. Configured(version', table'[s] - 1) = Configured(version, table[s] - 1)
    BY <2>1 DEF Configured
  <2> HIDE DEF new, news
  <2>7. \A x \in Entities : /\ loaded'[s][x] = IF x = e THEN rows[x] ELSE loaded[s][x]
                            /\ mapped'[s][x] = IF x = e THEN new ELSE mapped[s][x]
    BY <1>a, <2>1, <2>5 DEF Image, TypeOK
  <2>8. \A x \in Entities :
              IF x \in Configured(version, table[s] - 1) \ todo[s]
              THEN /\ UpToDate(x, version, mapped'[s][x])
                   /\ SameCopies(loaded'[s][x], rows[x])
              ELSE loaded'[s][x] = NoRow /\ mapped'[s][x] = NoRow
    BY <1>d, <2>2, <2>4, <2>5, <2>7
  <2> QED BY <2>1, <2>2, <2>6, <2>8 DEF LoadingBy
<1>5. /\ pc[s] \in {"idle", "init"}
      /\ \/ Upsert(s) \/ StartInit(s) \/ InitRead(s)
         \/ \E e \in Structural : InitRow(s, e)
         \/ \E e \in Entities : MergeNew(s, e)
  BY <1>a DEF Act, Update, SetPredicted, InitRow, MergeNew, Upsert, StartInit, InitRead, StartReset,
              ResetTable, StartSnapshot, ReadTable, CommitSnapshot, CommitUpdate,
              CommitPredicted, CommitInit, CommitReset, Commit, Crash, Close, TypeOK
<1> QED BY <1>1, <1>2, <1>3, <1>4, <1>5

\* A session that nobody has overtaken commits, and what it leaves is up to date.
LEMMA LoadingEnds ==
    ASSUME Base, NEW s \in Sessions, LoadingBy(s), CommitInit(s)
    PROVE  /\ version' = version /\ version > 0
           /\ \A e \in {Campus} \cup DOMAIN Config[version] : UpToDate(e, version, rows'[e])
<1>a. TypeOK /\ TypeInv
  BY DEF Base, TypeInv
<1>1. /\ pc[s] = "init" /\ todo[s] = {} /\ table[s] = 5 /\ Commit(s) /\ version' = version
  BY DEF CommitInit
<1> DEFINE C == {Campus} \cup DOMAIN Config[version]
<1>2. /\ version \in Versions /\ C \subseteq Entities
      /\ \A e \in Entities :
            IF e \in Configured(version, 4)
            THEN /\ UpToDate(e, version, mapped[s][e])
                 /\ SameCopies(loaded[s][e], rows[e])
            ELSE loaded[s][e] = NoRow /\ mapped[s][e] = NoRow
  BY <1>a, <1>1, LoadingFacts
<1>3. Configured(version, 4) = C
  BY <1>2, ConfiguredIsStructural
<1>4. ~Conflicts(s)
  BY <1>2 DEF Conflicts, Conflict, SameCopies
<1>5. ASSUME NEW e \in C PROVE UpToDate(e, version, rows'[e])
  <2>1. /\ rows'[e] = Flush(rows[e], loaded[s][e], mapped[s][e])
        /\ ~Conflict(rows[e], loaded[s][e], mapped[s][e])
        /\ rows[e] \in Maybe /\ loaded[s][e] \in Maybe /\ mapped[s][e] \in Maybe
    BY <1>a, <1>1, <1>2, <1>4, CommitRows DEF Committed
  <2>2. UpToDate(e, version, mapped[s][e]) /\ SameCopies(loaded[s][e], rows[e])
    BY <1>2, <1>3
  <2>3. SameCopies(rows'[e], mapped[s][e])
    BY <2>1, <2>2, FlushCopies
  <2>4. SameCopies(mapped[s][e], rows'[e])
    BY <2>3 DEF SameCopies
  <2> QED BY <2>2, <2>4, UpToDateFollows
<1> QED BY <1>1, <1>2, <1>5 DEF Versions

LEMMA MirrorStep ==
    ASSUME Base, Mirror, [HistoryNext]_historyVars
    PROVE  Mirror'
<1>a. TypeOK /\ TypeInv
  BY DEF Base, TypeInv
<1>b. \A q \in Sessions : pc[q] = "init" => version \in Versions
  BY <1>a, ConfigAssumption DEF TypeInv, TypeOK, Progress, Versions
<1>1. CASE UNCHANGED historyVars
  BY <1>1 DEF historyVars, vars, txVars, Mirror, LoadingProgress, LoadingBy, Mirrored, Configured
<1>2. CASE HistoryNext
  <2>1. /\ alone' = {s \in Sessions : /\ pc'[s] = "init"
                                      /\ pc[s] = "init" => s \in alone
                                      /\ \A q \in Sessions \ {s} : ~Overtakes(q)}
        /\ mirrored' = \/ \E s \in alone : CommitInit(s)
                       \/ mirrored /\ \A s \in Sessions : ~Overtakes(s)
    BY <1>2 DEF HistoryNext
  <2>2. ASSUME NEW s \in alone, CommitInit(s) PROVE Mirrored'
    <3>1. s \in Sessions /\ LoadingBy(s)
      BY DEF Mirror, LoadingProgress
    <3> QED BY <2>2, <3>1, LoadingEnds DEF Mirrored
  <2>3. ASSUME version' = version, \A e \in Structural : SameCopies(rows[e], rows'[e]), mirrored
        PROVE  Mirrored'
    <3>1. version > 0 /\ version \in Versions
      BY <1>a, <2>3, ConfigAssumption DEF Mirror, Mirrored, TypeOK, Versions
    <3>2. ASSUME NEW e \in {Campus} \cup DOMAIN Config[version]
          PROVE  UpToDate(e, version, rows'[e])
      <4>1. UpToDate(e, version, rows[e]) /\ e \in Structural
        BY <2>3, <3>1, ConfiguredIsStructural DEF Mirror, Mirrored
      <4> QED BY <2>3, <4>1, UpToDateFollows
    <3> QED BY <2>3, <3>1, <3>2 DEF Mirrored
  <2>4. CASE Tick
    <3>1. UNCHANGED <<version, rows, pc, table, seen, todo, loaded, mapped>>
      BY <2>4 DEF Tick, txVars
    <3>2. \A e : SameCopies(rows[e], rows'[e])
      BY <3>1 DEF SameCopies
    <3>3. Mirrored'
      BY <2>1, <2>2, <2>3, <3>1, <3>2 DEF Mirrored
    <3>4. alone' \subseteq Sessions /\ \A s \in alone' : s \in alone
      BY <2>1, <3>1
    <3>5. \A s \in alone' : LoadingBy(s)'
      BY <3>1, <3>4 DEF Mirror, LoadingProgress, LoadingBy, Configured
    <3> QED BY <3>3, <3>4, <3>5 DEF Mirror, LoadingProgress
  <2>5. ASSUME NEW s \in Sessions, Act(s) PROVE Mirror'
    <3>1. OthersKeep(s)
      BY <1>a, <2>5, OthersKeepLemma
    <3>2. ASSUME NEW q \in alone' PROVE LoadingBy(q)'
      <4>1. /\ q \in Sessions /\ pc'[q] = "init" /\ \A r \in Sessions \ {q} : ~Overtakes(r)
            /\ pc[q] = "init" => LoadingBy(q)
        BY <2>1 DEF Mirror, LoadingProgress
      <4>2. CASE q = s
        BY <2>5, <4>1, <4>2, LoadingGoesOn
      <4>3. CASE q # s
        <5>1. version' = version /\ \A e \in Structural : SameCopies(rows[e], rows'[e])
          BY <2>5, <4>1, <4>3, OvertakenOrKept
        <5>2. LoadingBy(q)
          BY <3>1, <4>1, <4>3 DEF OthersKeep
        <5> QED BY <1>a, <3>1, <4>1, <4>3, <5>1, <5>2, LoadingElsewhere
      <4> QED BY <4>2, <4>3
    <3>3. Mirrored'
      <4>1. CASE \E q \in alone : CommitInit(q)
        BY <2>2, <4>1
      <4>2. CASE mirrored /\ \A q \in Sessions : ~Overtakes(q)
        <5>1. version' = version /\ \A e \in Structural : SameCopies(rows[e], rows'[e])
          BY <2>5, <4>2, OvertakenOrKept
        <5> QED BY <2>3, <4>2, <5>1
      <4>3. CASE ~mirrored'
        BY <4>3 DEF Mirrored
      <4> QED BY <2>1, <4>1, <4>2, <4>3
    <3>4. alone' \subseteq Sessions
      BY <2>1
    <3> QED BY <3>2, <3>3, <3>4 DEF Mirror, LoadingProgress
  <2>6. Tick \/ \E s \in Sessions : Act(s)
    BY <1>2 DEF HistoryNext, Next, Act
  <2> QED BY <2>4, <2>5, <2>6
<1> QED BY <1>1, <1>2

\* Whoever loads configurations and however many run init_campus, overlap, fail
\* and die: after one that nobody has overtaken, the twin's copies of the
\* capacities and of the version are those of the configuration in force, and
\* stay so under whatever leaves the configuration alone.
THEOREM TwinMirrors == HistorySpec => []MirrorsConfig
<1>1. HistoryInit => Init
  BY DEF HistoryInit
<1>2. [HistoryNext]_historyVars => [Next]_vars
  BY DEF HistoryNext, historyVars
<1>3. HistorySpec => Spec
  BY <1>1, <1>2, PTL DEF HistorySpec, Spec
<1>4. Base /\ Mirror /\ [HistoryNext]_historyVars => Mirror'
  BY MirrorStep
<1>5. Mirror => MirrorsConfig
  BY DEF Mirror, Mirrored, MirrorsConfig, UpToDate
<1> QED BY <1>3, <1>4, <1>5, BaseInvariant, MirrorInit, PTL DEF HistorySpec
============================================================================
