---------------------------- MODULE DigitalTwin ----------------------------
(***************************************************************************)
(* The digital twin (backend/app/services/digital_twin.py): one row per    *)
(* lot, gate, road and tracked vehicle and one for the campus, written by  *)
(* concurrent database sessions that each read, check, assign and commit.  *)
(*                                                                         *)
(* Columns are shared by the four tables: "reading" is occupied, queue,    *)
(* load or the vehicle state, "extra" is predicted_occupancy, throughput,  *)
(* congestion or assigned_parking_lot_id.  total_capacity stands for the   *)
(* five capacity columns, which are always copied together.                *)
(***************************************************************************)
EXTENDS Integers, Sequences, FiniteSets, UnitOfWork

CONSTANTS
    Campus, Lots, Gates, Roads, Vehicles,   \* the entities
    Sessions,       \* database sessions, one operation at a time each
    Observers,      \* ... that run update_parking/gate/road/vehicle and reset
    Forecasters,    \* ... that run set_predicted_occupancy
    Loaders,        \* ... that run scripts/load_campus_config.py
    Initialisers,   \* ... that run init_campus on its own (SimulationService.run)
    Recorders,      \* ... that run snapshot
    Crashing,       \* ... whose process may die between two statements
    Config,         \* the successive contents of the campus file: a sequence
                    \* of functions from entities to [total, status]
    Observations,   \* entity |-> the observations its writers submit
    Forecasts,      \* the values the forecaster may write
    Fresh, Aging,   \* entity |-> fresh_seconds, aging_seconds
    MaxTime,        \* bound on the clock
    NULL

Structural == {Campus} \cup Lots \cup Gates \cup Roads
Observed == Lots \cup Gates \cup Roads \cup Vehicles
Entities == {Campus} \cup Observed
Versions == 1..Len(Config)
Times == 0..MaxTime

OBSERVATION_SOURCES == {"manual", "cv_auto", "cv_verified", "simulation"}
PROVENANCE_LABELS == {"REAL", "EXTERNAL", "SYNTHETIC", "SAMPLE", "COUNTERFACTUAL"}
STATUSES == {"open", "closed", "restricted"}
\* Positions in the VEHICLE_STATES tuple, approaching .. completed.
VEHICLE_STATES == 1..6

\* The arguments of an update_* call.  status, extra and
\* observation_timestamp are optional.
Observation == UNION {Observations[e] : e \in Observed}

ASSUME ObservationsAssumption ==
    \A o \in Observation :
        /\ o.reading \in Int
        /\ o.status \in {NULL} \cup STATUSES
        /\ o.observation_timestamp \in {NULL} \cup Nat

\* init_campus walks the first four tables in this order, reset the middle
\* three, get_state all five.
Kinds == <<"campus", "lot", "gate", "road", "vehicle">>
OfKind(k) ==
    CASE k = "campus" -> {Campus}
      [] k = "lot" -> Lots
      [] k = "gate" -> Gates
      [] k = "road" -> Roads
      [] k = "vehicle" -> Vehicles

ASSUME EntitiesAssumption ==
    \A i, j \in DOMAIN Kinds : i # j => OfKind(Kinds[i]) \cap OfKind(Kinds[j]) = {}

ASSUME SessionsAssumption ==
    Observers \cup Forecasters \cup Loaders \cup Initialisers \cup Recorders
        \cup Crashing \subseteq Sessions

\* Validation of the file gives every lot a capacity; a later file keeps the
\* entities of the earlier ones (removing one fails at the foreign keys).
ASSUME ConfigAssumption ==
    /\ Len(Config) \in Nat
    /\ \A v \in Versions :
        /\ DOMAIN Config[v] \subseteq Lots \cup Gates \cup Roads
        /\ \A e \in DOMAIN Config[v] :
              /\ Config[v][e].status \in STATUSES
              /\ e \in Lots => Config[v][e].total \in Nat
        /\ \A w \in Versions : v <= w => DOMAIN Config[v] \subseteq DOMAIN Config[w]

ASSUME TimeAssumption ==
    /\ MaxTime \in Nat
    /\ NULL \notin Int
    /\ \A e \in Observed : Fresh[e] \in Nat /\ Aging[e] \in Nat /\ Fresh[e] <= Aging[e]

\* The empty row: a vehicle or structural entity nobody has observed.
EmptyRow == [total_capacity |-> NULL, status |-> NULL, reading |-> NULL,
             extra |-> NULL, observation_timestamp |-> NULL, source |-> NULL,
             provenance |-> NULL, config_version |-> NULL]

\* The part of a row that is one observation.
Unobserved == [reading |-> NULL, observation_timestamp |-> NULL,
               source |-> NULL, provenance |-> NULL]
Stamp(row) ==
    IF row = NoRow THEN Unobserved
    ELSE [reading |-> row.reading, observation_timestamp |-> row.observation_timestamp,
          source |-> row.source, provenance |-> row.provenance]

NoImages == [e \in Entities |-> NoRow]

\* Variant of Freshness that judges a future observation by its distance.
FreshnessByDistance(e, at, t) ==
    LET age == IF t >= at THEN t - at ELSE at - t
    IN IF at = NULL THEN "UNKNOWN"
       ELSE IF age <= Fresh[e] THEN "FRESH" ELSE IF age <= Aging[e] THEN "AGING" ELSE "STALE"

\* compute_freshness: an observation from the future counts as just made.
Freshness(e, at, t) ==
    CASE at = NULL -> "UNKNOWN"
      [] at # NULL /\ t - at <= Fresh[e] -> "FRESH"
      [] at # NULL /\ t - at > Fresh[e] /\ t - at <= Aging[e] -> "AGING"
      [] at # NULL /\ t - at > Aging[e] -> "STALE"

----------------------------------------------------------------------------
VARIABLES
    version,      \* campuses.active_configuration_version; 0: no campus yet
    rows,         \* committed twin rows: entity |-> row or NoRow
    now,          \* the clock
    pc,           \* session |-> the operation it is in
    table,        \* session |-> index in Kinds of the table it reads next
    seen,         \* session |-> configuration its last config SELECT returned
    todo,         \* session |-> rows of that SELECT not yet processed
    absent,       \* session |-> rows session.get did not find, not yet merged
    loaded,       \* session |-> row images as loaded
    mapped,       \* session |-> row images after the assignments
    offer         \* session |-> the observation it is writing, or NULL

txVars == <<table, seen, todo, absent, loaded, mapped, offer>>
vars == <<version, rows, now, pc, txVars>>

Init ==
    /\ version = 0
    /\ rows = NoImages
    /\ now = 0
    /\ pc = [s \in Sessions |-> "idle"]
    /\ table = [s \in Sessions |-> 1]
    /\ seen = [s \in Sessions |-> 0]
    /\ todo = [s \in Sessions |-> {}]
    /\ absent = [s \in Sessions |-> {}]
    /\ loaded = [s \in Sessions |-> NoImages]
    /\ mapped = [s \in Sessions |-> NoImages]
    /\ offer = [s \in Sessions |-> NULL]

\* The session ends: its identity map and its arguments are gone.
Close(s) ==
    /\ pc' = [pc EXCEPT ![s] = "idle"]
    /\ table' = [table EXCEPT ![s] = 1]
    /\ seen' = [seen EXCEPT ![s] = 0]
    /\ todo' = [todo EXCEPT ![s] = {}]
    /\ absent' = [absent EXCEPT ![s] = {}]
    /\ loaded' = [loaded EXCEPT ![s] = NoImages]
    /\ mapped' = [mapped EXCEPT ![s] = NoImages]
    /\ offer' = [offer EXCEPT ![s] = NULL]

\* A session loads and assigns the rows of E: "old" maps them to what the
\* SELECT returned, "new" to what the assignments make of it.
Image(s, E, old, new) ==
    /\ loaded' = [loaded EXCEPT ![s] = [e \in Entities |-> IF e \in E THEN old[e] ELSE @[e]]]
    /\ mapped' = [mapped EXCEPT ![s] = [e \in Entities |-> IF e \in E THEN new[e] ELSE @[e]]]

\* session.merge of a row object built because session.get found nothing: a
\* second SELECT.  If the row exists by now, the attributes set on the object
\* are copied onto it; for structural rows that leaves the observation alone.
Merged(e, row, new) ==
    IF row = NoRow \/ e \in Vehicles THEN new
    ELSE [row EXCEPT !.total_capacity = new.total_capacity, !.status = new.status,
                     !.config_version = new.config_version]

MergeNew(s, e) ==
    /\ e \in absent[s]
    /\ absent' = [absent EXCEPT ![s] = @ \ {e}]
    /\ Image(s, {e}, rows, [x \in {e} |-> Merged(e, rows[e], mapped[s][e])])
    /\ UNCHANGED <<version, rows, now, pc, table, seen, todo, offer>>

\* session.commit(): every statement of the session takes effect, or none.
Commit(s) ==
    IF \E e \in Entities : Conflict(rows[e], loaded[s][e], mapped[s][e])
    THEN /\ UNCHANGED rows
         /\ Close(s)
    ELSE /\ rows' = [e \in Entities |-> Flush(rows[e], loaded[s][e], mapped[s][e])]
         /\ Close(s)

----------------------------------------------------------------------------
(* update_parking, update_gate, update_road and update_vehicle. *)

\* Variant of Accepts without the label checks.
AcceptsAnyLabel(e, o) ==
    /\ version > 0
    /\ IF e \in Vehicles THEN o.reading \in VEHICLE_STATES
       ELSE rows[e] # NoRow /\ o.reading >= 0 /\ (e \in Lots => o.reading <= rows[e].total_capacity)

\* The checks before the first assignment: the campus, the labels, the row,
\* and the reading against its range.  The ceiling is the twin's own copy of
\* the lot's capacity; vehicles are created on demand.  Any other call raises
\* before it has changed anything.
Accepts(e, o) ==
    /\ version > 0
    /\ o.source \in OBSERVATION_SOURCES
    /\ o.provenance \in PROVENANCE_LABELS
    /\ IF e \in Vehicles THEN o.reading \in VEHICLE_STATES
       ELSE /\ rows[e] # NoRow
            /\ o.reading >= 0
            /\ e \in Lots => o.reading <= rows[e].total_capacity

\* The assignments.  A lot's forecast, a gate's throughput and any status are
\* only assigned when given; congestion and the assigned lot always.
Assigned(e, o, row) ==
    [row EXCEPT
        !.reading = o.reading,
        !.status = IF o.status = NULL \/ e \in Vehicles THEN @ ELSE o.status,
        !.extra = IF o.extra = NULL /\ e \in Lots \cup Gates THEN @ ELSE o.extra,
        !.observation_timestamp =
            IF o.observation_timestamp = NULL THEN now ELSE o.observation_timestamp,
        !.source = o.source,
        !.provenance = o.provenance]

Update(s, e, o) ==
    /\ pc[s] = "idle"
    /\ s \in Observers
    /\ Accepts(e, o)
    /\ LET old == rows[e]
           new == Assigned(e, o, IF old = NoRow THEN EmptyRow ELSE old)
       IN /\ Image(s, {e}, [x \in {e} |-> old], [x \in {e} |-> new])
          /\ offer' = [offer EXCEPT ![s] = [entity |-> e, stamp |-> Stamp(new)]]
    /\ absent' = [absent EXCEPT ![s] = {x \in {e} : rows[x] = NoRow}]
    /\ pc' = [pc EXCEPT ![s] = "update"]
    /\ UNCHANGED <<version, rows, now, table, seen, todo>>

CommitUpdate(s) ==
    /\ pc[s] = "update"
    /\ absent[s] = {}
    /\ Commit(s)
    /\ UNCHANGED <<version, now>>

----------------------------------------------------------------------------
(* set_predicted_occupancy. *)

SetPredicted(s, l, p) ==
    /\ pc[s] = "idle"
    /\ s \in Forecasters
    /\ version > 0
    /\ rows[l] # NoRow
    /\ Image(s, {l}, rows, [x \in {l} |-> [rows[l] EXCEPT !.extra = p]])
    /\ pc' = [pc EXCEPT ![s] = "forecast"]
    /\ UNCHANGED <<version, rows, now, table, seen, todo, absent, offer>>

CommitPredicted(s) ==
    /\ pc[s] = "forecast"
    /\ Commit(s)
    /\ UNCHANGED <<version, now>>

----------------------------------------------------------------------------
(* load_campus_config: one transaction for the configuration, then          *)
(* init_campus in another.  init_campus reads the configuration table by    *)
(* table, and the twin row of each entity on its own.                       *)

Upsert(s) ==
    /\ pc[s] = "idle"
    /\ s \in Loaders
    /\ version < Len(Config)
    /\ version' = version + 1
    /\ pc' = [pc EXCEPT ![s] = "init"]
    /\ UNCHANGED <<rows, now, txVars>>

StartInit(s) ==
    /\ pc[s] = "idle"
    /\ s \in Initialisers
    /\ version > 0
    /\ pc' = [pc EXCEPT ![s] = "init"]
    /\ UNCHANGED <<version, rows, now, txVars>>

\* Variant of InitRead that has nothing to do once the campus row shows the version.
InitReadIfBehind(s) ==
    LET done == table[s] = 1 /\ rows[Campus] # NoRow /\ rows[Campus].config_version = version
    IN /\ pc[s] = "init"
       /\ todo[s] = {} /\ absent[s] = {} /\ table[s] <= 4
       /\ seen' = [seen EXCEPT ![s] = version]
       /\ todo' = [todo EXCEPT ![s] = IF done THEN {} ELSE
                       OfKind(Kinds[table[s]]) \cap ({Campus} \cup DOMAIN Config[version])]
       /\ table' = [table EXCEPT ![s] = IF done THEN 5 ELSE @ + 1]
       /\ UNCHANGED <<version, rows, now, pc, absent, loaded, mapped, offer>>

InitRead(s) ==
    /\ pc[s] = "init"
    /\ todo[s] = {} /\ absent[s] = {} /\ table[s] <= 4
    /\ seen' = [seen EXCEPT ![s] = version]
    /\ todo' = [todo EXCEPT ![s] = OfKind(Kinds[table[s]])
                                   \cap ({Campus} \cup DOMAIN Config[version])]
    /\ table' = [table EXCEPT ![s] = @ + 1]
    /\ UNCHANGED <<version, rows, now, pc, absent, loaded, mapped, offer>>

\* Variant of Refreshed that copies the capacity into new rows only.
RefreshedNewOnly(e, v, row) ==
    IF e = Campus THEN [(IF row = NoRow THEN EmptyRow ELSE row) EXCEPT !.config_version = v]
    ELSE IF row # NoRow THEN row
    ELSE [EmptyRow EXCEPT !.status = Config[v][e].status, !.total_capacity = Config[v][e].total]

\* The row init_campus leaves: capacities (or the version) refreshed, the
\* status set on a new row only, every other column as it was.
Refreshed(e, v, row) ==
    LET status == IF e = Campus THEN NULL ELSE Config[v][e].status
        base == IF row = NoRow THEN [EmptyRow EXCEPT !.status = status] ELSE row
    IN IF e = Campus THEN [base EXCEPT !.config_version = v]
       ELSE IF e \in Lots THEN [base EXCEPT !.total_capacity = Config[v][e].total]
       ELSE base

InitRow(s, e) ==
    /\ pc[s] = "init"
    /\ e \in todo[s] /\ absent[s] = {}
    /\ absent' = [absent EXCEPT ![s] = {x \in {e} : rows[x] = NoRow}]
    /\ Image(s, {e}, rows, [x \in {e} |-> Refreshed(e, seen[s], rows[e])])
    /\ todo' = [todo EXCEPT ![s] = @ \ {e}]
    /\ UNCHANGED <<version, rows, now, pc, table, seen, offer>>

CommitInit(s) ==
    /\ pc[s] = "init"
    /\ todo[s] = {} /\ absent[s] = {} /\ table[s] = 5
    /\ Commit(s)
    /\ UNCHANGED <<version, now>>

----------------------------------------------------------------------------
(* reset: three SELECTs, then one bulk DELETE of the vehicles, one commit. *)

\* Variant of Cleared that forgets the labels.
ClearedReadingOnly(row) ==
    IF row = NoRow THEN NoRow
    ELSE [row EXCEPT !.reading = NULL, !.extra = NULL, !.observation_timestamp = NULL]

Cleared(row) ==
    IF row = NoRow THEN NoRow
    ELSE [row EXCEPT !.reading = NULL, !.extra = NULL, !.observation_timestamp = NULL,
                     !.source = NULL, !.provenance = NULL]

StartReset(s) ==
    /\ pc[s] = "idle"
    /\ s \in Observers
    /\ version > 0
    /\ pc' = [pc EXCEPT ![s] = "reset"]
    /\ table' = [table EXCEPT ![s] = 2]
    /\ UNCHANGED <<version, rows, now, seen, todo, absent, loaded, mapped,
                   offer>>

ResetTable(s) ==
    /\ pc[s] = "reset"
    /\ table[s] <= 5
    /\ LET E == OfKind(Kinds[table[s]])
       IN Image(s, E, rows, [e \in E |-> IF e \in Vehicles THEN NoRow ELSE Cleared(rows[e])])
    /\ table' = [table EXCEPT ![s] = @ + 1]
    /\ UNCHANGED <<version, rows, now, pc, seen, todo, absent, offer>>

CommitReset(s) ==
    /\ pc[s] = "reset"
    /\ table[s] = 6
    /\ Commit(s)
    /\ UNCHANGED <<version, now>>

----------------------------------------------------------------------------
(* snapshot: get_state's five SELECTs, each of the rows committed by then,  *)
(* stored in one immutable row, loaded[s], that no operation reads back.    *)

StartSnapshot(s) ==
    /\ pc[s] = "idle"
    /\ s \in Recorders
    /\ version > 0
    /\ pc' = [pc EXCEPT ![s] = "snapshot"]
    /\ UNCHANGED <<version, rows, now, table, seen, todo, absent, loaded,
                   mapped, offer>>

ReadTable(s) ==
    /\ pc[s] = "snapshot"
    /\ table[s] <= 5
    /\ LET E == OfKind(Kinds[table[s]]) IN Image(s, E, rows, rows)
    /\ table' = [table EXCEPT ![s] = @ + 1]
    /\ UNCHANGED <<version, rows, now, pc, seen, todo, absent, offer>>

CommitSnapshot(s) ==
    /\ pc[s] = "snapshot"
    /\ table[s] = 6
    /\ Close(s)
    /\ UNCHANGED <<version, rows, now>>

----------------------------------------------------------------------------
\* The process of a session dies: PostgreSQL rolls its transaction back.
Crash(s) ==
    /\ s \in Crashing
    /\ pc[s] # "idle"
    /\ Close(s)
    /\ UNCHANGED <<version, rows, now>>

Tick ==
    /\ now < MaxTime
    /\ now' = now + 1
    /\ UNCHANGED <<version, rows, pc, txVars>>

Next ==
    \/ Tick
    \/ \E s \in Sessions :
        \/ \E e \in Observed : \E o \in Observations[e] : Update(s, e, o)
        \/ \E l \in Lots, p \in Forecasts : SetPredicted(s, l, p)
        \/ \E e \in Structural : InitRow(s, e)
        \/ \E e \in Entities : MergeNew(s, e)
        \/ Upsert(s) \/ StartInit(s) \/ InitRead(s)
        \/ StartReset(s) \/ ResetTable(s)
        \/ StartSnapshot(s) \/ ReadTable(s) \/ CommitSnapshot(s)
        \/ CommitUpdate(s) \/ CommitPredicted(s) \/ CommitInit(s) \/ CommitReset(s)
        \/ Crash(s)

Spec == Init /\ [][Next]_vars
============================================================================
