-------------------------- MODULE TwinProperties --------------------------
(***************************************************************************)
(* What the digital twin must, and is said to, guarantee.                  *)
(***************************************************************************)
EXTENDS DigitalTwin

\* The observations a writer can have been given, with the time the service
\* fills in when none came along.
Stamps ==
    UNION {{[reading |-> o.reading,
             observation_timestamp |-> t,
             source |-> o.source,
             provenance |-> o.provenance] :
                t \in IF o.observation_timestamp = NULL THEN Times
                      ELSE {o.observation_timestamp}} : o \in Observation}

Extras == {NULL} \cup Forecasts \cup {o.extra : o \in Observation}

Row == [total_capacity : {NULL} \cup Nat,
        status : {NULL} \cup STATUSES,
        reading : {NULL} \cup Int,
        extra : Extras,
        observation_timestamp : {NULL} \cup Nat,
        source : {NULL} \cup OBSERVATION_SOURCES,
        provenance : {NULL} \cup PROVENANCE_LABELS,
        config_version : {NULL} \cup Versions]

\* The absence of a row is not a row.
ASSUME NoRowAssumption == NoRow \notin Row

\* Nor is the absence of an observation one.
ASSUME NoOfferAssumption == NULL \notin [entity : Observed, stamp : Stamps]

Images == [Entities -> Row \cup {NoRow}]

\* Every variable has its type.
TypeOK ==
    /\ version \in 0..Len(Config)
    /\ rows \in Images
    /\ now \in Times
    /\ pc \in [Sessions -> {"idle", "update", "forecast", "init", "reset", "snapshot"}]
    /\ table \in [Sessions -> 1..6]
    /\ seen \in [Sessions -> 0..Len(Config)]
    /\ todo \in [Sessions -> SUBSET Structural]
    /\ absent \in [Sessions -> SUBSET Entities]
    /\ loaded \in [Sessions -> Images]
    /\ mapped \in [Sessions -> Images]
    /\ offer \in [Sessions -> {NULL} \cup [entity : Observed, stamp : Stamps]]

\* The twin implements the atomic register: whatever init_campus, forecasts
\* and crashes do meanwhile, an entity shows one whole observation that a
\* writer offered for it, or nothing.
Register ==
    INSTANCE TwinRegister WITH
        Writers <- Observers,
        NoOffer <- NULL,
        register <- [e \in Observed |-> Stamp(rows[e])],
        offered <- [s \in Observers |-> offer[s]]
RegisterSpec == Register!Spec

----------------------------------------------------------------------------
ObservationColumns == {"reading", "observation_timestamp", "source", "provenance"}

\* The operations that assign a column.
Owners(column) ==
    CASE column \in ObservationColumns -> {"update", "reset"}
      [] column = "extra" -> {"update", "reset", "forecast"}
      [] column = "status" -> {"update", "init"}
      [] OTHER -> {"init"}

\* Only a session whose operation assigns a column ever changes it in a row
\* that stays: an observation changes by an update or a reset, a forecast by
\* those or a forecast, capacities and the version by init_campus.  However
\* the sessions overlap, nobody writes back a value he merely read.
OnlyOwnersWrite ==
    [][\A e \in Entities :
        rows[e] # NoRow /\ rows'[e] # NoRow =>
        \A c \in DOMAIN rows[e] : rows'[e][c] # rows[e][c] =>
            \E s \in Sessions : pc[s] \in Owners(c) /\ pc'[s] = "idle"]_vars

\* Without a new observation an entity only ever looks older: time alone
\* never turns what get_state called AGING or STALE back into FRESH.
Rank == [UNKNOWN |-> 0, STALE |-> 1, AGING |-> 2, FRESH |-> 3]
LooksFresh(row, e, t) ==
    IF row = NoRow THEN 0 ELSE Rank[Freshness(e, row.observation_timestamp, t)]
FreshnessOnlyDecays ==
    [][\A e \in Observed :
        Stamp(rows'[e]) = Stamp(rows[e]) =>
            LooksFresh(rows'[e], e, now') <= LooksFresh(rows[e], e, now)]_vars

----------------------------------------------------------------------------
(* What the documentation says and the code does not do. *)

\* A snapshot is the twin at one instant: the capacities it shows are those
\* of the configuration version it shows (init_campus commits both at once).
SnapshotIsPointInTime ==
    \A s \in Sessions : pc[s] = "snapshot" /\ table[s] = 6 =>
        LET shown == loaded[s]
            v == shown[Campus].config_version
        IN IF shown[Campus] = NoRow THEN \A l \in Lots : shown[l] = NoRow
           ELSE \A l \in Lots \cap DOMAIN Config[v] :
                   shown[l] # NoRow /\ shown[l].total_capacity = Config[v][l].total

\* Every observed value carries the labels of the observation it came from.
LabelsBelongToReading ==
    \A e \in Observed : Stamp(rows[e]) \in Stamps \cup {Unobserved}
============================================================================
