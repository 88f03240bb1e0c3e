--------------------------- MODULE MCDigitalTwin ---------------------------
(* Small instances of the digital twin for TLC. *)
EXTENDS TwinHistory, TLC

CONSTANTS campus, lot, gate, vehicle,   \* entities
          session1, session2

\* One lot that shrinks, one gate that the second file closes.
MCConfig ==
    << lot :> [total |-> 2, status |-> "open"] @@ gate :> [total |-> NULL, status |-> "open"],
       lot :> [total |-> 1, status |-> "open"] @@ gate :> [total |-> NULL, status |-> "closed"] >>

\* The second file adds the gate.
MCGrowingConfig ==
    << lot :> [total |-> 2, status |-> "open"],
       lot :> [total |-> 1, status |-> "open"] @@ gate :> [total |-> NULL, status |-> "open"] >>

Obs(reading, extra, status, at, source, provenance) ==
    [reading |-> reading, extra |-> extra, status |-> status,
     observation_timestamp |-> at, source |-> source, provenance |-> provenance]

Manual == Obs(1, NULL, NULL, NULL, "manual", "REAL")
Simulated == Obs(1, 1, "closed", 2, "simulation", "SYNTHETIC")
Tracked == Obs(3, lot, NULL, 0, "simulation", "SYNTHETIC")

\* Observations the checks turn down: no such source or label, out of range.
Refused == {Obs(1, NULL, NULL, 0, "guess", "REAL"), Obs(1, NULL, NULL, 0, "manual", "GUESS"),
            Obs(-1, NULL, NULL, 0, "manual", "REAL"), Obs(9, NULL, NULL, 0, "manual", "REAL")}

\* A person at the lot, whose readings get the time of the server, simulated
\* ones that come from the future, and the observations that are refused.
MCObservations ==
    lot :> {Manual} \cup Refused @@ gate :> {Simulated} @@ vehicle :> {Tracked} \cup Refused

\* A person counting and the simulation, on one lot.
Counted(n) == Obs(n, NULL, NULL, 0, "manual", "REAL")
Generated(n) == Obs(n, NULL, NULL, 0, "simulation", "SYNTHETIC")
MCLabelObservations ==
    lot :> {Counted(0), Counted(1), Generated(1)} @@ gate :> {} @@ vehicle :> {}

NoObservations == lot :> {} @@ gate :> {} @@ vehicle :> {}

MCFresh == lot :> 0 @@ gate :> 0 @@ vehicle :> 0
MCAging == lot :> 1 @@ gate :> 1 @@ vehicle :> 1
============================================================================
