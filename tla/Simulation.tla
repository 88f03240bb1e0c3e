---------------------------- MODULE Simulation ----------------------------
(***************************************************************************)
(* The discrete-time simulation of vehicles and parking                    *)
(* (backend/app/services/simulation.py): per minute, arrivals join the     *)
(* gate queues, gates let vehicles through to the lot the allocation       *)
(* strategy chooses, vehicles reach their lots, and parked ones leave.     *)
(*                                                                         *)
(* Random numbers are choices: how many vehicles arrive, how wrong the     *)
(* room of a lot appears, how long a vehicle parks.  The loop's only       *)
(* effect outside of itself is the occupancy it writes into the twin.      *)
(* Gates and lots are numbered in the order of their ids.                  *)
(***************************************************************************)
EXTENDS Integers, Sequences, FiniteSets, Allocation

CONSTANTS
    GateCapacity,    \* sequence: the gates' throughput per minute
    Total, Usable,   \* sequences: the lots' capacities in the configuration
    Travel,          \* gate |-> (reachable lot |-> travel_time_s)
    Scenarios,       \* the scenarios a run may be given
    ParkMinutes,     \* MIN_PARK_MINUTES .. MAX_PARK_MINUTES
    MaxVehicles,     \* bound on the vehicles of a run
    NULL

Gates == DOMAIN GateCapacity
Lots == DOMAIN Total
Vehicles == 1..MaxVehicles
States == {"approaching", "assigned", "parked", "completed"}
Phases == {"arrivals", "gates", "parking", "departures", "stored"}

ASSUME CampusAssumption ==
    /\ GateCapacity \in Seq(Nat)
    /\ Total \in Seq(Nat) /\ Usable \in Seq(Nat) /\ Len(Usable) = Len(Total)
    /\ DOMAIN Travel = Gates
    /\ \A g \in Gates : DOMAIN Travel[g] \subseteq Lots
                        /\ \A l \in DOMAIN Travel[g] : Travel[g][l] \in Nat
    /\ ParkMinutes \subseteq Nat \ {0}
    /\ MaxVehicles \in Nat
    /\ NULL \notin Int /\ NULL \notin States

\* validate_scenario and the schema: a window is [entity_type, entity, from,
\* to], a profile entry [gate, rate, from, to], usable the capacity overrides,
\* noise the errors prediction_error_level can produce.
ASSUME ScenariosAssumption ==
    \A sc \in Scenarios :
        /\ sc.strategy \in STRATEGY_REGISTRY
        /\ sc.duration \in Nat \ {0}
        /\ \A i \in DOMAIN sc.profile : sc.profile[i].gate \in Gates
        /\ sc.profile \in Seq([gate : Gates, rate : Nat, from : Nat, to : Nat])
        /\ DOMAIN sc.usable \subseteq Lots
        /\ \A l \in DOMAIN sc.usable : sc.usable[l] \in Nat
        /\ sc.noise \subseteq Int

VARIABLES
    scenario,   \* the scenario of the run
    minute, phase,
    cursor,     \* position in the profile or among the gates
    budget,     \* vehicles the current gate may still let through
    sequence,   \* vehicle_seq
    queue,      \* gate_queues
    state, lot, \* vehicle |-> its state, its assigned_lot_id
    origin,     \* vehicle |-> its gate_id
    due,        \* vehicle |-> its key in arrivals_at_lot or departures
    reserved,   \* lot_states[_].reserved_or_occupied
    overflow,   \* overflow_count
    shown       \* lot |-> the occupancy the run last put into the twin

vars == <<scenario, minute, phase, cursor, budget, sequence, queue, state,
          lot, origin, due, reserved, overflow, shown>>

Throughput(g) == IF GateCapacity[g] > 1 THEN GateCapacity[g] ELSE 1

Init ==
    /\ scenario \in Scenarios
    /\ minute = 0 /\ phase = "arrivals" /\ cursor = 1 /\ budget = 0
    /\ sequence = 0
    /\ queue = [g \in Gates |-> <<>>]
    /\ state = [v \in Vehicles |-> NULL]
    /\ lot = [v \in Vehicles |-> NULL]
    /\ origin = [v \in Vehicles |-> NULL]
    /\ due = [v \in Vehicles |-> NULL]
    /\ reserved = [l \in Lots |-> 0]
    /\ overflow = 0
    /\ shown = [l \in Lots |-> NULL]

----------------------------------------------------------------------------
IsClosed(windows, type, e) ==
    \E w \in windows : w.type = type /\ w.entity = e /\ w.from <= minute /\ minute < w.to

\* gate_closed_windows and lot_closed_windows: a restricted gate stays open, a
\* restricted lot does not; windows on roads are never looked at.
GateClosed(g) == IsClosed({w \in scenario.windows : w.status = "closed"}, "gate", g)
LotClosed(l) == IsClosed(scenario.windows, "parking_lot", l)

UsableCapacity(l) == IF l \in DOMAIN scenario.usable THEN scenario.usable[l] ELSE Usable[l]
Available(l) == UsableCapacity(l) - reserved[l]

\* record_twin_update: the twin's ceiling is the configured total_capacity; an
\* occupancy above it is refused there and the refusal is swallowed.
Recorded(l, occupied) == IF occupied <= Total[l] THEN [shown EXCEPT ![l] = occupied] ELSE shown

----------------------------------------------------------------------------
(* 1. Arrivals, profile entry by profile entry. *)

\* Variant of Arrive that puts the newcomer at the head of the queue.
ArriveFirst ==
    /\ phase = "arrivals"
    /\ cursor <= Len(scenario.profile)
    /\ sequence < MaxVehicles
    /\ LET e == scenario.profile[cursor]
           v == sequence + 1
       IN /\ e.from <= minute /\ minute < e.to
          /\ ~GateClosed(e.gate)
          /\ e.rate > 0
          /\ sequence' = v
          /\ queue' = [queue EXCEPT ![e.gate] = <<v>> \o @]
          /\ state' = [state EXCEPT ![v] = "approaching"]
          /\ origin' = [origin EXCEPT ![v] = e.gate]
    /\ UNCHANGED <<scenario, minute, phase, cursor, budget, lot, due, reserved, overflow, shown>>

Arrive ==
    /\ phase = "arrivals"
    /\ cursor <= Len(scenario.profile)
    /\ sequence < MaxVehicles
    /\ LET e == scenario.profile[cursor]
           v == sequence + 1
       IN /\ e.from <= minute /\ minute < e.to
          /\ ~GateClosed(e.gate)
          /\ e.rate > 0
          /\ sequence' = v
          /\ queue' = [queue EXCEPT ![e.gate] = Append(@, v)]
          /\ state' = [state EXCEPT ![v] = "approaching"]
          /\ origin' = [origin EXCEPT ![v] = e.gate]
    /\ UNCHANGED <<scenario, minute, phase, cursor, budget, lot, due, reserved, overflow, shown>>

\* Variant of OpenGate that walks one gate too far.
OpenGatePastLast(g) ==
    /\ cursor' = g
    /\ IF g \in Gates \/ g - 1 \in Gates THEN phase' = "gates" /\ budget' = 1
       ELSE phase' = "parking" /\ budget' = 0

\* To the gate at that position, with a throughput of its own.
OpenGate(g) ==
    /\ cursor' = g
    /\ IF g \in Gates THEN phase' = "gates" /\ budget' = Throughput(g)
       ELSE phase' = "parking" /\ budget' = 0

NextEntry ==
    /\ phase = "arrivals"
    /\ IF cursor < Len(scenario.profile)
       THEN cursor' = cursor + 1 /\ UNCHANGED <<phase, budget>>
       ELSE OpenGate(1)
    /\ UNCHANGED <<scenario, minute, sequence, queue, state, lot, origin, due,
                   reserved, overflow, shown>>

----------------------------------------------------------------------------
(* 2. Gate throughput and allocation, gate by gate. *)

\* max(1, round(travel_time_s / 60)); round() takes a half to the even minute.
TravelMinutes(seconds) ==
    LET m == seconds \div 60
        r == seconds % 60
        rounded == IF r > 30 \/ (r = 30 /\ m % 2 = 1) THEN m + 1 ELSE m
    IN IF rounded > 1 THEN rounded ELSE 1

Open(g) == {l \in DOMAIN Travel[g] : ~LotClosed(l)}

\* The gate whose turn it is, open and with a vehicle it may still let through.
Serving(g) ==
    /\ phase = "gates" /\ cursor = g
    /\ ~GateClosed(g)
    /\ budget > 0 /\ queue[g] # <<>>

\* The vehicle at the head of the queue leaves it.
Dequeue(g) ==
    /\ queue' = [queue EXCEPT ![g] = Tail(@)]
    /\ budget' = budget - 1

Apparent(g) == [Open(g) -> scenario.noise]
Seen(jitter) == [l \in DOMAIN jitter |-> Available(l) + jitter[l]]

\* Variant of Assign that trusts the room the strategy saw.
AssignUnchecked(g, l, jitter) ==
    /\ Serving(g)
    /\ l \in Choices(scenario.strategy, Travel[g], Seen(jitter))
    /\ Dequeue(g)
    /\ LET v == Head(queue[g])
       IN /\ state' = [state EXCEPT ![v] = "assigned"]
          /\ lot' = [lot EXCEPT ![v] = l]
          /\ due' = [due EXCEPT ![v] = minute + TravelMinutes(Travel[g][l])]
    /\ reserved' = [reserved EXCEPT ![l] = @ + 1]
    /\ shown' = Recorded(l, reserved[l] + 1)
    /\ UNCHANGED <<scenario, minute, phase, cursor, sequence, origin, overflow>>

\* Variant of Assign that books the vehicle's arrival from the start of the run.
AssignEarly(g, l, jitter) ==
    /\ Serving(g)
    /\ l \in Choices(scenario.strategy, Travel[g], Seen(jitter))
    /\ Available(l) > 0
    /\ Dequeue(g)
    /\ LET v == Head(queue[g])
       IN /\ state' = [state EXCEPT ![v] = "assigned"]
          /\ lot' = [lot EXCEPT ![v] = l]
          /\ due' = [due EXCEPT ![v] = TravelMinutes(Travel[g][l])]
    /\ reserved' = [reserved EXCEPT ![l] = @ + 1]
    /\ shown' = Recorded(l, reserved[l] + 1)
    /\ UNCHANGED <<scenario, minute, phase, cursor, sequence, origin, overflow>>

Assign(g, l, jitter) ==
    /\ Serving(g)
    /\ l \in Choices(scenario.strategy, Travel[g], Seen(jitter))
    /\ Available(l) > 0
    /\ Dequeue(g)
    /\ LET v == Head(queue[g])
       IN /\ state' = [state EXCEPT ![v] = "assigned"]
          /\ lot' = [lot EXCEPT ![v] = l]
          /\ due' = [due EXCEPT ![v] = minute + TravelMinutes(Travel[g][l])]
    /\ reserved' = [reserved EXCEPT ![l] = @ + 1]
    /\ shown' = Recorded(l, reserved[l] + 1)
    /\ UNCHANGED <<scenario, minute, phase, cursor, sequence, origin, overflow>>

\* Variant of Overflow that only counts the vehicles nothing was chosen for.
OverflowUncounted(g, jitter) ==
    /\ Serving(g)
    /\ LET chosen == Choices(scenario.strategy, Travel[g], Seen(jitter))
       IN Viable(Seen(jitter)) = {} \/ \E l \in chosen : Available(l) <= 0
    /\ Dequeue(g)
    /\ state' = [state EXCEPT ![Head(queue[g])] = "completed"]
    /\ overflow' = overflow + IF Viable(Seen(jitter)) = {} THEN 1 ELSE 0
    /\ UNCHANGED <<scenario, minute, phase, cursor, sequence, lot, origin, due, reserved, shown>>

\* Nothing was chosen, or the lot chosen is really full.
Overflow(g, jitter) ==
    /\ Serving(g)
    /\ LET chosen == Choices(scenario.strategy, Travel[g], Seen(jitter))
       IN Viable(Seen(jitter)) = {} \/ \E l \in chosen : Available(l) <= 0
    /\ Dequeue(g)
    /\ state' = [state EXCEPT ![Head(queue[g])] = "completed"]
    /\ overflow' = overflow + 1
    /\ UNCHANGED <<scenario, minute, phase, cursor, sequence, lot, origin, due, reserved, shown>>

NextGate ==
    /\ phase = "gates"
    /\ GateClosed(cursor) \/ budget = 0 \/ queue[cursor] = <<>>
    /\ OpenGate(cursor + 1)
    /\ UNCHANGED <<scenario, minute, sequence, queue, state, lot, origin, due,
                   reserved, overflow, shown>>

----------------------------------------------------------------------------
(* 3. and 4. Arrivals at the lots, departures, end of the minute. *)

Due(s) == {v \in Vehicles : state[v] = s /\ due[v] = minute}

Park(v, d) ==
    /\ phase = "parking"
    /\ v \in Due("assigned")
    /\ state' = [state EXCEPT ![v] = "parked"]
    /\ due' = [due EXCEPT ![v] = minute + d]
    /\ UNCHANGED <<scenario, minute, phase, cursor, budget, sequence, queue,
                   lot, origin, reserved, overflow, shown>>

\* Variant of AllParked that goes on after any of them.
AllParkedEarly ==
    /\ phase = "parking"
    /\ phase' = "departures"
    /\ UNCHANGED <<scenario, minute, cursor, budget, sequence, queue, state,
                   lot, origin, due, reserved, overflow, shown>>

AllParked ==
    /\ phase = "parking"
    /\ Due("assigned") = {}
    /\ phase' = "departures"
    /\ UNCHANGED <<scenario, minute, cursor, budget, sequence, queue, state,
                   lot, origin, due, reserved, overflow, shown>>

\* Variant of Depart that does not give the place back.
DepartKeepsPlace(v) ==
    /\ phase = "departures"
    /\ v \in Due("parked")
    /\ state' = [state EXCEPT ![v] = "completed"]
    /\ UNCHANGED <<scenario, minute, phase, cursor, budget, sequence, queue,
                   lot, origin, due, reserved, overflow, shown>>

\* Variant of Depart that does not tell the twin.
DepartUnrecorded(v) ==
    /\ phase = "departures"
    /\ v \in Due("parked")
    /\ state' = [state EXCEPT ![v] = "completed"]
    /\ reserved' = [reserved EXCEPT ![lot[v]] = @ - 1]
    /\ UNCHANGED <<scenario, minute, phase, cursor, budget, sequence, queue,
                   lot, origin, due, overflow, shown>>

Depart(v) ==
    /\ phase = "departures"
    /\ v \in Due("parked")
    /\ state' = [state EXCEPT ![v] = "completed"]
    /\ reserved' = [reserved EXCEPT ![lot[v]] = @ - 1]
    /\ shown' = Recorded(lot[v], reserved[lot[v]] - 1)
    /\ UNCHANGED <<scenario, minute, phase, cursor, budget, sequence, queue,
                   lot, origin, due, overflow>>

\* After the last minute the result is stored (run_and_store).
EndMinute ==
    /\ phase = "departures"
    /\ Due("parked") = {}
    /\ minute' = minute + 1
    /\ phase' = IF minute + 1 < scenario.duration THEN "arrivals" ELSE "stored"
    /\ cursor' = 1
    /\ UNCHANGED <<scenario, budget, sequence, queue, state, lot, origin, due,
                   reserved, overflow, shown>>

Stored == phase = "stored" /\ UNCHANGED vars

Next ==
    \/ Arrive \/ NextEntry
    \/ \E g \in Gates : \E jitter \in Apparent(g) :
        Overflow(g, jitter) \/ \E l \in Lots : Assign(g, l, jitter)
    \/ NextGate
    \/ \E v \in Vehicles : Depart(v) \/ \E d \in ParkMinutes : Park(v, d)
    \/ AllParked \/ EndMinute
    \/ Stored

\* The loop runs by itself.
Spec == Init /\ [][Next]_vars /\ WF_vars(Next)
============================================================================
