----------------------- MODULE SimulationProperties -----------------------
(***************************************************************************)
(* What a run of the simulation must guarantee.                            *)
(***************************************************************************)
EXTENDS Simulation

\* Every variable has its type.
TypeOK ==
    /\ scenario \in Scenarios
    /\ minute \in Nat
    /\ phase \in Phases
    /\ cursor \in Nat \ {0}
    /\ phase = "gates" => cursor \in Gates
    /\ budget \in Nat
    /\ sequence \in 0..MaxVehicles
    /\ queue \in [Gates -> Seq(Vehicles)]
    /\ state \in [Vehicles -> States \cup {NULL}]
    /\ lot \in [Vehicles -> Lots \cup {NULL}]
    /\ origin \in [Vehicles -> Gates \cup {NULL}]
    /\ due \in [Vehicles -> Nat \cup {NULL}]
    /\ reserved \in [Lots -> Int]
    /\ overflow \in Nat
    /\ shown \in [Lots -> Int \cup {NULL}]

Holders(l) == {v \in Vehicles : state[v] \in {"assigned", "parked"} /\ lot[v] = l}

\* The engine's own bookkeeping is exact: a lot counts the vehicles on their
\* way to it and in it, no vehicle twice, whatever the strategy believed.
CountsHolders == \A l \in Lots : reserved[l] = Cardinality(Holders(l))

\* A lot's occupancy never exceeds the capacity of the run (README, Module 7)
\* and never falls below zero.
CapacityNeverExceeded == \A l \in Lots : 0 <= reserved[l] /\ reserved[l] <= UsableCapacity(l)

\* Nobody is scheduled for a minute, or a phase of it, that is over already:
\* such a bucket would never be popped and its vehicle hold its place forever.
ScheduleNeverMissed ==
    \A v \in Vehicles : state[v] \in {"assigned", "parked"} =>
        due[v] >= IF phase = "stored" THEN minute
                  ELSE IF state[v] = "assigned" /\ phase = "departures" THEN minute + 1 ELSE minute

Waiting(g) == {queue[g][i] : i \in DOMAIN queue[g]}

\* A gate serves its vehicles in the order they came, and each vehicle waits
\* in the queue of its own gate, once, until it has been served.
FirstComeFirstServed ==
    \A g \in Gates :
        /\ \A i, j \in DOMAIN queue[g] : i < j => queue[g][i] < queue[g][j]
        /\ Waiting(g) = {v \in Vehicles : state[v] = "approaching" /\ origin[v] = g}
        /\ \A v \in Vehicles, w \in Waiting(g) :
              origin[v] = g /\ state[v] # "approaching" => v < w

\* Every vehicle is queued, on its way, parked, gone, or turned away, and the
\* overflow count is exactly the last of these.
NobodyLost ==
    /\ \A v \in Vehicles : state[v] = NULL <=> v > sequence
    /\ overflow = Cardinality({v \in Vehicles : state[v] = "completed" /\ lot[v] = NULL})

\* When the strategies see the true room, a vehicle is only turned away if no
\* reachable open lot has any.
OverflowOnlyWhenFull ==
    [][overflow' # overflow /\ scenario.noise = {0} =>
          \A l \in Open(cursor) : Available(l) <= 0]_vars

\* The twin shows the occupancy of the run, up to the twin's own ceiling, from
\* the first change it accepted on: one swallowed refusal never leaves it wrong
\* once the occupancy is back in range.
TwinFollows ==
    \A l \in Lots :
        shown[l] # NULL => shown[l] = IF reserved[l] <= Total[l] THEN reserved[l] ELSE Total[l]

\* A vehicle whose next event is before the end of the run gets there.
EventsHappen ==
    \A v \in Vehicles :
        /\ (state[v] = "assigned" /\ due[v] < scenario.duration) ~> state[v] = "parked"
        /\ (state[v] = "parked" /\ due[v] < scenario.duration) ~> state[v] = "completed"
============================================================================
