------------------------- MODULE Simulation_proofs -------------------------
(***************************************************************************)
(* Proofs about the simulation, for any campus, any scenarios, any number  *)
(* of vehicles and whatever the random numbers are.                        *)
(***************************************************************************)
EXTENDS SimulationProperties, FiniteSetTheorems, SequenceTheorems, TLAPS

LEMMA TravelMinutesType ==
    ASSUME NEW seconds \in Nat
    PROVE  TravelMinutes(seconds) \in Nat /\ TravelMinutes(seconds) >= 1
<1> DEFINE m == seconds \div 60
           r == seconds % 60
<1>1. m \in Nat
  OBVIOUS
<1> HIDE DEF m, r
<1> QED BY <1>1 DEF TravelMinutes, m, r

\* A strategy only ever chooses a candidate that appears to have room.
LEMMA ChoicesViable ==
    ASSUME NEW strategy, NEW travel, NEW apparent, NEW l \in Choices(strategy, travel, apparent)
    PROVE  l \in DOMAIN apparent /\ apparent[l] > 0
  BY DEF Choices, Viable

----------------------------------------------------------------------------
(* Type correctness and the queues. *)

\* A vehicle on its way or parked has a lot and a minute it is waiting for.
Placed ==
    \A v \in Vehicles : state[v] \in {"assigned", "parked"} => lot[v] \in Lots /\ due[v] \in Nat

\* What OpenGate leaves of the types.
LEMMA OpenGateType ==
    ASSUME NEW g \in Nat \ {0}, OpenGate(g)
    PROVE  /\ phase' \in Phases /\ cursor' \in Nat \ {0} /\ budget' \in Nat
           /\ phase' = "gates" => cursor' \in Gates
           /\ phase' \in {"gates", "parking"}
<1>1. g \in Gates => Throughput(g) \in Nat
  BY CampusAssumption DEF Throughput, Gates
<1> QED BY <1>1 DEF OpenGate, Phases

LEMMA TypeInit == Init => TypeOK
  BY CampusAssumption DEF Init, TypeOK, Phases, Gates, Lots

LEMMA AssignLot ==
    ASSUME NEW g \in Gates, NEW jitter \in Apparent(g), NEW l \in Lots, Assign(g, l, jitter)
    PROVE  l \in DOMAIN Travel[g] /\ Travel[g][l] \in Nat
<1>1. l \in DOMAIN Seen(jitter)
  BY ChoicesViable DEF Assign
<1>2. DOMAIN Seen(jitter) = Open(g)
  BY DEF Seen, Apparent
<1> QED BY <1>1, <1>2, CampusAssumption DEF Open

LEMMA HeadType ==
    ASSUME TypeOK, NEW g \in Gates, queue[g] # <<>>
    PROVE  Head(queue[g]) \in Vehicles /\ Tail(queue[g]) \in Seq(Vehicles)
  BY DEF TypeOK

LEMMA RecordedType ==
    ASSUME TypeOK, NEW l \in Lots, NEW n \in Int
    PROVE  Recorded(l, n) \in [Lots -> Int \cup {NULL}]
  BY DEF TypeOK, Recorded

LEMMA TypeStep == TypeOK /\ Placed /\ [Next]_vars => TypeOK'
<1> SUFFICES ASSUME TypeOK, Placed, [Next]_vars PROVE TypeOK'
  OBVIOUS
<1> USE DEF TypeOK
<1>1. CASE Arrive
  <2> DEFINE v == sequence + 1
             e == scenario.profile[cursor]
  <2>1. v \in Vehicles /\ e.gate \in Gates
    <3>1. scenario.profile \in Seq([gate : Gates, rate : Nat, from : Nat, to : Nat])
      BY ScenariosAssumption
    <3>2. cursor \in DOMAIN scenario.profile
      BY <1>1, <3>1 DEF Arrive
    <3>3. e.gate \in Gates
      BY <3>2, ScenariosAssumption
    <3> QED BY <1>1, <3>3, CampusAssumption DEF Arrive, Vehicles
  <2>2. Append(queue[e.gate], v) \in Seq(Vehicles)
    BY <2>1
  <2>3. /\ sequence' = v
        /\ queue' = [queue EXCEPT ![e.gate] = Append(@, v)]
        /\ state' = [state EXCEPT ![v] = "approaching"]
        /\ origin' = [origin EXCEPT ![v] = e.gate]
        /\ UNCHANGED <<scenario, minute, phase, cursor, budget, lot, due, reserved, overflow, shown>>
    BY <1>1 DEF Arrive
  <2> HIDE DEF v, e
  <2> QED BY <2>1, <2>2, <2>3 DEF States, Vehicles
<1>2. CASE NextEntry
  BY <1>2, OpenGateType DEF NextEntry, Phases
<1>3. ASSUME NEW g \in Gates, NEW jitter \in Apparent(g), NEW l \in Lots, Assign(g, l, jitter)
      PROVE  TypeOK'
  <2>1. Head(queue[g]) \in Vehicles /\ Tail(queue[g]) \in Seq(Vehicles)
    BY <1>3, HeadType DEF Assign, Serving
  <2>2. TravelMinutes(Travel[g][l]) \in Nat
    BY <1>3, AssignLot, TravelMinutesType
  <2>3. Recorded(l, reserved[l] + 1) \in [Lots -> Int \cup {NULL}]
    BY RecordedType
  <2>4. budget - 1 \in Nat
    BY <1>3 DEF Assign, Serving
  <2> QED BY <1>3, <2>1, <2>2, <2>3, <2>4 DEF Assign, Dequeue, States
<1>4. ASSUME NEW g \in Gates, NEW jitter \in Apparent(g), Overflow(g, jitter)
      PROVE  TypeOK'
  <2>1. Head(queue[g]) \in Vehicles /\ Tail(queue[g]) \in Seq(Vehicles)
    BY <1>4, HeadType DEF Overflow, Serving
  <2>2. budget - 1 \in Nat
    BY <1>4 DEF Overflow, Serving
  <2> QED BY <1>4, <2>1, <2>2 DEF Overflow, Dequeue, States
<1>5. CASE NextGate
  <2>1. cursor + 1 \in Nat \ {0}
    OBVIOUS
  <2> QED BY <1>5, <2>1, OpenGateType DEF NextGate
<1>6. ASSUME NEW v \in Vehicles, NEW d \in ParkMinutes, Park(v, d)
      PROVE  TypeOK'
  <2>1. minute + d \in Nat
    BY CampusAssumption
  <2> QED BY <1>6, <2>1 DEF Park, States
<1>7. ASSUME NEW v \in Vehicles, Depart(v)
      PROVE  TypeOK'
  <2>0. lot[v] \in Lots
    BY <1>7 DEF Placed, Depart, Due
  <2>1. Recorded(lot[v], reserved[lot[v]] - 1) \in [Lots -> Int \cup {NULL}]
    BY <2>0, RecordedType
  <2> QED BY <1>7, <2>0, <2>1 DEF Depart, States
<1>8. CASE AllParked \/ EndMinute
  BY <1>8 DEF AllParked, EndMinute, Phases
<1>9. CASE UNCHANGED vars
  BY <1>9 DEF vars
<1> QED
  BY <1>1, <1>2, <1>3, <1>4, <1>5, <1>6, <1>7, <1>8, <1>9 DEF Next, Stored

\* What a step does to one vehicle, seen from its state.
LEMMA VehicleStep ==
    ASSUME TypeOK, Placed, [Next]_vars, NEW v \in Vehicles
    PROVE  \/ UNCHANGED <<state[v], lot[v], due[v], origin[v]>>
           \/ state'[v] = "approaching" /\ phase' = "arrivals"
           \/ state'[v] = "completed"
           \/ /\ state'[v] = "assigned" /\ lot'[v] \in Lots /\ phase' = "gates"
              /\ due'[v] \in Nat /\ due'[v] > minute'
           \/ /\ state'[v] = "parked" /\ lot'[v] = lot[v] /\ lot[v] \in Lots /\ phase' = "parking"
              /\ due'[v] \in Nat /\ due'[v] > minute'
<1> USE DEF TypeOK
<1>1. CASE Arrive
  BY <1>1 DEF Arrive
<1>2. CASE NextEntry \/ NextGate \/ AllParked \/ EndMinute \/ UNCHANGED vars
  BY <1>2 DEF NextEntry, NextGate, AllParked, EndMinute, vars
<1>3. ASSUME NEW g \in Gates, NEW jitter \in Apparent(g), NEW l \in Lots, Assign(g, l, jitter)
      PROVE  \/ UNCHANGED <<state[v], lot[v], due[v], origin[v]>>
             \/ /\ state'[v] = "assigned" /\ lot'[v] \in Lots /\ phase' = "gates"
                /\ due'[v] \in Nat /\ due'[v] > minute'
  <2> DEFINE tm == TravelMinutes(Travel[g][l])
  <2>1. tm \in Nat /\ tm >= 1
    BY <1>3, AssignLot, TravelMinutesType
  <2> HIDE DEF tm
  <2>2. minute + tm \in Nat /\ minute + tm > minute
    BY <2>1
  <2>3. /\ state' = [state EXCEPT ![Head(queue[g])] = "assigned"]
        /\ lot' = [lot EXCEPT ![Head(queue[g])] = l]
        /\ due' = [due EXCEPT ![Head(queue[g])] = minute + tm]
        /\ phase = "gates" /\ UNCHANGED <<minute, phase, origin>>
    BY <1>3 DEF Assign, Serving, tm
  <2> QED BY <2>2, <2>3
<1>4. ASSUME NEW g \in Gates, NEW jitter \in Apparent(g), Overflow(g, jitter)
      PROVE  UNCHANGED <<state[v], lot[v], due[v], origin[v]>> \/ state'[v] = "completed"
  BY <1>4 DEF Overflow
<1>5. ASSUME NEW w \in Vehicles, NEW d \in ParkMinutes, Park(w, d)
      PROVE  \/ UNCHANGED <<state[v], lot[v], due[v], origin[v]>>
             \/ /\ state'[v] = "parked" /\ lot'[v] = lot[v] /\ lot[v] \in Lots /\ phase' = "parking"
                /\ due'[v] \in Nat /\ due'[v] > minute'
  <2>1. minute + d \in Nat /\ minute + d > minute
    BY CampusAssumption
  <2> QED BY <1>5, <2>1 DEF Park, Due, Placed
<1>6. ASSUME NEW w \in Vehicles, Depart(w)
      PROVE  UNCHANGED <<state[v], lot[v], due[v], origin[v]>> \/ state'[v] = "completed"
  BY <1>6 DEF Depart
<1> QED
  BY <1>1, <1>2, <1>3, <1>4, <1>5, <1>6 DEF Next, Stored

LEMMA PlacedStep == TypeOK /\ Placed /\ [Next]_vars => Placed'
<1> SUFFICES ASSUME TypeOK, Placed, [Next]_vars, NEW v \in Vehicles,
                    state'[v] \in {"assigned", "parked"}
             PROVE  lot'[v] \in Lots /\ due'[v] \in Nat
  BY DEF Placed, Lots
<1> QED BY VehicleStep DEF Placed

LEMMA TypeInvariant == Spec => [](TypeOK /\ Placed)
<1>1. Init => Placed
  BY CampusAssumption DEF Init, Placed, States
<1> QED BY TypeInit, TypeStep, PlacedStep, <1>1, PTL DEF Spec

\* Every variable has its type, whatever the campus and the scenario.
THEOREM TypeCorrect == Spec => []TypeOK
  BY TypeInvariant, PTL

----------------------------------------------------------------------------
(* The schedule. *)

LEMMA ScheduleStep == TypeOK /\ Placed /\ ScheduleNeverMissed /\ [Next]_vars => ScheduleNeverMissed'
<1> SUFFICES ASSUME TypeOK, Placed, ScheduleNeverMissed, [Next]_vars, NEW v \in Vehicles,
                    state'[v] \in {"assigned", "parked"}
             PROVE  due'[v] >= IF phase' = "stored" THEN minute'
                               ELSE IF state'[v] = "assigned" /\ phase' = "departures"
                                    THEN minute' + 1 ELSE minute'
  BY DEF ScheduleNeverMissed
<1>a. minute \in Nat /\ minute' \in Nat /\ due'[v] \in Nat /\ phase \in Phases
  BY TypeStep, PlacedStep DEF TypeOK, Placed
<1>1. CASE due'[v] > minute'
  BY <1>1, <1>a
<1>2. CASE UNCHANGED <<state[v], lot[v], due[v], origin[v]>>
  <2>1. due[v] >= IF phase = "stored" THEN minute
                  ELSE IF state[v] = "assigned" /\ phase = "departures" THEN minute + 1 ELSE minute
    BY <1>2 DEF ScheduleNeverMissed
  <2>2. CASE AllParked
    BY <1>2, <1>a, <2>1, <2>2 DEF AllParked, Due
  <2>3. CASE EndMinute
    BY <1>2, <1>a, <2>1, <2>3 DEF EndMinute, Due
  <2>4. CASE ~AllParked /\ ~EndMinute
    <3>1. minute' = minute /\ (phase' = phase \/ (phase \in {"arrivals", "gates"} /\ phase' \in {"arrivals", "gates", "parking"}))
      BY <2>4 DEF Next, Stored, vars, Arrive, NextEntry, NextGate, OpenGate, Assign, Overflow, Park, Depart
    <3> QED BY <1>2, <1>a, <2>1, <3>1
  <2> QED BY <2>2, <2>3, <2>4
<1> QED BY <1>1, <1>2, VehicleStep

\* No vehicle is ever scheduled for a bucket that has been popped already.
THEOREM ScheduleKept == Spec => []ScheduleNeverMissed
<1>1. Init => ScheduleNeverMissed
  BY CampusAssumption DEF Init, ScheduleNeverMissed, States
<1> QED BY TypeInvariant, ScheduleStep, <1>1, PTL DEF Spec

----------------------------------------------------------------------------
(* The queues. *)

Increasing(s) == \A i, j \in DOMAIN s : i < j => s[i] < s[j]
Elements(s) == {s[i] : i \in DOMAIN s}

LEMMA QueueOfNumbers ==
    ASSUME TypeOK, NEW g \in Gates
    PROVE  queue[g] \in Seq(Nat) /\ Vehicles \subseteq Nat
<1>1. queue[g] \in Seq(Vehicles)
  BY DEF TypeOK
<1>2. Vehicles \subseteq Nat
  BY CampusAssumption DEF Vehicles
<1> QED BY <1>1, <1>2, SeqMonotonic

LEMMA AppendElements ==
    ASSUME NEW s \in Seq(Nat), Increasing(s), NEW v \in Nat, \A w \in Elements(s) : w < v
    PROVE  Increasing(Append(s, v)) /\ Elements(Append(s, v)) = Elements(s) \cup {v}
<1>1. /\ DOMAIN Append(s, v) = 1..(Len(s) + 1) /\ DOMAIN s = 1..Len(s) /\ Len(s) \in Nat
      /\ \A i \in 1..Len(s) : Append(s, v)[i] = s[i]
      /\ Append(s, v)[Len(s) + 1] = v
  OBVIOUS
<1>2. Increasing(Append(s, v))
  <2> SUFFICES ASSUME NEW i \in 1..(Len(s) + 1), NEW j \in 1..(Len(s) + 1), i < j
               PROVE  Append(s, v)[i] < Append(s, v)[j]
    BY <1>1 DEF Increasing
  <2>1. i \in 1..Len(s)
    BY <1>1
  <2>2. CASE j \in 1..Len(s)
    BY <1>1, <2>1, <2>2 DEF Increasing
  <2>3. CASE j = Len(s) + 1
    BY <1>1, <2>1, <2>3 DEF Elements
  <2> QED BY <1>1, <2>2, <2>3
<1>3. Elements(Append(s, v)) = Elements(s) \cup {v}
  <2>1. ASSUME NEW i \in 1..(Len(s) + 1)
        PROVE  Append(s, v)[i] \in Elements(s) \cup {v}
    <3>1. CASE i \in 1..Len(s)
      BY <1>1, <3>1 DEF Elements
    <3>2. CASE i = Len(s) + 1
      BY <1>1, <3>2
    <3> QED BY <1>1, <3>1, <3>2
  <2>2. ASSUME NEW i \in 1..Len(s)
        PROVE  s[i] \in Elements(Append(s, v))
    BY <1>1 DEF Elements
  <2>3. v \in Elements(Append(s, v))
    BY <1>1 DEF Elements
  <2> QED BY <1>1, <2>1, <2>2, <2>3 DEF Elements
<1> QED BY <1>2, <1>3

LEMMA TailElements ==
    ASSUME NEW s \in Seq(Nat), Increasing(s), s # <<>>
    PROVE  /\ Increasing(Tail(s)) /\ Elements(Tail(s)) = Elements(s) \ {Head(s)}
           /\ Head(s) \in Elements(s)
           /\ \A w \in Elements(Tail(s)) : Head(s) < w
<1>1. /\ Len(s) \in Nat /\ Len(s) >= 1 /\ DOMAIN s = 1..Len(s)
      /\ DOMAIN Tail(s) = 1..(Len(s) - 1) /\ Head(s) = s[1]
      /\ \A i \in 1..(Len(s) - 1) : Tail(s)[i] = s[i + 1]
  OBVIOUS
<1>2. \A i \in 1..Len(s) : s[i] \in Nat /\ (i > 1 => s[1] < s[i])
  BY <1>1 DEF Increasing
<1>3. Increasing(Tail(s))
  BY <1>1 DEF Increasing
<1>4. \A w \in Elements(Tail(s)) : w \in Elements(s) /\ Head(s) < w /\ w \in Nat
  BY <1>1, <1>2 DEF Elements
<1>5. \A w \in Elements(s) : w = Head(s) \/ w \in Elements(Tail(s))
  <2> SUFFICES ASSUME NEW i \in 1..Len(s), i # 1
               PROVE  s[i] \in Elements(Tail(s))
    BY <1>1 DEF Elements
  <2>1. i - 1 \in 1..(Len(s) - 1) /\ (i - 1) + 1 = i
    BY <1>1
  <2> QED BY <1>1, <2>1 DEF Elements
<1>6. Head(s) \in Elements(s) /\ Head(s) \in Nat
  BY <1>1, <1>2 DEF Elements
<1> QED BY <1>3, <1>4, <1>5, <1>6

\* The queues, and the vehicles that have not come yet.
Queues ==
    /\ FirstComeFirstServed
    /\ \A v \in Vehicles : (state[v] = NULL <=> v > sequence) /\ (origin[v] = NULL <=> v > sequence)

LEMMA QueueFacts ==
    FirstComeFirstServed <=>
        \A g \in Gates :
            /\ Increasing(queue[g])
            /\ Elements(queue[g]) = {v \in Vehicles : state[v] = "approaching" /\ origin[v] = g}
            /\ \A v \in Vehicles, w \in Elements(queue[g]) :
                  origin[v] = g /\ state[v] # "approaching" => v < w
  BY DEF FirstComeFirstServed, Waiting, Increasing, Elements

\* A vehicle leaves the head of a queue: the others keep their order.
LEMMA DequeueStep ==
    ASSUME TypeOK, Queues, NEW g \in Gates, queue[g] # <<>>, Dequeue(g), NEW st,
           st # "approaching", st # NULL,
           state' = [state EXCEPT ![Head(queue[g])] = st], UNCHANGED <<sequence, origin>>
    PROVE  Queues' /\ state[Head(queue[g])] = "approaching"
<1> DEFINE h == Head(queue[g])
<1>1. /\ h \in Vehicles /\ Vehicles \subseteq Nat /\ queue[g] \in Seq(Nat)
      /\ queue' = [queue EXCEPT ![g] = Tail(@)]
  BY HeadType, QueueOfNumbers DEF Dequeue
<1>2. \A k \in Gates :
            /\ Increasing(queue[k])
            /\ Elements(queue[k]) = {v \in Vehicles : state[v] = "approaching" /\ origin[v] = k}
            /\ \A v \in Vehicles, w \in Elements(queue[k]) :
                  origin[v] = k /\ state[v] # "approaching" => v < w
  BY QueueFacts DEF Queues
<1>3. /\ Increasing(Tail(queue[g])) /\ Elements(Tail(queue[g])) = Elements(queue[g]) \ {h}
      /\ h \in Elements(queue[g]) /\ \A w \in Elements(Tail(queue[g])) : h < w
  BY <1>1, <1>2, TailElements
<1>4. state[h] = "approaching" /\ origin[h] = g /\ state'[h] = st
  BY <1>1, <1>2, <1>3 DEF TypeOK
<1> HIDE DEF h
<1>5. \A v \in Vehicles \ {h} : state'[v] = state[v]
  BY DEF TypeOK, h
<1>6. ASSUME NEW k \in Gates
      PROVE  /\ Increasing(queue'[k])
             /\ Elements(queue'[k]) = {v \in Vehicles : state'[v] = "approaching" /\ origin[v] = k}
             /\ \A v \in Vehicles, w \in Elements(queue'[k]) :
                   origin[v] = k /\ state'[v] # "approaching" => v < w
  <2>1. CASE k = g
    <3>1. queue'[k] = Tail(queue[g])
      BY <1>1, <2>1 DEF TypeOK
    <3> QED BY <1>2, <1>3, <1>4, <1>5, <2>1, <3>1
  <2>2. CASE k # g
    <3>1. queue'[k] = queue[k]
      BY <1>1, <2>2 DEF TypeOK
    <3> QED BY <1>2, <1>4, <1>5, <2>2, <3>1
  <2> QED BY <2>1, <2>2
<1>7. FirstComeFirstServed'
  BY <1>6 DEF FirstComeFirstServed, Waiting, Increasing, Elements
<1>8. \A v \in Vehicles : (state'[v] = NULL <=> v > sequence) /\ (origin[v] = NULL <=> v > sequence)
  <2>1. state[h] # NULL
    BY <1>4, CampusAssumption DEF States
  <2> QED BY <1>4, <1>5, <2>1 DEF Queues
<1> QED BY <1>4, <1>7, <1>8 DEF Queues, h

LEMMA ArriveStep == TypeOK /\ Queues /\ Arrive => Queues'
<1> SUFFICES ASSUME TypeOK, Queues, Arrive PROVE Queues'
  OBVIOUS
<1> DEFINE u == sequence + 1
           g == scenario.profile[cursor].gate
<1>1. /\ u \in Vehicles /\ Vehicles \subseteq Nat /\ sequence \in Nat /\ g \in Gates
      /\ sequence' = u /\ queue' = [queue EXCEPT ![g] = Append(@, u)]
      /\ state' = [state EXCEPT ![u] = "approaching"] /\ origin' = [origin EXCEPT ![u] = g]
  <2>1. scenario.profile \in Seq([gate : Gates, rate : Nat, from : Nat, to : Nat])
    BY ScenariosAssumption DEF TypeOK
  <2>2. cursor \in DOMAIN scenario.profile
    BY <2>1 DEF Arrive, TypeOK
  <2>3. g \in Gates
    BY <2>2, ScenariosAssumption DEF TypeOK
  <2> QED BY <2>3, CampusAssumption DEF Arrive, TypeOK, Vehicles
<1>2. \A k \in Gates :
            /\ Increasing(queue[k]) /\ queue[k] \in Seq(Nat)
            /\ Elements(queue[k]) = {v \in Vehicles : state[v] = "approaching" /\ origin[v] = k}
            /\ \A v \in Vehicles, w \in Elements(queue[k]) :
                  origin[v] = k /\ state[v] # "approaching" => v < w
  BY QueueFacts, QueueOfNumbers DEF Queues
<1> HIDE DEF u, g
<1>3. /\ \A v \in Vehicles \ {u} : state'[v] = state[v] /\ origin'[v] = origin[v]
      /\ state'[u] = "approaching" /\ origin'[u] = g
  BY <1>1 DEF TypeOK
<1>4. \A v \in Vehicles : v < u <=> v <= sequence
  BY <1>1 DEF u
<1>5. ASSUME NEW k \in Gates, NEW w \in Elements(queue[k])
      PROVE  w < u
  <2>1. w \in Vehicles /\ state[w] = "approaching"
    BY <1>2
  <2>2. state[w] # NULL
    BY <2>1, CampusAssumption DEF States
  <2> QED BY <1>1, <1>4, <2>1, <2>2 DEF Queues
<1>6. ASSUME NEW v \in Vehicles, origin[v] \in Gates
      PROVE  v < u
  <2>1. origin[v] # NULL
    BY <1>6, CampusAssumption DEF Gates
  <2> QED BY <1>1, <1>4, <2>1 DEF Queues
<1>7. ASSUME NEW k \in Gates
      PROVE  /\ Increasing(queue'[k])
             /\ Elements(queue'[k]) = {v \in Vehicles : state'[v] = "approaching" /\ origin'[v] = k}
             /\ \A v \in Vehicles, w \in Elements(queue'[k]) :
                   origin'[v] = k /\ state'[v] # "approaching" => v < w
  <2>1. CASE k = g
    <3>1. queue'[k] = Append(queue[k], u)
      BY <1>1, <2>1 DEF TypeOK
    <3>2. Increasing(queue'[k]) /\ Elements(queue'[k]) = Elements(queue[k]) \cup {u}
      BY <1>1, <1>2, <1>5, <3>1, AppendElements
    <3> QED BY <1>1, <1>2, <1>3, <1>6, <2>1, <3>2
  <2>2. CASE k # g
    <3>1. queue'[k] = queue[k]
      BY <1>1, <2>2 DEF TypeOK
    <3>2. u \notin Elements(queue[k])
      <4>1. u \in Nat
        BY <1>1
      <4>2. ~(u < u)
        BY <4>1
      <4> QED BY <1>5, <4>2
    <3> QED BY <1>1, <1>2, <1>3, <2>2, <3>1, <3>2
  <2> QED BY <2>1, <2>2
<1>8. FirstComeFirstServed'
  BY <1>7 DEF FirstComeFirstServed, Waiting, Increasing, Elements
<1>9. \A v \in Vehicles : (state'[v] = NULL <=> v > sequence') /\ (origin'[v] = NULL <=> v > sequence')
  <2>1. "approaching" # NULL /\ g # NULL
    BY <1>1, CampusAssumption DEF States, Gates
  <2>2. \A v \in Vehicles \ {u} : v > sequence <=> v > u
    BY <1>1 DEF u
  <2> QED BY <1>1, <1>3, <2>1, <2>2 DEF Queues
<1> QED BY <1>8, <1>9 DEF Queues

LEMMA QueuesStep == TypeOK /\ Placed /\ Queues /\ [Next]_vars => Queues'
<1> SUFFICES ASSUME TypeOK, Placed, Queues, [Next]_vars PROVE Queues'
  OBVIOUS
<1>1. CASE Arrive
  BY <1>1, ArriveStep
<1>2. ASSUME NEW g \in Gates, NEW jitter \in Apparent(g), NEW l \in Lots, Assign(g, l, jitter)
      PROVE  Queues'
  <2>1. "assigned" # NULL
    BY CampusAssumption DEF States
  <2> QED BY <1>2, <2>1, DequeueStep DEF Assign, Serving
<1>3. ASSUME NEW g \in Gates, NEW jitter \in Apparent(g), Overflow(g, jitter)
      PROVE  Queues'
  <2>1. "completed" # NULL
    BY CampusAssumption DEF States
  <2> QED BY <1>3, <2>1, DequeueStep DEF Overflow, Serving
<1>4. ASSUME UNCHANGED <<queue, sequence, origin>>,
             \A v \in Vehicles : (state'[v] = "approaching" <=> state[v] = "approaching")
                              /\ (state'[v] = NULL <=> state[v] = NULL)
      PROVE  Queues'
  BY <1>4 DEF Queues, FirstComeFirstServed, Waiting
<1>5. CASE NextEntry \/ NextGate \/ AllParked \/ EndMinute \/ UNCHANGED vars
  BY <1>4, <1>5 DEF NextEntry, NextGate, AllParked, EndMinute, vars
<1>6. ASSUME NEW w \in Vehicles, NEW d \in ParkMinutes, Park(w, d)
      PROVE  Queues'
  <2>1. \A v \in Vehicles : state'[v] = state[v] \/ (state[v] = "assigned" /\ state'[v] = "parked")
    BY <1>6 DEF Park, Due, TypeOK
  <2> QED BY <1>4, <1>6, <2>1, CampusAssumption DEF Park, States
<1>7. ASSUME NEW w \in Vehicles, Depart(w)
      PROVE  Queues'
  <2>1. \A v \in Vehicles : state'[v] = state[v] \/ (state[v] = "parked" /\ state'[v] = "completed")
    BY <1>7 DEF Depart, Due, TypeOK
  <2> QED BY <1>4, <1>7, <2>1, CampusAssumption DEF Depart, States
<1> QED
  BY <1>1, <1>2, <1>3, <1>5, <1>6, <1>7 DEF Next, Stored

LEMMA QueuesInvariant == Spec => []Queues
<1>1. Init => Queues
  <2> SUFFICES ASSUME Init PROVE Queues
    OBVIOUS
  <2>1. "approaching" # NULL /\ \A v \in Vehicles : v \in Nat /\ v > 0
    BY CampusAssumption DEF States, Vehicles
  <2>2. \A g \in Gates : queue[g] = <<>> /\ DOMAIN queue[g] = {}
    BY DEF Init
  <2>3. \A v \in Vehicles : state[v] = NULL /\ origin[v] = NULL /\ sequence = 0
    BY DEF Init
  <2>4. FirstComeFirstServed
    BY <2>1, <2>2, <2>3 DEF FirstComeFirstServed, Waiting
  <2> QED BY <2>1, <2>3, <2>4 DEF Queues
<1> QED BY TypeInvariant, QueuesStep, <1>1, PTL DEF Spec

\* Every gate serves its vehicles in the order they came, and none of them
\* leaves its queue but by being served.
THEOREM QueuesInOrder == Spec => []FirstComeFirstServed
<1>1. Queues => FirstComeFirstServed
  BY DEF Queues
<1> QED BY QueuesInvariant, <1>1, PTL

----------------------------------------------------------------------------
(* The places of a lot. *)

LEMMA HoldersFinite ==
    \A l : /\ IsFiniteSet(Holders(l)) /\ Cardinality(Holders(l)) \in Nat
           /\ Cardinality(Holders(l)') \in Nat
<1>1. IsFiniteSet(Vehicles)
  BY CampusAssumption, FS_Interval DEF Vehicles
<1>2. \A S \in SUBSET Vehicles : IsFiniteSet(S) /\ Cardinality(S) \in Nat
  BY <1>1, FS_Subset, FS_CardinalityType
<1> QED BY <1>2 DEF Holders

\* Which vehicle a step gives a place, or takes one from.
LEMMA HoldersStep ==
    ASSUME TypeOK, Placed, Queues, [Next]_vars
    PROVE  \/ reserved' = reserved /\ shown' = shown /\ \A l \in Lots : Holders(l)' = Holders(l)
           \/ \E k \in Lots, v \in Vehicles :
                 /\ v \notin Holders(k) /\ Available(k) > 0
                 /\ reserved' = [reserved EXCEPT ![k] = @ + 1]
                 /\ shown' = Recorded(k, reserved[k] + 1)
                 /\ \A l \in Lots : Holders(l)' = IF l = k THEN Holders(l) \cup {v} ELSE Holders(l)
           \/ \E k \in Lots, v \in Vehicles :
                 /\ v \in Holders(k)
                 /\ reserved' = [reserved EXCEPT ![k] = @ - 1]
                 /\ shown' = Recorded(k, reserved[k] - 1)
                 /\ \A l \in Lots : Holders(l)' = IF l = k THEN Holders(l) \ {v} ELSE Holders(l)
<1> DEFINE Goal ==
        \/ reserved' = reserved /\ shown' = shown /\ \A l \in Lots : Holders(l)' = Holders(l)
        \/ \E k \in Lots, v \in Vehicles :
              /\ v \notin Holders(k) /\ Available(k) > 0
              /\ reserved' = [reserved EXCEPT ![k] = @ + 1]
              /\ shown' = Recorded(k, reserved[k] + 1)
              /\ \A l \in Lots : Holders(l)' = IF l = k THEN Holders(l) \cup {v} ELSE Holders(l)
        \/ \E k \in Lots, v \in Vehicles :
              /\ v \in Holders(k)
              /\ reserved' = [reserved EXCEPT ![k] = @ - 1]
              /\ shown' = Recorded(k, reserved[k] - 1)
              /\ \A l \in Lots : Holders(l)' = IF l = k THEN Holders(l) \ {v} ELSE Holders(l)
<1>0. /\ NULL \notin States /\ "approaching" \in States
      /\ \A v \in Vehicles : v \in Nat
  BY CampusAssumption DEF States, Vehicles
<1>1. ASSUME UNCHANGED <<reserved, shown, lot>>,
             \A v \in Vehicles : state'[v] \in {"assigned", "parked"} <=> state[v] \in {"assigned", "parked"}
      PROVE  Goal
  BY <1>1 DEF Holders
<1>2. CASE Arrive
  <2>1. PICK u \in Vehicles : state[u] = NULL /\ state' = [state EXCEPT ![u] = "approaching"]
    <3>1. sequence + 1 \in Vehicles /\ sequence + 1 > sequence
      BY <1>2, CampusAssumption DEF Arrive, TypeOK, Vehicles
    <3> QED BY <1>2, <3>1 DEF Arrive, Queues
  <2> QED BY <1>0, <1>1, <1>2, <2>1 DEF Arrive, TypeOK, States
<1>3. CASE NextEntry \/ NextGate \/ AllParked \/ EndMinute \/ UNCHANGED vars
  BY <1>1, <1>3 DEF NextEntry, NextGate, AllParked, EndMinute, vars
<1>4. ASSUME NEW g \in Gates, NEW jitter \in Apparent(g), NEW k \in Lots, Assign(g, k, jitter)
      PROVE  Goal
  <2> DEFINE h == Head(queue[g])
  <2>1. "assigned" # NULL
    BY CampusAssumption DEF States
  <2>2. state[h] = "approaching" /\ h \in Vehicles
    BY <1>4, <2>1, DequeueStep, HeadType DEF Assign, Serving
  <2>3. /\ state' = [state EXCEPT ![h] = "assigned"] /\ lot' = [lot EXCEPT ![h] = k]
        /\ Available(k) > 0 /\ reserved' = [reserved EXCEPT ![k] = @ + 1]
        /\ shown' = Recorded(k, reserved[k] + 1)
    BY <1>4 DEF Assign
  <2> HIDE DEF h
  <2>4. h \notin Holders(k)
    BY <2>2 DEF Holders
  <2>5. ASSUME NEW l \in Lots
        PROVE  Holders(l)' = IF l = k THEN Holders(l) \cup {h} ELSE Holders(l)
    BY <2>2, <2>3 DEF Holders, TypeOK
  <2> QED BY <2>2, <2>3, <2>4, <2>5
<1>5. ASSUME NEW g \in Gates, NEW jitter \in Apparent(g), Overflow(g, jitter)
      PROVE  Goal
  <2> DEFINE h == Head(queue[g])
  <2>1. "completed" # NULL
    BY CampusAssumption DEF States
  <2>2. state[h] = "approaching" /\ h \in Vehicles
    BY <1>5, <2>1, DequeueStep, HeadType DEF Overflow, Serving
  <2>3. state' = [state EXCEPT ![h] = "completed"] /\ UNCHANGED <<reserved, shown, lot>>
    BY <1>5 DEF Overflow
  <2> HIDE DEF h
  <2> QED BY <1>1, <2>2, <2>3 DEF TypeOK
<1>6. ASSUME NEW w \in Vehicles, NEW d \in ParkMinutes, Park(w, d)
      PROVE  Goal
  BY <1>1, <1>6 DEF Park, Due, TypeOK
<1>7. ASSUME NEW w \in Vehicles, Depart(w)
      PROVE  Goal
  <2> DEFINE k == lot[w]
  <2>1. k \in Lots /\ w \in Holders(k)
    BY <1>7 DEF Depart, Due, Placed, Holders
  <2>2. /\ state' = [state EXCEPT ![w] = "completed"] /\ lot' = lot
        /\ reserved' = [reserved EXCEPT ![k] = @ - 1] /\ shown' = Recorded(k, reserved[k] - 1)
    BY <1>7 DEF Depart
  <2>3. ASSUME NEW l \in Lots
        PROVE  Holders(l)' = IF l = k THEN Holders(l) \ {w} ELSE Holders(l)
    BY <2>1, <2>2 DEF Holders, TypeOK
  <2> HIDE DEF k
  <2> QED BY <2>1, <2>2, <2>3
<1>8. CASE \E g \in Gates : \E jitter \in Apparent(g) :
             Overflow(g, jitter) \/ \E l \in Lots : Assign(g, l, jitter)
  BY <1>4, <1>5, <1>8
<1>9. CASE \E v \in Vehicles : Depart(v) \/ \E d \in ParkMinutes : Park(v, d)
  BY <1>6, <1>7, <1>9
<1> QED BY <1>2, <1>3, <1>8, <1>9 DEF Next, Stored

LEMMA UsableCapacityType ==
    ASSUME TypeOK, NEW l \in Lots
    PROVE  UsableCapacity(l) \in Nat
  BY CampusAssumption, ScenariosAssumption DEF TypeOK, UsableCapacity, Lots

LEMMA CountsStep == TypeOK /\ Placed /\ Queues /\ CountsHolders /\ [Next]_vars => CountsHolders'
<1> SUFFICES ASSUME TypeOK, Placed, Queues, CountsHolders, [Next]_vars, NEW l \in Lots
             PROVE  reserved'[l] = Cardinality(Holders(l)')
  BY DEF CountsHolders, Lots
<1>1. reserved[l] = Cardinality(Holders(l)) /\ IsFiniteSet(Holders(l))
  BY HoldersFinite DEF CountsHolders
<1>2. CASE reserved' = reserved /\ \A m \in Lots : Holders(m)' = Holders(m)
  BY <1>1, <1>2
<1>3. ASSUME NEW k \in Lots, NEW v \in Vehicles, v \notin Holders(k),
             reserved' = [reserved EXCEPT ![k] = @ + 1],
             \A m \in Lots : Holders(m)' = IF m = k THEN Holders(m) \cup {v} ELSE Holders(m)
      PROVE  reserved'[l] = Cardinality(Holders(l)')
  <2>1. CASE l = k
    <3>1. Cardinality(Holders(l) \cup {v}) = Cardinality(Holders(l)) + 1
      BY <1>1, <1>3, <2>1, FS_AddElement
    <3> QED BY <1>1, <1>3, <2>1, <3>1 DEF TypeOK
  <2>2. CASE l # k
    BY <1>1, <1>3, <2>2 DEF TypeOK
  <2> QED BY <2>1, <2>2
<1>4. ASSUME NEW k \in Lots, NEW v \in Vehicles, v \in Holders(k),
             reserved' = [reserved EXCEPT ![k] = @ - 1],
             \A m \in Lots : Holders(m)' = IF m = k THEN Holders(m) \ {v} ELSE Holders(m)
      PROVE  reserved'[l] = Cardinality(Holders(l)')
  <2>1. CASE l = k
    <3>1. Cardinality(Holders(l) \ {v}) = Cardinality(Holders(l)) - 1
      BY <1>1, <1>4, <2>1, FS_RemoveElement
    <3> QED BY <1>1, <1>4, <2>1, <3>1 DEF TypeOK
  <2>2. CASE l # k
    BY <1>1, <1>4, <2>2 DEF TypeOK
  <2> QED BY <2>1, <2>2
<1> QED BY <1>2, <1>3, <1>4, HoldersStep

LEMMA CapacityStep ==
    TypeOK /\ Placed /\ Queues /\ CountsHolders /\ CapacityNeverExceeded /\ [Next]_vars
        => CapacityNeverExceeded'
<1> SUFFICES ASSUME TypeOK, Placed, Queues, CountsHolders, CapacityNeverExceeded, [Next]_vars,
                    NEW l \in Lots
             PROVE  0 <= reserved'[l] /\ reserved'[l] <= UsableCapacity(l)'
  BY DEF CapacityNeverExceeded, Lots
<1>1. UsableCapacity(l)' = UsableCapacity(l) /\ UsableCapacity(l) \in Nat
  <2>1. scenario' = scenario
    BY DEF Next, Stored, vars, Arrive, NextEntry, Assign, Overflow, NextGate, Park, AllParked,
           Depart, EndMinute
  <2> QED BY <2>1, UsableCapacityType DEF UsableCapacity
<1>2. 0 <= reserved'[l] /\ reserved'[l] \in Nat
  <2>1. CountsHolders'
    BY CountsStep
  <2>2. Cardinality(Holders(l)') \in Nat
    BY HoldersFinite
  <2> QED BY <2>1, <2>2 DEF CountsHolders, Lots
<1>3. reserved[l] \in Int /\ reserved[l] <= UsableCapacity(l)
  BY DEF TypeOK, CapacityNeverExceeded
<1>4. reserved'[l] <= UsableCapacity(l)
  <2>1. CASE reserved' = reserved
    BY <1>3, <2>1
  <2>2. ASSUME NEW k \in Lots, Available(k) > 0, reserved' = [reserved EXCEPT ![k] = @ + 1]
        PROVE  reserved'[l] <= UsableCapacity(l)
    <3>1. CASE l = k
      BY <1>1, <1>3, <2>2, <3>1 DEF TypeOK, Available
    <3>2. CASE l # k
      BY <1>3, <2>2, <3>2 DEF TypeOK
    <3> QED BY <3>1, <3>2
  <2>3. ASSUME NEW k \in Lots, reserved' = [reserved EXCEPT ![k] = @ - 1]
        PROVE  reserved'[l] <= UsableCapacity(l)
    BY <1>1, <1>3, <2>3 DEF TypeOK
  <2> QED BY <2>1, <2>2, <2>3, HoldersStep
<1> QED BY <1>1, <1>2, <1>4

LEMMA CountsInvariant == Spec => []CountsHolders
<1>1. Init => CountsHolders
  <2> SUFFICES ASSUME Init, NEW l \in Lots PROVE reserved[l] = Cardinality(Holders(l))
    BY DEF CountsHolders
  <2>1. Holders(l) = {}
    BY CampusAssumption DEF Init, Holders, States
  <2> QED BY <2>1, FS_EmptySet DEF Init
<1> QED BY TypeInvariant, QueuesInvariant, CountsStep, <1>1, PTL DEF Spec

\* A lot's counter is the number of vehicles that hold a place in it.
THEOREM BookkeepingExact == Spec => []CountsHolders
  BY CountsInvariant

\* No run ever puts more vehicles into a lot than its capacity in the scenario.
THEOREM CapacityRespected == Spec => []CapacityNeverExceeded
<1>1. Init => CapacityNeverExceeded
  <2> SUFFICES ASSUME Init, NEW l \in Lots
               PROVE  0 <= reserved[l] /\ reserved[l] <= UsableCapacity(l)
    BY DEF CapacityNeverExceeded
  <2>1. UsableCapacity(l) \in Nat /\ reserved[l] = 0
    BY TypeInit, UsableCapacityType DEF Init
  <2> QED BY <2>1
<1> QED BY TypeInvariant, QueuesInvariant, CountsInvariant, CapacityStep, <1>1, PTL DEF Spec

LEMMA TwinStep == TypeOK /\ Placed /\ Queues /\ TwinFollows /\ [Next]_vars => TwinFollows'
<1> SUFFICES ASSUME TypeOK, Placed, Queues, TwinFollows, [Next]_vars, NEW l \in Lots,
                    shown'[l] # NULL
             PROVE  shown'[l] = IF reserved'[l] <= Total[l] THEN reserved'[l] ELSE Total[l]
  BY DEF TwinFollows, Lots
<1>1. /\ Total[l] \in Nat /\ reserved[l] \in Int
      /\ shown[l] # NULL => shown[l] = IF reserved[l] <= Total[l] THEN reserved[l] ELSE Total[l]
  BY CampusAssumption DEF TypeOK, TwinFollows, Lots
<1>2. CASE reserved' = reserved /\ shown' = shown
  BY <1>1, <1>2
<1>3. ASSUME NEW k \in Lots, NEW n \in {reserved[k] - 1, reserved[k] + 1},
             reserved' = [reserved EXCEPT ![k] = n], shown' = Recorded(k, n)
      PROVE  shown'[l] = IF reserved'[l] <= Total[l] THEN reserved'[l] ELSE Total[l]
  <2>1. CASE l # k
    BY <1>1, <1>3, <2>1 DEF TypeOK, Recorded
  <2>2. CASE l = k /\ n <= Total[l]
    BY <1>1, <1>3, <2>2 DEF TypeOK, Recorded
  <2>3. CASE l = k /\ ~(n <= Total[l])
    <3>1. shown' = shown /\ reserved'[l] = n
      BY <1>3, <2>3 DEF TypeOK, Recorded
    <3>2. (n = reserved[l] - 1 \/ n = reserved[l] + 1) /\ n > Total[l]
      BY <1>1, <1>3, <2>3
    <3>3. reserved[l] >= Total[l]
      BY <1>1, <3>2
    <3> QED BY <1>1, <2>3, <3>1, <3>3
  <2> QED BY <2>1, <2>2, <2>3
<1> QED BY <1>2, <1>3, HoldersStep

\* The twin never contradicts the run: what it shows of a lot is the run's
\* occupancy, capped where the twin refuses more.
THEOREM TwinConsistent == Spec => []TwinFollows
<1>1. Init => TwinFollows
  BY DEF Init, TwinFollows
<1> QED BY TypeInvariant, QueuesInvariant, TwinStep, <1>1, PTL DEF Spec

----------------------------------------------------------------------------
(* The vehicles turned away. *)

TurnedAway == {v \in Vehicles : state[v] = "completed" /\ lot[v] = NULL}

\* The overflow count, and that no vehicle has a lot before it is assigned one.
Accounted ==
    /\ overflow = Cardinality(TurnedAway)
    /\ \A v \in Vehicles : state[v] \in {"approaching", NULL} => lot[v] = NULL

LEMMA TurnedAwayFinite == IsFiniteSet(TurnedAway)
<1>1. IsFiniteSet(Vehicles)
  BY CampusAssumption, FS_Interval DEF Vehicles
<1> QED BY <1>1, FS_Subset DEF TurnedAway

LEMMA AccountedStep == TypeOK /\ Placed /\ Queues /\ Accounted /\ [Next]_vars => Accounted'
<1> SUFFICES ASSUME TypeOK, Placed, Queues, Accounted, [Next]_vars PROVE Accounted'
  OBVIOUS
<1>0. /\ "assigned" # NULL /\ "completed" # NULL /\ "parked" # NULL
      /\ \A l \in Lots : l # NULL
  BY CampusAssumption DEF States, Lots
<1>1. ASSUME UNCHANGED <<overflow, lot>>,
             \A v \in Vehicles :
                 \/ state'[v] = state[v]
                 \/ state[v] = NULL /\ state'[v] = "approaching"
                 \/ lot[v] # NULL /\ state'[v] \in {"parked", "completed"}
      PROVE  Accounted'
  <2>1. \A v \in Vehicles : state'[v] \in {"approaching", NULL} => lot[v] = NULL
    BY <1>0, <1>1 DEF Accounted
  <2>2. \A v \in Vehicles : lot[v] = NULL => (state'[v] = "completed" <=> state[v] = "completed")
    BY <1>0, <1>1
  <2>3. TurnedAway' = TurnedAway
    BY <1>1, <2>2 DEF TurnedAway
  <2> QED BY <1>1, <2>1, <2>3 DEF Accounted
<1>2. CASE Arrive
  <2>1. PICK u \in Vehicles : state[u] = NULL /\ state' = [state EXCEPT ![u] = "approaching"]
    <3>1. sequence + 1 \in Vehicles /\ sequence + 1 > sequence
      BY <1>2, CampusAssumption DEF Arrive, TypeOK, Vehicles
    <3> QED BY <1>2, <3>1 DEF Arrive, Queues
  <2> QED BY <1>1, <1>2, <2>1 DEF Arrive, TypeOK
<1>3. CASE NextEntry \/ NextGate \/ AllParked \/ EndMinute \/ UNCHANGED vars
  BY <1>1, <1>3 DEF NextEntry, NextGate, AllParked, EndMinute, vars
<1>4. ASSUME NEW g \in Gates, NEW jitter \in Apparent(g), NEW k \in Lots, Assign(g, k, jitter)
      PROVE  Accounted'
  <2> DEFINE h == Head(queue[g])
  <2>1. state[h] = "approaching" /\ h \in Vehicles
    BY <1>0, <1>4, DequeueStep, HeadType DEF Assign, Serving
  <2>2. /\ state' = [state EXCEPT ![h] = "assigned"] /\ lot' = [lot EXCEPT ![h] = k]
        /\ overflow' = overflow
    BY <1>4 DEF Assign
  <2> HIDE DEF h
  <2>3. TurnedAway' = TurnedAway
    BY <1>0, <2>1, <2>2 DEF TurnedAway, TypeOK
  <2> QED BY <1>0, <2>1, <2>2, <2>3 DEF Accounted, TypeOK
<1>5. ASSUME NEW g \in Gates, NEW jitter \in Apparent(g), Overflow(g, jitter)
      PROVE  Accounted'
  <2> DEFINE h == Head(queue[g])
  <2>1. state[h] = "approaching" /\ h \in Vehicles
    BY <1>0, <1>5, DequeueStep, HeadType DEF Overflow, Serving
  <2>2. state' = [state EXCEPT ![h] = "completed"] /\ lot' = lot /\ overflow' = overflow + 1
    BY <1>5 DEF Overflow
  <2> HIDE DEF h
  <2>3. TurnedAway' = TurnedAway \cup {h} /\ h \notin TurnedAway
    BY <2>1, <2>2 DEF TurnedAway, TypeOK, Accounted
  <2>4. Cardinality(TurnedAway') = Cardinality(TurnedAway) + 1
    BY <2>3, TurnedAwayFinite, FS_AddElement
  <2> QED BY <1>0, <2>1, <2>2, <2>4 DEF Accounted, TypeOK
<1>6. ASSUME NEW w \in Vehicles, NEW d \in ParkMinutes, Park(w, d)
      PROVE  Accounted'
  <2>1. lot[w] # NULL
    BY <1>0, <1>6 DEF Park, Due, Placed
  <2> QED BY <1>1, <1>6, <2>1 DEF Park, TypeOK
<1>7. ASSUME NEW w \in Vehicles, Depart(w)
      PROVE  Accounted'
  <2>1. lot[w] # NULL
    BY <1>0, <1>7 DEF Depart, Due, Placed
  <2> QED BY <1>1, <1>7, <2>1 DEF Depart, TypeOK
<1> QED
  BY <1>2, <1>3, <1>4, <1>5, <1>6, <1>7 DEF Next, Stored

\* Every vehicle is in one place, and the overflow count is the number of the
\* vehicles that were turned away.
THEOREM NoVehicleLost == Spec => []NobodyLost
<1>1. Init => Accounted
  <2> SUFFICES ASSUME Init PROVE Accounted
    OBVIOUS
  <2>1. TurnedAway = {}
    BY CampusAssumption DEF Init, TurnedAway, States
  <2> QED BY <2>1, FS_EmptySet DEF Init, Accounted
<1>2. Queues /\ Accounted => NobodyLost
  BY DEF Queues, Accounted, NobodyLost, TurnedAway
<1> QED BY TypeInvariant, QueuesInvariant, AccountedStep, <1>1, <1>2, PTL DEF Spec

----------------------------------------------------------------------------
(* What a strategy that sees the true room makes of it. *)

LEMMA OverflowFull ==
    ASSUME TypeOK, NEW g \in Gates, NEW jitter \in Apparent(g), Overflow(g, jitter),
           scenario.noise = {0}, NEW l \in Open(g)
    PROVE  cursor = g /\ Available(l) <= 0
<1>1. \A m \in Open(g) : Available(m) \in Int /\ jitter[m] = 0
  <2>1. \A m \in Open(g) : m \in Lots
    BY CampusAssumption DEF Open
  <2> QED BY <2>1, UsableCapacityType DEF TypeOK, Available, Apparent
<1>2. /\ DOMAIN Seen(jitter) = Open(g)
      /\ \A m \in Open(g) : Seen(jitter)[m] = Available(m)
  BY <1>1 DEF Seen, Apparent
<1>3. CASE Viable(Seen(jitter)) = {}
  BY <1>1, <1>2, <1>3 DEF Viable, Overflow, Serving
<1>4. ASSUME NEW m \in Choices(scenario.strategy, Travel[g], Seen(jitter)), Available(m) <= 0
      PROVE  FALSE
  BY <1>1, <1>2, <1>4, ChoicesViable
<1> QED BY <1>3, <1>4 DEF Overflow, Serving

\* With true readings nobody is turned away while a reachable open lot has room.
THEOREM NeverTurnedAwayWithRoom == Spec => OverflowOnlyWhenFull
<1>1. TypeOK /\ [Next]_vars =>
          [overflow' # overflow /\ scenario.noise = {0} =>
              \A l \in Open(cursor) : Available(l) <= 0]_vars
  <2> SUFFICES ASSUME TypeOK, Next, overflow' # overflow, scenario.noise = {0},
                      NEW l \in Open(cursor)
               PROVE  Available(l) <= 0
    OBVIOUS
  <2>1. PICK g \in Gates : \E jitter \in Apparent(g) : Overflow(g, jitter)
    BY DEF Next, Stored, vars, Arrive, NextEntry, Assign, NextGate, Park, AllParked, Depart, EndMinute
  <2>2. cursor = g
    BY <2>1 DEF Overflow, Serving
  <2> QED BY <2>1, <2>2, OverflowFull
<1> QED BY TypeInvariant, <1>1, PTL DEF Spec, OverflowOnlyWhenFull
============================================================================
