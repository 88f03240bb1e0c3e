------------------------ MODULE Optimization_proofs ------------------------
(***************************************************************************)
(* Proofs about recommendations, for any campus, any rows other sessions   *)
(* may write, and any models.                                              *)
(***************************************************************************)
EXTENDS OptimizationProperties, Sums_proofs, TLAPS

----------------------------------------------------------------------------
(* Operators.                                                               *)

LEMMA PositionIn == \A l \in Lots : Position(l) \in DOMAIN LotOrder /\ LotOrder[Position(l)] = l
  BY DEF Lots, Range, Position

LEMMA FirstIn ==
    ASSUME NEW S, S \subseteq Lots, S # {}
    PROVE  First(S) \in S
<1> DEFINE T == {Position(l) : l \in S}
<1>1. DOMAIN LotOrder \subseteq Nat
  BY CampusAssumption
<1>2. T \subseteq Nat /\ T # {}
  BY <1>1, PositionIn
<1>3. PICK n \in T : \A m \in T : n <= m
  <2> DEFINE Less == OpToRel(<, Nat)
  <2>1. IsWellFoundedOn(Less, Nat)
    BY NatLessThanWellFounded
  <2>2. \A m, n \in Nat : <<m, n>> \notin Less => n <= m
    BY DEF OpToRel
  <2> HIDE DEF Less, T
  <2>3. \E n \in T : \A m \in T : <<m, n>> \notin Less
    BY <1>2, <2>1, WFMin
  <2> QED BY <1>2, <2>2, <2>3
<1>4. PICK l \in S : Position(l) = n
  BY <1>3
<1>5. l \in Firsts(S)
  BY <1>3, <1>4 DEF Firsts
<1> QED BY <1>5 DEF First

\* The fewer closures, the more ways.
LEMMA MoreWays ==
    ASSUME NEW mode, NEW N1, NEW N2, NEW R1, NEW R2, N1 \subseteq N2, R1 \subseteq R2,
           NEW a, NEW B
    PROVE  PathsTo(Graph(mode, N2, R2), a, B) \subseteq PathsTo(Graph(mode, N1, R1), a, B)
<1>1. Usable(mode, N2, R2) \subseteq Usable(mode, N1, R1)
  BY DEF Usable
<1>2. DOMAIN Graph(mode, N2, R2) \subseteq DOMAIN Graph(mode, N1, R1)
  BY <1>1 DEF Graph, GraphOf
<1> QED BY <1>2 DEF PathsTo

\* A route that is answered is a way.
LEMMA RoutesAreWays ==
    ASSUME NEW a, NEW b, NEW N, NEW R, a # b, Route(a, b, "drive", N, R) # {}
    PROVE  PathsTo(Graph("drive", N, R), a, {b}) # {}
  BY DEF Route, LegsTo, Shortest

LEMMA NearestIsAWay ==
    ASSUME NEW a, NEW B, NEW N, NEW R, NEW leg \in RouteToNearest(a, B, "drive", N, R)
    PROVE  /\ Last(leg.path) \in B
           /\ PathsTo(Graph("drive", N, R), a, {Last(leg.path)}) # {}
<1>1. PICK p \in PathsTo(Graph("drive", N, R), a, B) : leg = Leg(Graph("drive", N, R), p)
  BY DEF RouteToNearest, LegsTo, Shortest
<1>2. leg.path = p
  BY <1>1 DEF Leg
<1>3. p[Len(p)] \in B
  BY <1>1 DEF PathsTo
<1>4. p \in PathsTo(Graph("drive", N, R), a, {p[Len(p)]})
  BY <1>1 DEF PathsTo
<1> QED BY <1>2, <1>3, <1>4 DEF Last

----------------------------------------------------------------------------
(* What each step leaves alone.                                             *)

Others ==
    \/ \E l \in Lots : \E row \in LotRows[l] : UpdateLot(l, row)
    \/ \E g \in Gates : \E row \in GateRows[g] : UpdateGate(g, row)
    \/ \E r \in Roads : \E status \in RoadStatuses[r] : UpdateRoad(r, status)

Begin == (\E g \in Gates, k \in Kinds : Start(k, g)) \/ (\E l \in Lots : StartRisk(l))

Answering ==
    \/ ReadGate \/ CheckLot \/ ReadClosedNodes \/ RouteToLot \/ Choose
    \/ TimeOut \/ AssessClosed \/ Predict \/ SyncForecast \/ Resolve \/ Score \/ ChoosePredicted
    \/ ReadAvailable \/ RouteToNearestLot

LEMMA Steps == Next <=> Begin \/ Answering \/ Close \/ Restart \/ Others \/ \E l \in Lots : Train(l)
  BY DEF Next, Begin, Answering, Serve, Others

LEMMA OthersStep == Others => UNCHANGED <<request, server, trained, requests>> /\ Noted
  BY DEF Others, UpdateLot, UpdateGate, UpdateRoad, Changed

LEMMA AnsweringStep == Answering => UNCHANGED <<twin, since, kind, gate, trained, updates, requests>>
  BY DEF Answering, ReadGate, CheckLot, ReadClosedNodes, RouteToLot, Choose, TimeOut, AssessClosed, Predict,
         SyncForecast, Resolve, Score, ChoosePredicted, ReadAvailable, RouteToNearestLot

LEMMA EndStep ==
    Close \/ Restart =>
        /\ UNCHANGED <<twin, updates, requests>>
        /\ pc' = "idle" /\ kind' = "optimizer" /\ gate' = Nothing
        /\ gateSeen' = Nothing /\ lotSeen' = Nothing /\ closedSeen' = {}
        /\ left' = {} /\ evaluations' = NoEvaluations
        /\ prediction' = Unavailable /\ average' = Nothing
        /\ risk' = Nothing /\ answer' = NoAnswer
  BY DEF Close, Restart

\* Steps that concern no request.
LEMMA IdleStep == UNCHANGED vars \/ (\E l \in Lots : Train(l)) => UNCHANGED <<request, twin, since, server>>
  BY DEF vars, Train

----------------------------------------------------------------------------
(* What the request has seen is among what has been.                        *)

Tracked == pc # "idle" => \A e \in Entities : Condition(e) \in since[e]

LEMMA TrackedStep ==
    ASSUME Tracked, [Next]_vars
    PROVE  /\ Tracked'
           /\ pc # "idle" /\ pc' # "idle" => \A e \in Entities : since[e] \subseteq since'[e]
<1> USE DEF Tracked
<1>1. CASE Begin
  <2>1. since' = AsRead /\ UNCHANGED twin /\ pc = "idle"
    BY <1>1 DEF Begin, Start, StartRisk
  <2>2. \A e \in Entities : Condition(e)' = Condition(e)
    BY <2>1 DEF twin, Condition, Status, IsFull
  <2> QED BY <2>1, <2>2 DEF AsRead
<1>2. CASE Answering
  <2>1. UNCHANGED twin /\ since' = since /\ pc # "idle"
    <3>1. pc # "idle"
      BY <1>2 DEF Answering, ReadGate, CheckLot, ReadClosedNodes, RouteToLot, Choose, TimeOut, AssessClosed,
                  Predict, SyncForecast, Resolve, Score, ChoosePredicted, ReadAvailable, RouteToNearestLot
    <3> QED BY <1>2, <3>1, AnsweringStep
  <2>2. \A e \in Entities : Condition(e)' = Condition(e)
    BY <2>1 DEF twin, Condition, Status, IsFull
  <2> QED BY <2>1, <2>2
<1>3. CASE Close \/ Restart
  BY <1>3, EndStep
<1>4. CASE Others
  <2>1. pc' = pc /\ Noted
    BY <1>4, OthersStep DEF request
  <2> QED BY <2>1 DEF Noted
<1>5. CASE UNCHANGED vars \/ \E l \in Lots : Train(l)
  <2>1. UNCHANGED <<pc, twin, since>>
    BY <1>5, IdleStep DEF request
  <2>2. \A e \in Entities : Condition(e)' = Condition(e)
    BY <2>1 DEF twin, Condition, Status, IsFull
  <2> QED BY <2>1, <2>2
<1> QED BY <1>1, <1>2, <1>3, <1>4, <1>5, Steps

----------------------------------------------------------------------------
(* Where the request is, and what it may hold there.                        *)

IsEvaluation(e) ==
    e \in [feasible : BOOLEAN, travel_time_s : {e.travel_time_s}, pct : {e.pct},
          source : {e.source}, overflow : {e.overflow}]

Evaluated == DOMAIN evaluations = Lots /\ \A l \in Lots : IsEvaluation(evaluations[l])

Flow ==
    /\ kind \in Kinds
    /\ pc # "idle" /\ kind # "risk" => gate \in Gates
    /\ pc \in {"gate", "lot"} => kind \in Strategies
    /\ pc \in {"nodes", "roads"} => kind \in Strategies \cup {"nearest_parking"}
    /\ pc = "available" => kind = "nearest_parking"
    /\ left \subseteq Lots
    /\ pc \in {"nodes", "roads"} /\ kind \in Strategies => left # {}
    /\ pc \in {"sync", "resolve"} => left # {}
    /\ Evaluated

LEMMA NoneEvaluated == evaluations = NoEvaluations => Evaluated /\ Feasible = {}
<1>1. IsEvaluation(NoEvaluation) /\ ~NoEvaluation.feasible
  BY DEF IsEvaluation, NoEvaluation
<1> QED BY <1>1 DEF Evaluated, Feasible, NoEvaluations

LEMMA FlowInit == Init => Flow
  BY NoneEvaluated DEF Init, Flow, Kinds, Strategies

LEMMA EvaluationChanges ==
    ASSUME NEW e, IsEvaluation(e)
    PROVE  /\ \A leg : IsEvaluation(Reached(e, leg))
           /\ \A r, o : IsEvaluation(Rated(e, r, o)) /\ Rated(e, r, o).feasible = e.feasible
  BY DEF IsEvaluation, Reached, Rated

\* Feasible changes where a route is found, and nowhere else.
LEMMA EvaluationsStep ==
    ASSUME Flow, Answering
    PROVE  /\ Evaluated'
           /\ \A l \in Feasible' \ Feasible :
                  /\ RouteToLot /\ l = First(left)
                  /\ Route(gate, l, "drive", closedSeen, ClosedRoads) # {}
<1> DEFINE l0 == First(left)
<1>0. Evaluated
  BY DEF Flow
<1>1. ASSUME NEW e, evaluations' = [evaluations EXCEPT ![l0] = e], l0 \in Lots
      PROVE  /\ IsEvaluation(e) => Evaluated'
             /\ \A m \in Feasible' \ Feasible : m = l0 /\ e.feasible
  <2> HIDE DEF l0
  <2>1. /\ DOMAIN evaluations' = Lots /\ evaluations'[l0] = e
        /\ \A m \in Lots \ {l0} : evaluations'[m] = evaluations[m]
    BY <1>0, <1>1 DEF Evaluated
  <2>2. IsEvaluation(e) => \A m \in Lots : IsEvaluation(evaluations'[m])
    BY <1>0, <2>1 DEF Evaluated
  <2>3. IsEvaluation(e) => Evaluated'
    BY <2>1, <2>2 DEF Evaluated, IsEvaluation
  <2> QED BY <1>1, <2>1, <2>3 DEF Feasible
<1>2. CASE UNCHANGED evaluations
  BY <1>0, <1>2 DEF Evaluated, Feasible
<1>3. CASE RouteToLot /\ ~UNCHANGED evaluations
  <2>1. l0 \in Lots
    BY <1>3, FirstIn DEF Flow, RouteToLot
  <2>2. PICK leg \in Route(gate, l0, "drive", closedSeen, ClosedRoads) :
            evaluations' = [evaluations EXCEPT ![l0] = Reached(evaluations[l0], leg)]
    BY <1>3 DEF RouteToLot
  <2> HIDE DEF l0
  <2>3. IsEvaluation(Reached(evaluations[l0], leg))
    BY <1>0, <2>1, EvaluationChanges DEF Evaluated
  <2>4. Evaluated' /\ \A m \in Feasible' \ Feasible : m = l0
    BY <1>1, <2>1, <2>2, <2>3
  <2> QED BY <1>3, <2>2, <2>4 DEF l0
<1>4. CASE Resolve /\ ~UNCHANGED evaluations
  <2>1. l0 \in Lots
    BY <1>4, FirstIn DEF Flow, Resolve
  <2>2. PICK r, o : evaluations' = [evaluations EXCEPT ![l0] = Rated(evaluations[l0], r, o)]
    BY <1>4 DEF Resolve
  <2> HIDE DEF l0
  <2>3. /\ IsEvaluation(Rated(evaluations[l0], r, o))
        /\ Rated(evaluations[l0], r, o).feasible = evaluations[l0].feasible
    BY <1>0, <2>1, EvaluationChanges DEF Evaluated
  <2>4. Evaluated' /\ \A m \in Feasible' \ Feasible : m = l0 /\ evaluations[l0].feasible
    BY <1>1, <2>1, <2>2, <2>3
  <2>5. Feasible' \subseteq Feasible
    BY <2>1, <2>4 DEF Feasible
  <2> QED BY <2>4, <2>5
<1>5. CASE ~RouteToLot /\ ~Resolve
  BY <1>2, <1>5 DEF Answering, ReadGate, CheckLot, ReadClosedNodes, Choose, TimeOut, AssessClosed, Predict,
         SyncForecast, Score, ChoosePredicted, ReadAvailable, RouteToNearestLot
<1> QED BY <1>2, <1>3, <1>4, <1>5

LEMMA FlowStep ==
    ASSUME Flow, [Next]_vars
    PROVE  Flow'
<1>1. CASE Begin
  <2>1. CASE \E g \in Gates, k \in Kinds : Start(k, g)
    BY <2>1 DEF Start, Flow, Kinds, Evaluated, IsEvaluation
  <2>2. CASE \E l \in Lots : StartRisk(l)
    BY <2>2 DEF StartRisk, Flow, Kinds, Strategies, Evaluated, IsEvaluation
  <2> QED BY <1>1, <2>1, <2>2 DEF Begin
<1>2. CASE Answering
  <2>1. Evaluated' /\ UNCHANGED <<kind, gate>>
    BY <1>2, EvaluationsStep, AnsweringStep
  <2>2. Feasible \subseteq Lots
    BY DEF Feasible
  <2> DEFINE Rest == /\ pc' \in {"gate", "lot"} => kind \in Strategies
                     /\ pc' \in {"nodes", "roads"} => kind \in Strategies \cup {"nearest_parking"}
                     /\ pc' # "available" /\ pc # "idle"
                     /\ left' \subseteq Lots
                     /\ pc' \in {"nodes", "roads"} /\ kind \in Strategies => left' # {}
                     /\ pc' \in {"sync", "resolve"} => left' # {}
  <2>3. ASSUME ReadGate \/ CheckLot \/ ReadClosedNodes \/ RouteToLot PROVE Rest
    BY <2>3 DEF ReadGate, CheckLot, ReadClosedNodes, RouteToLot, Flow
  <2>4. ASSUME Choose PROVE Rest
    BY <2>2, <2>4 DEF Choose, Reply, Flow
  <2>5. ASSUME TimeOut \/ Score \/ ChoosePredicted \/ RouteToNearestLot PROVE Rest
    BY <2>5 DEF TimeOut, Score, ChoosePredicted, RouteToNearestLot, Reply, Flow
  <2>6. ASSUME AssessClosed \/ SyncForecast PROVE Rest
    BY <2>6 DEF AssessClosed, SyncForecast, Flow
  <2>7. ASSUME Predict PROVE Rest
    BY <2>7 DEF Predict, Store, Reply, Flow
  <2>8. ASSUME Resolve PROVE Rest
    BY <2>8 DEF Resolve, Reply, Flow
  <2>9. ASSUME ReadAvailable PROVE Rest
    BY <2>9 DEF ReadAvailable, Flow, Strategies
  <2>10. Rest
    BY <1>2, <2>3, <2>4, <2>5, <2>6, <2>7, <2>8, <2>9 DEF Answering
  <2> QED BY <2>1, <2>10 DEF Flow
<1>3. CASE Close \/ Restart
  <2>1. Evaluated'
    <3>1. IsEvaluation(NoEvaluation) /\ evaluations' = [l \in Lots |-> NoEvaluation]
      BY <1>3, EndStep DEF IsEvaluation, NoEvaluation, NoEvaluations
    <3> QED BY <3>1 DEF Evaluated, IsEvaluation
  <2> QED BY <1>3, <2>1, EndStep DEF Flow, Kinds, Strategies
<1>4. CASE Others \/ UNCHANGED vars \/ \E l \in Lots : Train(l)
  <2>1. UNCHANGED <<pc, kind, gate, left, evaluations>>
    BY <1>4, OthersStep, IdleStep DEF request
  <2> QED BY <2>1 DEF Flow, Evaluated, IsEvaluation
<1> QED BY <1>1, <1>2, <1>3, <1>4, Steps

LEMMA TrackedHolds == Spec => [](Flow /\ Tracked)
<1>1. Init => Tracked
  BY DEF Init, Tracked
<1> QED BY <1>1, FlowInit, FlowStep, TrackedStep, PTL DEF Spec

----------------------------------------------------------------------------
(* What an answer rests on.                                                 *)

GateWasOpen == \E c \in since[gate] : c[1] = "open"
WasOpen == {l \in Lots : \E c \in since[l] : ~c[2] /\ c[1] = "open"}
WasNotClosed == {l \in Lots : \E c \in since[l] : c[1] # "closed"}
HadRoom == {l \in Lots : \E c \in since[l] : ~c[2] /\ c[1] # "closed"}

ClosedNodesAllAlong == AllAlong(Gates \cup Lots, "closed")
ClosedRoadsAllAlong == AllAlong(Roads, "closed")
Reachable ==
    {l \in Lots : PathsTo(Graph("drive", ClosedNodesAllAlong, ClosedRoadsAllAlong), gate, {l}) # {}}

GateGround ==
    pc \in {"lot", "nodes", "roads"} /\ kind \in Strategies /\ gateSeen.status = "open" => GateWasOpen

LotGround ==
    pc \in {"nodes", "roads"} =>
        IF kind \in Strategies THEN GateWasOpen /\ First(left) \in WasOpen
        ELSE left \subseteq HadRoom /\ (lotSeen.status # "closed" => Last(LotOrder) \in WasNotClosed)

ClosedGround == pc = "roads" => ClosedNodesAllAlong \subseteq closedSeen

FeasibleGround ==
    /\ Feasible \subseteq WasOpen \cap Reachable
    /\ Feasible # {} => pc # "idle" /\ kind \in Strategies /\ GateWasOpen

AnswerGround ==
    answer.outcome = "lot" =>
        /\ pc = "answered"
        /\ answer.best \in Reachable
        /\ answer.best \in IF kind = "nearest_parking" THEN HadRoom ELSE WasOpen
        /\ kind \in Strategies => GateWasOpen

Grounded == GateGround /\ LotGround /\ ClosedGround /\ FeasibleGround /\ AnswerGround

\* What is seen is what has been.
LEMMA Seen ==
    ASSUME Tracked, pc # "idle"
    PROVE  /\ \A l \in Lots : lots[l].status = "open" /\ ~IsFull(lots[l]) => l \in WasOpen
           /\ \A l \in Lots : lots[l].status # "closed" => l \in WasNotClosed
           /\ \A l \in Lots : lots[l].status # "closed" /\ ~IsFull(lots[l]) => l \in HadRoom
           /\ gate \in Gates /\ gates[gate].status = "open" => GateWasOpen
           /\ ClosedNodesAllAlong \subseteq {n \in Gates \cup Lots : Status(n) = "closed"}
           /\ ClosedRoadsAllAlong \subseteq ClosedRoads
<1>1. \A l \in Lots : /\ Condition(l) \in since[l] /\ Condition(l)[1] = lots[l].status
                      /\ Condition(l)[2] <=> IsFull(lots[l])
  BY DEF Tracked, Entities, Condition, Status
<1>2. \A g \in Gates : /\ Condition(g) \in since[g] /\ Condition(g)[1] = gates[g].status
                       /\ Status(g) = gates[g].status
  BY DistinctIds DEF Tracked, Entities, Condition, Status
<1>3. \A r \in Roads : Condition(r) \in since[r] /\ Condition(r)[1] = roads[r]
  BY DistinctIds DEF Tracked, Entities, Condition, Status
<1>4. ClosedNodesAllAlong \subseteq {n \in Gates \cup Lots : Status(n) = "closed"}
  BY <1>1, <1>2 DEF ClosedNodesAllAlong, AllAlong, Status
<1>5. ClosedRoadsAllAlong \subseteq ClosedRoads
  BY <1>3 DEF ClosedRoadsAllAlong, AllAlong, ClosedRoads
<1> QED BY <1>1, <1>2, <1>4, <1>5 DEF WasOpen, WasNotClosed, HadRoom, GateWasOpen

\* What has been stays so.
LEMMA Remembered ==
    ASSUME gate' = gate, \A e \in Entities : since[e] \subseteq since'[e]
    PROVE  /\ gate \in Gates /\ GateWasOpen => GateWasOpen'
           /\ WasOpen \subseteq WasOpen' /\ WasNotClosed \subseteq WasNotClosed'
           /\ HadRoom \subseteq HadRoom' /\ Reachable \subseteq Reachable'
           /\ ClosedNodesAllAlong' \subseteq ClosedNodesAllAlong
<1>1. /\ ClosedNodesAllAlong' \subseteq ClosedNodesAllAlong
      /\ ClosedRoadsAllAlong' \subseteq ClosedRoadsAllAlong
  BY DEF ClosedNodesAllAlong, ClosedRoadsAllAlong, AllAlong, Entities
<1>2. Reachable \subseteq Reachable'
  BY <1>1, MoreWays DEF Reachable
<1> QED BY <1>1, <1>2 DEF GateWasOpen, WasOpen, WasNotClosed, HadRoom, Entities

\* Steps that leave the request as it is.
LEMMA GroundedOthers ==
    ASSUME Flow, Tracked, Grounded, Others \/ UNCHANGED vars \/ \E l \in Lots : Train(l)
    PROVE  Grounded'
<1>1. UNCHANGED <<pc, kind, gate, gateSeen, lotSeen, closedSeen, left, evaluations, answer>>
  BY OthersStep, IdleStep DEF request
<1>2. Feasible' = Feasible /\ First(left)' = First(left)
  BY <1>1 DEF Feasible, First
<1> USE DEF Grounded, GateGround, LotGround, ClosedGround, FeasibleGround, AnswerGround
<1>3. CASE pc = "idle"
  BY <1>1, <1>2, <1>3
<1>4. CASE pc # "idle"
  <2>1. \A e \in Entities : since[e] \subseteq since'[e]
    BY <1>1, <1>4, TrackedStep DEF Next, Others
  <2>2. kind \in Strategies => gate \in Gates
    BY <1>4 DEF Flow, Strategies
  <2>3. /\ gate \in Gates /\ GateWasOpen => GateWasOpen'
        /\ WasOpen \subseteq WasOpen' /\ WasNotClosed \subseteq WasNotClosed'
        /\ HadRoom \subseteq HadRoom' /\ Reachable \subseteq Reachable'
        /\ ClosedNodesAllAlong' \subseteq ClosedNodesAllAlong
    BY <1>1, <2>1, Remembered
  <2>4. GateGround' /\ LotGround' /\ ClosedGround'
    BY <1>1, <1>2, <2>2, <2>3
  <2>5. FeasibleGround' /\ AnswerGround'
    BY <1>1, <1>2, <2>2, <2>3
  <2> QED BY <2>4, <2>5
<1> QED BY <1>3, <1>4

\* A request begins and ends with nothing.
LEMMA GroundedEnds ==
    ASSUME Grounded, Begin \/ Close \/ Restart
    PROVE  Grounded'
<1> USE DEF Grounded, GateGround, LotGround, ClosedGround, FeasibleGround, AnswerGround
<1>1. CASE Close \/ Restart
  <2>1. Feasible' = {}
    BY <1>1, EndStep DEF NoEvaluations, NoEvaluation, Feasible
  <2>2. answer'.outcome # "lot"
    <3>1. answer' = [outcome |-> "none_yet", best |-> Nothing, fallback |-> FALSE]
      BY <1>1, EndStep DEF NoAnswer, Answer
    <3> QED BY <3>1
  <2> QED BY <1>1, <2>1, <2>2, EndStep
<1>2. CASE Begin
  <2>1. /\ pc = "idle" /\ UNCHANGED <<evaluations, answer>>
        /\ pc' \in {"available", "gate", "assess"}
    BY <1>2 DEF Begin, Start, StartRisk
  <2>2. Feasible = {} /\ Feasible' = {} /\ answer'.outcome # "lot"
    BY <2>1 DEF Feasible
  <2> QED BY <2>1, <2>2
<1> QED BY <1>1, <1>2

LEMMA GroundedAnswering ==
    ASSUME Flow, Tracked, Grounded, Answering
    PROVE  Grounded'
<1> USE DEF Grounded, GateGround, LotGround, ClosedGround, FeasibleGround, AnswerGround
<1>1. UNCHANGED <<since, kind, gate, twin>>
  BY AnsweringStep
<1>2. UNCHANGED <<GateWasOpen, WasOpen, WasNotClosed, HadRoom, ClosedNodesAllAlong, ClosedRoadsAllAlong, Reachable>>
  BY <1>1 DEF GateWasOpen, WasOpen, WasNotClosed, HadRoom, ClosedNodesAllAlong, ClosedRoadsAllAlong,
              Reachable, AllAlong
<1>3. /\ pc # "idle"
      /\ kind \in Strategies => gate \in Gates /\ kind # "nearest_parking"
      /\ pc \in {"nodes", "roads"} => gate \in Gates
      /\ left \subseteq Lots /\ Last(LotOrder) \in Lots
      /\ ClosedRoadsAllAlong \subseteq ClosedRoads
  <2>1. pc # "idle"
    BY DEF Answering, ReadGate, CheckLot, ReadClosedNodes, RouteToLot, Choose, TimeOut, AssessClosed,
           Predict, SyncForecast, Resolve, Score, ChoosePredicted, ReadAvailable, RouteToNearestLot
  <2>2. Last(LotOrder) \in Lots
    BY CampusAssumption, DistinctIds DEF Last, Lots, Range
  <2> QED BY <2>1, <2>2, Seen DEF Flow, Strategies
<1>4. ASSUME UNCHANGED evaluations, UNCHANGED answer, answer.outcome # "lot" \/ pc' = "answered",
             pc' \notin {"lot", "nodes", "roads", "idle"}
      PROVE  Grounded'
  BY <1>1, <1>2, <1>4 DEF Feasible
<1>5. answer.outcome = "lot" => pc = "answered"
  OBVIOUS
<1>6. pc # "answered"
  BY DEF Answering, ReadGate, CheckLot, ReadClosedNodes, RouteToLot, Choose, TimeOut, AssessClosed,
         Predict, SyncForecast, Resolve, Score, ChoosePredicted, ReadAvailable, RouteToNearestLot
\* Where the answer is one of the candidates.
<1>7. ASSUME UNCHANGED evaluations, pc' = "answered",
             answer'.outcome = "lot" => answer'.best \in Feasible
      PROVE  Grounded'
  BY <1>1, <1>2, <1>3, <1>7 DEF Feasible
<1>9. CASE ReadGate
  <2>1. gates[gate].status = "open" => GateWasOpen
    BY <1>3, <1>9, Seen DEF ReadGate, Flow
  <2> QED BY <1>1, <1>2, <1>5, <1>9, <2>1 DEF ReadGate, Feasible
<1>10. CASE CheckLot
  <2>1. First(left) \in Lots
    BY <1>3, <1>10, FirstIn DEF CheckLot
  <2>2. Admissible(gateSeen, lots[First(left)]) => GateWasOpen /\ First(left) \in WasOpen
    BY <1>3, <1>10, <2>1, Seen DEF CheckLot, Admissible, Flow
  <2>3. UNCHANGED <<gateSeen, evaluations, answer>> /\ pc = "lot" /\ pc' \in {"lot", "nodes"}
    BY <1>10 DEF CheckLot
  <2>4. pc' = "nodes" => left' = left /\ Admissible(gateSeen, lots[First(left)])
    BY <1>10 DEF CheckLot
  <2>5. GateGround' /\ ClosedGround' /\ FeasibleGround' /\ AnswerGround'
    BY <1>1, <1>2, <1>5, <2>3 DEF Feasible
  <2>6. LotGround'
    <3>1. pc' = "nodes" => First(left)' = First(left)
      BY <2>4 DEF First
    <3> QED BY <1>1, <1>2, <1>10, <2>2, <2>3, <2>4, <3>1 DEF CheckLot, Flow
  <2> QED BY <2>5, <2>6
<1>11. CASE ReadClosedNodes
  <2>1. /\ UNCHANGED <<gateSeen, lotSeen, left, evaluations, answer>> /\ pc = "nodes" /\ pc' = "roads"
        /\ closedSeen' = HeldClosed \cup {n \in (Gates \cup Lots) \ Held : Status(n) = "closed"}
    BY <1>11 DEF ReadClosedNodes
  <2>2. First(left)' = First(left) /\ Feasible' = Feasible
    BY <2>1 DEF First, Feasible
  <2>3. \A n \in ClosedNodesAllAlong : Status(n) = "closed" /\ n \in Gates \cup Lots
    BY <1>3, Seen
  <2>4. \A n \in ClosedNodesAllAlong : n \notin WasOpen /\ n \notin WasNotClosed /\ (GateWasOpen => n # gate)
    BY DEF ClosedNodesAllAlong, AllAlong, WasOpen, WasNotClosed, GateWasOpen
  <2>5. ClosedNodesAllAlong \subseteq closedSeen'
    <3>1. CASE kind \in Strategies
      BY <1>3, <2>1, <2>3, <2>4, <3>1 DEF Held
    <3>2. CASE kind = "nearest_parking"
      BY <1>3, <2>1, <2>3, <2>4, <3>2 DEF Held, HeldClosed, Strategies
    <3> QED BY <2>1, <3>1, <3>2 DEF Flow
  <2> QED BY <1>1, <1>2, <1>5, <2>1, <2>2, <2>5
<1>12. CASE RouteToLot
  <2>1. /\ pc = "roads" /\ kind \in Strategies /\ pc' = "lot"
        /\ UNCHANGED <<gateSeen, answer>>
    BY <1>12 DEF RouteToLot
  <2>2. ASSUME NEW l \in Feasible' \ Feasible
        PROVE  l \in WasOpen /\ l \in Reachable
    <3>1. l = First(left) /\ Route(gate, l, "drive", closedSeen, ClosedRoads) # {}
      BY EvaluationsStep
    <3>2. l \in WasOpen
      BY <2>1, <3>1
    <3>3. l \in Lots /\ gate # l
      BY <1>3, <2>1, <3>2, DistinctIds DEF WasOpen
    <3>4. PathsTo(Graph("drive", closedSeen, ClosedRoads), gate, {l}) # {}
      BY <3>1, <3>3, RoutesAreWays
    <3>5. PathsTo(Graph("drive", ClosedNodesAllAlong, ClosedRoadsAllAlong), gate, {l}) # {}
      BY <1>3, <2>1, <3>4, MoreWays
    <3> QED BY <3>2, <3>3, <3>5 DEF Reachable
  <2>3. GateWasOpen
    BY <2>1
  <2> QED BY <1>1, <1>2, <1>3, <1>5, <2>1, <2>2, <2>3
<1>13. CASE Choose
  <2>1. UNCHANGED evaluations
    BY <1>13 DEF Choose
  <2>2. Nearest(Feasible) \subseteq Feasible /\ Firsts(Feasible) \subseteq Feasible
    BY DEF Nearest, Firsts
  <2>3. CASE UNCHANGED answer /\ pc' = "assess"
    BY <1>4, <1>5, <1>6, <2>1, <2>3
  <2>4. CASE ~(UNCHANGED answer /\ pc' = "assess")
    <3>1. \/ Reply("no_feasible_lot", Nothing, FALSE)
          \/ \E l \in Firsts(Feasible) \cup Nearest(Feasible) : Reply("lot", l, FALSE)
      BY <1>13, <2>4 DEF Choose
    <3>2. pc' = "answered" /\ (answer'.outcome = "lot" => answer'.best \in Feasible)
      <4>1. CASE Reply("no_feasible_lot", Nothing, FALSE)
        BY <4>1 DEF Reply, Answer
      <4>2. ASSUME NEW l \in Firsts(Feasible) \cup Nearest(Feasible), Reply("lot", l, FALSE)
            PROVE  pc' = "answered" /\ answer'.best \in Feasible
        <5>1. l \in Feasible
          BY <2>2, <4>2
        <5> QED BY <4>2, <5>1 DEF Reply, Answer
      <4> QED BY <3>1, <4>1, <4>2
    <3> QED BY <1>7, <2>1, <3>2
  <2> QED BY <2>3, <2>4
<1>14. CASE TimeOut \/ Score \/ ChoosePredicted
  <2>1. UNCHANGED evaluations
    BY <1>14 DEF TimeOut, Score, ChoosePredicted
  <2>2. \/ Reply("error", Nothing, FALSE)
        \/ \E l \in Feasible : \E f : Reply("lot", l, f)
    BY <1>14 DEF TimeOut, Score, ChoosePredicted, Nearest, Firsts, Best
  <2>3. pc' = "answered" /\ (answer'.outcome = "lot" => answer'.best \in Feasible)
    BY <2>2 DEF Reply, Answer
  <2> QED BY <1>7, <2>1, <2>3
<1>15. CASE AssessClosed \/ SyncForecast
  BY <1>4, <1>5, <1>6, <1>15 DEF AssessClosed, SyncForecast
<1>16. CASE Predict
  <2>1. UNCHANGED evaluations
    BY <1>16 DEF Predict
  <2>2. \/ Reply("error", Nothing, FALSE)
        \/ UNCHANGED answer /\ pc' \in {"resolve", "sync"}
    BY <1>16 DEF Predict, Store
  <2>3. CASE Reply("error", Nothing, FALSE)
    BY <1>7, <2>1, <2>3 DEF Reply, Answer
  <2>4. CASE UNCHANGED answer /\ pc' \in {"resolve", "sync"}
    BY <1>4, <1>5, <1>6, <2>1, <2>4
  <2> QED BY <2>2, <2>3, <2>4
<1>17. CASE Resolve
  <2>1. Feasible' \subseteq Feasible
    BY <1>17, EvaluationsStep DEF Resolve, RouteToLot
  <2>2. \/ Reply("risk", Nothing, FALSE)
        \/ UNCHANGED answer /\ pc' = "assess"
    BY <1>17 DEF Resolve
  <2>3. answer'.outcome # "lot" /\ pc' \in {"answered", "assess"}
    BY <1>5, <1>6, <2>2 DEF Reply, Answer
  <2> QED BY <1>1, <1>2, <2>1, <2>3
<1>18. CASE ReadAvailable
  <2>1. /\ pc' = "nodes" /\ UNCHANGED <<evaluations, answer>> /\ kind = "nearest_parking"
        /\ left' = {l \in Lots : lots[l].status # "closed" /\ ~IsFull(lots[l])}
        /\ lotSeen' = lots[Last(LotOrder)]
    BY <1>18 DEF ReadAvailable, Flow
  <2>2. left' \subseteq HadRoom /\ (lotSeen'.status # "closed" => Last(LotOrder) \in WasNotClosed)
    BY <1>3, <2>1, Seen
  <2> QED BY <1>1, <1>2, <1>3, <1>5, <1>6, <2>1, <2>2 DEF Feasible
<1>19. CASE RouteToNearestLot
  <2>1. /\ pc = "roads" /\ kind = "nearest_parking" /\ UNCHANGED evaluations
        /\ \/ Reply("no_feasible_lot", Nothing, FALSE)
           \/ \E leg \in RouteToNearest(gate, left, "drive", closedSeen, ClosedRoads) :
                  Reply("lot", Last(leg.path), FALSE)
    BY <1>19 DEF RouteToNearestLot
  <2>2. ASSUME NEW leg \in RouteToNearest(gate, left, "drive", closedSeen, ClosedRoads)
        PROVE  Last(leg.path) \in HadRoom /\ Last(leg.path) \in Reachable
    <3> DEFINE l == Last(leg.path)
    <3>1. l \in left /\ PathsTo(Graph("drive", closedSeen, ClosedRoads), gate, {l}) # {}
      BY NearestIsAWay
    <3> HIDE DEF l
    <3>2. PathsTo(Graph("drive", ClosedNodesAllAlong, ClosedRoadsAllAlong), gate, {l}) # {}
      BY <1>3, <2>1, <3>1, MoreWays
    <3>3. l \in HadRoom /\ l \in Reachable
      BY <1>3, <2>1, <3>1, <3>2 DEF Reachable
    <3> QED BY <3>3 DEF l
  <2>3. pc' = "answered" /\ (answer'.outcome = "lot" => answer'.best \in HadRoom /\ answer'.best \in Reachable)
    <3>1. CASE Reply("no_feasible_lot", Nothing, FALSE)
      BY <3>1 DEF Reply, Answer
    <3>2. ASSUME NEW leg \in RouteToNearest(gate, left, "drive", closedSeen, ClosedRoads),
                 Reply("lot", Last(leg.path), FALSE)
          PROVE  pc' = "answered" /\ answer'.best = Last(leg.path)
      BY <3>2 DEF Reply, Answer
    <3> QED BY <2>1, <2>2, <3>1, <3>2
  <2>4. Feasible' = Feasible
    BY <2>1 DEF Feasible
  <2> QED BY <1>1, <1>2, <1>3, <2>1, <2>3, <2>4
<1> QED BY <1>9, <1>10, <1>11, <1>12, <1>13, <1>14, <1>15, <1>16, <1>17, <1>18, <1>19 DEF Answering

LEMMA GroundedHolds == Spec => []Grounded
<1>1. Init => Grounded
  <2> SUFFICES ASSUME Init PROVE Grounded
    OBVIOUS
  <2>1. Feasible = {}
    BY NoneEvaluated DEF Init
  <2>2. answer.outcome # "lot" /\ pc = "idle"
    BY DEF Init, NoAnswer, Answer
  <2> QED BY <2>1, <2>2 DEF Grounded, GateGround, LotGround, ClosedGround, FeasibleGround, AnswerGround
<1>2. Flow /\ Tracked /\ Grounded /\ [Next]_vars => Grounded'
  BY GroundedOthers, GroundedEnds, GroundedAnswering, Steps
<1> QED BY <1>1, <1>2, TrackedHolds, PTL DEF Spec

\* Whatever the twin does while it is read row by row, the lot that is recommended
\* was open and had room at one moment of the request, its gate was open at one,
\* and there is a way that no closure lasting the whole request blocks.
THEOREM RecommendedIsFeasible == Spec => []RecommendedWasFeasible
<1>1. Grounded => RecommendedWasFeasible
  BY DEF Grounded, AnswerGround, RecommendedWasFeasible, HadRoom, WasOpen, GateWasOpen, Reachable,
         ClosedNodesAllAlong, ClosedRoadsAllAlong, Strategies
<1> QED BY <1>1, GroundedHolds, PTL

----------------------------------------------------------------------------
(* Forecasts: stored first, shown in the twin afterwards.                   *)

OnRecord ==
    /\ DOMAIN predicted = Lots
    /\ ForecastIsOnRecord
    /\ pc = "sync" => <<First(left), prediction.point_estimate>> \in stored

LEMMA OnRecordStep ==
    ASSUME OnRecord, [Next]_vars
    PROVE  OnRecord'
<1> USE DEF OnRecord, ForecastIsOnRecord
\* Where neither table changes and no forecast is about to be synced.
<1>1. ASSUME UNCHANGED <<predicted, stored>>, pc' # "sync"
      PROVE  OnRecord'
  BY <1>1
<1>2. CASE Begin
  BY <1>1, <1>2 DEF Begin, Start, StartRisk, server
<1>3. CASE ReadGate \/ CheckLot \/ ReadClosedNodes \/ RouteToLot \/ AssessClosed \/ ReadAvailable
  BY <1>1, <1>3 DEF ReadGate, CheckLot, ReadClosedNodes, RouteToLot, AssessClosed, ReadAvailable, server
<1>4. CASE Choose \/ TimeOut \/ Resolve \/ Score \/ ChoosePredicted \/ RouteToNearestLot
  <2>1. UNCHANGED <<predicted, stored>>
    BY <1>4 DEF Choose, TimeOut, Resolve, Score, ChoosePredicted, RouteToNearestLot, server
  <2>2. pc' # "sync"
    BY <1>4 DEF Choose, TimeOut, Resolve, Score, ChoosePredicted, RouteToNearestLot, Reply
  <2> QED BY <1>1, <2>1, <2>2
<1>5. CASE Predict
  <2>1. UNCHANGED <<predicted, left>>
    BY <1>5 DEF Predict
  <2>2. PICK f : /\ prediction' = f
                 /\ \/ Reply("error", Nothing, FALSE) /\ UNCHANGED stored
                    \/ Store(First(left), f)
    BY <1>5 DEF Predict
  <2>3. CASE Reply("error", Nothing, FALSE) /\ UNCHANGED stored
    BY <1>1, <2>1, <2>3 DEF Reply
  <2>4. CASE Store(First(left), f)
    <3>1. stored \subseteq stored'
      BY <2>4 DEF Store
    <3>2. pc' = "sync" => <<First(left), f.point_estimate>> \in stored'
      BY <2>4 DEF Store
    <3>3. First(left)' = First(left)
      BY <2>1 DEF First
    <3> QED BY <2>1, <2>2, <3>1, <3>2, <3>3
  <2> QED BY <2>2, <2>3, <2>4
<1>6. CASE SyncForecast
  <2>1. /\ predicted' = [predicted EXCEPT ![First(left)] = prediction.point_estimate]
        /\ UNCHANGED stored /\ pc = "sync" /\ pc' = "resolve"
    BY <1>6 DEF SyncForecast
  <2> QED BY <2>1
<1>7. CASE Close \/ Restart
  <2>1. UNCHANGED <<predicted, stored>> /\ pc' = "idle"
    BY <1>7 DEF Close, Restart, server
  <2> QED BY <1>1, <2>1
<1>8. CASE Others \/ UNCHANGED vars \/ \E l \in Lots : Train(l)
  <2>1. UNCHANGED <<predicted, stored, pc, left, prediction>>
    BY <1>8, OthersStep, IdleStep DEF request, server
  <2>2. First(left)' = First(left)
    BY <2>1 DEF First
  <2> QED BY <2>1, <2>2
<1> QED BY <1>2, <1>3, <1>4, <1>5, <1>6, <1>7, <1>8, Steps DEF Answering

\* The twin never shows a forecast that predictions has no row of, however the two
\* transactions interleave with other sessions and restarts.
THEOREM ForecastsAreOnRecord == Spec => []ForecastIsOnRecord
<1>1. Init => OnRecord
  BY DEF Init, OnRecord, ForecastIsOnRecord
<1>2. OnRecord => ForecastIsOnRecord
  BY DEF OnRecord
<1> QED BY <1>1, <1>2, OnRecordStep, PTL DEF Spec

----------------------------------------------------------------------------
(* Arithmetic.                                                              *)

LEMMA Division ==
    ASSUME NEW a \in Int, NEW b \in Nat \ {0}
    PROVE  a \div b \in Int /\ b * (a \div b) <= a /\ a < b * (a \div b) + b
  OBVIOUS

\* A quotient of integers lies where its dividend lies.
LEMMA QuotientBetween ==
    ASSUME NEW a \in Int, NEW b \in Nat \ {0}, NEW lo \in Int, NEW hi \in Int, lo * b <= a, a <= hi * b
    PROVE  lo <= a \div b /\ a \div b <= hi
<1> DEFINE q == a \div b
<1>1. q \in Int /\ b * q <= a /\ a < b * q + b
  BY Division
<1> HIDE DEF q
<1>2. lo <= q
  <2> SUFFICES ASSUME q + 1 <= lo PROVE FALSE
    BY <1>1
  <2>1. b * (q + 1) <= b * lo
    BY <1>1
  <2> QED BY <1>1, <2>1
<1>3. q <= hi
  <2> SUFFICES ASSUME hi + 1 <= q PROVE FALSE
    BY <1>1
  <2>1. b * (hi + 1) <= b * q
    BY <1>1
  <2> QED BY <1>1, <2>1
<1> QED BY <1>2, <1>3 DEF q

----------------------------------------------------------------------------
(* Risks.                                                                   *)

Verdict == {Unknown, NotAccepting} \cup {Scored(n) : n \in Int}

\* What an assessment is made of.
IsForecast(f) ==
    f.point_estimate \in Estimates \cup {Nothing} /\ f.upper_bound \in Estimates \cup {Nothing}

LEMMA Verdicts ==
    /\ \A n \in Int : Scored(n) \in Verdict /\ Scored(n).available /\ Scored(n).score = n
    /\ Unknown \in Verdict /\ ~Unknown.available
    /\ NotAccepting \in Verdict /\ NotAccepting.available /\ NotAccepting.score = Nothing
    /\ \A v \in Verdict : v.available /\ v.score # Nothing => v.score \in Int
    /\ \A v \in Verdict : v.available /\ v.score = Nothing => v = NotAccepting
<1>1. \A n \in Int : Scored(n) \in Verdict /\ Scored(n).available /\ Scored(n).score = n
  BY DEF Verdict, Scored
<1>2. Unknown \in Verdict /\ ~Unknown.available
  BY DEF Verdict, Unknown
<1>3. NotAccepting \in Verdict /\ NotAccepting.available /\ NotAccepting.score = Nothing
  BY DEF Verdict, NotAccepting
<1>4. ASSUME NEW v \in Verdict, v.available
      PROVE  v.score \in Int \/ v = NotAccepting
  <2>1. CASE v = Unknown \/ v = NotAccepting
    BY <1>2, <1>4, <2>1
  <2>2. CASE \E n \in Int : v = Scored(n)
    BY <1>1, <2>2
  <2> QED BY <2>1, <2>2 DEF Verdict
<1> QED BY <1>1, <1>2, <1>3, <1>4, EstimatesAssumption

LEMMA RatioIsInteger ==
    ASSUME NEW a \in Int, NEW b \in Nat \ {0}
    PROVE  Ratio(a, b) \in Int
<1>1. 100 * a \in Int
  OBVIOUS
<1> QED BY <1>1, Division DEF Ratio

LEMMA OverflowVerdict ==
    ASSUME NEW lot \in LotRow, NEW f, IsForecast(f)
    PROVE  /\ OverflowRisk(lot, f) \in Verdict
           /\ OverflowRisk(lot, f) = NotAccepting => lot.status # "open"
           /\ ProactiveTrigger(lot, f) <=> OverflowRisk(lot, f).level \in {"HIGH", "CRITICAL"}
<1>1. CASE lot.status # "open"
  BY <1>1, Verdicts DEF OverflowRisk, ProactiveTrigger, NotAccepting
<1>2. CASE lot.status = "open" /\ CannotScore(lot, f)
  BY <1>2, Verdicts DEF OverflowRisk, ProactiveTrigger, NotAccepting, Unknown
<1>3. CASE lot.status = "open" /\ ~CannotScore(lot, f)
  <2> DEFINE upper == f.upper_bound
             room == lot.usable_capacity
             ratio == Ratio(100 * upper, OVERFLOW_THRESHOLD_PCT * room)
  <2>1. upper \in Int /\ room \in Nat \ {0}
    <3>1. upper \in Estimates /\ room \in Nat
      BY <1>3 DEF CannotScore, IsForecast, LotRow
    <3>2. ~(room <= 0)
      BY <1>3 DEF CannotScore
    <3>3. upper \in Int
      BY <3>1, EstimatesAssumption
    <3> HIDE DEF room
    <3>4. room \in Nat \ {0}
      BY <3>1, <3>2
    <3> QED BY <3>3, <3>4
  <2>2. OverflowRisk(lot, f) = Scored(ratio) /\ (ProactiveTrigger(lot, f) <=> 100 * upper >= 90 * room)
    BY <1>3 DEF OverflowRisk, ProactiveTrigger, OVERFLOW_THRESHOLD_PCT
  <2> HIDE DEF upper, room
  <2>3. ratio \in Int /\ (ratio >= 100 <=> 100 * upper >= 90 * room)
    <3>1. ratio = (100 * (100 * upper)) \div (90 * room)
      BY DEF Ratio, OVERFLOW_THRESHOLD_PCT
    <3>2. 100 * (100 * upper) \in Int /\ 90 * room \in Nat \ {0}
      BY <2>1
    <3> DEFINE q == (100 * (100 * upper)) \div (90 * room)
    <3>3. q \in Int /\ (90 * room) * q <= 100 * (100 * upper) /\ 100 * (100 * upper) < (90 * room) * q + 90 * room
      BY <3>2, Division
    <3> HIDE DEF q
    <3>4. CASE q >= 100
      <4>1. (90 * room) * 100 <= (90 * room) * q
        BY <2>1, <3>3, <3>4
      <4> QED BY <2>1, <3>1, <3>3, <3>4, <4>1 DEF q
    <3>5. CASE q <= 99
      <4>1. (90 * room) * q <= (90 * room) * 99
        BY <2>1, <3>3, <3>5
      <4> QED BY <2>1, <3>1, <3>3, <3>5, <4>1 DEF q
    <3> QED BY <3>3, <3>4, <3>5
  <2> HIDE DEF ratio
  <2>4. Scored(ratio).level \in {"HIGH", "CRITICAL"} <=> ratio >= 100
    <3>1. Scored(ratio).level = BandRatio(ratio)
      BY DEF Scored
    <3> QED BY <2>3, <3>1 DEF BandRatio
  <2>5. Scored(ratio) # NotAccepting
    BY <2>3, Verdicts, EstimatesAssumption
  <2> QED BY <2>2, <2>3, <2>4, <2>5, Verdicts
<1> QED BY <1>1, <1>2, <1>3

LEMMA LotsAreFinite == IsFiniteSet(Lots)
<1>1. IsFiniteSet(DOMAIN LotOrder)
  <2>1. PICK n \in Nat : DOMAIN LotOrder = 1..n
    BY CampusAssumption
  <2> QED BY <2>1, FS_Interval
<1>2. Lots = {LotOrder[i] : i \in DOMAIN LotOrder}
  BY DEF Lots, Range
<1> QED BY <1>1, <1>2, ImageIsFinite

LEMMA SearchVerdict ==
    ASSUME NEW lot \in LotRow, NEW others, DOMAIN others \subseteq Lots
    PROVE  SearchRisk(lot, others) \in Verdict
<1> DEFINE rooms == {o \in DOMAIN others : HasRoom(others[o])}
           all == SEARCH_RISK_THRESHOLD_PCT * lot.usable_capacity * (1 + Cardinality(rooms))
<1>1. Cardinality(rooms) \in Nat
  <2>1. IsFiniteSet(rooms)
    BY LotsAreFinite, FS_Subset
  <2> QED BY <2>1, FS_CardinalityType
<1>2. CASE ~Occupied(lot)
  BY <1>2, Verdicts DEF SearchRisk
<1>3. CASE Occupied(lot)
  <2>1. /\ lot.occupied \in Nat /\ lot.usable_capacity \in Nat \ {0}
        /\ SearchRisk(lot, others) = Scored(Ratio(100 * lot.occupied, all))
    BY <1>3 DEF Occupied, LotRow, SearchRisk
  <2> HIDE DEF rooms
  <2>2. all \in Nat \ {0}
    BY <1>1, <2>1 DEF SEARCH_RISK_THRESHOLD_PCT
  <2> HIDE DEF all
  <2>3. Ratio(100 * lot.occupied, all) \in Int
    BY <2>1, <2>2, RatioIsInteger
  <2> QED BY <2>1, <2>3, Verdicts
<1> QED BY <1>2, <1>3

LEMMA QueueVerdict ==
    ASSUME NEW rows \in [Gates -> GateRow]
    PROVE  GateQueueRisk({rows[g].queue : g \in Gates}) \in Verdict
<1> DEFINE queues == {rows[g].queue : g \in Gates}
           known == queues \ {Nothing}
<1>1. IsFiniteSet(known) /\ known \subseteq Int
  <2> DEFINE q == [g \in Gates |-> rows[g].queue]
  <2>1. queues = {q[g] : g \in Gates}
    OBVIOUS
  <2>2. IsFiniteSet(queues)
    BY <2>1, CampusAssumption, ImageIsFinite
  <2>3. \A g \in Gates : rows[g].queue \in Nat \cup {Nothing}
    BY DEF GateRow
  <2> QED BY <2>2, <2>3, FS_Subset
<1>2. CASE known = {}
  BY <1>2, Verdicts DEF GateQueueRisk
<1>3. CASE known # {}
  <2>1. Max(known) \in Int
    BY <1>1, <1>3, MaxOfFinite
  <2>2. Ratio(Max(known), GATE_QUEUE_THRESHOLD) \in Int
    BY <2>1, RatioIsInteger DEF GATE_QUEUE_THRESHOLD
  <2>3. GateQueueRisk(queues) = Scored(Ratio(Max(known), GATE_QUEUE_THRESHOLD))
    BY <1>3 DEF GateQueueRisk
  <2> HIDE DEF queues
  <2>4. GateQueueRisk(queues) \in Verdict
    BY <2>2, <2>3, Verdicts
  <2> QED BY <2>4 DEF queues
<1> QED BY <1>2, <1>3

LEMMA DimensionsAreFinite == IsFiniteSet(Dimensions)
<1>1. IsFiniteSet({"overflow"} \cup {"gate_queue"}) /\ IsFiniteSet({"road_congestion"} \cup {"search"})
  BY FS_Singleton, FS_Union
<1>2. Dimensions = ({"overflow"} \cup {"gate_queue"}) \cup ({"road_congestion"} \cup {"search"})
  BY DEF Dimensions
<1> QED BY <1>1, <1>2, FS_Union

\* A weighted mean lies between the least and the greatest of what it is a mean of.
LEMMA CombinedBetween ==
    ASSUME NEW c, \A d \in Dimensions : c[d] \in Verdict
    PROVE  LET scores == {c[d].score : d \in Included(c)}
           IN IF scores = {} THEN Combined(c) = Unknown
              ELSE Min(scores) <= Combined(c).score /\ Combined(c).score <= Max(scores)
<1> DEFINE dims == Included(c)
           scores == {c[d].score : d \in dims}
           w == NETWORK_RISK_WEIGHTS
           v == [d \in dims |-> c[d].score]
           p == [d \in dims |-> NETWORK_RISK_WEIGHTS[d] * c[d].score]
<1>1. IsFiniteSet(dims) /\ dims \subseteq Dimensions
  BY DimensionsAreFinite, FS_Subset DEF Included
<1>2. \A d \in dims : c[d].score \in Int
  BY Verdicts DEF Included
<1>3. CASE dims = {}
  BY <1>3 DEF Combined
<1>4. CASE dims # {}
  <2>1. scores = {v[d] : d \in dims} /\ scores # {} /\ scores \subseteq Int
    BY <1>2, <1>4
  <2>2. IsFiniteSet(scores)
    BY <1>1, <2>1, ImageIsFinite
  <2> DEFINE lo == Min(scores)
             hi == Max(scores)
  <2> HIDE DEF scores
  <2>3. lo \in Int /\ hi \in Int /\ \A n \in scores : lo <= n /\ n <= hi
    BY <2>1, <2>2, MinOfFinite, MaxOfFinite
  <2>4. \A d \in dims : w[d] \in Nat \ {0}
    BY <1>1 DEF NETWORK_RISK_WEIGHTS
  <2>5. \A d \in dims : v[d] \in lo..hi /\ p[d] = w[d] * v[d]
    BY <1>2, <2>1, <2>3
  <2> HIDE DEF lo, hi, w, v, p, dims
  <2> DEFINE total == SumFunctionOnSet(w, dims)
             sum == SumFunctionOnSet(p, dims)
  <2>6. total \in Nat /\ sum \in Int /\ lo * total <= sum /\ sum <= hi * total
    BY <1>1, <2>3, <2>4, <2>5, WeightedSum
  <2>7. total # 0
    <3>1. Cardinality(dims) * 1 <= 1 * total
      <4>1. \A d \in dims : w[d] \in Int /\ 1 <= 1 * w[d]
        BY <2>4
      <4> QED BY <1>1, <4>1, SumAtLeast
    <3>2. Cardinality(dims) \in Nat /\ Cardinality(dims) # 0
      BY <1>1, <1>4, FS_CardinalityType, FS_EmptySet
    <3> QED BY <2>6, <3>1, <3>2
  <2> HIDE DEF total, sum
  <2>8. lo <= sum \div total /\ sum \div total <= hi
    BY <2>3, <2>6, <2>7, QuotientBetween
  <2>9. Combined(c).score = sum \div total
    BY <1>4 DEF Combined, Weighted, WeightOf, Scored, sum, total, w, p, dims
  <2> QED BY <2>1, <2>8, <2>9 DEF lo, hi, scores, dims
<1> QED BY <1>3, <1>4

LEMMA RouteTakesTime ==
    ASSUME NEW a, NEW b, NEW N, NEW R, NEW leg \in Route(a, b, "drive", N, R)
    PROVE  leg.travel_time_s \in Nat
<1> DEFINE G == Graph("drive", N, R)
<1>1. ASSUME NEW e \in DOMAIN G
      PROVE  G[e].travel_time \in Nat
  <2> DEFINE usable == Usable("drive", N, R)
             same == {i \in usable : Pair(i) = e}
  <2>1. PICK n \in Nat : DOMAIN RouteEdges = 1..n
    BY CampusAssumption
  <2>2. IsFiniteSet(same) /\ same \subseteq DOMAIN RouteEdges
    BY <2>1, FS_Interval, FS_Subset DEF Usable
  <2>3. same # {} /\ G[e] = RouteEdges[Max(same)]
    BY <1>1 DEF Graph, GraphOf
  <2> HIDE DEF same, G
  <2>4. Max(same) \in DOMAIN RouteEdges
    BY <2>1, <2>2, <2>3, MaxOfFinite
  <2>5. RouteEdges[Max(same)] \in EdgeRecord
    BY <2>4, CampusAssumption
  <2> QED BY <2>3, <2>5 DEF EdgeRecord
<1>2. CASE a = b
  BY <1>2 DEF Route
<1>3. CASE a # b
  <2>1. PICK p \in PathsTo(G, a, {b}) : leg = Leg(G, p)
    BY <1>3 DEF Route, LegsTo, Shortest
  <2> DEFINE times == [i \in 1..Len(p) - 1 |-> G[<<p[i], p[i + 1]>>].travel_time]
  <2>2. leg.travel_time_s = SumFunction(times)
    BY <2>1 DEF Leg, Edges
  <2>3. Len(p) \in Nat
    <3>1. PICK n \in 1..Cardinality(Nodes) : p \in [1..n -> Nodes]
      BY <2>1 DEF PathsTo, NodePaths
    <3>2. n \in Nat
      BY <3>1
    <3>3. p \in Seq(Nodes)
      BY <3>1, <3>2
    <3> QED BY <3>3
  <2>4. \A i \in 1..Len(p) - 1 : times[i] \in Nat
    <3>1. \A i \in 1..Len(p) - 1 : <<p[i], p[i + 1]>> \in DOMAIN G
      BY <2>1 DEF PathsTo
    <3> QED BY <1>1, <3>1
  <2>5. IsFiniteSet(1..Len(p) - 1)
    BY <2>3, FS_Interval
  <2> HIDE DEF times
  <2>6. SumFunctionOnSet(times, 1..Len(p) - 1) \in Nat
    BY <2>4, <2>5, SumOfNaturals
  <2>7. DOMAIN times = 1..Len(p) - 1
    BY DEF times
  <2> QED BY <2>2, <2>6, <2>7 DEF SumFunction
<1> QED BY <1>2, <1>3

LEMMA ForecastsAre ==
    ASSUME NEW cached, NEW h, NEW mae, NEW capacity, NEW f \in Forecasts(cached, h, mae, capacity)
    PROVE  IsForecast(f)
  BY DEF Forecasts, Forecast, Unavailable, IsForecast

----------------------------------------------------------------------------
(* What the tables and the request hold.                                    *)

WasNotOpen(l) == \E c \in since[l] : c[1] # "open"

Rows == lots \in [Lots -> LotRow] /\ gates \in [Gates -> GateRow] /\ DOMAIN roads = Roads

Tables ==
    /\ predicted \in [Lots -> Estimates \cup {Nothing}]
    /\ stored \subseteq Lots \X Estimates
    /\ trained \subseteq Lots
    /\ registry \in [Lots -> Cached]
    /\ updates \in 0..MaxUpdates /\ requests \in 0..MaxRequests

Placed ==
    /\ pc \in {"idle", "gate", "lot", "nodes", "roads", "assess", "sync", "resolve", "available", "answered"}
    /\ gate \in Gates \cup {Nothing}
    /\ closedSeen \subseteq Gates \cup Lots

\* The lot being assessed: its row and its forecast.
Assessing ==
    /\ IsForecast(prediction) /\ average \in Estimates \cup {Nothing}
    /\ pc = "sync" => prediction.point_estimate \in Estimates
    /\ pc \in {"sync", "resolve"} /\ Scoring =>
           lotSeen \in LotRow /\ (lotSeen.status # "open" => WasNotOpen(First(left)))

\* The lots already assessed.
Rating ==
    /\ \A l \in Lots : evaluations[l].travel_time_s \in Nat /\ evaluations[l].pct \in Int \cup {Nothing}
    /\ kind = "optimizer" /\ pc \in {"assess", "sync", "resolve"} =>
           \A l \in Feasible \ left :
               /\ evaluations[l].overflow \in Verdict
               /\ evaluations[l].overflow = NotAccepting => WasNotOpen(l)

IsAnswer(a) ==
    \/ a.outcome \in {"none_yet", "no_feasible_lot", "risk", "error"} /\ a.best = Nothing
    \/ a.outcome = "lot" /\ a.best \in Lots

Answered ==
    /\ IsAnswer(answer)
    /\ answer # NoAnswer => pc = "answered"
    /\ FailsOnlyWhenCandidateCloses /\ NotDominated

----------------------------------------------------------------------------
(* The tables.                                                              *)

LEMMA RowsStep ==
    ASSUME Rows, [Next]_vars
    PROVE  Rows'
<1> USE DEF Rows
<1>1. CASE Others
  <2>1. CASE \E l \in Lots : \E row \in LotRows[l] : UpdateLot(l, row)
    BY <2>1, RowsAssumption DEF UpdateLot
  <2>2. CASE \E g \in Gates : \E row \in GateRows[g] : UpdateGate(g, row)
    BY <2>2, RowsAssumption DEF UpdateGate
  <2>3. CASE \E r \in Roads : \E status \in RoadStatuses[r] : UpdateRoad(r, status)
    BY <2>3 DEF UpdateRoad
  <2> QED BY <1>1, <2>1, <2>2, <2>3 DEF Others
<1>2. CASE ~Others
  <2>1. UNCHANGED twin
    BY <1>2, Steps, IdleStep, AnsweringStep, EndStep DEF Begin, Start, StartRisk
  <2> QED BY <2>1 DEF twin
<1> QED BY <1>1, <1>2

\* Where the tables are written.
LEMMA TablesStep ==
    ASSUME Tables, Assessing, Flow, [Next]_vars
    PROVE  Tables'
<1> DEFINE l == First(left)
<1> USE DEF Tables
<1>1. CASE Begin
  BY <1>1, RequestsAssumption DEF Begin, Start, StartRisk, Asked, server
<1>2. CASE Predict
  <2>1. l \in Lots /\ left # {}
    BY <1>2, FirstIn DEF Predict, Flow
  <2> DEFINE cached == Get(registry[l], l \in trained)
  <2>2. /\ registry' = [registry EXCEPT ![l] = cached]
        /\ UNCHANGED <<predicted, trained, updates, requests>>
    BY <1>2 DEF Predict
  <2>3. stored' = stored \/ \E f : IsForecast(f) /\ Store(l, f)
    BY <1>2, ForecastsAre DEF Predict
  <2> HIDE DEF l
  <2>4. cached \in Cached
    BY <2>1 DEF Get, Cached
  <2> HIDE DEF cached
  <2>5. registry' \in [Lots -> Cached]
    BY <2>1, <2>2, <2>4
  <2>6. stored' \subseteq Lots \X Estimates
    BY <2>1, <2>3 DEF Store, IsForecast
  <2> QED BY <2>2, <2>5, <2>6
<1>3. CASE SyncForecast
  <2>1. l \in Lots /\ prediction.point_estimate \in Estimates
    BY <1>3, FirstIn DEF SyncForecast, Flow, Assessing
  <2>2. /\ predicted' = [predicted EXCEPT ![l] = prediction.point_estimate]
        /\ UNCHANGED <<registry, stored, trained, updates, requests>>
    BY <1>3 DEF SyncForecast
  <2> HIDE DEF l
  <2> QED BY <2>1, <2>2
<1>4. CASE Answering /\ ~Predict /\ ~SyncForecast
  <2>1. UNCHANGED server
    BY <1>4 DEF Answering, ReadGate, CheckLot, ReadClosedNodes, RouteToLot, Choose, TimeOut, AssessClosed,
           Resolve, Score, ChoosePredicted, ReadAvailable, RouteToNearestLot
  <2> QED BY <1>4, <2>1, AnsweringStep DEF server
<1>5. CASE Close
  BY <1>5 DEF Close, server
<1>6. CASE Restart
  BY <1>6 DEF Restart, Cached
<1>7. CASE Others
  <2>1. UNCHANGED <<server, trained, requests>> /\ Changed
    BY <1>7 DEF Others, UpdateLot, UpdateGate, UpdateRoad, Changed
  <2> QED BY <2>1, RequestsAssumption DEF server, Changed
<1>8. CASE \E m \in Lots : Train(m)
  BY <1>8, RequestsAssumption DEF Train, server, Changed
<1>9. CASE UNCHANGED vars
  BY <1>9 DEF vars, server
<1> QED BY <1>1, <1>2, <1>3, <1>4, <1>5, <1>6, <1>7, <1>8, <1>9, Steps

LEMMA PlacedStep ==
    ASSUME Placed, [Next]_vars
    PROVE  Placed'
<1> USE DEF Placed
<1>1. CASE Begin
  BY <1>1 DEF Begin, Start, StartRisk
<1>2. CASE Answering
  <2>1. gate' = gate
    BY <1>2, AnsweringStep
  <2>2. CASE ReadGate \/ CheckLot \/ RouteToLot \/ AssessClosed \/ SyncForecast \/ ReadAvailable
    BY <2>1, <2>2 DEF ReadGate, CheckLot, RouteToLot, AssessClosed, SyncForecast, ReadAvailable
  <2>3. CASE ReadClosedNodes
    <3>1. HeldClosed \subseteq Lots
      BY CampusAssumption, DistinctIds DEF HeldClosed, Last, Lots, Range
    <3> QED BY <2>1, <2>3, <3>1 DEF ReadClosedNodes
  <2>4. CASE Choose \/ TimeOut \/ Score \/ ChoosePredicted \/ RouteToNearestLot
    BY <2>1, <2>4 DEF Choose, TimeOut, Score, ChoosePredicted, RouteToNearestLot, Reply
  <2>5. CASE Predict \/ Resolve
    BY <2>1, <2>5 DEF Predict, Store, Resolve, Reply
  <2> QED BY <1>2, <2>2, <2>3, <2>4, <2>5 DEF Answering
<1>3. CASE Close \/ Restart
  BY <1>3, EndStep
<1>4. CASE Others \/ UNCHANGED vars \/ \E l \in Lots : Train(l)
  BY <1>4, OthersStep, IdleStep DEF request
<1> QED BY <1>1, <1>2, <1>3, <1>4, Steps

----------------------------------------------------------------------------
(* Assessing candidates.                                                    *)

\* What was not open stays so to the end of the request.
LEMMA StillNotOpen ==
    ASSUME NEW l \in Lots, WasNotOpen(l), Tracked, [Next]_vars, pc # "idle", pc' # "idle"
    PROVE  WasNotOpen(l)'
<1>1. since[l] \subseteq since'[l]
  BY TrackedStep DEF Entities
<1> QED BY <1>1 DEF WasNotOpen

LEMMA SeenNotOpen ==
    ASSUME NEW l \in Lots, Tracked, pc # "idle", lots[l].status # "open"
    PROVE  WasNotOpen(l)
<1>1. Condition(l) \in since[l] /\ Condition(l)[1] = lots[l].status
  BY DEF Tracked, Entities, Condition, Status
<1> QED BY <1>1 DEF WasNotOpen

LEMMA AssessingStep ==
    ASSUME Assessing, Flow, Tracked, Rows, [Next]_vars
    PROVE  Assessing'
<1> USE DEF Assessing
<1>0. IsForecast(Unavailable)
  BY DEF IsForecast, Unavailable
\* Where nothing is being assessed.
<1>1. ASSUME pc' \notin {"sync", "resolve"},
             UNCHANGED <<prediction, average>> \/ (prediction' = Unavailable /\ average' = Nothing)
      PROVE  Assessing'
  BY <1>0, <1>1 DEF IsForecast
<1>2. CASE Begin
  BY <1>1, <1>2 DEF Begin, Start, StartRisk
<1>3. CASE ReadGate \/ CheckLot \/ ReadClosedNodes \/ RouteToLot \/ ReadAvailable
  BY <1>1, <1>3 DEF ReadGate, CheckLot, ReadClosedNodes, RouteToLot, ReadAvailable
<1>4. CASE Choose \/ TimeOut \/ Score \/ ChoosePredicted \/ RouteToNearestLot
  <2>1. pc' \notin {"sync", "resolve"}
    BY <1>4 DEF Choose, TimeOut, Score, ChoosePredicted, RouteToNearestLot, Reply
  <2>2. UNCHANGED <<prediction, average>>
    BY <1>4 DEF Choose, TimeOut, Score, ChoosePredicted, RouteToNearestLot
  <2> QED BY <1>1, <2>1, <2>2
<1>5. CASE Resolve
  <2>1. pc' \notin {"sync", "resolve"} /\ prediction' = Unavailable /\ average' = Nothing
    BY <1>5 DEF Resolve, Reply
  <2> QED BY <1>1, <2>1
<1>6. CASE Close \/ Restart
  BY <1>1, <1>6, EndStep
<1>7. CASE AssessClosed
  <2> DEFINE l == First(left)
  <2>1. /\ l \in Lots /\ lots[l].status # "open" /\ lotSeen' = lots[l]
        /\ pc = "assess" /\ pc' = "resolve" /\ UNCHANGED <<prediction, left>>
    BY <1>7, FirstIn DEF AssessClosed, Flow
  <2>2. average' \in Estimates \cup {Nothing}
    BY <1>7 DEF AssessClosed, Histories
  <2>3. First(left)' = l /\ since' = since
    BY <1>7, <2>1 DEF AssessClosed, First
  <2> HIDE DEF l
  <2>4. WasNotOpen(l) /\ lots[l] \in LotRow
    BY <2>1, SeenNotOpen DEF Rows
  <2> QED BY <2>1, <2>2, <2>3, <2>4 DEF IsForecast, WasNotOpen
<1>8. CASE Predict
  <2> DEFINE l == First(left)
  <2>1. /\ l \in Lots /\ (Scoring => lotSeen' = lots[l] /\ lots[l].status = "open")
        /\ Scoring' = Scoring
    BY <1>8, FirstIn DEF Predict, Flow, Scoring
  <2>2. PICK f : /\ IsForecast(f) /\ prediction' = f
                 /\ \/ Reply("error", Nothing, FALSE)
                    \/ Store(l, f)
    BY <1>8, ForecastsAre DEF Predict
  <2>3. average' \in Estimates \cup {Nothing}
    BY <1>8 DEF Predict, Histories
  <2> HIDE DEF l
  <2>4. lots[l] \in LotRow
    BY <2>1 DEF Rows
  <2>5. pc' = "sync" => f.point_estimate \in Estimates
    BY <2>2 DEF Store, Reply, IsForecast
  <2>6. IsForecast(prediction)'
    BY <2>2 DEF IsForecast
  <2> QED BY <2>1, <2>2, <2>3, <2>4, <2>5, <2>6
<1>9. CASE SyncForecast
  <2>1. /\ pc = "sync" /\ pc' = "resolve"
        /\ UNCHANGED <<prediction, average, lotSeen, kind, left, since>>
    BY <1>9 DEF SyncForecast
  <2>2. First(left)' = First(left) /\ Scoring' = Scoring
    BY <2>1 DEF First, Scoring
  <2> QED BY <2>1, <2>2 DEF IsForecast, WasNotOpen
<1>10. CASE Others \/ UNCHANGED vars \/ \E l \in Lots : Train(l)
  <2>1. UNCHANGED <<pc, prediction, average, lotSeen, kind, left>>
    BY <1>10, OthersStep, IdleStep DEF request
  <2>2. First(left)' = First(left) /\ Scoring' = Scoring
    BY <2>1 DEF First, Scoring
  <2>3. pc \in {"sync", "resolve"} => First(left) \in Lots
    BY FirstIn DEF Flow
  <2>4. pc \in {"sync", "resolve"} /\ WasNotOpen(First(left)) => WasNotOpen(First(left))'
    BY <2>1, <2>3, StillNotOpen
  <2>5. pc' \in {"sync", "resolve"} /\ Scoring' =>
            lotSeen' \in LotRow /\ (lotSeen'.status # "open" => WasNotOpen(First(left))')
    BY <2>1, <2>2, <2>4
  <2> QED BY <2>1, <2>5 DEF IsForecast
<1> QED BY <1>2, <1>3, <1>4, <1>5, <1>6, <1>7, <1>8, <1>9, <1>10, Steps DEF Answering

LEMMA ComponentsVerdicts ==
    ASSUME Assessing, Rows, pc = "resolve", Scoring, NEW l
    PROVE  \A d \in Dimensions : Components(l)[d] \in Verdict
<1>1. lotSeen \in LotRow /\ IsForecast(prediction)
  BY DEF Assessing
<1>2. OverflowRisk(lotSeen, prediction) \in Verdict
  BY <1>1, OverflowVerdict
<1>3. GateQueueRisk({gates[g].queue : g \in Gates}) \in Verdict
  BY QueueVerdict DEF Rows
<1>4. RoadCongestionRisk({}) \in Verdict
  BY Verdicts DEF RoadCongestionRisk
<1>5. SearchRisk(lotSeen, [m \in Lots \ {l} |-> lots[m]]) \in Verdict
  BY <1>1, SearchVerdict
<1> QED BY <1>2, <1>3, <1>4, <1>5 DEF Components, Dimensions

\* The one step that rates a lot.
LEMMA ResolveRates ==
    ASSUME Resolve, kind # "risk", Flow, Assessing, Rows
    PROVE  /\ First(left) \in Lots
           /\ \E p \in Int \cup {Nothing} : \E src, o :
                 /\ evaluations' = [evaluations EXCEPT ![First(left)] = Rated(@, <<p, src>>, o)]
                 /\ Scoring => o = OverflowRisk(lotSeen, prediction)
<1> DEFINE l == First(left)
<1>1. l \in Lots
  BY FirstIn DEF Flow, Resolve
<1>2. \E p \in Int \cup {Nothing} : \E src : Resolved(l) = <<p, src>>
  <2> DEFINE capacity == lots[l].usable_capacity
             pct(n) == (100 * n) \div capacity
  <2>1. lots[l] \in LotRow
    BY <1>1 DEF Rows
  <2>2. capacity \in Nat /\ lots[l].occupied \in Nat \cup {Nothing}
    BY <2>1 DEF LotRow
  <2> HIDE DEF capacity
  <2>3. ASSUME NEW n \in Int, capacity > 0 PROVE pct(n) \in Int
    <3>1. 100 * n \in Int /\ capacity \in Nat \ {0}
      BY <2>2, <2>3
    <3> QED BY <3>1, Division
  <2>4. /\ prediction.point_estimate # Nothing => prediction.point_estimate \in Int
        /\ average # Nothing => average \in Int
    BY EstimatesAssumption DEF Assessing, IsForecast
  <2>5. Occupied(lots[l]) => capacity > 0 /\ lots[l].occupied \in Int
    BY <2>2 DEF Occupied, capacity
  <2> HIDE DEF pct, l
  <2>6. \/ Resolved(l) = <<pct(prediction.point_estimate), "model">>
           /\ prediction.point_estimate # Nothing /\ capacity > 0
        \/ Resolved(l) = <<pct(average), "historical_average_fallback">> /\ average # Nothing /\ capacity > 0
        \/ Resolved(l) = <<pct(lots[l].occupied), "current_state_fallback">> /\ Occupied(lots[l])
        \/ Resolved(l) = <<Nothing, "unavailable">>
    BY DEF Resolved, pct, capacity
  <2> QED BY <2>3, <2>4, <2>5, <2>6
<1>3. PICK o : /\ evaluations' = [evaluations EXCEPT ![l] = Rated(@, Resolved(l), o)]
               /\ Scoring => o = OverflowRisk(lotSeen, prediction)
  <2>1. CASE Scoring
    <3>1. /\ risk' = Assessed(Components(l))
          /\ evaluations' = [evaluations EXCEPT ![l] = Rated(@, Resolved(l), risk'.components.overflow)]
      BY <2>1 DEF Resolve
    <3>2. risk'.components.overflow = OverflowRisk(lotSeen, prediction)
      BY <3>1 DEF Assessed, Components
    <3> HIDE DEF l
    <3> QED BY <3>1, <3>2
  <2>2. CASE ~Scoring
    BY <2>2 DEF Resolve
  <2> QED BY <2>1, <2>2
<1> QED BY <1>1, <1>2, <1>3

LEMMA RatingStep ==
    ASSUME Rating, Assessing, Flow, Tracked, Rows, [Next]_vars
    PROVE  Rating'
<1> DEFINE Rated0 == \A l \in Lots : /\ evaluations[l].travel_time_s \in Nat
                                     /\ evaluations[l].pct \in Int \cup {Nothing}
           l0 == First(left)
<1> USE DEF Rating
\* Where no lot is rated, or no lot has been.
<1>1. ASSUME UNCHANGED evaluations, pc' \notin {"assess", "sync", "resolve"} \/ kind' # "optimizer"
      PROVE  Rating'
  BY <1>1
<1>2. ASSUME UNCHANGED <<evaluations, kind, left>>, pc \in {"assess", "sync", "resolve"},
             \A l \in Lots : WasNotOpen(l) => WasNotOpen(l)'
      PROVE  Rating'
  BY <1>2 DEF Feasible
<1>3. CASE Begin
  <2>1. UNCHANGED evaluations /\ (pc' \in {"available", "gate"} \/ kind' = "risk")
    BY <1>3 DEF Begin, Start, StartRisk
  <2> QED BY <1>1, <2>1
<1>4. CASE ReadGate \/ CheckLot \/ ReadClosedNodes \/ ReadAvailable
  BY <1>1, <1>4 DEF ReadGate, CheckLot, ReadClosedNodes, ReadAvailable
<1>5. CASE RouteToLot
  <2>1. pc' = "lot" /\ l0 \in Lots
    BY <1>5, FirstIn DEF RouteToLot, Flow
  <2>2. CASE UNCHANGED evaluations
    BY <1>1, <2>1, <2>2
  <2>3. CASE ~UNCHANGED evaluations
    <3>1. PICK leg \in Route(gate, l0, "drive", closedSeen, ClosedRoads) :
              evaluations' = [evaluations EXCEPT ![l0] = Reached(evaluations[l0], leg)]
      BY <1>5, <2>3 DEF RouteToLot
    <3>2. leg.travel_time_s \in Nat
      BY RouteTakesTime
    <3> HIDE DEF l0
    <3>3. IsEvaluation(evaluations[l0]) /\ DOMAIN evaluations = Lots
      BY <2>1 DEF Flow, Evaluated
    <3>4. /\ Reached(evaluations[l0], leg).travel_time_s = leg.travel_time_s
          /\ Reached(evaluations[l0], leg).pct = evaluations[l0].pct
      BY <3>3 DEF Reached, IsEvaluation
    <3>5. Rated0'
      BY <2>1, <3>1, <3>2, <3>3, <3>4
    <3> QED BY <2>1, <3>5
  <2> QED BY <2>2, <2>3
<1>6. CASE Choose
  <2>1. UNCHANGED <<evaluations, kind>>
    BY <1>6 DEF Choose
  <2>2. pc' = "answered" \/ left' = Feasible
    BY <1>6 DEF Choose, Reply
  <2>3. Feasible' = Feasible
    BY <2>1 DEF Feasible
  <2>4. CASE pc' = "answered"
    BY <1>1, <2>1, <2>4
  <2>5. CASE left' = Feasible
    <3>1. Feasible' \ left' = {}
      BY <2>3, <2>5
    <3> QED BY <2>1, <3>1
  <2> QED BY <2>2, <2>4, <2>5
<1>7. CASE TimeOut \/ Score \/ ChoosePredicted \/ RouteToNearestLot
  <2>1. pc' = "answered"
    BY <1>7 DEF TimeOut, Score, ChoosePredicted, RouteToNearestLot, Reply
  <2>2. UNCHANGED evaluations
    BY <1>7 DEF TimeOut, Score, ChoosePredicted, RouteToNearestLot
  <2> QED BY <1>1, <2>1, <2>2
<1>8. CASE AssessClosed \/ Predict \/ SyncForecast
  <2>1. UNCHANGED <<evaluations, kind, left, since>> /\ pc \in {"assess", "sync", "resolve"}
    BY <1>8 DEF AssessClosed, Predict, SyncForecast
  <2> QED BY <1>2, <2>1 DEF WasNotOpen
<1>9. CASE Resolve
  <2>1. CASE kind = "risk"
    <3>1. UNCHANGED <<evaluations, kind>>
      BY <1>9, <2>1 DEF Resolve
    <3> QED BY <1>1, <2>1, <3>1
  <2>2. CASE kind # "risk"
    <3>1. PICK p \in Int \cup {Nothing} : \E src, o :
              /\ evaluations' = [evaluations EXCEPT ![l0] = Rated(@, <<p, src>>, o)]
              /\ Scoring => o = OverflowRisk(lotSeen, prediction)
      BY <1>9, <2>2, ResolveRates
    <3>2. PICK src, o : /\ evaluations' = [evaluations EXCEPT ![l0] = Rated(@, <<p, src>>, o)]
                        /\ Scoring => o = OverflowRisk(lotSeen, prediction)
      BY <3>1
    <3>3. l0 \in Lots /\ pc = "resolve" /\ left' = left \ {l0} /\ UNCHANGED <<kind, since>>
      BY <1>9, <2>2, ResolveRates DEF Resolve
    <3>4. kind = "optimizer" => o \in Verdict /\ (o = NotAccepting => WasNotOpen(l0))
      <4>1. Scoring => /\ lotSeen \in LotRow /\ IsForecast(prediction)
                       /\ (lotSeen.status # "open" => WasNotOpen(l0))
        BY <3>3 DEF Assessing
      <4>2. Scoring => /\ OverflowRisk(lotSeen, prediction) \in Verdict
                       /\ (OverflowRisk(lotSeen, prediction) = NotAccepting => lotSeen.status # "open")
        BY <4>1, OverflowVerdict
      <4> QED BY <3>2, <4>1, <4>2 DEF Scoring
    <3> HIDE DEF l0
    <3> DEFINE e == Rated(evaluations[l0], <<p, src>>, o)
    <3>5. IsEvaluation(evaluations[l0]) /\ DOMAIN evaluations = Lots
      BY <3>3 DEF Flow, Evaluated
    <3>6. /\ e.travel_time_s = evaluations[l0].travel_time_s /\ e.pct = p /\ e.overflow = o
          /\ e.feasible = evaluations[l0].feasible
      BY <3>5 DEF Rated, IsEvaluation
    <3>7. evaluations'[l0] = e /\ \A l \in Lots \ {l0} : evaluations'[l] = evaluations[l]
      BY <3>2, <3>3, <3>5
    <3> HIDE DEF e
    <3>8. Rated0'
      BY <3>3, <3>6, <3>7
    <3>9. Feasible' \ left' \subseteq (Feasible \ left) \cup {l0}
      BY <3>3, <3>6, <3>7 DEF Feasible
    <3>10. \A l : WasNotOpen(l)' = WasNotOpen(l)
      BY <3>3 DEF WasNotOpen
    <3>11. ASSUME kind = "optimizer", NEW l \in Feasible' \ left'
           PROVE  evaluations'[l].overflow \in Verdict /\ (evaluations'[l].overflow = NotAccepting => WasNotOpen(l)')
      <4>1. CASE l = l0
        BY <3>4, <3>6, <3>7, <3>10, <3>11, <4>1
      <4>2. CASE l # l0
        <5>1. l \in Lots /\ l \in Feasible \ left
          BY <3>9, <4>2 DEF Feasible
        <5> QED BY <3>3, <3>7, <3>10, <3>11, <4>2, <5>1
      <4> QED BY <4>1, <4>2
    <3> QED BY <3>3, <3>8, <3>11
  <2> QED BY <2>1, <2>2
<1>10. CASE Close \/ Restart
  <2>1. evaluations' = NoEvaluations /\ pc' = "idle"
    BY <1>10, EndStep
  <2> QED BY <2>1 DEF NoEvaluations, NoEvaluation
<1>11. CASE Others \/ UNCHANGED vars \/ \E l \in Lots : Train(l)
  <2>1. UNCHANGED <<evaluations, kind, left, pc>>
    BY <1>11, OthersStep, IdleStep DEF request
  <2>2. CASE pc \in {"assess", "sync", "resolve"}
    <3>1. \A l \in Lots : WasNotOpen(l) => WasNotOpen(l)'
      BY <2>1, <2>2, StillNotOpen
    <3> QED BY <1>2, <2>1, <2>2, <3>1
  <2>3. CASE pc \notin {"assess", "sync", "resolve"}
    BY <1>1, <2>1, <2>3
  <2> QED BY <2>2, <2>3
<1> QED BY <1>3, <1>4, <1>5, <1>6, <1>7, <1>8, <1>9, <1>10, <1>11, Steps DEF Answering

----------------------------------------------------------------------------
(* Scoring candidates.                                                      *)

LEMMA Scales ==
    ASSUME NEW k \in Nat \ {0}, NEW a \in Int, NEW b \in Int, a >= b
    PROVE  /\ k * a \in Int /\ k * b \in Int /\ k * a >= k * b
           /\ a > b => k * a > k * b
  OBVIOUS

LEMMA Positive ==
    ASSUME NEW a \in Nat \ {0}, NEW b \in Nat \ {0}, NEW c \in Nat \ {0}, NEW e \in Nat \ {0}
    PROVE  a * b * c * e \in Nat \ {0}
<1>1. a * b \in Nat \ {0}
  OBVIOUS
<1>2. (a * b) * c \in Nat \ {0}
  <2> DEFINE ab == a * b
  <2>1. ab \in Nat \ {0}
    BY <1>1
  <2> HIDE DEF ab
  <2>2. ab * c \in Nat \ {0}
    BY <2>1
  <2> QED BY <2>2 DEF ab
<1> DEFINE abc == (a * b) * c
<1>3. abc \in Nat \ {0}
  BY <1>2
<1> HIDE DEF abc
<1>4. abc * e \in Nat \ {0}
  BY <1>3
<1> QED BY <1>4 DEF abc

IsRaw(r) == r.w2 \in Int /\ r.w3 \in Int /\ r.w4 \in Int /\ r.w5 \in Int
AtLeast(r, s) == r.w2 >= s.w2 /\ r.w3 >= s.w3 /\ r.w4 >= s.w4 /\ r.w5 >= s.w5
SomeMore(r, s) == r.w2 > s.w2 \/ r.w3 > s.w3 \/ r.w4 > s.w4 \/ r.w5 > s.w5

\* Every profile weighs every term, so that no term can be made up for.
LEMMA ObjectiveGrows ==
    ASSUME NEW r, NEW s, IsRaw(r), IsRaw(s), AtLeast(r, s),
           NEW d, \A t \in Terms : d[t] \in Nat \ {0}
    PROVE  /\ ObjectiveJ(r, d) \in Int /\ ObjectiveJ(s, d) \in Int
           /\ ObjectiveJ(r, d) >= ObjectiveJ(s, d)
           /\ SomeMore(r, s) => ObjectiveJ(r, d) > ObjectiveJ(s, d)
<1> DEFINE k2 == Weights.w2 * d.w3 * d.w4 * d.w5
           k3 == Weights.w3 * d.w2 * d.w4 * d.w5
           k4 == Weights.w4 * d.w2 * d.w3 * d.w5
           k5 == Weights.w5 * d.w2 * d.w3 * d.w4
<1>1. /\ d.w2 \in Nat \ {0} /\ d.w3 \in Nat \ {0} /\ d.w4 \in Nat \ {0} /\ d.w5 \in Nat \ {0}
      /\ Weights.w2 \in Nat \ {0} /\ Weights.w3 \in Nat \ {0}
      /\ Weights.w4 \in Nat \ {0} /\ Weights.w5 \in Nat \ {0}
  BY RequestsAssumption DEF Terms
<1>2. k2 \in Nat \ {0} /\ k3 \in Nat \ {0} /\ k4 \in Nat \ {0} /\ k5 \in Nat \ {0}
  BY <1>1, Positive
<1>3. ASSUME NEW q, IsRaw(q)
      PROVE  ObjectiveJ(q, d) = k2 * q.w2 + k3 * q.w3 + k4 * q.w4 + k5 * q.w5
  BY <1>1, <1>3 DEF ObjectiveJ, IsRaw
<1> HIDE DEF k2, k3, k4, k5
<1>4. /\ k2 * r.w2 \in Int /\ k2 * s.w2 \in Int /\ k2 * r.w2 >= k2 * s.w2
      /\ r.w2 > s.w2 => k2 * r.w2 > k2 * s.w2
  BY <1>2, Scales DEF IsRaw, AtLeast
<1>5. /\ k3 * r.w3 \in Int /\ k3 * s.w3 \in Int /\ k3 * r.w3 >= k3 * s.w3
      /\ r.w3 > s.w3 => k3 * r.w3 > k3 * s.w3
  BY <1>2, Scales DEF IsRaw, AtLeast
<1>6. /\ k4 * r.w4 \in Int /\ k4 * s.w4 \in Int /\ k4 * r.w4 >= k4 * s.w4
      /\ r.w4 > s.w4 => k4 * r.w4 > k4 * s.w4
  BY <1>2, Scales DEF IsRaw, AtLeast
<1>7. /\ k5 * r.w5 \in Int /\ k5 * s.w5 \in Int /\ k5 * r.w5 >= k5 * s.w5
      /\ r.w5 > s.w5 => k5 * r.w5 > k5 * s.w5
  BY <1>2, Scales DEF IsRaw, AtLeast
<1> QED BY <1>3, <1>4, <1>5, <1>6, <1>7 DEF SomeMore

LEMMA RawsAre ==
    ASSUME Rating, Unscorable = {}, NEW l \in Feasible,
           \A m \in Feasible : evaluations[m].overflow \in Verdict
    PROVE  IsRaw(Raw(l))
<1>1. /\ Feasible \subseteq Lots /\ Known \subseteq Lots
      /\ \A m \in Known : evaluations[m].pct \in Int
  BY DEF Feasible, Known, Rating
<1>2. IsFiniteSet(Known)
  BY <1>1, LotsAreFinite, FS_Subset
<1>3. SumPct \in Int
  <2> DEFINE f == [m \in Known |-> evaluations[m].pct]
  <2>1. \A m \in Known : f[m] \in Int
    BY <1>1
  <2>2. DOMAIN f = Known /\ SumPct = SumFunction(f)
    BY DEF SumPct
  <2> HIDE DEF f
  <2>3. SumFunctionOnSet(f, Known) \in Int
    BY <1>2, <2>1, SumOfIntegers
  <2> QED BY <2>2, <2>3 DEF SumFunction
<1>4. Count \in Int
  BY <1>2, FS_CardinalityType DEF Count
<1>5. PctOf(l) \in Int
  <2>1. evaluations[l].pct # Nothing => evaluations[l].pct \in Int
    BY <1>1 DEF Rating
  <2> DEFINE pct == evaluations[l].pct
  <2> HIDE DEF pct
  <2>2. pct \in Int => pct * Count \in Int
    BY <1>4
  <2> QED BY <1>3, <2>1, <2>2 DEF PctOf, pct
<1>6. QueueCost(l) \in Int
  <2>1. QueueCost(l) # Nothing /\ evaluations[l].pct \in Int \cup {Nothing}
    BY <1>1 DEF Unscorable, Rating
  <2>2. evaluations[l].overflow \in Verdict
    OBVIOUS
  <2> QED BY <2>1, <2>2, Verdicts DEF QueueCost
<1>7. evaluations[l].travel_time_s \in Int
  BY <1>1 DEF Rating
<1>8. Distance(PctOf(l), SumPct) \in Int
  BY <1>3, <1>5 DEF Distance
<1>9. /\ Raw(l).w2 = QueueCost(l) /\ Raw(l).w3 = evaluations[l].travel_time_s
      /\ Raw(l).w4 = Distance(PctOf(l), SumPct)
      /\ Raw(l).w5 = IF PctOf(l) > 100 * Count THEN PctOf(l) - 100 * Count ELSE 0
  BY DEF Raw
<1>10. Raw(l).w5 \in Int
  BY <1>4, <1>5, <1>9
<1> QED BY <1>6, <1>7, <1>8, <1>9, <1>10 DEF IsRaw

LEMMA DivisorsAre ==
    ASSUME NEW raws, Feasible # {}, \A l \in Feasible : IsRaw(raws[l])
    PROVE  \A t \in Terms : Divisors(raws)[t] \in Nat \ {0}
<1> SUFFICES ASSUME NEW t \in Terms PROVE Divisors(raws)[t] \in Nat \ {0}
  OBVIOUS
<1> DEFINE column == [l \in Feasible |-> raws[l][t]]
           S == {column[l] : l \in Feasible}
<1>1. IsFiniteSet(S)
  <2>1. IsFiniteSet(Feasible)
    BY LotsAreFinite, FS_Subset DEF Feasible
  <2> QED BY <2>1, ImageIsFinite
<1>2. \A l \in Feasible : raws[l][t] \in Int
  BY DEF IsRaw, Terms
<1>3. S \subseteq Int /\ S # {} /\ S = {raws[l][t] : l \in Feasible}
  BY <1>2
<1>4. Divisors(raws)[t] = IF Max(S) > 0 THEN Max(S) ELSE 1
  BY <1>3 DEF Divisors
<1> HIDE DEF S
<1>5. Max(S) \in Int
  BY <1>1, <1>3, MaxOfFinite
<1> QED BY <1>4, <1>5

\* The winner of the objective is not worse than any other candidate.
LEMMA BestIsNotWorse ==
    ASSUME Rating, Unscorable = {}, \A m \in Feasible : evaluations[m].overflow \in Verdict,
           NEW l \in Best(Raws, Divisors(Raws)), NEW m \in Feasible, Worse(l, m)
    PROVE  FALSE
<1> DEFINE d == Divisors(Raws)
           r == Raw(l)
           s == Raw(m)
<1>1. l \in Feasible /\ Feasible \subseteq Lots
  BY DEF Best, Firsts, Feasible
<1>2. \A n \in Feasible : Raws[n] = Raw(n) /\ IsRaw(Raw(n))
  BY RawsAre DEF Raws
<1>3. \A t \in Terms : d[t] \in Nat \ {0}
  BY <1>1, <1>2, DivisorsAre
<1>4. \A n \in Feasible : ObjectiveJ(Raws[l], d) <= ObjectiveJ(Raws[n], d)
  BY DEF Best, Firsts
<1>5. IsRaw(r) /\ IsRaw(s) /\ AtLeast(r, s)
  <2>1. \A t \in Terms : r[t] >= s[t]
    BY DEF Worse
  <2> QED BY <1>1, <1>2, <2>1 DEF AtLeast, Terms
<1>6. (\E t \in Terms : r[t] > s[t]) => SomeMore(r, s)
  BY DEF SomeMore, Terms
<1>7. /\ ObjectiveJ(Raws[l], d) = ObjectiveJ(r, d) /\ ObjectiveJ(Raws[m], d) = ObjectiveJ(s, d)
      /\ (\E t \in Terms : r[t] > s[t]) \/ Position(m) < Position(l)
  BY <1>1, <1>2 DEF Worse
<1> HIDE DEF d, r, s
<1>8. /\ ObjectiveJ(r, d) \in Int /\ ObjectiveJ(s, d) \in Int
      /\ ObjectiveJ(r, d) >= ObjectiveJ(s, d)
      /\ SomeMore(r, s) => ObjectiveJ(r, d) > ObjectiveJ(s, d)
  BY <1>3, <1>5, ObjectiveGrows
<1>9. ~SomeMore(r, s) /\ ObjectiveJ(Raws[m], d) = ObjectiveJ(Raws[l], d)
  BY <1>4, <1>7, <1>8
<1>10. Position(l) <= Position(m)
  <2>1. \A n \in Feasible : ObjectiveJ(Raws[m], d) <= ObjectiveJ(Raws[n], d)
    BY <1>4, <1>9
  <2> QED BY <2>1 DEF Best, Firsts, d
<1>11. Position(l) \in Nat /\ Position(m) \in Nat
  <2>1. DOMAIN LotOrder \subseteq Nat
    BY CampusAssumption
  <2> QED BY <1>1, <2>1, PositionIn
<1> QED BY <1>6, <1>7, <1>9, <1>10, <1>11

----------------------------------------------------------------------------
(* Answers.                                                                 *)

LEMMA NoAnswerIs == IsAnswer(NoAnswer) /\ NoAnswer.outcome = "none_yet"
  BY DEF IsAnswer, NoAnswer, Answer

LEMMA LotReply ==
    ASSUME NEW l \in Lots, NEW f, Reply("lot", l, f)
    PROVE  pc' = "answered" /\ IsAnswer(answer') /\ answer'.outcome = "lot" /\ answer'.best = l
  BY DEF Reply, Answer, IsAnswer

LEMMA OtherReply ==
    ASSUME NEW o \in {"no_feasible_lot", "risk", "error"}, Reply(o, Nothing, FALSE)
    PROVE  pc' = "answered" /\ IsAnswer(answer') /\ answer'.outcome = o
  BY DEF Reply, Answer, IsAnswer

\* An optimizer's answer is its fallback, or Score's.
LEMMA ScoreAnswers ==
    ASSUME Rating, Flow, Score
    PROVE  /\ pc' = "answered" /\ IsAnswer(answer') /\ UNCHANGED <<evaluations, since, kind>>
           /\ answer'.outcome = "error" => \E l \in Feasible : WasNotOpen(l)
           /\ answer'.outcome = "lot" => \A m \in Feasible : ~Worse(answer'.best, m)
<1>1. /\ kind = "optimizer" /\ pc = "assess" /\ left = {} /\ UNCHANGED <<evaluations, since, kind>>
      /\ IF Unscorable # {} THEN Reply("error", Nothing, FALSE)
         ELSE \E l \in Best(Raws, Divisors(Raws)) : Reply("lot", l, FALSE)
  BY DEF Score
<1>2. \A l \in Feasible : /\ evaluations[l].overflow \in Verdict
                          /\ evaluations[l].overflow = NotAccepting => WasNotOpen(l)
  BY <1>1 DEF Rating
<1>3. CASE Unscorable # {}
  <2>1. pc' = "answered" /\ IsAnswer(answer') /\ answer'.outcome = "error"
    BY <1>1, <1>3, OtherReply
  <2>2. PICK l \in Feasible : QueueCost(l) = Nothing
    BY <1>3 DEF Unscorable
  <2>3. evaluations[l].overflow = NotAccepting
    <3>1. evaluations[l].overflow \in Verdict /\ Nothing # 0
      BY <1>2, EstimatesAssumption
    <3> QED BY <2>2, <3>1, Verdicts DEF QueueCost
  <2> QED BY <1>1, <1>2, <2>1, <2>3
<1>4. CASE Unscorable = {}
  <2>1. PICK l \in Best(Raws, Divisors(Raws)) : Reply("lot", l, FALSE)
    BY <1>1, <1>4
  <2>2. l \in Lots
    BY DEF Best, Firsts, Feasible
  <2>3. pc' = "answered" /\ IsAnswer(answer') /\ answer'.outcome = "lot" /\ answer'.best = l
    BY <2>1, <2>2, LotReply
  <2>4. \A m \in Feasible : ~Worse(l, m)
    BY <1>2, <1>4, BestIsNotWorse
  <2> QED BY <1>1, <2>3, <2>4
<1> QED BY <1>3, <1>4

\* A forecast fails only for a model whose evaluation is not recorded.
LEMMA PredictAnswers ==
    ASSUME Flow, Tables, Predict
    PROVE  \/ UNCHANGED answer
           \/ /\ pc' = "answered" /\ IsAnswer(answer') /\ answer'.outcome = "error"
              /\ \E l \in Lots \ Recorded : registry'[l] = "loaded"
<1> DEFINE l == First(left)
           cached == Get(registry[l], l \in trained)
<1>1. l \in Lots
  BY FirstIn DEF Flow, Predict
<1>2. /\ registry' = [registry EXCEPT ![l] = cached]
      /\ \/ cached = "loaded" /\ l \notin Recorded /\ Reply("error", Nothing, FALSE)
         \/ UNCHANGED answer
  BY DEF Predict, Store
<1> HIDE DEF l
<1>3. registry'[l] = cached
  BY <1>1, <1>2 DEF Tables
<1> QED BY <1>1, <1>2, <1>3, OtherReply

LEMMA AnsweredStep ==
    ASSUME Answered, Tables, Rating, Flow, Tracked, [Next]_vars
    PROVE  Answered'
<1> USE DEF Answered
<1>1. ASSUME UNCHANGED answer, answer = NoAnswer
      PROVE  Answered'
  BY <1>1, NoAnswerIs DEF FailsOnlyWhenCandidateCloses, NotDominated
\* An answer nothing is claimed about.
<1>2. ASSUME pc' = "answered", IsAnswer(answer'), answer'.outcome # "error",
             kind' # "optimizer" \/ answer'.fallback \/ answer'.outcome # "lot"
      PROVE  Answered'
  BY <1>2 DEF FailsOnlyWhenCandidateCloses, NotDominated
<1>3. CASE Begin
  BY <1>1, <1>3 DEF Begin, Start, StartRisk
<1>4. Answering => pc # "answered"
  BY DEF Answering, ReadGate, CheckLot, ReadClosedNodes, RouteToLot, Choose, TimeOut, AssessClosed,
         Predict, SyncForecast, Resolve, Score, ChoosePredicted, ReadAvailable, RouteToNearestLot
<1>5. CASE ReadGate \/ CheckLot \/ ReadClosedNodes \/ RouteToLot \/ AssessClosed \/ SyncForecast \/ ReadAvailable
  <2>1. UNCHANGED answer /\ answer = NoAnswer
    BY <1>4, <1>5 DEF Answering, ReadGate, CheckLot, ReadClosedNodes, RouteToLot, AssessClosed, SyncForecast, ReadAvailable
  <2> QED BY <1>1, <2>1
<1>6. CASE Choose
  <2>1. CASE UNCHANGED answer
    BY <1>1, <1>4, <1>6, <2>1 DEF Answering
  <2>2. CASE ~UNCHANGED answer
    <3>1. \/ Reply("no_feasible_lot", Nothing, FALSE)
          \/ /\ kind # "optimizer" /\ kind' = kind
             /\ \E l \in Firsts(Feasible) \cup Nearest(Feasible) : Reply("lot", l, FALSE)
      BY <1>6, <2>2 DEF Choose
    <3>2. Firsts(Feasible) \cup Nearest(Feasible) \subseteq Lots
      BY DEF Firsts, Nearest, Feasible
    <3>3. CASE Reply("no_feasible_lot", Nothing, FALSE)
      BY <1>2, <3>3, OtherReply
    <3>4. CASE kind # "optimizer" /\ kind' = kind /\ \E l \in Lots : Reply("lot", l, FALSE)
      BY <1>2, <3>4, LotReply
    <3> QED BY <3>1, <3>2, <3>3, <3>4
  <2> QED BY <2>1, <2>2
<1>7. CASE TimeOut
  <2>1. PICK l \in Nearest(Feasible) : Reply("lot", l, TRUE)
    BY <1>7 DEF TimeOut
  <2>2. l \in Lots
    BY DEF Firsts, Nearest, Feasible
  <2>3. answer'.fallback
    BY <2>1 DEF Reply, Answer
  <2> QED BY <1>2, <2>1, <2>2, <2>3, LotReply
<1>8. CASE Score
  <2>1. /\ pc' = "answered" /\ IsAnswer(answer') /\ UNCHANGED <<evaluations, since, kind>>
        /\ answer'.outcome = "error" => \E l \in Feasible : WasNotOpen(l)
        /\ answer'.outcome = "lot" => \A m \in Feasible : ~Worse(answer'.best, m)
    BY <1>8, ScoreAnswers
  <2>2. Feasible' = Feasible
    BY <2>1 DEF Feasible
  <2>3. FailsOnlyWhenCandidateCloses'
    BY <2>1, <2>2 DEF FailsOnlyWhenCandidateCloses, WasNotOpen
  <2>4. \A l, m : Worse(l, m)' = Worse(l, m)
    BY <2>1, <2>2 DEF Worse, Raw, QueueCost, PctOf, SumPct, Count, Known
  <2>5. NotDominated'
    BY <2>1, <2>2, <2>4 DEF NotDominated
  <2> QED BY <2>1, <2>3, <2>5
<1>9. CASE ChoosePredicted
  <2>1. PICK l \in Feasible : Reply("lot", l, FALSE)
    BY <1>9 DEF ChoosePredicted, Firsts
  <2>2. l \in Lots /\ kind' = "prediction_only"
    BY <1>9 DEF ChoosePredicted, Feasible
  <2> QED BY <1>2, <2>1, <2>2, LotReply
<1>10. CASE RouteToNearestLot
  <2>1. kind' = "nearest_parking"
    BY <1>10 DEF RouteToNearestLot
  <2>2. \/ Reply("no_feasible_lot", Nothing, FALSE)
        \/ \E l \in left : Reply("lot", l, FALSE)
    BY <1>10, NearestIsAWay DEF RouteToNearestLot
  <2>3. left \subseteq Lots
    BY DEF Flow
  <2>4. CASE Reply("no_feasible_lot", Nothing, FALSE)
    BY <1>2, <2>1, <2>4, OtherReply
  <2>5. CASE \E l \in Lots : Reply("lot", l, FALSE)
    BY <1>2, <2>1, <2>5, LotReply
  <2> QED BY <2>2, <2>3, <2>4, <2>5
<1>11. CASE Predict
  <2>1. CASE UNCHANGED answer
    BY <1>1, <1>4, <1>11, <2>1 DEF Answering
  <2>2. CASE ~UNCHANGED answer
    <3>1. /\ pc' = "answered" /\ IsAnswer(answer') /\ answer'.outcome = "error"
          /\ \E l \in Lots \ Recorded : registry'[l] = "loaded"
      BY <1>11, <2>2, PredictAnswers
    <3> QED BY <3>1 DEF FailsOnlyWhenCandidateCloses, NotDominated
  <2> QED BY <2>1, <2>2
<1>12. CASE Resolve
  <2>1. CASE UNCHANGED answer
    BY <1>1, <1>4, <1>12, <2>1 DEF Answering
  <2>2. CASE ~UNCHANGED answer
    <3>1. Reply("risk", Nothing, FALSE)
      BY <1>12, <2>2 DEF Resolve
    <3> QED BY <1>2, <3>1, OtherReply
  <2> QED BY <2>1, <2>2
<1>13. CASE Close \/ Restart
  <2>1. answer' = NoAnswer
    BY <1>13, EndStep
  <2> QED BY <2>1, NoAnswerIs DEF FailsOnlyWhenCandidateCloses, NotDominated
<1>14. CASE Others \/ UNCHANGED vars \/ \E l \in Lots : Train(l)
  <2>1. UNCHANGED <<answer, pc, kind, evaluations, registry>>
    BY <1>14, OthersStep, IdleStep DEF request, server
  <2>2. CASE answer = NoAnswer
    BY <1>1, <2>1, <2>2
  <2>3. CASE pc = "answered"
    <3>1. Feasible' = Feasible
      BY <2>1 DEF Feasible
    <3>2. \A l \in Feasible : WasNotOpen(l) => WasNotOpen(l)'
      BY <2>1, <2>3, StillNotOpen DEF Feasible
    <3>3. FailsOnlyWhenCandidateCloses'
      BY <2>1, <3>1, <3>2 DEF FailsOnlyWhenCandidateCloses, WasNotOpen
    <3>4. \A l, m : Worse(l, m)' = Worse(l, m)
      BY <2>1, <3>1 DEF Worse, Raw, QueueCost, PctOf, SumPct, Count, Known
    <3>5. NotDominated'
      BY <2>1, <3>1, <3>4 DEF NotDominated
    <3> QED BY <2>1, <2>3, <3>3, <3>5
  <2> QED BY <2>2, <2>3
<1> QED BY <1>3, <1>5, <1>6, <1>7, <1>8, <1>9, <1>10, <1>11, <1>12, <1>13, <1>14, Steps DEF Answering

----------------------------------------------------------------------------
(* The invariant.                                                           *)

IInv == Flow /\ Tracked /\ Rows /\ Tables /\ Placed /\ Assessing /\ Rating /\ Answered

LEMMA Invariance == Spec => []IInv
<1>1. ASSUME Init
      PROVE  Rows /\ Tables /\ Placed /\ Assessing /\ Rating /\ Answered
  <2>1. Rows
    BY <1>1, RowsAssumption DEF Init, Rows
  <2>2. Tables /\ Placed
    BY <1>1, RequestsAssumption DEF Init, Tables, Placed, Cached
  <2>3. Assessing
    BY <1>1 DEF Init, Assessing, IsForecast, Unavailable
  <2>4. Rating
    BY <1>1 DEF Init, Rating, NoEvaluations, NoEvaluation
  <2>5. Answered
    BY <1>1, NoAnswerIs DEF Init, Answered, FailsOnlyWhenCandidateCloses, NotDominated
  <2> QED BY <2>1, <2>2, <2>3, <2>4, <2>5
<1>2. Init => IInv
  <2>1. Init => Tracked
    BY DEF Init, Tracked
  <2> QED BY <1>1, <2>1, FlowInit DEF IInv
<1>3. IInv /\ [Next]_vars => IInv'
  BY FlowStep, TrackedStep, RowsStep, TablesStep, PlacedStep, AssessingStep, RatingStep, AnsweredStep DEF IInv
<1> QED BY <1>2, <1>3, PTL DEF Spec

\* Whatever rows other sessions write, and whatever the models estimate, every
\* variable keeps to the values the code gives it.
THEOREM TypeCorrect == Spec => []TypeOK
<1>1. IInv => TypeOK
  <2> SUFFICES ASSUME IInv PROVE TypeOK
    OBVIOUS
  <2>1. /\ answer.outcome \in {"none_yet", "lot", "no_feasible_lot", "risk", "error"}
        /\ answer.outcome = "lot" <=> answer.best \in Lots
    <3>1. IsAnswer(answer) /\ Nothing \notin Lots
      BY DistinctIds DEF IInv, Answered, Entities
    <3> QED BY <3>1 DEF IsAnswer
  <2>2. DOMAIN lots = Lots /\ DOMAIN gates = Gates /\ DOMAIN roads = Roads
    BY DEF IInv, Rows
  <2>3. kind \in Kinds /\ left \subseteq Lots
    BY DEF IInv, Flow
  <2> QED BY <2>1, <2>2, <2>3 DEF IInv, Tables, Placed, Rating, TypeOK
<1> QED BY <1>1, Invariance, PTL

\* An exception answers a request only when a candidate stopped being open while the
\* request ran, or a loaded model's evaluation is missing from the database.
THEOREM FailsOnly == Spec => []FailsOnlyWhenCandidateCloses
<1>1. IInv => FailsOnlyWhenCandidateCloses
  BY DEF IInv, Answered
<1> QED BY <1>1, Invariance, PTL

\* No candidate is at least as good as the recommended one in every term and better
\* in one: for any number of candidates, any weights and any evaluations.
THEOREM NotDominatedHolds == Spec => []NotDominated
<1>1. IInv => NotDominated
  BY DEF IInv, Answered
<1> QED BY <1>1, Invariance, PTL

\* A new risk is Resolve's.
LEMMA RiskStep ==
    ASSUME IInv, RiskWithinItsParts, [Next]_vars
    PROVE  RiskWithinItsParts'
<1>1. CASE UNCHANGED risk \/ risk' = Nothing
  BY <1>1 DEF RiskWithinItsParts
<1>2. CASE ~(UNCHANGED risk \/ risk' = Nothing)
  <2>1. Resolve
    <3>1. Answering
      BY <1>2, Steps, EndStep, OthersStep, IdleStep DEF Begin, Start, StartRisk, request
    <3> QED BY <1>2, <3>1 DEF Answering, ReadGate, CheckLot, ReadClosedNodes, RouteToLot, Choose, TimeOut,
                AssessClosed, Predict, SyncForecast, Score, ChoosePredicted, ReadAvailable, RouteToNearestLot
  <2> DEFINE c == Components(First(left))
  <2>2. risk' = Assessed(c) /\ Scoring /\ pc = "resolve"
    BY <1>2, <2>1 DEF Resolve
  <2>3. \A d \in Dimensions : c[d] \in Verdict
    BY <2>2, ComponentsVerdicts DEF IInv
  <2>4. c.overflow = OverflowRisk(lotSeen, prediction)
    BY DEF Components
  <2> HIDE DEF c
  <2>5. /\ risk'.components = c /\ risk'.combined = Combined(c)
        /\ risk'.fired <=> ProactiveTrigger(lotSeen, prediction)
    BY <2>2 DEF Assessed
  <2>6. ProactiveTrigger(lotSeen, prediction) <=> c.overflow.level \in {"HIGH", "CRITICAL"}
    BY <2>2, <2>4, OverflowVerdict DEF IInv, Assessing
  <2> QED BY <2>3, <2>5, <2>6, CombinedBetween DEF RiskWithinItsParts
<1> QED BY <1>1, <1>2

\* The combined risk lies between the least and the greatest dimension it includes,
\* and the trigger fires exactly when the overflow dimension is high: rounding,
\* renormalisation and unknown dimensions included.
THEOREM RiskIsWithinItsParts == Spec => []RiskWithinItsParts
<1>1. Init => RiskWithinItsParts
  BY DEF Init, RiskWithinItsParts
<1> QED BY <1>1, RiskStep, Invariance, PTL DEF Spec
============================================================================
