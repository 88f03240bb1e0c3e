--------------------------- MODULE Optimization ---------------------------
(***************************************************************************)
(* Answering a driver at a gate (backend/app/services/optimization.py and, *)
(* below it, risk.py, prediction.py, navigation.py): which lot to drive to *)
(* is decided through a dozen SELECTs and several commits, while other     *)
(* sessions change the twin.                                               *)
(*                                                                         *)
(* The twin is read here as the atomic register TwinRegister that          *)
(* DigitalTwin implements: one row at a time, by anybody, at any moment.   *)
(***************************************************************************)
EXTENDS Navigation, Risk

CONSTANTS
    FirstTwin,    \* [lots, gates, roads]: the rows of the twin at the start
    LotRows,      \* lot |-> the rows other sessions may write
    GateRows,     \* gate |-> the rows other sessions may write
    RoadStatuses, \* road |-> the statuses other sessions may write
    FirstTrained, \* lots with a trained model on disk at the start
    Recorded,     \* lots whose model's evaluation is in prediction_evaluations
    Mae,          \* lot |-> the error of its model, in hundredths of a space
    Weights,      \* the weights w2..w5 of the profile
    MaxUpdates,   \* bound on what other sessions change
    MaxRequests   \* bound on the requests

Strategies == {"optimizer", "first_available", "nearest_available", "prediction_only"}
Kinds == Strategies \cup {"nearest_parking", "risk"}
Entities == Gates \cup Lots \cup Roads

ASSUME DistinctIds ==
    /\ Gates \cap Lots = {} /\ Roads \cap (Gates \cup Lots) = {}
    /\ LotOrder # <<>> /\ Nothing \notin Entities

\* The columns that matter: counts and capacities are never negative, a status is
\* any text.
LotRow == [status : STRING, occupied : Nat \cup {Nothing}, usable_capacity : Nat]
GateRow == [status : STRING, queue : Nat \cup {Nothing}]

ASSUME RowsAssumption ==
    /\ FirstTwin.lots \in [Lots -> LotRow]
    /\ FirstTwin.gates \in [Gates -> GateRow]
    /\ DOMAIN FirstTwin.roads = Roads
    /\ \A l \in Lots : LotRows[l] \subseteq LotRow
    /\ \A g \in Gates : GateRows[g] \subseteq GateRow

\* Every profile weighs every term.
Terms == {"w2", "w3", "w4", "w5"}
ASSUME RequestsAssumption ==
    /\ FirstTrained \subseteq Lots
    /\ Weights \in [Terms -> Nat \ {0}]
    /\ MaxUpdates \in Nat /\ MaxRequests \in Nat

VARIABLES
    lots, gates, roads,   \* rows of the twin
    predicted,            \* lot |-> predicted_occupancy of its row
    stored,               \* <<lot, point_estimate>> of the rows of predictions with one
    trained,              \* lots with a model on disk
    registry,             \* lot |-> what the process remembers of its model
    updates, requests,    \* how many there have been
    pc,                   \* where the request is
    kind, gate,           \* what it asks for
    gateSeen, lotSeen,    \* rows its session holds, and does not read again
    closedSeen,           \* closed nodes it has read
    left,                 \* lots the current loop has yet to handle
    evaluations,          \* lot |-> its CandidateEvaluation
    prediction, average,  \* of the lot being assessed
    risk,                 \* the last RiskAssessment's components
    answer,               \* what the caller gets
    since                 \* what each entity has been since the request began

twin == <<lots, gates, roads>>
server == <<registry, stored, predicted>>
request == <<pc, kind, gate, gateSeen, lotSeen, closedSeen, left, evaluations, prediction, average, risk, answer>>
vars == <<twin, server, trained, updates, requests, request, since>>

Status(e) ==
    IF e \in Lots THEN lots[e].status ELSE IF e \in Gates THEN gates[e].status ELSE roads[e]

IsFull(row) == row.occupied # Nothing /\ row.usable_capacity - row.occupied <= 0

\* Status, and for lots whether there is room.
Condition(e) == IF e \in Lots THEN <<Status(e), IsFull(lots[e])>> ELSE <<Status(e), FALSE>>

NoEvaluation == [feasible |-> FALSE, travel_time_s |-> 0, pct |-> Nothing, source |-> Nothing, overflow |-> Nothing]
NoEvaluations == [l \in Lots |-> NoEvaluation]
Answer(outcome, best, fallback) == [outcome |-> outcome, best |-> best, fallback |-> fallback]
NoAnswer == Answer("none_yet", Nothing, FALSE)
Untouched == [e \in Entities |-> {}]

Init ==
    /\ lots = FirstTwin.lots /\ gates = FirstTwin.gates /\ roads = FirstTwin.roads
    /\ predicted = [l \in Lots |-> Nothing]
    /\ stored = {}
    /\ trained = FirstTrained
    /\ registry = [l \in Lots |-> "unasked"]
    /\ updates = 0 /\ requests = 0
    /\ pc = "idle" /\ kind = "optimizer" /\ gate = Nothing
    /\ gateSeen = Nothing /\ lotSeen = Nothing /\ closedSeen = {}
    /\ left = {} /\ evaluations = NoEvaluations
    /\ prediction = Unavailable /\ average = Nothing
    /\ risk = Nothing /\ answer = NoAnswer
    /\ since = Untouched

----------------------------------------------------------------------------
(* Other sessions and the trainer.                                          *)

Changed == updates < MaxUpdates /\ updates' = updates + 1 /\ UNCHANGED requests

\* While a request runs, "since" follows.
Noted == since' = IF pc = "idle" THEN since ELSE [e \in Entities |-> since[e] \cup {Condition(e)'}]

UpdateLot(l, row) ==
    /\ Changed /\ row # lots[l]
    /\ lots' = [lots EXCEPT ![l] = row]
    /\ UNCHANGED <<gates, roads, server, trained, request>>
    /\ Noted

UpdateGate(g, row) ==
    /\ Changed /\ row # gates[g]
    /\ gates' = [gates EXCEPT ![g] = row]
    /\ UNCHANGED <<lots, roads, server, trained, request>>
    /\ Noted

UpdateRoad(r, status) ==
    /\ Changed /\ status # roads[r]
    /\ roads' = [roads EXCEPT ![r] = status]
    /\ UNCHANGED <<lots, gates, server, trained, request>>
    /\ Noted

Train(l) ==
    /\ Changed /\ l \notin trained
    /\ trained' = trained \cup {l}
    /\ UNCHANGED <<twin, server, request, since>>

----------------------------------------------------------------------------
(* The request.  Each action is what happens between two awaits, up to the  *)
(* one whose result another session can change.                             *)

AsRead == [e \in Entities |-> {Condition(e)}]

Asked == requests < MaxRequests /\ requests' = requests + 1

\* _require_campus_and_gate
Start(k, g) ==
    /\ pc = "idle" /\ k # "risk" /\ Asked
    /\ pc' = IF k = "nearest_parking" THEN "available" ELSE "gate"
    /\ kind' = k /\ gate' = g
    /\ since' = AsRead
    /\ UNCHANGED <<twin, server, trained, updates, gateSeen, lotSeen, closedSeen, left,
                   evaluations, prediction, average, risk, answer>>

\* GET /risk/{lot_id}
StartRisk(l) ==
    /\ pc = "idle" /\ Asked
    /\ pc' = "assess" /\ kind' = "risk" /\ left' = {l}
    /\ since' = AsRead
    /\ UNCHANGED <<twin, server, trained, updates, gate, gateSeen, lotSeen, closedSeen,
                   evaluations, prediction, average, risk, answer>>

Reply(outcome, best, fallback) ==
    /\ pc' = "answered"
    /\ answer' = Answer(outcome, best, fallback)

\* The caller has its answer; the session is closed.
Close ==
    /\ pc = "answered"
    /\ pc' = "idle" /\ kind' = "optimizer" /\ gate' = Nothing
    /\ gateSeen' = Nothing /\ lotSeen' = Nothing /\ closedSeen' = {}
    /\ left' = {} /\ evaluations' = NoEvaluations
    /\ prediction' = Unavailable /\ average' = Nothing
    /\ risk' = Nothing /\ answer' = NoAnswer /\ since' = Untouched
    /\ UNCHANGED <<twin, server, trained, updates, requests>>

\* Loops over lots go by lot_id.
Position(l) == CHOOSE i \in DOMAIN LotOrder : LotOrder[i] = l
Firsts(S) == {l \in S : \A m \in S : Position(l) <= Position(m)}
First(S) == CHOOSE l \in S : l \in Firsts(S)

----------------------------------------------------------------------------
(* _generate_candidates                                                     *)

ReadGate ==
    /\ pc = "gate"
    /\ gateSeen' = gates[gate]
    /\ left' = Lots
    /\ pc' = "lot"
    /\ UNCHANGED <<twin, server, trained, updates, requests, since, kind, gate, lotSeen, closedSeen,
                   evaluations, prediction, average, risk, answer>>

\* Variant of Admissible that rejects what navigation does.
AdmissibleUnlessClosed(gateRow, lotRow) ==
    gateRow.status # "closed" /\ lotRow.status # "closed" /\ ~IsFull(lotRow)

\* Without looking at the road to it.
Admissible(gateRow, lotRow) ==
    gateRow.status = "open" /\ lotRow.status = "open" /\ ~IsFull(lotRow)

\* Variant of CheckLot that does not go on after a lot that is out.
CheckLotAgain ==
    /\ pc = "lot" /\ left # {}
    /\ lotSeen' = lots[First(left)]
    /\ pc' = IF Admissible(gateSeen, lots[First(left)]) THEN "nodes" ELSE "lot"
    /\ UNCHANGED <<twin, server, trained, updates, requests, since, kind, gate, gateSeen, closedSeen, left,
                   evaluations, prediction, average, risk, answer>>

CheckLot ==
    /\ pc = "lot" /\ left # {}
    /\ LET l == First(left)
       IN /\ lotSeen' = lots[l]
          /\ IF Admissible(gateSeen, lots[l]) THEN pc' = "nodes" /\ left' = left
             ELSE pc' = "lot" /\ left' = left \ {l}
    /\ UNCHANGED <<twin, server, trained, updates, requests, since, kind, gate, gateSeen, closedSeen,
                   evaluations, prediction, average, risk, answer>>

\* The session does not refresh a row it still holds: the gate, and this lot (for
\* nearest-parking the lot its loop ended with), count as they were read.
Held == IF kind = "nearest_parking" THEN {Last(LotOrder)} ELSE {gate, First(left)}

HeldClosed ==
    IF kind = "nearest_parking" /\ lotSeen.status = "closed" THEN {Last(LotOrder)} ELSE {}

\* _closed_node_ids
ReadClosedNodes ==
    /\ pc = "nodes"
    /\ closedSeen' = HeldClosed \cup {n \in (Gates \cup Lots) \ Held : Status(n) = "closed"}
    /\ pc' = "roads"
    /\ UNCHANGED <<twin, server, trained, updates, requests, since, kind, gate, gateSeen, lotSeen, left,
                   evaluations, prediction, average, risk, answer>>

\* _closed_road_ids
ClosedRoads == {r \in Roads : roads[r] = "closed"}

Reached(e, leg) == [e EXCEPT !.feasible = TRUE, !.travel_time_s = leg.travel_time_s]

RouteToLot ==
    /\ pc = "roads" /\ kind \in Strategies
    /\ \E l \in {First(left)} : \E legs \in {Route(gate, l, "drive", closedSeen, ClosedRoads)} :
          /\ \/ legs = {} /\ UNCHANGED evaluations
             \/ \E leg \in legs :
                   evaluations' = [evaluations EXCEPT ![l] = Reached(@, leg)]
          /\ left' = left \ {l}
    /\ pc' = "lot" /\ closedSeen' = {}
    /\ UNCHANGED <<twin, server, trained, updates, requests, since, kind, gate, gateSeen, lotSeen,
                   prediction, average, risk, answer>>

Feasible == {l \in Lots : evaluations[l].feasible}

Nearest(S) ==
    Firsts({l \in S : \A m \in S : evaluations[l].travel_time_s <= evaluations[m].travel_time_s})

\* recommend and recommend_baseline, once the candidates are there.
Choose ==
    /\ pc = "lot" /\ left = {}
    /\ gateSeen' = Nothing /\ lotSeen' = Nothing
    /\ IF Feasible = {} THEN Reply("no_feasible_lot", Nothing, FALSE) /\ left' = {}
       ELSE \/ /\ kind = "first_available" /\ left' = {}
               /\ \E l \in Firsts(Feasible) : Reply("lot", l, FALSE)
            \/ /\ kind = "nearest_available" /\ left' = {}
               /\ \E l \in Nearest(Feasible) : Reply("lot", l, FALSE)
            \/ /\ kind \in {"prediction_only", "optimizer"}
               /\ pc' = "assess" /\ left' = Feasible /\ UNCHANGED answer
    /\ UNCHANGED <<twin, server, trained, updates, requests, since, kind, gate, closedSeen,
                   evaluations, prediction, average, risk>>

----------------------------------------------------------------------------
(* RiskEngine.assess and PredictionService.predict, for the next lot.       *)

Scoring == kind \in {"optimizer", "risk"}

\* Variant of TimeOut that leaves the choice open.
TimeOutEmpty ==
    /\ pc = "assess" /\ kind = "optimizer" /\ left # {} /\ left # Feasible
    /\ Reply("lot", Nothing, TRUE)
    /\ UNCHANGED <<twin, server, trained, updates, requests, since, kind, gate, gateSeen, lotSeen, closedSeen,
                   left, evaluations, prediction, average, risk>>

\* TIME_LIMIT_SECONDS have passed before another candidate could be assessed.
TimeOut ==
    /\ pc = "assess" /\ kind = "optimizer" /\ left # {} /\ left # Feasible
    /\ \E l \in Nearest(Feasible) : Reply("lot", l, TRUE)
    /\ UNCHANGED <<twin, server, trained, updates, requests, since, kind, gate, gateSeen, lotSeen, closedSeen,
                   left, evaluations, prediction, average, risk>>

\* assess takes its lot's row from here; a lot that is not open any more gets no
\* prediction.
AssessClosed ==
    /\ pc = "assess" /\ left # {} /\ Scoring
    /\ LET l == First(left)
       IN /\ lots[l].status # "open"
          /\ lotSeen' = lots[l]
          /\ \E h \in Histories : average' = h.average
    /\ pc' = "resolve"
    /\ UNCHANGED <<twin, server, trained, updates, requests, since, kind, gate, gateSeen, closedSeen, left,
                   evaluations, prediction, risk, answer>>

\* Variant of Store that leaves out forecasts from stale data.
StoreIfSure(l, f) ==
    /\ stored' = IF f.confidence \in UNSURE THEN stored ELSE stored \cup {<<l, f.point_estimate>>}
    /\ pc' = IF f.point_estimate = Nothing THEN "resolve" ELSE "sync"
    /\ UNCHANGED answer

\* A forecast is stored in a transaction of its own.
Store(l, f) ==
    /\ stored' = IF f.point_estimate = Nothing THEN stored ELSE stored \cup {<<l, f.point_estimate>>}
    /\ pc' = IF f.point_estimate = Nothing THEN "resolve" ELSE "sync"
    /\ UNCHANGED answer

\* The row names the evaluation of its model, which src/ never inserts: unless
\* somebody has, the foreign key refuses it.
Predict ==
    /\ pc = "assess" /\ left # {}
    /\ LET l == First(left)
           cached == Get(registry[l], l \in trained)
       IN /\ Scoring => lots[l].status = "open"
          /\ lotSeen' = IF Scoring THEN lots[l] ELSE lotSeen
          /\ registry' = [registry EXCEPT ![l] = cached]
          /\ \E h \in Histories : \E f \in Forecasts(cached, h, Mae[l], lots[l].usable_capacity) :
                /\ prediction' = f
                /\ average' = h.average
                /\ IF cached = "loaded" /\ l \notin Recorded
                   THEN Reply("error", Nothing, FALSE) /\ UNCHANGED stored
                   ELSE Store(l, f)
    /\ UNCHANGED <<twin, predicted, trained, updates, requests, since, kind, gate, gateSeen, closedSeen, left,
                   evaluations, risk>>

\* set_predicted_occupancy, in the next transaction.
SyncForecast ==
    /\ pc = "sync"
    /\ predicted' = [predicted EXCEPT ![First(left)] = prediction.point_estimate]
    /\ pc' = "resolve"
    /\ UNCHANGED <<twin, registry, stored, trained, updates, requests, since, kind, gate, gateSeen, lotSeen, closedSeen,
                   left, evaluations, prediction, average, risk, answer>>

\* The other dimensions, from the twin as it is by now.  Nobody writes road loads.
Components(l) ==
    [overflow |-> OverflowRisk(lotSeen, prediction),
     gate_queue |-> GateQueueRisk({gates[g].queue : g \in Gates}),
     road_congestion |-> RoadCongestionRisk({}),
     search |-> SearchRisk(lotSeen, [m \in Lots \ {l} |-> lots[m]])]

\* _resolve_predicted_pct: from the model, from history, from the current state.
Resolved(l) ==
    LET pct(n) == (100 * n) \div lots[l].usable_capacity
    IN IF /\ prediction.point_estimate # Nothing /\ prediction.confidence \notin UNSURE
          /\ lots[l].usable_capacity > 0
       THEN <<pct(prediction.point_estimate), "model">>
       ELSE IF average # Nothing /\ lots[l].usable_capacity > 0
       THEN <<pct(average), "historical_average_fallback">>
       ELSE IF Occupied(lots[l]) THEN <<pct(lots[l].occupied), "current_state_fallback">>
       ELSE <<Nothing, "unavailable">>

Assessed(c) ==
    [components |-> c, combined |-> Combined(c), fired |-> ProactiveTrigger(lotSeen, prediction)]

Rated(e, resolved, overflow) ==
    [e EXCEPT !.pct = resolved[1], !.source = resolved[2], !.overflow = overflow]

Resolve ==
    /\ pc = "resolve"
    /\ \E l \in {First(left)} : \E r \in {Resolved(l)} :
          /\ IF Scoring THEN \E c \in {Components(l)} : risk' = Assessed(c) ELSE risk' = Nothing
          /\ evaluations' = IF kind = "risk" THEN evaluations ELSE
                 [evaluations EXCEPT ![l] =
                     Rated(@, r, IF Scoring THEN risk'.components.overflow ELSE Nothing)]
          /\ left' = left \ {l}
    /\ lotSeen' = Nothing /\ prediction' = Unavailable /\ average' = Nothing
    /\ IF kind = "risk" THEN Reply("risk", Nothing, FALSE) ELSE pc' = "assess" /\ UNCHANGED answer
    /\ UNCHANGED <<twin, server, trained, updates, requests, since, kind, gate, gateSeen, closedSeen>>

----------------------------------------------------------------------------
(* _score_candidates, once every candidate is assessed.                     *)

Known == {l \in Feasible : evaluations[l].pct # Nothing}
SumPct == SumFunction([l \in Known |-> evaluations[l].pct])
Count == IF Known = {} THEN 1 ELSE Cardinality(Known)

\* Percentages times Count, so that their average is an integer.
PctOf(l) == IF evaluations[l].pct # Nothing THEN evaluations[l].pct * Count ELSE SumPct
Distance(a, b) == IF a >= b THEN a - b ELSE b - a

\* Variant of QueueCost that has no default.
QueueCostNoDefault(l) ==
    LET o == evaluations[l].overflow IN IF o.available THEN o.score ELSE evaluations[l].pct

\* None for a lot that has closed since it was found feasible.
QueueCost(l) ==
    LET o == evaluations[l].overflow
    IN IF o.available THEN o.score
       ELSE IF evaluations[l].pct # Nothing THEN evaluations[l].pct ELSE 0

Raw(l) ==
    [w2 |-> QueueCost(l),
     w3 |-> evaluations[l].travel_time_s,
     w4 |-> Distance(PctOf(l), SumPct),
     w5 |-> IF PctOf(l) > 100 * Count THEN PctOf(l) - 100 * Count ELSE 0]

Raws == [l \in Feasible |-> Raw(l)]

\* _max_or_one of each term
Divisors(raws) ==
    [t \in Terms |-> LET m == Max({raws[l][t] : l \in Feasible}) IN IF m > 0 THEN m ELSE 1]

\* Variant of ObjectiveJ that forgets the way to the lot.
ObjectiveJNoTravel(raw, d) ==
    Weights.w2 * raw.w2 * d.w4 * d.w5 + Weights.w4 * raw.w4 * d.w2 * d.w5
    + Weights.w5 * raw.w5 * d.w2 * d.w4

\* The objective but for the waiting time, which all candidates share, times the
\* product of the divisors d.
ObjectiveJ(raw, d) ==
    Weights.w2 * raw.w2 * d.w3 * d.w4 * d.w5 + Weights.w3 * raw.w3 * d.w2 * d.w4 * d.w5
    + Weights.w4 * raw.w4 * d.w2 * d.w3 * d.w5 + Weights.w5 * raw.w5 * d.w2 * d.w3 * d.w4

Best(raws, d) ==
    Firsts({l \in Feasible : \A m \in Feasible : ObjectiveJ(raws[l], d) <= ObjectiveJ(raws[m], d)})

\* max() over a None raises TypeError.
Unscorable == {l \in Feasible : QueueCost(l) = Nothing}

Score ==
    /\ pc = "assess" /\ kind = "optimizer" /\ left = {}
    /\ IF Unscorable # {} THEN Reply("error", Nothing, FALSE)
       ELSE \E raws \in {Raws} : \E d \in {Divisors(raws)} :
                \E l \in Best(raws, d) : Reply("lot", l, FALSE)
    /\ UNCHANGED <<twin, server, trained, updates, requests, since, kind, gate, gateSeen, lotSeen, closedSeen, left,
                   evaluations, prediction, average, risk>>

\* A lot without any percentage comes last.
Emptier(l, m) ==
    \/ evaluations[m].pct = Nothing
    \/ evaluations[l].pct # Nothing /\ evaluations[l].pct <= evaluations[m].pct

ChoosePredicted ==
    /\ pc = "assess" /\ kind = "prediction_only" /\ left = {}
    /\ \E l \in Firsts({l \in Feasible : \A m \in Feasible : Emptier(l, m)}) : Reply("lot", l, FALSE)
    /\ UNCHANGED <<twin, server, trained, updates, requests, since, kind, gate, gateSeen, lotSeen, closedSeen, left,
                   evaluations, prediction, average, risk>>

----------------------------------------------------------------------------
(* find_route_to_nearest, of the lots not known to be unusable.             *)

ReadAvailable ==
    /\ pc = "available"
    /\ left' = {l \in Lots : lots[l].status # "closed" /\ ~IsFull(lots[l])}
    /\ lotSeen' = lots[Last(LotOrder)]
    /\ pc' = "nodes"
    /\ UNCHANGED <<twin, server, trained, updates, requests, since, kind, gate, gateSeen, closedSeen,
                   evaluations, prediction, average, risk, answer>>

RouteToNearestLot ==
    /\ pc = "roads" /\ kind = "nearest_parking"
    /\ \E legs \in {RouteToNearest(gate, left, "drive", closedSeen, ClosedRoads)} :
          \/ legs = {} /\ Reply("no_feasible_lot", Nothing, FALSE)
          \/ \E leg \in legs : Reply("lot", Last(leg.path), FALSE)
    /\ closedSeen' = {} /\ lotSeen' = Nothing
    /\ UNCHANGED <<twin, server, trained, updates, requests, since, kind, gate, gateSeen, left,
                   evaluations, prediction, average, risk>>

----------------------------------------------------------------------------
\* The server process is restarted: its request is gone, and its cache.
Restart ==
    /\ registry' = [l \in Lots |-> "unasked"]
    /\ pc' = "idle" /\ kind' = "optimizer" /\ gate' = Nothing
    /\ gateSeen' = Nothing /\ lotSeen' = Nothing /\ closedSeen' = {}
    /\ left' = {} /\ evaluations' = NoEvaluations
    /\ prediction' = Unavailable /\ average' = Nothing
    /\ risk' = Nothing /\ answer' = NoAnswer /\ since' = Untouched
    /\ UNCHANGED <<twin, predicted, stored, trained, updates, requests>>

Serve ==
    \/ ReadGate \/ CheckLot \/ ReadClosedNodes \/ RouteToLot \/ Choose
    \/ TimeOut \/ AssessClosed \/ Predict \/ SyncForecast \/ Resolve \/ Score \/ ChoosePredicted
    \/ ReadAvailable \/ RouteToNearestLot \/ Close

Next ==
    \/ \E g \in Gates, k \in Kinds : Start(k, g)
    \/ \E l \in Lots : StartRisk(l)
    \/ Serve
    \/ Restart
    \/ \E l \in Lots : Train(l) \/ \E row \in LotRows[l] : UpdateLot(l, row)
    \/ \E g \in Gates : \E row \in GateRows[g] : UpdateGate(g, row)
    \/ \E r \in Roads : \E status \in RoadStatuses[r] : UpdateRoad(r, status)

\* The event loop comes back to a request whose SELECT or COMMIT has returned.
Spec == Init /\ [][Next]_vars /\ WF_vars(Serve)
============================================================================
