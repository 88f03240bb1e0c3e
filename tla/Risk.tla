------------------------------- MODULE Risk -------------------------------
(***************************************************************************)
(* The risk of one lot (backend/app/services/risk.py): four dimensions,    *)
(* each a ratio to its threshold or unknown, and their combination.        *)
(* Ratios are in hundredths, rounded down, which leaves the comparison of  *)
(* each dimension with the bands as it is.                                 *)
(***************************************************************************)
EXTENDS Prediction, FiniteSets, FiniteSetsExt, Functions

OVERFLOW_THRESHOLD_PCT == 90
GATE_QUEUE_THRESHOLD == 15
SEARCH_RISK_THRESHOLD_PCT == 70
Dimensions == {"overflow", "gate_queue", "road_congestion", "search"}
NETWORK_RISK_WEIGHTS == [d \in Dimensions |-> IF d = "overflow" THEN 4 ELSE 2]
UNSURE == {"DATA_STALE", "INTELLIGENCE_UNAVAILABLE"}

\* value / threshold
Ratio(value, threshold) == (100 * value) \div threshold

BandRatio(ratio) ==
    CASE ratio >= 115 -> "CRITICAL"
      [] ratio >= 100 /\ ratio < 115 -> "HIGH"
      [] ratio >= 80 /\ ratio < 100 -> "MEDIUM"
      [] ratio < 80 -> "LOW"

Scored(ratio) == [available |-> TRUE, level |-> BandRatio(ratio), score |-> ratio]
Unknown == [available |-> FALSE, level |-> "UNKNOWN", score |-> Nothing]
\* A lot that is not open: nothing to score, and yet not unknown.
NotAccepting == [available |-> TRUE, level |-> "LOW", score |-> Nothing]

\* A lot as a session has read it: status, occupied, usable_capacity.
Occupied(lot) == lot.occupied # Nothing /\ lot.usable_capacity > 0

CannotScore(lot, prediction) ==
    \/ prediction.confidence \in UNSURE
    \/ prediction.upper_bound = Nothing
    \/ lot.usable_capacity <= 0

\* lot.status = "open" is when there is a prediction.
OverflowRisk(lot, prediction) ==
    IF lot.status # "open" THEN NotAccepting
    ELSE IF CannotScore(lot, prediction) THEN Unknown
    ELSE Scored(Ratio(100 * prediction.upper_bound, OVERFLOW_THRESHOLD_PCT * lot.usable_capacity))

ProactiveTrigger(lot, prediction) ==
    /\ lot.status = "open"
    /\ ~CannotScore(lot, prediction)
    /\ 100 * prediction.upper_bound >= OVERFLOW_THRESHOLD_PCT * lot.usable_capacity

GateQueueRisk(queues) ==
    IF queues \ {Nothing} = {} THEN Unknown
    ELSE Scored(Ratio(Max(queues \ {Nothing}), GATE_QUEUE_THRESHOLD))

\* The threshold is 0.8; loads are in hundredths.
RoadCongestionRisk(loads) ==
    IF loads \ {Nothing} = {} THEN Unknown
    ELSE Scored(Ratio(Max(loads \ {Nothing}), 80))

HasRoom(lot) ==
    lot.status = "open" /\ lot.occupied # Nothing /\ lot.usable_capacity - lot.occupied > 0

\* The occupancy in percent, over one plus the other lots with room.
SearchRisk(lot, others) ==
    LET room == Cardinality({o \in DOMAIN others : HasRoom(others[o])})
    IN IF ~Occupied(lot) THEN Unknown
       ELSE Scored(Ratio(100 * lot.occupied,
                         SEARCH_RISK_THRESHOLD_PCT * lot.usable_capacity * (1 + room)))

Included(components) ==
    {d \in Dimensions : components[d].available /\ components[d].score # Nothing}

WeightOf(dims) == SumFunctionOnSet(NETWORK_RISK_WEIGHTS, dims)
Weighted(components, dims) ==
    SumFunctionOnSet([d \in dims |-> NETWORK_RISK_WEIGHTS[d] * components[d].score], dims)

\* Variant of Combined that does not renormalise the weights; the run must tell
\* it from Combined.
CombinedOverAll(components) ==
    LET dims == Included(components)
    IN IF dims = {} THEN Unknown
       ELSE Scored(Weighted(components, dims) \div WeightOf(Dimensions))

Combined(components) ==
    LET dims == Included(components)
    IN IF dims = {} THEN Unknown
       ELSE Scored(Weighted(components, dims) \div WeightOf(dims))
============================================================================
