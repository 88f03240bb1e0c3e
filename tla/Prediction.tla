---------------------------- MODULE Prediction ----------------------------
(***************************************************************************)
(* Forecasts (backend/app/services/prediction.py): the registry of trained *)
(* models with its cache, the features a lot's history allows, and the     *)
(* forecast that is stored.  The learned model is any function: its        *)
(* estimate and its upper bound are choices.                               *)
(***************************************************************************)
EXTENDS Integers

CONSTANTS
    Nothing,     \* None
    Estimates    \* what models estimate, and how high their intervals reach

\* Nothing keeps a learned model from estimating less than no car.
ASSUME EstimatesAssumption == Nothing \notin Int /\ Estimates \subseteq Int

\* What FileModelRegistry remembers of one lot's model.  Neither answer is ever
\* asked for again.
Cached == {"unasked", "missing", "loaded"}

Get(cached, trained) ==
    IF cached # "unasked" THEN cached
    ELSE IF trained THEN "loaded" ELSE "missing"

\* The lot's observations as predict and its callers query them: the freshness of
\* the newest within LIVE_HISTORY_LOOKBACK ("none": there is no such row, or too
\* few to build a feature row from; FRESH counts as AGING does), and the mean of
\* the last fifty.
Histories ==
    {h \in [newest : {"none", "AGING", "STALE"}, average : Estimates \cup {Nothing}] :
        h.average = Nothing => h.newest = "none"}

\* _confidence, for a model with the given error (in hundredths of a space).
Confidence(mae, capacity, freshness) ==
    IF freshness \in {"STALE", "UNKNOWN"} THEN "DATA_STALE"
    ELSE IF capacity <= 0 THEN "MODERATE"
    ELSE IF mae < 10 * capacity THEN "HIGH"
    ELSE IF mae < 25 * capacity THEN "MODERATE"
    ELSE "LOW"

Unavailable ==
    [point_estimate |-> Nothing, upper_bound |-> Nothing, confidence |-> "INTELLIGENCE_UNAVAILABLE"]

Forecast(point, upper, confidence) ==
    [point_estimate |-> point, upper_bound |-> upper, confidence |-> confidence]

\* What predict may compute once the registry has answered.
Forecasts(cached, history, mae, capacity) ==
    IF cached # "loaded" \/ history.newest = "none" THEN {Unavailable}
    ELSE {Forecast(q[1], q[2], Confidence(mae, capacity, history.newest)) :
             q \in {q \in Estimates \X Estimates : q[1] <= q[2]}}
============================================================================
