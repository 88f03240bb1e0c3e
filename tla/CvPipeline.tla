---------------------------- MODULE CvPipeline ----------------------------
(***************************************************************************)
(* Counting cars by camera: the endless loop of ml/cv/pipeline.py, the     *)
(* backend that takes its readings, the field survey that counts the same  *)
(* lots by hand (scripts/merge_observations.py), drivers who report what   *)
(* they see, and the calibration that compares cameras with people and     *)
(* decides how far a camera is trusted.                                    *)
(***************************************************************************)
EXTENDS Integers, Sequences, FiniteSets, Functions

CONSTANTS
    LotOrder,   \* the lots with an annotation, in the order of the dict
    Spaces,     \* lot |-> spaces annotated in its picture
    Capacity,   \* lot |-> total_capacity
    FramesOf,   \* lot |-> the pictures its camera may take
    Sheets,     \* what the observers of one survey session may hand in
    Reported,   \* counts that a driver may report
    MaxTime,    \* bound on the clock
    Nothing

Lots == {LotOrder[i] : i \in DOMAIN LotOrder}
Times == 1..MaxTime
CV_AUTO == "cv_auto"
CV_VERIFIED == "cv_verified"
CV_COLLECTION_METHODS == {CV_AUTO, CV_VERIFIED}

\* A picture: cars is how many are there; of its spaces, occupied and vacant are
\* those the classifier is confident about, and it is right about them unless the
\* picture is blurry.
Frame(l) ==
    {f \in [blurry : BOOLEAN, cars : 0..Spaces[l], occupied : 0..Spaces[l], vacant : 0..Spaces[l]] :
        /\ f.occupied + f.vacant <= Spaces[l]
        /\ ~f.blurry => f.occupied <= f.cars /\ f.cars <= Spaces[l] - f.vacant}

ASSUME CamerasAreKnown ==
    /\ LotOrder \in Seq(Lots) /\ LotOrder # <<>>
    /\ \A l \in Lots : Spaces[l] \in Nat /\ Capacity[l] \in Nat \ {0} /\ FramesOf[l] \subseteq Frame(l)
    /\ \A sheet \in Sheets : sheet \in Seq([occupied : Int, timestamp : Int]) /\ sheet # <<>>
    /\ Reported \subseteq Int

ASSUME NothingIsNoMethod == Nothing \notin CV_COLLECTION_METHODS

VARIABLES
    now,
    observations,       \* the accepted observations of lots
    reports,            \* lot |-> the method its last calibration report recommends
    calibrating,        \* the calibration under way, or Nothing
    pc, todo,           \* where the loop is, and the lots of this round it has to do
    frame, timestamp,   \* picture and time of the reading being posted
    collection_methods  \* lot |-> method, when the pipeline was constructed

loop == <<pc, todo, frame, timestamp, collection_methods>>
vars == <<now, observations, reports, calibrating, loop>>

Init ==
    /\ now = 1 /\ observations = {}
    /\ reports = [l \in Lots |-> Nothing] /\ calibrating = Nothing
    /\ pc = "stopped" /\ todo = <<>> /\ frame = Nothing /\ timestamp = Nothing
    /\ collection_methods = [l \in Lots |-> Nothing]

Observation(l, at, method, occupied) ==
    [lot |-> l, timestamp |-> at, collection_method |-> method, occupied |-> occupied]

\* What ingestion makes of a reading: one of the same lot, time and method as
\* another, below zero or above the lot's capacity, is rejected.
Ingested(o) ==
    IF \/ o.occupied < 0 \/ o.occupied > Capacity[o.lot]
       \/ \E p \in observations : [p EXCEPT !.occupied = 0] = [o EXCEPT !.occupied = 0]
    THEN observations
    ELSE observations \cup {o}

----------------------------------------------------------------------------
(* The loop. *)

\* classify_frame: a reading is only made of a sharp picture with at most a fifth
\* of the spaces uncertain, and never of no space at all.
Uncertain(l, f) == Spaces[l] - f.occupied - f.vacant
LowConfidenceIfSharp(l, f) == Spaces[l] = 0 \/ 5 * Uncertain(l, f) > Spaces[l]
LowConfidence(l, f) == f.blurry \/ Spaces[l] = 0 \/ 5 * Uncertain(l, f) > Spaces[l]

\* collection_methods.get(parking_lot_id, "cv_verified").
MethodUnlessDemoted(l) ==
    IF collection_methods[l] = CV_VERIFIED THEN CV_VERIFIED ELSE CV_AUTO
MethodOf(l) == IF collection_methods[l] = Nothing THEN CV_VERIFIED ELSE collection_methods[l]

\* Somebody constructs the pipeline from what the newest reports recommend, however
\* few samples they have, and runs it.
StartPipeline ==
    /\ pc = "stopped"
    /\ pc' = "frame" /\ todo' = LotOrder
    /\ collection_methods' = reports
    /\ UNCHANGED <<now, observations, reports, calibrating, frame, timestamp>>

\* After the last lot of a round the loop sleeps.
GiveUpRound == /\ todo' = <<>> /\ pc' = "sleep"
NextLot ==
    /\ todo' = Tail(todo)
    /\ pc' = IF Len(todo) > 1 THEN "frame" ELSE "sleep"

SkippedLot == NextLot

SkipFrame ==
    /\ pc = "frame"
    /\ \E f \in FramesOf[Head(todo)] : LowConfidence(Head(todo), f)
    /\ SkippedLot
    /\ UNCHANGED <<now, observations, reports, calibrating, frame, timestamp, collection_methods>>

ClassifyFrame ==
    /\ pc = "frame"
    /\ \E f \in FramesOf[Head(todo)] : ~LowConfidence(Head(todo), f) /\ frame' = f
    /\ pc' = "post" /\ timestamp' = now
    /\ UNCHANGED <<now, observations, reports, calibrating, todo, collection_methods>>

\* The endpoint answers 200 whether it accepts the reading or not.
Post ==
    /\ pc = "post" /\ pc' = "answer"
    /\ observations' = Ingested(Observation(Head(todo), timestamp, MethodOf(Head(todo)), frame.occupied))
    /\ UNCHANGED <<now, reports, calibrating, todo, frame, timestamp, collection_methods>>

Answered ==
    /\ pc = "answer" /\ NextLot
    /\ frame' = Nothing /\ timestamp' = Nothing
    /\ UNCHANGED <<now, observations, reports, calibrating, collection_methods>>

WakeUp ==
    /\ pc = "sleep"
    /\ pc' = "frame" /\ todo' = LotOrder
    /\ UNCHANGED <<now, observations, reports, calibrating, frame, timestamp, collection_methods>>

\* A camera without a picture, a POST without an answer or with an error, or the
\* end of the process: nothing catches it, for any lot.
Stop ==
    /\ pc # "stopped" /\ pc' = "stopped"
    /\ todo' = <<>> /\ frame' = Nothing /\ timestamp' = Nothing
    /\ UNCHANGED <<now, observations, reports, calibrating, collection_methods>>

----------------------------------------------------------------------------
(* Counting by hand, and calibration. *)

\* merge_observations: a session's sheet becomes one row if all its observers
\* agree, with the timestamp of its first row; else none of it gets in.
Consolidated(sheet) ==
    IF \A i \in DOMAIN sheet : sheet[i].occupied = sheet[1].occupied THEN {sheet[1]} ELSE {}

Survey(l, sheet) ==
    /\ \A i \in DOMAIN sheet : sheet[i].timestamp <= now
    /\ \E row \in Consolidated(sheet) :
          observations' = Ingested(Observation(l, row.timestamp, "manual_count", row.occupied))
    /\ UNCHANGED <<now, reports, calibrating, loop>>

\* reportParkingStatus: what a driver reports from the page is a count by hand too.
Report(l, occupied) ==
    /\ observations' = Ingested(Observation(l, now, "manual_count", occupied))
    /\ UNCHANGED <<now, reports, calibrating, loop>>

\* compute_calibration_report: two SELECTs, each by timestamp.
Counts(l, methods) == {o \in observations : o.lot = l /\ o.collection_method \in methods}

ReadManual(l) ==
    /\ calibrating = Nothing
    /\ calibrating' = [lot |-> l, manual |-> Counts(l, {"manual_count"})]
    /\ UNCHANGED <<now, observations, reports, loop>>

AbsDiff(a, b) == IF a > b THEN a - b ELSE b - a

\* decide_collection_method: mae < 10 % of the capacity.
Decision(l, errorSum, sample_size) ==
    IF 10 * errorSum < sample_size * Capacity[l] THEN CV_AUTO ELSE CV_VERIFIED

\* What is compared: the times with a count of either kind.  Of two readings of
\* one time (one per method) the dict keeps whichever came last.
Paired(manual, readings) ==
    {m.timestamp : m \in manual} \cap {c.timestamp : c \in readings}

Calibrate ==
    /\ calibrating # Nothing
    /\ LET l == calibrating.lot
           readings == Counts(l, CV_COLLECTION_METHODS)
           paired == Paired(calibrating.manual, readings)
           CountAt(t) == CHOOSE m \in calibrating.manual : m.timestamp = t
       IN IF paired = {}
          THEN UNCHANGED reports
          ELSE \E kept \in [paired -> readings] :
                  /\ \A t \in paired : kept[t].timestamp = t
                  /\ reports' = [reports EXCEPT ![l] =
                        Decision(l, SumFunction([t \in paired |-> AbsDiff(CountAt(t).occupied, kept[t].occupied)]),
                                 Cardinality(paired))]
    /\ calibrating' = Nothing
    /\ UNCHANGED <<now, observations, loop>>

TimePasses ==
    /\ now < MaxTime /\ now' = now + 1
    /\ UNCHANGED <<observations, reports, calibrating, loop>>

----------------------------------------------------------------------------
Loop == SkipFrame \/ ClassifyFrame \/ Post \/ Answered \/ WakeUp

Next ==
    \/ StartPipeline \/ Loop \/ Stop \/ TimePasses \/ Calibrate
    \/ \E l \in Lots : ReadManual(l)
    \/ \E l \in Lots, sheet \in Sheets : Survey(l, sheet)
    \/ \E l \in Lots, occupied \in Reported : Report(l, occupied)

\* asyncio runs the loop on for as long as its process lives.
Spec == Init /\ [][Next]_vars /\ WF_vars(Loop)
============================================================================
