------------------------- MODULE CvPipeline_proofs -------------------------
(***************************************************************************)
(* Proofs about the camera loop, for any lots, annotations and pictures.   *)
(***************************************************************************)
EXTENDS CvPipelineProperties, Sums_proofs, SequenceTheorems, TLAPS

\* Where the loop is, and that what it is about to post was classified with
\* confidence in a picture of the lot it is at.
Sampling ==
    /\ todo \in Seq(Lots)
    /\ pc \in {"frame", "post", "answer"} => todo # <<>>
    /\ pc = "post" => frame \in FramesOf[Head(todo)] /\ ~LowConfidence(Head(todo), frame)

LEMMA RoundStep ==
    ASSUME Sampling, NextLot, pc \in {"frame", "answer"}
    PROVE  Sampling'
<1>1. todo \in Seq(Lots) /\ todo # <<>>
  BY DEF Sampling
<1>2. todo' \in Seq(Lots) /\ (pc' = "frame" => todo' # <<>>)
  <2>1. Len(todo) \in Nat /\ Len(Tail(todo)) = Len(todo) - 1 /\ Tail(todo) \in Seq(Lots)
    BY <1>1
  <2>2. Len(todo) > 1 => Tail(todo) # <<>>
    <3> DEFINE rest == Tail(todo)
    <3>0. ASSUME NEW s, s = <<>> PROVE Len(s) = 0
      BY <3>0
    <3>1. rest = <<>> => Len(rest) = 0
      BY <3>0
    <3>2. Len(todo) \in Nat /\ Len(rest) = Len(todo) - 1
      BY <2>1
    <3> HIDE DEF rest
    <3>3. Len(todo) > 1 => rest # <<>>
      BY <3>1, <3>2
    <3> QED BY <3>3 DEF rest
  <2> QED BY <2>1, <2>2 DEF NextLot
<1>3. pc' \in {"frame", "sleep"}
  BY DEF NextLot
<1> QED BY <1>2, <1>3 DEF Sampling

LEMMA SamplingStep ==
    ASSUME Sampling, [Next]_vars
    PROVE  Sampling'
\* Where the loop stands still.
<1>1. ASSUME UNCHANGED loop PROVE Sampling'
  BY <1>1 DEF loop, Sampling, LowConfidence, Uncertain
<1>2. CASE StartPipeline \/ WakeUp
  BY <1>2, CamerasAreKnown DEF StartPipeline, WakeUp, Sampling
<1>3. CASE SkipFrame \/ Answered
  BY <1>3, RoundStep DEF SkipFrame, SkippedLot, Answered
<1>4. CASE ClassifyFrame
  <2>1. /\ pc = "frame" /\ pc' = "post" /\ UNCHANGED todo
        /\ frame' \in FramesOf[Head(todo)] /\ ~LowConfidence(Head(todo), frame')
    BY <1>4 DEF ClassifyFrame
  <2>2. LowConfidence(Head(todo), frame)' <=> LowConfidence(Head(todo), frame')
    BY <2>1 DEF LowConfidence, Uncertain
  <2> QED BY <2>1, <2>2 DEF Sampling
<1>5. CASE Post
  BY <1>5 DEF Post, Sampling
<1>6. CASE Stop
  BY <1>6 DEF Stop, Sampling
<1>7. CASE TimePasses \/ Calibrate \/ UNCHANGED vars
  BY <1>1, <1>7 DEF TimePasses, Calibrate, vars
<1>8. CASE (\E l \in Lots : ReadManual(l)) \/ (\E l \in Lots, sheet \in Sheets : Survey(l, sheet))
           \/ (\E l \in Lots, occupied \in Reported : Report(l, occupied))
  BY <1>1, <1>8 DEF ReadManual, Survey, Report
<1> QED BY <1>2, <1>3, <1>4, <1>5, <1>6, <1>7, <1>8 DEF Next, Loop

\* No count that misses more than a fifth of a lot's spaces, or invents a car, is
\* ever posted, whatever the pictures and whenever the loop is stopped and started.
THEOREM CountIsNear == Spec => []PostedCountIsNear
<1>1. Init => Sampling
  BY DEF Init, Sampling
<1>2. Sampling => PostedCountIsNear
  <2> SUFFICES ASSUME Sampling, pc = "post", NEW l, l = Head(todo)
               PROVE  /\ frame.occupied <= frame.cars
                      /\ 5 * (frame.cars - frame.occupied) <= Spaces[l]
                      /\ Spaces[l] > 0
    BY DEF PostedCountIsNear
  <2>1. l \in Lots
    BY DEF Sampling
  <2>2. frame \in Frame(l) /\ Spaces[l] \in Nat
    BY <2>1, CamerasAreKnown DEF Sampling
  <2>3. ~frame.blurry /\ Spaces[l] # 0 /\ ~(5 * (Spaces[l] - frame.occupied - frame.vacant) > Spaces[l])
    BY DEF Sampling, LowConfidence, Uncertain
  <2>4. /\ frame.cars \in Nat /\ frame.occupied \in Nat /\ frame.vacant \in Nat
        /\ frame.occupied <= frame.cars /\ frame.cars <= Spaces[l] - frame.vacant
    BY <2>2, <2>3 DEF Frame
  <2> QED BY <2>2, <2>3, <2>4
<1> QED BY <1>1, <1>2, SamplingStep, PTL DEF Spec

----------------------------------------------------------------------------
(* How a camera comes to be trusted.                                        *)

\* Some count by camera has been near enough to a count by hand.
Near(m, c, l) == m.timestamp = c.timestamp /\ 10 * AbsDiff(m.occupied, c.occupied) < Capacity[l]
Earned(l) ==
    \E m \in Counts(l, {"manual_count"}), c \in Counts(l, CV_COLLECTION_METHODS) : Near(m, c, l)

Stored ==
    /\ IsFiniteSet(observations)
    /\ \A o \in observations : o.occupied \in Int

Calibrating ==
    calibrating # Nothing =>
        /\ calibrating.lot \in Lots
        /\ calibrating.manual \subseteq Counts(calibrating.lot, {"manual_count"})

\* Whatever carries the recommendation carries it of a camera that has earned it.
Trusted ==
    /\ DOMAIN reports = Lots
    /\ \A l \in Lots : reports[l] = CV_AUTO \/ collection_methods[l] = CV_AUTO => Earned(l)
    /\ TrustIsEarned

TrustInv == Sampling /\ Stored /\ Calibrating /\ Trusted

\* Observations are never taken back.
LEMMA EarnedForGood ==
    ASSUME observations \subseteq observations'
    PROVE  /\ \A l, M : Counts(l, M) \subseteq Counts(l, M)'
           /\ \A l : Earned(l) => Earned(l)'
<1>1. \A l, M : Counts(l, M) \subseteq Counts(l, M)'
  BY DEF Counts
<1>2. ASSUME NEW l, Earned(l) PROVE Earned(l)'
  <2>1. PICK m \in Counts(l, {"manual_count"}), c \in Counts(l, CV_COLLECTION_METHODS) : Near(m, c, l)
    BY <1>2 DEF Earned
  <2>2. m \in Counts(l, {"manual_count"})' /\ c \in Counts(l, CV_COLLECTION_METHODS)'
    BY <1>1, <2>1
  <2> QED BY <2>1, <2>2 DEF Earned
<1> QED BY <1>1, <1>2

LEMMA CountIsInteger ==
    ASSUME NEW a \in Int, NEW b \in Int
    PROVE  AbsDiff(a, b) \in Int
  BY DEF AbsDiff

\* A report only recommends a camera if one of the pairs it compares is near: an
\* average below a tenth of the capacity has a term below it.
LEMMA ReportIsEarned ==
    ASSUME Stored, Calibrating, Calibrate, NEW l \in Lots, reports[l] # CV_AUTO,
           DOMAIN reports = Lots, reports'[l] = CV_AUTO
    PROVE  Earned(l)
<1> DEFINE lot == calibrating.lot
           readings == Counts(lot, CV_COLLECTION_METHODS)
           manual == calibrating.manual
           paired == Paired(manual, readings)
           CountAt(t) == CHOOSE m \in manual : m.timestamp = t
           Error(kept) == SumFunction([t \in paired |-> AbsDiff(CountAt(t).occupied, kept[t].occupied)])
<1>1. \/ UNCHANGED reports
      \/ \E kept \in [paired -> readings] :
            /\ \A t \in paired : kept[t].timestamp = t
            /\ reports' = [reports EXCEPT ![lot] = Decision(lot, Error(kept), Cardinality(paired))]
  BY DEF Calibrate
<1>2. PICK kept \in [paired -> readings] :
            /\ \A t \in paired : kept[t].timestamp = t
            /\ reports' = [reports EXCEPT ![lot] = Decision(lot, Error(kept), Cardinality(paired))]
  BY <1>1
<1>0. l = lot /\ Decision(lot, Error(kept), Cardinality(paired)) = CV_AUTO
  <2> DEFINE d == Decision(lot, Error(kept), Cardinality(paired))
  <2>1. reports' = [reports EXCEPT ![lot] = d]
    BY <1>2
  <2> HIDE DEF d, lot
  <2>2. l = lot /\ d = CV_AUTO
    BY <2>1
  <2> QED BY <2>2 DEF d
<1> DEFINE off == [t \in paired |-> AbsDiff(CountAt(t).occupied, kept[t].occupied)]
<1>3. manual \subseteq Counts(l, {"manual_count"})
  BY <1>0 DEF Calibrating, Calibrate
<1>4. \A t \in paired : /\ CountAt(t) \in manual /\ CountAt(t).timestamp = t
                        /\ kept[t] \in readings /\ kept[t].timestamp = t
  <2> TAKE t \in paired
  <2>1. \E m \in manual : m.timestamp = t
    BY DEF Paired
  <2> QED BY <1>2, <2>1
<1>5. Capacity[l] \in Int
  BY CamerasAreKnown
<1>6. 10 * SumFunction(off) < Cardinality(paired) * Capacity[l]
  BY <1>0 DEF Decision, CV_AUTO, CV_VERIFIED
<1>7. IsFiniteSet(paired)
  <2> DEFINE time == [o \in observations |-> o.timestamp]
  <2>1. IsFiniteSet({time[o] : o \in observations})
    BY ImageIsFinite DEF Stored
  <2>2. paired \subseteq {time[o] : o \in observations}
    BY DEF Paired, Counts
  <2> QED BY <2>1, <2>2, FS_Subset
<1>8. \A t \in paired : off[t] \in Int
  <2> TAKE t \in paired
  <2>1. CountAt(t).occupied \in Int /\ kept[t].occupied \in Int
    BY <1>3, <1>4 DEF Stored, Counts
  <2> QED BY <2>1, CountIsInteger
<1>9. SumFunction(off) = SumFunctionOnSet(off, paired)
  BY DEF SumFunction
<1>10. \E t \in paired : ~(Capacity[l] <= 10 * off[t])
  <2> SUFFICES ASSUME \A t \in paired : Capacity[l] <= 10 * off[t] PROVE FALSE
    OBVIOUS
  <2> HIDE DEF off, paired
  <2>0. 10 \in Int /\ \A t \in paired : off[t] \in Int /\ Capacity[l] <= 10 * off[t]
    BY <1>8
  <2>1. /\ SumFunctionOnSet(off, paired) \in Int
        /\ Cardinality(paired) * Capacity[l] <= 10 * SumFunctionOnSet(off, paired)
    BY <1>5, <1>7, <2>0, SumAtLeast
  <2>2. Cardinality(paired) \in Nat
    BY <1>7, FS_CardinalityType
  <2> QED BY <1>5, <1>6, <1>9, <2>1, <2>2
<1>11. PICK t \in paired : ~(Capacity[l] <= 10 * off[t])
  BY <1>10
<1>12. Near(CountAt(t), kept[t], l)
  BY <1>4, <1>5, <1>8, <1>11 DEF Near
<1>13. CountAt(t) \in Counts(l, {"manual_count"}) /\ kept[t] \in Counts(l, CV_COLLECTION_METHODS)
  BY <1>0, <1>3, <1>4
<1> QED BY <1>12, <1>13 DEF Earned

\* A count that is posted or handed in becomes at most one more observation.
LEMMA IngestedIs ==
    ASSUME Stored, NEW o, o.occupied \in Int, observations' = Ingested(o)
    PROVE  /\ observations \subseteq observations' /\ observations' \subseteq observations \cup {o}
           /\ Stored'
<1>1. observations' = observations \/ observations' = observations \cup {o}
  BY DEF Ingested
<1>2. IsFiniteSet(observations \cup {o})
  BY FS_AddElement DEF Stored
<1> QED BY <1>1, <1>2 DEF Stored

LEMMA HasFirst ==
    ASSUME NEW S, NEW q \in Seq(S), q # <<>>
    PROVE  q[1] \in S
<1>1. Len(q) \in Nat \ {0}
  BY EmptySeq
<1> QED BY <1>1

\* What a step makes of the observations, one by one.
LEMMA ObservationsStep ==
    ASSUME Sampling, Stored, [Next]_vars
    PROVE  /\ observations \subseteq observations' /\ Stored'
           /\ \A o \in observations' \ observations : o.collection_method = CV_AUTO =>
                  o.lot \in Lots /\ collection_methods[o.lot] = CV_AUTO
<1>1. ASSUME UNCHANGED observations
      PROVE  /\ observations \subseteq observations' /\ Stored'
             /\ \A o \in observations' \ observations : o.collection_method = CV_AUTO =>
                    o.lot \in Lots /\ collection_methods[o.lot] = CV_AUTO
  BY <1>1 DEF Stored
<1>2. CASE Post
  <2> DEFINE l == Head(todo)
             o == Observation(l, timestamp, MethodOf(l), frame.occupied)
  <2>1. pc = "post" /\ observations' = Ingested(o)
    BY <1>2 DEF Post
  <2>2. l \in Lots /\ frame \in FramesOf[l]
    BY <2>1 DEF Sampling
  <2>3. frame.occupied \in Int
    BY <2>2, CamerasAreKnown DEF Frame
  <2>4. o.occupied \in Int /\ o.lot = l /\ o.collection_method = MethodOf(l)
    BY <2>3 DEF Observation
  <2>5. MethodOf(l) = CV_AUTO => collection_methods[l] = CV_AUTO
    BY DEF MethodOf, CV_AUTO, CV_VERIFIED
  <2> HIDE DEF l, o
  <2>6. /\ observations \subseteq observations' /\ observations' \subseteq observations \cup {o}
        /\ Stored'
    BY <2>1, <2>4, IngestedIs
  <2> QED BY <2>2, <2>4, <2>5, <2>6
<1>3. ASSUME NEW l \in Lots, NEW sheet \in Sheets, Survey(l, sheet)
      PROVE  /\ observations \subseteq observations' /\ Stored'
             /\ \A o \in observations' \ observations : o.collection_method # CV_AUTO
  <2>1. PICK row \in Consolidated(sheet) :
            observations' = Ingested(Observation(l, row.timestamp, "manual_count", row.occupied))
    BY <1>3 DEF Survey
  <2> DEFINE o == Observation(l, row.timestamp, "manual_count", row.occupied)
  <2>2. row.occupied \in Int
    <3>1. sheet \in Seq([occupied : Int, timestamp : Int]) /\ sheet # <<>> /\ row = sheet[1]
      BY <2>1, CamerasAreKnown DEF Consolidated
    <3>2. sheet[1] \in [occupied : Int, timestamp : Int]
      BY <3>1, HasFirst
    <3> QED BY <3>1, <3>2
  <2>3. o.occupied \in Int /\ o.collection_method # CV_AUTO
    BY <2>2 DEF Observation, CV_AUTO
  <2> HIDE DEF o
  <2>4. /\ observations \subseteq observations' /\ observations' \subseteq observations \cup {o}
        /\ Stored'
    BY <2>1, <2>3, IngestedIs DEF o
  <2> QED BY <2>3, <2>4
<1>4. ASSUME NEW l \in Lots, NEW occupied \in Reported, Report(l, occupied)
      PROVE  /\ observations \subseteq observations' /\ Stored'
             /\ \A o \in observations' \ observations : o.collection_method # CV_AUTO
  <2> DEFINE o == Observation(l, now, "manual_count", occupied)
  <2>1. observations' = Ingested(o)
    BY <1>4 DEF Report
  <2>2. o.occupied \in Int /\ o.collection_method # CV_AUTO
    BY CamerasAreKnown DEF Observation, CV_AUTO
  <2> HIDE DEF o
  <2>3. /\ observations \subseteq observations' /\ observations' \subseteq observations \cup {o}
        /\ Stored'
    BY <2>1, <2>2, IngestedIs
  <2> QED BY <2>2, <2>3
<1>5. CASE StartPipeline \/ SkipFrame \/ ClassifyFrame \/ Answered \/ WakeUp \/ Stop \/ TimePasses \/ Calibrate
           \/ (\E l \in Lots : ReadManual(l)) \/ UNCHANGED vars
  BY <1>1, <1>5 DEF StartPipeline, SkipFrame, ClassifyFrame, Answered, WakeUp, Stop, TimePasses, Calibrate,
                    ReadManual, vars
<1> QED BY <1>2, <1>3, <1>5, <1>4 DEF Next, Loop

LEMMA TrustStep ==
    ASSUME TrustInv, [Next]_vars
    PROVE  TrustInv'
<1>0. Sampling /\ Stored /\ Calibrating /\ Trusted
  BY DEF TrustInv
<1>1. observations \subseteq observations' /\ Stored'
  BY <1>0, ObservationsStep
<1>2. /\ \A l, M : Counts(l, M) \subseteq Counts(l, M)'
      /\ \A l : Earned(l) => Earned(l)'
  BY <1>1, EarnedForGood
<1>3. Calibrating'
  <2>1. CASE \E l \in Lots : ReadManual(l)
    BY <1>2, <2>1 DEF ReadManual, Calibrating, Counts
  <2>2. CASE calibrating' = Nothing
    BY <2>2 DEF Calibrating
  <2>3. CASE UNCHANGED calibrating
    BY <1>0, <1>2, <2>3 DEF Calibrating
  <2> QED BY <2>1, <2>2, <2>3 DEF Next, Loop, StartPipeline, SkipFrame, ClassifyFrame, Post, Answered, WakeUp,
                 Stop, TimePasses, Calibrate, Survey, Report, vars, loop
<1>4. /\ DOMAIN reports' = Lots
      /\ \A l \in Lots : reports'[l] = CV_AUTO => Earned(l)
  <2>1. CASE UNCHANGED reports
    BY <1>0, <2>1 DEF Trusted
  <2>2. CASE Calibrate
    <3>1. DOMAIN reports' = Lots
      BY <1>0, <2>2 DEF Calibrate, Trusted
    <3> QED BY <1>0, <2>2, <3>1, ReportIsEarned DEF Trusted
  <2> QED BY <2>1, <2>2 DEF Next, Loop, StartPipeline, SkipFrame, ClassifyFrame, Post, Answered, WakeUp,
                 Stop, TimePasses, ReadManual, Survey, Report, vars, loop
<1>5. \A l \in Lots : collection_methods'[l] = CV_AUTO => Earned(l)
  <2>1. collection_methods' = reports \/ UNCHANGED collection_methods
    BY DEF Next, Loop, StartPipeline, SkipFrame, ClassifyFrame, Post, Answered, WakeUp,
           Stop, TimePasses, ReadManual, Survey, Report, Calibrate, vars, loop
  <2> QED BY <1>0, <2>1 DEF Trusted
<1>6. TrustIsEarned'
  <2> SUFFICES ASSUME NEW o \in observations', o.collection_method = CV_AUTO
               PROVE  Earned(o.lot)'
    BY DEF TrustIsEarned, Earned, Near
  <2>1. CASE o \in observations
    <3>1. Earned(o.lot)
      BY <1>0, <2>1 DEF Trusted, TrustIsEarned, Earned, Near
    <3> QED BY <1>2, <3>1
  <2>2. CASE o \notin observations
    <3>1. Earned(o.lot)
      BY <1>0, <2>2, ObservationsStep DEF Trusted
    <3> QED BY <1>2, <3>1
  <2> QED BY <2>1, <2>2
<1>7. Trusted'
  BY <1>2, <1>4, <1>5, <1>6 DEF Trusted
<1> QED BY <1>0, <1>1, <1>3, <1>7, SamplingStep DEF TrustInv

\* No reading is marked as trusted unless its camera has once been near a count by
\* hand, a survey's or a driver's, for any lots, sheets and reports, any number of
\* calibrations that overlap with new counts, and however old the report is when the
\* loop is started.
THEOREM OnlyEarnedTrust == Spec => []TrustIsEarned
<1>1. Init => TrustInv
  <2> SUFFICES ASSUME Init PROVE TrustInv
    OBVIOUS
  <2>1. Sampling
    BY DEF Init, Sampling
  <2>2. Stored
    BY FS_EmptySet DEF Init, Stored
  <2>3. Calibrating /\ TrustIsEarned
    BY DEF Init, Calibrating, TrustIsEarned
  <2>4. \A l \in Lots : reports[l] # CV_AUTO /\ collection_methods[l] # CV_AUTO
    BY NothingIsNoMethod DEF Init, CV_COLLECTION_METHODS, CV_AUTO
  <2> QED BY <2>1, <2>2, <2>3, <2>4 DEF TrustInv, Trusted, Init
<1>2. TrustInv => TrustIsEarned
  BY DEF TrustInv, Trusted
<1> QED BY <1>1, <1>2, TrustStep, PTL DEF Spec
============================================================================
