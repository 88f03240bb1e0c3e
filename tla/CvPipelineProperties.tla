----------------------- MODULE CvPipelineProperties -----------------------
(* What a reading of a camera is worth. *)
EXTENDS CvPipeline

\* A count that is posted never exceeds the cars in the picture, and misses at most
\* a fifth of the lot's annotated spaces: uncertain spaces count as neither, blurry
\* pictures and lots without spaces are not counted.
PostedCountIsNear ==
    pc = "post" =>
        LET spaces == Spaces[Head(todo)] IN
        /\ frame.occupied <= frame.cars
        /\ 5 * (frame.cars - frame.occupied) <= spaces
        /\ spaces > 0

\* A reading is only marked as trusted unsupervised (cv_auto) if the lot's camera has
\* at least once been within 10 % of the capacity of a count by hand of the same time,
\* which the observers of a survey agreed on or a single driver reported: whichever
\* readings a report happened to compare, and whenever the loop learned of its
\* recommendation.  No more than that: one such pair is enough for the code, and the
\* recommendation may have been withdrawn since (AutoIsCurrent).
TrustIsEarned ==
    \A o \in observations : o.collection_method = CV_AUTO =>
        \E m \in Counts(o.lot, {"manual_count"}), c \in Counts(o.lot, CV_COLLECTION_METHODS) :
            m.timestamp = c.timestamp /\ 10 * AbsDiff(m.occupied, c.occupied) < Capacity[o.lot]

\* Every camera is looked at again and again until the loop as a whole stops: a
\* picture that is skipped, or a reading that is rejected, costs no lot its turn.
CamerasAreSampled ==
    \A l \in Lots : []<>((pc = "frame" /\ Head(todo) = l) \/ pc = "stopped")

(* What the documentation says and the code does not do. *)

\* A reading is posted as cv_auto only while the lot's current decision is cv_auto
\* (docs/CV.md, section 6).  The loop keeps the decisions it was constructed with.
AutoIsCurrent ==
    pc = "post" /\ MethodOf(Head(todo)) = CV_AUTO => reports[Head(todo)] = CV_AUTO
============================================================================
