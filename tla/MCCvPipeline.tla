--------------------------- MODULE MCCvPipeline ---------------------------
(* A lot of ten places of which five are annotated, and one without any. *)
EXTENDS CvPipelineProperties

CONSTANTS lotA, lotB

MCLotOrder == <<lotB, lotA>>
MCSpaces == [l \in {lotA, lotB} |-> IF l = lotA THEN 5 ELSE 0]
MCCapacity == [l \in {lotA, lotB} |-> IF l = lotA THEN 10 ELSE 4]

Picture(blurry, cars, occupied, vacant) ==
    [blurry |-> blurry, cars |-> cars, occupied |-> occupied, vacant |-> vacant]

\* Clear, one space uncertain, two uncertain, blurry.
MCFramesOf ==
    [l \in {lotA, lotB} |->
        IF l = lotA
        THEN {Picture(FALSE, 1, 1, 4), Picture(FALSE, 4, 3, 1), Picture(FALSE, 3, 1, 2), Picture(TRUE, 3, 0, 5)}
        ELSE {Picture(FALSE, 0, 0, 0)}]

Row(occupied, time) == [occupied |-> occupied, timestamp |-> time]
MCSheets == {<<Row(3, 1)>>, <<Row(1, 2), Row(1, 1)>>, <<Row(2, 1), Row(1, 1)>>}

\* A driver who is near, and one who makes it up.
MCReported == {2, 9}
============================================================================
