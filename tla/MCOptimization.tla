--------------------------- MODULE MCOptimization ---------------------------
(* A gate, two lots and the roads between them. *)
EXTENDS OptimizationProperties

CONSTANTS north, lotA, lotB, ra, ra2, rb, rc

Edge(r, a, b, time) ==
    [road_id |-> r, mode |-> "drive", from_node |-> a, to_node |-> b,
     travel_time |-> time, distance |-> 5]

\* Two roads lead to lotA, the slower one last.
MCRouteEdges ==
    <<Edge(ra, north, lotA, 1), Edge(ra, lotA, north, 1),
      Edge(ra2, north, lotA, 3), Edge(ra2, lotA, north, 3),
      Edge(rb, north, lotB, 2), Edge(rb, lotB, north, 2),
      Edge(rc, lotA, lotB, 0), Edge(rc, lotB, lotA, 0)>>

MCLotOrder == <<lotA, lotB>>

Lot(status, occupied, capacity) ==
    [status |-> status, occupied |-> occupied, usable_capacity |-> capacity]
Gate(status, queue) == [status |-> status, queue |-> queue]

MCFirstTwin ==
    [lots |-> [l \in {lotA, lotB} |-> IF l = lotA THEN Lot("open", 1, 2) ELSE Lot("open", Nothing, 2)],
     gates |-> [g \in {north} |-> Gate("open", Nothing)],
     roads |-> [r \in {ra, ra2, rb, rc} |-> IF r = ra THEN "closed" ELSE "open"]]

MCLotRows ==
    [l \in {lotA, lotB} |->
        IF l = lotA THEN {Lot("open", 2, 2), Lot("closed", 1, 2)}
        ELSE {Lot("open", 1, 2), Lot("restricted", 1, 2)}]
MCGateRows == [g \in {north} |-> {Gate("closed", 20)}]
MCRoadStatuses ==
    [r \in {ra, ra2, rb, rc} |-> IF r = ra THEN {"open"} ELSE IF r = rb THEN {"closed"} ELSE {}]
MCMae == [l \in {lotA, lotB} |-> 10]
MCBalanced == [t \in Terms |-> 20]
============================================================================
