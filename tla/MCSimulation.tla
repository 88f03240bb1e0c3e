--------------------------- MODULE MCSimulation ---------------------------
(* A small campus and a scenario for each strategy, for TLC. *)
EXTENDS SimulationProperties

\* The second gate reaches the second lot only.
MCTravel == << [l \in 1..2 |-> IF l = 1 THEN 90 ELSE 30], [l \in {2} |-> 150] >>

Window(type, entity, status, from, to) ==
    [type |-> type, entity |-> entity, status |-> status, from |-> from, to |-> to]
Entry(gate, from, to) == [gate |-> gate, rate |-> 1, from |-> from, to |-> to]

\* The first lot holds more than the twin believes; a gate opens late.
Raised == [strategy |-> "nearest_available", duration |-> 5,
           profile |-> <<Entry(1, 0, 3), Entry(2, 0, 3)>>,
           windows |-> {Window("gate", 2, "closed", 0, 1)},
           usable |-> [l \in {1} |-> 2], noise |-> {0}]

\* Noisy readings, a lot restricted and a gate closed while vehicles wait.
Noisy == [strategy |-> "prediction_only", duration |-> 5,
          profile |-> <<Entry(1, 0, 3)>>,
          windows |-> {Window("parking_lot", 2, "restricted", 1, 2),
                       Window("gate", 1, "closed", 1, 2), Window("gate", 1, "restricted", 0, 4)},
          usable |-> [l \in {} |-> 0], noise |-> {-1, 0, 1}]

\* A lot without any place and no override of the other.
Blocked == [strategy |-> "first_available", duration |-> 4,
            profile |-> <<Entry(1, 0, 2), Entry(2, 0, 1)>>,
            windows |-> {Window("road", 1, "closed", 0, 3)},
            usable |-> [l \in {1} |-> 0], noise |-> {0}]

MCScenarios == {Raised, Noisy, Blocked}
MCGateCapacity == <<0, 2>>
MCTotal == <<1, 2>>
============================================================================
