-------------------------- MODULE MCCampusConfig --------------------------
(* Small instances of the configuration loader for TLC. *)
EXTENDS CampusConfigProperties, TLC

CONSTANTS gate, gate2, lot, lot2, hall, road, road2, s1, s2

Road(a, b, modes) == [modes |-> modes, start_node |-> a, end_node |-> b]
Lot(total, allocated) == [allocated |-> allocated, total_capacity |-> total]
Hall(gates) == [nearest_gates |-> gates, nearest_parking_lots |-> {lot}]

MCEntities == {gate, gate2, lot, lot2, hall, road, road2}

About == gate :> "open" @@ gate2 :> "open" @@ lot :> Lot(2, 2) @@ lot2 :> Lot(1, 1)
         @@ hall :> Hall({gate}) @@ road :> Road(gate, lot, {"drive"})
         @@ road2 :> Road(gate2, lot2, {"drive", "walk"})

File(gates, lots, halls, roads, about) ==
    [gates |-> gates, roads |-> roads, about |-> about, parking_lots |-> lots,
     destinations |-> halls, events |-> <<>>,
     campus |-> [name |-> "Campus", description |-> "old", timezone |-> "UTC"]]

Small == File(<<gate>>, <<lot>>, <<>>, <<road>>, About)
\* ... with another way in, ...
Large == [File(<<gate, gate2>>, <<lot, lot2>>, <<>>, <<road, road2>>, About)
             EXCEPT !.campus.description = "new"]
\* ... with the lot's capacity and the time zone corrected, ...
Corrected == [File(<<gate>>, <<lot>>, <<>>, <<road>>, lot :> Lot(3, 2) @@ About)
                 EXCEPT !.campus.timezone = "IST"]
\* ... with a destination on the road, ...
WithHall == File(<<gate>>, <<lot>>, <<hall>>, <<road>>,
                 road :> Road(gate, hall, {"walk"}) @@ road2 :> Road(hall, lot, {"walk"}) @@ About)
Hallway == [WithHall EXCEPT !.roads = <<road, road2>>]

\* One file per check of the validation.
MCInvalid == {
    WithHall,                                                        \* orphan lot
    [Small EXCEPT !.roads = <<road, road2>>],                        \* dangling
    [Small EXCEPT !.gates = <<gate, gate>>],                         \* repeated
    [Hallway EXCEPT !.about = hall :> Hall({gate2}) @@ @],           \* unknown gate
    [Small EXCEPT !.about = road :> Road(gate, lot, {}) @@ @],       \* no mode
    [Small EXCEPT !.about = lot :> Lot(1, 2) @@ @]}                  \* capacity

MCFiles == {Small, Large, Corrected, Hallway} \cup MCInvalid

MCTrimmed == {Small, Large}
============================================================================
