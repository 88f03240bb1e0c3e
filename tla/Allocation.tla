---------------------------- MODULE Allocation ----------------------------
(***************************************************************************)
(* The allocation strategies the simulation offers for a vehicle that      *)
(* leaves the gate queue (backend/app/services/allocation.py).             *)
(*                                                                         *)
(* Lots are numbered in the order of their ids.  A strategy sees of each   *)
(* candidate lot the travel time and the room it appears to have.          *)
(***************************************************************************)
EXTENDS Integers

STRATEGY_REGISTRY == {"first_available", "nearest_available", "prediction_only"}

\* The sort keys of the three strategies, ties broken by the lot's id.
Prefers(strategy, travel, apparent, l, m) ==
    \/ strategy = "first_available" /\ l < m
    \/ /\ strategy = "nearest_available"
       /\ travel[l] < travel[m] \/ (travel[l] = travel[m] /\ l < m)
    \/ /\ strategy = "prediction_only"
       /\ apparent[l] > apparent[m] \/ (apparent[l] = apparent[m] /\ l < m)

\* Variant of Viable that keeps a last place free.
ViableWithSpare(apparent) == {l \in DOMAIN apparent : apparent[l] > 1}

Viable(apparent) == {l \in DOMAIN apparent : apparent[l] > 0}

\* What choose() may return: one lot, or none if every candidate appears full.
Choices(strategy, travel, apparent) ==
    {l \in Viable(apparent) :
        \A m \in Viable(apparent) \ {l} : Prefers(strategy, travel, apparent, l, m)}
============================================================================
