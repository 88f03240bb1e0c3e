--------------------------- MODULE TwinRegister ---------------------------
(***************************************************************************)
(* What the digital twin promises to whoever reads it: each entity shows   *)
(* either nothing or one whole observation, value and labels together,     *)
(* exactly as some writer offered it.  A write takes effect in one step or *)
(* not at all; a reset clears every entity in one step.                    *)
(***************************************************************************)
CONSTANTS
    Observed,     \* the entities that carry observations
    Writers,      \* the sessions that may offer one
    Stamps,       \* observations: value, time, source and provenance
    Unobserved,   \* what an entity without an observation shows
    NoOffer

VARIABLES
    register,     \* entity |-> the observation it shows
    offered       \* writer |-> the observation it is writing, or NoOffer

Offers == [entity: Observed, stamp: Stamps]

TypeOK ==
    /\ register \in [Observed -> Stamps \cup {Unobserved}]
    /\ offered \in [Writers -> Offers \cup {NoOffer}]

Init ==
    /\ register = [e \in Observed |-> Unobserved]
    /\ offered = [w \in Writers |-> NoOffer]

Offer(w) ==
    /\ offered[w] = NoOffer
    /\ \E o \in Offers : offered' = [offered EXCEPT ![w] = o]
    /\ UNCHANGED register

Install(w) ==
    /\ offered[w] # NoOffer
    /\ register' = [register EXCEPT ![offered[w].entity] = offered[w].stamp]
    /\ offered' = [offered EXCEPT ![w] = NoOffer]

\* A crash, a rollback or a failed statement: the observation is lost whole.
Withdraw(w) ==
    /\ offered[w] # NoOffer
    /\ offered' = [offered EXCEPT ![w] = NoOffer]
    /\ UNCHANGED register

Clear ==
    /\ register' = [e \in Observed |-> Unobserved]
    /\ UNCHANGED offered

Next == Clear \/ \E w \in Writers : Offer(w) \/ Install(w) \/ Withdraw(w)

Spec == Init /\ [][Next]_<<register, offered>>
===========================================================================
