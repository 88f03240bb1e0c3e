-------------------------- MODULE MCNavigatePage --------------------------
(* Two gates, two destinations, one of which is found under its own name. *)
EXTENDS NavigatePageProperties

CONSTANTS library, hostel, none, bo, book, north, south, lotA, p1

MCFound == [q \in {none, bo, book} |->
               IF q = none THEN {} ELSE IF q = bo THEN {library, hostel} ELSE {library}]
MCNameOf == [d \in {library, hostel} |-> IF d = library THEN book ELSE bo]
============================================================================
