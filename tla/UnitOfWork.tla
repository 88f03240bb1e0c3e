---------------------------- MODULE UnitOfWork ----------------------------
(***************************************************************************)
(* What one database session of the backend does to one table row between  *)
(* reading it and committing it (the SQLAlchemy unit of work over          *)
(* PostgreSQL READ COMMITTED; a library, modelled from how src/ uses it).  *)
(*                                                                         *)
(* A row is a function from column names to values, NoRow is its absence.  *)
(* A session keeps two images of a row: "old", as it was when the SELECT   *)
(* loaded it, and "new", after the attribute assignments.  An UPDATE names *)
(* only the columns in which the two differ and is applied to whatever the *)
(* row has become; no table of this schema has a version column.           *)
(***************************************************************************)
CONSTANT NoRow

\* The columns the UPDATE statement of the session would set.
Dirty(old, new) == {c \in DOMAIN new : new[c] # old[c]}

\* Variant of Flush that writes every column back (what an UPDATE of the whole
\* object would do); the runs must tell it from Flush.
FlushWholeRow(cur, old, new) == IF new = old THEN cur ELSE new

\* The row after the session's INSERT, UPDATE or DELETE, from its current
\* committed content "cur".  A session that changed nothing issues nothing.
Flush(cur, old, new) ==
    IF new = old THEN cur
    ELSE IF old = NoRow \/ new = NoRow THEN new
    ELSE [c \in DOMAIN cur |-> IF c \in Dirty(old, new) THEN new[c] ELSE cur[c]]

\* The statement fails and the transaction is rolled back: an INSERT over a
\* key that exists by now (IntegrityError), an UPDATE of a row that is gone
\* (StaleDataError).  A bulk DELETE of nothing is not an error.
Conflict(cur, old, new) ==
    /\ new # old
    /\ new # NoRow
    /\ (old = NoRow) # (cur = NoRow)
===========================================================================
