--------------------------- MODULE CampusConfig ---------------------------
(***************************************************************************)
(* Loading campus files into the database                                  *)
(* (backend/scripts/load_campus_config.py, app/config_loader/): a file is  *)
(* validated, written in one transaction, and the twin then gets a row for *)
(* every new lot, gate and road in another (DigitalTwinService             *)
(* .init_campus).  Sessions load concurrently, over PostgreSQL READ        *)
(* COMMITTED with the foreign keys of the migrations.                      *)
(*                                                                         *)
(* There is one campus.  A file is a record of five sequences of ids, of   *)
(* "about", the attributes of each id, and of "campus", the campus row's   *)
(* own columns.                                                            *)
(***************************************************************************)
EXTENDS Integers, Sequences, FiniteSets, UnitOfWork

CONSTANTS
    Entities,    \* the ids files may use
    Files,       \* the files the operators load, valid or not
    FirstFile,   \* the file the campus was first loaded from
    Sessions,    \* runs of the script
    Crashing,    \* ... whose process may die between two statements
    MaxVersion   \* bound on the configuration version

\* The order in which upsert_campus_config writes the tables, and the order in
\* which init_campus reads them.
Tables == <<"gates", "parking_lots", "destinations", "events", "roads">>
TwinTables == <<"parking_lots", "gates", "roads">>

Ids(f, table) == {f[table][i] : i \in DOMAIN f[table]}
Listed(f) == UNION {Ids(f, Tables[k]) : k \in DOMAIN Tables}
NodeTables == {"gates", "parking_lots", "destinations"}
Nodes(f) == UNION {Ids(f, t) : t \in NodeTables}

----------------------------------------------------------------------------
(* Validation: the schema of the entities, then the checks across them.     *)

RoadErrors(f) == {r \in Ids(f, "roads") : f.about[r].modes = {}}

LotErrors(f) ==
    {l \in Ids(f, "parking_lots") : f.about[l].allocated > f.about[l].total_capacity}

Repeats(s) == {s[i] : i \in {i \in DOMAIN s : \E j \in DOMAIN s : j # i /\ s[j] = s[i]}}

\* An id twice in one table, or in two of the tables whose ids roads refer to.
DuplicateErrors(f) ==
    (UNION {Repeats(f[Tables[k]]) : k \in DOMAIN Tables})
    \cup (UNION {Ids(f, p[1]) \cap Ids(f, p[2]) : p \in {q \in NodeTables \X NodeTables : q[1] # q[2]}})

Endpoints(f, r) == {f.about[r].start_node, f.about[r].end_node}

DanglingErrors(f) == {r \in Ids(f, "roads") : ~(Endpoints(f, r) \subseteq Nodes(f))}

OrphanErrors(f) == Nodes(f) \ UNION {Endpoints(f, r) : r \in Ids(f, "roads")}

NearestErrors(f) ==
    {d \in Ids(f, "destinations") :
        \/ ~(f.about[d].nearest_gates \subseteq Ids(f, "gates"))
        \/ ~(f.about[d].nearest_parking_lots \subseteq Ids(f, "parking_lots"))}

\* load_campus_config_file raises if there is any error; cross-entity checks
\* only run on a file whose entities are well formed.
Errors(f) ==
    IF RoadErrors(f) \cup LotErrors(f) # {} THEN RoadErrors(f) \cup LotErrors(f)
    ELSE DuplicateErrors(f) \cup DanglingErrors(f) \cup OrphanErrors(f) \cup NearestErrors(f)

Valid(f) == Errors(f) = {}

\* What upsert_campus_config sets in the campus row besides the version.
CampusColumns == {"name", "description", "timezone"}

ASSUME FilesAssumption ==
    /\ FirstFile \in Files /\ Valid(FirstFile)
    /\ \A f \in Files : Listed(f) \subseteq Entities /\ f.campus = [c \in CampusColumns |-> f.campus[c]]
    /\ MaxVersion \in Nat \ {0}

----------------------------------------------------------------------------
(* What a file looks like in the database: rows under the key of their      *)
(* table, two route edges per mode of a road.                               *)

TableNames == {Tables[k] : k \in DOMAIN Tables}
Keys == TableNames \X Entities
KeysOf(f, table) == {table} \X Ids(f, table)
Written(f) == UNION {KeysOf(f, t) : t \in TableNames}
Seeded(f) == UNION {KeysOf(f, TwinTables[k]) : k \in DOMAIN TwinTables}

RowOf(f, key, v) == [about |-> f.about[key[2]], configuration_version |-> v]

ASSUME RowsAssumption ==
    \A f \in Files, v \in 1..MaxVersion : \A key \in Written(f) : RowOf(f, key, v) # NoRow

RowsOf(f, v) == [key \in Keys |-> IF key \in Written(f) THEN RowOf(f, key, v) ELSE NoRow]

Edge(r, mode, from, to, v) ==
    [road_id |-> r, mode |-> mode, from_node |-> from, to_node |-> to,
     configuration_version |-> v]

\* forward, then reverse
EdgesOf(f, v) ==
    UNION {LET a == f.about[r].start_node
               b == f.about[r].end_node
           IN {Edge(r, m, a, b, v) : m \in f.about[r].modes}
              \cup {Edge(r, m, b, a, v) : m \in f.about[r].modes}
           : r \in Ids(f, "roads")}

----------------------------------------------------------------------------
VARIABLES
    version,   \* campuses.active_configuration_version
    campus,    \* the other columns of the campus row
    rows,      \* committed configuration rows: key |-> row or NoRow
    edges,     \* committed route_edges
    twin,      \* keys of the lots, gates and roads with a committed twin row
    pc,        \* session |-> where it is in _load_all
    file,      \* session |-> the file it is loading
    step,      \* session |-> index of the table it works on next
    seen,      \* session |-> the version its first SELECT returned
    base,      \* session |-> the campus columns that SELECT returned
    work,      \* session |-> the configuration rows as its transaction sees them
    todo,      \* session |-> entities init_campus found to have no twin row
    inserted,  \* session |-> its uncommitted twin rows
    outcome    \* session |-> how its last load ended

committed == <<version, campus, rows, edges, twin>>
vars == <<committed, pc, file, step, seen, base, work, todo, inserted, outcome>>

NoRows == [key \in Keys |-> NoRow]

\* The campus has been loaded once and its twin seeded.
Init ==
    /\ version = 1
    /\ campus = FirstFile.campus
    /\ rows = RowsOf(FirstFile, 1)
    /\ edges = EdgesOf(FirstFile, 1)
    /\ twin = Seeded(FirstFile)
    /\ pc = [s \in Sessions |-> "idle"]
    /\ file = [s \in Sessions |-> FirstFile]
    /\ step = [s \in Sessions |-> 1]
    /\ seen = [s \in Sessions |-> 0]
    /\ base = [s \in Sessions |-> FirstFile.campus]
    /\ work = [s \in Sessions |-> NoRows]
    /\ todo = [s \in Sessions |-> {}]
    /\ inserted = [s \in Sessions |-> {}]
    /\ outcome = [s \in Sessions |-> "loaded"]

\* The script is done with its file, or dies and PostgreSQL rolls back.
End(s, how) ==
    /\ pc' = [pc EXCEPT ![s] = "idle"]
    /\ step' = [step EXCEPT ![s] = 1]
    /\ seen' = [seen EXCEPT ![s] = 0]
    /\ base' = [base EXCEPT ![s] = FirstFile.campus]
    /\ work' = [work EXCEPT ![s] = NoRows]
    /\ todo' = [todo EXCEPT ![s] = {}]
    /\ inserted' = [inserted EXCEPT ![s] = {}]
    /\ file' = [file EXCEPT ![s] = FirstFile]
    /\ outcome' = [outcome EXCEPT ![s] = how]

Fail(s) == End(s, "failed") /\ UNCHANGED committed

----------------------------------------------------------------------------
(* upsert_campus_config.                                                    *)

\* A file with errors is reported and skipped.
Reject(s, f) ==
    /\ pc[s] = "idle"
    /\ ~Valid(f)
    /\ UNCHANGED vars

\* The campus row is read, its version and its columns, with a plain SELECT.
ReadVersion(s, f) ==
    /\ pc[s] = "idle"
    /\ Valid(f)
    /\ version < MaxVersion
    /\ pc' = [pc EXCEPT ![s] = "read"]
    /\ file' = [file EXCEPT ![s] = f]
    /\ seen' = [seen EXCEPT ![s] = version]
    /\ base' = [base EXCEPT ![s] = campus]
    /\ UNCHANGED <<committed, step, work, todo, inserted, outcome>>

\* The UPDATE of the campus row, flushed before the first DELETE: from here to
\* its commit the transaction holds that row, and another waits at this point.
LockCampus(s) ==
    /\ pc[s] = "read"
    /\ \A t \in Sessions : pc[t] # "write"
    /\ pc' = [pc EXCEPT ![s] = "write"]
    /\ work' = [work EXCEPT ![s] = rows]
    /\ UNCHANGED <<committed, file, step, seen, base, todo, inserted, outcome>>

\* Variant of Pruned: rows are only ever added and updated; the runs must tell it
\* from Pruned.
PrunedNever(s, table) == {}

\* Rows of the table that the file no longer lists.
Pruned(s, table) ==
    {key \in {table} \X Entities : work[s][key] # NoRow} \ KeysOf(file[s], table)

\* Variant of Referenced: the twin's tables without their foreign keys.
ReferencedByEdges(keys) == \E e \in edges : <<"roads", e.road_id>> \in keys

\* A foreign key refers to one of the keys: of a twin row, or of a route edge
\* (the edges are only regenerated after the roads are pruned).
Referenced(keys) ==
    \/ keys \cap twin # {}
    \/ \E e \in edges : <<"roads", e.road_id>> \in keys

\* The deletion waits for a transaction that has just inserted such a twin row.
PruneWaitsFor(s, t) ==
    /\ pc[s] = "write" /\ step[s] \in DOMAIN Tables /\ t # s
    /\ Pruned(s, Tables[step[s]]) \cap inserted[t] # {}

WriteTable(s) ==
    /\ pc[s] = "write" /\ step[s] \in DOMAIN Tables
    /\ \A t \in Sessions : ~PruneWaitsFor(s, t)
    /\ ~Referenced(Pruned(s, Tables[step[s]]))
    /\ LET table == Tables[step[s]]
           f == file[s]
       IN work' = [work EXCEPT ![s] = [key \in Keys |->
                      IF key \in KeysOf(f, table) THEN RowOf(f, key, seen[s] + 1)
                      ELSE IF key \in Pruned(s, table) THEN NoRow ELSE @[key]]]
    /\ step' = [step EXCEPT ![s] = @ + 1]
    /\ UNCHANGED <<committed, pc, file, seen, base, todo, inserted, outcome>>

\* Variant of PruneFails that rolls back and tries the file once more.
PruneFailsRetries(s) ==
    /\ pc[s] = "write" /\ step[s] \in DOMAIN Tables
    /\ \A t \in Sessions : ~PruneWaitsFor(s, t)
    /\ Referenced(Pruned(s, Tables[step[s]]))
    /\ pc' = [pc EXCEPT ![s] = "read"]
    /\ step' = [step EXCEPT ![s] = 1]
    /\ work' = [work EXCEPT ![s] = NoRows]
    /\ UNCHANGED <<committed, file, seen, base, todo, inserted, outcome>>

\* IntegrityError: nothing in the script handles it.
PruneFails(s) ==
    /\ pc[s] = "write" /\ step[s] \in DOMAIN Tables
    /\ \A t \in Sessions : ~PruneWaitsFor(s, t)
    /\ Referenced(Pruned(s, Tables[step[s]]))
    /\ Fail(s)

\* session.merge of the campus row: the UPDATE sets the columns in which the file
\* differs from what the first SELECT returned, not from what is there by now.
CampusAfter(s) ==
    [c \in CampusColumns |-> IF file[s].campus[c] # base[s][c] THEN file[s].campus[c] ELSE campus[c]]

\* Variant of CommitConfig that does not start over with the twin's tables.
CommitConfigKeepsStep(s) ==
    /\ pc[s] = "write" /\ step[s] = Len(Tables) + 1
    /\ version' = seen[s] + 1
    /\ campus' = CampusAfter(s)
    /\ rows' = work[s]
    /\ edges' = EdgesOf(file[s], seen[s] + 1)
    /\ pc' = [pc EXCEPT ![s] = "select"]
    /\ work' = [work EXCEPT ![s] = NoRows]
    /\ UNCHANGED <<twin, file, step, seen, base, todo, inserted, outcome>>

\* The edges of the campus are deleted and regenerated, and all is committed.
CommitConfig(s) ==
    /\ pc[s] = "write" /\ step[s] = Len(Tables) + 1
    /\ version' = seen[s] + 1
    /\ campus' = CampusAfter(s)
    /\ rows' = work[s]
    /\ edges' = EdgesOf(file[s], seen[s] + 1)
    /\ pc' = [pc EXCEPT ![s] = "select"]
    /\ step' = [step EXCEPT ![s] = 1]
    /\ work' = [work EXCEPT ![s] = NoRows]
    /\ UNCHANGED <<twin, file, seen, base, todo, inserted, outcome>>

----------------------------------------------------------------------------
(* init_campus, in a transaction of its own: one SELECT per configuration   *)
(* table, session.get of each twin row, session.merge of the missing ones.  *)

SelectTable(s) ==
    /\ pc[s] = "select" /\ step[s] \in DOMAIN TwinTables
    /\ LET table == TwinTables[step[s]]
       IN todo' = [todo EXCEPT ![s] =
              {key \in ({table} \X Entities) \ (twin \cup inserted[s]) : rows[key] # NoRow}]
    /\ pc' = [pc EXCEPT ![s] = "insert"]
    /\ UNCHANGED <<committed, file, step, seen, base, work, inserted, outcome>>

\* The insertion waits for a transaction that has inserted the same key or
\* deleted the configuration row the new row refers to.
InsertWaitsFor(s, t) ==
    /\ pc[s] = "insert" /\ t # s
    /\ \/ todo[s] \cap inserted[t] # {}
       \/ pc[t] = "write" /\ \E key \in todo[s] : rows[key] # NoRow /\ work[t][key] = NoRow

\* A row that another session has committed meanwhile is found by the SELECT of
\* session.merge, or was not there yet and the INSERT meets it (InsertFails).
InsertTwins(s) ==
    /\ pc[s] = "insert"
    /\ \A t \in Sessions : ~InsertWaitsFor(s, t)
    /\ \A key \in todo[s] : rows[key] # NoRow
    /\ inserted' = [inserted EXCEPT ![s] = @ \cup (todo[s] \ twin)]
    /\ todo' = [todo EXCEPT ![s] = {}]
    /\ pc' = [pc EXCEPT ![s] = "select"]
    /\ step' = [step EXCEPT ![s] = @ + 1]
    /\ UNCHANGED <<committed, file, seen, base, work, outcome>>

\* Variant of InsertFails: the error is taken for a row somebody else has seeded.
InsertFailsQuietly(s) ==
    /\ pc[s] = "insert"
    /\ \A t \in Sessions : ~InsertWaitsFor(s, t)
    /\ \E key \in todo[s] : key \in twin \/ rows[key] = NoRow
    /\ End(s, "loaded")
    /\ UNCHANGED committed

\* The row exists by now, or the entity it is for is gone.
InsertFails(s) ==
    /\ pc[s] = "insert"
    /\ \A t \in Sessions : ~InsertWaitsFor(s, t)
    /\ \E key \in todo[s] : key \in twin \/ rows[key] = NoRow
    /\ Fail(s)

CommitTwin(s) ==
    /\ pc[s] = "select" /\ step[s] = Len(TwinTables) + 1
    /\ twin' = twin \cup inserted[s]
    /\ End(s, "loaded")
    /\ UNCHANGED <<version, campus, rows, edges>>

----------------------------------------------------------------------------
(* PostgreSQL, and the operator's machine.                                  *)

WaitsFor(s, t) ==
    \/ pc[s] = "read" /\ pc[t] = "write"
    \/ PruneWaitsFor(s, t)
    \/ InsertWaitsFor(s, t)

\* Sessions that wait for each other in a circle: PostgreSQL aborts one.
Deadlocked(D) ==
    /\ D # {}
    /\ \A s \in D : \E t \in D : WaitsFor(s, t)
Circle(D) == Deadlocked(D) /\ \A E \in SUBSET D : Deadlocked(E) => E = D

AbortDeadlock(s) ==
    /\ \E D \in SUBSET Sessions : s \in D /\ Circle(D)
    /\ Fail(s)

Crash(s) ==
    /\ s \in Crashing /\ pc[s] # "idle"
    /\ Fail(s)

\* One load from its validated file to its end.
Work(s) ==
    \/ LockCampus(s) \/ WriteTable(s) \/ PruneFails(s) \/ CommitConfig(s)
    \/ SelectTable(s) \/ InsertTwins(s) \/ InsertFails(s) \/ CommitTwin(s)
    \/ AbortDeadlock(s)

Next ==
    \E s \in Sessions :
        \/ \E f \in Files : Reject(s, f) \/ ReadVersion(s, f)
        \/ Work(s)
        \/ Crash(s)

\* A script that is running goes on; nobody has to start one.  Strong fairness:
\* PostgreSQL grants a row lock in the order in which it was asked for, so who
\* waits is not overtaken for ever.
Spec == Init /\ [][Next]_vars /\ \A s \in Sessions : SF_vars(Work(s))
============================================================================
