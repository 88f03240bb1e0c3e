------------------------ MODULE CampusConfig_proofs ------------------------
(***************************************************************************)
(* Proofs about loading campus files, for any files, any sessions, and     *)
(* whatever waits, fails or dies.                                          *)
(***************************************************************************)
EXTENDS CampusConfigProperties, TLAPS, FiniteSetTheorems, WellFoundedInduction

LEMMA TablesFacts ==
    /\ DOMAIN Tables = 1..5 /\ Len(Tables) = 5
    /\ \A i, j \in 1..5 : Tables[i] = Tables[j] => i = j
    /\ TableNames = {Tables[k] : k \in 1..5}
    /\ DOMAIN TwinTables = 1..3 /\ Len(TwinTables) = 3
    /\ \A i, j \in 1..3 : TwinTables[i] = TwinTables[j] => i = j
    /\ \A k \in 1..3 : TwinTables[k] \in TableNames
<1>1. DOMAIN Tables = 1..5 /\ Len(Tables) = 5 /\ DOMAIN TwinTables = 1..3 /\ Len(TwinTables) = 3
  BY DEF Tables, TwinTables
<1>2. /\ Tables[1] = "gates" /\ Tables[2] = "parking_lots" /\ Tables[3] = "destinations"
      /\ Tables[4] = "events" /\ Tables[5] = "roads"
  BY DEF Tables
<1>3. TwinTables[1] = "parking_lots" /\ TwinTables[2] = "gates" /\ TwinTables[3] = "roads"
  BY DEF TwinTables
<1>4. \A k \in 1..5 : k = 1 \/ k = 2 \/ k = 3 \/ k = 4 \/ k = 5
  OBVIOUS
<1>5. \A k \in 1..3 : k = 1 \/ k = 2 \/ k = 3
  OBVIOUS
<1>6. TableNames = {Tables[k] : k \in 1..5}
  BY <1>1 DEF TableNames
<1>7. \A i, j \in 1..5 : Tables[i] = Tables[j] => i = j
  BY <1>2, <1>4
<1>8. \A i, j \in 1..3 : TwinTables[i] = TwinTables[j] => i = j
  BY <1>3, <1>5
<1>9. \A k \in 1..3 : TwinTables[k] \in {Tables[i] : i \in 1..5}
  BY <1>2, <1>3, <1>5
<1> QED BY <1>1, <1>6, <1>7, <1>8, <1>9

LEMMA KeysFacts ==
    /\ \A k \in 1..5 : {Tables[k]} \X Entities \subseteq Keys
    /\ \A k \in 1..3 : {TwinTables[k]} \X Entities \subseteq Keys
    /\ \A key \in Keys : \E k \in 1..5 : key \in {Tables[k]} \X Entities
  BY TablesFacts DEF Keys

\* What a file writes into a table has keys of that table.
LEMMA WrittenFacts ==
    ASSUME NEW f \in Files
    PROVE  /\ \A k \in 1..5 : KeysOf(f, Tables[k]) \subseteq {Tables[k]} \X Entities
           /\ \A k \in 1..5 : \A key \in {Tables[k]} \X Entities :
                  key \in Written(f) <=> key \in KeysOf(f, Tables[k])
           /\ Written(f) \subseteq Keys
<1>1. \A k \in 1..5 : Ids(f, Tables[k]) \subseteq Entities
  BY TablesFacts, FilesAssumption DEF Listed
<1>2. \A k \in 1..5 : KeysOf(f, Tables[k]) \subseteq {Tables[k]} \X Entities
  BY <1>1 DEF KeysOf
<1>3. Written(f) = UNION {KeysOf(f, Tables[k]) : k \in 1..5}
  BY TablesFacts DEF Written
<1>4. ASSUME NEW k \in 1..5, NEW key \in {Tables[k]} \X Entities
      PROVE  key \in Written(f) <=> key \in KeysOf(f, Tables[k])
  <2>1. \A i \in 1..5 : key \in KeysOf(f, Tables[i]) => i = k
    BY <1>2, <1>4, TablesFacts
  <2> QED BY <1>3, <2>1
<1>5. Written(f) \subseteq Keys
  BY <1>2, <1>3, KeysFacts
<1> QED BY <1>2, <1>4, <1>5

----------------------------------------------------------------------------
(* The inductive invariant.                                                 *)

\* Where the session is decides which table it may be at.
StepFits ==
    \A s \in Sessions :
        /\ pc[s] \in {"idle", "read"} => step[s] = 1
        /\ pc[s] = "insert" => step[s] \in 1..3

\* The campus row's lock.
OneWriter == \A s, t \in Sessions : pc[s] = "write" /\ pc[t] = "write" => s = t

FilesValid == \A s \in Sessions : Valid(file[s])

\* What a transaction sees: the file's rows in the tables it has written, the
\* committed ones in the others.
Done(s) == {Tables[k] : k \in 1..step[s] - 1}

View(s) ==
    [key \in Keys |-> IF key[1] \in Done(s) THEN RowsOf(file[s], seen[s] + 1)[key] ELSE rows[key]]

WorkFollows == work = [s \in Sessions |-> IF pc[s] = "write" THEN View(s) ELSE NoRows]

\* Twin rows to be committed only exist between the two transactions' ends.
InsertedWhere == \A s \in Sessions : pc[s] \notin {"select", "insert"} => inserted[s] = {}

\* No twin row, committed or not, loses the configuration row it refers to: not
\* in the database, and not in a transaction that will replace it.
Kept(key) ==
    /\ rows[key] # NoRow
    /\ \A t \in Sessions : pc[t] = "write" => work[t][key] # NoRow

TwinKept ==
    /\ \A key \in twin : Kept(key)
    /\ \A s \in Sessions : \A key \in inserted[s] : Kept(key)

Core == TypeOK /\ StepFits /\ OneWriter /\ FilesValid /\ WorkFollows /\ InsertedWhere /\ RowsAreOneFile


----------------------------------------------------------------------------
(* What a step is: of all that ends a load early, only that it does counts.  *)

Progress(s) ==
    \/ \E f \in Files : ReadVersion(s, f)
    \/ LockCampus(s) \/ WriteTable(s) \/ CommitConfig(s)
    \/ SelectTable(s) \/ InsertTwins(s) \/ CommitTwin(s) \/ Fail(s)

LEMMA StepCases ==
    ASSUME [Next]_vars
    PROVE  UNCHANGED vars \/ \E s \in Sessions : Progress(s)
<1>1. CASE Next
  <2>1. PICK s \in Sessions :
           \/ \E f \in Files : Reject(s, f) \/ ReadVersion(s, f)
           \/ Work(s) \/ Crash(s)
    BY <1>1 DEF Next
  <2>2. ASSUME NEW f \in Files, Reject(s, f) PROVE UNCHANGED vars
    BY <2>2 DEF Reject
  <2>3. Crash(s) => Fail(s)
    BY DEF Crash
  <2>4. Work(s) => Progress(s)
    BY DEF Work, Progress, PruneFails, InsertFails, AbortDeadlock
  <2> QED BY <2>1, <2>2, <2>3, <2>4 DEF Progress
<1> QED BY <1>1

----------------------------------------------------------------------------
(* Types.                                                                   *)

\* The campus columns of a validated file, and those a load commits.
LEMMA CampusRowType ==
    ASSUME NEW f \in Files, Valid(f)
    PROVE  f.campus \in CampusRow
<1>1. f.campus = [c \in CampusColumns |-> f.campus[c]]
  BY FilesAssumption
<1> QED BY <1>1 DEF CampusRow

LEMMA CampusStep ==
    ASSUME CampusOfFiles, file \in [Sessions -> Files], FilesValid, [Next]_vars
    PROVE  CampusOfFiles'
<1>1. CASE UNCHANGED vars
  BY <1>1 DEF vars, committed, CampusOfFiles, CampusRow
<1>2. ASSUME NEW s \in Sessions, Progress(s) PROVE CampusOfFiles'
  <2>0. CampusRow' = CampusRow /\ FirstFile.campus \in CampusRow
    BY CampusRowType, FilesAssumption DEF CampusRow
  <2>1. CASE CommitConfig(s)
    <3>1. file[s].campus \in CampusRow /\ base' = base
      BY <2>1, CampusRowType DEF CommitConfig, FilesValid
    <3>2. campus' = [c \in CampusColumns |->
                        IF file[s].campus[c] # base[s][c] THEN file[s].campus[c] ELSE campus[c]]
      BY <2>1 DEF CommitConfig, CampusAfter
    <3>3. campus \in CampusRow
      BY DEF CampusOfFiles
    <3>4. campus' \in CampusRow
      BY <3>1, <3>2, <3>3 DEF CampusRow
    <3> QED BY <2>0, <3>1, <3>4 DEF CampusOfFiles
  <2>2. CASE \E f \in Files : ReadVersion(s, f)
    BY <2>0, <2>2 DEF ReadVersion, committed, CampusOfFiles
  <2>3. CASE CommitTwin(s) \/ Fail(s)
    BY <2>0, <2>3 DEF CommitTwin, Fail, End, committed, CampusOfFiles
  <2>4. CASE LockCampus(s) \/ WriteTable(s) \/ SelectTable(s) \/ InsertTwins(s)
    BY <2>0, <2>4 DEF LockCampus, WriteTable, SelectTable, InsertTwins, committed, CampusOfFiles
  <2> QED BY <1>2, <2>1, <2>2, <2>3, <2>4 DEF Progress
<1> QED BY <1>1, <1>2, StepCases

LEMMA TypeInit == Init => TypeOK /\ StepFits
<1> SUFFICES ASSUME Init PROVE TypeOK /\ StepFits
  OBVIOUS
<1>1. DOMAIN rows = Keys
  BY DEF Init, RowsOf
<1>2. Seeded(FirstFile) \subseteq Keys
  <2>1. \A k \in 1..3 : KeysOf(FirstFile, TwinTables[k]) \subseteq Keys
    BY TablesFacts, WrittenFacts, KeysFacts, FilesAssumption
  <2> QED BY <2>1, TablesFacts DEF Seeded
<1>3. \A s \in Sessions : DOMAIN work[s] = Keys
  BY DEF Init, NoRows
<1>4. CampusOfFiles
  BY CampusRowType, FilesAssumption DEF Init, CampusOfFiles
<1> QED BY <1>1, <1>2, <1>3, <1>4, FilesAssumption DEF Init, TypeOK, StepFits

LEMMA TypeStep ==
    ASSUME TypeOK, StepFits, FilesValid, WorkFollows, [Next]_vars
    PROVE  TypeOK' /\ StepFits'
<1> USE DEF TypeOK, StepFits
<1>c. CampusOfFiles'
  BY CampusStep
<1>1. CASE UNCHANGED vars
  BY <1>1, <1>c DEF vars, committed
<1>2. ASSUME NEW s \in Sessions, Progress(s) PROVE TypeOK' /\ StepFits'
  <2>0. /\ \A w : work' = [work EXCEPT ![s] = w] => work'[s] = w
        /\ DOMAIN NoRows = Keys
    BY DEF WorkFollows, NoRows
  <2>1. CASE \E f \in Files : ReadVersion(s, f)
    BY <1>c, <2>1, FilesAssumption DEF ReadVersion, committed
  <2>2. CASE LockCampus(s)
    <3>1. \A t \in Sessions : DOMAIN work'[t] = Keys
      BY <2>2 DEF LockCampus, WorkFollows
    <3> QED BY <1>c, <2>2, <3>1 DEF LockCampus, committed
  <2>3. CASE WriteTable(s)
    <3>1. \A t \in Sessions : DOMAIN work'[t] = Keys
      BY <2>3 DEF WriteTable, WorkFollows
    <3>2. step[s] \in 1..5
      BY <2>3, TablesFacts DEF WriteTable
    <3> QED BY <1>c, <2>3, <3>1, <3>2 DEF WriteTable, committed
  <2>4. CASE CommitConfig(s)
    <3>1. \A t \in Sessions : DOMAIN work'[t] = Keys
      BY <2>4, <2>0 DEF CommitConfig, WorkFollows
    <3>2. seen[s] + 1 \in 1..MaxVersion
      BY FilesAssumption
    <3>3. DOMAIN rows' = Keys
      BY <2>4 DEF CommitConfig
    <3> QED BY <1>c, <2>4, <3>1, <3>2, <3>3 DEF CommitConfig
  <2>5. CASE SelectTable(s)
    <3>1. step[s] \in 1..3
      BY <2>5, TablesFacts DEF SelectTable
    <3>2. {key \in ({TwinTables[step[s]]} \X Entities) \ (twin \cup inserted[s]) : rows[key] # NoRow} \subseteq Keys
      BY <3>1, KeysFacts
    <3> QED BY <1>c, <2>5, <3>1, <3>2 DEF SelectTable, committed
  <2>6. CASE InsertTwins(s)
    BY <1>c, <2>6 DEF InsertTwins, committed
  <2>7. CASE CommitTwin(s)
    <3>1. \A t \in Sessions : DOMAIN work'[t] = Keys
      BY <2>7, <2>0 DEF CommitTwin, End, WorkFollows
    <3> QED BY <1>c, <2>7, <3>1, FilesAssumption DEF CommitTwin, End
  <2>8. CASE Fail(s)
    <3>1. \A t \in Sessions : DOMAIN work'[t] = Keys
      BY <2>8, <2>0 DEF Fail, End, WorkFollows
    <3> QED BY <1>c, <2>8, <3>1, FilesAssumption DEF Fail, End, committed
  <2> QED BY <1>2, <2>1, <2>2, <2>3, <2>4, <2>5, <2>6, <2>7, <2>8 DEF Progress
<1> QED BY <1>1, <1>2, StepCases

----------------------------------------------------------------------------
(* One writer, and the configuration it writes.                             *)

LEMMA CoreInit == Init => Core
<1> SUFFICES ASSUME Init PROVE Core
  OBVIOUS
<1>1. TypeOK /\ StepFits
  BY TypeInit
<1>2. OneWriter /\ FilesValid /\ InsertedWhere
  BY FilesAssumption DEF Init, OneWriter, FilesValid, InsertedWhere
<1>3. WorkFollows
  BY DEF Init, WorkFollows
<1>4. RowsAreOneFile
  BY FilesAssumption DEF Init, RowsAreOneFile
<1> QED BY <1>1, <1>2, <1>3, <1>4 DEF Core

LEMMA WriterStep ==
    ASSUME TypeOK, OneWriter, FilesValid, InsertedWhere, [Next]_vars
    PROVE  OneWriter' /\ FilesValid' /\ InsertedWhere'
<1> USE DEF TypeOK, OneWriter, FilesValid, InsertedWhere
<1>1. CASE UNCHANGED vars
  <2>1. pc' = pc /\ file' = file /\ inserted' = inserted
    BY <1>1 DEF vars
  <2> QED BY <2>1
<1>2. ASSUME NEW s \in Sessions, Progress(s) PROVE OneWriter' /\ FilesValid' /\ InsertedWhere'
  <2>1. CASE \E f \in Files : ReadVersion(s, f)
    BY <2>1 DEF ReadVersion
  <2>2. CASE LockCampus(s)
    BY <2>2 DEF LockCampus
  <2>3. CASE WriteTable(s)
    BY <2>3 DEF WriteTable
  <2>4. CASE CommitConfig(s)
    BY <2>4 DEF CommitConfig
  <2>5. CASE SelectTable(s)
    BY <2>5 DEF SelectTable
  <2>6. CASE InsertTwins(s)
    BY <2>6 DEF InsertTwins
  <2>7. CASE CommitTwin(s)
    BY <2>7, FilesAssumption DEF CommitTwin, End
  <2>8. CASE Fail(s)
    BY <2>8, FilesAssumption DEF Fail, End
  <2> QED BY <1>2, <2>1, <2>2, <2>3, <2>4, <2>5, <2>6, <2>7, <2>8 DEF Progress
<1> QED BY <1>1, <1>2, StepCases

\* A transaction that has taken the lock sees the committed rows, one that has
\* written every table sees its file.
LEMMA ViewEnds ==
    ASSUME RowsAreOneFile, NEW s \in Sessions
    PROVE  /\ step[s] = 1 => View(s) = rows
           /\ step[s] = 6 => View(s) = RowsOf(file[s], seen[s] + 1)
<1>1. step[s] = 1 => Done(s) = {}
  BY DEF Done
<1>2. step[s] = 6 => Done(s) = TableNames
  BY TablesFacts DEF Done
<1>3. \A key \in Keys : key[1] \in TableNames
  BY DEF Keys
<1>4. CASE step[s] = 6
  <2>1. \A key \in Keys : View(s)[key] = RowsOf(file[s], seen[s] + 1)[key]
    BY <1>2, <1>3, <1>4 DEF View
  <2> QED BY <1>4, <2>1 DEF View, RowsOf
<1>5. rows = [key \in Keys |-> rows[key]]
  BY DEF RowsAreOneFile, RowsOf
<1> QED BY <1>1, <1>4, <1>5 DEF View

\* WriteTable turns the rows of one table into those of the file.
LEMMA WriteTableView ==
    ASSUME TypeOK, WorkFollows, NEW s \in Sessions, WriteTable(s)
    PROVE  work'[s] = View(s)'
<1> DEFINE table == Tables[step[s]]
           v == seen[s] + 1
           new == [key \in Keys |->
                      IF key \in KeysOf(file[s], table) THEN RowOf(file[s], key, v)
                      ELSE IF key \in Pruned(s, table) THEN NoRow ELSE work[s][key]]
<1>1. /\ step[s] \in 1..5 /\ step' = [step EXCEPT ![s] = step[s] + 1]
      /\ work' = [work EXCEPT ![s] = new]
      /\ pc[s] = "write"
      /\ UNCHANGED <<rows, file, seen>>
  BY TablesFacts DEF WriteTable, committed
<1>2. work[s] = View(s) /\ work'[s] = new
  BY <1>1 DEF WorkFollows
<1>3. step'[s] = step[s] + 1
  BY <1>1 DEF TypeOK
<1>4. Done(s)' = Done(s) \cup {table}
  BY <1>1, <1>3 DEF Done
<1>5. table \notin Done(s)
  BY <1>1, TablesFacts DEF Done
<1>6. file[s] \in Files
  BY DEF TypeOK
<1>7. ASSUME NEW key \in Keys, key[1] # table
      PROVE  new[key] = View(s)'[key]
  <2>1. key \notin KeysOf(file[s], table) /\ key \notin Pruned(s, table)
    BY <1>7 DEF KeysOf, Pruned
  <2>2. new[key] = View(s)[key]
    BY <1>2, <2>1
  <2>3. key[1] \in Done(s)' <=> key[1] \in Done(s)
    BY <1>4, <1>7
  <2>4. View(s)'[key] = IF key[1] \in Done(s)' THEN RowsOf(file[s], seen[s] + 1)[key] ELSE rows[key]
    BY <1>1 DEF View, RowsOf, RowOf, Written, KeysOf, Ids
  <2> QED BY <2>2, <2>3, <2>4 DEF View
<1>8. ASSUME NEW key \in Keys, key[1] = table
      PROVE  new[key] = View(s)'[key]
  <2>1. key \in {table} \X Entities
    BY <1>8 DEF Keys
  <2>2. key \in Written(file[s]) <=> key \in KeysOf(file[s], table)
    BY <1>1, <1>6, <2>1, WrittenFacts
  <2>3. new[key] = RowsOf(file[s], v)[key]
    <3>1. CASE key \in KeysOf(file[s], table)
      BY <2>2, <3>1 DEF RowsOf
    <3>2. CASE key \notin KeysOf(file[s], table)
      <4>1. RowsOf(file[s], v)[key] = NoRow
        BY <2>2, <3>2 DEF RowsOf
      <4>2. key \notin Pruned(s, table) => work[s][key] = NoRow
        BY <2>1, <3>2 DEF Pruned
      <4> QED BY <3>2, <4>1, <4>2
    <3> QED BY <3>1, <3>2
  <2>4. View(s)'[key] = RowsOf(file[s], seen[s] + 1)[key]
    BY <1>1, <1>4, <1>8 DEF View, RowsOf, RowOf, Written, KeysOf, Ids
  <2> QED BY <2>3, <2>4
<1>9. \A key \in Keys : new[key] = View(s)'[key]
  BY <1>7, <1>8
<1> QED BY <1>2, <1>9 DEF View

\* A view does not move unless what it is made of does.
LEMMA ViewStays ==
    ASSUME NEW s \in Sessions, rows' = rows,
           file'[s] = file[s], seen'[s] = seen[s], step'[s] = step[s]
    PROVE  View(s)' = View(s)
<1>1. Done(s)' = Done(s)
  BY DEF Done
<1>2. RowsOf(file[s], seen[s] + 1)' = RowsOf(file[s], seen[s] + 1)
  BY DEF RowsOf, RowOf, Written, KeysOf, Ids
<1> QED BY <1>1, <1>2 DEF View

\* What each transaction sees, after a step of any session.
LEMMA WorkStep ==
    ASSUME TypeOK, StepFits, OneWriter, WorkFollows, RowsAreOneFile, [Next]_vars
    PROVE  WorkFollows'
<1> SUFFICES /\ work' = [t \in Sessions |-> work'[t]]
             /\ \A t \in Sessions : work'[t] = IF pc'[t] = "write" THEN View(t)' ELSE NoRows
  BY DEF WorkFollows
<1> USE DEF TypeOK
<1>0. /\ work = [t \in Sessions |-> work[t]]
      /\ \A t \in Sessions : work[t] = IF pc[t] = "write" THEN View(t) ELSE NoRows
  BY DEF WorkFollows
<1>1. CASE UNCHANGED vars
  <2>1. UNCHANGED <<rows, file, seen, step, pc, work>>
    BY <1>1 DEF vars, committed
  <2>2. \A t \in Sessions : View(t)' = View(t)
    BY <2>1, ViewStays
  <2> QED BY <1>0, <2>1, <2>2
<1>2. ASSUME NEW s \in Sessions, Progress(s)
      PROVE  /\ work' = [t \in Sessions |-> work'[t]]
             /\ \A t \in Sessions : work'[t] = IF pc'[t] = "write" THEN View(t)' ELSE NoRows
  <2>1. CASE \E f \in Files : ReadVersion(s, f)
    <3>1. /\ UNCHANGED <<rows, step, work>> /\ pc[s] = "idle" /\ pc'[s] = "read"
          /\ \A t \in Sessions \ {s} : pc'[t] = pc[t] /\ file'[t] = file[t] /\ seen'[t] = seen[t]
      BY <2>1 DEF ReadVersion, committed
    <3>2. \A t \in Sessions \ {s} : View(t)' = View(t)
      BY <3>1, ViewStays
    <3> QED BY <1>0, <3>1, <3>2
  <2>2. CASE LockCampus(s)
    <3>1. /\ UNCHANGED <<rows, file, seen, step>> /\ pc[s] = "read"
          /\ pc' = [pc EXCEPT ![s] = "write"] /\ work' = [work EXCEPT ![s] = rows]
          /\ \A t \in Sessions : pc[t] # "write"
      BY <2>2 DEF LockCampus, committed
    <3>2. \A t \in Sessions : View(t)' = View(t)
      BY <3>1, ViewStays
    <3>3. View(s) = rows
      BY <3>1, ViewEnds DEF StepFits
    <3> QED BY <1>0, <3>1, <3>2, <3>3
  <2>3. CASE WriteTable(s)
    <3>1. /\ UNCHANGED <<rows, file, seen, pc>> /\ pc[s] = "write"
          /\ \A t \in Sessions \ {s} : step'[t] = step[t] /\ work'[t] = work[t]
          /\ work' = [t \in Sessions |-> work'[t]]
      BY <1>0, <2>3 DEF WriteTable, committed
    <3>2. work'[s] = View(s)'
      BY <2>3, WriteTableView
    <3>3. \A t \in Sessions \ {s} : pc[t] # "write"
      BY <3>1 DEF OneWriter
    <3> QED BY <1>0, <3>1, <3>2, <3>3
  <2>4. CASE CommitConfig(s)
    <3>1. /\ pc[s] = "write" /\ pc' = [pc EXCEPT ![s] = "select"]
          /\ work' = [work EXCEPT ![s] = NoRows]
      BY <2>4 DEF CommitConfig
    <3>2. \A t \in Sessions \ {s} : pc[t] # "write"
      BY <3>1 DEF OneWriter
    <3> QED BY <1>0, <3>1, <3>2
  <2>5. CASE SelectTable(s)
    <3>1. /\ UNCHANGED <<rows, file, seen, step, work>> /\ pc[s] = "select"
          /\ pc' = [pc EXCEPT ![s] = "insert"]
      BY <2>5 DEF SelectTable, committed
    <3>2. \A t \in Sessions : View(t)' = View(t)
      BY <3>1, ViewStays
    <3> QED BY <1>0, <3>1, <3>2
  <2>6. CASE InsertTwins(s)
    <3>1. /\ UNCHANGED <<rows, file, seen, work>> /\ pc[s] = "insert"
          /\ pc' = [pc EXCEPT ![s] = "select"]
          /\ \A t \in Sessions \ {s} : step'[t] = step[t]
      BY <2>6 DEF InsertTwins, committed
    <3>2. \A t \in Sessions \ {s} : View(t)' = View(t)
      BY <3>1, ViewStays
    <3> QED BY <1>0, <3>1, <3>2
  <2>7. CASE CommitTwin(s) \/ Fail(s)
    <3>1. rows' = rows /\ \E how \in {"loaded", "failed"} : End(s, how)
      BY <2>7 DEF CommitTwin, Fail, committed
    <3>2. /\ pc' = [pc EXCEPT ![s] = "idle"] /\ work' = [work EXCEPT ![s] = NoRows]
          /\ \A t \in Sessions \ {s} : /\ step'[t] = step[t] /\ seen'[t] = seen[t]
                                        /\ file'[t] = file[t]
      BY <3>1 DEF End
    <3>3. \A t \in Sessions \ {s} : View(t)' = View(t)
      BY <3>1, <3>2, ViewStays
    <3> QED BY <1>0, <3>2, <3>3
  <2> QED BY <1>2, <2>1, <2>2, <2>3, <2>4, <2>5, <2>6, <2>7 DEF Progress
<1> QED BY <1>1, <1>2, StepCases

\* Only a commit changes the configuration, and it commits a whole file.
LEMMA ConfigStep ==
    ASSUME TypeOK, FilesValid, WorkFollows, RowsAreOneFile, [Next]_vars
    PROVE  RowsAreOneFile'
<1>1. ASSUME version' = version, rows' = rows, edges' = edges
      PROVE  RowsAreOneFile'
  <2>1. PICK f \in Files : Valid(f) /\ rows = RowsOf(f, version) /\ edges = EdgesOf(f, version)
    BY DEF RowsAreOneFile
  <2>2. RowsOf(f, version') = RowsOf(f, version) /\ EdgesOf(f, version') = EdgesOf(f, version)
    BY <1>1
  <2> QED BY <1>1, <2>1, <2>2 DEF RowsAreOneFile
<1>2. ASSUME NEW s \in Sessions, CommitConfig(s) PROVE RowsAreOneFile'
  <2>1. /\ pc[s] = "write" /\ step[s] = 6
        /\ version' = seen[s] + 1 /\ rows' = work[s] /\ edges' = EdgesOf(file[s], seen[s] + 1)
    BY <1>2, TablesFacts DEF CommitConfig
  <2>2. work[s] = RowsOf(file[s], seen[s] + 1)
    BY <2>1, ViewEnds DEF WorkFollows
  <2>3. file[s] \in Files /\ Valid(file[s])
    BY DEF TypeOK, FilesValid
  <2>4. DEFINE f == file[s]
  <2>5. rows' = RowsOf(f, version') /\ edges' = EdgesOf(f, version')
    BY <2>1, <2>2
  <2> HIDE DEF f
  <2>6. f \in Files /\ Valid(f)
    BY <2>3 DEF f
  <2> QED BY <2>5, <2>6 DEF RowsAreOneFile
<1>3. CASE UNCHANGED vars
  BY <1>1, <1>3 DEF vars, committed
<1>4. ASSUME NEW s \in Sessions, Progress(s) PROVE RowsAreOneFile'
  BY <1>1, <1>2, <1>4 DEF Progress, ReadVersion, LockCampus, WriteTable, SelectTable,
                          InsertTwins, CommitTwin, Fail, committed
<1> QED BY <1>3, <1>4, StepCases

LEMMA CoreStep == Core /\ [Next]_vars => Core'
  BY TypeStep, WriterStep, WorkStep, ConfigStep DEF Core

LEMMA CoreHolds == Spec => []Core
  BY CoreInit, CoreStep, PTL DEF Spec

\* Loading campus files keeps its types, for every set of files and sessions.
THEOREM TypeCorrect == Spec => []TypeOK
<1>1. Core => TypeOK
  BY DEF Core
<1> QED BY <1>1, CoreHolds, PTL

\* The rows of the five tables and the edges are always those of one valid file,
\* under the version in force, for any number of loads that overlap, fail or die:
\* the campus row's lock and the single commit of upsert_campus_config suffice.
\* Nothing of the kind holds of the campus row's own columns: of those TypeCorrect
\* only says that each is some valid file's.
THEOREM OneFile == Spec => []RowsAreOneFile
<1>1. Core => RowsAreOneFile
  BY DEF Core
<1> QED BY <1>1, CoreHolds, PTL

----------------------------------------------------------------------------
(* The twin's rows and what they refer to.                                  *)

LEMMA TwinInit == Init => TwinKept
<1> SUFFICES ASSUME Init PROVE TwinKept
  OBVIOUS
<1>1. ASSUME NEW key \in twin PROVE rows[key] # NoRow
  <2>1. key \in Written(FirstFile) /\ key \in Keys
    <3>1. PICK k \in 1..3 : key \in KeysOf(FirstFile, TwinTables[k])
      BY <1>1, TablesFacts DEF Init, Seeded
    <3>2. key \in Written(FirstFile)
      BY <3>1, TablesFacts DEF Written
    <3> QED BY <3>2, WrittenFacts, FilesAssumption
  <2>2. RowOf(FirstFile, key, 1) # NoRow
    BY <2>1, RowsAssumption, FilesAssumption
  <2> QED BY <2>1, <2>2 DEF Init, RowsOf
<1> QED BY <1>1 DEF Init, TwinKept, Kept

\* A row that WriteTable removes has no twin row, committed or about to be.
LEMMA WriteKeeps ==
    ASSUME TypeOK, InsertedWhere, WorkFollows, NEW s \in Sessions, WriteTable(s),
           NEW key \in Keys, work[s][key] # NoRow,
           key \in twin \/ \E t \in Sessions : key \in inserted[t]
    PROVE  work'[s][key] # NoRow
<1> DEFINE table == Tables[step[s]]
<1>1. /\ pc[s] = "write" /\ step[s] \in 1..5
      /\ Pruned(s, table) \cap twin = {}
      /\ \A t \in Sessions \ {s} : Pruned(s, table) \cap inserted[t] = {}
  BY TablesFacts DEF WriteTable, Referenced, PruneWaitsFor
<1>2. key \notin Pruned(s, table)
  BY <1>1 DEF InsertedWhere
<1>3. work'[s][key] = IF key \in KeysOf(file[s], table) THEN RowOf(file[s], key, seen[s] + 1)
                      ELSE work[s][key]
  <2>1. work'[s] = [k \in Keys |-> IF k \in KeysOf(file[s], table) THEN RowOf(file[s], k, seen[s] + 1)
                                   ELSE IF k \in Pruned(s, table) THEN NoRow ELSE work[s][k]]
    BY DEF WriteTable, WorkFollows
  <2> QED BY <1>2, <2>1
<1>4. ASSUME key \in KeysOf(file[s], table)
      PROVE  RowOf(file[s], key, seen[s] + 1) # NoRow
  <2>1. key \in Written(file[s])
    BY <1>1, <1>4, TablesFacts DEF Written
  <2>2. file[s] \in Files /\ seen[s] + 1 \in 1..MaxVersion
    BY FilesAssumption DEF TypeOK
  <2> QED BY <2>1, <2>2, RowsAssumption
<1> QED BY <1>3, <1>4

LEMMA TwinStep ==
    ASSUME Core, TwinKept, [Next]_vars
    PROVE  TwinKept'
<1> USE DEF TwinKept, Kept
<1>0. TypeOK /\ OneWriter /\ InsertedWhere /\ WorkFollows
  BY DEF Core
<1>1. CASE UNCHANGED vars
  BY <1>1 DEF vars, committed
<1>2. ASSUME NEW s \in Sessions, Progress(s) PROVE TwinKept'
  <2>1. CASE \E f \in Files : ReadVersion(s, f)
    BY <1>0, <2>1 DEF ReadVersion, committed, TypeOK
  <2>2. CASE LockCampus(s)
    BY <1>0, <2>2 DEF LockCampus, committed, TypeOK, WorkFollows
  <2>3. CASE WriteTable(s)
    <3>1. /\ UNCHANGED <<rows, twin, inserted, pc>> /\ pc[s] = "write"
          /\ \A t \in Sessions \ {s} : work'[t] = work[t]
      BY <1>0, <2>3 DEF WriteTable, committed, WorkFollows
    <3>2. ASSUME NEW key, key \in twin \/ \E t \in Sessions : key \in inserted[t]
          PROVE  work'[s][key] # NoRow
      <4>1. key \in Keys
        BY <1>0, <3>2 DEF TypeOK
      <4>2. work[s][key] # NoRow
        BY <3>1, <3>2
      <4> QED BY <1>0, <2>3, <3>2, <4>1, <4>2, WriteKeeps
    <3> QED BY <3>1, <3>2
  <2>4. CASE CommitConfig(s)
    <3>1. /\ pc[s] = "write" /\ pc' = [pc EXCEPT ![s] = "select"] /\ rows' = work[s]
          /\ UNCHANGED <<twin, inserted>>
      BY <2>4 DEF CommitConfig
    <3>2. \A t \in Sessions : pc'[t] # "write"
      BY <1>0, <3>1 DEF TypeOK, OneWriter
    <3> QED BY <3>1, <3>2
  <2>5. CASE SelectTable(s)
    BY <1>0, <2>5 DEF SelectTable, committed, TypeOK
  <2>6. CASE InsertTwins(s)
    <3>1. /\ UNCHANGED <<rows, twin, work>> /\ pc[s] = "insert"
          /\ pc' = [pc EXCEPT ![s] = "select"]
          /\ inserted' = [inserted EXCEPT ![s] = inserted[s] \cup (todo[s] \ twin)]
      BY <2>6 DEF InsertTwins, committed
    <3>2. \A t \in Sessions : pc'[t] = "write" => pc[t] = "write" /\ t # s
      BY <1>0, <3>1 DEF TypeOK
    <3>3. \A key \in todo[s] : rows[key] # NoRow
      BY <2>6 DEF InsertTwins
    <3>4. \A key \in todo[s], t \in Sessions : pc[t] = "write" => work[t][key] # NoRow
      BY <2>6, <3>1, <3>3 DEF InsertTwins, InsertWaitsFor
    <3> QED BY <1>0, <3>1, <3>2, <3>3, <3>4 DEF TypeOK
  <2>7. CASE CommitTwin(s) \/ Fail(s)
    <3>1. /\ rows' = rows /\ twin' \in {twin, twin \cup inserted[s]}
          /\ \E how \in {"loaded", "failed"} : End(s, how)
      BY <2>7 DEF CommitTwin, Fail, committed
    <3>2. /\ pc' = [pc EXCEPT ![s] = "idle"] /\ inserted' = [inserted EXCEPT ![s] = {}]
          /\ \A t \in Sessions \ {s} : work'[t] = work[t]
      BY <1>0, <3>1 DEF End, WorkFollows
    <3> QED BY <1>0, <3>1, <3>2 DEF TypeOK
  <2> QED BY <1>2, <2>1, <2>2, <2>3, <2>4, <2>5, <2>6, <2>7 DEF Progress
<1> QED BY <1>1, <1>2, StepCases

LEMMA TwinHolds == Spec => []TwinKept
  BY TwinInit, TwinStep, CoreHolds, PTL DEF Spec

\* No load ever removes the configuration row of a twin row: pruning stops at the
\* foreign keys of committed twin rows, and waits for those about to be committed.
THEOREM TwinWithin == Spec => []TwinWithinConfig
<1>1. TwinKept => TwinWithinConfig
  BY DEF TwinKept, Kept, TwinWithinConfig
<1> QED BY <1>1, TwinHolds, PTL

----------------------------------------------------------------------------
(* Nobody's twin row is forgotten.                                          *)

Row(k, e) == <<TwinTables[k], e>>

\* The session's init_campus is still to read the table, or has found the row
\* missing, or has inserted it.
Ahead(t, k, e) ==
    \/ pc[t] = "select" /\ (k >= step[t] \/ Row(k, e) \in inserted[t])
    \/ pc[t] = "insert" /\ (k > step[t] \/ Row(k, e) \in todo[t] \cup inserted[t])

\* ... or its last load failed and it has not got to init_campus since.
Excused(t, k, e) ==
    Ahead(t, k, e) \/ (outcome[t] = "failed" /\ pc[t] \notin {"select", "insert"})

TwinFollows ==
    \A k \in 1..3 : \A e \in Entities :
        rows[Row(k, e)] # NoRow /\ Row(k, e) \notin twin
            => \E t \in Sessions : Excused(t, k, e)

LEMMA FollowsInit == Init => TwinFollows
<1> SUFFICES ASSUME Init, NEW k \in 1..3, NEW e \in Entities, rows[Row(k, e)] # NoRow
             PROVE  Row(k, e) \in twin
  BY DEF TwinFollows
<1>1. Row(k, e) \in {TwinTables[k]} \X Entities /\ Row(k, e) \in Keys
  BY KeysFacts DEF Row
<1>2. Row(k, e) \in Written(FirstFile)
  BY <1>1 DEF Init, RowsOf
<1>3. PICK i \in 1..5 : TwinTables[k] = Tables[i]
  BY TablesFacts
<1>4. Row(k, e) \in KeysOf(FirstFile, TwinTables[k])
  BY <1>1, <1>2, <1>3, WrittenFacts, FilesAssumption
<1> QED BY <1>4, TablesFacts DEF Init, Seeded

\* As long as the configuration stays, one session's step leaves the row with
\* its twin or with a session that is excused.
LEMMA ExcusedStep ==
    ASSUME TypeOK, NEW s \in Sessions, Progress(s), rows' = rows,
           NEW k \in 1..3, NEW e \in Entities, rows[Row(k, e)] # NoRow,
           Row(k, e) \notin twin', NEW t \in Sessions, Excused(t, k, e)
    PROVE  Excused(t, k, e)' \/ Excused(s, k, e)'
<1> USE DEF TypeOK
<1> DEFINE key == Row(k, e)
<1>0. key' = key
  BY DEF Row
<1>1. CASE \E f \in Files : ReadVersion(s, f)
  BY <1>1 DEF ReadVersion, Excused, Ahead, Row
<1>2. CASE LockCampus(s)
  BY <1>2 DEF LockCampus, Excused, Ahead, Row
<1>3. CASE WriteTable(s)
  BY <1>3 DEF WriteTable, Excused, Ahead, Row
<1>4. CASE CommitConfig(s)
  <2>1. pc'[s] = "select" /\ step'[s] = 1
    BY <1>4 DEF CommitConfig
  <2> QED BY <2>1 DEF Excused, Ahead
<1>5. CASE SelectTable(s)
  <2>1. CASE t = s /\ k = step[s] /\ key \notin inserted[s]
    <3>1. key \in {TwinTables[step[s]]} \X Entities /\ key \notin twin
      BY <1>5, <2>1 DEF Row, SelectTable, committed
    <3>2. key \in todo'[s] /\ pc'[s] = "insert"
      BY <1>5, <2>1, <3>1 DEF SelectTable
    <3> QED BY <1>0, <3>2 DEF Excused, Ahead
  <2>2. CASE ~(t = s /\ k = step[s] /\ key \notin inserted[s])
    BY <1>5, <2>2 DEF SelectTable, Excused, Ahead, Row
  <2> QED BY <2>1, <2>2
<1>6. CASE InsertTwins(s)
  <2>1. key \notin twin
    BY <1>6 DEF InsertTwins, committed
  <2>2. CASE t # s
    BY <1>6, <2>2 DEF InsertTwins, Excused, Ahead, Row
  <2>3. CASE t = s
    <3>1. /\ pc[s] = "insert" /\ pc'[s] = "select" /\ step'[s] = step[s] + 1
          /\ inserted'[s] = inserted[s] \cup (todo[s] \ twin)
      BY <1>6 DEF InsertTwins
    <3>2. k > step[s] \/ key \in todo[s] \cup inserted[s]
      BY <2>3, <3>1 DEF Excused, Ahead
    <3> QED BY <1>0, <2>1, <2>3, <3>1, <3>2 DEF Excused, Ahead
  <2> QED BY <2>2, <2>3
<1>7. CASE CommitTwin(s)
  <2>1. CASE t # s
    BY <1>7, <2>1 DEF CommitTwin, End, Excused, Ahead, Row
  <2>2. CASE t = s
    <3>1. pc[s] = "select" /\ step[s] = 4 /\ key \notin inserted[s]
      BY <1>7, TablesFacts DEF CommitTwin
    <3> QED BY <2>2, <3>1 DEF Excused, Ahead
  <2> QED BY <2>1, <2>2
<1>8. CASE Fail(s)
  <2>1. pc'[s] = "idle" /\ outcome'[s] = "failed"
    BY <1>8 DEF Fail, End
  <2> QED BY <2>1 DEF Excused
<1> QED BY <1>1, <1>2, <1>3, <1>4, <1>5, <1>6, <1>7, <1>8 DEF Progress

LEMMA FollowsStep ==
    ASSUME TypeOK, TwinFollows, [Next]_vars
    PROVE  TwinFollows'
<1> SUFFICES ASSUME NEW k \in 1..3, NEW e \in Entities,
                    rows'[Row(k, e)] # NoRow, Row(k, e) \notin twin'
             PROVE  \E t \in Sessions : Excused(t, k, e)'
  BY DEF TwinFollows, Row
<1>1. CASE UNCHANGED vars
  <2>1. PICK t \in Sessions : Excused(t, k, e)
    BY <1>1 DEF TwinFollows, vars, committed
  <2> QED BY <1>1, <2>1 DEF Excused, Ahead, Row, vars, committed
<1>2. ASSUME NEW s \in Sessions, Progress(s)
      PROVE  \E t \in Sessions : Excused(t, k, e)'
  <2>1. CASE CommitConfig(s)
    <3>1. pc'[s] = "select" /\ step'[s] = 1
      BY <2>1 DEF CommitConfig, TypeOK
    <3> QED BY <3>1 DEF Excused, Ahead
  <2>2. CASE ~CommitConfig(s)
    <3>1. rows' = rows /\ twin \subseteq twin'
      BY <1>2, <2>2 DEF Progress, ReadVersion, LockCampus, WriteTable, SelectTable,
                        InsertTwins, CommitTwin, Fail, committed
    <3>2. PICK t \in Sessions : Excused(t, k, e)
      BY <3>1 DEF TwinFollows
    <3> QED BY <1>2, <3>1, <3>2, ExcusedStep
  <2> QED BY <2>1, <2>2
<1> QED BY <1>1, <1>2, StepCases

LEMMA FollowsHolds == Spec => []TwinFollows
<1>1. Core => TypeOK
  BY DEF Core
<1> QED BY <1>1, CoreHolds, FollowsInit, FollowsStep, PTL DEF Spec

\* When no load runs and every last load went well, no lot, gate or road of the
\* configuration lacks its twin row, however the loads before have overlapped.
THEOREM TwinComplete == Spec => []TwinCompleteWhenQuiet
<1>1. TwinFollows => TwinCompleteWhenQuiet
  BY TablesFacts DEF TwinFollows, TwinCompleteWhenQuiet, Excused, Ahead, Row
<1> QED BY <1>1, FollowsHolds, PTL

----------------------------------------------------------------------------
(* Nobody is stuck.                                                         *)

\* The next statement of a load is granted at once: what it asks for is held by
\* nobody else.  (What it then meets may still make the load fail.)
Granted(s) ==
    \/ pc[s] = "read" /\ \A t \in Sessions : pc[t] # "write"
    \/ /\ pc[s] = "write"
       /\ \/ step[s] \in DOMAIN Tables /\ \A t \in Sessions : ~PruneWaitsFor(s, t)
          \/ step[s] = Len(Tables) + 1
    \/ pc[s] = "select" /\ step[s] \in 1..Len(TwinTables) + 1
    \/ pc[s] = "insert" /\ \A t \in Sessions : ~InsertWaitsFor(s, t)

\* While loads are running, one of them is granted its next statement or some
\* wait for each other in a circle, which PostgreSQL finds.
SomebodyGoesOn ==
    (\E s \in Sessions : pc[s] # "idle") =>
        \/ \E s \in Sessions : Granted(s)
        \/ \E D \in SUBSET Sessions : Circle(D)

\* Whoever is not granted its statement waits for a session that is loading:
\* what a load holds ends with it, whether it commits, fails or dies.
LEMMA WaitsForALoad ==
    ASSUME Core, NEW s \in Sessions, pc[s] # "idle", ~Granted(s)
    PROVE  \E t \in Sessions : WaitsFor(s, t) /\ pc[t] # "idle"
<1>1. /\ pc[s] \in {"read", "write", "select", "insert"} /\ step[s] \in 1..6
      /\ pc[s] # "write" => step[s] <= 4
  BY DEF Core, TypeOK
<1>2. \A t \in Sessions : inserted[t] # {} => pc[t] \in {"select", "insert"}
  BY DEF Core, InsertedWhere
<1>3. CASE pc[s] = "read"
  BY <1>3 DEF Granted, WaitsFor
<1>4. CASE pc[s] = "write"
  <2>1. step[s] \in DOMAIN Tables
    BY <1>1, <1>4, TablesFacts DEF Granted
  <2>2. PICK t \in Sessions : PruneWaitsFor(s, t)
    BY <1>4, <2>1 DEF Granted
  <2>3. inserted[t] # {}
    BY <2>2 DEF PruneWaitsFor
  <2> QED BY <1>2, <2>2, <2>3 DEF WaitsFor
<1>5. CASE pc[s] = "select"
  BY <1>1, <1>5, TablesFacts DEF Granted
<1>6. CASE pc[s] = "insert"
  <2>1. PICK t \in Sessions : InsertWaitsFor(s, t)
    BY <1>6 DEF Granted
  <2>2. inserted[t] # {} \/ pc[t] = "write"
    BY <2>1 DEF InsertWaitsFor
  <2> QED BY <1>2, <2>1, <2>2 DEF WaitsFor
<1> QED BY <1>1, <1>3, <1>4, <1>5, <1>6

\* Among finitely many sessions that wait for one another there is a smallest
\* set that does.
LEMMA CircleExists ==
    ASSUME IsFiniteSet(Sessions), NEW W \in SUBSET Sessions, Deadlocked(W)
    PROVE  \E D \in SUBSET Sessions : Circle(D)
<1> DEFINE Less == OpToRel(<, Nat)
           Stuck == {E \in SUBSET Sessions : Deadlocked(E)}
           Sizes == {Cardinality(E) : E \in Stuck}
<1>1. \A E \in SUBSET Sessions : IsFiniteSet(E) /\ Cardinality(E) \in Nat
  BY FS_Subset, FS_CardinalityType
<1>2. Sizes \subseteq Nat /\ Sizes # {}
  BY <1>1
<1>3. IsWellFoundedOn(Less, Nat)
  BY NatLessThanWellFounded
<1>4. \A m, n \in Nat : m < n => <<m, n>> \in Less
  BY DEF OpToRel
<1> HIDE DEF Less, Sizes
<1>5. PICK n \in Sizes : \A m \in Sizes : <<m, n>> \notin Less
  BY <1>2, <1>3, WFMin
<1>6. PICK D \in Stuck : n = Cardinality(D)
  BY <1>5 DEF Sizes
<1>7. ASSUME NEW E \in SUBSET D, Deadlocked(E) PROVE E = D
  <2>1. E \in Stuck /\ Cardinality(E) \in Sizes
    BY <1>6, <1>7 DEF Sizes
  <2>2. Cardinality(E) \in Nat /\ n \in Nat /\ ~(Cardinality(E) < n)
    BY <1>2, <1>4, <1>5, <2>1
  <2>3. IsFiniteSet(D)
    BY <1>1, <1>6
  <2>4. Cardinality(E) <= Cardinality(D) /\ (Cardinality(E) = Cardinality(D) => E = D)
    BY <1>7, <2>3, FS_Subset
  <2> QED BY <1>6, <2>2, <2>4
<1> HIDE DEF Stuck
<1>8. Circle(D) /\ D \in SUBSET Sessions
  BY <1>6, <1>7 DEF Circle, Stuck
<1> QED BY <1>8

\* No load ever waits for something nobody will let go of: as long as loads are
\* running, one is granted its next statement, or there is a circle of waiting
\* loads for PostgreSQL to break.  The locks meant are the campus row's, those of
\* uncommitted twin rows and those of deleted entities, taken in different orders
\* by the two transactions of a load.
THEOREM NobodyIsStuck ==
    ASSUME IsFiniteSet(Sessions)
    PROVE  Spec => []SomebodyGoesOn
<1>1. Core => SomebodyGoesOn
  <2> SUFFICES ASSUME Core, NEW s \in Sessions, pc[s] # "idle",
                      \A t \in Sessions : ~Granted(t)
               PROVE  \E D \in SUBSET Sessions : Circle(D)
    BY DEF SomebodyGoesOn
  <2> DEFINE W == {t \in Sessions : pc[t] # "idle"}
  <2>1. \A t \in W : \E u \in W : WaitsFor(t, u)
    BY WaitsForALoad
  <2>2. Deadlocked(W) /\ W \in SUBSET Sessions
    BY <2>1 DEF Deadlocked
  <2> HIDE DEF W
  <2> QED BY <2>2, CircleExists
<1> QED BY <1>1, CoreHolds, PTL

----------------------------------------------------------------------------
(* A load that goes on comes to its end.                                    *)

\* At most how many statements a load at p that works on its k-th table has left.
Statements(p, k) ==
    CASE p = "read"   -> 20
      [] p = "write"  -> 17 - k
      [] p = "select" -> 9 - 2 * k
      [] p = "insert" -> 8 - 2 * k
      [] OTHER        -> 0

Remaining(s) == Statements(pc[s], step[s])

\* Each step of a load, and each abort, shortens it, and only the next file gives a
\* session more to do.
LoadsGetShorter ==
    [][\A s \in Sessions :
          /\ Work(s) => Remaining(s)' < Remaining(s)
          /\ Remaining(s)' > Remaining(s) => \E f \in Files : ReadVersion(s, f)]_vars

LEMMA StatementsAre ==
    ASSUME NEW k \in 1..6
    PROVE  /\ Statements("idle", k) = 0
           /\ Statements("read", k) = 20
           /\ Statements("write", k) = 17 - k
           /\ Statements("select", k) = 9 - 2 * k
           /\ Statements("insert", k) = 8 - 2 * k
BY DEF Statements

LEMMA RemainingIs ==
    ASSUME NEW k \in 1..6, NEW p \in {"idle", "read", "write", "select", "insert"},
           p # "write" => k <= 4, p = "insert" => k <= 3
    PROVE  /\ Statements(p, k) \in Nat
           /\ p # "idle" => Statements(p, k) > 0
           /\ p = "idle" => Statements(p, k) = 0
BY StatementsAre

\* Whoever PostgreSQL aborts was waiting, and so was loading.
LEMMA AbortedLoads ==
    ASSUME NEW s \in Sessions, AbortDeadlock(s)
    PROVE  pc[s] # "idle"
<1>1. PICK D \in SUBSET Sessions : s \in D /\ Circle(D)
  BY DEF AbortDeadlock
<1>2. PICK t \in D : WaitsFor(s, t)
  BY <1>1 DEF Circle, Deadlocked
<1> QED BY <1>2 DEF WaitsFor, PruneWaitsFor, InsertWaitsFor

LEMMA ShorterLoad ==
    ASSUME TypeOK, StepFits, (TypeOK /\ StepFits)', NEW s \in Sessions, Work(s)
    PROVE  Remaining(s)' < Remaining(s)
<1>1. /\ step[s] \in 1..6 /\ step'[s] \in 1..6
      /\ pc \in [Sessions -> {"idle", "read", "write", "select", "insert"}]
      /\ step \in [Sessions -> 1..6]
      /\ pc[s] = "read" => step[s] = 1
      /\ pc[s] = "select" => step[s] <= 4
      /\ pc[s] = "insert" => step[s] <= 3
  BY DEF TypeOK, StepFits
<1>2. CASE LockCampus(s)
  <2>1. pc[s] = "read" /\ pc'[s] = "write"
    BY <1>1, <1>2 DEF LockCampus
  <2> QED BY <1>1, <2>1, StatementsAre DEF Remaining
<1>3. CASE WriteTable(s)
  <2>1. pc[s] = "write" /\ pc'[s] = "write" /\ step'[s] = step[s] + 1
    BY <1>1, <1>3 DEF WriteTable
  <2> QED BY <1>1, <2>1, StatementsAre DEF Remaining
<1>4. CASE CommitConfig(s)
  <2>1. pc[s] = "write" /\ pc'[s] = "select" /\ step'[s] = 1
    BY <1>1, <1>4 DEF CommitConfig
  <2> QED BY <1>1, <2>1, StatementsAre DEF Remaining
<1>5. CASE SelectTable(s)
  <2>1. pc[s] = "select" /\ pc'[s] = "insert" /\ step'[s] = step[s]
    BY <1>1, <1>5 DEF SelectTable
  <2> QED BY <1>1, <2>1, StatementsAre DEF Remaining
<1>6. CASE InsertTwins(s)
  <2>1. pc[s] = "insert" /\ pc'[s] = "select" /\ step'[s] = step[s] + 1
    BY <1>1, <1>6 DEF InsertTwins
  <2> QED BY <1>1, <2>1, StatementsAre DEF Remaining
<1>7. CASE PruneFails(s) \/ InsertFails(s) \/ CommitTwin(s) \/ AbortDeadlock(s)
  <2>1. pc[s] # "idle"
    BY <1>7, AbortedLoads DEF PruneFails, InsertFails, CommitTwin
  <2>2. pc'[s] = "idle"
    BY <1>1, <1>7 DEF PruneFails, InsertFails, CommitTwin, AbortDeadlock, Fail, End
  <2>3. Remaining(s)' = 0
    BY <1>1, <2>2, StatementsAre DEF Remaining
  <2>4. pc[s] # "idle" => Statements(pc[s], step[s]) > 0
    BY <1>1, RemainingIs
  <2> QED BY <1>1, <2>1, <2>3, <2>4 DEF Remaining
<1> QED BY <1>2, <1>3, <1>4, <1>5, <1>6, <1>7 DEF Work

\* Every statement of a load, and every abort, brings the load nearer to its end, and
\* nothing another session does takes it further away: with NobodyIsStuck, what
\* LoadsEnd needs besides fairness.
THEOREM LoadsShorten == Spec => LoadsGetShorter
<1>1. ASSUME Core, Core', [Next]_vars, NEW s \in Sessions
      PROVE  /\ Work(s) => Remaining(s)' < Remaining(s)
             /\ Remaining(s)' > Remaining(s) => \E f \in Files : ReadVersion(s, f)
  <2>0. TypeOK /\ StepFits /\ (TypeOK /\ StepFits)'
    BY <1>1 DEF Core
  <2>1. Work(s) => Remaining(s)' < Remaining(s)
    BY <2>0, ShorterLoad
  <2>2. Remaining(s) \in Nat /\ Remaining(s)' \in Nat
    <3>1. /\ step[s] \in 1..6 /\ pc[s] \in {"idle", "read", "write", "select", "insert"}
          /\ pc[s] # "write" => step[s] <= 4
          /\ pc[s] = "insert" => step[s] <= 3
      BY <2>0 DEF TypeOK, StepFits
    <3>2. /\ step'[s] \in 1..6 /\ pc'[s] \in {"idle", "read", "write", "select", "insert"}
          /\ pc'[s] # "write" => step'[s] <= 4
          /\ pc'[s] = "insert" => step'[s] <= 3
      BY <2>0 DEF TypeOK, StepFits
    <3>3. Statements(pc[s], step[s]) \in Nat
      BY <3>1, RemainingIs
    <3>4. Statements(pc'[s], step'[s]) \in Nat
      BY <3>2, RemainingIs
    <3> QED BY <3>3, <3>4 DEF Remaining
  <2>3. CASE UNCHANGED vars
    <3>1. Remaining(s)' = Remaining(s)
      BY <2>3 DEF vars, Remaining
    <3> QED BY <2>1, <2>2, <3>1
  <2>4. ASSUME NEW t \in Sessions, t # s, Progress(t)
        PROVE  Remaining(s)' = Remaining(s)
    <3>1. pc'[s] = pc[s] /\ step'[s] = step[s]
      BY <2>0, <2>4 DEF TypeOK, Progress, ReadVersion, LockCampus, WriteTable, CommitConfig,
            SelectTable, InsertTwins, CommitTwin, Fail, End
    <3> QED BY <3>1 DEF Remaining
  <2>5. CASE Next
    <3>1. PICK t \in Sessions :
             \/ \E f \in Files : Reject(t, f) \/ ReadVersion(t, f)
             \/ Work(t) \/ Crash(t)
      BY <2>5 DEF Next
    <3>2. CASE t # s
      <4>1. UNCHANGED vars \/ Progress(t)
        BY <3>1 DEF Reject, Crash, Work, Progress, PruneFails, InsertFails, AbortDeadlock
      <4> QED BY <2>1, <2>2, <2>3, <2>4, <3>2, <4>1
    <3>3. CASE t = s
      <4>1. CASE \E f \in Files : Reject(s, f)
        BY <2>3, <4>1 DEF Reject
      <4>2. CASE Crash(s)
        <5>1. pc'[s] = "idle" /\ step'[s] = 1
          BY <2>0, <4>2 DEF Crash, Fail, End, TypeOK
        <5>2. Remaining(s)' = 0
          BY <5>1, StatementsAre DEF Remaining
        <5> QED BY <2>1, <2>2, <5>2
      <4> QED BY <2>1, <2>2, <3>1, <3>3, <4>1, <4>2
    <3> QED BY <3>2, <3>3
  <2> QED BY <1>1, <2>3, <2>5
<1>2. Core /\ Core' /\ [Next]_vars =>
        [\A s \in Sessions :
            /\ Work(s) => Remaining(s)' < Remaining(s)
            /\ Remaining(s)' > Remaining(s) => \E f \in Files : ReadVersion(s, f)]_vars
  BY <1>1
<1> QED BY <1>2, CoreHolds, PTL DEF Spec, LoadsGetShorter

=============================================================================
