---------------------------- MODULE RepairProofs ----------------------------
(* Proofs about Repair, for any database and any number of crashes.        *)
EXTENDS Repair, FiniteSetTheorems, WellFoundedInduction, TLAPS

\* A copy that has not yet taken the number of its table.
Copy == {n \in {run.number - 1} : run.at = "copied"}

\* The tables that stay as they are, unless their size cannot be had; and what is
\* in them or was in one that was moved away for that.
Stable == {n \in DOMAIN tables \ (damaged \cup Copy) : tables[n] # {}}
Kept == lost \cup (UNION {tables[n] : n \in Stable})

\* The logs that are left are what they were; one that was moved away, or is
\* going to be, is in the stable tables, unless its conversion failed; and so is
\* every table that could be read.
LogsInv ==
  /\ DOMAIN logs \subseteq OldLogs
  /\ \A l \in DOMAIN logs : logs[l] = found.logs[l]
  /\ \A l \in OldLogs \ spoilt :
       l \notin DOMAIN logs \/ l \in archiving => found.logs[l] \subseteq Kept
  /\ \A t \in DOMAIN found.tables \ found.damaged : found.tables[t] \subseteq Kept

TablesInv ==
  /\ DOMAIN tables \subseteq Nat /\ IsFiniteSet(DOMAIN tables)
  /\ damaged \subseteq DOMAIN tables

\* A new file gets a number that no table has; the copy of a table is there
\* until it takes the number of that table.
RunInv ==
  run.at # "find" =>
    /\ run = [at |-> run.at, runs |-> run.runs, number |-> run.number,
              logs |-> run.logs, tables |-> run.tables, infos |-> run.infos]
    /\ run.number \in Nat /\ \A n \in DOMAIN tables : n < run.number
    /\ run.tables \subseteq Nat
    /\ run.at = "copied" =>
         /\ run.number - 1 \in DOMAIN tables
         /\ \A t \in First(run.tables) :
              t \in Nat /\ t < run.number /\ t \notin DOMAIN tables

IInv == LogsInv /\ TablesInv /\ RunInv

\* The numbers of files have a largest one: of the sets of numbers above one of
\* them, a smallest one is empty.
LEMMA MaxExists ==
  ASSUME NEW S \in SUBSET Nat, IsFiniteSet(S), S # {}
  PROVE  Max(S) \in S /\ \A n \in S : n <= Max(S)
<1> DEFINE Above(x) == {y \in S : y > x}
           T == {Above(x) : x \in S}
<1>1. IsWellFoundedOn(StrictSubsetOrdering(S), FiniteSubsetsOf(S))
  BY FS_StrictSubsetOrderingWellFounded, Zenon
<1>2. FiniteSubsetsOf(S) = SUBSET S
  BY FS_FiniteSubsetsOfFinite, Zenon
<1>3. T \subseteq FiniteSubsetsOf(S) /\ T # {}
  <2>1. \A x \in S : Above(x) \in SUBSET S
    OBVIOUS
  <2>2. PICK x \in S : TRUE
    OBVIOUS
  <2>3. Above(x) \in T
    BY <2>2
  <2>4. T \subseteq SUBSET S
    BY <2>1
  <2> HIDE DEF T
  <2> QED BY <1>2, <2>3, <2>4
<1>4. PICK U \in T : \A V \in T : ~ <<V, U>> \in StrictSubsetOrdering(S)
  <2> HIDE DEF T
  <2> QED BY <1>1, <1>3, WFMin, Zenon
<1>5. PICK x \in S : U = Above(x)
  BY <1>4
<1>6. ASSUME NEW y \in S, y > x PROVE FALSE
  <2>1. Above(y) \subseteq Above(x) /\ Above(y) # Above(x)
    <3>1. y \in Above(x) /\ y \notin Above(y)
      BY <1>6
    <3>2. \A z \in Above(y) : z \in Above(x)
      BY <1>6
    <3> QED BY <3>1, <3>2
  <2>2. <<Above(y), U>> \in StrictSubsetOrdering(S)
    BY <1>5, <2>1 DEF StrictSubsetOrdering
  <2> QED BY <1>4, <2>2
<1>7. \A n \in S : x >= n
  BY <1>6
<1> QED BY <1>7 DEF Max

\* When repair begins the files are those that were found.
LEMMA InitIInv == Init => IInv
<1> SUFFICES ASSUME Init PROVE IInv
  OBVIOUS
<1> USE RepairAssumption
<1>1. PICK inTable \in [Writes -> OldTables \cup {0}] :
        tables = [n \in OldTables \cap Range(inTable) |-> {w \in Writes : inTable[w] = n}]
  BY DEF Init
<1>2. found = [logs |-> logs, tables |-> tables, damaged |-> damaged]
      /\ archiving = {} /\ damaged \in SUBSET DOMAIN tables /\ DOMAIN logs = OldLogs
  BY DEF Init
<1>3. run.at = "find"
  BY DEF Init, Start
<1>4. LogsInv
  <2>1. found.logs = logs /\ found.tables = tables /\ found.damaged = damaged
    BY <1>2
  <2>2. \A t \in DOMAIN tables \ damaged : tables[t] = {} \/ t \in Stable
    BY <1>3 DEF Stable, Copy
  <2> QED BY <1>2, <2>1, <2>2 DEF LogsInv, Kept
<1>5. TablesInv
  <2>1. IsFiniteSet(OldTables \cap Range(inTable))
    BY FS_Subset
  <2> QED BY <1>1, <1>2, <2>1 DEF TablesInv
<1> QED BY <1>3, <1>4, <1>5 DEF IInv, RunInv

\* With every file kept, every write is.
LEMMA InvHolds == IInv => NothingLost
<1> SUFFICES ASSUME IInv, NEW w \in Safe
             PROVE  w \in lost \cup (UNION {tables[n] : n \in DOMAIN tables})
                              \cup (UNION {logs[l] : l \in DOMAIN logs})
  BY DEF NothingLost
<1>0. Kept \subseteq lost \cup (UNION {tables[n] : n \in DOMAIN tables})
  BY DEF Kept, Stable
<1>1. CASE w \in UNION {found.logs[l] : l \in OldLogs \ spoilt}
  <2>1. PICK l \in OldLogs \ spoilt : w \in found.logs[l]
    BY <1>1
  <2>2. CASE l \in DOMAIN logs
    BY <2>1, <2>2 DEF IInv, LogsInv
  <2>3. CASE l \notin DOMAIN logs
    BY <1>0, <2>1, <2>3 DEF IInv, LogsInv
  <2> QED BY <2>2, <2>3
<1>2. CASE w \in UNION {found.tables[t] : t \in DOMAIN found.tables \ found.damaged}
  BY <1>0, <1>2 DEF IInv, LogsInv
<1> QED BY <1>1, <1>2 DEF Safe

\* The parts of a run, when it has them.
LEMMA RunParts ==
  ASSUME IInv, run.at # "find"
  PROVE  run = [at |-> run.at, runs |-> run.runs, number |-> run.number,
                logs |-> run.logs, tables |-> run.tables, infos |-> run.infos]
         /\ run.number \in Nat /\ run.number \notin DOMAIN tables
         /\ \A n \in DOMAIN tables : n \in Nat /\ n < run.number
  BY DEF IInv, RunInv, TablesInv

\* A file that is left half written has a new number.
LEMMA TornIs ==
  ASSUME IInv, run.at # "find", NEW torn \in SUBSET {run.number}, Torn(torn)
  PROVE  /\ \A n \in DOMAIN tables :
              n \in DOMAIN tables' /\ tables'[n] = tables[n] /\ n \notin torn
         /\ \A n \in DOMAIN tables' : n \in DOMAIN tables \/ n \in torn
         /\ \A n \in torn : n = run.number /\ tables'[n] = {}
         /\ damaged' = damaged \cup torn
         /\ TablesInv'
<1>1. /\ DOMAIN tables' = DOMAIN tables \cup torn
      /\ \A n \in DOMAIN tables \cup torn :
           tables'[n] = IF n \in torn THEN {} ELSE tables[n]
      /\ damaged' = damaged \cup torn
  BY DEF Torn
<1>2. run.number \in Nat /\ run.number \notin DOMAIN tables
  BY RunParts
<1>3. TablesInv'
  <2>1. IsFiniteSet(DOMAIN tables \cup {run.number})
    BY FS_AddElement DEF IInv, TablesInv
  <2>2. IsFiniteSet(DOMAIN tables \cup torn)
    BY <2>1, FS_Subset
  <2> QED BY <1>1, <1>2, <2>2 DEF IInv, TablesInv
<1> QED BY <1>1, <1>2, <1>3

\* A table is made under a new number, in the place of another one or of none.
LEMMA NewTable ==
  ASSUME IInv, run.at # "find", NEW gone, NEW W,
         tables' = [n \in (DOMAIN tables \ gone) \cup {run.number} |->
                      IF n = run.number THEN W ELSE tables[n]]
  PROVE  /\ \A n \in DOMAIN tables \ gone :
              n \in DOMAIN tables' /\ tables'[n] = tables[n] /\ n # run.number
         /\ run.number \in DOMAIN tables' /\ tables'[run.number] = W
         /\ \A n \in DOMAIN tables' :
              n \in DOMAIN tables \ gone \/ n = run.number
         /\ DOMAIN tables' \subseteq Nat /\ IsFiniteSet(DOMAIN tables')
         /\ \A n \in DOMAIN tables' : n < run.number + 1
<1>1. run.number \in Nat /\ run.number \notin DOMAIN tables
      /\ \A n \in DOMAIN tables : n \in Nat /\ n < run.number
  BY RunParts
<1>2. DOMAIN tables' = (DOMAIN tables \ gone) \cup {run.number}
  OBVIOUS
<1>3. IsFiniteSet(DOMAIN tables')
  <2>1. IsFiniteSet(DOMAIN tables \cup {run.number})
    BY FS_AddElement DEF IInv, TablesInv
  <2> QED BY <1>2, <2>1, FS_Subset
<1>4. \A n \in DOMAIN tables' : n \in Nat /\ n < run.number + 1
  BY <1>1, <1>2
<1> QED BY <1>1, <1>2, <1>3, <1>4

\* Tables are taken away only.
LEMMA FewerTables ==
  ASSUME IInv, NEW t, tables' = Without(t), damaged' = damaged \ {t}
  PROVE  /\ DOMAIN tables' = DOMAIN tables \ {t}
         /\ \A n \in DOMAIN tables \ {t} : tables'[n] = tables[n]
         /\ TablesInv'
<1>1. DOMAIN tables' = DOMAIN tables \ {t}
      /\ \A n \in DOMAIN tables \ {t} : tables'[n] = tables[n]
  BY DEF Without
<1>2. IsFiniteSet(DOMAIN tables \ {t})
  BY FS_Subset DEF IInv, TablesInv
<1> QED BY <1>1, <1>2 DEF IInv, TablesInv

\* No step takes a table away that can be read, or touches what is in it, unless
\* its size cannot be had.
LEMMA StableStays ==
  ASSUME IInv, Next, NEW n \in Stable
  PROVE  (n \in Stable' /\ tables'[n] = tables[n]) \/ tables[n] \subseteq lost'
<1>0. n \in DOMAIN tables /\ n \notin damaged /\ n \notin Copy /\ tables[n] # {}
  BY DEF Stable
<1>1. CASE FindFiles
  <2>1. tables' = tables /\ damaged' = damaged /\ run'.at # "copied"
    BY <1>1 DEF FindFiles, disk
  <2> QED BY <1>0, <2>1 DEF Stable, Copy
<1>2. CASE ConvertLog
  <2>1. PICK l \in First(run.logs) :
          /\ tables' = [m \in DOMAIN tables \cup {run.number} |->
                          IF m = run.number THEN logs[l] ELSE tables[m]]
          /\ run' = [run EXCEPT !.logs = @ \ {l}, !.number = @ + 1,
                                !.tables = @ \cup Converted]
    BY <1>2 DEF ConvertLog
  <2>2. damaged' = damaged /\ run.at = "convert"
    BY <1>2 DEF ConvertLog
  <2>3. run'.at = "convert"
    BY <2>1, <2>2, RunParts
  <2>4. n # run.number
    BY <1>0, <2>2, RunParts
  <2> QED BY <1>0, <2>1, <2>2, <2>3, <2>4 DEF Stable, Copy
<1>3. CASE ConvertFails
  <2>1. PICK torn \in SUBSET {run.number} : Torn(torn)
    BY <1>3 DEF ConvertFails
  <2>2. run.at = "convert" /\ run'.at = "convert"
    BY <1>3, RunParts DEF ConvertFails
  <2>3. n \in DOMAIN tables' /\ tables'[n] = tables[n] /\ n \notin damaged'
    BY <1>0, <2>1, <2>2, TornIs
  <2> QED BY <1>0, <2>2, <2>3 DEF Stable, Copy
<1>4. CASE EndConversion \/ Scan \/ CopyFails \/ WriteDescriptor \/ Install
             \/ WriteCurrent \/ RenameCurrent \/ DescriptorFails
  <2>1. tables' = tables /\ damaged' = damaged /\ run.at \notin {"find", "copied"}
    BY <1>4 DEF EndConversion, Scan, CopyFails, WriteDescriptor, Install,
                WriteCurrent, RenameCurrent, DescriptorFails, disk
  <2>2. run'.at # "copied"
    BY <1>4, <2>1, RunParts DEF EndConversion, Scan, CopyFails, WriteDescriptor,
                Install, WriteCurrent, RenameCurrent, DescriptorFails
  <2> QED BY <1>0, <2>1, <2>2 DEF Stable, Copy
<1>5. CASE (\E l \in OldLogs : Archive(l)) \/ Rename
  <2>1. tables' = tables /\ damaged' = damaged /\ run' = run
    BY <1>5 DEF Archive, Rename
  <2> QED BY <1>0, <2>1 DEF Stable, Copy
<1>6. CASE CopyTable
  <2>1. PICK t \in First(run.tables) \cap damaged :
          /\ tables' = [m \in (DOMAIN tables \ {t}) \cup {run.number} |->
                          IF m = run.number THEN tables[t] ELSE tables[m]]
          /\ damaged' = (damaged \ {t}) \cup {run.number}
    BY <1>6 DEF CopyTable
  <2>2. run.at = "scan" /\ run' = [run EXCEPT !.at = "copied", !.number = @ + 1]
    BY <1>6 DEF CopyTable
  <2>3. run'.number - 1 = run.number /\ n # run.number
    BY <1>0, <2>2, RunParts
  <2>4. n \in DOMAIN tables' /\ tables'[n] = tables[n] /\ n \notin damaged'
    BY <1>0, <2>1, <2>3
  <2> QED BY <1>0, <2>3, <2>4 DEF Stable, Copy
<1>7. CASE FinishCopy
  <2>1. tables' = tables /\ damaged' \subseteq damaged /\ run' = run
    BY <1>7 DEF FinishCopy
  <2> QED BY <1>0, <2>1 DEF Stable, Copy
<1>8. CASE RenameCopy
  <2>1. PICK t \in First(run.tables) :
          /\ tables' = [m \in (DOMAIN tables \ {run.number - 1}) \cup {t} |->
                          IF m = t THEN tables[run.number - 1] ELSE tables[m]]
          /\ run' = [run EXCEPT !.at = "scan", !.tables = @ \ {t}]
    BY <1>8 DEF RenameCopy
  <2>2. run.at = "copied" /\ damaged' = damaged
    BY <1>8 DEF RenameCopy
  <2>3. run'.at = "scan" /\ n # t
    BY <1>0, <2>1, <2>2, RunParts DEF IInv, RunInv
  <2>4. n # run.number - 1
    BY <1>0, <2>2 DEF Copy
  <2> QED BY <1>0, <2>1, <2>2, <2>3, <2>4 DEF Stable, Copy
<1>9. CASE CopyLost
  <2>1. run.at = "copied" /\ tables' = Without(run.number - 1)
        /\ damaged' = damaged \ {run.number - 1}
    BY <1>9 DEF CopyLost
  <2>2. run'.at = "scan"
    BY <1>9, <2>1, RunParts DEF CopyLost
  <2>3. n # run.number - 1
    BY <1>0, <2>1 DEF Copy
  <2> QED BY <1>0, <2>1, <2>2, <2>3, FewerTables DEF Stable, Copy
<1>10. CASE SizeFails
  <2>1. PICK t \in First(run.tables) :
          /\ tables' = Without(t) /\ damaged' = damaged \ {t}
          /\ lost' = lost \cup tables[t]
          /\ run' = [run EXCEPT !.number = @ + 1, !.tables = @ \ {t}]
    BY <1>10 DEF SizeFails
  <2>2. run.at = "scan"
    BY <1>10 DEF SizeFails
  <2>3. run'.at = "scan"
    BY <2>1, <2>2, RunParts
  <2>4. CASE n = t
    BY <2>1, <2>4
  <2>5. CASE n # t
    <3>1. n \in DOMAIN tables' /\ tables'[n] = tables[n]
      BY <1>0, <2>1, <2>5, FewerTables
    <3> QED BY <1>0, <2>1, <2>3, <3>1 DEF Stable, Copy
  <2> QED BY <2>4, <2>5
<1>11. CASE DropEmpty
  <2>1. PICK t \in First(run.tables) \ damaged :
          /\ tables[t] = {}
          /\ tables' = [m \in (DOMAIN tables \ {t}) \cup {run.number} |->
                          IF m = run.number THEN {} ELSE tables[m]]
          /\ damaged' = damaged \cup {run.number}
          /\ run' = [run EXCEPT !.number = @ + 1, !.tables = @ \ {t}]
    BY <1>11 DEF DropEmpty
  <2>2. run.at = "scan"
    BY <1>11 DEF DropEmpty
  <2>3. run'.at = "scan" /\ n # run.number
    BY <1>0, <2>1, <2>2, RunParts
  <2>4. n \in DOMAIN tables' /\ tables'[n] = tables[n]
    BY <1>0, <2>1, <2>3
  <2> QED BY <1>0, <2>1, <2>3, <2>4 DEF Stable, Copy
<1>12. CASE Crash
  <2>1. PICK torn \in SUBSET {m \in {run.number} : Building} : Torn(torn)
    BY <1>12 DEF Crash
  <2>2. run'.at = "find"
    BY <1>12 DEF Crash, Start
  <2>3. CASE run.at = "find"
    <3>1. torn = {}
      BY <2>1, <2>3 DEF Building
    <3>2. DOMAIN tables' = DOMAIN tables /\ tables'[n] = tables[n] /\ damaged' = damaged
      BY <1>0, <2>1, <3>1 DEF Torn
    <3> QED BY <1>0, <2>2, <3>2 DEF Stable, Copy
  <2>4. CASE run.at # "find"
    <3>1. n \in DOMAIN tables' /\ tables'[n] = tables[n] /\ n \notin damaged'
      BY <1>0, <2>1, <2>4, TornIs
    <3> QED BY <1>0, <2>2, <3>1 DEF Stable, Copy
  <2> QED BY <2>3, <2>4
<1> QED BY <1>1, <1>2, <1>3, <1>4, <1>5, <1>6, <1>7, <1>8, <1>9, <1>10, <1>11, <1>12
        DEF Next

\* Nothing that was displaced is put in order again, what is lost stays so, and
\* what was found is remembered.
LEMMA Remembered ==
  ASSUME Next
  PROVE  /\ found' = found /\ key' = key
         /\ displaced \subseteq displaced' /\ spoilt \subseteq spoilt'
         /\ lost \subseteq lost'
  BY DEF Next, FindFiles, ConvertLog, ConvertFails, EndConversion, Archive, Scan,
     SizeFails, CopyFails, CopyTable, FinishCopy, RenameCopy, CopyLost, DropEmpty,
     WriteDescriptor, Install, Rename, WriteCurrent, RenameCurrent, DescriptorFails,
     Crash, history

LEMMA KeptStays == ASSUME IInv, Next PROVE Kept \subseteq Kept'
  BY StableStays, Remembered DEF Kept

\* A step that leaves the logs alone loses nothing, if a log that it is going to
\* move away is in the tables.
LEMMA Keeps ==
  ASSUME IInv, Next, UNCHANGED <<logs, found>>,
         \A l \in archiving' \cap DOMAIN logs :
           l \in archiving \/ l \in spoilt' \/ logs[l] \subseteq Kept'
  PROVE  LogsInv'
<1> USE DEF IInv, LogsInv
<1>0. Kept \subseteq Kept' /\ spoilt \subseteq spoilt'
  BY KeptStays, Remembered
<1>1. ASSUME NEW l \in OldLogs \ spoilt',
             l \notin DOMAIN logs \/ l \in archiving'
      PROVE  found.logs[l] \subseteq Kept'
  BY <1>0, <1>1
<1> QED BY <1>0, <1>1

\* FindFiles gives out numbers above those of all tables.
LEMMA FindFilesStep ==
  ASSUME IInv, FindFiles
  PROVE  IInv'
<1>1. UNCHANGED <<disk, late, history>>
      /\ run' = [at |-> "convert", runs |-> run.runs, number |-> NextNumber,
                 logs |-> DOMAIN logs, tables |-> DOMAIN tables, infos |-> {}]
  BY DEF FindFiles
<1>2. LogsInv'
  BY <1>1, Keeps, Zenon DEF Next, disk, late, history
<1>3. TablesInv'
  BY <1>1 DEF IInv, TablesInv, disk
<1> DEFINE S == {0} \cup DOMAIN logs \cup DOMAIN tables
                  \cup (IF temp = None THEN {} ELSE {1})
<1>4. S \in SUBSET Nat /\ IsFiniteSet(S) /\ S # {}
  <2>1. IsFiniteSet(DOMAIN logs) /\ IsFiniteSet(DOMAIN tables)
    BY RepairAssumption, FS_Subset DEF IInv, LogsInv, TablesInv
  <2>2. IsFiniteSet({0}) /\ IsFiniteSet(IF temp = None THEN {} ELSE {1})
    BY FS_Singleton, FS_EmptySet
  <2>3. IsFiniteSet({0} \cup DOMAIN logs)
    BY <2>1, <2>2, FS_Union
  <2>4. IsFiniteSet({0} \cup DOMAIN logs \cup DOMAIN tables)
    BY <2>1, <2>3, FS_Union
  <2>5. IsFiniteSet(S)
    BY <2>2, <2>4, FS_Union
  <2>6. \A n \in S : n \in Nat
    <3>1. /\ \A n \in DOMAIN logs : n \in Nat
          /\ \A n \in DOMAIN tables : n \in Nat
      BY RepairAssumption DEF IInv, LogsInv, TablesInv
    <3>2. \A n \in (IF temp = None THEN {} ELSE {1}) : n \in Nat
      OBVIOUS
    <3> QED BY <3>1, <3>2
  <2> QED BY <2>5, <2>6
<1>5. Max(S) \in Nat /\ \A n \in DOMAIN tables : n <= Max(S)
  <2>1. Max(S) \in S /\ \A n \in S : n <= Max(S)
    <3> HIDE DEF S
    <3> QED BY <1>4, MaxExists
  <2> QED BY <1>4, <2>1
<1>6. NextNumber \in Nat /\ \A n \in DOMAIN tables : n < NextNumber
  <2>1. NextNumber = 1 + Max(S)
    BY DEF NextNumber
  <2> HIDE DEF S
  <2> QED BY <1>3, <1>5, <2>1 DEF IInv, TablesInv
<1>7. RunInv'
  BY <1>1, <1>6 DEF RunInv, disk, IInv, TablesInv
<1> QED BY <1>2, <1>3, <1>7 DEF IInv

\* The steps that leave the tables alone, or only start a rename.
LEMMA OtherSteps ==
  ASSUME IInv,
         \/ EndConversion \/ Scan \/ CopyFails \/ FinishCopy \/ WriteDescriptor
         \/ Install \/ Rename \/ WriteCurrent \/ RenameCurrent \/ DescriptorFails
  PROVE  IInv'
<1> USE DEF disk, late, history
<1>0. Next
  BY DEF Next
<1>1. UNCHANGED <<logs, tables, found, archiving>> /\ damaged' \subseteq damaged
  BY DEF EndConversion, Scan, CopyFails, FinishCopy, WriteDescriptor, Install, Rename,
         WriteCurrent, RenameCurrent, DescriptorFails
<1>2. LogsInv'
  BY <1>0, <1>1, Keeps
<1>3. TablesInv'
  BY <1>1 DEF IInv, TablesInv
<1>4. RunInv'
  <2>1. CASE run' = run
    BY <1>1, <2>1 DEF IInv, RunInv
  <2>2. CASE run' # run
    <3>1. run.at \notin {"find", "copied"}
      BY <2>2 DEF EndConversion, Scan, CopyFails, FinishCopy, WriteDescriptor, Install,
                  Rename, WriteCurrent, RenameCurrent, DescriptorFails
    <3>2. run'.at \notin {"find", "copied"}
          /\ run'.number \in {run.number, run.number + 1}
          /\ run' = [at |-> run'.at, runs |-> run'.runs, number |-> run'.number,
                     logs |-> run'.logs, tables |-> run'.tables,
                     infos |-> run'.infos]
          /\ run'.tables \subseteq run.tables
      BY <2>2, <3>1, RunParts DEF EndConversion, Scan, CopyFails, FinishCopy,
                  WriteDescriptor, Install, Rename, WriteCurrent, RenameCurrent,
                  DescriptorFails
    <3> QED BY <1>1, <3>1, <3>2 DEF IInv, RunInv, TablesInv
  <2> QED BY <2>1, <2>2
<1> QED BY <1>2, <1>3, <1>4 DEF IInv

\* The numbers of a run, after a step that takes a new one.
LEMMA NewNumber ==
  ASSUME IInv, run.at \notin {"find", "copied"}, run'.at \notin {"find", "copied"},
         run' = [at |-> run'.at, runs |-> run'.runs, number |-> run'.number,
                 logs |-> run'.logs, tables |-> run'.tables, infos |-> run'.infos],
         run'.tables \subseteq run.tables \cup {run.number},
         run'.number \in Nat, \A n \in DOMAIN tables' : n < run'.number
  PROVE  RunInv'
  BY RunParts DEF IInv, RunInv

\* The log that is converted is in the new table before it is moved away.
LEMMA ConvertLogStep ==
  ASSUME IInv, ConvertLog
  PROVE  IInv'
<1>0. PICK l \in First(run.logs) :
        /\ tables' = [n \in DOMAIN tables \cup {run.number} |->
                        IF n = run.number THEN logs[l] ELSE tables[n]]
        /\ archiving' = archiving \cup {l}
        /\ run' = [run EXCEPT !.logs = @ \ {l}, !.number = @ + 1,
                              !.tables = @ \cup Converted]
  BY DEF ConvertLog
<1>1. UNCHANGED <<logs, damaged, found>> /\ run.at = "convert" /\ Next
  BY DEF ConvertLog, Next
<1>2. run'.at = "convert" /\ run'.number = run.number + 1
      /\ run' = [at |-> run'.at, runs |-> run'.runs, number |-> run'.number,
                 logs |-> run'.logs, tables |-> run'.tables, infos |-> run'.infos]
      /\ run'.tables \subseteq run.tables \cup {run.number}
  BY <1>0, <1>1, RunParts DEF Converted
<1>3. /\ \A n \in DOMAIN tables : n \in DOMAIN tables' /\ tables'[n] = tables[n]
      /\ run.number \in DOMAIN tables' /\ tables'[run.number] = logs[l]
      /\ DOMAIN tables' \subseteq Nat /\ IsFiniteSet(DOMAIN tables')
      /\ \A n \in DOMAIN tables' : n < run.number + 1
  <2>1. PICK W, gone : W = logs[l] /\ gone = {}
    OBVIOUS
  <2>2. tables' = [n \in (DOMAIN tables \ gone) \cup {run.number} |->
                     IF n = run.number THEN W ELSE tables[n]]
    BY <1>0, <2>1
  <2>3. DOMAIN tables \ gone = DOMAIN tables
    BY <2>1
  <2>4. /\ \A n \in DOMAIN tables \ gone :
             n \in DOMAIN tables' /\ tables'[n] = tables[n] /\ n # run.number
        /\ run.number \in DOMAIN tables' /\ tables'[run.number] = W
        /\ DOMAIN tables' \subseteq Nat /\ IsFiniteSet(DOMAIN tables')
        /\ \A n \in DOMAIN tables' : n < run.number + 1
    <3>1. run.at # "find"
      BY <1>1
    <3> QED BY <2>2, <3>1, NewTable, ZenonT(30)
  <2> QED BY <2>1, <2>3, <2>4
<1>4. logs[l] \subseteq Kept'
  <2>1. run.number \notin damaged' /\ run.number \notin Copy'
    BY <1>1, <1>2, RunParts DEF IInv, TablesInv, Copy
  <2>2. logs[l] = {} \/ run.number \in Stable'
    BY <1>3, <2>1 DEF Stable
  <2> QED BY <1>3, <2>2 DEF Kept
<1>5. LogsInv'
  BY <1>0, <1>1, <1>4, Keeps
<1>6. TablesInv'
  BY <1>1, <1>3 DEF IInv, TablesInv
<1>7. RunInv'
  BY <1>1, <1>2, <1>3, NewNumber, RunParts
<1> QED BY <1>5, <1>6, <1>7 DEF IInv

\* A log that cannot be converted may leave a table half written.
LEMMA ConvertFailsStep ==
  ASSUME IInv, ConvertFails
  PROVE  IInv'
<1>0. PICK l \in First(run.logs), x \in {run.number, run.number + 1} :
        /\ archiving' = archiving \cup {l} /\ spoilt' = spoilt \cup {l}
        /\ run' = [run EXCEPT !.logs = @ \ {l}, !.number = x]
        /\ \E torn \in SUBSET {m \in {run.number} : m < x} : Torn(torn)
  BY DEF ConvertFails
<1>1. UNCHANGED <<logs, found>> /\ run.at = "convert" /\ Next
  BY DEF ConvertFails, Next
<1>2. run'.at = "convert" /\ run'.number = x
      /\ run' = [at |-> run'.at, runs |-> run'.runs, number |-> run'.number,
                 logs |-> run'.logs, tables |-> run'.tables, infos |-> run'.infos]
      /\ run'.tables \subseteq run.tables
  BY <1>0, <1>1, RunParts
<1>3. PICK torn \in SUBSET {m \in {run.number} : m < x} : Torn(torn)
  BY <1>0
<1>4. LogsInv'
  BY <1>0, <1>1, Keeps
<1>5. /\ TablesInv'
      /\ \A n \in DOMAIN tables' : n \in DOMAIN tables \/ (n = run.number /\ n < x)
  BY <1>1, <1>3, TornIs
<1>6. \A n \in DOMAIN tables' : n < x
  BY <1>1, <1>5, RunParts
<1>7. RunInv'
  BY <1>1, <1>2, <1>6, NewNumber, RunParts
<1> QED BY <1>4, <1>5, <1>7 DEF IInv

\* What is in a log that is moved away is in a table, or was not to be read.
LEMMA ArchiveStep ==
  ASSUME IInv, NEW l \in OldLogs, Archive(l)
  PROVE  IInv'
<1>1. /\ UNCHANGED <<tables, damaged, run, found, spoilt, lost>>
      /\ l \in archiving /\ archiving' = archiving \ {l}
      /\ logs' = [m \in DOMAIN logs \ {l} |-> logs[m]]
  BY DEF Archive, history
<1>2. LogsInv'
  <2>1. Kept' = Kept /\ DOMAIN logs' = DOMAIN logs \ {l}
        /\ \A m \in DOMAIN logs' : logs'[m] = logs[m]
    BY <1>1 DEF Kept, Stable, Copy
  <2> QED BY <1>1, <2>1 DEF IInv, LogsInv
<1> QED BY <1>1, <1>2 DEF IInv, TablesInv, RunInv

\* A table that can be read after all is copied under a new number.
LEMMA CopyTableStep ==
  ASSUME IInv, CopyTable
  PROVE  IInv'
<1>0. PICK t \in First(run.tables) \cap damaged :
        /\ tables' = [m \in (DOMAIN tables \ {t}) \cup {run.number} |->
                        IF m = run.number THEN tables[t] ELSE tables[m]]
        /\ damaged' = (damaged \ {t}) \cup {run.number}
  BY DEF CopyTable
<1>1. UNCHANGED <<logs, archiving, found>> /\ run.at = "scan" /\ Next
      /\ run' = [run EXCEPT !.at = "copied", !.number = @ + 1]
  BY DEF CopyTable, late, history, Next
<1>2. run'.at = "copied" /\ run'.number = run.number + 1 /\ run'.tables = run.tables
      /\ run' = [at |-> run'.at, runs |-> run'.runs, number |-> run'.number,
                 logs |-> run'.logs, tables |-> run'.tables, infos |-> run'.infos]
      /\ run.number \in Nat /\ run.tables \in SUBSET Nat
  BY <1>1, RunParts DEF IInv, RunInv
<1>3. /\ \A n \in DOMAIN tables \ {t} : n \in DOMAIN tables'
      /\ run.number \in DOMAIN tables'
      /\ \A n \in DOMAIN tables' : n \in DOMAIN tables \ {t} \/ n = run.number
      /\ DOMAIN tables' \subseteq Nat /\ IsFiniteSet(DOMAIN tables')
      /\ \A n \in DOMAIN tables' : n < run.number + 1
  BY <1>0, <1>1, NewTable
<1>4. LogsInv'
  BY <1>1, Keeps
<1>5. TablesInv'
  BY <1>0, <1>3 DEF IInv, TablesInv
<1>6. \A u \in First(run'.tables) : u = t
  BY <1>0, <1>2 DEF First
<1>7. t \in Nat /\ t < run.number + 1 /\ t \notin DOMAIN tables'
  <2>1. t \in DOMAIN tables
    BY <1>0 DEF IInv, TablesInv
  <2>2. t \in Nat /\ t < run.number
    BY <1>1, <2>1, RunParts
  <2> QED BY <1>2, <1>3, <2>2
<1>8. run'.number - 1 = run.number
  BY <1>2
<1>9. RunInv'
  BY <1>2, <1>3, <1>6, <1>7, <1>8 DEF RunInv
<1> QED BY <1>4, <1>5, <1>9 DEF IInv

\* The copy takes the number of the table, which is not in use.
LEMMA RenameCopyStep ==
  ASSUME IInv, RenameCopy
  PROVE  IInv'
<1>0. PICK t \in First(run.tables) :
        /\ tables' = [n \in (DOMAIN tables \ {run.number - 1}) \cup {t} |->
                        IF n = t THEN tables[run.number - 1] ELSE tables[n]]
        /\ run' = [run EXCEPT !.at = "scan", !.tables = @ \ {t}]
  BY DEF RenameCopy
<1>1. /\ UNCHANGED <<logs, archiving, damaged, found>> /\ run.at = "copied" /\ Next
      /\ run.number - 1 \notin damaged
  BY DEF RenameCopy, late, history, Next
<1>2. /\ run.number \in Nat /\ \A m \in DOMAIN tables : m < run.number
      /\ t \in Nat /\ t < run.number
  BY <1>0, <1>1 DEF IInv, RunInv
<1>3. LogsInv'
  BY <1>1, Keeps
<1>4. DOMAIN tables' = (DOMAIN tables \ {run.number - 1}) \cup {t}
  BY <1>0
<1>5. TablesInv'
  <2>1. IsFiniteSet(DOMAIN tables \cup {t})
    BY FS_AddElement DEF IInv, TablesInv
  <2>2. IsFiniteSet(DOMAIN tables')
    BY <1>4, <2>1, FS_Subset
  <2> QED BY <1>1, <1>2, <1>4, <2>2 DEF IInv, TablesInv
<1>6. RunInv'
  <2>1. run'.at = "scan" /\ run'.number = run.number
        /\ run' = [at |-> run'.at, runs |-> run'.runs, number |-> run'.number,
                   logs |-> run'.logs, tables |-> run'.tables,
                   infos |-> run'.infos]
        /\ run'.tables \subseteq run.tables
    BY <1>0, <1>1, RunParts
  <2>2. \A m \in DOMAIN tables' : m < run.number
    BY <1>2, <1>4
  <2>3. run.tables \subseteq Nat
    BY <1>1 DEF IInv, RunInv
  <2> QED BY <1>2, <2>1, <2>2, <2>3 DEF RunInv
<1> QED BY <1>3, <1>5, <1>6 DEF IInv

\* A copy that is given up, and a table that is moved away.
LEMMA FewerSteps ==
  ASSUME IInv, CopyLost \/ SizeFails
  PROVE  IInv'
<1>1. UNCHANGED <<logs, archiving, found>> /\ Next /\ run.at \in {"scan", "copied"}
  BY DEF CopyLost, SizeFails, late, history, Next
<1>2. PICK t : tables' = Without(t) /\ damaged' = damaged \ {t}
  BY DEF CopyLost, SizeFails
<1>3. LogsInv'
  BY <1>1, Keeps
<1>4. TablesInv' /\ DOMAIN tables' \subseteq DOMAIN tables
  BY <1>2, FewerTables
<1>5. run'.at = "scan" /\ run'.number \in {run.number, run.number + 1}
      /\ run' = [at |-> run'.at, runs |-> run'.runs, number |-> run'.number,
                 logs |-> run'.logs, tables |-> run'.tables, infos |-> run'.infos]
      /\ run'.tables \subseteq run.tables
  BY <1>1, RunParts DEF CopyLost, SizeFails
<1>6. \A n \in DOMAIN tables' : n < run'.number
  BY <1>1, <1>4, <1>5, RunParts
<1>7. RunInv'
  BY <1>1, <1>5, <1>6, RunParts DEF IInv, RunInv
<1> QED BY <1>3, <1>4, <1>7 DEF IInv

\* A table without an entry is moved away, and its copy stays without a footer.
LEMMA DropEmptyStep ==
  ASSUME IInv, DropEmpty
  PROVE  IInv'
<1>0. PICK t \in First(run.tables) \ damaged :
        /\ tables' = [m \in (DOMAIN tables \ {t}) \cup {run.number} |->
                        IF m = run.number THEN {} ELSE tables[m]]
        /\ damaged' = damaged \cup {run.number}
        /\ run' = [run EXCEPT !.number = @ + 1, !.tables = @ \ {t}]
  BY DEF DropEmpty
<1>1. UNCHANGED <<logs, archiving, found>> /\ run.at = "scan" /\ Next
  BY DEF DropEmpty, late, history, Next
<1>2. /\ \A n \in DOMAIN tables \ {t} : n \in DOMAIN tables'
      /\ run.number \in DOMAIN tables'
      /\ DOMAIN tables' \subseteq Nat /\ IsFiniteSet(DOMAIN tables')
      /\ \A n \in DOMAIN tables' : n < run.number + 1
  BY <1>0, <1>1, NewTable
<1>3. LogsInv'
  BY <1>1, Keeps
<1>4. TablesInv'
  BY <1>0, <1>2 DEF IInv, TablesInv
<1>5. run'.at = "scan" /\ run'.number = run.number + 1
      /\ run' = [at |-> run'.at, runs |-> run'.runs, number |-> run'.number,
                 logs |-> run'.logs, tables |-> run'.tables, infos |-> run'.infos]
      /\ run'.tables \subseteq run.tables
  BY <1>0, <1>1, RunParts
<1>6. RunInv'
  BY <1>1, <1>2, <1>5, NewNumber, RunParts
<1> QED BY <1>3, <1>4, <1>6 DEF IInv

\* A crash leaves at most the file that was being written, under a new number.
LEMMA CrashStep ==
  ASSUME IInv, Crash
  PROVE  IInv'
<1>1. PICK torn \in SUBSET {n \in {run.number} : Building} : Torn(torn)
  BY DEF Crash
<1>2. UNCHANGED <<logs, found>> /\ archiving' = {} /\ run'.at = "find" /\ Next
  BY DEF Crash, Start, Next
<1>3. LogsInv'
  BY <1>2, Keeps
<1>4. TablesInv'
  <2>1. CASE run.at = "find"
    <3>1. torn = {}
      BY <1>1, <2>1 DEF Building
    <3>2. DOMAIN tables' = DOMAIN tables /\ damaged' = damaged
      BY <1>1, <3>1 DEF Torn
    <3> QED BY <3>2 DEF IInv, TablesInv
  <2>2. CASE run.at # "find"
    BY <1>1, <2>2, TornIs
  <2> QED BY <2>1, <2>2
<1>5. RunInv'
  BY <1>2 DEF RunInv
<1> QED BY <1>3, <1>4, <1>5 DEF IInv

\* Every step keeps the files.
LEMMA NextIInv == IInv /\ [Next]_vars => IInv'
<1>1. IInv /\ UNCHANGED vars => IInv'
  BY DEF IInv, LogsInv, TablesInv, RunInv, Kept, Stable, Copy, vars, disk, late, history
<1> QED BY <1>1, FindFilesStep, OtherSteps, ConvertLogStep, ConvertFailsStep, ArchiveStep,
           CopyTableStep, RenameCopyStep, FewerSteps, DropEmptyStep, CrashStep, Zenon
        DEF Next

\* However often repair is cut off, whatever fails, and whatever renames it did not
\* wait for: what could be read of a database is in its tables and logs all the
\* time, or in a table that was moved away because its size could not be had.
THEOREM LosesNothing == Spec => []NothingLost
  BY InitIInv, NextIInv, InvHolds, PTL DEF Spec

-----------------------------------------------------------------------------
(* The new descriptor.                                                     *)

\* The tables that the run has listed or will list.
Listed == IF run.at = "find" THEN Stable ELSE Stable \cap (run.infos \cup run.tables)

\* A log that was or will be moved away has become a listed table, and a table
\* that could be read at the start is listed.
ListedInv ==
  /\ \A l \in OldLogs \ spoilt :
       (l \notin DOMAIN logs \/ l \in archiving) /\ found.logs[l] # {} =>
         \E n \in Listed : tables[n] = found.logs[l]
  /\ \A t \in DOMAIN found.tables \ found.damaged : found.tables[t] # {} =>
       t \in Listed /\ tables[t] = found.tables[t]
  /\ run.at # "find" => \A l \in DOMAIN logs :
       l \in archiving \/ (run.at = "convert" /\ l \in run.logs)

Finishing == {"install", "current", "done", "failed"}

\* A descriptor, also one that an earlier run left, names tables that stay.  What
\* this run makes of it holds the tables it listed, or the text of CURRENT.
WrittenInv ==
  /\ temp \in Seq(SUBSET Nat) /\ manifest \in Seq(SUBSET Nat)
  /\ \A s \in Range(temp) \cup Range(manifest) : s = Text \/ s \subseteq Stable
  /\ run.at # "find" => run.infos \subseteq Stable
  /\ run.at # "find" => \A t \in run.tables :
       \/ t \in DOMAIN tables \ Copy
       \/ run.at = "copied" /\ t \in First(run.tables)
  /\ run.at \in Finishing \cup {"archive"} => run.tables = {}
  /\ run.at = "archive" => run.infos \in Range(temp)
  /\ run.at \in Finishing \ {"failed"} => \A d \in {temp, manifest} :
       d = None \/ run.infos \in Range(d) \/ Text \in Range(d)
  /\ renaming => run.at \in Finishing

\* As long as no table was moved away for its size.
NamedInv == lost = {} => ListedInv /\ WrittenInv

\* When the run is done the lists are empty and the descriptor names what they held.
LEMMA ListedNamed ==
  ASSUME WrittenInv, Repaired
  PROVE  Version \subseteq Stable /\ Listed \subseteq Version
<1>1. run.at = "done" /\ manifest # None /\ Text \notin Range(manifest)
  BY DEF Repaired, Opens
<1>2. run.infos \in Range(manifest) /\ run.tables = {}
  BY <1>1 DEF WrittenInv, Finishing
<1>3. \A s \in Range(manifest) : s \subseteq Stable
  BY <1>1 DEF WrittenInv
<1>4. Version \subseteq Stable /\ run.infos \subseteq Version
  BY <1>2, <1>3 DEF Version
<1> QED BY <1>1, <1>2, <1>4 DEF Listed

LEMMA CompleteHolds == IInv /\ NamedInv => Complete
<1> SUFFICES ASSUME IInv, ListedInv, WrittenInv, Repaired
             PROVE  Version \subseteq DOMAIN tables
                    /\ Safe \subseteq UNION {tables[n] : n \in Version}
  BY DEF Complete, NamedInv
<1>1. Version \subseteq DOMAIN tables /\ Listed \subseteq Version /\ run.at = "done"
  BY ListedNamed DEF Stable, Repaired
<1>2. ASSUME NEW w \in Safe PROVE w \in UNION {tables[n] : n \in Version}
  <2>1. CASE \E l \in OldLogs \ spoilt : w \in found.logs[l]
    <3>1. PICK l \in OldLogs \ spoilt : w \in found.logs[l]
      BY <2>1
    <3>2. l \notin DOMAIN logs \/ l \in archiving
      BY <1>1 DEF ListedInv
    <3>3. PICK n \in Listed : tables[n] = found.logs[l]
      BY <3>1, <3>2 DEF ListedInv
    <3> QED BY <1>1, <3>1, <3>3
  <2>2. CASE \E t \in DOMAIN found.tables \ found.damaged : w \in found.tables[t]
    BY <1>1, <2>2 DEF ListedInv
  <2> QED BY <2>1, <2>2 DEF Safe
<1> QED BY <1>1, <1>2

\* When repair begins nothing is written, and the tables that can be read are stable.
LEMMA InitWritten == Init => ListedInv /\ WrittenInv
<1> SUFFICES ASSUME Init PROVE ListedInv /\ WrittenInv
  OBVIOUS
<1>1. run.at = "find" /\ temp = <<>> /\ manifest = <<>> /\ renaming = FALSE
      /\ archiving = {}
      /\ found = [logs |-> logs, tables |-> tables, damaged |-> damaged]
  BY DEF Init, Start, None
<1>2. DOMAIN logs = OldLogs
  BY DEF Init
<1>3. \A t \in DOMAIN found.tables \ found.damaged :
        tables[t] = found.tables[t] /\ (found.tables[t] # {} => t \in Listed)
  BY <1>1 DEF Listed, Stable, Copy
<1>4. ListedInv
  BY <1>1, <1>2, <1>3 DEF ListedInv
<1>5. Range(temp) = {} /\ Range(manifest) = {}
  BY <1>1 DEF Range
<1>6. temp \in Seq(SUBSET Nat) /\ manifest \in Seq(SUBSET Nat)
  BY <1>1
<1> QED BY <1>1, <1>4, <1>5, <1>6 DEF WrittenInv, Finishing

\* What is stable stays as it is.
LEMMA StableKept ==
  ASSUME IInv, Next, lost' = {}, NEW n \in Stable
  PROVE  n \in Stable' /\ tables'[n] = tables[n]
<1>1. tables[n] # {}
  BY DEF Stable
<1> QED BY <1>1, StableStays

\* A table that is listed is only moved from one list to the other.
LEMMA ListedStays ==
  ASSUME IInv, Next, lost' = {}
  PROVE  Listed \subseteq Listed'
<1> SUFFICES ASSUME NEW n \in Listed PROVE n \in Listed'
  OBVIOUS
<1>1. n \in Stable /\ n \in Stable' /\ tables'[n] = tables[n]
  BY StableKept DEF Listed
<1>2. n \in DOMAIN tables /\ n \notin damaged /\ tables[n] # {}
  BY <1>1 DEF Stable
<1>3. CASE FindFiles
  <2>1. run'.at = "convert" /\ run'.tables = DOMAIN tables
    BY <1>3 DEF FindFiles
  <2> QED BY <1>1, <1>2, <2>1 DEF Listed
<1>4. CASE ConvertLog
  <2>1. PICK l \in First(run.logs) :
          run' = [run EXCEPT !.logs = @ \ {l}, !.number = @ + 1,
                             !.tables = @ \cup Converted]
    BY <1>4 DEF ConvertLog
  <2>2. run.at = "convert"
    BY <1>4 DEF ConvertLog
  <2>3. run'.at = "convert" /\ run'.infos = run.infos /\ run.tables \subseteq run'.tables
    BY <2>1, <2>2, RunParts
  <2> QED BY <1>1, <2>2, <2>3 DEF Listed
<1>5. CASE ConvertFails \/ EndConversion \/ WriteDescriptor \/ Install \/ WriteCurrent
             \/ RenameCurrent \/ DescriptorFails \/ CopyTable
  <2>1. run.at # "find"
    BY <1>5 DEF ConvertFails, EndConversion, WriteDescriptor, Install, WriteCurrent,
                RenameCurrent, DescriptorFails, CopyTable
  <2>2. run'.at # "find" /\ run'.infos = run.infos /\ run'.tables = run.tables
    BY <1>5, <2>1, RunParts DEF ConvertFails, EndConversion, WriteDescriptor, Install,
                WriteCurrent, RenameCurrent, DescriptorFails, CopyTable
  <2> QED BY <1>1, <2>1, <2>2 DEF Listed
<1>6. CASE Scan
  <2>1. PICK t \in First(run.tables) \ Unreadable :
          run' = [run EXCEPT !.infos = @ \cup {t}, !.tables = @ \ {t}]
    BY <1>6 DEF Scan
  <2>2. run.at = "scan"
    BY <1>6 DEF Scan
  <2>3. run'.at = "scan" /\ run'.infos = run.infos \cup {t} /\ run'.tables = run.tables \ {t}
    BY <2>1, <2>2, RunParts
  <2> QED BY <1>1, <2>2, <2>3 DEF Listed
<1>7. CASE CopyFails \/ DropEmpty \/ SizeFails
  <2>1. PICK t \in First(run.tables) :
          /\ t \in damaged \/ tables[t] = {} \/ tables[t] \subseteq lost'
          /\ run' = [run EXCEPT !.number = @ + 1, !.tables = @ \ {t}]
    BY <1>7 DEF CopyFails, DropEmpty, SizeFails, Unreadable
  <2>2. run.at = "scan"
    BY <1>7 DEF CopyFails, DropEmpty, SizeFails
  <2>3. run'.at = "scan" /\ run'.infos = run.infos /\ run'.tables = run.tables \ {t}
    BY <2>1, <2>2, RunParts
  <2> QED BY <1>1, <1>2, <2>1, <2>2, <2>3 DEF Listed
<1>8. CASE RenameCopy \/ CopyLost
  <2>1. PICK t \in First(run.tables) :
          run' = [run EXCEPT !.at = "scan", !.tables = @ \ {t}]
    BY <1>8 DEF RenameCopy, CopyLost
  <2>2. run.at = "copied" /\ t \notin DOMAIN tables
    BY <1>8, <2>1 DEF RenameCopy, CopyLost, IInv, RunInv
  <2>3. run'.at = "scan" /\ run'.infos = run.infos /\ run'.tables = run.tables \ {t}
    BY <2>1, <2>2, RunParts
  <2> QED BY <1>1, <1>2, <2>2, <2>3 DEF Listed
<1>9. CASE (\E l \in OldLogs : Archive(l)) \/ Rename \/ FinishCopy
  BY <1>1, <1>9 DEF Archive, Rename, FinishCopy, Listed
<1>10. CASE Crash
  <2>1. run'.at = "find"
    BY <1>10 DEF Crash, Start
  <2> QED BY <1>1, <2>1 DEF Listed
<1> QED BY <1>3, <1>4, <1>5, <1>6, <1>7, <1>8, <1>9, <1>10 DEF Next

\* What remains to be shown of a step: a log that it moves away or is going to
\* is in a listed table, and the logs that are left have their turn.
LEMMA ListedStep ==
  ASSUME IInv, ListedInv, Next, lost' = {},
         \A l \in OldLogs \ spoilt' :
           (l \notin DOMAIN logs' \/ l \in archiving') /\ found.logs[l] # {} =>
             \/ l \notin DOMAIN logs \/ l \in archiving
             \/ \E n \in Listed' : tables'[n] = found.logs[l],
         run'.at # "find" => \A l \in DOMAIN logs' :
           l \in archiving' \/ (run'.at = "convert" /\ l \in run'.logs)
  PROVE  ListedInv'
<1>0. found' = found /\ spoilt \subseteq spoilt'
  BY Remembered
<1>1. \A n \in Listed : n \in Listed' /\ tables'[n] = tables[n]
  BY ListedStays, StableKept DEF Listed
<1>2. ASSUME NEW l \in OldLogs \ spoilt',
             l \notin DOMAIN logs' \/ l \in archiving', found.logs[l] # {}
      PROVE  \E n \in Listed' : tables'[n] = found.logs[l]
  <2>1. CASE l \notin DOMAIN logs \/ l \in archiving
    BY <1>0, <1>1, <1>2, <2>1 DEF ListedInv
  <2> QED BY <1>2, <2>1
<1>3. \A t \in DOMAIN found.tables \ found.damaged : found.tables[t] # {} =>
        t \in Listed' /\ tables'[t] = found.tables[t]
  BY <1>1 DEF ListedInv
<1> QED BY <1>0, <1>2, <1>3 DEF ListedInv

\* Every step keeps what is or will be listed.
LEMMA NextListed == IInv /\ ListedInv /\ Next /\ lost' = {} => ListedInv'
<1> SUFFICES ASSUME IInv, ListedInv, Next, lost' = {} PROVE ListedInv'
  OBVIOUS
<1> USE DEF history, disk, late
<1>1. CASE FindFiles
  <2>1. UNCHANGED <<logs, found, spoilt, archiving>>
        /\ run'.at = "convert" /\ run'.logs = DOMAIN logs
    BY <1>1 DEF FindFiles
  <2> QED BY <2>1, ListedStep
<1>2. CASE ConvertLog
  <2>1. PICK l \in First(run.logs) :
          /\ tables' = [m \in DOMAIN tables \cup {run.number} |->
                          IF m = run.number THEN logs[l] ELSE tables[m]]
          /\ archiving' = archiving \cup {l}
          /\ run' = [run EXCEPT !.logs = @ \ {l}, !.number = @ + 1,
                                !.tables = @ \cup Converted]
    BY <1>2 DEF ConvertLog
  <2>2. run.at = "convert" /\ UNCHANGED <<logs, found, spoilt, damaged>>
    BY <1>2 DEF ConvertLog
  <2>3. run'.at = "convert" /\ run'.logs = run.logs \ {l}
        /\ run'.tables = run.tables \cup Converted
    BY <2>1, <2>2, RunParts
  <2>4. run.number \in Nat /\ run.number \notin DOMAIN tables
    BY <2>2, RunParts
  <2>5. ASSUME logs[l] # {}
        PROVE  run.number \in Listed' /\ tables'[run.number] = logs[l]
    BY <2>1, <2>2, <2>3, <2>4, <2>5 DEF Listed, Stable, Copy, Converted, IInv, TablesInv
  <2>6. ASSUME NEW o \in OldLogs \ spoilt, o \in archiving', o \in DOMAIN logs,
               o \notin archiving, found.logs[o] # {}
        PROVE  \E n \in Listed' : tables'[n] = found.logs[o]
    <3>1. o = l /\ logs[l] = found.logs[o]
      BY <2>1, <2>6 DEF IInv, LogsInv
    <3> QED BY <2>5, <2>6, <3>1
  <2>7. \A o \in DOMAIN logs : o \in archiving' \/ o \in run'.logs
    BY <2>1, <2>2, <2>3 DEF ListedInv
  <2> QED BY <2>2, <2>3, <2>6, <2>7, ListedStep
<1>3. CASE ConvertFails
  <2>1. PICK l \in First(run.logs), x \in {run.number, run.number + 1} :
          /\ archiving' = archiving \cup {l} /\ spoilt' = spoilt \cup {l}
          /\ run' = [run EXCEPT !.logs = @ \ {l}, !.number = x]
    BY <1>3 DEF ConvertFails
  <2>2. run.at = "convert" /\ UNCHANGED <<logs, found>>
    BY <1>3 DEF ConvertFails
  <2>3. run'.at = "convert" /\ run'.logs = run.logs \ {l}
    BY <2>1, <2>2, RunParts
  <2> QED BY <2>1, <2>2, <2>3, ListedStep DEF ListedInv
<1>4. CASE EndConversion
  <2>1. run.at = "convert" /\ run.logs = {} /\ UNCHANGED <<logs, found, archiving, spoilt>>
    BY <1>4 DEF EndConversion
  <2> QED BY <2>1, ListedStep DEF ListedInv
<1>5. CASE \E l \in OldLogs : Archive(l)
  <2>1. PICK l \in OldLogs : Archive(l)
    BY <1>5
  <2>2. /\ l \in archiving /\ archiving' = archiving \ {l}
        /\ logs' = [m \in DOMAIN logs \ {l} |-> logs[m]]
        /\ UNCHANGED <<found, spoilt, run>>
    BY <2>1 DEF Archive
  <2> QED BY <2>2, ListedStep DEF ListedInv
<1>6. CASE Scan \/ SizeFails \/ CopyFails \/ CopyTable \/ FinishCopy \/ RenameCopy
             \/ CopyLost \/ DropEmpty \/ WriteDescriptor \/ Install \/ WriteCurrent
             \/ RenameCurrent \/ Rename \/ DescriptorFails
  <2>1. UNCHANGED <<logs, found, archiving, spoilt>>
    BY <1>6 DEF Scan, SizeFails, CopyFails, CopyTable, FinishCopy, RenameCopy, CopyLost,
                DropEmpty, WriteDescriptor, Install, WriteCurrent, RenameCurrent, Rename,
                DescriptorFails
  <2>2. run' = run \/ (run.at # "find" /\ run.at # "convert")
    BY <1>6 DEF Scan, SizeFails, CopyFails, CopyTable, FinishCopy, RenameCopy, CopyLost,
                DropEmpty, WriteDescriptor, Install, WriteCurrent, RenameCurrent, Rename,
                DescriptorFails
  <2> QED BY <2>1, <2>2, ListedStep DEF ListedInv
<1>7. CASE Crash
  <2>1. UNCHANGED <<logs, found, spoilt>> /\ archiving' = {} /\ run'.at = "find"
    BY <1>7 DEF Crash, Start
  <2> QED BY <2>1, ListedStep
<1> QED BY <1>1, <1>2, <1>3, <1>4, <1>5, <1>6, <1>7 DEF Next

\* Files are worked off one at a time.
LEMMA FirstUnique ==
  ASSUME NEW S \in SUBSET Nat, NEW t \in First(S), NEW u \in First(S)
  PROVE  t = u
  BY DEF First

\* What a descriptor holds when one more edit is appended.
LEMMA Ranges ==
  /\ \A S : \A s \in Seq(S) : \A x \in S :
       Append(s, x) \in Seq(S) /\ Range(Append(s, x)) = Range(s) \cup {x}
  /\ Range(<<>>) = {}
  /\ \A x : Range(<<x>>) = {x}
<1>1. ASSUME NEW S, NEW s \in Seq(S), NEW x \in S
      PROVE  Append(s, x) \in Seq(S) /\ Range(Append(s, x)) = Range(s) \cup {x}
  <2> DEFINE q == Append(s, x)
             n == Len(s)
  <2>1. q \in Seq(S) /\ n \in Nat /\ DOMAIN q = 1..(n + 1) /\ DOMAIN s = 1..n
        /\ q[n + 1] = x /\ \A i \in 1..n : q[i] = s[i]
    OBVIOUS
  <2> HIDE DEF q, n
  <2>2. \A i \in 1..(n + 1) : i \in 1..n \/ i = n + 1
    BY <2>1
  <2>3. n + 1 \in 1..(n + 1) /\ \A i \in 1..n : i \in 1..(n + 1)
    BY <2>1
  <2>4. Range(q) = Range(s) \cup {x}
    BY <2>1, <2>2, <2>3 DEF Range
  <2> QED BY <2>1, <2>4 DEF q
<1>2. Range(<<>>) = {}
  BY DEF Range
<1>3. \A x : Range(<<x>>) = {x}
  BY DEF Range
<1> QED BY <1>1, <1>2, <1>3

\* Steps that leave the descriptors alone and the lists to their order.
LEMMA WrittenKept ==
  ASSUME IInv, WrittenInv, Next, lost' = {}, UNCHANGED <<temp, manifest>>,
         renaming' = renaming \/ renaming' = FALSE,
         run'.at # "find" => run'.infos \subseteq Stable'
           /\ \A t \in run'.tables :
                \/ t \in DOMAIN tables' \ Copy'
                \/ run'.at = "copied" /\ t \in First(run'.tables),
         run'.at \in Finishing \cup {"archive"} =>
           run'.at = run.at /\ run'.infos = run.infos /\ run'.tables = run.tables,
         renaming' => run'.at \in Finishing
  PROVE  WrittenInv'
<1>1. \A s \in Range(temp) \cup Range(manifest) : s = Text \/ s \subseteq Stable'
  BY StableKept DEF WrittenInv
<1> QED BY <1>1 DEF WrittenInv

\* Every step keeps the descriptors to stable tables.
LEMMA NextWritten == IInv /\ WrittenInv /\ Next /\ lost' = {} => WrittenInv'
<1> SUFFICES ASSUME IInv, WrittenInv, Next, lost' = {} PROVE WrittenInv'
  OBVIOUS
<1> USE DEF history, disk, late
<1>0. Stable \subseteq Stable'
  BY StableKept
<1>1. CASE FindFiles
  <2>1. UNCHANGED <<temp, manifest, renaming, tables>> /\ run.at = "find"
        /\ run'.at = "convert" /\ run'.tables = DOMAIN tables /\ run'.infos = {}
    BY <1>1 DEF FindFiles
  <2>2. ~renaming
    BY <2>1 DEF WrittenInv, Finishing
  <2> QED BY <2>1, <2>2, WrittenKept DEF Finishing, Copy
<1>2. CASE ConvertLog
  <2>1. PICK l \in First(run.logs) :
          /\ tables' = [m \in DOMAIN tables \cup {run.number} |->
                          IF m = run.number THEN logs[l] ELSE tables[m]]
          /\ run' = [run EXCEPT !.logs = @ \ {l}, !.number = @ + 1,
                                !.tables = @ \cup Converted]
    BY <1>2 DEF ConvertLog
  <2>2. run.at = "convert" /\ UNCHANGED <<temp, manifest, renaming>>
    BY <1>2 DEF ConvertLog
  <2>3. run'.at = "convert" /\ run'.infos = run.infos
        /\ run'.tables = run.tables \cup Converted
    BY <2>1, <2>2, RunParts
  <2>4. run'.infos \subseteq Stable' /\ ~renaming
    BY <1>0, <2>2, <2>3 DEF WrittenInv, Finishing
  <2>5. \A t \in run'.tables : t \in DOMAIN tables' \ Copy'
    BY <2>1, <2>2, <2>3 DEF WrittenInv, Converted, Copy
  <2> QED BY <2>2, <2>3, <2>4, <2>5, WrittenKept DEF Finishing
<1>3. CASE ConvertFails \/ EndConversion \/ CopyFails \/ SizeFails \/ DropEmpty
  <2>1. run.at \in {"convert", "scan"} /\ UNCHANGED <<temp, manifest, renaming>>
    BY <1>3 DEF ConvertFails, EndConversion, CopyFails, SizeFails, DropEmpty
  <2>2. run'.at \in {"convert", "scan"} /\ run'.infos = run.infos
        /\ run'.tables \subseteq run.tables /\ run'.tables \cap DOMAIN tables \subseteq DOMAIN tables'
    <3>1. CASE ConvertFails
      <4>1. PICK torn \in SUBSET {run.number} : Torn(torn)
        BY <3>1 DEF ConvertFails
      <4> QED BY <2>1, <3>1, <4>1, RunParts, TornIs DEF ConvertFails
    <3>2. CASE EndConversion \/ CopyFails
      BY <2>1, <3>2, RunParts DEF EndConversion, CopyFails
    <3>3. CASE SizeFails \/ DropEmpty
      <4>1. PICK t \in First(run.tables) :
              /\ DOMAIN tables \ {t} \subseteq DOMAIN tables'
              /\ run' = [run EXCEPT !.number = @ + 1, !.tables = @ \ {t}]
        BY <3>3 DEF SizeFails, DropEmpty, Without
      <4> QED BY <2>1, <3>3, <4>1, RunParts DEF SizeFails, DropEmpty
    <3> QED BY <1>3, <3>1, <3>2, <3>3
  <2>3. run'.infos \subseteq Stable' /\ ~renaming
    BY <1>0, <2>1, <2>2 DEF WrittenInv, Finishing
  <2>4. \A t \in run'.tables : t \in DOMAIN tables' \ Copy'
    BY <2>1, <2>2 DEF WrittenInv, Copy
  <2> QED BY <2>1, <2>2, <2>3, <2>4, WrittenKept DEF Finishing
<1>4. CASE Scan
  <2>1. PICK t \in First(run.tables) \ Unreadable :
          run' = [run EXCEPT !.infos = @ \cup {t}, !.tables = @ \ {t}]
    BY <1>4 DEF Scan
  <2>2. run.at = "scan" /\ UNCHANGED <<temp, manifest, renaming, tables, damaged>>
    BY <1>4 DEF Scan
  <2>3. run'.at = "scan" /\ run'.infos = run.infos \cup {t} /\ run'.tables = run.tables \ {t}
    BY <2>1, <2>2, RunParts
  <2>4. t \in Stable
    BY <2>1, <2>2 DEF WrittenInv, First, Stable, Unreadable
  <2>5. run'.infos \subseteq Stable' /\ ~renaming
    BY <1>0, <2>2, <2>3, <2>4 DEF WrittenInv, Finishing
  <2>6. \A u \in run'.tables : u \in DOMAIN tables' \ Copy'
    BY <2>2, <2>3 DEF WrittenInv, Copy
  <2> QED BY <2>2, <2>3, <2>5, <2>6, WrittenKept DEF Finishing
<1>5. CASE CopyTable
  <2>1. PICK t \in First(run.tables) \cap damaged :
          tables' = [m \in (DOMAIN tables \ {t}) \cup {run.number} |->
                          IF m = run.number THEN tables[t] ELSE tables[m]]
    BY <1>5 DEF CopyTable
  <2>2. run.at = "scan" /\ UNCHANGED <<temp, manifest, renaming>>
        /\ run' = [run EXCEPT !.at = "copied", !.number = @ + 1]
    BY <1>5 DEF CopyTable
  <2>3. run'.at = "copied" /\ run'.infos = run.infos /\ run'.tables = run.tables
        /\ run'.number = run.number + 1
    BY <2>2, RunParts
  <2>4. run'.infos \subseteq Stable' /\ ~renaming
    BY <1>0, <2>2, <2>3 DEF WrittenInv, Finishing
  <2>5. ASSUME NEW u \in run'.tables, u \notin First(run'.tables)
        PROVE  u \in DOMAIN tables' \ Copy'
    <3>1. u \in DOMAIN tables /\ u # t
      BY <2>1, <2>2, <2>3, <2>5 DEF WrittenInv
    <3>2. u # run.number /\ run.number + 1 - 1 = run.number
      BY <2>2, <3>1, RunParts
    <3>3. u \in DOMAIN tables'
      BY <2>1, <3>1
    <3>4. run'.number - 1 = run.number
      <4>1. run.number \in Nat
        BY <2>2, RunParts
      <4> QED BY <2>3, <4>1
    <3>5. u \notin Copy'
      BY <3>2, <3>4 DEF Copy
    <3> QED BY <3>3, <3>5
  <2> QED BY <2>2, <2>3, <2>4, <2>5, WrittenKept DEF Finishing
<1>6. CASE RenameCopy \/ CopyLost
  <2>1. PICK t \in First(run.tables) :
          /\ DOMAIN tables \ {run.number - 1} \subseteq DOMAIN tables'
          /\ run' = [run EXCEPT !.at = "scan", !.tables = @ \ {t}]
    BY <1>6 DEF RenameCopy, CopyLost, Without
  <2>2. run.at = "copied" /\ UNCHANGED <<temp, manifest, renaming>>
    BY <1>6 DEF RenameCopy, CopyLost
  <2>3. run'.at = "scan" /\ run'.infos = run.infos /\ run'.tables = run.tables \ {t}
    BY <2>1, <2>2, RunParts
  <2>4. run'.infos \subseteq Stable' /\ ~renaming
    BY <1>0, <2>2, <2>3 DEF WrittenInv, Finishing
  <2>5. ASSUME NEW u \in run'.tables
        PROVE  u \in DOMAIN tables' \ Copy'
    <3>1. u \notin First(run.tables)
      <4>1. run.tables \in SUBSET Nat
        BY <2>2 DEF IInv, RunInv
      <4> QED BY <2>1, <2>3, <2>5, <4>1, FirstUnique
    <3>2. u \in DOMAIN tables \ Copy
      BY <2>2, <2>3, <2>5, <3>1 DEF WrittenInv
    <3> QED BY <2>1, <2>2, <2>3, <3>2 DEF Copy
  <2> QED BY <2>2, <2>3, <2>4, <2>5, WrittenKept DEF Finishing
<1>7. CASE (\E l \in OldLogs : Archive(l)) \/ FinishCopy
  <2>1. UNCHANGED <<temp, manifest, renaming, run, tables>>
    BY <1>7 DEF Archive, FinishCopy
  <2> QED BY <1>0, <2>1 DEF WrittenInv, Copy
<1>8. CASE Crash
  <2>1. UNCHANGED <<temp, manifest>> /\ renaming' = FALSE /\ run'.at = "find"
    BY <1>8 DEF Crash, Start
  <2> QED BY <2>1, WrittenKept DEF Finishing
<1>9. CASE WriteDescriptor
  <2>1. run.at = "scan" /\ run.tables = {} /\ temp' = Append(temp, run.infos)
        /\ UNCHANGED <<tables, damaged, manifest, renaming>>
        /\ run' = [run EXCEPT !.at = "archive"]
    BY <1>9 DEF WriteDescriptor
  <2>2. run'.at = "archive" /\ run'.infos = run.infos /\ run'.tables = run.tables
    BY <2>1, RunParts
  <2>3. run.infos \subseteq Stable /\ run.infos \in SUBSET Nat
    BY <2>1 DEF WrittenInv, Stable, IInv, TablesInv
  <2>4. temp' \in Seq(SUBSET Nat) /\ Range(temp') = Range(temp) \cup {run.infos}
    <3>1. temp \in Seq(SUBSET Nat)
      BY DEF WrittenInv
    <3> QED BY <2>1, <2>3, <3>1, Ranges
  <2>5. ~renaming
    BY <2>1 DEF WrittenInv, Finishing
  <2>6. \A s \in Range(temp') \cup Range(manifest') : s = Text \/ s \subseteq Stable'
    BY <1>0, <2>1, <2>3, <2>4 DEF WrittenInv
  <2> QED BY <1>0, <2>1, <2>2, <2>3, <2>4, <2>5, <2>6 DEF WrittenInv, Finishing
<1>10. CASE Install
  <2>1. run.at = "archive" /\ manifest' = <<>> /\ renaming' = TRUE
        /\ UNCHANGED <<tables, damaged, temp>> /\ run' = [run EXCEPT !.at = "install"]
    BY <1>10 DEF Install, None
  <2>2. run'.at = "install" /\ run'.infos = run.infos /\ run'.tables = run.tables
    BY <2>1, RunParts
  <2>3. Range(manifest') = {} /\ manifest' \in Seq(SUBSET Nat)
    BY <2>1, Ranges
  <2>4. \A s \in Range(temp') \cup Range(manifest') : s = Text \/ s \subseteq Stable'
    BY <1>0, <2>1, <2>3 DEF WrittenInv
  <2> QED BY <1>0, <2>1, <2>2, <2>3, <2>4 DEF WrittenInv, Finishing, None
<1>11. CASE Rename
  <2>1. renaming /\ renaming' = FALSE /\ UNCHANGED <<run, tables, damaged>>
        /\ \/ UNCHANGED <<temp, manifest>>
           \/ manifest' = temp /\ temp' = <<>>
    BY <1>11 DEF Rename, None
  <2>2. run.at \in Finishing /\ run.at # "archive"
    BY <2>1 DEF WrittenInv, Finishing
  <2>3. CASE UNCHANGED <<temp, manifest>>
    BY <2>1, <2>3 DEF WrittenInv, Stable, Copy
  <2>4. CASE manifest' = temp /\ temp' = <<>>
    <3>1. Range(temp') = {} /\ temp' \in Seq(SUBSET Nat)
      BY <2>4, Ranges
    <3>2. \A s \in Range(temp') \cup Range(manifest') : s = Text \/ s \subseteq Stable'
      BY <1>0, <2>4, <3>1 DEF WrittenInv
    <3> QED BY <2>1, <2>2, <2>4, <3>1, <3>2 DEF WrittenInv, Stable, Copy, None
  <2> QED BY <2>1, <2>3, <2>4
<1>12. CASE WriteCurrent \/ RenameCurrent
  <2>1. /\ run.at \in {"install", "current"}
        /\ UNCHANGED <<tables, damaged, manifest, renaming>>
        /\ temp' = <<Text>> \/ temp' = <<>>
    BY <1>12 DEF WriteCurrent, RenameCurrent, None, Finishing
  <2>2. run'.at \in Finishing /\ run'.at # "copied" /\ run.at \notin {"find", "copied"}
        /\ run'.infos = run.infos /\ run'.tables = run.tables
    BY <1>12, RunParts DEF WriteCurrent, RenameCurrent, Finishing
  <2>3. temp' \in Seq(SUBSET Nat)
    <3>1. Text \in SUBSET Nat
      BY DEF Text
    <3>2. <<Text>> \in Seq(SUBSET Nat) /\ <<>> \in Seq(SUBSET Nat)
      BY <3>1
    <3> QED BY <2>1, <3>2
  <2>4. Range(temp') = {} \/ Range(temp') = {Text}
    BY <2>1, Ranges
  <2>5. \A s \in Range(temp') \cup Range(manifest') : s = Text \/ s \subseteq Stable'
    BY <1>0, <2>1, <2>4 DEF WrittenInv
  <2>6. temp' = None \/ Text \in Range(temp')
    BY <2>1, Ranges DEF None
  <2>7. run.tables = {} /\ run.infos \subseteq Stable
        /\ (manifest = None \/ run.infos \in Range(manifest) \/ Text \in Range(manifest))
    BY <2>1 DEF WrittenInv, Finishing
  <2> QED BY <1>0, <2>1, <2>2, <2>3, <2>5, <2>6, <2>7 DEF WrittenInv, Finishing
<1>13. CASE DescriptorFails
  <2>1. /\ run.at \in {"scan", "archive", "install", "current"}
        /\ run.at = "scan" => run.tables = {}
        /\ UNCHANGED <<tables, damaged, renaming>>
        /\ temp' = temp \/ temp' = <<>>
        /\ manifest' = manifest \/ manifest' = <<>>
        /\ run' = [run EXCEPT !.at = "failed"]
    BY <1>13 DEF DescriptorFails, None
  <2>2. run'.at = "failed" /\ run'.infos = run.infos /\ run'.tables = run.tables
    BY <2>1, RunParts
  <2>3. /\ temp' \in Seq(SUBSET Nat) /\ manifest' \in Seq(SUBSET Nat)
        /\ Range(temp') \subseteq Range(temp) /\ Range(manifest') \subseteq Range(manifest)
    <3>1. <<>> \in Seq(SUBSET Nat) /\ Range(<<>>) = {}
      BY Ranges
    <3> QED BY <2>1, <3>1 DEF WrittenInv
  <2>4. \A s \in Range(temp') \cup Range(manifest') : s = Text \/ s \subseteq Stable'
    BY <1>0, <2>3 DEF WrittenInv
  <2>5. run.tables = {} /\ run.infos \subseteq Stable
    BY <2>1 DEF WrittenInv, Finishing
  <2> QED BY <1>0, <2>2, <2>3, <2>4, <2>5 DEF WrittenInv, Finishing
<1> QED BY <1>1, <1>2, <1>3, <1>4, <1>5, <1>6, <1>7, <1>8, <1>9, <1>10, <1>11, <1>12,
           <1>13 DEF Next

LEMMA NextNamed == IInv /\ NamedInv /\ [Next]_vars => NamedInv'
<1>1. IInv /\ NamedInv /\ Next => NamedInv'
  <2> SUFFICES ASSUME IInv, NamedInv, Next, lost' = {} PROVE ListedInv' /\ WrittenInv'
    BY DEF NamedInv
  <2>1. lost = {}
    BY Remembered
  <2> QED BY <2>1, NextListed, NextWritten DEF NamedInv
<1>2. NamedInv /\ UNCHANGED vars => NamedInv'
  BY DEF vars, disk, late, history, NamedInv, ListedInv, WrittenInv, Listed, Stable, Copy
<1> QED BY <1>1, <1>2

\* A descriptor that repair installed names every table and every converted log
\* that could be read, and no table that is gone, also if it was cut off before
\* and the file it appended to had been left by an earlier run, and whatever
\* failed, unless a table was moved away because its size could not be had.
THEOREM LeavesNothingOut == Spec => []Complete
<1>1. Init => IInv /\ NamedInv
  BY InitIInv, InitWritten DEF NamedInv
<1>2. IInv /\ NamedInv /\ [Next]_vars => (IInv /\ NamedInv)'
  BY NextIInv, NextNamed
<1> QED BY <1>1, <1>2, CompleteHolds, PTL DEF Spec

-----------------------------------------------------------------------------
(* The order of the tables.                                                *)

\* What was found: the logs are in the order of their writes, and have every
\* write that is newer than one of theirs.
FoundInv ==
  /\ DOMAIN found.tables \subseteq Nat
  /\ \A t \in DOMAIN found.tables :
       found.tables[t] \subseteq Writes /\ found.tables[t] # {}
  /\ \A l \in OldLogs : found.logs[l] \subseteq Writes
  /\ \A l, o \in OldLogs : l < o =>
       \A v \in found.logs[l], w \in found.logs[o] : v < w
  /\ \A l \in OldLogs : \A v \in found.logs[l], w \in Writes :
       v < w => \E o \in OldLogs : w \in found.logs[o]

\* The tables that logs became.
LogTables == Stable \ DOMAIN found.tables

\* A crash may keep such a log where it is.
IsConverted(l) == l \in spoilt \/ \E n \in LogTables : tables[n] = logs[l]

\* A table that was found is there under its number, or is about to be again;
\* the others are what logs became, and are torn or newer than these.
PlacesInv ==
  /\ \A t \in DOMAIN found.tables :
       \/ t \in DOMAIN tables /\ tables[t] = found.tables[t]
       \/ run.at = "copied" /\ t \in First(run.tables)
            /\ tables[run.number - 1] = found.tables[t]
  /\ \A n \in damaged \ (DOMAIN found.tables \cup Copy) : tables[n] = {}
  /\ \A n \in LogTables :
       /\ \E l \in OldLogs : tables[n] = found.logs[l]
       /\ \A t \in DOMAIN found.tables : t < n
  /\ run.at = "copied" =>
       /\ First(run.tables) # {} /\ First(run.tables) \subseteq DOMAIN found.tables
       /\ run.number - 1 \notin DOMAIN found.tables

\* Logs become tables in their order, and one that has its turn yet is newer than
\* those that had theirs.  What a log became is listed, and every log that was or
\* will be moved away has become a table; if not, nothing was flushed from it.
AheadInv ==
  /\ \A n, m \in LogTables, l, o \in OldLogs :
       n < m /\ tables[n] = found.logs[l] /\ tables[m] = found.logs[o] => l < o
  /\ \A n \in LogTables, l \in OldLogs, o \in DOMAIN logs :
       tables[n] = found.logs[l] => l < o \/ IsConverted(o) \/ logs[o] = {}
  /\ run.at = "convert" =>
       /\ run.logs \subseteq DOMAIN logs \ archiving
       /\ \A l \in DOMAIN logs : l \in run.logs \/ IsConverted(l) \/ logs[l] = {}
  /\ run.at = "find" => archiving = {}
  /\ LogTables \subseteq Listed
  /\ \A o \in OldLogs \ spoilt :
       (o \notin DOMAIN logs \/ o \in archiving) /\ found.logs[o] # {} =>
         \E n \in LogTables : tables[n] = found.logs[o]
  /\ \A o \in spoilt, t \in DOMAIN found.tables :
       found.logs[o] \cap found.tables[t] = {}

OrderInv == displaced = {} => lost = {} /\ PlacesInv /\ AheadInv

\* The files are found in the order of their writes.
LEMMA InitOrder == Init => FoundInv /\ OrderInv
<1> SUFFICES ASSUME Init PROVE FoundInv /\ OrderInv
  OBVIOUS
<1>1. PICK inLog \in [Writes -> OldLogs \cup {0}], inTable \in [Writes -> OldTables \cup {0}] :
        /\ \A v, w \in Writes : v < w => inLog[v] <= inLog[w]
        /\ logs   = [n \in OldLogs |-> {w \in Writes : inLog[w] = n}]
        /\ tables = [n \in OldTables \cap Range(inTable) |->
                       {w \in Writes : inTable[w] = n}]
  BY DEF Init
<1>2. found.logs = logs /\ found.tables = tables /\ damaged \subseteq DOMAIN tables
      /\ run.at = "find" /\ archiving = {} /\ DOMAIN logs = OldLogs
      /\ spoilt = {} /\ lost = {}
  BY DEF Init, Start
<1>3. OldTables \subseteq Nat /\ OldLogs \subseteq Nat \ {0} /\ Writes \subseteq Nat
  BY RepairAssumption
<1>4. \A v, w \in Writes : v < w \/ v = w \/ w < v
  BY <1>3
<1>5. ASSUME NEW l \in OldLogs, NEW o \in OldLogs, l < o,
             NEW v \in found.logs[l], NEW w \in found.logs[o]
      PROVE  v < w
  <2>1. v \in Writes /\ w \in Writes /\ inLog[v] = l /\ inLog[w] = o
    BY <1>1, <1>2
  <2>2. ~(o <= l) /\ l # o
    BY <1>3, <1>5
  <2>3. ~(w < v) /\ v # w
    BY <1>1, <2>1, <2>2
  <2> QED BY <1>4, <2>1, <2>3
<1>6. ASSUME NEW l \in OldLogs, NEW v \in found.logs[l], NEW w \in Writes, v < w
      PROVE  \E o \in OldLogs : w \in found.logs[o]
  <2>1. v \in Writes /\ inLog[v] = l
    BY <1>1, <1>2
  <2>2. l <= inLog[w] /\ inLog[w] \in OldLogs \cup {0}
    BY <1>1, <1>6, <2>1
  <2>3. inLog[w] \in OldLogs
    BY <1>3, <2>2
  <2>4. w \in found.logs[inLog[w]]
    BY <1>1, <1>2, <2>3
  <2> QED BY <2>3, <2>4
<1>7. FoundInv
  <2>1. DOMAIN found.tables \subseteq Nat
    BY <1>1, <1>2, <1>3
  <2>2. ASSUME NEW t \in DOMAIN found.tables
        PROVE  found.tables[t] \subseteq Writes /\ found.tables[t] # {}
    <3>1. t \in Range(inTable) /\ found.tables[t] = {w \in Writes : inTable[w] = t}
      BY <1>1, <1>2
    <3>2. PICK w \in Writes : inTable[w] = t
      BY <3>1 DEF Range
    <3> QED BY <3>1, <3>2
  <2>3. \A l \in OldLogs : found.logs[l] \subseteq Writes
    BY <1>1, <1>2
  <2> QED BY <1>5, <1>6, <2>1, <2>2, <2>3 DEF FoundInv
<1>8. LogTables = {}
  BY <1>2 DEF LogTables, Stable
<1>9. PlacesInv /\ AheadInv
  BY <1>2, <1>8 DEF PlacesInv, AheadInv
<1> QED BY <1>2, <1>7, <1>9 DEF OrderInv

\* No step takes away what a log became.
LEMMA LogTablesStay ==
  ASSUME IInv, Next, lost' = {}
  PROVE  \A n \in LogTables : n \in LogTables' /\ tables'[n] = tables[n]
  BY StableKept, Remembered DEF LogTables

\* A log that is still there is what it was.
LEMMA LogsStay ==
  ASSUME IInv, Next
  PROVE  \A l \in DOMAIN logs' : l \in DOMAIN logs /\ logs'[l] = logs[l]
  BY DEF Next, FindFiles, ConvertLog, ConvertFails, EndConversion, Archive, Scan,
     SizeFails, CopyFails, CopyTable, FinishCopy, RenameCopy, CopyLost, DropEmpty,
     WriteDescriptor, Install, Rename, WriteCurrent, RenameCurrent, DescriptorFails,
     Crash, disk

\* A log is moved away after it was converted, or could not be.
LEMMA LogsGo ==
  ASSUME Next, ~ConvertLog, NEW o \in OldLogs \ spoilt',
         o \notin DOMAIN logs' \/ o \in archiving'
  PROVE  o \notin DOMAIN logs \/ o \in archiving
  BY DEF Next, FindFiles, ConvertFails, EndConversion, Archive, Scan,
     SizeFails, CopyFails, CopyTable, FinishCopy, RenameCopy, CopyLost, DropEmpty,
     WriteDescriptor, Install, Rename, WriteCurrent, RenameCurrent, DescriptorFails,
     Crash, disk, late

\* A log that cannot be converted is displaced if it has been flushed.
LEMMA SpoiltApart ==
  ASSUME Next, AheadInv, displaced' = {}
  PROVE  \A o \in spoilt', t \in DOMAIN found'.tables :
           found'.logs[o] \cap found'.tables[t] = {}
<1>0. found' = found
  BY Remembered
<1>1. CASE ConvertFails
  <2>1. PICK l : /\ spoilt' = spoilt \cup {l}
                 /\ displaced' = displaced \cup {m \in {l} : Flushed(l)}
    BY <1>1 DEF ConvertFails
  <2>2. ~Flushed(l)
    BY <2>1
  <2> QED BY <1>0, <2>1, <2>2 DEF AheadInv, Flushed
<1>2. CASE ~ConvertFails
  <2>1. spoilt' = spoilt
    BY <1>2 DEF Next, FindFiles, ConvertLog, EndConversion, Archive, Scan,
       SizeFails, CopyFails, CopyTable, FinishCopy, RenameCopy, CopyLost, DropEmpty,
       WriteDescriptor, Install, Rename, WriteCurrent, RenameCurrent, DescriptorFails,
       Crash, history
  <2> QED BY <1>0, <2>1 DEF AheadInv
<1> QED BY <1>1, <1>2

\* A log that was converted stays so while it is there.
LEMMA ConvertedStays ==
  ASSUME IInv, Next, lost' = {}, NEW l \in DOMAIN logs', IsConverted(l)
  PROVE  IsConverted(l)'
  BY LogTablesStay, LogsStay, Remembered DEF IsConverted

\* A step that makes no table of a log.
LEMMA AheadKept ==
  ASSUME IInv, Next, ~ConvertLog, lost' = {}, displaced' = {}, AheadInv,
         LogTables' \subseteq LogTables,
         run'.at = "convert" =>
           /\ run'.logs \subseteq DOMAIN logs' \ archiving'
           /\ \A l \in DOMAIN logs' :
                l \in run'.logs \/ IsConverted(l)' \/ logs'[l] = {},
         run'.at = "find" => archiving' = {}
  PROVE  AheadInv'
<1>1. /\ \A n \in LogTables' : n \in LogTables /\ tables'[n] = tables[n]
      /\ found' = found
  BY LogTablesStay, Remembered
<1>2. ASSUME NEW n \in LogTables', NEW l \in OldLogs, NEW o \in DOMAIN logs',
             tables'[n] = found.logs[l]
      PROVE  l < o \/ IsConverted(o)' \/ logs'[o] = {}
  <2>1. l < o \/ IsConverted(o) \/ logs[o] = {}
    BY <1>1, <1>2, LogsStay DEF AheadInv
  <2> QED BY <2>1, LogsStay, ConvertedStays
<1>3. \A n, m \in LogTables', l, o \in OldLogs :
        n < m /\ tables'[n] = found.logs[l] /\ tables'[m] = found.logs[o] => l < o
  BY <1>1 DEF AheadInv
<1>4. LogTables' \subseteq Listed'
  BY ListedStays DEF AheadInv
<1>5. ASSUME NEW o \in OldLogs \ spoilt', o \notin DOMAIN logs' \/ o \in archiving',
             found'.logs[o] # {}
      PROVE  \E n \in LogTables' : tables'[n] = found'.logs[o]
  <2>1. (o \notin DOMAIN logs \/ o \in archiving) /\ o \notin spoilt
    BY <1>5, LogsGo, Remembered
  <2>2. PICK n \in LogTables : tables[n] = found.logs[o]
    BY <1>1, <1>5, <2>1 DEF AheadInv
  <2> QED BY <1>1, <2>2, LogTablesStay
<1> QED BY <1>1, <1>2, <1>3, <1>4, <1>5, SpoiltApart DEF AheadInv

\* A step that touches no table and starts or ends no copy.
LEMMA PlacesKept ==
  ASSUME IInv, Next, PlacesInv, UNCHANGED <<tables, damaged>>,
         run.at # "copied", run'.at # "copied"
  PROVE  PlacesInv' /\ LogTables' \subseteq LogTables
<1>1. found' = found
  BY Remembered
<1>2. LogTables' = LogTables
  BY <1>1 DEF LogTables, Stable, Copy
<1>3. Copy' = {} /\ Copy = {}
  BY DEF Copy
<1> QED BY <1>1, <1>2, <1>3 DEF PlacesInv

\* The next log becomes the newest table.
LEMMA ConvertLogOrder ==
  ASSUME IInv, FoundInv, PlacesInv, AheadInv, ConvertLog, displaced' = {}, lost' = {}
  PROVE  PlacesInv' /\ AheadInv'
<1>1. PICK l \in First(run.logs) :
        /\ tables' = [n \in DOMAIN tables \cup {run.number} |->
                        IF n = run.number THEN logs[l] ELSE tables[n]]
        /\ archiving' = archiving \cup {l}
        /\ displaced' = displaced \cup {m \in {l} : Twice(l)}
        /\ run' = [run EXCEPT !.logs = @ \ {l}, !.number = @ + 1,
                              !.tables = @ \cup Converted]
  BY DEF ConvertLog
<1>2. run.at = "convert" /\ UNCHANGED <<logs, damaged, found, spoilt>>
  BY DEF ConvertLog
<1>3. Next
  BY DEF Next
<1>4. run.number \in Nat /\ run.number \notin DOMAIN tables
      /\ \A n \in DOMAIN tables : n < run.number /\ n \in Nat
  BY <1>2 DEF IInv, RunInv, TablesInv
<1>5. run'.at = "convert" /\ run'.logs = run.logs \ {l}
      /\ run'.tables = run.tables \cup Converted
  BY <1>1, <1>2, RunParts
<1>6. l \in DOMAIN logs /\ l \notin archiving /\ l \in OldLogs /\ logs[l] = found.logs[l]
  BY <1>2 DEF AheadInv, First, IInv, LogsInv
<1>7. ~Twice(l)
  BY <1>1
<1>8. ~IsConverted(l) \/ logs[l] = {}
  BY <1>7 DEF Twice, IsConverted, LogTables, Stable
<1>9. OldLogs \subseteq Nat
  BY RepairAssumption
<1> DEFINE x == run.number
<1>10. \A n \in LogTables : n \in DOMAIN tables /\ n \in LogTables' /\ tables'[n] = tables[n]
  BY <1>3, LogTablesStay DEF LogTables, Stable
<1>11. \A n \in LogTables' : n \in LogTables \/ (n = x /\ logs[l] # {} /\ tables'[n] = logs[l])
  BY <1>1, <1>2, <1>4, <1>5 DEF LogTables, Stable, Copy
<1>12. DOMAIN found.tables \subseteq DOMAIN tables
  BY <1>2 DEF PlacesInv
<1>13. logs[l] # {} => x \in LogTables' /\ tables'[x] = logs[l]
  BY <1>1, <1>2, <1>4, <1>5, <1>12 DEF LogTables, Stable, Copy, IInv, TablesInv
<1>14. \A n \in DOMAIN tables : n \in DOMAIN tables' /\ tables'[n] = tables[n]
  BY <1>1, <1>4
<1>15. PlacesInv'
  <2>1. \A n \in LogTables' : (\E o \in OldLogs : tables'[n] = found.logs[o])
                               /\ \A t \in DOMAIN found.tables : t < n
    BY <1>4, <1>6, <1>10, <1>11, <1>12 DEF PlacesInv
  <2>2. \A n \in damaged \ (DOMAIN found.tables \cup Copy') : tables'[n] = {}
    BY <1>2, <1>14 DEF PlacesInv, IInv, TablesInv, Copy
  <2>3. \A t \in DOMAIN found.tables : t \in DOMAIN tables' /\ tables'[t] = found.tables[t]
    BY <1>2, <1>12, <1>14 DEF PlacesInv
  <2> HIDE DEF x
  <2> QED BY <1>2, <1>5, <2>1, <2>2, <2>3 DEF PlacesInv
\* Logs with something in them differ.
<1>16. \A o \in OldLogs : found.logs[o] = logs[l] /\ logs[l] # {} => o = l
  <2> SUFFICES ASSUME NEW o \in OldLogs, found.logs[o] = logs[l], logs[l] # {}
               PROVE  o = l
    OBVIOUS
  <2>1. PICK v \in logs[l] : v \in Nat
    BY <1>6, RepairAssumption DEF FoundInv
  <2>2. ~(o < l) /\ ~(l < o)
    BY <1>6, <2>1 DEF FoundInv
  <2> QED BY <1>6, <1>9, <2>2
<1>17. ASSUME NEW n \in LogTables', NEW m \in LogTables', NEW a \in OldLogs, NEW o \in OldLogs,
              n < m, tables'[n] = found.logs[a], tables'[m] = found.logs[o]
       PROVE  a < o
  <2>1. CASE n \in LogTables /\ m \in LogTables
    BY <1>10, <1>17, <2>1 DEF AheadInv
  <2>2. CASE n \in LogTables /\ m \notin LogTables
    <3>1. logs[l] # {} /\ o = l
      BY <1>11, <1>16, <1>17, <2>2
    <3> QED BY <1>6, <1>8, <1>10, <1>17, <2>2, <3>1 DEF AheadInv
  <2>3. CASE n \notin LogTables
    <3>1. n = x
      BY <1>11, <2>3
    <3>2. m = x \/ m \in DOMAIN tables
      BY <1>10, <1>11
    <3>3. ~(x < m)
      BY <1>4, <3>2
    <3> HIDE DEF x
    <3> QED BY <1>17, <3>1, <3>3
  <2> QED BY <2>1, <2>2, <2>3
<1>18. \A o \in DOMAIN logs : o \in OldLogs /\ (IsConverted(o) => IsConverted(o)')
  BY <1>2, <1>3, ConvertedStays DEF IInv, LogsInv
<1>19. logs[l] # {} => IsConverted(l)'
  BY <1>2, <1>13 DEF IsConverted
<1>20. ASSUME NEW n \in LogTables', NEW a \in OldLogs, NEW o \in DOMAIN logs,
              tables'[n] = found.logs[a]
       PROVE  a < o \/ IsConverted(o)' \/ logs[o] = {}
  <2>1. CASE n \in LogTables
    BY <1>10, <1>18, <1>20, <2>1 DEF AheadInv
  <2>2. CASE n \notin LogTables
    <3>1. a = l /\ logs[l] # {}
      BY <1>11, <1>16, <1>20, <2>2
    <3>2. CASE o \in run.logs
      <4>1. l <= o /\ o \in Nat /\ l \in Nat
        BY <1>6, <1>9, <1>18, <3>2 DEF First
      <4> QED BY <1>19, <3>1, <4>1
    <3>3. CASE o \notin run.logs
      BY <1>2, <1>18, <3>3 DEF AheadInv
    <3> QED BY <3>2, <3>3
  <2> QED BY <2>1, <2>2
<1>21. run'.logs \subseteq DOMAIN logs \ archiving'
  BY <1>1, <1>2, <1>5 DEF AheadInv
<1>22. \A o \in DOMAIN logs : o \in run'.logs \/ IsConverted(o)' \/ logs[o] = {}
  BY <1>2, <1>5, <1>18, <1>19 DEF AheadInv
<1>23. LogTables' \subseteq Listed'
  <2>1. LogTables \subseteq Listed'
    BY <1>3, ListedStays DEF AheadInv
  <2>2. x \in run'.tables /\ run'.at # "find"
    BY <1>5 DEF Converted
  <2>3. x \in LogTables' => x \in Listed'
    BY <2>2 DEF Listed, LogTables
  <2> QED BY <1>11, <2>1, <2>3
<1>24. ASSUME NEW o \in OldLogs \ spoilt, o \notin DOMAIN logs \/ o \in archiving',
              found.logs[o] # {}
       PROVE  \E n \in LogTables' : tables'[n] = found.logs[o]
  <2>1. CASE o = l
    BY <1>6, <1>13, <1>24, <2>1
  <2>2. CASE o # l
    <3>1. o \notin DOMAIN logs \/ o \in archiving
      BY <1>1, <1>24, <2>2
    <3>2. PICK n \in LogTables : tables[n] = found.logs[o]
      BY <1>24, <3>1 DEF AheadInv
    <3> QED BY <1>10, <3>2
  <2> QED BY <2>1, <2>2
<1>25. AheadInv'
  BY <1>2, <1>5, <1>17, <1>20, <1>21, <1>22, <1>23, <1>24 DEF AheadInv
<1> QED BY <1>15, <1>25

\* A copy leaves the other tables in their places, and is of one that was found:
\* what a log became can be read, or is torn and empty.
LEMMA CopyTableOrder ==
  ASSUME IInv, PlacesInv, CopyTable
  PROVE  PlacesInv' /\ LogTables' \subseteq LogTables
<1>1. PICK t \in First(run.tables) \cap damaged :
        /\ tables[t] # {}
        /\ tables' = [n \in (DOMAIN tables \ {t}) \cup {run.number} |->
                        IF n = run.number THEN tables[t] ELSE tables[n]]
        /\ damaged' = (damaged \ {t}) \cup {run.number}
  BY DEF CopyTable
<1>2. run.at = "scan" /\ found' = found
      /\ run' = [run EXCEPT !.at = "copied", !.number = @ + 1]
  BY DEF CopyTable, history
<1>3. run.number \in Nat /\ run.number \notin DOMAIN tables
  BY <1>2, RunParts
<1>4. run'.at = "copied" /\ run'.tables = run.tables /\ run'.number = run.number + 1
  BY <1>2, RunParts
<1>5. run'.number - 1 = run.number
  BY <1>3, <1>4
<1>6. /\ t \in DOMAIN found.tables /\ t \in DOMAIN tables
      /\ DOMAIN found.tables \subseteq DOMAIN tables
      /\ \A u \in DOMAIN found.tables : tables[u] = found.tables[u]
  BY <1>1, <1>2 DEF PlacesInv, IInv, TablesInv, Copy
<1>7. First(run'.tables) = {t}
  <2>1. run.tables \in SUBSET Nat
    BY <1>2 DEF IInv, RunInv
  <2> QED BY <1>1, <1>4, <2>1, FirstUnique
<1>8. /\ \A n \in DOMAIN tables \ {t} : n \in DOMAIN tables' /\ tables'[n] = tables[n]
      /\ tables'[run.number] = tables[t]
      /\ \A n \in DOMAIN tables' : n \in DOMAIN tables \ {t} \/ n = run.number
  BY <1>1, <1>3
<1>9. \A n \in LogTables' : n \in LogTables /\ tables'[n] = tables[n]
  <2>1. Copy' = {run.number} /\ Copy = {}
    BY <1>2, <1>4, <1>5 DEF Copy
  <2> QED BY <1>1, <1>2, <1>8, <2>1 DEF LogTables, Stable
<1>10. ASSUME NEW u \in DOMAIN found.tables
       PROVE  \/ u \in DOMAIN tables' /\ tables'[u] = found.tables[u]
              \/ u \in First(run'.tables) /\ tables'[run'.number - 1] = found.tables[u]
  BY <1>5, <1>6, <1>7, <1>8
<1>11. \A n \in damaged' \ (DOMAIN found.tables \cup Copy') : tables'[n] = {}
  <2>1. Copy' = {run.number} /\ Copy = {}
    BY <1>2, <1>4, <1>5 DEF Copy
  <2> QED BY <1>1, <1>8, <2>1 DEF PlacesInv, IInv, TablesInv
<1>12. \A n \in LogTables' : /\ \E l \in OldLogs : tables'[n] = found.logs[l]
                             /\ \A u \in DOMAIN found.tables : u < n
  BY <1>9 DEF PlacesInv
<1> QED BY <1>2, <1>3, <1>4, <1>5, <1>6, <1>7, <1>9, <1>10, <1>11, <1>12 DEF PlacesInv

\* The copy is then where the table was.
LEMMA RenameCopyOrder ==
  ASSUME IInv, PlacesInv, RenameCopy
  PROVE  PlacesInv' /\ LogTables' \subseteq LogTables
<1>1. PICK t \in First(run.tables) :
        /\ tables' = [n \in (DOMAIN tables \ {run.number - 1}) \cup {t} |->
                        IF n = t THEN tables[run.number - 1] ELSE tables[n]]
        /\ run' = [run EXCEPT !.at = "scan", !.tables = @ \ {t}]
  BY DEF RenameCopy
<1>2. run.at = "copied" /\ damaged' = damaged /\ found' = found
  BY DEF RenameCopy, history
<1>3. run'.at = "scan"
  BY <1>1, <1>2, RunParts
<1>4. t \notin DOMAIN tables /\ t \in DOMAIN found.tables /\ damaged \subseteq DOMAIN tables
      /\ run.number - 1 \notin DOMAIN found.tables /\ run.number - 1 \notin damaged
  BY <1>1, <1>2 DEF IInv, RunInv, TablesInv, PlacesInv, RenameCopy
<1>5. \A u \in First(run.tables) : u = t
  <2>1. run.tables \in SUBSET Nat
    BY <1>2 DEF IInv, RunInv
  <2> QED BY <1>1, <2>1, FirstUnique
<1>6. /\ tables'[t] = tables[run.number - 1] /\ t \in DOMAIN tables'
      /\ \A n \in DOMAIN tables : n # run.number - 1 =>
           n \in DOMAIN tables' /\ tables'[n] = tables[n]
      /\ \A n \in DOMAIN tables' : n = t \/ (n \in DOMAIN tables /\ n # run.number - 1)
  BY <1>1, <1>4
<1>7. \A u \in DOMAIN found.tables : u \in DOMAIN tables' /\ tables'[u] = found.tables[u]
  BY <1>4, <1>5, <1>6 DEF PlacesInv
<1>8. \A n \in LogTables' : n \in LogTables /\ tables'[n] = tables[n]
  <2>1. Copy = {run.number - 1} /\ Copy' = {}
    BY <1>2, <1>3 DEF Copy
  <2> QED BY <1>2, <1>4, <1>6, <2>1 DEF LogTables, Stable
<1>9. \A n \in damaged \ (DOMAIN found.tables \cup Copy') : tables'[n] = {}
  BY <1>4, <1>6 DEF PlacesInv, Copy
<1>10. \A n \in LogTables' : /\ \E l \in OldLogs : tables'[n] = found.logs[l]
                             /\ \A u \in DOMAIN found.tables : u < n
  BY <1>8 DEF PlacesInv
<1> QED BY <1>2, <1>3, <1>7, <1>8, <1>9, <1>10 DEF PlacesInv

\* What is left half written is empty, and has a new number.
LEMMA TornOrder ==
  ASSUME IInv, PlacesInv, Next, run.at # "copied", run'.at # "copied",
         NEW torn \in SUBSET {run.number}, Torn(torn), run.at # "find" \/ torn = {}
  PROVE  PlacesInv' /\ LogTables' \subseteq LogTables
<1>1. found' = found
  BY Remembered
<1>2. /\ \A n \in DOMAIN tables :
           n \in DOMAIN tables' /\ tables'[n] = tables[n] /\ n \notin torn
      /\ \A n \in DOMAIN tables' : n \in DOMAIN tables \/ n \in torn
      /\ \A n \in torn : tables'[n] = {}
      /\ damaged' = damaged \cup torn
  <2>1. CASE run.at # "find"
    BY <2>1, TornIs
  <2>2. CASE torn = {}
    BY <2>2 DEF Torn
  <2> QED BY <2>1, <2>2
<1>3. Copy = {} /\ Copy' = {}
  BY DEF Copy
<1>4. \A n \in LogTables' : n \in LogTables /\ tables'[n] = tables[n]
  BY <1>1, <1>2, <1>3 DEF LogTables, Stable
<1>5. \A u \in DOMAIN found.tables : u \in DOMAIN tables' /\ tables'[u] = found.tables[u]
  BY <1>2 DEF PlacesInv
<1>6. \A n \in damaged' \ DOMAIN found.tables : tables'[n] = {}
  BY <1>2, <1>3 DEF PlacesInv, IInv, TablesInv
<1>7. \A n \in LogTables' : /\ \E l \in OldLogs : tables'[n] = found.logs[l]
                            /\ \A u \in DOMAIN found.tables : u < n
  BY <1>4 DEF PlacesInv
<1> QED BY <1>1, <1>4, <1>5, <1>6, <1>7 DEF PlacesInv

\* If a crash leaves a copy under its own number, that table is displaced.
LEMMA CrashOrder ==
  ASSUME IInv, PlacesInv, Crash, displaced' = {}
  PROVE  PlacesInv' /\ LogTables' \subseteq LogTables
<1>1. PICK torn \in SUBSET {n \in {run.number} : Building} : Torn(torn)
  BY DEF Crash
<1>2. run'.at = "find" /\ Next
  BY DEF Crash, Start, Next
<1>3. run.at # "copied"
  <2>1. run.at = "copied" => First(run.tables) \subseteq displaced'
    BY DEF Crash
  <2> QED BY <2>1 DEF PlacesInv
<1>4. torn \in SUBSET {run.number} /\ (run.at # "find" \/ torn = {})
  BY <1>1 DEF Building
<1> QED BY <1>1, <1>2, <1>3, <1>4, TornOrder

\* A table without an entry is none of those that were found, nor of logs.
LEMMA DropEmptyOrder ==
  ASSUME IInv, FoundInv, PlacesInv, DropEmpty
  PROVE  PlacesInv' /\ LogTables' \subseteq LogTables
<1>1. PICK t \in First(run.tables) \ damaged :
        /\ tables[t] = {}
        /\ tables' = [m \in (DOMAIN tables \ {t}) \cup {run.number} |->
                        IF m = run.number THEN {} ELSE tables[m]]
        /\ damaged' = damaged \cup {run.number}
        /\ run' = [run EXCEPT !.number = @ + 1, !.tables = @ \ {t}]
  BY DEF DropEmpty
<1>2. run.at = "scan" /\ found' = found
  BY DEF DropEmpty, history
<1>3. run'.at = "scan" /\ run.number \notin DOMAIN tables
  BY <1>1, <1>2, RunParts
<1>4. t \notin DOMAIN found.tables
  BY <1>1, <1>2 DEF PlacesInv, FoundInv
<1>5. /\ \A n \in DOMAIN tables \ {t} : n \in DOMAIN tables' /\ tables'[n] = tables[n]
      /\ \A n \in DOMAIN tables' : n \in DOMAIN tables \ {t} \/ n = run.number
      /\ tables'[run.number] = {}
  BY <1>1, <1>3
<1>6. Copy = {} /\ Copy' = {}
  BY <1>2, <1>3 DEF Copy
<1>7. \A n \in LogTables' : n \in LogTables /\ tables'[n] = tables[n]
  BY <1>1, <1>2, <1>5, <1>6 DEF LogTables, Stable
<1>8. \A u \in DOMAIN found.tables : u \in DOMAIN tables' /\ tables'[u] = found.tables[u]
  BY <1>2, <1>4, <1>5 DEF PlacesInv
<1>9. \A n \in damaged' \ DOMAIN found.tables : tables'[n] = {}
  <2>1. t \notin damaged
    BY <1>1
  <2> QED BY <1>1, <1>5, <1>6, <2>1 DEF PlacesInv, IInv, TablesInv
<1>10. \A n \in LogTables' : /\ \E l \in OldLogs : tables'[n] = found.logs[l]
                             /\ \A u \in DOMAIN found.tables : u < n
  BY <1>7 DEF PlacesInv
<1> QED BY <1>2, <1>3, <1>7, <1>8, <1>9, <1>10 DEF PlacesInv

\* Every step keeps the order, unless a file was displaced.
LEMMA NextOrder == IInv /\ FoundInv /\ OrderInv /\ Next => FoundInv' /\ OrderInv'
<1> SUFFICES ASSUME IInv, FoundInv, OrderInv, Next
             PROVE  FoundInv' /\ OrderInv'
  OBVIOUS
<1>1. FoundInv'
  <2>1. found' = found
    BY Remembered
  <2> QED BY <2>1 DEF FoundInv
<1> SUFFICES ASSUME displaced' = {} PROVE lost' = {} /\ PlacesInv' /\ AheadInv'
  BY <1>1 DEF OrderInv
<1>0. lost = {} /\ PlacesInv /\ AheadInv
  BY Remembered DEF OrderInv
<1> USE DEF disk, late, history
<1>a. ~SizeFails /\ ~CopyLost
  BY DEF SizeFails, CopyLost
<1>b. lost' = {}
  BY <1>0, <1>a DEF Next, FindFiles, ConvertLog, ConvertFails, EndConversion, Archive, Scan,
     CopyFails, CopyTable, FinishCopy, RenameCopy, DropEmpty, WriteDescriptor, Install,
     Rename, WriteCurrent, RenameCurrent, DescriptorFails, Crash
<1>2. PlacesInv /\ AheadInv /\ lost' = {}
  BY <1>0, <1>b
<1>3. CASE ConvertLog
  BY <1>2, <1>3, ConvertLogOrder
<1> SUFFICES ASSUME ~ConvertLog PROVE PlacesInv' /\ AheadInv'
  BY <1>2, <1>3
<1>4. CASE FindFiles
  <2>1. UNCHANGED <<tables, damaged, logs, archiving>> /\ run.at = "find"
        /\ run'.at = "convert" /\ run'.logs = DOMAIN logs
    BY <1>4 DEF FindFiles
  <2>2. archiving' = {}
    BY <1>2, <2>1 DEF AheadInv
  <2> QED BY <1>2, <2>1, <2>2, PlacesKept, AheadKept
<1>5. CASE ConvertFails
  <2>0. PICK l \in First(run.logs), x \in {run.number, run.number + 1} :
          /\ archiving' = archiving \cup {l} /\ spoilt' = spoilt \cup {l}
          /\ run' = [run EXCEPT !.logs = @ \ {l}, !.number = x]
          /\ \E torn \in SUBSET {m \in {run.number} : m < x} : Torn(torn)
    BY <1>5 DEF ConvertFails
  <2>1. /\ archiving' = archiving \cup {l} /\ spoilt' = spoilt \cup {l}
        /\ run' = [run EXCEPT !.logs = @ \ {l}, !.number = x]
        /\ \E torn \in SUBSET {run.number} : Torn(torn)
    BY <2>0
  <2>2. run.at = "convert" /\ UNCHANGED logs
    BY <1>5 DEF ConvertFails
  <2>3. run'.at = "convert" /\ run'.logs = run.logs \ {l}
    BY <2>1, <2>2, RunParts
  <2>4. \A o \in DOMAIN logs : o \in run'.logs \/ IsConverted(o)' \/ logs[o] = {}
    <3>1. IsConverted(l)'
      BY <2>1 DEF IsConverted
    <3> QED BY <1>2, <2>2, <2>3, <3>1, ConvertedStays DEF AheadInv
  <2>5. run'.logs \subseteq DOMAIN logs \ archiving'
    BY <1>2, <2>1, <2>2, <2>3 DEF AheadInv
  <2>6. PlacesInv' /\ LogTables' \subseteq LogTables
    BY <1>2, <2>1, <2>2, <2>3, TornOrder
  <2> QED BY <1>2, <2>2, <2>3, <2>4, <2>5, <2>6, AheadKept
<1>6. CASE EndConversion \/ Scan \/ CopyFails \/ WriteDescriptor \/ Install
             \/ WriteCurrent \/ RenameCurrent \/ DescriptorFails
  <2>1. UNCHANGED <<tables, damaged>> /\ run.at \notin {"find", "copied"}
    BY <1>6 DEF EndConversion, Scan, CopyFails, WriteDescriptor, Install, WriteCurrent,
                RenameCurrent, DescriptorFails
  <2>2. run'.at \notin {"find", "convert", "copied"}
    BY <1>6, <2>1, RunParts DEF EndConversion, Scan, CopyFails, WriteDescriptor, Install,
                WriteCurrent, RenameCurrent, DescriptorFails
  <2> QED BY <1>2, <2>1, <2>2, PlacesKept, AheadKept
<1>7. CASE \E l \in OldLogs : Archive(l)
  <2>1. PICK l \in OldLogs : Archive(l)
    BY <1>7
  <2>2. /\ l \in archiving /\ archiving' = archiving \ {l}
        /\ logs' = [m \in DOMAIN logs \ {l} |-> logs[m]]
        /\ UNCHANGED <<tables, damaged, run, found>>
    BY <2>1 DEF Archive
  <2>3. PlacesInv' /\ LogTables' = LogTables
    BY <1>2, <2>2 DEF PlacesInv, LogTables, Stable, Copy
  <2>4. ASSUME run.at = "convert"
        PROVE  /\ run.logs \subseteq DOMAIN logs' \ archiving'
               /\ \A o \in DOMAIN logs' :
                    o \in run.logs \/ IsConverted(o)' \/ logs'[o] = {}
    BY <1>2, <2>2, <2>4, LogsStay, ConvertedStays DEF AheadInv
  <2>5. run.at # "find"
    BY <1>2, <2>2 DEF AheadInv
  <2> QED BY <1>2, <2>2, <2>3, <2>4, <2>5, AheadKept
<1>8. CASE CopyTable \/ RenameCopy \/ DropEmpty \/ Crash
  <2>1. PlacesInv' /\ LogTables' \subseteq LogTables
    BY <1>2, <1>8, CopyTableOrder, RenameCopyOrder, DropEmptyOrder, CrashOrder
  <2>2. CopyTable \/ RenameCopy \/ DropEmpty => run'.at \in {"copied", "scan"}
    BY RunParts DEF CopyTable, RenameCopy, DropEmpty
  <2>3. Crash => run'.at = "find" /\ archiving' = {}
    BY DEF Crash, Start
  <2> QED BY <1>2, <1>8, <2>1, <2>2, <2>3, AheadKept
<1>9. CASE FinishCopy
  <2>1. UNCHANGED <<tables, logs, archiving, run>> /\ run.at = "copied"
        /\ damaged' = damaged \ {run.number - 1}
    BY <1>9 DEF FinishCopy
  <2>2. found' = found /\ Copy' = Copy /\ Copy = {run.number - 1}
    BY <2>1, Remembered DEF Copy
  <2>3. LogTables' = LogTables
    BY <2>1, <2>2 DEF LogTables, Stable
  <2>4. PlacesInv'
    BY <1>2, <2>1, <2>2, <2>3 DEF PlacesInv
  <2> QED BY <1>2, <2>1, <2>3, <2>4, AheadKept
<1>10. CASE Rename
  <2>1. UNCHANGED <<tables, damaged, logs, archiving, run, found>>
    BY <1>10 DEF Rename
  <2>2. PlacesInv' /\ LogTables' = LogTables
    BY <1>2, <2>1 DEF PlacesInv, LogTables, Stable, Copy
  <2>3. ASSUME run.at = "convert"
        PROVE  /\ run.logs \subseteq DOMAIN logs \ archiving
               /\ \A o \in DOMAIN logs : o \in run.logs \/ IsConverted(o)' \/ logs[o] = {}
    BY <1>2, <2>1, <2>3, ConvertedStays DEF AheadInv
  <2>4. run.at = "find" => archiving = {}
    BY <1>2 DEF AheadInv
  <2> QED BY <1>2, <2>1, <2>2, <2>3, <2>4, AheadKept
<1> QED BY <1>a, <1>3, <1>4, <1>5, <1>6, <1>7, <1>8, <1>9, <1>10 DEF Next

\* Of two tables of a version, the one with the higher number has the newer writes,
\* unless it was found and the other one was a log.
LEMMA TablesInOrder ==
  ASSUME FoundInv, PlacesInv, AheadInv, run.at = "done", NEW k, InOrder(k),
         NEW n \in Stable, NEW m \in Stable, n < m, n \in Nat, m \in Nat,
         ~(n \in DOMAIN found.tables /\ m \in LogTables),
         NEW v \in Of(n, k), NEW w \in Of(m, k)
  PROVE  v < w
<1>1. v \in tables[n] /\ key[v] = k /\ w \in tables[m] /\ key[w] = k
  BY DEF Of
<1>2. \A i \in {n, m} : (i \in DOMAIN found.tables /\ tables[i] = found.tables[i])
                         \/ i \in LogTables
  BY DEF PlacesInv, LogTables
<1>3. CASE n \in LogTables /\ m \in LogTables
  <2>1. PICK l \in OldLogs : tables[n] = found.logs[l]
    BY <1>3 DEF PlacesInv
  <2>2. PICK o \in OldLogs : tables[m] = found.logs[o]
    BY <1>3 DEF PlacesInv
  <2>3. l < o
    BY <1>3, <2>1, <2>2 DEF AheadInv
  <2> QED BY <1>1, <2>1, <2>2, <2>3 DEF FoundInv
<1>4. CASE n \in LogTables /\ m \in DOMAIN found.tables
  <2>1. m < n
    BY <1>4 DEF PlacesInv
  <2> QED BY <2>1
<1>5. CASE n \in DOMAIN found.tables /\ m \in DOMAIN found.tables
  <2>1. tables[n] = found.tables[n] /\ tables[m] = found.tables[m]
    BY <1>5 DEF PlacesInv
  <2> QED BY <1>1, <1>5, <2>1 DEF InOrder
<1> QED BY <1>2, <1>3, <1>4, <1>5

\* In a version in order the highest table with the key has its newest write.
LEMMA NewestHolds == IInv /\ NamedInv /\ FoundInv /\ OrderInv => NewestFound
<1> SUFFICES ASSUME IInv, NamedInv, FoundInv, OrderInv, Repaired, displaced = {},
                    NEW k \in {1, 2}, InOrder(k),
                    NEW T, T = {n \in Version : Of(n, k) # {}}, T # {}
             PROVE  Max(Of(Max(T), k)) = Max(UNION {Of(n, k) : n \in T})
  BY DEF NewestFound
<1>0. PlacesInv /\ AheadInv /\ ListedInv /\ WrittenInv /\ run.at = "done"
  BY DEF OrderInv, NamedInv, Repaired
<1>1. Version \subseteq Stable /\ Listed \subseteq Version
  BY <1>0, ListedNamed
<1>2. Stable \subseteq DOMAIN tables /\ DOMAIN tables \subseteq Nat
      /\ IsFiniteSet(DOMAIN tables)
  BY DEF IInv, TablesInv, Stable
<1>3. T \in SUBSET Nat /\ IsFiniteSet(T)
  BY <1>1, <1>2, FS_Subset
<1>4. Max(T) \in T /\ \A n \in T : n <= Max(T)
  BY <1>3, MaxExists
<1>5. \A n \in T : tables[n] \subseteq Writes
  <2> SUFFICES ASSUME NEW n \in T PROVE tables[n] \subseteq Writes
    OBVIOUS
  <2>1. PlacesInv /\ run.at = "done" /\ n \in Stable
    BY <1>0, <1>1
  <2>2. CASE n \in DOMAIN found.tables
    BY <2>1, <2>2 DEF PlacesInv, FoundInv
  <2>3. CASE n \in LogTables
    BY <2>1, <2>3 DEF PlacesInv, FoundInv
  <2>4. CASE tables[n] = {}
    BY <2>4
  <2> QED BY <2>1, <2>2, <2>3, <2>4 DEF LogTables
<1>6. \A S \in SUBSET Writes : S \in SUBSET Nat /\ IsFiniteSet(S)
  BY RepairAssumption, FS_Subset
<1> DEFINE U == UNION {Of(n, k) : n \in T}
<1>7. /\ \A n \in T : Of(n, k) \in SUBSET Writes /\ Of(n, k) # {} /\ Of(n, k) \subseteq U
      /\ \A w \in U : \E n \in T : w \in Of(n, k)
  BY <1>5 DEF Of
<1>8. U \in SUBSET Writes /\ U # {}
  <2> HIDE DEF U
  <2> QED BY <1>4, <1>7
<1> HIDE DEF U
<1>9. Max(U) \in U /\ \A w \in U : w <= Max(U)
  BY <1>6, <1>8, MaxExists
<1>10. PICK n \in T : Max(U) \in Of(n, k)
  BY <1>7, <1>9
<1> DEFINE X == Max(Of(Max(T), k))
<1>11. X \in Of(Max(T), k) /\ \A w \in Of(Max(T), k) : w <= X
  BY <1>4, <1>6, <1>7, MaxExists
<1>12. X \in Nat /\ Max(U) \in Nat /\ X <= Max(U)
  BY <1>4, <1>6, <1>7, <1>8, <1>9, <1>11
<1> HIDE DEF X
<1>13. CASE n = Max(T)
  <2>1. Max(U) <= X
    BY <1>10, <1>11, <1>13
  <2>2. X = Max(U)
    BY <1>12, <2>1
  <2> QED BY <2>2 DEF X, U
<1>14. CASE n # Max(T)
  <2> DEFINE m == Max(T)
             u == Max(U)
  <2>1. n < m /\ n \in Nat /\ m \in Nat /\ n \in Stable /\ m \in Stable
    BY <1>1, <1>3, <1>4, <1>14
  <2>2. u \in Of(n, k) /\ X \in Of(m, k)
    BY <1>10, <1>11
  <2>3. ~(u < X)
    BY <1>12
  <2> HIDE DEF m, u
  <2>4. n \in DOMAIN found.tables /\ m \in LogTables
    BY <1>0, <2>1, <2>2, <2>3, TablesInOrder
  <2>5. PICK l \in OldLogs : tables[m] = found.logs[l]
    BY <1>0, <2>4 DEF PlacesInv
  <2>6. u \in found.tables[n] /\ X \in found.logs[l] /\ u \in Writes /\ key[u] = k
    BY <1>0, <2>2, <2>4, <2>5 DEF Of, PlacesInv, FoundInv
  <2>7. u = X \/ X < u
    BY <1>12 DEF u
  <2>8. CASE X < u
    <3>1. PICK o \in OldLogs : u \in found.logs[o]
      BY <2>6, <2>8 DEF FoundInv
    <3>2. o \notin spoilt
      BY <1>0, <2>4, <2>6, <3>1 DEF AheadInv
    <3>3. o \notin DOMAIN logs \/ o \in archiving
      BY <1>0 DEF ListedInv
    <3>4. PICK i \in LogTables : tables[i] = found.logs[o]
      BY <1>0, <3>1, <3>2, <3>3 DEF AheadInv
    <3>5. i \in T /\ u \in Of(i, k)
      BY <1>0, <1>1, <2>6, <3>1, <3>4 DEF AheadInv, Of
    <3>6. i <= m /\ i \in Nat
      BY <1>3, <1>4, <3>5 DEF m
    <3>7. CASE i = m
      <4>1. u <= X
        BY <1>11, <3>5, <3>7 DEF m
      <4> QED BY <1>12, <2>8, <4>1 DEF u
    <3>8. CASE i # m
      <4>1. i < m
        BY <2>1, <3>6, <3>8
      <4>2. u < X
        BY <1>0, <1>1, <2>1, <2>2, <2>4, <3>4, <3>5, <3>6, <4>1, TablesInOrder
           DEF LogTables
      <4> QED BY <2>3, <4>2
    <3> QED BY <3>7, <3>8
  <2> QED BY <2>7, <2>8 DEF u, U, X
<1> QED BY <1>13, <1>14

\* If the tables were in order, the one of a repaired database that is asked first
\* has the newest write of a key: logs become tables with higher numbers, in their
\* order, and those that were found keep their numbers, unless a failure or a crash
\* displaced one.
THEOREM NewestIsFirst == Spec => []NewestFound
<1>1. Init => IInv /\ NamedInv /\ FoundInv /\ OrderInv
  BY InitIInv, InitWritten, InitOrder DEF NamedInv
<1>2. IInv /\ NamedInv /\ FoundInv /\ OrderInv /\ [Next]_vars
        => (IInv /\ NamedInv /\ FoundInv /\ OrderInv)'
  <2>1. CASE Next
    BY <2>1, NextIInv, NextNamed, NextOrder
  <2>2. FoundInv /\ OrderInv /\ UNCHANGED vars => FoundInv' /\ OrderInv'
    BY DEF vars, disk, late, history, Listed, Stable, Copy, FoundInv, OrderInv, PlacesInv,
       AheadInv, LogTables, IsConverted
  <2> QED BY <2>1, <2>2, NextIInv, NextNamed
<1> QED BY <1>1, <1>2, NewestHolds, PTL DEF Spec

=============================================================================
