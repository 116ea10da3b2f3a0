------------------------------- MODULE Repair -------------------------------
(***************************************************************************)
(* InternalDBRepairer.run: logs are converted to tables and moved to        *)
(* "lost", tables are scanned, and a descriptor with all of them at level 0 *)
(* is installed.  Its file operations may fail, it may crash between two of *)
(* its awaits and be run again; the renames it does not await happen later  *)
(* or never.                                                               *)
(*                                                                         *)
(* A write is its sequence number; a file is known by what can be read of   *)
(* it, a set of writes.                                                    *)
(***************************************************************************)
EXTENDS Integers, Sequences, FiniteSets, SequencesExt

CONSTANTS
  Writes,    \* 1..n
  OldTables, \* numbers of the tables found
  OldLogs,   \* numbers of the logs found
  MaxRuns,   \* bound: runs, all but the last one cut off by a crash
  MaxFailures \* bound: file operations that fail, but for tables found damaged

ASSUME RepairAssumption ==
  /\ 1 \in Writes /\ Writes \subseteq Nat \ {0} /\ IsFiniteSet(Writes)
  /\ MaxRuns \in Nat \ {0} /\ MaxFailures \in Nat
  /\ OldTables \subseteq Nat \ {0} /\ OldLogs \subseteq Nat \ {0}
  /\ IsFiniteSet(OldTables) /\ IsFiniteSet(OldLogs)
  /\ OldTables \cap OldLogs = {}   \* numbers come from one counter

VARIABLES
  logs, tables,  \* files: number -> writes
  damaged,       \* tables of which not all can be read
  temp,          \* 000001.dbtmp: what was written to it
  manifest,      \* MANIFEST-000001, likewise
  archiving,     \* logs whose rename was started
  renaming,      \* the rename of temp to manifest was started
  run,           \* the run in progress
  key,           \* the key of each write
  found,         \* the files there were at the start
  spoilt,        \* logs whose conversion failed
  displaced,     \* files whose contents have not one place in the order
  lost,          \* writes in tables that were moved away unread
  failures       \* how many operations have failed

disk == <<logs, tables, damaged, temp, manifest>>
late == <<archiving, renaming>>
history == <<found, spoilt, displaced, lost, failures>>
vars == <<disk, late, run, key, history>>

None == <<>>        \* no such file
Text == {0}         \* what setCurrentFile writes: no record

Start(runs) == [at |-> "find", number |-> 1, runs |-> runs]

\* Writes go to the newest log, and from there into the tables, which
\* compactions renumber: the logs are in order, and have all writes from some
\* one on.  A log that has been flushed may not be unlinked yet.
Init ==
  /\ \E inLog \in [Writes -> OldLogs \cup {0}],
        inTable \in [Writes -> OldTables \cup {0}] :
       /\ \A v, w \in Writes :
            v < w => inLog[v] <= inLog[w] /\ (inTable[v] # 0 \/ inTable[w] = 0)
       /\ \A w \in Writes : inLog[w] # 0 \/ inTable[w] # 0
       /\ logs   = [n \in OldLogs |-> {w \in Writes : inLog[w] = n}]
       /\ tables = [n \in OldTables \cap Range(inTable) |->
                      {w \in Writes : inTable[w] = n}]
  /\ damaged \in SUBSET DOMAIN tables
  /\ temp = None /\ manifest = None /\ archiving = {} /\ renaming = FALSE
  /\ run = Start(1)
  /\ key \in {f \in [Writes -> {1, 2}] : f[1] = 1}
  /\ found = [logs |-> logs, tables |-> tables, damaged |-> damaged]
  /\ spoilt = {} /\ displaced = {} /\ lost = {} /\ failures = 0

CountFailure == failures < MaxFailures /\ failures' = failures + 1

-----------------------------------------------------------------------------
(* findFiles().                                                            *)

\* Mutant: the numbers of tables are not looked at.
NextNumberOfLogs == 1 + Max({0} \cup DOMAIN logs)

\* The number of a descriptor is not looked at; that of the temporary file is.
NextNumber ==
  1 + Max({0} \cup DOMAIN logs \cup DOMAIN tables
              \cup (IF temp = None THEN {} ELSE {1}))

\* Mutant: readdir gives the names in another order.
Backwards(S) == {n \in S : \A m \in S : m <= n}

\* readdir gives the names, of six digits, in order, and a new table gets a number
\* above them: the lists are worked off in the order of the numbers.
First(S) == {n \in S : \A m \in S : n <= m}

FindFiles ==
  /\ run.at = "find"
  /\ run' = [at |-> "convert", runs |-> run.runs, number |-> NextNumber,
             logs |-> DOMAIN logs, tables |-> DOMAIN tables, infos |-> {}]
  /\ UNCHANGED <<disk, late, key, history>>

-----------------------------------------------------------------------------
(* convertLogFilesToTables().                                              *)

\* Mutant: the new table is not scanned later.
ConvertedUnlisted == {}

\* A table is made, and listed, also of a log that has nothing in it.
Converted == {run.number}

\* A failure or a crash kept the log from being moved away.
Twice(l) ==
  \/ l \in spoilt
  \/ logs[l] # {} /\ \E n \in DOMAIN tables \ DOMAIN found.tables : tables[n] = logs[l]

ConvertLog ==
  /\ run.at = "convert"
  /\ \E l \in First(run.logs) :
       /\ tables' = [n \in DOMAIN tables \cup {run.number} |->
                       IF n = run.number THEN logs[l] ELSE tables[n]]
       /\ archiving' = archiving \cup {l}
       /\ displaced' = displaced \cup {m \in {l} : Twice(l)}
       /\ run' = [run EXCEPT !.logs = @ \ {l}, !.number = @ + 1,
                             !.tables = @ \cup Converted]
  /\ UNCHANGED <<logs, damaged, temp, manifest, renaming, key, found, spoilt, lost, failures>>

\* What is written before an error or a crash stays, without a footer.
Torn(torn) ==
  /\ tables' = [n \in DOMAIN tables \cup torn |-> IF n \in torn THEN {} ELSE tables[n]]
  /\ damaged' = damaged \cup torn

\* A part of what is in the log is in a table that was flushed from it.
Flushed(l) == \E t \in DOMAIN found.tables : found.logs[l] \cap found.tables[t] # {}

\* An error on the way ends the conversion; the log is moved away all the same.
ConvertFails ==
  /\ CountFailure
  /\ run.at = "convert"
  /\ \E l \in First(run.logs), n \in {run.number, run.number + 1} :
       /\ archiving' = archiving \cup {l} /\ spoilt' = spoilt \cup {l}
       /\ displaced' = displaced \cup {m \in {l} : Flushed(l)}
       /\ run' = [run EXCEPT !.logs = @ \ {l}, !.number = n]
       /\ \E torn \in SUBSET {m \in {run.number} : m < n} : Torn(torn)
  /\ UNCHANGED <<logs, temp, manifest, renaming, key, found, lost>>

EndConversion ==
  /\ run.at = "convert" /\ run.logs = {}
  /\ run' = [run EXCEPT !.at = "scan"]
  /\ UNCHANGED <<disk, late, key, history>>

\* archiveFile() of a log, which nobody waits for.
Archive(l) ==
  /\ l \in archiving /\ archiving' = archiving \ {l}
  /\ logs' = [m \in DOMAIN logs \ {l} |-> logs[m]]
  /\ UNCHANGED <<tables, damaged, temp, manifest, renaming, run, key, history>>

-----------------------------------------------------------------------------
(* extractMetaData().                                                      *)

\* A table without an entry fails the assertion behind the loop.
Unreadable == damaged \cup {t \in DOMAIN tables : tables[t] = {}}

Scan ==
  /\ run.at = "scan"
  /\ \E t \in First(run.tables) \ Unreadable :
       run' = [run EXCEPT !.infos = @ \cup {t}, !.tables = @ \ {t}]
  /\ UNCHANGED <<disk, late, key, history>>

Without(t) == [n \in DOMAIN tables \ {t} |-> tables[n]]

\* Its size cannot be had: it is moved away, and then it cannot be opened.
SizeFails ==
  /\ CountFailure
  /\ run.at = "scan"
  /\ \E t \in First(run.tables) :
       /\ tables' = Without(t) /\ damaged' = damaged \ {t}
       /\ lost' = lost \cup tables[t] /\ displaced' = displaced \cup {t}
       /\ run' = [run EXCEPT !.number = @ + 1, !.tables = @ \ {t}]
  /\ UNCHANGED <<logs, temp, manifest, late, key, found, spoilt>>

\* repairTable() meets the error the scan met, or another one before the table is
\* moved away, and unlinks its copy.
CopyFails ==
  /\ run.at = "scan"
  /\ \E t \in First(run.tables) \cap Unreadable :
       run' = [run EXCEPT !.number = @ + 1, !.tables = @ \ {t}]
  /\ UNCHANGED <<disk, late, key, history>>

\* Or it can read the table now, which is moved away; the copy is complete when
\* finish() has returned.
CopyTable ==
  /\ run.at = "scan"
  /\ \E t \in First(run.tables) \cap damaged :
       /\ tables[t] # {}
       /\ tables' = [n \in (DOMAIN tables \ {t}) \cup {run.number} |->
                       IF n = run.number THEN tables[t] ELSE tables[n]]
       /\ damaged' = (damaged \ {t}) \cup {run.number}
  /\ run' = [run EXCEPT !.at = "copied", !.number = @ + 1]
  /\ UNCHANGED <<logs, temp, manifest, late, key, history>>

FinishCopy ==
  /\ run.at = "copied" /\ damaged' = damaged \ {run.number - 1}
  /\ UNCHANGED <<logs, tables, temp, manifest, late, run, key, history>>

\* The copy takes the name of the table; it is not added to _tableInfos.
RenameCopy ==
  /\ run.at = "copied" /\ run.number - 1 \notin damaged
  /\ \E t \in First(run.tables) :
       /\ tables' = [n \in (DOMAIN tables \ {run.number - 1}) \cup {t} |->
                       IF n = t THEN tables[run.number - 1] ELSE tables[n]]
       /\ run' = [run EXCEPT !.at = "scan", !.tables = @ \ {t}]
  /\ UNCHANGED <<logs, damaged, temp, manifest, late, key, history>>

\* It cannot be finished or renamed, and is unlinked; the table has been moved away.
CopyLost ==
  /\ CountFailure
  /\ run.at = "copied"
  /\ tables' = Without(run.number - 1) /\ damaged' = damaged \ {run.number - 1}
  /\ \E t \in First(run.tables) :
       /\ displaced' = displaced \cup {t}
       /\ run' = [run EXCEPT !.at = "scan", !.tables = @ \ {t}]
  /\ UNCHANGED <<logs, temp, manifest, late, key, found, spoilt, lost>>

\* Nothing was read: the table is moved away, and the copy, to which nothing was
\* written, stays.
DropEmpty ==
  /\ run.at = "scan"
  /\ \E t \in First(run.tables) \ damaged :
       /\ tables[t] = {}
       /\ tables' = [n \in (DOMAIN tables \ {t}) \cup {run.number} |->
                       IF n = run.number THEN {} ELSE tables[n]]
       /\ damaged' = damaged \cup {run.number}
       /\ run' = [run EXCEPT !.number = @ + 1, !.tables = @ \ {t}]
  /\ UNCHANGED <<logs, temp, manifest, late, key, history>>

-----------------------------------------------------------------------------
(* writeDescriptor().                                                      *)

\* The file is opened for appending.
WriteDescriptor ==
  /\ run.at = "scan" /\ run.tables = {}
  /\ temp' = Append(temp, run.infos)
  /\ run' = [run EXCEPT !.at = "archive"]
  /\ UNCHANGED <<logs, tables, damaged, manifest, late, key, history>>

\* The old descriptors are moved away, and the rename of the new one started.
Install ==
  /\ run.at = "archive" /\ manifest' = None /\ renaming' = TRUE
  /\ run' = [run EXCEPT !.at = "install"]
  /\ UNCHANGED <<logs, tables, damaged, temp, archiving, key, history>>

Rename ==
  /\ renaming /\ renaming' = FALSE
  /\ IF temp = None THEN UNCHANGED <<temp, manifest>>
     ELSE manifest' = temp /\ temp' = None
  /\ UNCHANGED <<logs, tables, damaged, archiving, run, key, history>>

\* setCurrentFile() truncates and writes a temporary file: the one that the
\* descriptor was written to, if it still has that name.
WriteCurrent ==
  /\ run.at = "install" /\ temp' = <<Text>>
  /\ run' = [run EXCEPT !.at = "current"]
  /\ UNCHANGED <<logs, tables, damaged, manifest, late, key, history>>

RenameCurrent ==
  /\ run.at = "current" /\ temp' = None
  /\ run' = [run EXCEPT !.at = IF temp = None THEN "failed" ELSE "done"]
  /\ UNCHANGED <<logs, tables, damaged, manifest, late, key, history>>

\* An error in any of these: the run ends with it, or with nothing.  The
\* temporary file is unlinked, or will be; the old descriptors may be gone.
DescriptorFails ==
  /\ CountFailure
  /\ \/ run.at = "scan" /\ run.tables = {}
     \/ run.at \in {"archive", "install", "current"}
  /\ temp' \in {temp, None}
  /\ manifest' = manifest \/ (run.at = "archive" /\ manifest' = None)
  /\ run' = [run EXCEPT !.at = "failed"]
  /\ UNCHANGED <<logs, tables, damaged, late, key, found, spoilt, displaced, lost>>

-----------------------------------------------------------------------------

\* A table is being written.
Building ==
  \/ run.at = "convert" /\ run.logs # {}
  \/ run.at = "scan" /\ First(run.tables) \cap Unreadable # {}

\* What was started and not awaited does not happen.
Crash ==
  /\ run.runs < MaxRuns /\ run' = Start(run.runs + 1)
  /\ archiving' = {} /\ renaming' = FALSE
  /\ \E torn \in SUBSET {n \in {run.number} : Building} : Torn(torn)
  /\ displaced' = IF run.at = "copied" THEN displaced \cup First(run.tables)
                  ELSE displaced
  /\ UNCHANGED <<logs, temp, manifest, key, found, spoilt, lost, failures>>

Next ==
  \/ FindFiles
  \/ ConvertLog \/ ConvertFails \/ EndConversion \/ (\E l \in OldLogs : Archive(l))
  \/ Scan \/ SizeFails \/ CopyFails \/ CopyTable \/ FinishCopy \/ RenameCopy
  \/ CopyLost \/ DropEmpty
  \/ WriteDescriptor \/ Install \/ Rename \/ WriteCurrent \/ RenameCurrent
  \/ DescriptorFails
  \/ Crash

Spec == Init /\ [][Next]_vars

-----------------------------------------------------------------------------
(* What is checked.                                                        *)

\* What could be read of the database when repair began, but for logs whose
\* conversion failed.
Safe ==
  (UNION {found.logs[l] : l \in OldLogs \ spoilt})
    \cup (UNION {found.tables[t] : t \in DOMAIN found.tables \ found.damaged})

\* Whenever repair is cut off, what could be read is still in the database, but
\* for tables whose size could not be had.
NothingLost ==
  Safe \subseteq lost \cup (UNION {tables[n] : n \in DOMAIN tables})
                       \cup (UNION {logs[n] : n \in DOMAIN logs})

Opens == manifest # None /\ Text \notin Range(manifest)
Repaired == run.at = "done" /\ Opens

\* The tables of the version that the new descriptor describes.
Version == UNION Range(manifest)

\* Repair leaves out no table and no log that can be read, unless it moved a table
\* away for its size.
Complete ==
  Repaired /\ lost = {} => Version \subseteq DOMAIN tables
                /\ Safe \subseteq UNION {tables[n] : n \in Version}

Of(n, k) == {w \in tables[n] : key[w] = k}

\* Compactions may give an older write the higher number.
InOrder(k) ==
  \A t, u \in DOMAIN found.tables : t < u =>
    \A v \in found.tables[t], w \in found.tables[u] :
      (key[v] = k /\ key[w] = k) => v < w

\* All tables are at level 0, where the highest number is asked first: it has
\* the newest write of a key if the tables found were in order and nothing was
\* displaced.  That is: no log was converted twice, none that had been flushed
\* could not be converted, no copy of a table kept its own number, and no table
\* was moved away for its size or because its copy failed.
NewestFound ==
  Repaired /\ displaced = {} =>
    \A k \in {1, 2} : InOrder(k) =>
      LET T == {n \in Version : Of(n, k) # {}}
      IN  T # {} => Max(Of(Max(T), k)) = Max(UNION {Of(n, k) : n \in T})

\* What the documentation says: the descriptor is renamed, and CURRENT names it.
Installed == run.at = "done" => Opens
=============================================================================
