------------------------------ MODULE Recovery ------------------------------
(***************************************************************************)
(* What survives a crash of the process: opening a database (recoverWrapper,*)
(* recover, recoverLogFile, VersionSet.recover), flushing a memtable        *)
(* (compactMemTable, buildTable, VersionSet.logAndApply), and deleting      *)
(* obsolete files, each file operation a step of its own.                   *)
(*                                                                         *)
(* All writes go to one key, the n-th of them as record n, so a record is   *)
(* its sequence number, every table overlaps every other, and get() should  *)
(* always answer the largest number.  Records have size 1.                  *)
(*                                                                         *)
(* A call of appendFile is one write(2) and survives the process that made  *)
(* it; writeFile truncates the file and then writes it.  A table is written *)
(* with several appends: its records, the index, the footer.  Writes go on  *)
(* during a flush, as they do when the flush is run by another call.        *)
(***************************************************************************)
EXTENDS Integers, Sequences, FiniteSets, TLC, SequencesExt

CONSTANTS
  Opened,      \* how often the directory may have been opened and closed before
  BufferSize,  \* options.writeBufferSize
  Faults,      \* what may go wrong besides a crash between file operations
  MaxWrites,   \* bound: calls of write()
  MaxFailures  \* bound: crashes of the process and errors

\* "current": a crash after CURRENT was truncated.  "table": a crash or an error
\* may leave part of a table.  "flush", "replay": building a table fails, of a
\* memtable or of a log.  "descriptor": writing the descriptor or CURRENT fails.
\* "throw": a promise that background work awaits rejects, outside of a Status.
\* "reader": LogReader throws on a file that nothing harmed.
AllFaults == {"current", "table", "flush", "replay", "descriptor", "throw", "reader"}

ASSUME RecoveryAssumption ==
  /\ Opened \subseteq Nat /\ BufferSize \in Nat
  /\ MaxWrites \in Nat /\ MaxFailures \in Nat
  /\ Faults \subseteq AllFaults

VARIABLES
  \* the directory
  current,    \* the descriptor that CURRENT names
  manifests,  \* descriptor files: sequences of edits
  logs,       \* log files: sequences of records
  tables,     \* table files: sequences of cells
  \* the process
  phase,      \* down, opening, open, or recover() threw: corrupt, when it did
              \* not find what it needs, unread, when LogReader threw
  pc,         \* the file operation that opening or background work is at;
              \* thrown: background work was rejected and stays scheduled
  vs,         \* the version set
  logFile,    \* this._logFileNumber
  mem, imm,   \* the memtables
  inflight,   \* a record was appended to the log and is not inserted yet
  edit,       \* the edit that is built up or applied
  table,      \* the table that is being built
  replay,     \* the logs that recover() has still to read
  trash,      \* what deleteObsoleteFiles has still to unlink
  bgError,    \* this._bgError is set
  \* history
  acked,      \* the records whose write() resolved
  harmed,     \* an event happened that this code does not survive
  failures    \* how many there were

directory == <<current, manifests, logs, tables>>
work      == <<edit, table, replay, trash>>
memory    == <<logFile, mem, imm, inflight>>
history   == <<acked, harmed, failures>>
vars == <<directory, phase, pc, vs, memory, work, bgError, history>>

-----------------------------------------------------------------------------
(***************************************************************************)
(* Files.                                                                  *)
(***************************************************************************)

Absent == 0    \* there is no CURRENT
Torn   == -1   \* CURRENT is empty

\* An edit that only adds files, as writeSnapshot makes it.
SnapshotOf(files) == [adds |-> files, meta |-> FALSE, log |-> 0, next |-> 0,
                      last |-> 0]
NoEdit == SnapshotOf({})

\* The file f with s appended to it; open(..., "a") creates it.
Extended(files, f, s) ==
  [n \in DOMAIN files \cup {f} |->
     IF n # f THEN files[n]
     ELSE (IF f \in DOMAIN files THEN files[f] ELSE <<>>) \o s]

\* The files without f.
Without(files, f) == [n \in DOMAIN files \ {f} |-> files[n]]

\* What SSTableBuilder appends for records s.  A cell that is not a record holds a
\* position: that of the last record, or that of the index.  The builder
\* counts positions from its own start, not from that of the file.
Cells(s) == [i \in 1..Len(s) |-> [kind |-> "record", val |-> s[i]]]
              \o <<[kind |-> "index", val |-> Len(s)],
                   [kind |-> "footer", val |-> Len(s) + 1]>>

\* The records a reader finds: the footer is the end of the file, it says
\* where the index is, and that says where the records are.
Contents(cells) ==
  LET footer == cells[Len(cells)]
      index  == cells[footer.val]
  IN IF cells # <<>> /\ footer.kind = "footer" /\ index.kind = "index"
     THEN {cells[i].val :
             i \in {j \in DOMAIN cells : j <= index.val /\ cells[j].kind = "record"}}
     ELSE {}

\* logs.sort() compares numbers as strings: as if both had as many digits, and
\* a prefix comes first.
Digits(n) ==
  CHOOSE d \in 1..(n + 1) : n < 10 ^ d /\ (d = 1 \/ 10 ^ (d - 1) <= n)
StringLess(m, n) ==
  LET a == m * 10 ^ Digits(n)
      b == n * 10 ^ Digits(m)
  IN a < b \/ (a = b /\ m < n)

\* What sort() makes of the numbers in S.
Sorted(S) ==
  {s \in [1..Cardinality(S) -> S] :
     /\ ToSet(s) = S
     /\ \A i, j \in DOMAIN s : i < j => StringLess(s[i], s[j])}

Ascending(s) == \A i, j \in DOMAIN s : i < j => s[i] < s[j]

\* An edit that only has numbers, and the one of initVersionEdit.
NumbersOf(log, next) == [adds |-> {}, meta |-> TRUE, log |-> log, next |-> next,
                         last |-> 0]
FirstMeta == NumbersOf(0, 2)

\* A directory that was opened and closed some times has an empty log and a
\* descriptor m that names it: each opening takes a number for either.
Init ==
  /\ \E times \in Opened :
       LET m == 2 * times IN
       IF times = 0
       THEN current = Absent /\ manifests = <<>> /\ logs = <<>>
       ELSE /\ current = m
            /\ manifests = [n \in {m} |-> <<NoEdit, NumbersOf(m + 1, m + 2)>>]
            /\ logs = [n \in {m + 1} |-> <<>>]
  /\ tables = <<>>
  /\ phase = "down"
  /\ pc = "idle"
  /\ vs = [files |-> {}, next |-> 0, manifest |-> 0, log |-> 0, last |-> 0]
  /\ logFile = 0 /\ mem = <<>> /\ imm = <<>> /\ inflight = FALSE
  /\ edit = NoEdit
  /\ table = [number |-> 0, records |-> <<>>]
  /\ replay = <<>> /\ trash = {}
  /\ bgError = FALSE
  /\ acked = {} /\ harmed = FALSE /\ failures = 0

-----------------------------------------------------------------------------
(***************************************************************************)
(* Opening.                                                                *)
(***************************************************************************)

Open ==
  /\ phase = "down"
  /\ phase' = "opening"
  /\ pc' = IF current = Absent THEN "init" ELSE "read"
  /\ UNCHANGED <<directory, vs, memory, work, bgError, history>>

\* initVersionEdit writes the first descriptor, then CURRENT.
InitDescriptor ==
  /\ pc = "init"
  /\ manifests' = Extended(manifests, 1, <<FirstMeta>>)
  /\ vs' = [vs EXCEPT !.manifest = 1]
  /\ pc' = "truncate"
  /\ UNCHANGED <<current, logs, tables, phase, memory, work, bgError, history>>

\* The files that the edits of a descriptor add, and the last of them with
\* numbers.
Files(edits) == UNION {edits[i].adds : i \in DOMAIN edits}
IsMeta(edits, i) ==
  /\ edits[i].meta
  /\ \A j \in DOMAIN edits : edits[j].meta => j <= i
Meta(edits) == edits[CHOOSE i \in DOMAIN edits : IsMeta(edits, i)]

Readable ==
  /\ current \in DOMAIN manifests
  /\ \E i \in DOMAIN manifests[current] : IsMeta(manifests[current], i)
  /\ \A f \in Files(manifests[current]) : f.number \in DOMAIN tables

\* VersionSet.recover or recover throws.
ReadFails ==
  /\ pc = "read"
  /\ ~Readable
  /\ phase' = "corrupt"
  /\ pc' = "idle"
  /\ UNCHANGED <<directory, vs, memory, work, bgError, history>>

\* VersionSet.recover, and the list of logs to read.  That logs.sort() may not
\* put them in the order of their numbers is the fourth harmful event.
ReadDescriptor ==
  /\ pc = "read"
  /\ Readable
  /\ LET m == Meta(manifests[current]) IN
       /\ vs' = [files |-> Files(manifests[current]), next |-> m.next + 1,
                 manifest |-> m.next, log |-> m.log, last |-> m.last]
       /\ replay' \in Sorted({n \in DOMAIN logs : n >= m.log})
  /\ harmed' = (harmed \/ ~Ascending(replay'))
  /\ edit' = NoEdit
  /\ pc' = "replay"
  /\ UNCHANGED <<directory, phase, memory, table, trash, bgError, acked, failures>>

Larger(m, n) == IF m < n THEN n ELSE m

\* Mutants of Replayed: the sequence numbers of the log are not looked at, the
\* number of the log is not marked as used.
ReplayedNoSequence(v, n) == [v EXCEPT !.next = Larger(@, n + 1)]
ReplayedNoNumber(v, n) ==
  [v EXCEPT !.last = IF logs[n] = <<>> THEN @ ELSE Larger(@, Last(logs[n]))]

\* The end of the loop body of recover(): the number of log n is used, and so
\* are the sequence numbers in it.
Replayed(v, n) ==
  [v EXCEPT !.next = Larger(@, n + 1),
            !.last = IF logs[n] = <<>> THEN @ ELSE Larger(@, Last(logs[n]))]

\* recoverLogFile on a log without records.
SkipLog ==
  /\ pc = "replay" /\ replay # <<>>
  /\ logs[Head(replay)] = <<>>
  /\ vs' = Replayed(vs, Head(replay))
  /\ replay' = Tail(replay)
  /\ UNCHANGED <<directory, phase, pc, memory, edit, table, trash, bgError,
                 history>>

\* writeLevel0Table takes the next number for the records in s.
StartTable(s) ==
  /\ table' = [number |-> vs.next, records |-> s]
  /\ vs' = [vs EXCEPT !.next = @ + 1]
  /\ pc' = "build"

\* recoverLogFile: the records of the log become a table.  A log holds what
\* one memtable held.
ReplayLog ==
  /\ pc = "replay" /\ replay # <<>>
  /\ logs[Head(replay)] # <<>>
  /\ StartTable(logs[Head(replay)])
  /\ UNCHANGED <<directory, phase, memory, edit, replay, trash, bgError, history>>

\* The new log and memtable of recoverWrapper.
NewLog ==
  /\ pc = "replay" /\ replay = <<>>
  /\ logFile' = vs.next
  /\ logs' = Extended(logs, vs.next, <<>>)
  /\ vs' = [vs EXCEPT !.next = @ + 1]
  /\ edit' = [edit EXCEPT !.meta = TRUE, !.log = vs.next]
  /\ pc' = "snapshot"
  /\ UNCHANGED <<current, manifests, tables, phase, mem, imm, inflight, table,
                 replay, trash, bgError, history>>

-----------------------------------------------------------------------------
(***************************************************************************)
(* Writing, and flushing a memtable.                                       *)
(***************************************************************************)

\* addRecord on the log.  (What a call that comes after a background error does
\* is in WriteQueue.)
AppendLog ==
  /\ phase = "open" /\ ~inflight /\ ~bgError
  /\ Len(mem) <= BufferSize
  /\ vs.last < MaxWrites
  /\ logs' = Extended(logs, logFile, <<vs.last + 1>>)
  /\ inflight' = TRUE
  /\ UNCHANGED <<current, manifests, tables, phase, pc, vs, logFile, mem, imm,
                 work, bgError, history>>

\* addRecord resolved: the rest of write().
Insert ==
  /\ inflight
  /\ mem' = Append(mem, vs.last + 1)
  /\ vs' = [vs EXCEPT !.last = @ + 1]
  /\ acked' = acked \cup {vs.last + 1}
  /\ inflight' = FALSE
  /\ UNCHANGED <<directory, phase, pc, logFile, imm, work, bgError, harmed, failures>>

\* makeRoomForWrite switches to a new log and memtable.
Rotate ==
  /\ phase = "open" /\ ~inflight /\ ~bgError
  /\ Len(mem) > BufferSize /\ imm = <<>>
  /\ logFile' = vs.next
  /\ logs' = Extended(logs, vs.next, <<>>)
  /\ vs' = [vs EXCEPT !.next = @ + 1]
  /\ imm' = mem
  /\ mem' = <<>>
  /\ UNCHANGED <<current, manifests, tables, phase, pc, inflight, work, bgError,
                 history>>

\* compactMemTable, up to the table.
StartFlush ==
  /\ phase = "open" /\ pc = "idle" /\ ~bgError
  /\ imm # <<>>
  /\ StartTable(imm)
  /\ edit' = NoEdit
  /\ UNCHANGED <<directory, phase, memory, replay, trash, bgError, history>>

Taken(level) == \E f \in vs.files : f.level = level

\* Mutant of PickLevel: files at level 0 are not looked at.
PickLevelPastZero == IF Taken(1) THEN 0 ELSE IF Taken(2) THEN 1 ELSE 2

\* pickLevelForMemTableOutput, when any two tables overlap.
PickLevel == IF Taken(0) \/ Taken(1) THEN 0 ELSE IF Taken(2) THEN 1 ELSE 2

\* The file is opened with "a+": what was in it stays in front.
WriteTable(s) == tables' = Extended(tables, table.number, s)

\* Mutant of AddTable: the tables of earlier logs are forgotten.
AddTableAlone(level) == [edit EXCEPT !.adds = {[number |-> table.number,
                                                level |-> level]}]

AddTable(level) == [edit EXCEPT !.adds = @ \cup {[number |-> table.number,
                                                  level |-> level]}]

\* The table is complete.  recoverLogFile gives no base version: level 0.
RecoveredTable ==
  /\ phase = "opening" /\ pc = "build"
  /\ WriteTable(Cells(table.records))
  /\ edit' = AddTable(0)
  /\ vs' = Replayed(vs, Head(replay))
  /\ replay' = Tail(replay)
  /\ pc' = "replay"
  /\ UNCHANGED <<current, manifests, logs, phase, memory, table, trash, bgError,
                 history>>

FlushedTable ==
  /\ phase = "open" /\ pc = "build"
  /\ WriteTable(Cells(table.records))
  /\ edit' = [AddTable(PickLevel) EXCEPT !.meta = TRUE, !.log = logFile]
  /\ pc' = "snapshot"
  /\ UNCHANGED <<current, manifests, logs, phase, vs, memory, table, replay,
                 trash, bgError, history>>

-----------------------------------------------------------------------------
(***************************************************************************)
(* VersionSet.logAndApply and deleteObsoleteFiles.                         *)
(***************************************************************************)

\* The numbers are put in the edit, the descriptor is opened for appending
\* and gets the files of the current version.
WriteSnapshot ==
  /\ pc = "snapshot"
  /\ edit' = [edit EXCEPT !.next = vs.next, !.last = vs.last]
  /\ manifests' = Extended(manifests, vs.manifest, <<SnapshotOf(vs.files)>>)
  /\ pc' = "edit"
  /\ UNCHANGED <<current, logs, tables, phase, vs, memory, table, replay, trash,
                 bgError, history>>

WriteEdit ==
  /\ pc = "edit"
  /\ manifests' = Extended(manifests, vs.manifest, <<edit>>)
  /\ pc' = "truncate"
  /\ UNCHANGED <<current, logs, tables, phase, vs, memory, work, bgError, history>>

\* writeCurrentFile, in two steps.
TruncateCurrent ==
  /\ pc = "truncate"
  /\ current' = Torn
  /\ pc' = "point"
  /\ UNCHANGED <<manifests, logs, tables, phase, vs, memory, work, bgError,
                 history>>

InitCurrent ==
  /\ pc = "point" /\ edit = NoEdit
  /\ current' = vs.manifest
  /\ pc' = "read"
  /\ UNCHANGED <<manifests, logs, tables, phase, vs, memory, work, bgError,
                 history>>

\* The edit is applied; a flush drops the immutable memtable.
Install ==
  /\ pc = "point" /\ edit # NoEdit
  /\ current' = vs.manifest
  /\ vs' = [vs EXCEPT !.files = @ \cup edit.adds, !.log = edit.log]
  /\ imm' = <<>>
  /\ pc' = "list"
  /\ UNCHANGED <<manifests, logs, tables, phase, logFile, mem, inflight, work,
                 bgError, history>>

Unused(kind, numbers) == {<<kind, n>> : n \in numbers}
UnusedTables == Unused("table", DOMAIN tables \ {f.number : f \in vs.files})

\* Mutants of Obsolete: every log but the one in use goes, the descriptor in
\* use goes.
ObsoleteOtherLogs ==
  UnusedTables \cup Unused("log", DOMAIN logs \ {logFile})
    \cup Unused("manifest", {n \in DOMAIN manifests : n < vs.manifest})
ObsoleteUsedDescriptor ==
  UnusedTables \cup Unused("log", {n \in DOMAIN logs : n < vs.log})
    \cup Unused("manifest", {n \in DOMAIN manifests : n <= vs.manifest})

\* What deleteObsoleteFiles does not keep.
Obsolete ==
  UnusedTables \cup Unused("log", {n \in DOMAIN logs : n < vs.log})
    \cup Unused("manifest", {n \in DOMAIN manifests : n < vs.manifest})

\* The directory is listed, and what is to go is decided.
ListFiles ==
  /\ pc = "list"
  /\ trash' = Obsolete
  /\ pc' = "unlink"
  /\ UNCHANGED <<directory, phase, vs, memory, edit, table, replay, bgError,
                 history>>

Unlink ==
  /\ pc = "unlink"
  /\ \E t \in trash :
       /\ trash' = trash \ {t}
       /\ logs' = IF t[1] = "log" THEN Without(logs, t[2]) ELSE logs
       /\ manifests' = IF t[1] = "manifest" THEN Without(manifests, t[2])
                       ELSE manifests
       /\ tables' = IF t[1] = "table" THEN Without(tables, t[2]) ELSE tables
  /\ UNCHANGED <<current, phase, pc, vs, memory, edit, table, replay, bgError,
                 history>>

\* Mutant of Cleaned: background work that follows a flush stays scheduled.
CleanedStaysBusy ==
  /\ pc = "unlink" /\ trash = {}
  /\ pc' = IF phase = "open" THEN "unlink" ELSE "idle"
  /\ phase' = "open"
  /\ UNCHANGED <<directory, vs, memory, work, bgError, history>>

\* The last file is gone: the database is open.
Cleaned ==
  /\ pc = "unlink" /\ trash = {}
  /\ pc' = "idle"
  /\ phase' = "open"
  /\ UNCHANGED <<directory, vs, memory, work, bgError, history>>

-----------------------------------------------------------------------------
(***************************************************************************)
(* Crashes and errors.                                                     *)
(***************************************************************************)

\* The process is gone, and with it everything that was not in a file.
LoseMemory ==
  /\ phase' = "down"
  /\ pc' = "idle"
  /\ vs' = [files |-> {}, next |-> 0, manifest |-> 0, log |-> 0, last |-> 0]
  /\ logFile' = 0 /\ mem' = <<>> /\ imm' = <<>> /\ inflight' = FALSE
  /\ edit' = NoEdit
  /\ table' = [number |-> 0, records |-> <<>>]
  /\ replay' = <<>> /\ trash' = {}
  /\ bgError' = FALSE

CountFailure ==
  /\ failures < MaxFailures
  /\ failures' = failures + 1

\* How much of a table may be in its file.
Written ==
  LET n == Len(Cells(table.records)) IN
  IF "table" \in Faults THEN 0..n ELSE {0, n}

\* What has been written of the table stays.  Its number may be given out again,
\* and the file is opened for appending: part of a table is the first harmful
\* event.
LeaveTable ==
  \E n \in Written :
    /\ WriteTable(SubSeq(Cells(table.records), 1, n))
    /\ harmed' = (harmed \/ n \notin {0, Len(Cells(table.records))})

\* The process dies, or its opening is rejected by an error that nothing but
\* recoverWrapper catches (opening a file, builder.add, readdir, unlink): the
\* files are left as they are.
Crash ==
  /\ phase \in {"opening", "open"}
  /\ CountFailure
  /\ pc = "point" => "current" \in Faults
  /\ LoseMemory
  /\ IF pc = "build" THEN LeaveTable ELSE UNCHANGED <<tables, harmed>>
  /\ UNCHANGED <<current, manifests, logs, acked>>

\* LogReader.iterator fails an assertion, on the descriptor or on a log.
ReaderThrows ==
  /\ "reader" \in Faults
  /\ \/ pc = "read" /\ current \in DOMAIN manifests
     \/ pc = "replay" /\ replay # <<>> /\ logs[Head(replay)] # <<>>
  /\ phase' = "unread"
  /\ pc' = "idle"
  /\ UNCHANGED <<directory, vs, memory, work, bgError, history>>

\* recoverLogFile ignores the status of writeLevel0Table: the second harmful
\* event.
RecoveryBuildFails ==
  /\ CountFailure
  /\ "replay" \in Faults
  /\ phase = "opening" /\ pc = "build"
  /\ \/ UNCHANGED tables
     \/ \E n \in Written : WriteTable(SubSeq(Cells(table.records), 1, n))
  /\ vs' = Replayed(vs, Head(replay))
  /\ replay' = Tail(replay)
  /\ pc' = "replay"
  /\ harmed' = TRUE
  /\ UNCHANGED <<current, manifests, logs, phase, memory, edit, table, trash,
                 bgError, acked>>

\* The file cannot be opened, or builder.finish fails: compactMemTable records a
\* background error.
FlushBuildFails ==
  /\ CountFailure
  /\ "flush" \in Faults
  /\ phase = "open" /\ pc = "build"
  /\ LeaveTable \/ UNCHANGED <<tables, harmed>>
  /\ bgError' = TRUE
  /\ pc' = "idle"
  /\ UNCHANGED <<current, manifests, logs, phase, vs, memory, work, acked>>

\* builder.add rejects, or the opening of the descriptor, readdir or unlink: so
\* does compactMemTable.  No error is recorded, and background work stays
\* scheduled.
BackgroundThrows ==
  /\ CountFailure
  /\ "throw" \in Faults
  /\ phase = "open" /\ pc \in {"build", "snapshot", "list", "unlink"}
  /\ IF pc = "build" THEN LeaveTable ELSE UNCHANGED <<tables, harmed>>
  /\ pc' = "thrown"
  /\ UNCHANGED <<current, manifests, logs, phase, vs, memory, work, bgError, acked>>

\* logAndApply fails: it unlinks the descriptor that it appended to, also when
\* CURRENT is truncated already.  The opening is given up and counts as a crash;
\* background work records the error, and as the descriptor was the one in use
\* this is the third harmful event.
UnlinkDescriptor ==
  /\ "descriptor" \in Faults
  /\ pc \in {"snapshot", "edit", "truncate", "point"} /\ edit # NoEdit
  /\ manifests' = Without(manifests, vs.manifest)
  /\ UNCHANGED <<current, logs, tables, acked>>

OpeningFails ==
  /\ CountFailure
  /\ phase = "opening"
  /\ UnlinkDescriptor
  /\ LoseMemory
  /\ UNCHANGED harmed

\* Mutant of ApplyFails: the immutable memtable is dropped all the same.
ApplyFailsDropping ==
  /\ CountFailure
  /\ phase = "open"
  /\ UnlinkDescriptor
  /\ bgError' = TRUE
  /\ pc' = "idle"
  /\ imm' = <<>>
  /\ harmed' = TRUE
  /\ UNCHANGED <<phase, vs, logFile, mem, inflight, work>>

ApplyFails ==
  /\ CountFailure
  /\ phase = "open"
  /\ UnlinkDescriptor
  /\ bgError' = TRUE
  /\ pc' = "idle"
  /\ harmed' = TRUE
  /\ UNCHANGED <<phase, vs, memory, work>>

\* Nothing has to happen.
Rest ==
  /\ phase \in {"open", "corrupt", "unread"}
  /\ UNCHANGED vars

Opening == Open \/ InitDescriptor \/ ReadFails \/ ReadDescriptor \/ SkipLog
             \/ ReplayLog \/ RecoveredTable \/ NewLog \/ InitCurrent
Flushing == StartFlush \/ FlushedTable
Applying == WriteSnapshot \/ WriteEdit \/ TruncateCurrent \/ Install
              \/ ListFiles \/ Unlink \/ Cleaned
Writing == AppendLog \/ Insert \/ Rotate
Failing == Crash \/ ReaderThrows \/ RecoveryBuildFails \/ FlushBuildFails
             \/ BackgroundThrows \/ OpeningFails \/ ApplyFails

Next == Opening \/ Flushing \/ Applying \/ Writing \/ Failing \/ Rest

Spec == Init /\ [][Next]_vars

\* The process is restarted after a crash, and file operations end.
FairSpec ==
  /\ Spec
  /\ WF_vars(Opening) /\ WF_vars(Flushing) /\ WF_vars(Applying)

-----------------------------------------------------------------------------
(***************************************************************************)
(* Properties.                                                             *)
(***************************************************************************)

FileSets == SUBSET [number : Nat, level : 0..2]
Edits == [adds : FileSets, meta : BOOLEAN, log : Nat, next : Nat, last : Nat]
VersionSets == [files : FileSets, next : Nat, manifest : Nat, log : Nat,
                last : Nat]
CellSet == [kind : {"record", "index", "footer"}, val : Nat]
IsFiles(files, S) ==
  DOMAIN files \subseteq Nat /\ \A n \in DOMAIN files : files[n] \in Seq(S)

TypeOK ==
  /\ current \in Nat \cup {Torn}
  /\ IsFiles(manifests, Edits) /\ IsFiles(logs, Nat) /\ IsFiles(tables, CellSet)
  /\ phase \in {"down", "opening", "open", "corrupt", "unread"}
  /\ pc \in {"idle", "init", "read", "replay", "build", "snapshot", "edit",
             "truncate", "point", "list", "unlink", "thrown"}
  /\ vs \in VersionSets
  /\ logFile \in Nat /\ mem \in Seq(Nat) /\ imm \in Seq(Nat)
  /\ inflight \in BOOLEAN /\ bgError \in BOOLEAN /\ harmed \in BOOLEAN
  /\ edit \in Edits
  /\ table \in [number : Nat, records : Seq(Nat)]
  /\ replay \in Seq(Nat)
  /\ acked \subseteq Nat /\ failures \in Nat

\* The records that get() could reach.
FileContents(f) ==
  IF f.number \in DOMAIN tables THEN Contents(tables[f.number]) ELSE {}
Visible ==
  ToSet(mem) \cup ToSet(imm) \cup UNION {FileContents(f) : f \in vs.files}

\* Database.get and Version.get ask one source after the other: the memtables,
\* level 0 with the newest file first, then the deeper levels.
Newer(f, g) == \/ f.level < g.level
               \/ f.level = g.level /\ f.number > g.number
FirstFound(files) ==
  CHOOSE f \in files : \A g \in files : g = f \/ Newer(f, g)
Largest(S) == CHOOSE r \in S : \A x \in S : x <= r

\* The newest record of the first source that has one.
Answer ==
  LET found == {f \in vs.files : FileContents(f) # {}} IN
  CASE mem # <<>> -> Largest(ToSet(mem))
    [] mem = <<>> /\ imm # <<>> -> Largest(ToSet(imm))
    [] mem = <<>> /\ imm = <<>> /\ found # {} ->
         Largest(FileContents(FirstFound(found)))
    [] OTHER -> 0

\* "If it is just the process that crashes, no writes will be lost": whenever
\* the database is open all acknowledged records are there, and the directory
\* never gets into a state in which it cannot be opened.  (No run checks this,
\* it is refuted: each conjunct of NoWriteLost excuses what does.)
WritesSurvive ==
  /\ phase = "open" => acked \subseteq Visible
  /\ phase \in {"corrupt", "unread"} => acked = {}

\* After any crashes and errors, unless one of the four harmful events happened
\* (part of a table was left, the table of a log was not written, an edit of an
\* open database was not written, logs were replayed out of order): an opening
\* that succeeds brings back every acknowledged record, and one that misses a
\* file or an edit does so because CURRENT was left empty.  Two ways to refuse
\* are excused, an empty CURRENT and a reader that throws; to open without a
\* record that was acknowledged is not, after these either.
NoWriteLost ==
  harmed \/ /\ phase = "open" => acked \subseteq Visible
            /\ phase = "corrupt" => current = Torn

\* get() answers a record no older than the newest acknowledged one, whatever
\* was replayed, flushed and placed at deeper levels before.
NewestWins == phase = "open" /\ ~harmed => \A r \in acked : r <= Answer

\* No sequence number is used twice: after opening, the next one is beyond
\* every record that came back.
SequencesFresh == phase = "open" => \A r \in Visible : r <= vs.last

\* No log is reused: a log that is taken into use did not exist.
LogsFresh == [][logFile' # logFile /\ logFile' # 0
                  => logFile' \notin DOMAIN logs]_vars

\* What is needed after a crash is on disk at any time: the descriptor that
\* CURRENT names, its tables, and each acknowledged record in one of these or
\* in a log that this descriptor does not make obsolete.
DiskCovers ==
  current > 0 /\ ~harmed =>
    /\ Readable
    /\ \A r \in acked :
         \/ \E f \in Files(manifests[current]) : r \in Contents(tables[f.number])
         \/ \E n \in DOMAIN logs : n >= Meta(manifests[current]).log /\ r \in ToSet(logs[n])

\* As long as the process lives, what a reader can see stays visible to it:
\* while a memtable becomes a table, while files are deleted, and when either
\* fails.
ReadersKeep ==
  [][phase = "open" /\ phase' = "open" /\ ~harmed => Visible \subseteq Visible']_vars

\* After a crash the database comes up again, however often the opening itself
\* was cut off, unless it says that it cannot (CURRENT was left empty, or the
\* reader throws) or one of the four harmful events happened.
Reopens ==
  phase = "down" ~> phase = "open" \/ current = Torn \/ phase = "unread" \/ harmed

\* A memtable that was switched off is flushed, unless an error was recorded,
\* which stops all background work, or background work was rejected and stays
\* scheduled for ever.
FlushEnds == imm # <<>> ~> imm = <<>> \/ bgError \/ pc = "thrown"
=============================================================================
