----------------------------- MODULE Background -----------------------------
(***************************************************************************)
(* The background work of a database and who does it.  There are no         *)
(* threads: the call that finds something to do in maybeScheduleCompaction  *)
(* does it itself (backgroundCall), and others that come in between find    *)
(* _backgroundCompactionScheduled set.  Calls are the one that opens the    *)
(* database, calls of write() that need a new memtable, and calls of        *)
(* compactRange(), which begin with such a write.                          *)
(*                                                                         *)
(* A level is the number of its files; which of them a compaction takes,    *)
(* how many it writes, and how many a manual range covers is arbitrary.     *)
(* Code between two awaits is one step.                                    *)
(***************************************************************************)
EXTENDS Naturals, FiniteSets

CONSTANTS
  Opener, Writers, Compactors,  \* calls: recoverWrapper, write, compactRange
  Idle,        \* no call
  Last,        \* the last level, kNumLevels - 1
  Trigger,     \* kL0CompactionTrigger
  Slowdown,    \* kL0SlowdownWritesTrigger
  Stop,        \* kL0StopWritesTrigger
  Room,        \* files that a level above 0 may have
  MaxFiles,    \* bound: files of a level at the beginning
  Concurrent,  \* calls are made while others are not finished
  Fails,       \* file operations fail with a status
  Throws       \* and reject promises that nobody catches

ASSUME BackgroundAssumption ==
  /\ Idle \notin Writers \cup Compactors \cup {Opener}
  /\ Opener \notin Writers \cup Compactors
  /\ Last \in Nat \ {0} /\ Trigger \in Nat \ {0} /\ Room \in Nat \ {0}
  /\ Slowdown \in Nat /\ Stop \in Nat /\ Trigger <= Stop /\ MaxFiles \in Nat
  /\ {Concurrent, Fails, Throws} \subseteq BOOLEAN

Calls  == Writers \cup Compactors \cup {Opener}
Levels == 0..Last

VARIABLES
  files,      \* the number of files at each level of the current version
  full,       \* the memtable is larger than writeBufferSize
  imm,        \* there is an immutable memtable
  bgError,    \* _bgError is set
  scheduled,  \* _backgroundCompactionScheduled
  manual,     \* the call whose request _manualCompaction is
  pc,         \* where each call is
  back,       \* where it goes on after maybeScheduleCompaction
  job,        \* the background work that it is doing
  force,      \* its makeRoomForWrite is forced
  allowDelay, \* and may be delayed
  level, end, \* the level that compactRange is at, and where it stops
  done        \* its request is done

store    == <<files, full, imm, bgError>>
requests == <<level, end, done>>
room     == <<force, allowDelay>>
vars == <<store, scheduled, manual, pc, back, job, room, requests>>

Work(kind, l, n, m) == [kind |-> kind, level |-> l, n |-> n, m |-> m]
NoWork == Work("none", 0, 0, 0)
Kinds  == {"none", "flush", "flushed", "merge", "move", "nothing", "applied",
           "failed", "concluded"}
Places == {"idle", "queued", "room", "delay", "log", "working", "loop",
           "spinning", "returned", "rejected"}

\* The last run of the program may have left any number of files.
Init ==
  /\ files \in [Levels -> 0..MaxFiles]
  /\ full \in BOOLEAN /\ imm = FALSE /\ bgError = FALSE
  /\ scheduled = FALSE /\ manual = Idle
  /\ pc = [c \in Calls |-> "idle"] /\ back = [c \in Calls |-> "idle"]
  /\ job = [c \in Calls |-> NoWork]
  /\ force = [c \in Calls |-> FALSE] /\ allowDelay = [c \in Calls |-> FALSE]
  /\ level = [c \in Calls |-> 0] /\ end = [c \in Calls |-> 0]
  /\ done = [c \in Calls |-> FALSE]

\* No call loops without awaiting anything.
EventLoopFree == \A c \in Calls : pc[c] # "spinning"

At(c, place) == EventLoopFree /\ pc[c] = place
Goto(c, place) == pc' = [pc EXCEPT ![c] = place]
Finished(c) == pc[c] \in {"returned", "rejected"}

-----------------------------------------------------------------------------
(***************************************************************************)
(* maybeScheduleCompaction.  These operators speak of the next state: what  *)
(* precedes the call in the same step is done when the decision is made.    *)
(***************************************************************************)

\* A level with a compaction score of at least 1.  The limit of the last
\* level, a terabyte, is taken to be out of reach.
Over(f, l) == IF l = 0 THEN f[0] >= Trigger ELSE l < Last /\ f[l] >= Room

\* _versionSet.needsCompaction()
Needs(f) == \E l \in Levels : Over(f, l)

\* n files of level l are merged with m of the next level.  A single file may
\* be moved instead, unless there is a manual request.
Compactions(f, l) ==
  {Work("merge", l, n, m) : n \in 1..f[l], m \in 0..f[l + 1]}
    \cup {Work("move", l, n, 0) : n \in IF manual' = Idle THEN {1} ELSE {}}

\* pickCompaction: some files of a level that is over its limit.
Picked(f) == UNION {Compactions(f, l) : l \in {k \in Levels : Over(f, k)}}

\* VersionSet.compactRange: files in the range of the request, if any.
Requested(f, l) == {Work("nothing", l, 0, 0)} \cup Compactions(f, l)

\* backgroundCompaction of call c up to its first await.
Begin(c) ==
  IF ~imm' /\ manual' # Idle
  THEN \E w \in Requested(files', level[manual']) :
         /\ job' = [job EXCEPT ![c] = w]
         /\ done' = [done EXCEPT ![manual'] = (w.kind = "nothing")]
  ELSE \E w \in IF imm' THEN {Work("flush", 0, 0, 0)} ELSE Picked(files') :
         /\ job' = [job EXCEPT ![c] = w]
         /\ done' = done

HasWork == imm' \/ manual' # Idle \/ Needs(files')

\* Mutant of Schedule: the flag is not looked at.
ScheduleAgain(c, busy, place) ==
  /\ back' = [back EXCEPT ![c] = place]
  /\ \/ /\ ~bgError' /\ HasWork
        /\ scheduled' = TRUE
        /\ Begin(c)
        /\ Goto(c, "working")
     \/ /\ bgError' \/ ~HasWork
        /\ scheduled' = busy
        /\ job' = [job EXCEPT ![c] = NoWork]
        /\ Goto(c, place)
        /\ UNCHANGED done

\* Call c does what is to be done, and goes on at place when there is nothing
\* more.
Schedule(c, busy, place) ==
  /\ back' = [back EXCEPT ![c] = place]
  /\ \/ /\ ~busy /\ ~bgError' /\ HasWork
        /\ scheduled' = TRUE
        /\ Begin(c)
        /\ Goto(c, "working")
     \/ /\ busy \/ bgError' \/ ~HasWork
        /\ scheduled' = busy
        /\ job' = [job EXCEPT ![c] = NoWork]
        /\ Goto(c, place)
        /\ UNCHANGED done

-----------------------------------------------------------------------------
(***************************************************************************)
(* Calls.                                                                  *)
(***************************************************************************)

\* recoverWrapper; every other call waits for it.
Open ==
  /\ pc[Opener] = "idle"
  /\ UNCHANGED <<store, manual, room, level, end>>
  /\ Schedule(Opener, scheduled, "returned")

\* compactRange looks for the deepest level with files in its range: level 1 if
\* there is none, but level 0, and then nothing is compacted, if it is level 0.
Call(c) ==
  /\ At(c, "idle") /\ c # Opener /\ pc[Opener] = "returned"
  /\ Concurrent \/ \A d \in Calls : pc[d] = "idle" \/ Finished(d)
  /\ IF c \in Compactors
     THEN \E l \in {1} \cup {k \in Levels : files[k] > 0} :
            end' = [end EXCEPT ![c] = l]
     ELSE UNCHANGED end
  /\ force' = [force EXCEPT ![c] = c \in Compactors]
  /\ allowDelay' = [allowDelay EXCEPT ![c] = c \notin Compactors]
  /\ Goto(c, "queued")
  /\ UNCHANGED <<store, scheduled, manual, back, job, level, done>>

\* The writer at the front of the queue.  One that is rejected stays there.
Leads(c) ==
  \/ pc[c] \in {"room", "delay", "log"}
  \/ pc[c] \in {"working", "rejected"} /\ back[c] = "room"

Lead(c) ==
  /\ At(c, "queued") /\ \A d \in Calls : ~Leads(d)
  /\ Goto(c, "room")
  /\ UNCHANGED <<store, scheduled, manual, back, job, room, requests>>

\* The branches of makeRoomForWrite.
DelayDue(c) == allowDelay[c] /\ files[0] >= Slowdown
HasRoom(c)  == ~force[c] /\ ~full
Blocked     == imm \/ files[0] >= Stop

\* write() ends: with an error it resolves all the same.
EndWrite(c) == Goto(c, IF end[c] > 0 THEN "loop" ELSE "returned")

RoomError(c) ==
  /\ At(c, "room") /\ bgError
  /\ EndWrite(c)
  /\ UNCHANGED <<store, scheduled, manual, back, job, room, requests>>

Delay(c) ==
  /\ At(c, "room") /\ ~bgError /\ DelayDue(c)
  /\ allowDelay' = [allowDelay EXCEPT ![c] = FALSE]
  /\ Goto(c, "delay")
  /\ UNCHANGED <<store, scheduled, manual, back, job, force, requests>>

DelayEnds(c) ==
  /\ At(c, "delay")
  /\ Goto(c, "room")
  /\ UNCHANGED <<store, scheduled, manual, back, job, room, requests>>

\* A batch may fill the memtable.
Write(c) ==
  /\ At(c, "room") /\ ~bgError /\ ~DelayDue(c) /\ HasRoom(c)
  /\ full' \in IF c \in Compactors THEN {full} ELSE BOOLEAN
  /\ EndWrite(c)
  /\ UNCHANGED <<files, imm, bgError, scheduled, manual, back, job, room, requests>>

RoomSpin(c) ==
  /\ At(c, "room") /\ ~bgError /\ ~DelayDue(c) /\ ~HasRoom(c) /\ Blocked
  /\ Goto(c, "spinning")
  /\ UNCHANGED <<store, scheduled, manual, back, job, room, requests>>

\* The old log is closed and a new one is opened,
NewLog(c) ==
  /\ At(c, "room") /\ ~bgError /\ ~DelayDue(c) /\ ~HasRoom(c) /\ ~Blocked
  /\ Goto(c, "log")
  /\ UNCHANGED <<store, scheduled, manual, back, job, room, requests>>

\* and the memtable is switched.
Switch(c) ==
  /\ At(c, "log")
  /\ imm' = TRUE /\ full' = FALSE
  /\ force' = [force EXCEPT ![c] = FALSE]
  /\ UNCHANGED <<files, bgError, manual, allowDelay, level, end>>
  /\ Schedule(c, scheduled, "room")

\* manualCompactRangeWithLevel: the request is put up,
Request(c) ==
  /\ At(c, "loop") /\ ~done[c] /\ manual = Idle
  /\ manual' = c
  /\ UNCHANGED <<store, room, level, end>>
  /\ Schedule(c, scheduled, "loop")

\* or there is one, and the loop goes round,
LoopSpin(c) ==
  /\ At(c, "loop") /\ ~done[c] /\ manual # Idle
  /\ Goto(c, "spinning")
  /\ UNCHANGED <<store, scheduled, manual, back, job, room, requests>>

\* Mutant of NextLevel: an own request that is still up stays.
NextLevelUncancelled(c) ==
  /\ At(c, "loop") /\ done[c]
  /\ UNCHANGED manual
  /\ level' = [level EXCEPT ![c] = @ + 1]
  /\ done' = [done EXCEPT ![c] = FALSE]
  /\ Goto(c, IF level[c] + 1 < end[c] THEN "loop" ELSE "returned")
  /\ UNCHANGED <<store, scheduled, back, job, room, end>>

\* or it is done; a request that is still up is taken back.
NextLevel(c) ==
  /\ At(c, "loop") /\ done[c]
  /\ manual' = IF manual = c THEN Idle ELSE manual
  /\ level' = [level EXCEPT ![c] = @ + 1]
  /\ done' = [done EXCEPT ![c] = FALSE]
  /\ Goto(c, IF level[c] + 1 < end[c] THEN "loop" ELSE "returned")
  /\ UNCHANGED <<store, scheduled, back, job, room, end>>

-----------------------------------------------------------------------------
(***************************************************************************)
(* Background work.                                                        *)
(***************************************************************************)

Doing(c, kinds) == At(c, "working") /\ job[c].kind \in kinds
Becomes(c, kind) == job' = [job EXCEPT ![c].kind = kind]

\* compactMemTable, also between two entries of a merge.  The table goes to
\* one of the first levels; of an empty memtable there is none.
Flush(c) ==
  /\ Doing(c, {"flush", "merge"}) /\ imm
  /\ \/ \E l \in 0..(IF Last < 2 THEN Last ELSE 2) : files' = [files EXCEPT ![l] = @ + 1]
     \/ UNCHANGED files
  /\ imm' = FALSE
  /\ Becomes(c, IF job[c].kind = "flush" THEN "flushed" ELSE "merge")
  /\ UNCHANGED <<full, bgError, scheduled, manual, pc, back, room, requests>>

FlushFails(c) ==
  /\ Fails
  /\ Doing(c, {"flush", "merge"}) /\ imm
  /\ bgError' = TRUE
  /\ Becomes(c, IF job[c].kind = "flush" THEN "flushed" ELSE "merge")
  /\ UNCHANGED <<files, full, imm, scheduled, manual, pc, back, room, requests>>

\* Mutant of Replaced: the inputs are deleted from each other's level.
ReplacedSwapped(w, k) ==
  [files EXCEPT ![w.level] = @ - w.m, ![w.level + 1] = @ - w.n + k]

\* k files replace the n and m that were merged.
Replaced(w, k) == [files EXCEPT ![w.level] = @ - w.n, ![w.level + 1] = @ - w.m + k]

\* doCompactionWork.
Merge(c) ==
  /\ Doing(c, {"merge"})
  /\ \E k \in 0..job[c].n + job[c].m : files' = Replaced(job[c], k)
  /\ Becomes(c, "applied")
  /\ UNCHANGED <<full, imm, bgError, scheduled, manual, pc, back, room, requests>>

MergeFails(c) ==
  /\ Fails
  /\ Doing(c, {"merge"})
  /\ bgError' = TRUE
  /\ Becomes(c, "applied")
  /\ UNCHANGED <<files, full, imm, scheduled, manual, pc, back, room, requests>>

\* A trivial move.
Move(c) ==
  /\ Doing(c, {"move"})
  /\ files' = Replaced(job[c], 1)
  /\ Becomes(c, "applied")
  /\ UNCHANGED <<full, imm, bgError, scheduled, manual, pc, back, room, requests>>

MoveFails(c) ==
  /\ Fails
  /\ Doing(c, {"move"})
  /\ Becomes(c, "failed")
  /\ UNCHANGED <<store, scheduled, manual, pc, back, room, requests>>

\* The end of backgroundCompaction: the request that there is now goes, be it
\* the one that was worked on or not.
Conclude(c) ==
  /\ Doing(c, {"applied", "failed", "nothing"})
  /\ done' = IF manual # Idle /\ job[c].kind = "failed"
             THEN [done EXCEPT ![manual] = TRUE] ELSE done
  /\ manual' = Idle
  /\ Becomes(c, "concluded")
  /\ UNCHANGED <<store, scheduled, pc, back, room, level, end>>

\* Mutants of EndWork: the flag stays, nobody looks for more work.
EndWorkScheduled(c) ==
  /\ Doing(c, {"flushed", "concluded"})
  /\ UNCHANGED <<store, manual, room, level, end>>
  /\ Schedule(c, TRUE, back[c])
EndWorkAtOnce(c) ==
  /\ Doing(c, {"flushed", "concluded"})
  /\ scheduled' = FALSE
  /\ job' = [job EXCEPT ![c] = NoWork]
  /\ Goto(c, back[c])
  /\ UNCHANGED <<store, manual, back, room, requests>>

\* The end of backgroundCall: the flag is reset and what there is now is done.
EndWork(c) ==
  /\ Doing(c, {"flushed", "concluded"})
  /\ UNCHANGED <<store, manual, room, level, end>>
  /\ Schedule(c, FALSE, back[c])

\* A file operation rejects and nothing catches it, in the work or, when it has
\* been applied, in deleteObsoleteFiles: the flag stays.
WorkThrows(c) ==
  /\ Throws
  /\ Doing(c, {"flush", "flushed", "merge", "move", "applied"})
  /\ job' = [job EXCEPT ![c] = NoWork]
  /\ Goto(c, "rejected")
  /\ UNCHANGED <<store, scheduled, manual, back, room, requests>>

NewLogThrows(c) ==
  /\ Throws
  /\ At(c, "log")
  /\ back' = [back EXCEPT ![c] = "room"]
  /\ Goto(c, "rejected")
  /\ UNCHANGED <<store, scheduled, manual, job, room, requests>>

Step(c) ==
  \/ Lead(c) \/ RoomError(c) \/ Delay(c) \/ DelayEnds(c) \/ Write(c)
  \/ RoomSpin(c) \/ NewLog(c) \/ Switch(c)
  \/ Request(c) \/ LoopSpin(c) \/ NextLevel(c)
  \/ Flush(c) \/ Merge(c) \/ Move(c) \/ Conclude(c) \/ EndWork(c)

Failure(c) ==
  FlushFails(c) \/ MergeFails(c) \/ MoveFails(c) \/ WorkThrows(c) \/ NewLogThrows(c)

Next == Open \/ \E c \in Calls : Call(c) \/ Step(c) \/ Failure(c)

Spec == Init /\ [][Next]_vars

\* The event loop runs what can go on, and file operations end.
FairSpec == Spec /\ WF_vars(Open) /\ \A c \in Calls : WF_vars(Step(c))

-----------------------------------------------------------------------------
(***************************************************************************)
(* Properties.                                                             *)
(***************************************************************************)

TypeOK ==
  /\ files \in [Levels -> Nat]
  /\ {full, imm, bgError, scheduled} \subseteq BOOLEAN
  /\ manual \in Compactors \cup {Idle}
  /\ pc \in [Calls -> Places] /\ back \in [Calls -> Places]
  /\ job \in [Calls -> [kind : Kinds, level : Levels, n : Nat, m : Nat]]
  /\ force \in [Calls -> BOOLEAN] /\ allowDelay \in [Calls -> BOOLEAN]
  /\ level \in [Calls -> Nat] /\ end \in [Calls -> Levels]
  /\ done \in [Calls -> BOOLEAN]

\* The flag excludes: at most one call does background work, only while the
\* flag is set, and the flag is set for no other reason than that, unless an
\* exception ended the work.  Two workers would compact the same files.
OneWorker ==
  /\ \A c, d \in Calls : pc[c] = "working" /\ pc[d] = "working" => c = d
  /\ \A c \in Calls : pc[c] = "working" => scheduled
  /\ scheduled => \E c \in Calls : pc[c] \in {"working", "rejected"}

\* What a compaction has picked is still there when it is applied, whatever
\* was flushed meanwhile.
InputsLive ==
  \A c \in Calls : job[c].kind \in {"merge", "move"} =>
    job[c].n <= files[job[c].level] /\ job[c].m <= files[job[c].level + 1]

\* No background work is forgotten: if a memtable is to be flushed, a level is
\* over its limit or a request is up, somebody is working, or an error or an
\* exception has put an end to background work.
NothingForgotten ==
  pc[Opener] # "idle" /\ (imm \/ manual # Idle \/ Needs(files))
    => scheduled \/ bgError

\* A request that is up belongs to a call that still waits for it.
RequestsOwned == manual # Idle => pc[manual] # "returned"

\* "Running either my compaction or another compaction", "Current memtable
\* full; waiting...": waiting gives way to what is waited for.
NeverSpins == EventLoopFree

\* The loops without an await are not entered for the call's own sake: there
\* was an error, or another call is working or was rejected while working.
SpinsForOthers ==
  \A c \in Calls : pc[c] = "spinning" =>
    bgError \/ \E d \in Calls \ {c} : pc[d] \in {"working", "rejected"}

\* Every call that is made returns, and background work comes to an end, unless
\* the event loop hangs, or an error or an exception got in between, or trivial
\* moves fail again and again: such a failure is not remembered and the move is
\* repeated at once.
Stuck == bgError \/ \E c \in Calls : pc[c] \in {"spinning", "rejected"}
Quiet == /\ \A c \in Calls : pc[c] \in {"idle", "returned"}
         /\ ~imm /\ ~Needs(files) /\ ~scheduled
MovesKeepFailing == []<>(\E c \in Calls : job[c].kind = "failed")
Settles == MovesKeepFailing \/ <>[](Stuck \/ Quiet)
=============================================================================
