----------------------------- MODULE WriteQueue -----------------------------
(***************************************************************************)
(* The write path of the database: Database.write, buildBatchGroup,        *)
(* makeRoomForWrite, the queue of waiting writers and the memtable flush   *)
(* that lets a log file be forgotten.                                      *)
(*                                                                         *)
(* JavaScript runs one task at a time and switches only where the code     *)
(* awaits, so an action is a stretch of code between two awaits.  pc[w]    *)
(* names the await (or the loop head next to one) at which call w is       *)
(* suspended:                                                              *)
(*   idle        not called yet                                            *)
(*   queued      `await writer.wait()`                                     *)
(*   room        head of the loop of makeRoomForWrite                      *)
(*   rotating    closing the full log and opening the next one             *)
(*   compacting  `await this.maybeScheduleCompaction()`                    *)
(*   building    makeRoomForWrite answered ok, buildBatchGroup running     *)
(*   logging     `await this._log.addRecord(...)`                          *)
(*   spinning    in the branches of makeRoomForWrite that loop without     *)
(*               awaiting: the event loop never runs another task          *)
(*   returned    the promise of the call resolved                          *)
(*   rejected    the promise of the call rejected                          *)
(*                                                                         *)
(* An update weighs one byte, so Count[w] is both the number of updates    *)
(* of a batch and its byte size.  Log files are numbered 1, 2, ... in the  *)
(* order in which they were opened.                                        *)
(***************************************************************************)
EXTENDS Integers, Sequences, FiniteSets

CONSTANTS
  Writers,         \* the calls of write(), each made once
  Forced,          \* those without a batch: write() of manualCompactMemTable
  Count,           \* updates in the batch of each call
  Limit,           \* 128 << 10: what may be added to a small first batch
  MaxGroup,        \* 1 << 20: the size of a group led by a large batch
  BufferSize,      \* options.writeBufferSize
  BackgroundBusy,  \* another call may be running background work
  MayFail          \* files may answer with errors

ASSUME WriteQueueAssumption ==
  /\ Writers # {}
  /\ Forced \subseteq Writers
  /\ Count \in [Writers -> Nat]
  /\ Limit \in Nat
  /\ MaxGroup \in Nat
  /\ BufferSize \in Nat
  /\ BackgroundBusy \in BOOLEAN
  /\ MayFail \in BOOLEAN

VARIABLES
  queue,         \* WriterQueue.list
  pc,            \* where each call is suspended
  done,          \* the writers whose `done` is set
  signalled,     \* the waiting writers whose promise has been resolved
  force,         \* the local `force` of each call of makeRoomForWrite
  group,         \* lastWriter, batch and lastSequence ("after"), locals of the
                 \* leading call
  tmpCount,      \* the number of updates in this.tmpBatch
  logs,          \* the log files, each a sequence of records
  logOpen,       \* this._log is set
  logNumber,     \* versionSet.logNumber: older logs are obsolete
  mem,           \* records inserted in this._memtable
  imm,           \* records of this._immtable
  hasImm,        \* this._immtable is set
  memSize,       \* this._memtable.size
  tables,        \* records that were flushed to tables
  lastSequence,  \* versionSet.lastSequence
  bgError,       \* this._bgError is set
  dropped        \* history: calls resolved without being applied

queueVars == <<queue, done, signalled>>
logVars   == <<logs, logOpen, logNumber>>
memVars   == <<mem, imm, hasImm, memSize, tables>>
batchVars == <<group, tmpCount>>
vars == <<queueVars, pc, force, batchVars, logVars, memVars, lastSequence,
          bgError, dropped>>

Records == [first : Nat, last : Nat, batches : Seq(Writers)]
Groups  == [last : Writers, batches : Seq(Writers), size : Nat, max : Nat,
            after : Nat]

Leading == {"room", "rotating", "compacting", "building", "logging"}
Places  == Leading \cup {"idle", "queued", "spinning", "returned", "rejected"}

Elements(s) == {s[i] : i \in 1..Len(s)}

NoGroup == [last |-> CHOOSE w \in Writers : TRUE, batches |-> <<>>,
            size |-> 0, max |-> 0, after |-> 0]

Init ==
  /\ queue = <<>>
  /\ pc = [w \in Writers |-> "idle"]
  /\ done = {}
  /\ signalled = {}
  /\ force = [w \in Writers |-> w \in Forced]
  /\ group = NoGroup
  /\ tmpCount = 0
  /\ logs = <<(<<>>)>>
  /\ logOpen = TRUE
  /\ logNumber = 1
  /\ mem = <<>>
  /\ imm = <<>>
  /\ hasImm = FALSE
  /\ memSize = 0
  /\ tables = {}
  /\ lastSequence = 0
  /\ bgError = FALSE
  /\ dropped = {}

-----------------------------------------------------------------------------
(***************************************************************************)
(* The event loop and the queue of writers.                                *)
(***************************************************************************)

\* A loop that never awaits keeps every other task from running.
EventLoopFree == \A w \in Writers : pc[w] # "spinning"

\* Call w is suspended at p and its task can be run.
At(w, p) == EventLoopFree /\ pc[w] = p

\* The call moves from one await to another.
Goto(w, p) == pc' = [pc EXCEPT ![w] = p]

\* Writer.signal resolves the promise the writer waits on.
Signal(ws) == signalled' = signalled \cup ws

\* The front writer, as a set: empty when no writer is queued.
Front(q) == IF q = <<>> THEN {} ELSE {q[1]}

\* The position at which popFront meets the last writer of a group.
Position(last) == CHOOSE i \in 1..Len(queue) : queue[i] = last

\* Mutant of Release: the new front is not signalled.
ReleaseNoNewFront(w, last) ==
  LET n      == Position(last)
      others == {queue[i] : i \in 1..n} \ {w}
  IN /\ queue' = SubSeq(queue, n + 1, Len(queue))
     /\ done' = done \cup others
     /\ Signal(others)
     /\ Goto(w, "returned")

\* The loop that ends write(): pop the writers up to `last`, mark and signal
\* each but the leader w, then signal the new front; the call resolves.
Release(w, last) ==
  LET n      == Position(last)
      rest   == SubSeq(queue, n + 1, Len(queue))
      others == {queue[i] : i \in 1..n} \ {w}
  IN /\ queue' = rest
     /\ done' = done \cup others
     /\ Signal(others \cup Front(rest))
     /\ Goto(w, "returned")

\* Mutant of Call: the caller only looks whether a record is being logged.
CallUnlessLogging(w) ==
  /\ At(w, "idle")
  /\ queue' = Append(queue, w)
  /\ Goto(w, IF \A v \in Writers : pc[v] # "logging" THEN "room" ELSE "queued")
  /\ UNCHANGED <<done, signalled, force, batchVars, logVars, memVars,
                 lastSequence, bgError, dropped>>

\* write() is called: the writer joins the queue and leads if it is alone.
Call(w) ==
  /\ At(w, "idle")
  /\ queue' = Append(queue, w)
  /\ Goto(w, IF queue = <<>> THEN "room" ELSE "queued")
  /\ UNCHANGED <<done, signalled, force, batchVars, logVars, memVars,
                 lastSequence, bgError, dropped>>

\* `await writer.wait()` resumes: return when the leader of a group did the
\* work, go on as the leader when this writer is at the front.
Resume(w) ==
  /\ At(w, "queued")
  /\ w \in signalled
  /\ w \in done \/ w \in Front(queue)
  /\ signalled' = signalled \ {w}
  /\ Goto(w, IF w \in done THEN "returned" ELSE "room")
  /\ UNCHANGED <<queue, done, force, batchVars, logVars, memVars,
                 lastSequence, bgError, dropped>>

-----------------------------------------------------------------------------
(***************************************************************************)
(* makeRoomForWrite.  The one-second delay taken while level 0 is long     *)
(* changes nothing here: a call may stay at "room" for any time.           *)
(***************************************************************************)

MemFull(w) == force[w] \/ memSize > BufferSize

\* Mutant of RoomError: everyone in the queue is let go.
RoomErrorForAll(w) ==
  /\ At(w, "room")
  /\ bgError
  /\ dropped' = dropped \cup ({w} \ Forced)
  /\ Release(w, queue[Len(queue)])
  /\ UNCHANGED <<force, batchVars, logVars, memVars, lastSequence, bgError>>

\* `if (this._bgError)`: the call resolves, and its batch goes nowhere.
RoomError(w) ==
  /\ At(w, "room")
  /\ bgError
  /\ dropped' = dropped \cup ({w} \ Forced)
  /\ Release(w, w)
  /\ UNCHANGED <<force, batchVars, logVars, memVars, lastSequence, bgError>>

\* There is room: a call without a batch has nothing left to do.
RoomNoBatch(w) ==
  /\ At(w, "room")
  /\ ~bgError /\ ~MemFull(w)
  /\ w \in Forced
  /\ Release(w, w)
  /\ UNCHANGED <<force, batchVars, logVars, memVars, lastSequence, bgError,
                 dropped>>

\* There is room: lastSequence is read, and buildBatchGroup starts from the batch
\* of the leader.
RoomAvailable(w) ==
  /\ At(w, "room")
  /\ ~bgError /\ ~MemFull(w)
  /\ w \notin Forced
  /\ group' = [last |-> w, batches |-> <<w>>, size |-> Count[w],
               max |-> IF Count[w] <= Limit THEN Count[w] + Limit ELSE MaxGroup,
               after |-> lastSequence]
  /\ Goto(w, "building")
  /\ UNCHANGED <<queueVars, force, tmpCount, logVars, memVars, lastSequence,
                 bgError, dropped>>

\* The memtable is full and the previous one is still being written: the
\* branch says "waiting..." and loops without awaiting.
RoomSpin(w) ==
  /\ At(w, "room")
  /\ ~bgError /\ MemFull(w)
  /\ hasImm
  /\ Goto(w, "spinning")
  /\ UNCHANGED <<queueVars, force, batchVars, logVars, memVars, lastSequence,
                 bgError, dropped>>

\* The memtable is full: close its log file and open the next one.
RoomRotate(w) ==
  /\ At(w, "room")
  /\ ~bgError /\ MemFull(w)
  /\ ~hasImm
  /\ logOpen' = FALSE
  /\ Goto(w, "rotating")
  /\ UNCHANGED <<queueVars, force, batchVars, logs, logNumber, memVars,
                 lastSequence, bgError, dropped>>

\* The new log is open: the full memtable becomes the immutable one.
Rotated(w) ==
  /\ At(w, "rotating")
  /\ logs' = Append(logs, <<>>)
  /\ logOpen' = TRUE
  /\ imm' = mem
  /\ hasImm' = TRUE
  /\ mem' = <<>>
  /\ memSize' = 0
  /\ force' = [force EXCEPT ![w] = FALSE]
  /\ Goto(w, "compacting")
  /\ UNCHANGED <<queueVars, batchVars, logNumber, tables, lastSequence,
                 bgError, dropped>>

\* maybeScheduleCompaction answers.  It runs the background work itself, and
\* so ends with the flush done or failed, unless another call is running it.
Scheduled(w) ==
  /\ At(w, "compacting")
  /\ BackgroundBusy \/ ~hasImm \/ bgError
  /\ Goto(w, "room")
  /\ UNCHANGED <<queueVars, force, batchVars, logVars, memVars, lastSequence,
                 bgError, dropped>>

-----------------------------------------------------------------------------
(***************************************************************************)
(* buildBatchGroup, and the rest of write().  The loop over the queue is   *)
(* one task in the code; taking it writer by writer adds only calls that   *)
(* join the end of the queue meanwhile, as they might have done before.    *)
(***************************************************************************)

\* The writers behind the last one of the group.
Behind == SubSeq(queue, Position(group.last) + 1, Len(queue))

TooBig(w) == w \notin Forced /\ group.size + Count[w] > group.max

\* The loop takes the next writer in: its batch goes to tmpBatch, behind the
\* first batch when it is the second; a writer without a batch just rides.
Absorb(w) ==
  /\ At(w, "building")
  /\ Behind # <<>>
  /\ LET next == Behind[1] IN
       /\ ~TooBig(next)
       /\ group' =
            [last    |-> next,
             batches |-> IF next \in Forced THEN group.batches
                         ELSE Append(group.batches, next),
             size    |-> group.size + IF next \in Forced THEN 0 ELSE Count[next],
             max     |-> group.max,
             after   |-> group.after]
       /\ tmpCount' = IF next \in Forced THEN tmpCount
                      ELSE tmpCount + Count[next] +
                             IF Len(group.batches) = 1 THEN group.size ELSE 0
  /\ UNCHANGED <<queueVars, pc, force, logVars, memVars, lastSequence,
                 bgError, dropped>>

\* Mutant of Seal: lastWriter moves on before the size is checked.
SealPastTooBig(w) ==
  /\ At(w, "building")
  /\ Behind # <<>> => TooBig(Behind[1])
  /\ group' = [group EXCEPT !.last = IF Behind = <<>> THEN @ ELSE Behind[1]]
  /\ Goto(w, "logging")
  /\ UNCHANGED <<queueVars, force, tmpCount, logVars, memVars, lastSequence,
                 bgError, dropped>>

\* The loop ends: the group goes to the log.
Seal(w) ==
  /\ At(w, "building")
  /\ Behind # <<>> => TooBig(Behind[1])
  /\ Goto(w, "logging")
  /\ UNCHANGED <<queueVars, force, batchVars, logVars, memVars, lastSequence,
                 bgError, dropped>>

\* What the leader appends to the log: setSequence writes the number after the
\* lastSequence that was read before the group was built.
GroupRecord == [first   |-> group.after + 1,
                last    |-> group.after + group.size,
                batches |-> group.batches]

\* The record as the last one of the open log file.
Logged(r) == [logs EXCEPT ![Len(logs)] = Append(@, r)]

\* Mutant of Commit: the record does not reach the log.
CommitUnlogged(w) ==
  /\ At(w, "logging")
  /\ mem' = Append(mem, GroupRecord)
  /\ memSize' = memSize + group.size
  /\ lastSequence' = group.after + group.size
  /\ group' = NoGroup
  /\ tmpCount' = 0
  /\ Release(w, group.last)
  /\ UNCHANGED <<force, logs, logOpen, logNumber, imm, hasImm, tables,
                 bgError, dropped>>

\* Mutant of Commit: lastSequence counts the batches, not their updates.
CommitCountsBatches(w) ==
  /\ At(w, "logging")
  /\ logs' = Logged(GroupRecord)
  /\ mem' = Append(mem, GroupRecord)
  /\ memSize' = memSize + group.size
  /\ lastSequence' = group.after + Len(group.batches)
  /\ group' = NoGroup
  /\ tmpCount' = 0
  /\ Release(w, group.last)
  /\ UNCHANGED <<force, logOpen, logNumber, imm, hasImm, tables,
                 bgError, dropped>>

\* addRecord resolves: insert in the memtable, publish the sequence number that
\* was counted up before the append, let the group go.
Commit(w) ==
  /\ At(w, "logging")
  /\ logs' = Logged(GroupRecord)
  /\ mem' = Append(mem, GroupRecord)
  /\ memSize' = memSize + group.size
  /\ lastSequence' = group.after + group.size
  /\ group' = NoGroup
  /\ tmpCount' = 0
  /\ Release(w, group.last)
  /\ UNCHANGED <<force, logOpen, logNumber, imm, hasImm, tables,
                 bgError, dropped>>

-----------------------------------------------------------------------------
(***************************************************************************)
(* Failures.  A file operation that throws rejects the leading call, which *)
(* leaves without popping the queue or clearing tmpBatch.                  *)
(***************************************************************************)

\* open() of the next log throws; LogWriter.close never does.
RotateFails(w) ==
  /\ MayFail
  /\ At(w, "rotating")
  /\ Goto(w, "rejected")
  /\ UNCHANGED <<queueVars, force, batchVars, logVars, memVars, lastSequence,
                 bgError, dropped>>

\* The background work that the call awaits throws.
BackgroundThrows(w) ==
  /\ MayFail
  /\ At(w, "compacting")
  /\ Goto(w, "rejected")
  /\ UNCHANGED <<queueVars, force, batchVars, logVars, memVars, lastSequence,
                 bgError, dropped>>

\* Mutant of LogFails: the queue is released although the write failed.
LogFailsReleasing(w) ==
  /\ MayFail
  /\ At(w, "logging")
  /\ queue' = SubSeq(queue, 2, Len(queue))
  /\ Signal(Front(SubSeq(queue, 2, Len(queue))))
  /\ Goto(w, "rejected")
  /\ UNCHANGED <<done, force, batchVars, logVars, memVars,
                 lastSequence, bgError, dropped>>

\* addRecord throws: the record may be in the file or not.
LogFails(w) ==
  /\ MayFail
  /\ At(w, "logging")
  /\ logs' \in {logs, Logged(GroupRecord)}
  /\ Goto(w, "rejected")
  /\ UNCHANGED <<queueVars, force, batchVars, logOpen, logNumber, memVars,
                 lastSequence, bgError, dropped>>

-----------------------------------------------------------------------------
(***************************************************************************)
(* Background work, as far as the write path sees it.                      *)
(***************************************************************************)

BackgroundRuns ==
  /\ EventLoopFree
  /\ BackgroundBusy \/ \E w \in Writers : pc[w] = "compacting"

\* compactMemTable: the immutable memtable becomes a table, and the logs
\* before the current one are forgotten with the same edit.
FlushImm ==
  /\ BackgroundRuns
  /\ hasImm /\ ~bgError
  /\ tables' = tables \cup Elements(imm)
  /\ logNumber' = Len(logs)
  /\ imm' = <<>>
  /\ hasImm' = FALSE
  /\ UNCHANGED <<queueVars, pc, force, batchVars, logs, logOpen, mem, memSize,
                 lastSequence, bgError, dropped>>

\* recordBackgroundError.
BackgroundFails ==
  /\ BackgroundRuns
  /\ MayFail /\ ~bgError
  /\ bgError' = TRUE
  /\ UNCHANGED <<queueVars, pc, force, batchVars, logVars, memVars,
                 lastSequence, dropped>>

\* Every call returned: there is nothing left to run.
Terminated ==
  /\ \A w \in Writers : pc[w] = "returned"
  /\ UNCHANGED vars

\* The steps of a call once it was made.
Step(w) ==
  \/ Resume(w)
  \/ RoomError(w) \/ RoomNoBatch(w) \/ RoomAvailable(w)
  \/ RoomSpin(w) \/ RoomRotate(w) \/ Rotated(w) \/ Scheduled(w)
  \/ Absorb(w) \/ Seal(w) \/ Commit(w)
  \/ RotateFails(w) \/ BackgroundThrows(w) \/ LogFails(w)

Next ==
  \/ \E w \in Writers : Call(w) \/ Step(w)
  \/ FlushImm
  \/ BackgroundFails
  \/ Terminated

Spec == Init /\ [][Next]_vars

(***************************************************************************)
(* Fairness: the event loop runs every task that is ready, and a file      *)
(* operation ends, with an answer or an error.  Nothing forces a call.     *)
(***************************************************************************)
FairSpec ==
  /\ Spec
  /\ \A w \in Writers : WF_vars(Step(w))
  /\ WF_vars(FlushImm)

-----------------------------------------------------------------------------
(***************************************************************************)
(* Properties.                                                             *)
(***************************************************************************)

TypeOK ==
  /\ queue \in Seq(Writers)
  /\ pc \in [Writers -> Places]
  /\ done \subseteq Writers
  /\ signalled \subseteq Writers
  /\ force \in [Writers -> BOOLEAN]
  /\ group \in Groups
  /\ tmpCount \in Nat
  /\ logs \in Seq(Seq(Records))
  /\ logOpen \in BOOLEAN
  /\ logNumber \in 1..Len(logs)
  /\ mem \in Seq(Records)
  /\ imm \in Seq(Records)
  /\ hasImm \in BOOLEAN
  /\ memSize \in Nat
  /\ tables \subseteq Records
  /\ lastSequence \in Nat
  /\ bgError \in BOOLEAN
  /\ dropped \subseteq Writers

\* The records that a reader can find in a memtable or a table.
Committed == Elements(mem) \cup Elements(imm) \cup tables

\* Only the writer at the front of the queue is past the wait of write(), so
\* makeRoomForWrite, the log and the memtable have one user at a time, and
\* what that user awaits on is still there when it resumes.
OneLeader ==
  /\ \A w \in Writers :
       pc[w] \in Leading \cup {"spinning", "rejected"} => w \in Front(queue)
  /\ \A w \in Writers : pc[w] \in {"building", "logging"} => logOpen

\* No wake-up is lost and none is wasted: a popped writer that still waits
\* was signalled, the writer at the front is running, failed or signalled,
\* and whoever is signalled can leave the wait.
WakeUps ==
  /\ \A w \in Writers : pc[w] = "queued" /\ w \in done => w \in signalled
  /\ \A w \in Front(queue) : pc[w] = "queued" => w \in signalled
  /\ \A w \in signalled : pc[w] = "queued" /\ (w \in done \/ w \in Front(queue))

\* Every record that is only in memory is in a log file that recovery will
\* read: the memtable and the log are changed together, and a log is given
\* up only with the memtable that it covers.
Recoverable ==
  /\ Elements(mem) \subseteq Elements(logs[Len(logs)])
  /\ \A r \in Elements(imm) :
       \E k \in logNumber..Len(logs) : r \in Elements(logs[k])

\* The committed records use each sequence number up to lastSequence once.
SequencesExact ==
  /\ UNION {r.first..r.last : r \in Committed} = 1..lastSequence
  /\ \A r, s \in Committed : r # s => (r.first..r.last) \cap (s.first..s.last) = {}

\* A call that resolved was applied, in one record, unless a background error
\* made write() resolve without applying it; a dropped call is in no record.
AckMeansApplied ==
  /\ \A w \in Writers \ (Forced \cup dropped) : pc[w] = "returned" =>
       \E r \in Committed : w \in Elements(r.batches)
  /\ \A r, s \in Committed : r # s => Elements(r.batches) \cap Elements(s.batches) = {}
  /\ dropped # {} => bgError
  /\ \A r \in Committed : dropped \cap Elements(r.batches) = {}

\* Once a leader was rejected the log, the memtable and the sequence number
\* stay: nothing is written behind a record that may be torn.
NothingAfterFailure ==
  [][(\E w \in Writers : pc[w] = "rejected")
       => UNCHANGED <<logs, mem, lastSequence, dropped>>]_vars

\* The event loop never enters the loops of makeRoomForWrite that do not
\* await.
NeverSpins == EventLoopFree

\* Every call returns, unless a leader was rejected, which leaves the queue as
\* it is, or the event loop hangs.
Stuck == \E w \in Writers : pc[w] \in {"rejected", "spinning"}
EveryCallReturns ==
  \A w \in Writers : pc[w] # "idle" ~> pc[w] = "returned" \/ Stuck

\* The write path implements AtomicWrites: the order of calls is the order of
\* the queue, and a group is applied in the step that publishes its sequence
\* number.
Atomic == INSTANCE AtomicWrites WITH
  Calls   <- Writers,
  NoBatch <- Forced,
  called  <- {w \in Writers : pc[w] # "idle"},
  waiting <- queue,
  applied <- UNION {Elements(r.batches) : r \in Committed},
  lost    <- dropped,
  acked   <- {w \in Writers : pc[w] = "returned"},
  failed  <- {w \in Writers : pc[w] = "rejected"}

ImplementsAtomicWrites == Atomic!Spec
=============================================================================
