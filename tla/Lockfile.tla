------------------------------ MODULE Lockfile ------------------------------
(***************************************************************************)
(* The lock file of a database directory, and the databases that open and   *)
(* close it, each in a process of its own.  An owner writes the file again  *)
(* at an interval; a file that was not written for long enough is taken     *)
(* over; who waits too long gives up.  Nothing in the file says whose it is.*)
(*                                                                         *)
(* Time is counted in ticks, and only how long ago something was is kept.   *)
(* Any number of ticks may pass before a call or a timer goes on: the event *)
(* loop may be blocked, and file operations may be slow.                    *)
(***************************************************************************)
EXTENDS Naturals

CONSTANTS
  Processes,
  Stale,    \* options.lockfileStale
  Half,     \* stale / 2, the interval of the timers
  Margin    \* the 1000 ms that are added to it

ASSUME LockfileAssumption ==
  Stale \in Nat /\ Half \in Nat \ {0} /\ Half <= Stale /\ Margin \in Nat

VARIABLES
  exists,   \* the lock file is there
  age,      \* and was written so many ticks ago
  pc,       \* where each database is: in lock(), open ("own"), closed
  seen,     \* the age, by now, of the file time that waitUntilExpire read
  waited,   \* how long it has been in waitUntilExpire
  timer,    \* when its timer fires
  interval, \* the databases whose refreshLockTimer is set
  writing,  \* those with a writeSomething of the interval under way
  closer,   \* how far the close() of each is
  harmed    \* something has happened that the lock does not stand

lockFile == <<exists, age>>
timers   == <<timer, interval, writing>>
lockVars == <<lockFile, pc, seen, waited, timers, closer, harmed>>

Limit == Stale + Margin         \* a file older than this has expired
Patience == 2 * Stale + Margin  \* who has waited longer gives up

LockInit ==
  /\ exists = FALSE /\ age = 0
  /\ pc = [p \in Processes |-> "out"]
  /\ seen = [p \in Processes |-> 0] /\ waited = [p \in Processes |-> 0]
  /\ timer = [p \in Processes |-> 0] /\ interval = {} /\ writing = {}
  /\ closer = [p \in Processes |-> "no"]
  /\ harmed = FALSE

\* The databases that have the directory open, and those of them that still
\* see to their lock file: close() has not taken it away from them.
Owners == {p \in Processes : pc[p] = "own"}
Holders == {p \in Owners : p \in interval /\ closer[p] # "unlinked"}

Goto(p, state) == pc' = [pc EXCEPT ![p] = state]

-----------------------------------------------------------------------------
(* lock().                                                                 *)

Lock(p) == pc[p] = "out" /\ Goto(p, "check")
           /\ UNCHANGED <<lockFile, seen, waited, timers, closer, harmed>>

\* It finds that it may write the file, by what it found when it looked.  Others
\* may have found the same and not written it yet, the file may have been written
\* again since, and a database that has unlocked may still be open.
Enter(p, again) ==
  /\ Goto(p, "write")
  /\ harmed' = (harmed \/ again \/ (\E q \in Processes \ {p} : pc[q] = "write")
                       \/ Owners \ Holders # {})

\* waitUntilOk: there is no file; it is opened, and waited for; it cannot be
\* opened or closed.
Check(p) ==
  /\ pc[p] = "check"
  /\ \/ ~exists /\ Enter(p, FALSE)
     \/ exists /\ Goto(p, "poll") /\ UNCHANGED harmed
     \/ Goto(p, "failed") /\ UNCHANGED harmed
  /\ UNCHANGED <<lockFile, seen, waited, timers, closer>>

Leave(p) == /\ Goto(p, "failed")
            /\ waited' = [waited EXCEPT ![p] = 0]

\* waitUntilExpire, each stretch up to an await a step.  The file is opened and
\* its time is read.
ReadTime(p) ==
  /\ pc[p] = "poll" /\ timer[p] = 0 /\ exists
  /\ seen' = [seen EXCEPT ![p] = age]
  /\ Goto(p, "judge")
  /\ UNCHANGED <<lockFile, waited, timers, closer, harmed>>

\* fstat fails, and no time is looked at.
StatFails(p) ==
  /\ pc[p] = "poll" /\ timer[p] = 0 /\ exists
  /\ Goto(p, "close")
  /\ UNCHANGED <<lockFile, seen, waited, timers, closer, harmed>>

\* A file that has gone or cannot be opened ends the wait.
OpenFails(p) ==
  /\ pc[p] = "poll" /\ timer[p] = 0
  /\ Leave(p)
  /\ UNCHANGED <<lockFile, seen, timers, closer, harmed>>

\* Mutant: only the margin is waited for.
ExpiredAtMargin(p) == seen[p] > Margin
Expired(p) == seen[p] > Limit

\* The time that was read is compared with the clock; the file may have been
\* written again since.
Judge(p) ==
  /\ pc[p] = "judge"
  /\ seen' = [seen EXCEPT ![p] = 0]
  /\ \/ /\ Expired(p)
        /\ Enter(p, exists /\ age < seen[p])
        /\ waited' = [waited EXCEPT ![p] = 0]
     \/ ~Expired(p) /\ Goto(p, "close") /\ UNCHANGED <<waited, harmed>>
  /\ UNCHANGED <<lockFile, timers, closer>>

\* Mutant: it never gives up.
GivesUpNever(p) == FALSE
GivesUp(p) == waited[p] > Patience

\* The file is closed; only then the wait is found too long.
CloseFile(p) ==
  /\ pc[p] = "close"
  /\ \/ GivesUp(p) /\ Leave(p) /\ UNCHANGED timer
     \/ /\ ~GivesUp(p)
        /\ Goto(p, "poll")
        /\ timer' = [timer EXCEPT ![p] = Half]
        /\ UNCHANGED waited
  /\ UNCHANGED <<lockFile, seen, interval, writing, closer, harmed>>

\* close(2) fails.
CloseFails(p) ==
  /\ pc[p] \in {"judge", "close"}
  /\ Leave(p)
  /\ seen' = [seen EXCEPT ![p] = 0]
  /\ UNCHANGED <<lockFile, timers, closer, harmed>>

StartInterval(p) ==
  /\ timer' = [timer EXCEPT ![p] = Half]
  /\ interval' = interval \cup {p}

\* writeSomething, and setInterval.
Acquire(p) ==
  /\ pc[p] = "write" /\ Goto(p, "own")
  /\ exists' = TRUE /\ age' = 0
  /\ StartInterval(p)
  /\ UNCHANGED <<seen, waited, writing, closer, harmed>>

\* Its errors are ignored: lock() returns, and the database is opened.
AcquireFails(p) ==
  /\ pc[p] = "write" /\ Goto(p, "own")
  /\ StartInterval(p)
  /\ harmed' = TRUE
  /\ UNCHANGED <<lockFile, seen, waited, writing, closer>>

\* The interval calls writeSomething.  (One that starts before the last has
\* ended is taken to end with it.)
Refresh(p) ==
  /\ p \in interval /\ timer[p] = 0
  /\ timer' = [timer EXCEPT ![p] = Half]
  /\ writing' = writing \cup {p}
  /\ UNCHANGED <<lockFile, pc, seen, waited, interval, closer, harmed>>

\* The file is written, also when close() has cleared the interval meanwhile;
\* or an error is ignored.
Refreshed(p) ==
  /\ p \in writing
  /\ writing' = writing \ {p}
  /\ \/ exists' = TRUE /\ age' = 0
     \/ UNCHANGED lockFile
  /\ UNCHANGED <<pc, seen, waited, timer, interval, closer, harmed>>

-----------------------------------------------------------------------------
(* close(), exits and crashes.                                             *)

\* The file is removed whoever wrote it.
RemoveFile(p) ==
  /\ exists' = FALSE /\ age' = 0
  /\ harmed' = (harmed \/ Owners \ {p} # {})

\* unlock(), as the first thing that close() does, wherever lock() is.
Unlink(p) ==
  /\ pc[p] \notin {"out", "dead"} /\ closer[p] = "no"
  /\ closer' = [closer EXCEPT ![p] = "unlinked"]
  /\ RemoveFile(p)
  /\ UNCHANGED <<pc, seen, waited, timers>>

ClearInterval(p) ==
  /\ closer[p] = "unlinked"
  /\ closer' = [closer EXCEPT ![p] = "cleared"]
  /\ interval' = interval \ {p}
  /\ timer' = IF p \in interval THEN [timer EXCEPT ![p] = 0] ELSE timer
  /\ UNCHANGED <<lockFile, pc, seen, waited, writing, harmed>>

\* The log and the tables are closed.  A database that is still being opened
\* goes on, and opens others.
CloseFiles(p) ==
  /\ closer[p] = "cleared"
  /\ closer' = [closer EXCEPT ![p] = "no"]
  /\ \/ pc[p] = "own" /\ Goto(p, "closed")
     \/ UNCHANGED pc
  /\ UNCHANGED <<lockFile, seen, waited, timers, harmed>>

\* The process is gone.
Vanish(p) ==
  /\ pc[p] \notin {"out", "dead"} /\ Goto(p, "dead")
  /\ seen' = [seen EXCEPT ![p] = 0] /\ waited' = [waited EXCEPT ![p] = 0]
  /\ timer' = [timer EXCEPT ![p] = 0]
  /\ interval' = interval \ {p} /\ writing' = writing \ {p}
  /\ closer' = [closer EXCEPT ![p] = "no"]

\* It exits, and its handler removes the file; or it is killed.
Exit(p) == Vanish(p) /\ RemoveFile(p)
Kill(p) == Vanish(p) /\ UNCHANGED <<lockFile, harmed>>

\* A new process in its place.
Restart(p) == pc[p] = "dead" /\ Goto(p, "out")
              /\ UNCHANGED <<lockFile, seen, waited, timers, closer, harmed>>

-----------------------------------------------------------------------------
Later(n, limit) == IF n > limit THEN n ELSE n + 1
Sooner(n) == IF n = 0 THEN 0 ELSE n - 1

\* A tick passes.  An owner may let its file expire.
Tick ==
  /\ age' = IF exists THEN Later(age, Limit) ELSE 0
  /\ seen' = [p \in Processes |->
                IF pc[p] = "judge" THEN Later(seen[p], Limit) ELSE seen[p]]
  /\ waited' = [p \in Processes |->
                  IF pc[p] \in {"poll", "judge", "close"}
                  THEN Later(waited[p], Patience) ELSE waited[p]]
  /\ timer' = [p \in Processes |-> Sooner(timer[p])]
  /\ harmed' = (harmed \/ (Holders # {} /\ age' > Limit))
  /\ UNCHANGED <<exists, pc, interval, writing, closer>>

\* What lock() does when what it awaits has come.
Step(p) == \/ Check(p) \/ ReadTime(p) \/ StatFails(p) \/ OpenFails(p) \/ Judge(p)
           \/ CloseFile(p) \/ CloseFails(p) \/ Acquire(p) \/ AcquireFails(p)

LockNext ==
  \/ \E p \in Processes :
       \/ Lock(p) \/ Step(p) \/ Refresh(p) \/ Refreshed(p)
       \/ Unlink(p) \/ ClearInterval(p) \/ CloseFiles(p)
       \/ Exit(p) \/ Kill(p) \/ Restart(p)
  \/ Tick

\* Time passes, and calls that can go on do.
Fairness == WF_lockVars(Tick) /\ \A p \in Processes : WF_lockVars(Step(p))
LockSpec == LockInit /\ [][LockNext]_lockVars /\ Fairness

-----------------------------------------------------------------------------
(* What is checked.                                                        *)

States == {"out", "check", "poll", "judge", "close", "write", "own", "failed",
           "closed", "dead"}

\* The types; times are kept only while they matter.
TypeOK ==
  /\ exists \in BOOLEAN /\ age \in 0..(Limit + 1)
  /\ pc \in [Processes -> States]
  /\ seen \in [Processes -> 0..(Limit + 1)]
  /\ waited \in [Processes -> 0..(Patience + 1)]
  /\ timer \in [Processes -> 0..Half]
  /\ interval \subseteq Processes /\ writing \subseteq Processes
  /\ closer \in [Processes -> {"no", "unlinked", "cleared"}]
  /\ \A p \in Processes :
       /\ seen[p] # 0 => pc[p] = "judge"
       /\ waited[p] # 0 => pc[p] \in {"poll", "judge", "close"}
       /\ timer[p] # 0 => pc[p] = "poll" \/ p \in interval
       /\ p \in interval \cup writing => pc[p] \in {"own", "closed"}
  /\ harmed \in BOOLEAN

\* Two databases have one directory open at the same time, from before the
\* first file is read to after the last one is closed, only after one of six
\* things: two processes both found the lock free before either wrote it; an
\* owner let its file expire; a waiter judged an old file time when the file
\* had been written again; a lock file could not be written; a database removed
\* the file of another when it was closed or its process exited; the lock was
\* taken from a database that had unlocked it and was still open.
Exclusive == \A p, q \in Owners : p = q \/ harmed

\* Every lock() is answered.
Answered == \A p \in Processes :
  (pc[p] \in {"check", "poll", "judge", "close", "write"}) ~>
    (pc[p] \notin {"check", "poll", "judge", "close", "write"})
=============================================================================
