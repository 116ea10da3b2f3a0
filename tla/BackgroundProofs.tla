-------------------------- MODULE BackgroundProofs --------------------------
(***************************************************************************)
(* Proofs about Background, for any calls, levels and triggers, with        *)
(* concurrent calls, failures and exceptions or without.                   *)
(***************************************************************************)
EXTENDS Background, TLAPS

-----------------------------------------------------------------------------
(***************************************************************************)
(* The inductive invariant.                                                *)
(***************************************************************************)

\* A call that has not come to the loop over the levels yet, and one that is in
\* it or will be back there after some background work.
Ready(c)   == \/ pc[c] \in {"idle", "queued", "room", "delay", "log"}
              \/ pc[c] = "working" /\ back[c] = "room"
Ranging(c) == \/ pc[c] = "loop"
              \/ pc[c] = "working" /\ back[c] = "loop"

PlaceInv ==
  \A c \in Calls :
    /\ Ready(c) => level[c] = 0
    /\ Ranging(c) => level[c] < end[c]
    /\ end[c] > 0 => c \in Compactors
    /\ pc[c] = "working" => back[c] \in {"room", "loop", "returned"}

\* The request that is up is for a level above the last one, and its call is
\* in the loop, or will never go on.
ManualInv ==
  manual # Idle =>
    /\ level[manual] < end[manual]
    /\ Ranging(manual) \/ pc[manual] \in {"spinning", "rejected"}

\* Only a call that is working has work, and the work is what files allow.
WorkOK(w, f) ==
  /\ w \in [kind : Kinds, level : Levels, n : Nat, m : Nat]
  /\ w.kind \in {"merge", "move"} =>
       w.level < Last /\ w.n <= f[w.level] /\ w.m <= f[w.level + 1]

JobInv ==
  \A c \in Calls : WorkOK(job[c], files) /\ (pc[c] # "working" => job[c].kind = "none")

IInv ==
  /\ TypeOK /\ OneWorker /\ NothingForgotten
  /\ PlaceInv /\ ManualInv /\ JobInv

-----------------------------------------------------------------------------
(***************************************************************************)
(* Scheduling.                                                             *)
(***************************************************************************)

\* The next level of a level that is not the last one is a level.
LEMMA NextLevelIsLevel ==
  ASSUME NEW l \in Levels, l < Last
  PROVE  l + 1 \in Levels
BY BackgroundAssumption DEF Levels

\* No work is work that files allow.
LEMMA NoWorkOK ==
  ASSUME NEW f, NEW kind \in Kinds \ {"merge", "move"}
  PROVE  WorkOK(Work(kind, 0, 0, 0), f)
<1>1. 0 \in Levels
  BY BackgroundAssumption DEF Levels
<1> QED
  BY <1>1 DEF WorkOK, Work, Kinds

\* What a compaction of a level takes is there; a move is only chosen for a level
\* that has files.
LEMMA CompactionsOK ==
  ASSUME NEW f \in [Levels -> Nat], NEW l \in Levels, l < Last,
         f[l] >= 1 \/ manual' # Idle, NEW w \in Compactions(f, l)
  PROVE  WorkOK(w, f) /\ w.kind \in {"merge", "move"}
<1>1. l + 1 \in Levels /\ f[l] \in Nat /\ f[l + 1] \in Nat
  BY NextLevelIsLevel
<1>2. CASE \E n \in 1..f[l], m \in 0..f[l + 1] : w = Work("merge", l, n, m)
  <2>1. PICK n \in 1..f[l], m \in 0..f[l + 1] : w = Work("merge", l, n, m)
    BY <1>2
  <2>2. n \in Nat /\ m \in Nat /\ n <= f[l] /\ m <= f[l + 1]
    BY <1>1
  <2> QED
    BY <1>1, <2>1, <2>2 DEF WorkOK, Work, Kinds
<1>3. CASE manual' = Idle /\ w = Work("move", l, 1, 0)
  BY <1>1, <1>3 DEF WorkOK, Work, Kinds
<1> QED
  BY <1>2, <1>3 DEF Compactions

\* A level that is over its limit has files and is not the last one.
LEMMA OverHasFiles ==
  ASSUME NEW f \in [Levels -> Nat], NEW l \in Levels, Over(f, l)
  PROVE  l < Last /\ f[l] >= 1
BY BackgroundAssumption DEF Over, Levels

\* What the background work begins with is work that files allow.
LEMMA BeginOK ==
  ASSUME NEW c \in Calls, Begin(c), job \in [Calls -> [kind : Kinds, level : Levels, n : Nat, m : Nat]],
         files' \in [Levels -> Nat], done \in [Calls -> BOOLEAN],
         manual' # Idle => manual' \in Calls /\ level[manual'] \in 0..(Last - 1)
  PROVE  /\ job' = [job EXCEPT ![c] = job'[c]]
         /\ WorkOK(job'[c], files')
         /\ done' \in [Calls -> BOOLEAN]
<1>1. CASE ~imm' /\ manual' # Idle
  <2>1. PICK w \in Requested(files', level[manual']) :
          /\ job' = [job EXCEPT ![c] = w]
          /\ done' = [done EXCEPT ![manual'] = (w.kind = "nothing")]
    BY <1>1 DEF Begin
  <2>2. level[manual'] \in Levels /\ level[manual'] < Last
    BY <1>1, BackgroundAssumption DEF Levels
  <2>3. WorkOK(w, files')
    <3>1. CASE w = Work("nothing", level[manual'], 0, 0)
      BY <2>2, <3>1 DEF WorkOK, Work, Kinds
    <3>2. CASE w \in Compactions(files', level[manual'])
      BY <1>1, <2>2, <3>2, CompactionsOK
    <3> QED
      BY <3>1, <3>2 DEF Requested
  <2>4. (w.kind = "nothing") \in BOOLEAN
    OBVIOUS
  <2>5. done' \in [Calls -> BOOLEAN]
    BY <2>1, <2>4
  <2> QED
    BY <2>1, <2>3, <2>5
<1>2. CASE imm'
  <2>1. job' = [job EXCEPT ![c] = Work("flush", 0, 0, 0)] /\ done' = done
    BY <1>2 DEF Begin
  <2> QED
    BY <2>1, NoWorkOK DEF Kinds
<1>3. CASE ~imm' /\ manual' = Idle
  <2>1. PICK w \in Picked(files') : job' = [job EXCEPT ![c] = w] /\ done' = done
    BY <1>3 DEF Begin
  <2>2. PICK l \in Levels : Over(files', l) /\ w \in Compactions(files', l)
    BY <2>1 DEF Picked
  <2>3. WorkOK(w, files')
    BY <2>2, OverHasFiles, CompactionsOK
  <2> QED
    BY <2>1, <2>3
<1> QED
  BY <1>1, <1>2, <1>3

\* Schedule either begins background work, which it does only when the flag is
\* not set, or goes on, and then there is nothing to do, or it is somebody
\* else's or nobody's.
LEMMA ScheduleDoes ==
  ASSUME NEW c \in Calls, NEW busy \in BOOLEAN, NEW place \in Places,
         Schedule(c, busy, place),
         TypeOK, files' \in [Levels -> Nat],
         manual' # Idle => manual' \in Calls /\ level[manual'] \in 0..(Last - 1)
  PROVE  /\ back' = [back EXCEPT ![c] = place]
         /\ pc' = [pc EXCEPT ![c] = pc'[c]]
         /\ job' = [job EXCEPT ![c] = job'[c]]
         /\ WorkOK(job'[c], files')
         /\ done' \in [Calls -> BOOLEAN]
         /\ \/ pc'[c] = "working" /\ scheduled' = TRUE /\ ~busy
            \/ /\ pc'[c] = place /\ scheduled' = busy /\ job'[c].kind = "none"
               /\ busy \/ bgError' \/ ~HasWork
<1>1. CASE ~busy /\ ~bgError' /\ HasWork /\ scheduled' = TRUE /\ Begin(c) /\ Goto(c, "working")
  <2>1. /\ job' = [job EXCEPT ![c] = job'[c]]
        /\ WorkOK(job'[c], files')
        /\ done' \in [Calls -> BOOLEAN]
    BY <1>1, BeginOK DEF TypeOK
  <2>2. pc' = [pc EXCEPT ![c] = pc'[c]] /\ pc'[c] = "working"
    BY <1>1 DEF Goto, TypeOK
  <2>3. back' = [back EXCEPT ![c] = place]
    BY DEF Schedule
  <2> QED
    BY <1>1, <2>1, <2>2, <2>3
<1>2. CASE /\ busy \/ bgError' \/ ~HasWork
           /\ scheduled' = busy /\ job' = [job EXCEPT ![c] = NoWork]
           /\ Goto(c, place) /\ UNCHANGED done
  <2>1. pc' = [pc EXCEPT ![c] = pc'[c]] /\ pc'[c] = place
    BY <1>2 DEF Goto, TypeOK
  <2>2. job' = [job EXCEPT ![c] = job'[c]] /\ job'[c] = NoWork
    BY <1>2 DEF TypeOK
  <2>3. WorkOK(NoWork, files') /\ NoWork.kind = "none"
    BY NoWorkOK DEF NoWork, Work, Kinds
  <2>4. back' = [back EXCEPT ![c] = place] /\ done' \in [Calls -> BOOLEAN]
    BY <1>2 DEF Schedule, TypeOK
  <2> QED
    BY <1>2, <2>1, <2>2, <2>3, <2>4
<1> QED
  BY <1>1, <1>2 DEF Schedule

-----------------------------------------------------------------------------
(***************************************************************************)
(* The steps.  First those that take a call from one place to another and   *)
(* leave the background work alone.                                        *)
(***************************************************************************)

\* A step of a call that is not working to a place that is not "working".
Walks(c, places) ==
  /\ pc[c] # "working"
  /\ \E p \in places : pc' = [pc EXCEPT ![c] = p]
  /\ UNCHANGED <<files, scheduled, job, bgError, imm>>
  /\ manual' \in {manual, Idle}

LEMMA WalksKeep ==
  ASSUME IInv, NEW c \in Calls, Walks(c, Places \ {"working"}),
         pc[c] \notin {"idle", "rejected"} \/ (c # Opener /\ pc[c] = "idle")
  PROVE  OneWorker' /\ NothingForgotten' /\ JobInv'
<1> USE DEF IInv, TypeOK, Walks
<1>1. PICK p \in Places \ {"working"} : pc' = [pc EXCEPT ![c] = p]
  OBVIOUS
<1>2. \A d \in Calls : pc'[d] = IF d = c THEN p ELSE pc[d]
  BY <1>1
<1>3. \A d \in Calls : pc'[d] = "working" <=> pc[d] = "working"
  BY <1>2
<1>4. OneWorker'
  <2>1. scheduled => \E d \in Calls : pc'[d] \in {"working", "rejected"}
    BY <1>2, <1>3 DEF OneWorker
  <2> QED
    BY <1>3, <2>1 DEF OneWorker
<1>5. NothingForgotten'
  <2>1. pc'[Opener] # "idle" => pc[Opener] # "idle"
    BY <1>2 DEF Calls
  <2> QED
    BY <2>1 DEF NothingForgotten, Needs, Over
<1>6. JobInv'
  BY <1>3 DEF JobInv, WorkOK
<1> QED
  BY <1>4, <1>5, <1>6

\* A step that ends with a decision about background work: of a call that is not
\* working, with the flag as it is, or of the one that is, with the flag reset.
LEMMA SchedulesKeep ==
  ASSUME IInv, NEW c \in Calls, NEW busy \in BOOLEAN,
         NEW place \in Places \ {"working"}, Schedule(c, busy, place),
         \/ busy = scheduled /\ pc[c] \notin {"working", "rejected"}
         \/ busy = FALSE /\ pc[c] = "working",
         UNCHANGED <<files, bgError, level, end>>, imm' \in BOOLEAN,
         manual' \in Compactors \cup {Idle},
         manual' # Idle => level[manual'] < end[manual']
  PROVE  /\ OneWorker' /\ NothingForgotten' /\ JobInv'
         /\ scheduled' \in BOOLEAN /\ done' \in [Calls -> BOOLEAN]
         /\ back' = [back EXCEPT ![c] = place]
         /\ pc' = [pc EXCEPT ![c] = pc'[c]] /\ pc'[c] \in {"working", place}
<1> USE DEF IInv
<1>1. files' \in [Levels -> Nat]
  BY DEF TypeOK
<1>2. manual' # Idle => manual' \in Calls /\ level[manual'] \in 0..(Last - 1)
  <2> SUFFICES ASSUME manual' # Idle
               PROVE  manual' \in Calls /\ level[manual'] \in 0..(Last - 1)
    OBVIOUS
  <2>1. manual' \in Calls
    BY DEF Calls
  <2>2. level[manual'] \in Nat /\ end[manual'] \in 0..Last
    BY <2>1 DEF TypeOK, Levels
  <2> QED
    BY <2>1, <2>2, BackgroundAssumption
<1>3. /\ back' = [back EXCEPT ![c] = place]
      /\ pc' = [pc EXCEPT ![c] = pc'[c]]
      /\ job' = [job EXCEPT ![c] = job'[c]]
      /\ WorkOK(job'[c], files')
      /\ done' \in [Calls -> BOOLEAN]
      /\ \/ pc'[c] = "working" /\ scheduled' = TRUE /\ ~busy
         \/ /\ pc'[c] = place /\ scheduled' = busy /\ job'[c].kind = "none"
            /\ busy \/ bgError' \/ ~HasWork
  BY <1>1, <1>2, ScheduleDoes
<1>4. \A d \in Calls \ {c} : pc'[d] = pc[d] /\ job'[d] = job[d]
  BY <1>3 DEF TypeOK
<1>5. ~busy => \A d \in Calls \ {c} : pc[d] # "working"
  BY DEF OneWorker
<1>6. OneWorker'
  <2>1. CASE pc'[c] = "working" /\ scheduled' = TRUE /\ ~busy
    BY <1>4, <1>5, <2>1 DEF OneWorker
  <2>2. CASE pc'[c] = place /\ scheduled' = busy
    <3>1. busy => \E d \in Calls \ {c} : pc[d] \in {"working", "rejected"}
      BY DEF OneWorker
    <3>2. \A d \in Calls : pc'[d] = "working" => busy
      BY <1>4, <1>5, <2>2
    <3>3. \A d, e \in Calls : pc'[d] = "working" /\ pc'[e] = "working" => d = e
      BY <1>4, <2>2 DEF OneWorker
    <3> QED
      BY <1>4, <2>2, <3>1, <3>2, <3>3 DEF OneWorker
  <2> QED
    BY <1>3, <2>1, <2>2
<1>7. NothingForgotten'
  BY <1>3 DEF NothingForgotten, HasWork
<1>8. JobInv'
  <2>1. \A d \in Calls \ {c} : WorkOK(job'[d], files') /\ (pc'[d] # "working" => job'[d].kind = "none")
    BY <1>4 DEF JobInv, WorkOK
  <2> QED
    BY <1>3, <2>1 DEF JobInv, WorkOK
<1>9. scheduled' \in BOOLEAN
  BY <1>3
<1> QED
  BY <1>3, <1>6, <1>7, <1>8, <1>9

\* A step of the call that is working, which goes on working.
LEMMA WorksKeep ==
  ASSUME IInv, NEW c \in Calls, pc[c] = "working", UNCHANGED <<pc, scheduled>>,
         job' = [job EXCEPT ![c] = job'[c]], WorkOK(job'[c], files')
  PROVE  OneWorker' /\ NothingForgotten' /\ JobInv'
<1> USE DEF IInv
<1>1. OneWorker' /\ scheduled'
  BY DEF OneWorker
<1>2. \A d \in Calls \ {c} : job'[d] = job[d] /\ pc[d] # "working"
  BY DEF OneWorker, TypeOK
<1>3. \A d \in Calls \ {c} : WorkOK(job'[d], files') /\ job'[d].kind = "none"
  BY <1>2 DEF JobInv, WorkOK
<1> QED
  BY <1>1, <1>3 DEF NothingForgotten, JobInv

\* Where a call is, and its request, when nothing else of it changes.
LEMMA PlacesKeep ==
  ASSUME IInv, UNCHANGED <<pc, back, level, end>>, manual' \in {manual, Idle}
  PROVE  PlaceInv' /\ ManualInv'
BY DEF IInv, PlaceInv, ManualInv, Ready, Ranging

LEMMA PlaceMoves ==
  ASSUME IInv, NEW c \in Calls, NEW p \in Places, pc' = [pc EXCEPT ![c] = p],
         \A d \in Calls \ {c} : UNCHANGED <<back[d], level[d], end[d]>>,
         manual' \in {manual, Idle, c},
         Ready(c)' => level'[c] = 0,
         Ranging(c)' => level'[c] < end'[c],
         end'[c] > 0 => c \in Compactors,
         p = "working" => back'[c] \in {"room", "loop", "returned"},
         manual' = c /\ c # Idle =>
           /\ level'[c] < end'[c]
           /\ Ranging(c)' \/ p \in {"spinning", "rejected"}
  PROVE  PlaceInv' /\ ManualInv'
<1> USE DEF IInv
<1>1. pc'[c] = p /\ \A d \in Calls \ {c} : pc'[d] = pc[d]
  BY DEF TypeOK
<1>2. PlaceInv'
  BY <1>1 DEF PlaceInv, Ready, Ranging
<1>3. ManualInv'
  <2>1. manual \in Calls \cup {Idle}
    BY DEF TypeOK, Calls
  <2> QED
    BY <1>1, <2>1 DEF ManualInv, Ranging
<1> QED
  BY <1>2, <1>3

\* What the walking steps of a call do to the invariant.
LEMMA WalkingSteps ==
  ASSUME IInv, NEW c \in Calls,
         \/ Lead(c) \/ RoomError(c) \/ Delay(c) \/ DelayEnds(c) \/ Write(c)
         \/ RoomSpin(c) \/ NewLog(c) \/ LoopSpin(c)
  PROVE  IInv'
<1> DEFINE p == pc'[c]
<1>1. /\ pc' = [pc EXCEPT ![c] = p]
      /\ p \in {"room", "delay", "log", "loop", "spinning", "returned"}
      /\ p \in {"room", "delay", "log"} => level[c] = 0
      /\ p = "loop" => level[c] < end[c]
      /\ pc[c] = "loop" => p = "spinning"
  <2>1. CASE Lead(c)
    <3>1. pc[c] = "queued" /\ pc' = [pc EXCEPT ![c] = "room"]
      BY <2>1 DEF Lead, At, Goto
    <3> QED
      BY <3>1 DEF IInv, TypeOK, PlaceInv, Ready
  <2>2. CASE RoomError(c) \/ Write(c)
    <3>1. pc[c] = "room" /\ pc' = [pc EXCEPT ![c] = IF end[c] > 0 THEN "loop" ELSE "returned"]
      BY <2>2 DEF RoomError, Write, At, EndWrite, Goto
    <3>2. level[c] = 0
      BY <3>1 DEF IInv, PlaceInv, Ready
    <3>3. CASE end[c] > 0
      BY <3>1, <3>2, <3>3 DEF IInv, TypeOK
    <3>4. CASE ~(end[c] > 0)
      BY <3>1, <3>4 DEF IInv, TypeOK
    <3> QED
      BY <3>3, <3>4
  <2>3. CASE Delay(c) \/ DelayEnds(c) \/ NewLog(c)
    <3>1. pc[c] \in {"room", "delay"}
      BY <2>3 DEF Delay, DelayEnds, NewLog, At
    <3>2. \E q \in {"room", "delay", "log"} : pc' = [pc EXCEPT ![c] = q]
      BY <2>3 DEF Delay, DelayEnds, NewLog, Goto
    <3> QED
      BY <3>1, <3>2 DEF IInv, TypeOK, PlaceInv, Ready
  <2>4. CASE RoomSpin(c) \/ LoopSpin(c)
    <3>1. pc' = [pc EXCEPT ![c] = "spinning"]
      BY <2>4 DEF RoomSpin, LoopSpin, Goto
    <3> QED
      BY <3>1 DEF IInv, TypeOK
  <2> QED
    BY <2>1, <2>2, <2>3, <2>4
<1> HIDE DEF p
<1>2. /\ pc[c] \in {"queued", "room", "delay", "loop"}
      /\ UNCHANGED <<files, imm, bgError, scheduled, manual, back, job, requests>>
      /\ full' \in BOOLEAN /\ allowDelay' \in [Calls -> BOOLEAN] /\ UNCHANGED force
  <2>1. full' \in BOOLEAN
    BY DEF Lead, RoomError, Delay, DelayEnds, Write, RoomSpin, NewLog, LoopSpin, store, IInv, TypeOK
  <2>2. allowDelay' \in [Calls -> BOOLEAN] /\ UNCHANGED force
    BY DEF Lead, RoomError, Delay, DelayEnds, Write, RoomSpin, NewLog, LoopSpin, room, IInv, TypeOK
  <2>3. pc[c] \in {"queued", "room", "delay", "loop"}
    BY DEF Lead, RoomError, Delay, DelayEnds, Write, RoomSpin, NewLog, LoopSpin, At
  <2>4. UNCHANGED <<files, imm, bgError, scheduled, manual, back, job, requests>>
    BY DEF Lead, RoomError, Delay, DelayEnds, Write, RoomSpin, NewLog, LoopSpin, store, requests
  <2> QED
    BY <2>1, <2>2, <2>3, <2>4
<1>3. TypeOK'
  BY <1>1, <1>2 DEF IInv, TypeOK, requests, Places
<1>4. OneWorker' /\ NothingForgotten' /\ JobInv'
  <2>1. Walks(c, Places \ {"working"})
    BY <1>1, <1>2 DEF Walks, Places
  <2> QED
    BY <1>2, <2>1, WalksKeep
<1>5. pc'[c] = p /\ p \in Places \ {"working", "idle"}
  BY <1>1 DEF Places, p
<1>6. UNCHANGED <<manual, back, level, end>>
  BY <1>2 DEF requests
<1>7. manual = c => c = Idle \/ (Ranging(c) /\ level[c] < end[c])
  BY <1>2 DEF IInv, ManualInv, Ranging
<1>8. manual = c => p = "spinning" \/ c = Idle
  BY <1>1, <1>2, <1>7 DEF Ranging
<1>9. PlaceInv' /\ ManualInv'
  <2>1. end'[c] > 0 => c \in Compactors
    BY <1>6 DEF IInv, PlaceInv
  <2>2. Ready(c)' => level'[c] = 0
    BY <1>1, <1>5, <1>6 DEF Ready, Places
  <2>3. Ranging(c)' => level'[c] < end'[c]
    BY <1>1, <1>5, <1>6 DEF Ranging
  <2>4. manual' = c /\ c # Idle => level'[c] < end'[c] /\ (Ranging(c)' \/ p \in {"spinning", "rejected"})
    BY <1>5, <1>6, <1>7, <1>8 DEF Ranging
  <2>5. manual' \in {manual, Idle, c} /\ \A d \in Calls \ {c} : UNCHANGED <<back[d], level[d], end[d]>>
    BY <1>6
  <2>6. p # "working" /\ p \in Places
    BY <1>5
  <2> QED
    BY <1>1, <2>1, <2>2, <2>3, <2>4, <2>5, <2>6, PlaceMoves
<1> QED
  BY <1>3, <1>4, <1>9 DEF IInv

\* A call begins.
LEMMA CallStep ==
  ASSUME IInv, NEW c \in Calls, Call(c)
  PROVE  IInv'
<1> USE DEF IInv
<1>1. /\ pc[c] = "idle" /\ c # Opener /\ pc' = [pc EXCEPT ![c] = "queued"]
      /\ UNCHANGED <<files, full, imm, bgError, scheduled, manual, back, job, level, done>>
  BY DEF Call, At, Goto, store
<1>2. /\ \A d \in Calls \ {c} : end'[d] = end[d]
      /\ end' \in [Calls -> Levels]
      /\ end'[c] > 0 => c \in Compactors
  <2>1. CASE c \in Compactors
    <3>1. PICK l \in {1} \cup {k \in Levels : files[k] > 0} : end' = [end EXCEPT ![c] = l]
      BY <2>1 DEF Call
    <3>2. l \in Levels
      BY BackgroundAssumption DEF Levels
    <3> QED
      BY <2>1, <3>1, <3>2 DEF TypeOK
  <2>2. CASE c \notin Compactors
    BY <2>2 DEF Call, TypeOK, PlaceInv
  <2> QED
    BY <2>1, <2>2
<1>3. TypeOK'
  <2>1. force' \in [Calls -> BOOLEAN] /\ allowDelay' \in [Calls -> BOOLEAN]
    BY DEF Call, TypeOK
  <2> QED
    BY <1>1, <1>2, <2>1 DEF TypeOK, Places
<1>4. OneWorker' /\ NothingForgotten' /\ JobInv'
  <2>1. Walks(c, Places \ {"working"})
    BY <1>1 DEF Walks, Places
  <2> QED
    BY <1>1, <2>1, WalksKeep
<1>5. PlaceInv' /\ ManualInv'
  <2>1. pc'[c] = "queued" /\ level'[c] = 0
    BY <1>1 DEF TypeOK, PlaceInv, Ready
  <2>2. manual' # c \/ c = Idle
    BY <1>1 DEF ManualInv, Ranging
  <2> QED
    BY <1>1, <1>2, <2>1, <2>2, PlaceMoves DEF Ready, Ranging, Places
<1> QED
  BY <1>3, <1>4, <1>5

\* The loop goes on with the next level.
LEMMA NextLevelStep ==
  ASSUME IInv, NEW c \in Calls, NextLevel(c)
  PROVE  IInv'
<1> USE DEF IInv
<1> DEFINE p == IF level[c] + 1 < end[c] THEN "loop" ELSE "returned"
<1>1. /\ pc[c] = "loop" /\ pc' = [pc EXCEPT ![c] = p]
      /\ UNCHANGED <<files, full, imm, bgError, scheduled, back, job, room, end>>
      /\ manual' = IF manual = c THEN Idle ELSE manual
      /\ level' = [level EXCEPT ![c] = level[c] + 1]
      /\ done' = [done EXCEPT ![c] = FALSE]
  BY DEF NextLevel, At, Goto, store
<1>2. p \in {"loop", "returned"} /\ p \in Places
  BY DEF Places
<1>3. TypeOK'
  <2>1. level' \in [Calls -> Nat] /\ done' \in [Calls -> BOOLEAN]
    BY <1>1 DEF TypeOK
  <2>2. pc' \in [Calls -> Places] /\ manual' \in Compactors \cup {Idle}
    BY <1>1, <1>2 DEF TypeOK
  <2> QED
    BY <1>1, <2>1, <2>2 DEF TypeOK, room
<1>4. OneWorker' /\ NothingForgotten' /\ JobInv'
  <2>1. Walks(c, Places \ {"working"})
    BY <1>1, <1>2 DEF Walks
  <2> QED
    BY <1>1, <2>1, WalksKeep
<1>5. PlaceInv' /\ ManualInv'
  <2>1. pc'[c] = p /\ level'[c] = level[c] + 1 /\ \A d \in Calls \ {c} : level'[d] = level[d]
    BY <1>1 DEF TypeOK
  <2>2. Ranging(c)' => level'[c] < end'[c]
    BY <1>1, <2>1 DEF Ranging
  <2>3. ~Ready(c)' /\ p # "working" /\ (end'[c] > 0 => c \in Compactors)
    BY <1>1, <1>2, <2>1 DEF Ready, PlaceInv
  <2>4. manual' \in {manual, Idle} /\ (manual' # c \/ c = Idle)
    BY <1>1
  <2> HIDE DEF p
  <2>5. \A d \in Calls \ {c} : UNCHANGED <<back[d], level[d], end[d]>>
    BY <1>1, <2>1
  <2> QED
    BY <1>1, <1>2, <2>2, <2>3, <2>4, <2>5, PlaceMoves
<1> QED
  BY <1>3, <1>4, <1>5

\* The steps that end with a decision about background work.
LEMMA DecidingSteps ==
  ASSUME IInv, NEW c \in Calls,
         \/ c = Opener /\ Open
         \/ Switch(c) \/ Request(c) \/ EndWork(c)
  PROVE  IInv'
<1> USE DEF IInv
<1> DEFINE place == IF c = Opener /\ Open THEN "returned"
                    ELSE IF Switch(c) THEN "room"
                    ELSE IF Request(c) THEN "loop" ELSE back[c]
           busy  == IF (c = Opener /\ Open) \/ Switch(c) \/ Request(c) THEN scheduled ELSE FALSE
<1>1. /\ Schedule(c, busy, place)
      /\ UNCHANGED <<files, bgError, level, end>>
      /\ manual' = IF ~(c = Opener /\ Open) /\ ~Switch(c) /\ Request(c) THEN c ELSE manual
  BY DEF Open, Switch, Request, EndWork, store
<1>2. /\ full' \in BOOLEAN /\ imm' \in BOOLEAN
      /\ force' \in [Calls -> BOOLEAN] /\ allowDelay' \in [Calls -> BOOLEAN]
  BY DEF Open, Switch, Request, EndWork, store, room, TypeOK
<1>3. busy \in BOOLEAN
  BY DEF TypeOK
<1>4. \/ pc[c] = "idle" /\ place = "returned" /\ busy = scheduled /\ manual' = manual
      \/ pc[c] = "log" /\ place = "room" /\ busy = scheduled /\ manual' = manual
      \/ pc[c] = "loop" /\ place = "loop" /\ busy = scheduled /\ manual' = c
      \/ pc[c] = "working" /\ place = back[c] /\ busy = FALSE /\ manual' = manual
  BY DEF Open, Switch, Request, EndWork, At, Doing
<1> HIDE DEF place, busy
<1>5. pc[c] = "working" => back[c] \in {"room", "loop", "returned"}
  BY DEF PlaceInv
<1>6. place \in {"room", "loop", "returned"}
  BY <1>4, <1>5
<1>7. place = "loop" => Ranging(c) /\ level[c] < end[c] /\ c \in Compactors
  <2>1. place = "loop" => Ranging(c)
    BY <1>4 DEF Ranging
  <2>2. Ranging(c) => level[c] < end[c] /\ level[c] \in Nat /\ end[c] \in Nat
    BY DEF PlaceInv, TypeOK, Levels
  <2>3. end[c] > 0 => c \in Compactors
    BY DEF PlaceInv
  <2> QED
    BY <2>1, <2>2, <2>3
<1>8. place = "room" => Ready(c)
  BY <1>4 DEF Ready
<1>9. manual' \in Compactors \cup {Idle} /\ (manual' # Idle => level[manual'] < end[manual'])
  BY <1>4, <1>7 DEF TypeOK, ManualInv
<1>10. place \in Places \ {"working"}
  BY <1>6 DEF Places
<1>11. manual' = c /\ c # Idle => place = "loop"
  BY <1>4, <1>6 DEF ManualInv, Ranging
<1>12. \/ busy = scheduled /\ pc[c] \notin {"working", "rejected"}
       \/ busy = FALSE /\ pc[c] = "working"
  BY <1>4
<1>13. /\ OneWorker' /\ NothingForgotten' /\ JobInv'
       /\ scheduled' \in BOOLEAN /\ done' \in [Calls -> BOOLEAN]
       /\ back' = [back EXCEPT ![c] = place]
       /\ pc' = [pc EXCEPT ![c] = pc'[c]] /\ pc'[c] \in {"working", place}
  BY <1>1, <1>2, <1>3, <1>9, <1>10, <1>12, SchedulesKeep
<1>14. pc'[c] \in Places /\ back'[c] = place
  BY <1>10, <1>13 DEF TypeOK, Places
<1>15. TypeOK'
  <2>1. job' \in [Calls -> [kind : Kinds, level : Levels, n : Nat, m : Nat]]
    <3>1. \A d \in Calls : job'[d] \in [kind : Kinds, level : Levels, n : Nat, m : Nat]
      BY <1>13 DEF JobInv, WorkOK
    <3>2. job' = [job EXCEPT ![c] = job'[c]]
      BY <1>1 DEF Schedule, Begin, TypeOK
    <3> QED
      BY <3>1, <3>2 DEF TypeOK
  <2>2. pc' \in [Calls -> Places] /\ back' \in [Calls -> Places]
    BY <1>10, <1>13, <1>14 DEF TypeOK
  <2> QED
    BY <1>1, <1>2, <1>9, <1>13, <2>1, <2>2 DEF TypeOK
<1>16. PlaceInv' /\ ManualInv'
  <2>1. Ready(c)' => level'[c] = 0
    BY <1>1, <1>6, <1>8, <1>13, <1>14 DEF Ready, PlaceInv
  <2>2. Ranging(c)' => level'[c] < end'[c]
    BY <1>1, <1>6, <1>7, <1>13, <1>14 DEF Ranging
  <2>3. end'[c] > 0 => c \in Compactors
    BY <1>1 DEF PlaceInv
  <2>4. manual' = c /\ c # Idle => level'[c] < end'[c] /\ Ranging(c)'
    BY <1>1, <1>7, <1>11, <1>13, <1>14 DEF Ranging
  <2>5. \A d \in Calls \ {c} : UNCHANGED <<back[d], level[d], end[d]>>
    BY <1>1, <1>13 DEF TypeOK
  <2>6. manual' \in {manual, Idle, c}
    BY <1>4
  <2> QED
    BY <1>6, <1>13, <1>14, <2>1, <2>2, <2>3, <2>4, <2>5, <2>6, PlaceMoves
<1> QED
  BY <1>13, <1>15, <1>16

\* The steps of background work after which the call goes on working.
LEMMA WorkingSteps ==
  ASSUME IInv, NEW c \in Calls,
         \/ Flush(c) \/ FlushFails(c) \/ Merge(c) \/ MergeFails(c)
         \/ Move(c) \/ MoveFails(c) \/ Conclude(c)
  PROVE  IInv'
<1> USE DEF IInv
<1>1. /\ pc[c] = "working"
      /\ UNCHANGED <<full, scheduled, pc, back, force, allowDelay, level, end>>
      /\ imm' \in BOOLEAN /\ bgError' \in BOOLEAN /\ manual' \in {manual, Idle}
  BY DEF Flush, FlushFails, Merge, MergeFails, Move, MoveFails, Conclude,
         Doing, At, store, room, requests, TypeOK
<1>2. job[c] \in [kind : Kinds, level : Levels, n : Nat, m : Nat] /\ WorkOK(job[c], files)
  BY DEF TypeOK, JobInv
<1>3. /\ files' \in [Levels -> Nat]
      /\ \E k \in Kinds : job' = [job EXCEPT ![c].kind = k]
      /\ job'[c].kind \in {"merge", "move"} => \A l \in Levels : files'[l] >= files[l]
  <2>1. CASE Flush(c)
    <3>1. files' = files \/ \E l \in Levels : files' = [files EXCEPT ![l] = files[l] + 1]
      <4>1. 0..(IF Last < 2 THEN Last ELSE 2) \subseteq Levels
        BY BackgroundAssumption DEF Levels
      <4> QED
        BY <2>1, <4>1 DEF Flush
    <3>2. files' \in [Levels -> Nat] /\ \A k \in Levels : files'[k] >= files[k]
      BY <3>1, SMTT(30) DEF TypeOK
    <3>3. \E k \in Kinds : job' = [job EXCEPT ![c].kind = k]
      BY <2>1 DEF Flush, Becomes, Kinds
    <3> QED
      BY <3>2, <3>3
  <2>2. CASE FlushFails(c) \/ MergeFails(c) \/ MoveFails(c) \/ Conclude(c)
    <3>1. files' = files
      BY <2>2 DEF FlushFails, MergeFails, MoveFails, Conclude, store
    <3>2. \E k \in Kinds : job' = [job EXCEPT ![c].kind = k]
      BY <2>2 DEF FlushFails, MergeFails, MoveFails, Conclude, Becomes, Kinds
    <3>3. files' \in [Levels -> Nat] /\ \A l \in Levels : files'[l] >= files[l]
      BY <3>1 DEF TypeOK
    <3> QED
      BY <3>2, <3>3
  <2>3. CASE Merge(c) \/ Move(c)
    <3>1. job' = [job EXCEPT ![c].kind = "applied"] /\ job[c].kind \in {"merge", "move"}
      BY <2>3 DEF Merge, Move, Becomes, Doing
    <3>2. PICK k \in Nat : files' = Replaced(job[c], k)
      <4>1. CASE Merge(c)
        <5>1. job[c].n + job[c].m \in Nat
          BY <1>2
        <5> QED
          BY <4>1, <5>1 DEF Merge
      <4>2. CASE Move(c)
        BY <4>2 DEF Move
      <4> QED
        BY <2>3, <4>1, <4>2
    <3>3. /\ job[c].level \in Levels /\ job[c].level < Last
          /\ job[c].n \in Nat /\ job[c].n <= files[job[c].level]
          /\ job[c].m \in Nat /\ job[c].m <= files[job[c].level + 1]
      BY <1>2, <3>1 DEF WorkOK
    <3>4. files[job[c].level] - job[c].n \in Nat /\ files[job[c].level + 1] - job[c].m + k \in Nat
      BY <3>3, NextLevelIsLevel DEF TypeOK
    <3>5. files' \in [Levels -> Nat]
      <4>1. job[c].level + 1 # job[c].level
        BY <3>3 DEF Levels
      <4> QED
        BY <3>2, <3>3, <3>4, <4>1, NextLevelIsLevel DEF Replaced, TypeOK
    <3>6. job'[c].kind = "applied"
      BY <1>2, <3>1 DEF TypeOK
    <3> QED
      BY <3>1, <3>5, <3>6 DEF Kinds
  <2> QED
    BY <2>1, <2>2, <2>3
<1>4. PICK k \in Kinds : job' = [job EXCEPT ![c].kind = k]
  BY <1>3
<1>5. /\ job' = [job EXCEPT ![c] = job'[c]]
      /\ job'[c] \in [kind : Kinds, level : Levels, n : Nat, m : Nat]
      /\ job'[c].level = job[c].level /\ job'[c].n = job[c].n /\ job'[c].m = job[c].m
      /\ job'[c].kind = k
  BY <1>2, <1>4 DEF TypeOK
<1>6. k \in {"merge", "move"} => k = job[c].kind
  BY <1>5 DEF Flush, FlushFails, Merge, MergeFails, Move, MoveFails, Conclude, Becomes, Doing, TypeOK
<1>7. WorkOK(job'[c], files')
  <2> SUFFICES ASSUME k \in {"merge", "move"}
               PROVE  /\ job[c].level < Last /\ job[c].n <= files'[job[c].level]
                      /\ job[c].m <= files'[job[c].level + 1]
    BY <1>5 DEF WorkOK
  <2>1. /\ job[c].level \in Levels /\ job[c].level < Last
        /\ job[c].n <= files[job[c].level] /\ job[c].m <= files[job[c].level + 1]
    BY <1>2, <1>6 DEF WorkOK
  <2>2. \A l \in Levels : files'[l] >= files[l] /\ files'[l] \in Nat /\ files[l] \in Nat
    BY <1>3, <1>5 DEF TypeOK
  <2>3. job[c].n \in Nat /\ job[c].m \in Nat /\ job[c].level + 1 \in Levels
    BY <1>2, <2>1, NextLevelIsLevel
  <2> QED
    BY <2>1, <2>2, <2>3
<1>8. OneWorker' /\ NothingForgotten' /\ JobInv'
  BY <1>1, <1>5, <1>7, WorksKeep
<1>9. PlaceInv' /\ ManualInv'
  BY <1>1, PlacesKeep
<1>10. TypeOK'
  <2>1. done' \in [Calls -> BOOLEAN]
    BY DEF Flush, FlushFails, Merge, MergeFails, Move, MoveFails, Conclude, requests, TypeOK
  <2>2. job' \in [Calls -> [kind : Kinds, level : Levels, n : Nat, m : Nat]]
    BY <1>5 DEF TypeOK
  <2> QED
    BY <1>1, <1>3, <2>1, <2>2 DEF TypeOK
<1> QED
  BY <1>8, <1>9, <1>10

\* Exceptions.
LEMMA ThrowingSteps ==
  ASSUME IInv, NEW c \in Calls, WorkThrows(c) \/ NewLogThrows(c)
  PROVE  IInv'
<1> USE DEF IInv
<1>1. /\ pc' = [pc EXCEPT ![c] = "rejected"]
      /\ UNCHANGED <<files, full, imm, bgError, scheduled, manual, force, allowDelay, level, end, done>>
  BY DEF WorkThrows, NewLogThrows, Goto, store, room, requests
<1>2. \A d \in Calls : pc'[d] = IF d = c THEN "rejected" ELSE pc[d]
  BY <1>1 DEF TypeOK
<1>3. /\ \A d \in Calls \ {c} : back'[d] = back[d]
      /\ back' \in [Calls -> Places]
  BY DEF WorkThrows, NewLogThrows, TypeOK, Places
<1>4. \/ pc[c] = "working" /\ job' = [job EXCEPT ![c] = NoWork]
      \/ pc[c] = "log" /\ job' = job
  BY DEF WorkThrows, NewLogThrows, Doing, At
<1>5. WorkOK(NoWork, files') /\ NoWork.kind = "none"
  BY NoWorkOK DEF NoWork, Work, Kinds
<1>6. TypeOK'
  <2>1. job' \in [Calls -> [kind : Kinds, level : Levels, n : Nat, m : Nat]]
    BY <1>4, <1>5 DEF TypeOK, WorkOK
  <2> QED
    BY <1>1, <1>3, <2>1 DEF TypeOK, Places
<1>7. OneWorker'
  <2>1. scheduled => \E d \in Calls : pc'[d] \in {"working", "rejected"}
    BY <1>2
  <2> QED
    BY <1>1, <1>2, <2>1 DEF OneWorker
<1>8. NothingForgotten'
  <2>1. pc'[Opener] # "idle" => pc[Opener] # "idle"
    BY <1>2, <1>4 DEF Calls
  <2> QED
    BY <1>1, <2>1 DEF NothingForgotten, Needs, Over
<1>9. JobInv'
  <2>1. \A d \in Calls \ {c} : job'[d] = job[d]
    BY <1>4 DEF TypeOK
  <2>2. WorkOK(job'[c], files') /\ job'[c].kind = "none"
    BY <1>1, <1>4, <1>5 DEF JobInv, TypeOK
  <2> QED
    BY <1>1, <1>2, <2>1, <2>2 DEF JobInv, WorkOK
<1>10. PlaceInv' /\ ManualInv'
  <2>1. ~Ready(c)' /\ ~Ranging(c)' /\ "rejected" \in Places
    BY <1>2 DEF Ready, Ranging, Places
  <2>2. manual = c /\ c # Idle => level[c] < end[c]
    BY DEF ManualInv
  <2>3. end[c] > 0 => c \in Compactors
    BY DEF PlaceInv
  <2> QED
    BY <1>1, <1>3, <2>1, <2>2, <2>3, PlaceMoves
<1> QED
  BY <1>6, <1>7, <1>8, <1>9, <1>10

-----------------------------------------------------------------------------
(***************************************************************************)
(* The theorems.                                                           *)
(***************************************************************************)

LEMMA InitInvariant == Init => IInv
<1> SUFFICES ASSUME Init PROVE IInv
  OBVIOUS
<1> USE DEF Init
<1>1. 0 \in Levels /\ 0..MaxFiles \subseteq Nat
  BY BackgroundAssumption DEF Levels
<1>2. WorkOK(NoWork, files) /\ NoWork.kind = "none"
  BY NoWorkOK DEF NoWork, Work, Kinds
<1>3. \A c \in Calls : pc[c] = "idle" /\ back[c] = "idle" /\ job[c] = NoWork /\ level[c] = 0 /\ end[c] = 0
  OBVIOUS
<1>4. TypeOK
  <2>1. files \in [Levels -> Nat]
    BY <1>1
  <2>2. job \in [Calls -> [kind : Kinds, level : Levels, n : Nat, m : Nat]]
    BY <1>2 DEF WorkOK
  <2>3. /\ {full, imm, bgError, scheduled} \subseteq BOOLEAN /\ manual \in Compactors \cup {Idle}
        /\ pc \in [Calls -> Places] /\ back \in [Calls -> Places]
        /\ force \in [Calls -> BOOLEAN] /\ allowDelay \in [Calls -> BOOLEAN]
        /\ level \in [Calls -> Nat] /\ end \in [Calls -> Levels] /\ done \in [Calls -> BOOLEAN]
    BY <1>1 DEF Places
  <2> QED
    BY <2>1, <2>2, <2>3 DEF TypeOK
<1>5. OneWorker /\ ManualInv
  BY <1>3 DEF OneWorker, ManualInv
<1>6. NothingForgotten
  BY <1>3 DEF NothingForgotten, Calls
<1>7. PlaceInv
  BY <1>3 DEF PlaceInv, Ready, Ranging
<1>8. JobInv
  BY <1>2, <1>3 DEF JobInv
<1> QED
  BY <1>4, <1>5, <1>6, <1>7, <1>8 DEF IInv

LEMMA StepInvariant == IInv /\ [Next]_vars => IInv'
<1> SUFFICES ASSUME IInv, [Next]_vars PROVE IInv'
  OBVIOUS
<1>1. CASE Open
  BY <1>1, DecidingSteps DEF Calls
<1>2. ASSUME NEW c \in Calls, Call(c) PROVE IInv'
  BY <1>2, CallStep
<1>3. ASSUME NEW c \in Calls, Step(c) PROVE IInv'
  <2>1. CASE \/ Lead(c) \/ RoomError(c) \/ Delay(c) \/ DelayEnds(c) \/ Write(c)
             \/ RoomSpin(c) \/ NewLog(c) \/ LoopSpin(c)
    BY <2>1, WalkingSteps
  <2>2. CASE Switch(c) \/ Request(c) \/ EndWork(c)
    BY <2>2, DecidingSteps
  <2>3. CASE NextLevel(c)
    BY <2>3, NextLevelStep
  <2>4. CASE Flush(c) \/ Merge(c) \/ Move(c) \/ Conclude(c)
    BY <2>4, WorkingSteps
  <2> QED
    BY <1>3, <2>1, <2>2, <2>3, <2>4 DEF Step
<1>4. ASSUME NEW c \in Calls, Failure(c) PROVE IInv'
  BY <1>4, WorkingSteps, ThrowingSteps DEF Failure
<1>5. CASE UNCHANGED vars
  <2>1. UNCHANGED <<files, full, imm, bgError, scheduled, manual, pc, back, job,
                    force, allowDelay, level, end, done>>
    BY <1>5 DEF vars, store, room, requests
  <2> QED
    BY <2>1 DEF IInv, TypeOK, OneWorker, NothingForgotten, Needs, Over,
                PlaceInv, ManualInv, Ready, Ranging, JobInv, WorkOK
<1> QED
  BY <1>1, <1>2, <1>3, <1>4, <1>5 DEF Next

LEMMA Invariant == Spec => []IInv
<1> QED
  BY InitInvariant, StepInvariant, PTL DEF Spec

\* Types, among them that no level ever has a negative number of files.
THEOREM TypeCorrect == Spec => []TypeOK
<1>1. IInv => TypeOK
  BY DEF IInv
<1> QED
  BY <1>1, Invariant, PTL

\* The flag _backgroundCompactionScheduled excludes: whatever calls come in
\* between two awaits of background work, no second call begins any.
THEOREM WorkersExclude == Spec => []OneWorker
<1>1. IInv => OneWorker
  BY DEF IInv
<1> QED
  BY <1>1, Invariant, PTL

\* What a compaction has picked is there until it is applied.
THEOREM InputsStay == Spec => []InputsLive
<1>1. IInv => InputsLive
  BY DEF IInv, JobInv, WorkOK, InputsLive
<1> QED
  BY <1>1, Invariant, PTL

\* When the flag is reset, and wherever work can turn up, maybeScheduleCompaction
\* looks: work that is due is somebody's, unless an error ended background work.
THEOREM NoWorkForgotten == Spec => []NothingForgotten
<1>1. IInv => NothingForgotten
  BY DEF IInv
<1> QED
  BY <1>1, Invariant, PTL

\* A call of compactRange never returns with its request still up.
THEOREM RequestsHaveOwners == Spec => []RequestsOwned
<1>1. IInv => RequestsOwned
  BY DEF IInv, ManualInv, Ranging, RequestsOwned
<1> QED
  BY <1>1, Invariant, PTL

-----------------------------------------------------------------------------
(***************************************************************************)
(* Loops without an await.                                                 *)
(***************************************************************************)

\* Nobody calls before the database is open, and the call that opens it does
\* nothing else.
OpenInv ==
  /\ pc[Opener] \in {"idle", "working", "returned", "rejected"}
  /\ pc[Opener] = "working" => back[Opener] = "returned"
  /\ \A c \in Calls \ {Opener} : pc[c] # "idle" => pc[Opener] = "returned"

\* A step of one call leaves the others where they are.
LEMMA OneCallMoves ==
  ASSUME IInv, NEW c \in Calls,
         Call(c) \/ Step(c) \/ Failure(c)
  PROVE  /\ EventLoopFree
         /\ \A d \in Calls \ {c} : pc'[d] = pc[d] /\ back'[d] = back[d]
         /\ pc'[c] = "spinning" => RoomSpin(c) \/ LoopSpin(c)
         /\ c = Opener => pc[c] \in {"queued", "room", "delay", "log", "loop", "working"}
<1> USE DEF IInv, TypeOK
<1>1. CASE Call(c)
  BY <1>1 DEF Call, At, Goto
<1>2. CASE \/ Lead(c) \/ RoomError(c) \/ Delay(c) \/ DelayEnds(c) \/ Write(c)
           \/ RoomSpin(c) \/ NewLog(c) \/ LoopSpin(c)
  BY <1>2 DEF Lead, RoomError, Delay, DelayEnds, Write, RoomSpin, NewLog, LoopSpin,
              At, Goto, EndWrite
<1>3. CASE NextLevel(c)
  BY <1>3 DEF NextLevel, At, Goto
<1>4. CASE Switch(c) \/ Request(c) \/ EndWork(c)
  <2>1. PICK busy \in BOOLEAN, place \in {"room", "loop", "returned"} : Schedule(c, busy, place)
    BY <1>4 DEF Switch, Request, EndWork, Doing, At, PlaceInv
  <2>2. back' = [back EXCEPT ![c] = place] /\ \E p \in {"working", place} : pc' = [pc EXCEPT ![c] = p]
    BY <2>1 DEF Schedule, Goto
  <2>3. EventLoopFree /\ pc[c] \in {"log", "loop", "working"}
    BY <1>4 DEF Switch, Request, EndWork, Doing, At
  <2> QED
    BY <2>2, <2>3
<1>5. CASE \/ Flush(c) \/ FlushFails(c) \/ Merge(c) \/ MergeFails(c)
           \/ Move(c) \/ MoveFails(c) \/ Conclude(c)
  BY <1>5 DEF Flush, FlushFails, Merge, MergeFails, Move, MoveFails, Conclude, Doing, At
<1>6. CASE WorkThrows(c) \/ NewLogThrows(c)
  BY <1>6 DEF WorkThrows, NewLogThrows, Doing, At, Goto
<1> QED
  BY <1>1, <1>2, <1>3, <1>4, <1>5, <1>6 DEF Step, Failure

LEMMA OpenStep ==
  ASSUME IInv, OpenInv, [Next]_vars
  PROVE  OpenInv'
<1> USE DEF OpenInv
<1>1. CASE Open
  <2>1. Opener \in Calls
    BY DEF Calls
  <2>2. pc[Opener] = "idle" /\ Schedule(Opener, scheduled, "returned")
    BY <1>1 DEF Open
  <2>3. back' = [back EXCEPT ![Opener] = "returned"]
        /\ \E p \in {"working", "returned"} : pc' = [pc EXCEPT ![Opener] = p]
    BY <2>2 DEF Schedule, Goto
  <2>4. \A c \in Calls \ {Opener} : pc'[c] = "idle"
    BY <2>2, <2>3 DEF IInv, TypeOK
  <2> QED
    BY <2>1, <2>3, <2>4 DEF IInv, TypeOK
<1>2. ASSUME NEW c \in Calls \ {Opener}, Call(c) \/ Step(c) \/ Failure(c)
      PROVE  OpenInv'
  <2>1. pc[Opener] = "returned"
    <3>1. CASE Call(c)
      BY <3>1 DEF Call
    <3>2. CASE pc[c] # "idle"
      BY <3>2
    <3>3. ~Call(c) => pc[c] # "idle"
      BY <1>2 DEF Step, Failure, Lead, RoomError, Delay, DelayEnds, Write, RoomSpin,
           NewLog, LoopSpin, NextLevel, Switch, Request, EndWork, Flush, FlushFails,
           Merge, MergeFails, Move, MoveFails, Conclude, WorkThrows, NewLogThrows, Doing, At
    <3> QED
      BY <3>1, <3>2, <3>3
  <2>2. pc'[Opener] = "returned"
    BY <1>2, <2>1, OneCallMoves DEF Calls
  <2> QED
    BY <2>2
<1>3. CASE Step(Opener) \/ Failure(Opener)
  <2>1. Opener \in Calls /\ pc[Opener] = "working"
    BY <1>3, OneCallMoves DEF Calls
  <2>2. back[Opener] = "returned"
    BY <2>1
  <2>3. CASE EndWork(Opener)
    <3>1. Schedule(Opener, FALSE, "returned")
      BY <2>2, <2>3 DEF EndWork
    <3>2. back' = [back EXCEPT ![Opener] = "returned"]
          /\ \E p \in {"working", "returned"} : pc' = [pc EXCEPT ![Opener] = p]
      BY <3>1 DEF Schedule, Goto
    <3>3. pc'[Opener] \in {"working", "returned"} /\ back'[Opener] = "returned"
      BY <2>1, <3>2 DEF IInv, TypeOK
    <3>4. \A c \in Calls \ {Opener} : pc'[c] = "idle"
      BY <2>1, <1>3, OneCallMoves
    <3> QED
      BY <3>3, <3>4
  <2>4. CASE ~EndWork(Opener)
    <3>1. \/ Flush(Opener) \/ FlushFails(Opener) \/ Merge(Opener) \/ MergeFails(Opener)
          \/ Move(Opener) \/ MoveFails(Opener) \/ Conclude(Opener) \/ WorkThrows(Opener)
      BY <1>3, <2>1, <2>4 DEF Step, Failure, Lead, RoomError, Delay, DelayEnds, Write,
           RoomSpin, NewLog, LoopSpin, NextLevel, Switch, Request, NewLogThrows, At
    <3>2. pc'[Opener] \in {"working", "rejected"} /\ back' = back
      <4>1. CASE WorkThrows(Opener)
        BY <2>1, <4>1 DEF WorkThrows, Goto, IInv, TypeOK
      <4>2. CASE ~WorkThrows(Opener)
        BY <2>1, <3>1, <4>2 DEF Flush, FlushFails, Merge, MergeFails, Move, MoveFails, Conclude
      <4> QED
        BY <4>1, <4>2
    <3>3. \A c \in Calls \ {Opener} : pc'[c] = "idle"
      BY <2>1, <1>3, OneCallMoves
    <3> QED
      BY <2>2, <3>2, <3>3
  <2> QED
    BY <2>3, <2>4
<1>4. ~Call(Opener)
  BY DEF Call
<1>5. CASE UNCHANGED vars
  BY <1>5 DEF vars
<1> QED
  BY <1>1, <1>2, <1>3, <1>4, <1>5 DEF Next, Calls

LEMMA SpinStep ==
  ASSUME IInv, OpenInv, SpinsForOthers, [Next]_vars
  PROVE  SpinsForOthers'
<1>1. CASE UNCHANGED vars
  BY <1>1 DEF vars, store, SpinsForOthers
<1>2. CASE Open
  <2>1. Opener \in Calls /\ pc[Opener] = "idle" /\ bgError' = bgError
    BY <1>2 DEF Open, store, Calls
  <2>2. \A c \in Calls \ {Opener} : pc[c] = "idle"
    BY <2>1 DEF OpenInv
  <2>3. \E p \in {"working", "returned"} : pc' = [pc EXCEPT ![Opener] = p]
    BY <1>2 DEF Open, Schedule, Goto
  <2> QED
    BY <2>1, <2>2, <2>3 DEF SpinsForOthers, IInv, TypeOK
<1>3. ASSUME NEW c \in Calls, Call(c) \/ Step(c) \/ Failure(c)
      PROVE  SpinsForOthers'
  <2>1. \A d \in Calls \ {c} : pc'[d] = pc[d] /\ pc[d] # "spinning"
    BY <1>3, OneCallMoves DEF EventLoopFree
  <2>2. CASE RoomSpin(c) \/ LoopSpin(c)
    <3>1. /\ pc[c] \in {"room", "loop"} /\ bgError' = bgError
          /\ imm \/ files[0] >= Stop \/ manual # Idle
      BY <2>2 DEF RoomSpin, LoopSpin, Blocked, At, store
    <3>2. pc[Opener] # "idle"
      BY <3>1 DEF OpenInv
    <3>3. files[0] >= Stop => Needs(files)
      <4>1. 0 \in Levels
        BY BackgroundAssumption DEF Levels
      <4>2. files[0] \in Nat
        BY <4>1 DEF IInv, TypeOK
      <4>3. files[0] >= Stop => files[0] >= Trigger
        BY <4>2, BackgroundAssumption
      <4> QED
        BY <4>1, <4>3 DEF Needs, Over
    <3>4. scheduled \/ bgError
      BY <3>1, <3>2, <3>3 DEF IInv, NothingForgotten
    <3>5. bgError \/ \E d \in Calls \ {c} : pc[d] \in {"working", "rejected"}
      BY <3>1, <3>4 DEF IInv, OneWorker
    <3> QED
      BY <2>1, <3>1, <3>5 DEF SpinsForOthers
  <2>3. CASE ~(RoomSpin(c) \/ LoopSpin(c))
    <3>1. pc'[c] # "spinning"
      BY <1>3, <2>3, OneCallMoves
    <3> QED
      BY <2>1, <3>1 DEF SpinsForOthers
  <2> QED
    BY <2>2, <2>3
<1> QED
  BY <1>1, <1>2, <1>3 DEF Next

\* Whoever enters one of the loops without an await waits for the background
\* work of another call, or for something an error or an exception has ended,
\* never for its own.
THEOREM NobodySpinsForItself == Spec => []SpinsForOthers
<1>1. Init => OpenInv /\ SpinsForOthers
  BY DEF Init, OpenInv, SpinsForOthers, Calls
<1>2. IInv /\ OpenInv /\ SpinsForOthers /\ [Next]_vars => (OpenInv /\ SpinsForOthers)'
  BY OpenStep, SpinStep
<1> QED
  BY <1>1, <1>2, Invariant, PTL DEF Spec
=============================================================================
