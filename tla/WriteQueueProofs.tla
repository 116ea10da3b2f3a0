-------------------------- MODULE WriteQueueProofs --------------------------
(***************************************************************************)
(* Proofs about WriteQueue, for any calls, batches and limits.             *)
(***************************************************************************)
EXTENDS WriteQueue, TLAPS

-----------------------------------------------------------------------------
(***************************************************************************)
(* The inductive invariant.                                                *)
(***************************************************************************)

\* Where a call is says whether it is queued; nobody is queued twice.
QueueInv ==
  /\ \A i, j \in 1..Len(queue) : queue[i] = queue[j] => i = j
  /\ \A w \in Writers :
       w \in Elements(queue) <=>
         \/ pc[w] \in Leading \cup {"spinning", "rejected"}
         \/ pc[w] = "queued" /\ w \notin done
  /\ \A w \in done : pc[w] \in {"queued", "returned"}
  /\ \A w \in Writers :
       pc[w] \in Leading \cup {"spinning", "rejected"} => w \in Front(queue)

\* lastWriter is queued while its group is written.
GroupInv ==
  \A w \in Writers : pc[w] \in {"building", "logging"} =>
    group.last \in Elements(queue) /\ group.after = lastSequence

\* The log file in use covers the memtable, the one before it the immutable
\* memtable.
LogCovers ==
  /\ Elements(mem) \subseteq Elements(logs[Len(logs)])
  /\ hasImm => logNumber < Len(logs)
  /\ hasImm => Elements(imm) \subseteq Elements(logs[Len(logs) - 1])
  /\ ~hasImm => imm = <<>>

\* The log is closed only while it is being changed, and it is changed only
\* while there is no immutable memtable.
RotationInv ==
  /\ \A w \in Writers : pc[w] = "rotating" => ~hasImm
  /\ ~logOpen => \E w \in Writers : pc[w] \in {"rotating", "rejected"}

-----------------------------------------------------------------------------
(***************************************************************************)
(* Sequences.                                                              *)
(***************************************************************************)

\* Appending adds one element.
LEMMA ElementsAppend ==
  ASSUME NEW S, NEW s \in Seq(S), NEW e \in S
  PROVE  Elements(Append(s, e)) = Elements(s) \cup {e}
<1>1. Len(Append(s, e)) = Len(s) + 1 /\ Len(s) \in Nat
  OBVIOUS
<1>2. \A i \in 1..Len(s) : Append(s, e)[i] = s[i]
  OBVIOUS
<1>3. Append(s, e)[Len(s) + 1] = e
  OBVIOUS
<1>4. 1..Len(s) + 1 = (1..Len(s)) \cup {Len(s) + 1}
  BY <1>1
<1> QED
  BY <1>1, <1>2, <1>3, <1>4 DEF Elements

\* Position finds an element that is there.
LEMMA PositionIsThere ==
  ASSUME NEW w \in Elements(queue)
  PROVE  Position(w) \in 1..Len(queue) /\ queue[Position(w)] = w
<1>1. \E i \in 1..Len(queue) : queue[i] = w
  BY DEF Elements
<1> QED
  BY <1>1 DEF Position

\* The front writer is the first element.
LEMMA FrontIsFirst ==
  ASSUME queue \in Seq(Writers), NEW w \in Front(queue)
  PROVE  w = queue[1] /\ 1 \in 1..Len(queue) /\ w \in Elements(queue)
<1>1. queue # <<>> /\ w = queue[1]
  BY DEF Front
<1>2. Len(queue) \in Nat /\ Len(queue) # 0
  BY <1>1
<1> QED
  BY <1>1, <1>2 DEF Elements

\* Whoever is at the front is a call.
LEMMA FrontIsWriter ==
  ASSUME TypeOK
  PROVE  Front(queue) \subseteq Writers
<1>1. queue \in Seq(Writers) /\ Elements(queue) \subseteq Writers
  BY DEF TypeOK, Elements
<1> QED
  BY <1>1, FrontIsFirst

-----------------------------------------------------------------------------
(***************************************************************************)
(* What the steps of a call do to the queue.                               *)
(***************************************************************************)

\* A call that leads is the only one, and the others in the queue wait.
LEMMA OthersWait ==
  ASSUME TypeOK, QueueInv, NEW w \in Writers, pc[w] \in Leading
  PROVE  /\ w = queue[1] /\ 1 \in 1..Len(queue) /\ w \in Elements(queue)
         /\ w \notin done
         /\ \A v \in Writers \ {w} :
              pc[v] \notin Leading \cup {"spinning", "rejected"}
         /\ \A v \in Elements(queue) \ {w} :
              v \in Writers /\ pc[v] = "queued" /\ v \notin done
<1> queue \in Seq(Writers)
  BY DEF TypeOK
<1>1. w = queue[1] /\ 1 \in 1..Len(queue) /\ w \in Elements(queue)
  BY FrontIsFirst DEF QueueInv
<1>2. w \notin done
  BY DEF QueueInv, Leading
<1>3. \A v \in Writers : pc[v] \in Leading \cup {"spinning", "rejected"} => v = w
  BY FrontIsFirst, <1>1 DEF QueueInv
<1>4. Elements(queue) \subseteq Writers
  BY DEF Elements
<1> QED
  BY <1>1, <1>2, <1>3, <1>4 DEF QueueInv

\* A step inside write() or makeRoomForWrite leaves the queue as it is.
LEMMA LeaderMoves ==
  ASSUME TypeOK, QueueInv, WakeUps, NEW w \in Writers, pc[w] \in Leading,
         NEW p \in Leading \cup {"spinning", "rejected"}, Goto(w, p),
         UNCHANGED queueVars
  PROVE  QueueInv' /\ WakeUps' /\ pc' \in [Writers -> Places]
<1> USE DEF queueVars
<1>1. /\ pc' \in [Writers -> Places]
      /\ pc'[w] = p
      /\ \A v \in Writers \ {w} : pc'[v] = pc[v]
  BY DEF Goto, TypeOK, Places
<1>2. w \notin done /\ w \in Elements(queue) /\ w \in Front(queue)
  BY OthersWait DEF QueueInv
<1>3. QueueInv'
  <2>1. \A i, j \in 1..Len(queue') : queue'[i] = queue'[j] => i = j
    BY DEF QueueInv
  <2>2. \A v \in Writers :
          v \in Elements(queue)' <=>
            \/ pc'[v] \in Leading \cup {"spinning", "rejected"}
            \/ pc'[v] = "queued" /\ v \notin done'
    BY <1>1, <1>2 DEF QueueInv, Elements
  <2>3. \A v \in done' : pc'[v] \in {"queued", "returned"}
    BY <1>1, <1>2 DEF QueueInv, TypeOK
  <2>4. \A v \in Writers :
          pc'[v] \in Leading \cup {"spinning", "rejected"} => v \in Front(queue)'
    BY <1>1, <1>2 DEF QueueInv, Front
  <2> QED
    BY <2>1, <2>2, <2>3, <2>4 DEF QueueInv, Elements, Front
<1>4. WakeUps'
  <2>1. w \notin signalled
    BY DEF WakeUps, Leading
  <2>2. p # "queued"
    BY DEF Leading
  <2>3. Front(queue) \subseteq Writers
    BY FrontIsWriter
  <2> QED
    BY <1>1, <2>1, <2>2, <2>3 DEF WakeUps, TypeOK, Front
<1> QED
  BY <1>1, <1>3, <1>4

\* The writers behind `last` are what Release leaves in the queue.
LEMMA ReleaseRest ==
  ASSUME TypeOK, QueueInv, NEW w \in Writers, NEW last \in Elements(queue),
         Release(w, last), NEW n, n = Position(last)
  PROVE  /\ n \in 1..Len(queue)
         /\ queue' \in Seq(Writers)
         /\ Len(queue') = Len(queue) - n
         /\ \A i \in 1..Len(queue') : queue'[i] = queue[i + n] /\ i + n \in 1..Len(queue)
         /\ Elements(queue') = Elements(queue) \ {queue[i] : i \in 1..n}
<1>1. n \in 1..Len(queue)
  BY PositionIsThere
<1>2. queue \in Seq(Writers) /\ Len(queue) \in Nat
  BY DEF TypeOK
<1>3. queue' = SubSeq(queue, n + 1, Len(queue))
  BY DEF Release
<1>4. /\ queue' \in Seq(Writers)
      /\ Len(queue') = Len(queue) - n
      /\ \A i \in 1..Len(queue') : queue'[i] = queue[i + n]
  BY <1>1, <1>2, <1>3
<1>5. \A i \in 1..Len(queue') : i + n \in 1..Len(queue)
  BY <1>1, <1>2, <1>4
<1>6. ASSUME NEW v
      PROVE  v \in Elements(queue') <=>
               v \in Elements(queue) /\ v \notin {queue[i] : i \in 1..n}
  <2>1. ASSUME v \in Elements(queue')
        PROVE  v \in Elements(queue) /\ v \notin {queue[i] : i \in 1..n}
    <3>1. PICK i \in 1..Len(queue') : v = queue'[i]
      BY <2>1 DEF Elements
    <3>2. v = queue[i + n] /\ i + n \in 1..Len(queue) /\ i + n \notin 1..n
      BY <3>1, <1>1, <1>2, <1>4, <1>5
    <3>3. 1..n \subseteq 1..Len(queue)
      BY <1>1, <1>2
    <3> QED
      BY <3>2, <3>3 DEF Elements, QueueInv
  <2>2. ASSUME v \in Elements(queue), v \notin {queue[i] : i \in 1..n}
        PROVE  v \in Elements(queue')
    <3>1. PICK k \in 1..Len(queue) : v = queue[k]
      BY <2>2 DEF Elements
    <3>2. k \notin 1..n
      BY <2>2, <3>1
    <3>3. k - n \in 1..Len(queue') /\ (k - n) + n = k
      BY <3>1, <3>2, <1>1, <1>2, <1>4
    <3>4. queue'[k - n] = v
      BY <3>1, <3>3, <1>4
    <3> QED
      BY <3>3, <3>4 DEF Elements
  <2> QED
    BY <2>1, <2>2
<1>7. Elements(queue') = Elements(queue) \ {queue[i] : i \in 1..n}
  BY <1>6
<1> QED
  BY <1>1, <1>4, <1>5, <1>7

\* The end of write() keeps the queue consistent and wakes whom it must.
LEMMA ReleaseQueue ==
  ASSUME TypeOK, QueueInv, WakeUps, NEW w \in Writers, pc[w] \in Leading,
         NEW last \in Elements(queue), Release(w, last)
  PROVE  /\ QueueInv' /\ WakeUps'
         /\ queue' \in Seq(Writers) /\ pc' \in [Writers -> Places]
         /\ done' \subseteq Writers /\ signalled' \subseteq Writers
         /\ \A v \in Writers : pc'[v] \notin Leading \cup {"spinning", "rejected"}
<1> DEFINE n == Position(last)
           popped == {queue[i] : i \in 1..n}
<1>1. /\ n \in 1..Len(queue)
      /\ queue' \in Seq(Writers)
      /\ Len(queue') = Len(queue) - n
      /\ \A i \in 1..Len(queue') : queue'[i] = queue[i + n] /\ i + n \in 1..Len(queue)
      /\ Elements(queue') = Elements(queue) \ popped
  BY ReleaseRest
<1>2. /\ w = queue[1] /\ w \in Elements(queue) /\ w \notin done
      /\ \A v \in Writers \ {w} :
           pc[v] \notin Leading \cup {"spinning", "rejected"}
      /\ \A v \in Elements(queue) \ {w} :
           v \in Writers /\ pc[v] = "queued" /\ v \notin done
  BY OthersWait
<1>3. queue \in Seq(Writers) /\ Len(queue) \in Nat /\ Elements(queue) \subseteq Writers
  BY DEF TypeOK, Elements
<1>4. w \in popped /\ popped \subseteq Elements(queue)
  <2>1. 1 \in 1..n /\ 1..n \subseteq 1..Len(queue)
    BY <1>1, <1>3
  <2> QED
    BY <1>2, <2>1 DEF Elements
<1>5. /\ queue' = SubSeq(queue, n + 1, Len(queue))
      /\ done' = done \cup (popped \ {w})
      /\ signalled' = signalled \cup (popped \ {w}) \cup Front(queue')
      /\ pc' = [pc EXCEPT ![w] = "returned"]
  BY DEF Release, Signal, Goto
<1>6. /\ pc' \in [Writers -> Places] /\ pc'[w] = "returned"
      /\ \A v \in Writers \ {w} : pc'[v] = pc[v]
  BY <1>5 DEF TypeOK, Places
<1>7. Front(queue') \subseteq Elements(queue')
  BY <1>1, FrontIsFirst DEF Front, Elements
<1>8. done' \subseteq Writers /\ signalled' \subseteq Writers
  BY <1>1, <1>3, <1>4, <1>5, <1>7 DEF TypeOK
<1>9. \A v \in Writers : pc'[v] \notin Leading \cup {"spinning", "rejected"}
  BY <1>2, <1>6 DEF Leading
<1>10. QueueInv'
  <2>1. ASSUME NEW i \in 1..Len(queue'), NEW j \in 1..Len(queue'),
               queue'[i] = queue'[j]
        PROVE  i = j
    <3>1. queue[i + n] = queue[j + n]
      BY <1>1, <2>1
    <3>2. i + n = j + n
      BY <3>1, <1>1 DEF QueueInv
    <3> QED
      BY <3>2, <1>1, <1>3
  <2>2. ASSUME NEW v \in Writers
        PROVE  v \in Elements(queue') <=> pc'[v] = "queued" /\ v \notin done'
    <3>1. CASE v = w
      BY <3>1, <1>1, <1>4, <1>6
    <3>2. CASE v # w /\ v \in Elements(queue)
      BY <3>2, <1>1, <1>2, <1>5, <1>6
    <3>3. CASE v # w /\ v \notin Elements(queue)
      BY <3>3, <1>1, <1>2, <1>4, <1>5, <1>6 DEF QueueInv
    <3> QED
      BY <3>1, <3>2, <3>3
  <2>3. \A v \in done' : pc'[v] \in {"queued", "returned"}
    BY <1>2, <1>3, <1>4, <1>5, <1>6 DEF QueueInv, TypeOK
  <2> QED
    BY <2>1, <2>2, <2>3, <1>9 DEF QueueInv, Elements, Front
<1>11. WakeUps'
  <2>1. \A v \in Writers : pc'[v] = "queued" /\ v \in done' => v \in signalled'
    BY <1>5, <1>6 DEF WakeUps
  <2>2. \A v \in Front(queue') : v \in signalled'
    BY <1>5
  <2>3. ASSUME NEW v \in signalled'
        PROVE  pc'[v] = "queued" /\ (v \in done' \/ v \in Front(queue'))
    <3>1. CASE v \in signalled
      <4>1. pc[v] = "queued" /\ (v \in done \/ v \in Front(queue)) /\ v \in Writers
        BY <3>1 DEF WakeUps, TypeOK
      <4>2. v # w
        BY <4>1 DEF Leading
      <4>3. v \notin Front(queue)
        BY <1>2, <1>3, <4>2, FrontIsFirst
      <4> QED
        BY <4>1, <4>2, <4>3, <1>5, <1>6
    <3>2. CASE v \in popped \ {w}
      BY <3>2, <1>2, <1>4, <1>5, <1>6
    <3>3. CASE v \in Front(queue')
      BY <3>3, <1>1, <1>2, <1>4, <1>6, <1>7
    <3> QED
      BY <3>1, <3>2, <3>3, <1>5
  <2> QED
    BY <2>1, <2>2, <2>3 DEF WakeUps, Front
<1> QED
  BY <1>1, <1>6, <1>8, <1>9, <1>10, <1>11

\* A new call joins the end of the queue and leads when it is alone.
LEMMA CallQueue ==
  ASSUME TypeOK, QueueInv, WakeUps, NEW w \in Writers, Call(w)
  PROVE  /\ QueueInv' /\ WakeUps'
         /\ queue' \in Seq(Writers) /\ pc' \in [Writers -> Places]
<1>1. /\ queue' = Append(queue, w) /\ done' = done /\ signalled' = signalled
      /\ pc' = [pc EXCEPT ![w] = IF queue = <<>> THEN "room" ELSE "queued"]
      /\ pc[w] = "idle"
  BY DEF Call, At, Goto
<1>2. queue \in Seq(Writers) /\ Len(queue) \in Nat
  BY DEF TypeOK
<1>3. /\ queue' \in Seq(Writers) /\ Len(queue') = Len(queue) + 1
      /\ queue'[Len(queue) + 1] = w
      /\ \A i \in 1..Len(queue) : queue'[i] = queue[i]
  BY <1>1, <1>2
<1>4. Elements(queue') = Elements(queue) \cup {w}
  BY <1>1, <1>2, ElementsAppend
<1>5. /\ pc' \in [Writers -> Places]
      /\ pc'[w] = IF queue = <<>> THEN "room" ELSE "queued"
      /\ \A v \in Writers \ {w} : pc'[v] = pc[v]
  BY <1>1 DEF TypeOK, Places, Leading
<1>6. w \notin Elements(queue) /\ w \notin done /\ w \notin signalled
  BY <1>1 DEF QueueInv, WakeUps, Leading
<1>7. Front(queue') = IF queue = <<>> THEN {w} ELSE Front(queue)
  <2>1. CASE queue = <<>>
    <3>1. Len(queue) = 0 /\ queue' # <<>>
      BY <2>1, <1>2, <1>3
    <3> QED
      BY <2>1, <3>1, <1>3 DEF Front
  <2>2. CASE queue # <<>>
    <3>1. 1 \in 1..Len(queue) /\ queue' # <<>>
      BY <2>2, <1>2, <1>3
    <3> QED
      BY <2>2, <3>1, <1>3 DEF Front
  <2> QED
    BY <2>1, <2>2
<1>8. queue = <<>> => Elements(queue) = {}
  BY <1>2 DEF Elements
<1>9. QueueInv'
  <2>1. ASSUME NEW i \in 1..Len(queue'), NEW j \in 1..Len(queue'),
               queue'[i] = queue'[j]
        PROVE  i = j
    <3>1. \A k \in 1..Len(queue) : queue[k] # w
      BY <1>6 DEF Elements
    <3> QED
      BY <2>1, <3>1, <1>2, <1>3 DEF QueueInv
  <2>2. ASSUME NEW v \in Writers
        PROVE  v \in Elements(queue') <=>
                 \/ pc'[v] \in Leading \cup {"spinning", "rejected"}
                 \/ pc'[v] = "queued" /\ v \notin done'
    BY <1>1, <1>4, <1>5, <1>6 DEF QueueInv, Leading
  <2>3. \A v \in done' : pc'[v] \in {"queued", "returned"}
    BY <1>1, <1>5, <1>6 DEF QueueInv, TypeOK
  <2>4. ASSUME NEW v \in Writers,
               pc'[v] \in Leading \cup {"spinning", "rejected"}
        PROVE  v \in Front(queue')
    <3>1. CASE v = w
      BY <3>1, <2>4, <1>5, <1>7 DEF Leading
    <3>2. CASE v # w
      BY <3>2, <2>4, <1>5, <1>7, <1>8 DEF QueueInv, Front
    <3> QED
      BY <3>1, <3>2
  <2> QED
    BY <2>1, <2>2, <2>3, <2>4 DEF QueueInv, Elements, Front
<1>10. WakeUps'
  <2>1. \A v \in Writers : pc'[v] = "queued" /\ v \in done' => v \in signalled'
    BY <1>1, <1>5, <1>6 DEF WakeUps
  <2>2. \A v \in Front(queue') : pc'[v] = "queued" => v \in signalled'
    <3>1. w \in Front(queue') => queue = <<>>
      BY <1>2, <1>6, <1>7, FrontIsFirst
    <3>2. Front(queue) \subseteq Writers
      BY <1>2, FrontIsFirst DEF Elements
    <3> QED
      BY <3>1, <3>2, <1>1, <1>5, <1>7 DEF WakeUps
  <2>3. \A v \in signalled' :
          pc'[v] = "queued" /\ (v \in done' \/ v \in Front(queue'))
    BY <1>1, <1>5, <1>6, <1>7 DEF WakeUps, Front, TypeOK
  <2> QED
    BY <2>1, <2>2, <2>3 DEF WakeUps, Front
<1> QED
  BY <1>3, <1>5, <1>9, <1>10

\* A writer that resumes leaves the queue's order alone.
LEMMA ResumeQueue ==
  ASSUME TypeOK, QueueInv, WakeUps, NEW w \in Writers, Resume(w)
  PROVE  QueueInv' /\ WakeUps' /\ pc' \in [Writers -> Places]
<1>1. /\ queue' = queue /\ done' = done /\ signalled' = signalled \ {w}
      /\ pc' = [pc EXCEPT ![w] = IF w \in done THEN "returned" ELSE "room"]
      /\ pc[w] = "queued" /\ (w \in done \/ w \in Front(queue))
  BY DEF Resume, At, Goto
<1>2. /\ pc' \in [Writers -> Places]
      /\ pc'[w] = IF w \in done THEN "returned" ELSE "room"
      /\ \A v \in Writers \ {w} : pc'[v] = pc[v]
  BY <1>1 DEF TypeOK, Places, Leading
<1>3. QueueInv'
  <2>1. \A i, j \in 1..Len(queue') : queue'[i] = queue'[j] => i = j
    BY <1>1 DEF QueueInv
  <2>2. ASSUME NEW v \in Writers
        PROVE  v \in Elements(queue') <=>
                 \/ pc'[v] \in Leading \cup {"spinning", "rejected"}
                 \/ pc'[v] = "queued" /\ v \notin done'
    BY <1>1, <1>2 DEF QueueInv, Leading
  <2>3. \A v \in done' : pc'[v] \in {"queued", "returned"}
    BY <1>1, <1>2 DEF QueueInv, TypeOK
  <2>4. \A v \in Writers :
          pc'[v] \in Leading \cup {"spinning", "rejected"} => v \in Front(queue')
    BY <1>1, <1>2 DEF QueueInv, Leading
  <2> QED
    BY <2>1, <2>2, <2>3, <2>4 DEF QueueInv, Elements, Front
<1>4. WakeUps'
  <2>1. w \in done => w \notin Front(queue)
    BY <1>1, FrontIsFirst DEF QueueInv, TypeOK, Leading
  <2>2. Front(queue) \subseteq Writers
    BY FrontIsWriter
  <2> QED
    BY <1>1, <1>2, <2>1, <2>2 DEF WakeUps, TypeOK, Front
<1> QED
  BY <1>2, <1>3, <1>4

-----------------------------------------------------------------------------
(***************************************************************************)
(* Every step keeps the invariant.                                         *)
(***************************************************************************)

IInv == TypeOK /\ QueueInv /\ WakeUps /\ GroupInv /\ LogCovers /\ RotationInv

LEMMA InitIInv == Init => IInv
<1> SUFFICES ASSUME Init PROVE IInv
  OBVIOUS
<1> USE WriteQueueAssumption DEF Init
<1>1. NoGroup \in Groups
  BY DEF NoGroup, Groups
<1>2. Elements(queue) = {} /\ Elements(mem) = {} /\ Front(queue) = {}
  BY DEF Elements, Front
<1>3. TypeOK
  <2>1. force \in [Writers -> BOOLEAN] /\ pc \in [Writers -> Places]
    BY DEF Places
  <2>2. <<>> \in Seq(Records) /\ <<>> \in Seq(Writers)
    OBVIOUS
  <2>3. logs \in Seq(Seq(Records)) /\ Len(logs) = 1
    BY <2>2
  <2>4. logNumber \in 1..Len(logs) /\ lastSequence \in Nat /\ memSize \in Nat
    BY <2>3
  <2>5. logOpen \in BOOLEAN /\ hasImm \in BOOLEAN /\ bgError \in BOOLEAN
    OBVIOUS
  <2>6. queue \in Seq(Writers) /\ mem \in Seq(Records) /\ imm \in Seq(Records)
    BY <2>2
  <2>7. /\ group \in Groups /\ tmpCount \in Nat
        /\ done \subseteq Writers /\ signalled \subseteq Writers
        /\ tables \subseteq Records /\ dropped \subseteq Writers
    BY <1>1
  <2> QED
    BY <2>1, <2>3, <2>4, <2>5, <2>6, <2>7 DEF TypeOK
<1>4. QueueInv
  BY <1>2 DEF QueueInv, Leading
<1>5. WakeUps /\ GroupInv
  BY <1>2 DEF WakeUps, GroupInv
<1>6. LogCovers /\ RotationInv
  BY <1>2 DEF LogCovers, RotationInv
<1> QED
  BY <1>3, <1>4, <1>5, <1>6 DEF IInv

\* What follows from the invariant for the call that takes a step as leader.
LEMMA LeaderFacts ==
  ASSUME IInv, NEW w \in Writers, pc[w] \in Leading
  PROVE  /\ w \in Elements(queue)
         /\ \A v \in Writers \ {w} :
              pc[v] \notin Leading \cup {"spinning", "rejected"}
         /\ pc[w] # "rotating" => logOpen
<1>1. /\ w \in Elements(queue)
      /\ \A v \in Writers \ {w} :
           pc[v] \notin Leading \cup {"spinning", "rejected"}
  BY OthersWait DEF IInv
<1>2. pc[w] # "rotating" => logOpen
  BY <1>1 DEF IInv, RotationInv, Leading
<1> QED
  BY <1>1, <1>2

\* LogCovers speaks of these variables only.
LEMMA LogStays ==
  ASSUME LogCovers, UNCHANGED <<logs, logNumber, mem, imm, hasImm>>
  PROVE  LogCovers'
<1>1. Elements(mem)' \subseteq Elements(logs[Len(logs)])'
  BY DEF LogCovers, Elements
<1>2. ~hasImm' => imm' = <<>>
  BY DEF LogCovers
<1>3. hasImm' => logNumber' < Len(logs')
  BY DEF LogCovers
<1>4. hasImm' => Elements(imm)' \subseteq Elements(logs[Len(logs) - 1])'
  BY SMTT(30) DEF LogCovers, Elements
<1> QED
  BY <1>1, <1>2, <1>3, <1>4, ZenonT(30) DEF LogCovers

\* Steps of the leader that touch neither queue, group, log nor memtable.
LEMMA PlainMove ==
  ASSUME IInv, NEW w \in Writers, pc[w] \in Leading, pc[w] # "rotating",
         NEW p \in (Leading \ {"rotating"}) \cup {"spinning", "rejected"},
         Goto(w, p), p \in {"building", "logging"} => pc[w] = "building",
         UNCHANGED <<queueVars, force, batchVars, logVars, memVars,
                     lastSequence, bgError, dropped>>
  PROVE  IInv'
<1> USE DEF queueVars, batchVars, logVars, memVars
<1>1. QueueInv' /\ WakeUps' /\ pc' \in [Writers -> Places]
  BY LeaderMoves DEF IInv
<1>2. pc'[w] = p /\ \A v \in Writers \ {w} : pc'[v] = pc[v]
  BY DEF Goto, IInv, TypeOK
<1>3. TypeOK'
  BY <1>1 DEF IInv, TypeOK
<1>4. GroupInv'
  BY <1>2, LeaderFacts DEF IInv, GroupInv, Elements
<1>5. LogCovers'
  BY LogStays DEF IInv
<1>6. RotationInv'
  <2>1. logOpen' /\ \A v \in Writers : pc'[v] # "rotating"
    BY <1>2, LeaderFacts DEF Leading
  <2> QED
    BY <2>1 DEF RotationInv
<1> QED
  BY <1>1, <1>3, <1>4, <1>5, <1>6 DEF IInv

\* A leader that ends without having written anything.
LEMMA PlainRelease ==
  ASSUME IInv, NEW w \in Writers, pc[w] = "room", Release(w, w),
         UNCHANGED <<force, batchVars, logVars, memVars, lastSequence, bgError>>,
         dropped' \subseteq Writers
  PROVE  IInv'
<1> USE DEF batchVars, logVars, memVars
<1>0. pc[w] \in Leading /\ pc[w] # "rotating"
  BY DEF Leading
<1>1. /\ QueueInv' /\ WakeUps'
      /\ queue' \in Seq(Writers) /\ pc' \in [Writers -> Places]
      /\ done' \subseteq Writers /\ signalled' \subseteq Writers
      /\ \A v \in Writers : pc'[v] \notin Leading \cup {"spinning", "rejected"}
  BY <1>0, LeaderFacts, ReleaseQueue DEF IInv
<1>2. TypeOK'
  BY <1>1 DEF IInv, TypeOK
<1>3. GroupInv'
  BY <1>1 DEF GroupInv, Leading
<1>4. LogCovers'
  BY LogStays DEF IInv
<1>5. RotationInv'
  <2>1. logOpen' /\ \A v \in Writers : pc'[v] # "rotating"
    BY <1>0, <1>1, LeaderFacts DEF Leading
  <2> QED
    BY <2>1 DEF RotationInv
<1> QED
  BY <1>1, <1>2, <1>3, <1>4, <1>5 DEF IInv

\* A leader that is rejected leaves the memtables as they are.
LEMMA Rejection ==
  ASSUME IInv, NEW w \in Writers, pc[w] \in Leading, Goto(w, "rejected"),
         UNCHANGED <<queueVars, force, batchVars, logOpen, logNumber, memVars,
                     lastSequence, bgError, dropped>>,
         logs' \in Seq(Seq(Records)), logNumber \in 1..Len(logs'), LogCovers'
  PROVE  IInv'
<1> USE DEF queueVars, batchVars, memVars
<1>1. QueueInv' /\ WakeUps' /\ pc' \in [Writers -> Places]
  BY LeaderMoves DEF IInv
<1>2. pc'[w] = "rejected" /\ \A v \in Writers \ {w} : pc'[v] = pc[v]
  BY DEF Goto, IInv, TypeOK
<1>3. TypeOK'
  BY <1>1 DEF IInv, TypeOK
<1>4. GroupInv'
  BY <1>2, LeaderFacts DEF GroupInv, Leading
<1>5. RotationInv'
  <2>1. \A v \in Writers : pc'[v] # "rotating"
    BY <1>2, LeaderFacts DEF Leading
  <2> QED
    BY <1>2, <2>1 DEF RotationInv
<1> QED
  BY <1>1, <1>3, <1>4, <1>5 DEF IInv

\* The record that a leader writes, and the log with it.
LEMMA LoggedFacts ==
  ASSUME IInv
  PROVE  /\ GroupRecord \in Records
         /\ Logged(GroupRecord) \in Seq(Seq(Records))
         /\ Len(Logged(GroupRecord)) = Len(logs)
         /\ Len(logs) \in Nat \ {0}
         /\ Elements(Logged(GroupRecord)[Len(logs)])
              = Elements(logs[Len(logs)]) \cup {GroupRecord}
         /\ \A i \in 1..Len(logs) : i # Len(logs) => Logged(GroupRecord)[i] = logs[i]
<1>1. logs \in Seq(Seq(Records)) /\ Len(logs) \in Nat \ {0}
  BY DEF IInv, TypeOK
<1>2. /\ group.after \in Nat /\ group.size \in Nat /\ group.batches \in Seq(Writers)
  BY DEF IInv, TypeOK, Groups
<1>3. GroupRecord \in Records
  BY <1>2 DEF GroupRecord, Records
<1>4. logs[Len(logs)] \in Seq(Records)
  BY <1>1
<1>5. Append(logs[Len(logs)], GroupRecord) \in Seq(Records)
  BY <1>3, <1>4
<1>6. /\ Logged(GroupRecord) \in Seq(Seq(Records))
      /\ Len(Logged(GroupRecord)) = Len(logs)
      /\ Logged(GroupRecord)[Len(logs)] = Append(logs[Len(logs)], GroupRecord)
      /\ \A i \in 1..Len(logs) : i # Len(logs) => Logged(GroupRecord)[i] = logs[i]
  BY <1>1, <1>5 DEF Logged
<1>7. Elements(Append(logs[Len(logs)], GroupRecord))
        = Elements(logs[Len(logs)]) \cup {GroupRecord}
  BY <1>3, <1>4, ElementsAppend
<1> QED
  BY <1>1, <1>3, <1>6, <1>7

\* A longer record file still covers the memtables.
LEMMA LoggedCovers ==
  ASSUME IInv, logs' = Logged(GroupRecord),
         UNCHANGED <<logNumber, imm, hasImm>>,
         mem' = mem \/ mem' = Append(mem, GroupRecord)
  PROVE  LogCovers'
<1> DEFINE n == Len(logs)
<1>1. /\ GroupRecord \in Records /\ Len(logs') = n /\ n \in Nat \ {0}
      /\ Elements(logs'[n]) = Elements(logs[n]) \cup {GroupRecord}
      /\ \A i \in 1..n : i # n => logs'[i] = logs[i]
  BY LoggedFacts
<1>2. mem \in Seq(Records) /\ logNumber \in 1..n
  BY DEF IInv, TypeOK
<1>3. Elements(mem') \subseteq Elements(logs'[Len(logs')])
  <2>1. Elements(mem) \subseteq Elements(logs[n])
    BY DEF IInv, LogCovers
  <2>2. Elements(Append(mem, GroupRecord)) = Elements(mem) \cup {GroupRecord}
    BY <1>1, <1>2, ElementsAppend
  <2>3. Elements(mem') \subseteq Elements(mem) \cup {GroupRecord}
    BY <2>2
  <2> QED
    BY <2>1, <2>3, <1>1
<1>4. hasImm' => logNumber' < Len(logs')
  BY <1>1 DEF IInv, LogCovers
<1>5. hasImm' => Elements(imm') \subseteq Elements(logs'[Len(logs') - 1])
  <2>1. CASE hasImm
    <3>1. logNumber < n /\ Elements(imm) \subseteq Elements(logs[n - 1])
      BY <2>1 DEF IInv, LogCovers
    <3>2. n - 1 \in 1..n /\ n - 1 # n
      BY <3>1, <1>1, <1>2
    <3> QED
      BY <3>1, <3>2, <1>1
  <2>2. CASE ~hasImm
    BY <2>2
  <2> QED
    BY <2>1, <2>2
<1>6. ~hasImm' => imm' = <<>>
  BY DEF IInv, LogCovers
<1> QED
  BY <1>3, <1>4, <1>5, <1>6, Zenon DEF LogCovers, Elements

\* The writers behind the group, while it is built.
LEMMA BehindFacts ==
  ASSUME IInv, group.last \in Elements(queue)
  PROVE  /\ Behind \in Seq(Writers)
         /\ Elements(Behind) \subseteq Elements(queue)
         /\ Behind # <<>> => Behind[1] \in Elements(queue) /\ Behind[1] \in Writers
<1> DEFINE n == Position(group.last)
<1>1. n \in 1..Len(queue) /\ queue \in Seq(Writers) /\ Len(queue) \in Nat
  BY PositionIsThere DEF IInv, TypeOK
<1>2. /\ Behind \in Seq(Writers)
      /\ Len(Behind) = Len(queue) - n
      /\ \A i \in 1..Len(Behind) : Behind[i] = queue[i + n]
  BY <1>1 DEF Behind
<1>3. Elements(Behind) \subseteq Elements(queue)
  <2>1. \A i \in 1..Len(Behind) : i + n \in 1..Len(queue)
    BY <1>1, <1>2
  <2> HIDE DEF n
  <2>2. ASSUME NEW v \in Elements(Behind)
        PROVE  v \in Elements(queue)
    <3>1. PICK i \in 1..Len(Behind) : v = Behind[i]
      BY DEF Elements
    <3> QED
      BY <3>1, <2>1, <1>2 DEF Elements
  <2> QED
    BY <2>2
<1>4. Behind # <<>> => 1 \in 1..Len(Behind)
  BY <1>2
<1>5. Behind # <<>> => Behind[1] \in Elements(queue) /\ Behind[1] \in Writers
  <2>1. Behind # <<>> => Behind[1] \in Elements(Behind)
    BY <1>4 DEF Elements
  <2>2. Elements(queue) \subseteq Writers
    BY <1>1 DEF Elements
  <2> QED
    BY <2>1, <2>2, <1>3
<1> QED
  BY <1>2, <1>3, <1>5

LEMMA AbsorbIInv ==
  ASSUME IInv, NEW w \in Writers, Absorb(w)
  PROVE  IInv'
<1> USE DEF queueVars, logVars, memVars
<1> DEFINE next == Behind[1]
<1>1. /\ pc[w] = "building" /\ Behind # <<>>
      /\ group' =
            [last    |-> next,
             batches |-> IF next \in Forced THEN group.batches
                         ELSE Append(group.batches, next),
             size    |-> group.size + IF next \in Forced THEN 0 ELSE Count[next],
             max     |-> group.max,
             after   |-> group.after]
      /\ tmpCount' = IF next \in Forced THEN tmpCount
                     ELSE tmpCount + Count[next] +
                            IF Len(group.batches) = 1 THEN group.size ELSE 0
      /\ UNCHANGED <<queueVars, pc, force, logVars, memVars, lastSequence,
                     bgError, dropped>>
  BY DEF Absorb, At
<1>2. next \in Elements(queue) /\ next \in Writers
  BY <1>1, BehindFacts DEF IInv, GroupInv
<1>3. group \in Groups /\ tmpCount \in Nat /\ Count[next] \in Nat
  BY <1>2, WriteQueueAssumption DEF IInv, TypeOK
<1>4. group' \in Groups /\ group'.last = next /\ group'.after = group.after
  <2>1. (IF next \in Forced THEN group.batches ELSE Append(group.batches, next))
          \in Seq(Writers)
    BY <1>2, <1>3 DEF Groups
  <2>2. (group.size + IF next \in Forced THEN 0 ELSE Count[next]) \in Nat
    BY <1>3 DEF Groups
  <2> QED
    BY <1>1, <1>2, <1>3, <2>1, <2>2 DEF Groups
<1>5. tmpCount' \in Nat
  BY <1>1, <1>3, SMTT(30) DEF Groups
<1>6. TypeOK'
  BY <1>1, <1>4, <1>5 DEF IInv, TypeOK
<1>7. QueueInv' /\ WakeUps'
  BY <1>1 DEF IInv, QueueInv, WakeUps, Elements, Front
<1>8. GroupInv'
  BY <1>1, <1>2, <1>4 DEF IInv, GroupInv, Elements
<1>9. LogCovers'
  BY <1>1, LogStays DEF IInv
<1>10. RotationInv'
  BY <1>1 DEF IInv, RotationInv
<1> QED
  BY <1>6, <1>7, <1>8, <1>9, <1>10 DEF IInv

LEMMA CommitIInv ==
  ASSUME IInv, NEW w \in Writers, Commit(w)
  PROVE  IInv'
<1>1. /\ pc[w] = "logging" /\ pc[w] \in Leading /\ pc[w] # "rotating"
      /\ logs' = Logged(GroupRecord)
      /\ mem' = Append(mem, GroupRecord)
      /\ memSize' = memSize + group.size
      /\ lastSequence' = lastSequence + group.size
      /\ group' = NoGroup
      /\ tmpCount' = 0
      /\ Release(w, group.last)
      /\ UNCHANGED <<force, logOpen, logNumber, imm, hasImm, tables, bgError,
                     dropped>>
  BY DEF Commit, At, Leading, IInv, GroupInv
<1>2. /\ QueueInv' /\ WakeUps'
      /\ queue' \in Seq(Writers) /\ pc' \in [Writers -> Places]
      /\ done' \subseteq Writers /\ signalled' \subseteq Writers
      /\ \A v \in Writers : pc'[v] \notin Leading \cup {"spinning", "rejected"}
  BY <1>1, ReleaseQueue DEF IInv, GroupInv
<1>3. /\ logs' \in Seq(Seq(Records)) /\ Len(logs') = Len(logs)
      /\ mem' \in Seq(Records)
  BY <1>1, LoggedFacts DEF IInv, TypeOK
<1>4. /\ group.size \in Nat /\ NoGroup \in Groups
      /\ memSize \in Nat /\ lastSequence \in Nat
  BY WriteQueueAssumption DEF IInv, TypeOK, Groups, NoGroup
<1>5. TypeOK'
  <2>1. memSize' \in Nat /\ lastSequence' \in Nat /\ tmpCount' \in Nat
    BY <1>1, <1>4
  <2>2. logNumber' \in 1..Len(logs')
    BY <1>1, <1>3 DEF IInv, TypeOK
  <2>3. /\ force' \in [Writers -> BOOLEAN] /\ group' \in Groups
        /\ logOpen' \in BOOLEAN /\ hasImm' \in BOOLEAN /\ bgError' \in BOOLEAN
        /\ imm' \in Seq(Records) /\ tables' \subseteq Records
        /\ dropped' \subseteq Writers
    BY <1>1, <1>4 DEF IInv, TypeOK
  <2> QED
    BY <1>2, <1>3, <2>1, <2>2, <2>3 DEF TypeOK
<1>6. GroupInv'
  BY <1>2 DEF GroupInv, Leading
<1>7. LogCovers'
  BY <1>1, LoggedCovers
<1>8. RotationInv'
  <2>1. logOpen' /\ \A v \in Writers : pc'[v] # "rotating"
    BY <1>1, <1>2, LeaderFacts DEF Leading
  <2> QED
    BY <2>1 DEF RotationInv
<1> QED
  BY <1>2, <1>5, <1>6, <1>7, <1>8 DEF IInv

LEMMA RotatedIInv ==
  ASSUME IInv, NEW w \in Writers, Rotated(w)
  PROVE  IInv'
<1> USE DEF queueVars, batchVars
<1>1. /\ pc[w] = "rotating" /\ pc[w] \in Leading
      /\ logs' = Append(logs, <<>>)
      /\ logOpen' = TRUE /\ hasImm' = TRUE
      /\ imm' = mem /\ mem' = <<>> /\ memSize' = 0
      /\ force' = [force EXCEPT ![w] = FALSE]
      /\ Goto(w, "compacting")
      /\ UNCHANGED <<queueVars, batchVars, logNumber, tables, lastSequence,
                     bgError, dropped>>
  BY DEF Rotated, At, Leading
<1>2. "compacting" \in Leading \cup {"spinning", "rejected"}
  BY DEF Leading
<1>3. QueueInv' /\ WakeUps' /\ pc' \in [Writers -> Places]
  BY <1>1, <1>2, LeaderMoves DEF IInv
<1>4. pc'[w] = "compacting" /\ \A v \in Writers \ {w} : pc'[v] = pc[v]
  BY <1>1 DEF Goto, IInv, TypeOK
<1>5. logs \in Seq(Seq(Records)) /\ logNumber \in 1..Len(logs) /\ Len(logs) \in Nat
  BY DEF IInv, TypeOK
<1>6. <<>> \in Seq(Records)
  OBVIOUS
<1>7. /\ logs' \in Seq(Seq(Records)) /\ Len(logs') = Len(logs) + 1
      /\ logs'[Len(logs)] = logs[Len(logs)]
      /\ logs'[Len(logs) + 1] = <<>>
  BY <1>1, <1>5, <1>6
<1>8. TypeOK'
  <2>1. logNumber' \in 1..Len(logs')
    BY <1>1, <1>5, <1>7
  <2>2. imm' \in Seq(Records) /\ mem' \in Seq(Records) /\ memSize' \in Nat
    BY <1>1 DEF IInv, TypeOK
  <2>3. force' \in [Writers -> BOOLEAN]
    BY <1>1 DEF IInv, TypeOK
  <2>4. hasImm' \in BOOLEAN /\ logOpen' \in BOOLEAN
    BY <1>1
  <2> QED
    BY <1>1, <1>3, <1>7, <2>1, <2>2, <2>3, <2>4 DEF IInv, TypeOK
<1>9. GroupInv'
  BY <1>1, <1>4, LeaderFacts DEF GroupInv, Leading
<1>10. LogCovers'
  <2>1. Elements(mem') = {}
    BY <1>1 DEF Elements
  <2>2. logNumber' < Len(logs')
    BY <1>1, <1>5, <1>7
  <2>3. Elements(imm') \subseteq Elements(logs'[Len(logs') - 1])
    BY <1>1, <1>5, <1>7 DEF IInv, LogCovers
  <2> QED
    BY <1>1, <2>1, <2>2, <2>3, Zenon DEF LogCovers, Elements
<1>11. RotationInv'
  <2>1. logOpen' /\ \A v \in Writers : pc'[v] # "rotating"
    BY <1>1, <1>4, LeaderFacts DEF Leading
  <2> QED
    BY <2>1 DEF RotationInv
<1> QED
  BY <1>3, <1>8, <1>9, <1>10, <1>11 DEF IInv

LEMMA RoomAvailableIInv ==
  ASSUME IInv, NEW w \in Writers, RoomAvailable(w)
  PROVE  IInv'
<1> USE DEF queueVars, logVars, memVars
<1>1. /\ pc[w] = "room" /\ pc[w] \in Leading
      /\ group' = [last |-> w, batches |-> <<w>>, size |-> Count[w],
                   max |-> IF Count[w] <= Limit THEN Count[w] + Limit ELSE MaxGroup,
                   after |-> lastSequence]
      /\ Goto(w, "building")
      /\ UNCHANGED <<queueVars, force, tmpCount, logVars, memVars, lastSequence,
                     bgError, dropped>>
  BY DEF RoomAvailable, At, Leading
<1>2. "building" \in Leading \cup {"spinning", "rejected"}
  BY DEF Leading
<1>3. QueueInv' /\ WakeUps' /\ pc' \in [Writers -> Places]
  BY <1>1, <1>2, LeaderMoves DEF IInv
<1>4. pc'[w] = "building" /\ \A v \in Writers \ {w} : pc'[v] = pc[v]
  BY <1>1 DEF Goto, IInv, TypeOK
<1>5. group' \in Groups /\ group'.last = w /\ group'.after = lastSequence
  <2>1. Count[w] \in Nat /\ Limit \in Nat /\ MaxGroup \in Nat /\ lastSequence \in Nat
    BY WriteQueueAssumption DEF IInv, TypeOK
  <2>2. <<w>> \in Seq(Writers)
    OBVIOUS
  <2> QED
    BY <1>1, <2>1, <2>2 DEF Groups
<1>6. TypeOK'
  BY <1>1, <1>3, <1>5 DEF IInv, TypeOK
<1>7. GroupInv'
  BY <1>1, <1>5, LeaderFacts DEF GroupInv, Elements
<1>8. LogCovers'
  BY <1>1, LogStays DEF IInv
<1>9. RotationInv'
  <2>1. logOpen' /\ \A v \in Writers : pc'[v] # "rotating"
    BY <1>1, <1>4, LeaderFacts DEF Leading
  <2> QED
    BY <2>1 DEF RotationInv
<1> QED
  BY <1>3, <1>6, <1>7, <1>8, <1>9 DEF IInv

LEMMA RoomRotateIInv ==
  ASSUME IInv, NEW w \in Writers, RoomRotate(w)
  PROVE  IInv'
<1> USE DEF queueVars, batchVars, memVars
<1>1. /\ pc[w] = "room" /\ pc[w] \in Leading /\ ~hasImm
      /\ logOpen' = FALSE
      /\ Goto(w, "rotating")
      /\ UNCHANGED <<queueVars, force, batchVars, logs, logNumber, memVars,
                     lastSequence, bgError, dropped>>
  BY DEF RoomRotate, At, Leading
<1>2. "rotating" \in Leading \cup {"spinning", "rejected"}
  BY DEF Leading
<1>3. QueueInv' /\ WakeUps' /\ pc' \in [Writers -> Places]
  BY <1>1, <1>2, LeaderMoves DEF IInv
<1>4. pc'[w] = "rotating" /\ \A v \in Writers \ {w} : pc'[v] = pc[v]
  BY <1>1 DEF Goto, IInv, TypeOK
<1>5. TypeOK'
  BY <1>1, <1>3 DEF IInv, TypeOK
<1>6. GroupInv'
  BY <1>1, <1>4, LeaderFacts DEF GroupInv, Leading
<1>7. LogCovers'
  BY <1>1, LogStays DEF IInv
<1>8. RotationInv'
  BY <1>1, <1>4, Zenon DEF RotationInv
<1> QED
  BY <1>3, <1>5, <1>6, <1>7, <1>8 DEF IInv

\* The queue, the calls, the group and the last sequence number do not change.
LEMMA CallsStay ==
  ASSUME IInv, UNCHANGED <<queueVars, pc, group, lastSequence>>
  PROVE  QueueInv' /\ WakeUps' /\ GroupInv'
BY DEF queueVars, IInv, QueueInv, WakeUps, GroupInv, Elements, Front

LEMMA FlushIInv ==
  ASSUME IInv, FlushImm
  PROVE  IInv'
<1> USE DEF queueVars, batchVars
<1>1. /\ hasImm
      /\ tables' = tables \cup Elements(imm)
      /\ logNumber' = Len(logs) /\ imm' = <<>> /\ hasImm' = FALSE
      /\ UNCHANGED <<queueVars, pc, force, batchVars, logs, logOpen, mem,
                     memSize, lastSequence, bgError, dropped>>
  BY DEF FlushImm
<1>2. imm \in Seq(Records) /\ tables \subseteq Records /\ Len(logs) \in Nat \ {0}
  BY DEF IInv, TypeOK
<1>3. TypeOK'
  <2>1. Elements(imm) \subseteq Records
    BY <1>2 DEF Elements
  <2>2. logNumber' \in 1..Len(logs')
    BY <1>1, <1>2
  <2>3. hasImm' \in BOOLEAN
    BY <1>1, Zenon
  <2>4. <<>> \in Seq(Records)
    OBVIOUS
  <2> QED
    BY <1>1, <1>2, <2>1, <2>2, <2>3, <2>4 DEF IInv, TypeOK
<1>4. QueueInv' /\ WakeUps' /\ GroupInv'
  BY <1>1, CallsStay
<1>5. LogCovers'
  <2>1. Elements(mem)' \subseteq Elements(logs[Len(logs)])'
    BY <1>1 DEF IInv, LogCovers, Elements
  <2> QED
    BY <1>1, <2>1, Zenon DEF LogCovers
<1>6. RotationInv'
  <2>1. \A w \in Writers : pc'[w] = "rotating" => ~hasImm'
    BY <1>1
  <2>2. ~logOpen' => \E w \in Writers : pc'[w] \in {"rotating", "rejected"}
    BY <1>1 DEF IInv, RotationInv
  <2> QED
    BY <2>1, <2>2, Zenon DEF RotationInv
<1> QED
  BY <1>3, <1>4, <1>5, <1>6 DEF IInv

LEMMA CallIInv ==
  ASSUME IInv, NEW w \in Writers, Call(w)
  PROVE  IInv'
<1> USE DEF batchVars, logVars, memVars
<1>1. /\ UNCHANGED <<done, signalled, force, batchVars, logVars, memVars,
                     lastSequence, bgError, dropped>>
      /\ Goto(w, IF queue = <<>> THEN "room" ELSE "queued")
      /\ pc[w] = "idle" /\ queue' = Append(queue, w)
  BY DEF Call, At
<1>2. /\ QueueInv' /\ WakeUps'
      /\ queue' \in Seq(Writers) /\ pc' \in [Writers -> Places]
  BY CallQueue DEF IInv
<1>3. pc'[w] \in {"room", "queued"} /\ \A v \in Writers \ {w} : pc'[v] = pc[v]
  BY <1>1 DEF Goto, IInv, TypeOK
<1>4. TypeOK'
  BY <1>1, <1>2 DEF IInv, TypeOK
<1>5. GroupInv'
  <2>1. Elements(queue') = Elements(queue) \cup {w}
    BY <1>1, ElementsAppend DEF IInv, TypeOK
  <2> QED
    BY <1>1, <1>3, <2>1 DEF IInv, GroupInv, Elements
<1>6. LogCovers'
  BY <1>1, LogStays DEF IInv
<1>7. RotationInv'
  <2>1. \A v \in Writers : pc'[v] = "rotating" => ~hasImm'
    BY <1>1, <1>3 DEF IInv, RotationInv
  <2>2. ~logOpen' => \E v \in Writers : pc'[v] \in {"rotating", "rejected"}
    BY <1>1, <1>3 DEF IInv, RotationInv
  <2> QED
    BY <2>1, <2>2, Zenon DEF RotationInv
<1> QED
  BY <1>2, <1>4, <1>5, <1>6, <1>7 DEF IInv

LEMMA ResumeIInv ==
  ASSUME IInv, NEW w \in Writers, Resume(w)
  PROVE  IInv'
<1> USE DEF batchVars, logVars, memVars
<1>1. /\ UNCHANGED <<queue, done, force, batchVars, logVars, memVars,
                     lastSequence, bgError, dropped>>
      /\ Goto(w, IF w \in done THEN "returned" ELSE "room")
      /\ pc[w] = "queued" /\ signalled' = signalled \ {w}
  BY DEF Resume, At
<1>2. QueueInv' /\ WakeUps' /\ pc' \in [Writers -> Places]
  BY ResumeQueue DEF IInv
<1>3. pc'[w] \in {"room", "returned"} /\ \A v \in Writers \ {w} : pc'[v] = pc[v]
  BY <1>1 DEF Goto, IInv, TypeOK
<1>4. TypeOK'
  BY <1>1, <1>2 DEF IInv, TypeOK
<1>5. GroupInv'
  BY <1>1, <1>3 DEF IInv, GroupInv, Elements
<1>6. LogCovers'
  BY <1>1, LogStays DEF IInv
<1>7. RotationInv'
  <2>1. \A v \in Writers : pc'[v] = "rotating" => ~hasImm'
    BY <1>1, <1>3 DEF IInv, RotationInv
  <2>2. ~logOpen' => \E v \in Writers : pc'[v] \in {"rotating", "rejected"}
    BY <1>1, <1>3 DEF IInv, RotationInv
  <2> QED
    BY <2>1, <2>2, Zenon DEF RotationInv
<1> QED
  BY <1>2, <1>4, <1>5, <1>6, <1>7 DEF IInv

LEMMA LogFailsIInv ==
  ASSUME IInv, NEW w \in Writers, LogFails(w)
  PROVE  IInv'
<1>1. /\ pc[w] \in Leading
      /\ logs' = logs \/ logs' = Logged(GroupRecord)
      /\ Goto(w, "rejected")
      /\ UNCHANGED <<queueVars, force, batchVars, logOpen, logNumber, memVars,
                     lastSequence, bgError, dropped>>
  BY DEF LogFails, At, Leading
<1>2. CASE logs' = logs
  <2>1. logs' \in Seq(Seq(Records)) /\ logNumber \in 1..Len(logs')
    BY <1>2 DEF IInv, TypeOK
  <2>2. LogCovers'
    BY <1>1, <1>2, LogStays DEF IInv, memVars
  <2> QED
    BY <1>1, <2>1, <2>2, Rejection
<1>3. CASE logs' = Logged(GroupRecord)
  <2>1. logs' \in Seq(Seq(Records)) /\ logNumber \in 1..Len(logs')
    BY <1>3, LoggedFacts DEF IInv, TypeOK
  <2>2. LogCovers'
    BY <1>1, <1>3, LoggedCovers DEF memVars
  <2> QED
    BY <1>1, <2>1, <2>2, Rejection
<1> QED
  BY <1>1, <1>2, <1>3

LEMMA StutterIInv ==
  ASSUME IInv, UNCHANGED vars
  PROVE  IInv'
<1> USE DEF vars, queueVars, batchVars, logVars, memVars
<1>1. TypeOK'
  BY DEF IInv, TypeOK
<1>2. QueueInv' /\ WakeUps' /\ GroupInv'
  BY CallsStay
<1>3. LogCovers'
  BY LogStays DEF IInv
<1>4. RotationInv'
  BY DEF IInv, RotationInv
<1> QED
  BY <1>1, <1>2, <1>3, <1>4 DEF IInv

LEMMA BackgroundFailsIInv ==
  ASSUME IInv, BackgroundFails
  PROVE  IInv'
<1> USE DEF queueVars, batchVars, logVars, memVars
<1>1. /\ bgError' = TRUE
      /\ UNCHANGED <<queueVars, pc, force, batchVars, logVars, memVars,
                     lastSequence, dropped>>
  BY DEF BackgroundFails
<1>2. TypeOK'
  <2>1. bgError' \in BOOLEAN
    BY <1>1, Zenon
  <2> QED
    BY <1>1, <2>1 DEF IInv, TypeOK
<1>3. QueueInv' /\ WakeUps' /\ GroupInv'
  BY <1>1, CallsStay
<1>4. LogCovers'
  BY <1>1, LogStays DEF IInv
<1>5. RotationInv'
  BY <1>1 DEF IInv, RotationInv
<1> QED
  BY <1>2, <1>3, <1>4, <1>5 DEF IInv

\* The steps of a call, each by the lemma for its kind.
LEMMA StepIInv ==
  ASSUME IInv, NEW w \in Writers, Step(w)
  PROVE  IInv'
<1>1. CASE Resume(w)
  BY <1>1, ResumeIInv
<1>2. CASE RoomError(w)
  <2>1. dropped' \subseteq Writers
    BY <1>2 DEF RoomError, IInv, TypeOK
  <2> QED
    BY <1>2, <2>1, PlainRelease DEF RoomError, At
<1>3. CASE RoomNoBatch(w)
  <2>1. dropped' \subseteq Writers
    BY <1>3 DEF RoomNoBatch, IInv, TypeOK
  <2> QED
    BY <1>3, <2>1, PlainRelease DEF RoomNoBatch, At
<1>4. CASE RoomAvailable(w)
  BY <1>4, RoomAvailableIInv
<1>5. CASE RoomSpin(w)
  BY <1>5, PlainMove DEF RoomSpin, At, Leading
<1>6. CASE RoomRotate(w)
  BY <1>6, RoomRotateIInv
<1>7. CASE Rotated(w)
  BY <1>7, RotatedIInv
<1>8. CASE Scheduled(w)
  BY <1>8, PlainMove DEF Scheduled, At, Leading
<1>9. CASE Absorb(w)
  BY <1>9, AbsorbIInv
<1>10. CASE Seal(w)
  BY <1>10, PlainMove DEF Seal, At, Leading
<1>11. CASE Commit(w)
  BY <1>11, CommitIInv
<1>12. CASE RotateFails(w)
  <2>1. /\ pc[w] \in Leading /\ Goto(w, "rejected")
        /\ UNCHANGED <<queueVars, force, batchVars, logVars, memVars,
                       lastSequence, bgError, dropped>>
    BY <1>12 DEF RotateFails, At, Leading
  <2>2. logs' \in Seq(Seq(Records)) /\ logNumber \in 1..Len(logs')
    BY <2>1 DEF logVars, IInv, TypeOK
  <2>3. LogCovers'
    BY <2>1, LogStays DEF IInv, logVars, memVars
  <2> QED
    BY <2>1, <2>2, <2>3, Rejection DEF logVars
<1>13. CASE BackgroundThrows(w)
  BY <1>13, PlainMove DEF BackgroundThrows, At, Leading
<1>14. CASE LogFails(w)
  BY <1>14, LogFailsIInv
<1> QED
  BY <1>1, <1>2, <1>3, <1>4, <1>5, <1>6, <1>7, <1>8, <1>9, <1>10, <1>11,
     <1>12, <1>13, <1>14 DEF Step

LEMMA NextIInv == IInv /\ [Next]_vars => IInv'
<1> SUFFICES ASSUME IInv, [Next]_vars
             PROVE  IInv'
  OBVIOUS
<1>1. CASE \E w \in Writers : Call(w) \/ Step(w)
  BY <1>1, CallIInv, StepIInv
<1>2. CASE FlushImm
  BY <1>2, FlushIInv
<1>3. CASE BackgroundFails
  BY <1>3, BackgroundFailsIInv
<1>4. CASE UNCHANGED vars
  BY <1>4, StutterIInv
<1> QED
  BY <1>1, <1>2, <1>3, <1>4 DEF Next, Terminated

\* The invariant holds in every reachable state.
LEMMA Inductive == Spec => []IInv
<1> QED
  BY InitIInv, NextIInv, PTL DEF Spec

-----------------------------------------------------------------------------
(***************************************************************************)
(* The theorems.                                                           *)
(***************************************************************************)

\* Every variable of the write path keeps its type; in particular the log
\* that recovery starts from is always one of the logs that were opened.
THEOREM TypeCorrect == Spec => []TypeOK
<1>1. IInv => TypeOK
  BY DEF IInv
<1> QED
  BY <1>1, Inductive, PTL

\* Mutual exclusion of Database.write: only the front writer is past
\* `await writer.wait()`, and the log it appends to is open.
THEOREM WritersExclude == Spec => []OneLeader
<1>1. IInv => OneLeader
  <2> SUFFICES ASSUME IInv
               PROVE  OneLeader
    OBVIOUS
  <2>1. \A w \in Writers :
          pc[w] \in Leading \cup {"spinning", "rejected"} => w \in Front(queue)
    BY DEF IInv, QueueInv
  <2>2. ASSUME NEW w \in Writers, pc[w] \in {"building", "logging"}
        PROVE  logOpen
    BY <2>2, LeaderFacts DEF Leading
  <2> QED
    BY <2>1, <2>2 DEF OneLeader
<1> QED
  BY <1>1, Inductive, PTL

\* WriterQueue.signal: no wake-up is lost, none reaches a writer that cannot
\* go on.
THEOREM NoLostWakeUp == Spec => []WakeUps
<1>1. IInv => WakeUps
  BY DEF IInv
<1> QED
  BY <1>1, Inductive, PTL

\* A crash of the process at any point finds every record of the memtables in
\* a log that recovery reads.
THEOREM LogsCoverMemory == Spec => []Recoverable
<1>1. IInv => Recoverable
  <2> SUFFICES ASSUME IInv
               PROVE  Recoverable
    OBVIOUS
  <2>1. Elements(mem) \subseteq Elements(logs[Len(logs)])
    BY DEF IInv, LogCovers
  <2>2. ASSUME NEW r \in Elements(imm)
        PROVE  \E k \in logNumber..Len(logs) : r \in Elements(logs[k])
    <3>1. hasImm
      <4>1. imm # <<>>
        BY <2>2 DEF Elements
      <4> QED
        BY <4>1 DEF IInv, LogCovers
    <3>2. r \in Elements(logs[Len(logs) - 1])
      BY <2>2, <3>1 DEF IInv, LogCovers
    <3>3. Len(logs) - 1 \in logNumber..Len(logs)
      BY <3>1 DEF IInv, LogCovers, TypeOK
    <3> QED
      BY <3>2, <3>3
  <2> QED
    BY <2>1, <2>2 DEF Recoverable
<1> QED
  BY <1>1, Inductive, PTL

\* A rejected leader stays at the front, so that nobody writes behind it.
LEMMA RejectedBlocks ==
  ASSUME IInv, NEW r \in Writers, pc[r] = "rejected", [Next]_vars
  PROVE  UNCHANGED <<logs, mem, lastSequence, dropped>>
<1> USE DEF logVars, memVars
<1>1. \A w \in Writers : pc[w] \notin Leading
  BY LeaderFacts DEF Leading
<1>2. CASE \E w \in Writers : Call(w) \/ Step(w)
  <2>1. PICK w \in Writers : Call(w) \/ Step(w)
    BY <1>2
  <2>2. CASE Call(w)
    BY <2>2 DEF Call
  <2>3. CASE Step(w)
    <3>1. Resume(w)
      BY <2>3, <1>1 DEF Step, Leading, At, RoomError, RoomNoBatch,
         RoomAvailable, RoomSpin, RoomRotate, Rotated, Scheduled, Absorb, Seal,
         Commit, RotateFails, BackgroundThrows, LogFails
    <3> QED
      BY <3>1 DEF Resume
  <2> QED
    BY <2>1, <2>2, <2>3
<1>3. CASE FlushImm
  BY <1>3 DEF FlushImm
<1>4. CASE BackgroundFails
  BY <1>4 DEF BackgroundFails
<1>5. CASE UNCHANGED vars
  BY <1>5 DEF vars
<1> QED
  BY <1>2, <1>3, <1>4, <1>5 DEF Next, Terminated

\* After a file operation of write() threw, neither the log nor the memtable
\* is written again: a record that may be torn stays the last one.
THEOREM FailureIsFinal == Spec => NothingAfterFailure
<1>1. IInv /\ [Next]_vars =>
        [(\E w \in Writers : pc[w] = "rejected")
           => UNCHANGED <<logs, mem, lastSequence, dropped>>]_vars
  BY RejectedBlocks
<1> QED
  BY <1>1, Inductive, PTL DEF Spec, NothingAfterFailure

-----------------------------------------------------------------------------
(***************************************************************************)
(* The mapping, and the invariant that it needs besides IInv.              *)
(***************************************************************************)

Called   == {w \in Writers : pc[w] # "idle"}
Applied  == UNION {Elements(r.batches) : r \in Committed}
Returned == {w \in Writers : pc[w] = "returned"}
Rejected == {w \in Writers : pc[w] = "rejected"}

\* The batches of a group are those of the writers that will be popped.
BatchInv ==
  \A w \in Writers : pc[w] \in {"building", "logging"} =>
    Elements(group.batches) =
      {queue[i] : i \in 1..Position(group.last)} \ Forced

\* What is applied belongs to calls that were popped, and they to nothing else.
AppliedInv ==
  /\ Applied \subseteq Returned \cup done
  /\ done \subseteq Forced \cup Applied
  /\ Returned \subseteq Forced \cup Applied \cup dropped
  /\ dropped \subseteq Returned \ Applied
  /\ dropped # {} => bgError
  /\ \A r, s \in Committed : r # s => Elements(r.batches) \cap Elements(s.batches) = {}

RInv == IInv /\ SequencesExact /\ BatchInv /\ AppliedInv

\* A call that waits or leads is in no record, and was not dropped.
LEMMA QueuedNotApplied ==
  ASSUME IInv, AppliedInv
  PROVE  Elements(queue) \cap (Applied \cup dropped) = {}
<1>1. Elements(queue) \subseteq Writers
  BY DEF IInv, TypeOK, Elements
<1>2. \A w \in Elements(queue) : w \notin Returned /\ w \notin done
  BY <1>1 DEF IInv, QueueInv, Leading, Returned
<1> QED
  BY <1>2 DEF AppliedInv

\* A writer is met where it stands.
LEMMA PositionOf ==
  \A q : (\A i, j \in 1..Len(q) : q[i] = q[j] => i = j) =>
    \A i \in 1..Len(q) : (CHOOSE j \in 1..Len(q) : q[j] = q[i]) = i
<1> SUFFICES ASSUME NEW q, \A i, j \in 1..Len(q) : q[i] = q[j] => i = j,
                    NEW i \in 1..Len(q)
             PROVE  (CHOOSE j \in 1..Len(q) : q[j] = q[i]) = i
  OBVIOUS
<1> DEFINE k == CHOOSE j \in 1..Len(q) : q[j] = q[i]
<1>1. k \in 1..Len(q) /\ q[k] = q[i]
  OBVIOUS
<1> QED
  BY <1>1

\* A leader is first in the queue, and nobody was rejected.
LEMMA LeaderFirst ==
  ASSUME IInv, NEW w \in Writers, pc[w] \in Leading
  PROVE  /\ queue # <<>> /\ w = queue[1] /\ 1 \in 1..Len(queue)
         /\ Position(w) = 1 /\ {queue[i] : i \in 1..Position(w)} = {w}
         /\ Rejected = {} /\ w \notin Returned /\ w \in Called
         /\ \A v \in Writers \ {w} : pc[v] \notin Leading
<1>1. /\ w = queue[1] /\ 1 \in 1..Len(queue)
      /\ \A v \in Writers \ {w} :
           pc[v] \notin Leading \cup {"spinning", "rejected"}
  BY OthersWait DEF IInv
<1>2. queue # <<>> /\ w \in Front(queue)
  BY DEF IInv, QueueInv, Front
<1>3. Position(w) = 1
  BY <1>1, PositionOf DEF Position, IInv, QueueInv
<1>4. pc[w] \notin {"rejected", "returned", "idle"}
  BY DEF Leading
<1> QED
  BY <1>1, <1>2, <1>3, <1>4 DEF Rejected, Returned, Called

-----------------------------------------------------------------------------
(***************************************************************************)
(* What a step does to the records that can be read.                       *)
(***************************************************************************)

\* Memtables that are switched or flushed lose none and win none.
LEMMA MemtablesStay ==
  ASSUME IInv, UNCHANGED memVars \/ FlushImm \/ \E w \in Writers : Rotated(w)
  PROVE  Committed' = Committed
<1>1. CASE UNCHANGED memVars
  BY <1>1 DEF memVars, Committed, Elements
<1>2. CASE FlushImm
  <2>1. tables' = tables \cup Elements(imm) /\ imm' = <<>> /\ mem' = mem
    BY <1>2 DEF FlushImm
  <2>2. Elements(imm') = {}
    BY <2>1 DEF Elements
  <2> QED
    BY <2>1, <2>2 DEF Committed, Elements
<1>3. ASSUME NEW w \in Writers, Rotated(w) PROVE Committed' = Committed
  <2>1. imm' = mem /\ mem' = <<>> /\ tables' = tables /\ pc[w] = "rotating"
    BY <1>3 DEF Rotated, At
  <2>2. imm = <<>>
    BY <2>1 DEF IInv, RotationInv, LogCovers
  <2>3. Elements(imm) = {} /\ Elements(mem') = {} /\ Elements(imm') = Elements(mem)
    BY <2>1, <2>2 DEF Elements
  <2> QED
    BY <2>1, <2>3 DEF Committed, Elements
<1> QED
  BY <1>1, <1>2, <1>3

\* A group is added as one record.
LEMMA CommitAdds ==
  ASSUME IInv, NEW w \in Writers, Commit(w)
  PROVE  /\ Committed' = Committed \cup {GroupRecord}
         /\ Applied' = Applied \cup Elements(group.batches)
         /\ group.size \in Nat /\ lastSequence \in Nat
<1>1. mem' = Append(mem, GroupRecord) /\ imm' = imm /\ tables' = tables
  BY DEF Commit
<1>2. group \in Groups /\ lastSequence \in Nat /\ mem \in Seq(Records)
  BY DEF IInv, TypeOK
<1>3. GroupRecord \in Records
  BY <1>2 DEF GroupRecord, Groups, Records
<1>4. Elements(mem') = Elements(mem) \cup {GroupRecord}
  BY <1>1, <1>2, <1>3, ElementsAppend
<1>5. Committed' = Committed \cup {GroupRecord}
  BY <1>1, <1>4 DEF Committed, Elements
<1>6. Applied' = Applied \cup Elements(GroupRecord.batches)
  BY <1>5 DEF Applied, Elements
<1>7. GroupRecord.batches = group.batches
  BY DEF GroupRecord
<1> QED
  BY <1>2, <1>5, <1>6, <1>7 DEF Groups

\* The sequence numbers depend on the records and on the last number only.
LEMMA SequencesStay ==
  ASSUME SequencesExact, Committed' = Committed, lastSequence' = lastSequence
  PROVE  SequencesExact'
BY DEF SequencesExact

LEMMA Intervals ==
  \A m, n \in Nat : /\ (1..m) \cup ((m + 1)..(m + n)) = 1..(m + n)
                    /\ (1..m) \cap ((m + 1)..(m + n)) = {}
  OBVIOUS

LEMMA CommitSequences ==
  ASSUME IInv, SequencesExact, NEW w \in Writers, Commit(w)
  PROVE  SequencesExact'
<1> DEFINE g == GroupRecord
           Numbers(r) == r.first..r.last
<1>0. group.after = lastSequence
  BY DEF Commit, At, IInv, GroupInv
<1>1. /\ Committed' = Committed \cup {g}
      /\ lastSequence' = lastSequence + group.size
      /\ group.size \in Nat /\ lastSequence \in Nat
  BY <1>0, CommitAdds DEF Commit
<1>2. Numbers(g) = (lastSequence + 1)..(lastSequence + group.size)
  BY <1>0 DEF GroupRecord
<1>3. UNION {Numbers(r) : r \in Committed} = 1..lastSequence
  BY DEF SequencesExact
<1>4. UNION {Numbers(r) : r \in Committed'} = 1..lastSequence'
  <2>1. UNION {Numbers(r) : r \in Committed'} = (1..lastSequence) \cup Numbers(g)
    <3> HIDE DEF g, Numbers
    <3> QED BY <1>1, <1>3
  <2>2. (1..lastSequence) \cup Numbers(g) = 1..lastSequence'
    <3> HIDE DEF g, Numbers
    <3> QED BY <1>1, <1>2, Intervals
  <2> QED
    BY <2>1, <2>2
<1>5. \A r \in Committed : Numbers(r) \cap Numbers(g) = {}
  <2>1. \A r \in Committed : Numbers(r) \subseteq 1..lastSequence
    <3> HIDE DEF Numbers
    <3> QED BY <1>3
  <2>2. (1..lastSequence) \cap Numbers(g) = {}
    <3> HIDE DEF g, Numbers
    <3> QED BY <1>1, <1>2, Intervals
  <2> HIDE DEF Numbers, g
  <2> QED
    BY <2>1, <2>2
<1>6. \A r, s \in Committed : r # s => Numbers(r) \cap Numbers(s) = {}
  BY DEF SequencesExact
<1>7. \A r, s \in Committed' : r # s => Numbers(r) \cap Numbers(s) = {}
  <2> HIDE DEF Numbers, g
  <2> QED BY <1>1, <1>5, <1>6
<1> QED
  BY <1>4, <1>7 DEF SequencesExact

-----------------------------------------------------------------------------
(***************************************************************************)
(* Steps that pop nobody.                                                  *)
(***************************************************************************)

LEMMA AppliedStays ==
  ASSUME AppliedInv, Committed' = Committed, done' = done, dropped' = dropped,
         Returned' = Returned, bgError => bgError'
  PROVE  AppliedInv' /\ Applied' = Applied
<1>1. Applied' = Applied
  BY DEF Applied
<1> QED
  BY <1>1 DEF AppliedInv

\* The group stands as it was, and its writers where they stood.
LEMMA BatchStays ==
  ASSUME IInv, IInv', BatchInv, group' = group,
         \A w \in Writers : pc'[w] \in {"building", "logging"} =>
                              pc[w] \in {"building", "logging"},
         Len(queue') \in Nat, Len(queue') >= Len(queue),
         \A i \in 1..Len(queue) : queue'[i] = queue[i]
  PROVE  BatchInv'
<1> SUFFICES ASSUME NEW w \in Writers, pc'[w] \in {"building", "logging"}
             PROVE  Elements(group.batches)' =
                      {queue'[i] : i \in 1..Position(group.last)'} \ Forced
  BY DEF BatchInv
<1>0. pc[w] \in {"building", "logging"}
  OBVIOUS
<1> DEFINE n == Position(group.last)
<1>1. n \in 1..Len(queue) /\ queue[n] = group.last /\ Len(queue) \in Nat
  <2>1. group.last \in Elements(queue)
    BY <1>0 DEF IInv, GroupInv
  <2>2. Len(queue) \in Nat
    BY DEF IInv, TypeOK
  <2> QED
    BY <2>1, <2>2, PositionIsThere
<1>2. n \in 1..Len(queue') /\ queue'[n] = group.last
  BY <1>1
<1>3. \A i, j \in 1..Len(queue') : queue'[i] = queue'[j] => i = j
  BY DEF IInv, QueueInv
<1>4. (CHOOSE j \in 1..Len(queue') : queue'[j] = queue'[n]) = n
  BY <1>2, <1>3, PositionOf
<1>5. Position(group.last)' = n
  BY <1>2, <1>4 DEF Position
<1>6. \A i \in 1..n : i \in 1..Len(queue)
  BY <1>1
<1>7. {queue'[i] : i \in 1..n} = {queue[i] : i \in 1..n}
  <2> HIDE DEF n
  <2> QED BY <1>6
<1>8. Elements(group.batches) = {queue[i] : i \in 1..n} \ Forced
  BY <1>0 DEF BatchInv
<1>9. Elements(group.batches)' = Elements(group.batches)
  BY DEF Elements
<1> QED
  BY <1>5, <1>7, <1>8, <1>9

\* Nothing that is applied, nobody that is popped.
LEMMA QuietStep ==
  ASSUME RInv, IInv', Committed' = Committed,
         UNCHANGED <<queueVars, lastSequence, dropped, group>>,
         bgError => bgError', Returned' = Returned,
         \A w \in Writers : pc'[w] \in {"building", "logging"} =>
                              pc[w] \in {"building", "logging"}
  PROVE  RInv' /\ Applied' = Applied
<1>1. SequencesExact'
  BY SequencesStay DEF RInv
<1>2. AppliedInv' /\ Applied' = Applied
  BY AppliedStays DEF RInv, queueVars
<1>3. BatchInv'
  <2>1. queue' = queue /\ Len(queue) \in Nat
    BY DEF queueVars, RInv, IInv, TypeOK
  <2> QED
    BY <2>1, BatchStays DEF RInv
<1> QED
  BY <1>1, <1>2, <1>3 DEF RInv

\* A leader that goes on without being done.
LEMMA LeaderGoes ==
  ASSUME IInv, NEW w \in Writers, pc[w] \in Leading,
         NEW p \in Leading \cup {"spinning", "rejected"}, Goto(w, p)
  PROVE  /\ Returned' = Returned /\ Called' = Called
         /\ Rejected' = IF p = "rejected" THEN {w} ELSE {}
         /\ pc'[w] = p /\ \A v \in Writers \ {w} : pc'[v] = pc[v]
<1>1. pc'[w] = p /\ \A v \in Writers \ {w} : pc'[v] = pc[v]
  BY DEF Goto, IInv, TypeOK
<1>2. p \notin {"returned", "idle"} /\ pc[w] \notin {"returned", "idle"}
  BY DEF Leading
<1>3. Rejected = {}
  BY LeaderFirst
<1> QED
  BY <1>1, <1>2, <1>3 DEF Returned, Called, Rejected

\* Nothing that AtomicWrites speaks of changes.
Same == UNCHANGED <<Called, queue, Applied, dropped, Returned, Rejected>>

LEMMA LeaderSteps ==
  ASSUME RInv, IInv', NEW w \in Writers,
         RoomSpin(w) \/ RoomRotate(w) \/ Rotated(w) \/ Scheduled(w) \/ Seal(w)
  PROVE  RInv' /\ Same
<1> USE DEF memVars, logVars, batchVars
<1>1. PICK p \in Leading \cup {"spinning", "rejected"} :
        /\ pc[w] \in Leading /\ Goto(w, p) /\ p # "rejected"
        /\ p \in {"building", "logging"} => pc[w] \in {"building", "logging"}
  BY DEF RoomSpin, RoomRotate, Rotated, Scheduled, Seal, At, Leading
<1>2. /\ UNCHANGED <<queueVars, lastSequence, dropped, group, bgError>>
      /\ UNCHANGED memVars \/ Rotated(w)
  BY DEF RoomSpin, RoomRotate, Rotated, Scheduled, Seal
<1>3. Committed' = Committed
  BY <1>2, MemtablesStay DEF RInv
<1>4. /\ Returned' = Returned /\ Called' = Called /\ Rejected' = {}
      /\ pc'[w] = p /\ \A v \in Writers \ {w} : pc'[v] = pc[v]
  BY <1>1, LeaderGoes DEF RInv
<1>5. Rejected = {}
  BY <1>1, LeaderFirst DEF RInv
<1>6. RInv' /\ Applied' = Applied
  BY <1>1, <1>2, <1>3, <1>4, QuietStep
<1> QED
  BY <1>2, <1>4, <1>5, <1>6 DEF Same, queueVars

\* The leader is rejected, and stays where it is.
LEMMA FailingSteps ==
  ASSUME RInv, IInv', NEW w \in Writers,
         RotateFails(w) \/ BackgroundThrows(w) \/ LogFails(w)
  PROVE  RInv' /\ Atomic!Reject
<1> USE DEF memVars, logVars, batchVars
<1>1. /\ pc[w] \in Leading /\ Goto(w, "rejected")
      /\ "rejected" \in Leading \cup {"spinning", "rejected"}
  BY DEF RotateFails, BackgroundThrows, LogFails, At, Leading
<1>2. UNCHANGED <<queueVars, lastSequence, dropped, group, bgError, memVars>>
  BY DEF RotateFails, BackgroundThrows, LogFails
<1>3. Committed' = Committed
  BY <1>2, MemtablesStay DEF RInv
<1>4. /\ Returned' = Returned /\ Called' = Called /\ Rejected' = {w}
      /\ pc'[w] = "rejected" /\ \A v \in Writers \ {w} : pc'[v] = pc[v]
  BY <1>1, LeaderGoes DEF RInv
<1>5. Rejected = {} /\ queue # <<>> /\ w = queue[1]
  BY <1>1, LeaderFirst DEF RInv
<1>6. RInv' /\ Applied' = Applied
  BY <1>2, <1>3, <1>4, QuietStep
<1> QED
  BY <1>2, <1>4, <1>5, <1>6
     DEF Atomic!Reject, queueVars, Called, Applied, Returned, Rejected

-----------------------------------------------------------------------------
(***************************************************************************)
(* The group is built.                                                     *)
(***************************************************************************)

\* The sequence and the records stay, and so do the queue and the callers.
LEMMA Unapplied ==
  ASSUME RInv, IInv', BatchInv', Returned' = Returned,
         UNCHANGED <<queueVars, memVars, lastSequence, dropped, bgError>>
  PROVE  RInv' /\ Applied' = Applied
<1>1. Committed' = Committed
  BY MemtablesStay DEF RInv
<1>2. SequencesExact'
  BY <1>1, SequencesStay DEF RInv
<1>3. AppliedInv' /\ Applied' = Applied
  BY <1>1, AppliedStays DEF RInv, queueVars
<1> QED
  BY <1>2, <1>3 DEF RInv

LEMMA RoomAvailableRInv ==
  ASSUME RInv, IInv', NEW w \in Writers, RoomAvailable(w)
  PROVE  RInv' /\ Same
<1>1. /\ pc[w] \in Leading /\ Goto(w, "building") /\ w \notin Forced
      /\ "building" \in Leading \cup {"spinning", "rejected"}
      /\ group'.last = w /\ group'.batches = <<w>>
      /\ UNCHANGED <<queueVars, memVars, lastSequence, dropped, bgError>>
  BY DEF RoomAvailable, At, Leading
<1>2. /\ Returned' = Returned /\ Called' = Called /\ Rejected' = {}
      /\ pc'[w] = "building" /\ \A v \in Writers \ {w} : pc'[v] = pc[v]
  BY <1>1, LeaderGoes DEF RInv
<1>3. /\ Rejected = {} /\ Position(w) = 1
      /\ {queue[i] : i \in 1..Position(w)} = {w}
      /\ \A v \in Writers \ {w} : pc[v] \notin Leading
  BY <1>1, LeaderFirst DEF RInv
<1>4. queue' = queue
  BY <1>1 DEF queueVars
<1>5. Position(group.last)' = 1
  BY <1>1, <1>3, <1>4 DEF Position
<1>6. Elements(group.batches)' = {w}
  BY <1>1 DEF Elements
<1>7. {queue[i] : i \in 1..1} = {w}
  BY <1>3
<1>8. BatchInv'
  BY <1>1, <1>4, <1>5, <1>6, <1>7 DEF BatchInv
<1>9. RInv' /\ Applied' = Applied
  BY <1>1, <1>2, <1>8, Unapplied
<1> QED
  BY <1>1, <1>2, <1>3, <1>4, <1>9 DEF Same

\* The next writer of the loop stands behind the last one taken.
LEMMA NextBehind ==
  ASSUME IInv, group.last \in Elements(queue), Behind # <<>>
  PROVE  LET n == Position(group.last) IN
           /\ n \in 1..Len(queue) /\ n + 1 \in 1..Len(queue)
           /\ Behind[1] = queue[n + 1] /\ Position(Behind[1]) = n + 1
           /\ {queue[i] : i \in 1..n + 1} = {queue[i] : i \in 1..n} \cup {Behind[1]}
<1> DEFINE n == Position(group.last)
<1>1. n \in 1..Len(queue) /\ queue \in Seq(Writers) /\ Len(queue) \in Nat
  BY PositionIsThere DEF IInv, TypeOK
<1>2. /\ Behind \in Seq(Writers)
      /\ Len(Behind) = Len(queue) - n
      /\ \A i \in 1..Len(Behind) : Behind[i] = queue[i + n]
  BY <1>1 DEF Behind
<1>3. 1 \in 1..Len(Behind)
  BY <1>2
<1>4. n + 1 \in 1..Len(queue)
  BY <1>1, <1>2, <1>3
<1>5. Behind[1] = queue[n + 1]
  BY <1>1, <1>2, <1>3
<1>6. Position(Behind[1]) = n + 1
  BY <1>4, <1>5, PositionOf DEF Position, IInv, QueueInv
<1>7. 1..n + 1 = (1..n) \cup {n + 1}
  BY <1>1
<1>8. {queue[i] : i \in 1..n + 1} = {queue[i] : i \in 1..n} \cup {queue[n + 1]}
  <2> HIDE DEF n
  <2> QED BY <1>7
<1> QED
  BY <1>1, <1>4, <1>5, <1>6, <1>8

LEMMA AbsorbRInv ==
  ASSUME RInv, IInv', NEW w \in Writers, Absorb(w)
  PROVE  RInv' /\ Same
<1> DEFINE next == Behind[1]
           n    == Position(group.last)
<1>1. /\ pc[w] = "building" /\ Behind # <<>> /\ pc' = pc
      /\ group'.last = next
      /\ group'.batches = IF next \in Forced THEN group.batches
                          ELSE Append(group.batches, next)
      /\ UNCHANGED <<queueVars, memVars, lastSequence, dropped, bgError>>
  BY DEF Absorb, At
<1>2. queue' = queue
  BY <1>1 DEF queueVars
<1>3. group.last \in Elements(queue) /\ group.batches \in Seq(Writers)
  BY <1>1 DEF RInv, IInv, GroupInv, TypeOK, Groups
<1>4. /\ Position(next) = n + 1 /\ next \in Writers
      /\ {queue[i] : i \in 1..n + 1} = {queue[i] : i \in 1..n} \cup {next}
  BY <1>1, <1>3, NextBehind, BehindFacts DEF RInv
<1>5. Elements(group.batches) = {queue[i] : i \in 1..n} \ Forced
  BY <1>1 DEF RInv, BatchInv
<1>6. Elements(group'.batches) =
        IF next \in Forced THEN Elements(group.batches)
        ELSE Elements(group.batches) \cup {next}
  <2> HIDE DEF next
  <2>1. Elements(Append(group.batches, next)) = Elements(group.batches) \cup {next}
    BY <1>3, <1>4, ElementsAppend
  <2>2. CASE next \in Forced
    BY <2>2, <1>1
  <2>3. CASE next \notin Forced
    BY <2>1, <2>3, <1>1
  <2> QED
    BY <2>2, <2>3
<1>7. Position(group.last)' = n + 1
  BY <1>1, <1>2, <1>4 DEF Position
<1>8. BatchInv'
  <2>1. Elements(group.batches)' = Elements(group'.batches)
    BY DEF Elements
  <2>2. {queue'[i] : i \in 1..Position(group.last)'} =
          {queue[i] : i \in 1..n} \cup {next}
    BY <1>2, <1>4, <1>7
  <2>3. Elements(group.batches)' =
          {queue'[i] : i \in 1..Position(group.last)'} \ Forced
    <3> HIDE DEF n, next
    <3> QED BY <1>5, <1>6, <2>1, <2>2
  <2> QED
    BY <2>3 DEF BatchInv
<1>9. Returned' = Returned /\ Called' = Called /\ Rejected' = Rejected
  BY <1>1 DEF Returned, Called, Rejected
<1>10. RInv' /\ Applied' = Applied
  BY <1>1, <1>8, <1>9, Unapplied
<1> QED
  BY <1>1, <1>2, <1>9, <1>10 DEF Same

-----------------------------------------------------------------------------
(***************************************************************************)
(* The queue is released.                                                  *)
(***************************************************************************)

\* The writers up to `last` leave the queue, and w returns.
LEMMA Released ==
  ASSUME IInv, NEW w \in Writers, pc[w] \in Leading,
         NEW last \in Elements(queue), Release(w, last)
  PROVE  LET n      == Position(last)
             popped == {queue[i] : i \in 1..n} IN
           /\ queue # <<>> /\ w = queue[1] /\ w \in popped
           /\ n \in 1..Len(queue) /\ popped \subseteq Elements(queue)
           /\ queue' = SubSeq(queue, n + 1, Len(queue))
           /\ done' = done \cup (popped \ {w})
           /\ Returned' = Returned \cup {w} /\ Called' = Called
           /\ Rejected = {} /\ Rejected' = {}
           /\ BatchInv'
<1> DEFINE n      == Position(last)
           popped == {queue[i] : i \in 1..n}
<1>1. /\ queue' = SubSeq(queue, n + 1, Len(queue))
      /\ done' = done \cup (popped \ {w})
      /\ pc' = [pc EXCEPT ![w] = "returned"]
  BY DEF Release, Goto
<1>2. /\ queue # <<>> /\ w = queue[1] /\ 1 \in 1..Len(queue)
      /\ Rejected = {} /\ w \in Called
  BY LeaderFirst
<1>3. n \in 1..Len(queue) /\ Len(queue) \in Nat
  BY PositionIsThere DEF IInv, TypeOK
<1>4. w \in popped /\ popped \subseteq Elements(queue)
  <2>1. 1 \in 1..n /\ 1..n \subseteq 1..Len(queue)
    BY <1>3
  <2> HIDE DEF n
  <2> QED
    BY <1>2, <2>1 DEF Elements
<1>5. /\ pc'[w] = "returned" /\ \A v \in Writers \ {w} : pc'[v] = pc[v]
  BY <1>1 DEF IInv, TypeOK
<1>6. Returned' = Returned \cup {w}
  BY <1>5 DEF Returned
<1>7. Called' = Called
  BY <1>2, <1>5 DEF Called
<1>8. Rejected' = {} /\ BatchInv'
  <2>1. \A v \in Writers : pc'[v] \notin Leading \cup {"spinning", "rejected"}
    BY ReleaseQueue DEF IInv
  <2> QED
    BY <2>1 DEF Rejected, BatchInv, Leading
<1> QED
  BY <1>1, <1>2, <1>3, <1>4, <1>6, <1>7, <1>8

\* A call that leaves alone.
LEMMA ReleasedAlone ==
  ASSUME IInv, NEW w \in Writers, pc[w] \in Leading, Release(w, w)
  PROVE  /\ queue # <<>> /\ w = queue[1] /\ {queue[i] : i \in 1..1} = {w}
         /\ 1 \in 1..Len(queue) /\ w \in Elements(queue)
         /\ queue' = SubSeq(queue, 2, Len(queue)) /\ done' = done
         /\ Returned' = Returned \cup {w} /\ Called' = Called
         /\ Rejected = {} /\ Rejected' = {}
         /\ BatchInv'
<1>1. w \in Elements(queue)
  BY LeaderFacts
<1>2. Position(w) = 1 /\ {queue[i] : i \in 1..Position(w)} = {w} /\ 1 \in 1..Len(queue)
  BY LeaderFirst
<1>3. /\ queue # <<>> /\ w = queue[1]
      /\ queue' = SubSeq(queue, 1 + 1, Len(queue))
      /\ done' = done \cup ({w} \ {w})
      /\ Returned' = Returned \cup {w} /\ Called' = Called
      /\ Rejected = {} /\ Rejected' = {}
      /\ BatchInv'
  BY <1>1, <1>2, Released
<1>4. done' = done
  BY <1>3
<1>5. queue' = SubSeq(queue, 2, Len(queue))
  BY <1>3
<1> QED
  BY <1>1, <1>2, <1>3, <1>4, <1>5

\* A call that gives up is dropped.
LEMMA RoomErrorRInv ==
  ASSUME RInv, IInv', NEW w \in Writers, RoomError(w)
  PROVE  RInv' /\ Atomic!Lose
<1>1. /\ pc[w] \in Leading /\ bgError /\ Release(w, w)
      /\ dropped' = dropped \cup ({w} \ Forced)
      /\ UNCHANGED <<memVars, lastSequence, bgError>>
  BY DEF RoomError, At, Leading
<1>2. /\ queue # <<>> /\ w = queue[1] /\ w \in Elements(queue)
      /\ queue' = SubSeq(queue, 2, Len(queue)) /\ done' = done
      /\ Returned' = Returned \cup {w} /\ Called' = Called
      /\ Rejected = {} /\ Rejected' = {} /\ BatchInv'
  BY <1>1, ReleasedAlone DEF RInv
<1>3. Committed' = Committed
  BY <1>1, MemtablesStay DEF RInv
<1>4. Applied' = Applied
  BY <1>3 DEF Applied
<1>5. w \notin Applied
  BY <1>2, QueuedNotApplied DEF RInv
<1>6. AppliedInv'
  BY <1>1, <1>2, <1>3, <1>4, <1>5 DEF RInv, AppliedInv
<1>7. SequencesExact'
  BY <1>1, <1>3, SequencesStay DEF RInv
<1>8. Atomic!Lose
  BY <1>1, <1>2, <1>4 DEF Atomic!Lose, Called, Applied, Returned, Rejected
<1> QED
  BY <1>2, <1>6, <1>7, <1>8 DEF RInv

\* A call without a batch has nothing to apply.
LEMMA RoomNoBatchRInv ==
  ASSUME RInv, IInv', NEW w \in Writers, RoomNoBatch(w)
  PROVE  RInv' /\ \E n \in 1..Len(queue) : Atomic!Apply(n)
<1>1. /\ pc[w] \in Leading /\ w \in Forced /\ Release(w, w)
      /\ UNCHANGED <<memVars, lastSequence, bgError, dropped>>
  BY DEF RoomNoBatch, At, Leading
<1>2. /\ queue # <<>> /\ w = queue[1] /\ {queue[i] : i \in 1..1} = {w}
      /\ 1 \in 1..Len(queue)
      /\ queue' = SubSeq(queue, 2, Len(queue)) /\ done' = done
      /\ Returned' = Returned \cup {w} /\ Called' = Called
      /\ Rejected = {} /\ Rejected' = {} /\ BatchInv'
  BY <1>1, ReleasedAlone DEF RInv
<1>3. Committed' = Committed
  BY <1>1, MemtablesStay DEF RInv
<1>4. Applied' = Applied
  BY <1>3 DEF Applied
<1>5. AppliedInv'
  BY <1>1, <1>2, <1>3, <1>4 DEF RInv, AppliedInv
<1>6. SequencesExact'
  BY <1>1, <1>3, SequencesStay DEF RInv
<1>7. Atomic!Apply(1)
  <2>1. queue' = SubSeq(queue, 1 + 1, Len(queue))
    BY <1>2
  <2>2. Applied' = Applied \cup ({queue[i] : i \in 1..1} \ Forced)
    BY <1>1, <1>2, <1>4
  <2> QED
    BY <1>1, <1>2, <2>1, <2>2 DEF Atomic!Apply, Called, Applied, Returned, Rejected
<1> QED
  BY <1>2, <1>5, <1>6, <1>7 DEF RInv

\* A group takes effect.
LEMMA CommitRInv ==
  ASSUME RInv, IInv', NEW w \in Writers, Commit(w)
  PROVE  RInv' /\ \E n \in 1..Len(queue) : Atomic!Apply(n)
<1> DEFINE n      == Position(group.last)
           popped == {queue[i] : i \in 1..n}
<1>1. /\ pc[w] = "logging" /\ pc[w] \in Leading /\ Release(w, group.last)
      /\ UNCHANGED <<bgError, dropped>>
  BY DEF Commit, At, Leading
<1>2. group.last \in Elements(queue)
  BY <1>1 DEF RInv, IInv, GroupInv
<1>3. /\ queue # <<>> /\ w = queue[1] /\ w \in popped
      /\ n \in 1..Len(queue) /\ popped \subseteq Elements(queue)
      /\ queue' = SubSeq(queue, n + 1, Len(queue))
      /\ done' = done \cup (popped \ {w})
      /\ Returned' = Returned \cup {w} /\ Called' = Called
      /\ Rejected = {} /\ Rejected' = {} /\ BatchInv'
  BY <1>1, <1>2, Released DEF RInv
<1>4. /\ Committed' = Committed \cup {GroupRecord}
      /\ Applied' = Applied \cup Elements(group.batches)
  BY CommitAdds DEF RInv
<1>5. Elements(group.batches) = popped \ Forced
  BY <1>1 DEF RInv, BatchInv
<1>6. Elements(queue) \cap (Applied \cup dropped) = {}
  BY QueuedNotApplied DEF RInv
<1>7. AppliedInv'
  <2> DEFINE Calls(r) == Elements(r.batches)
  <2> HIDE DEF popped
  <2>1. Calls(GroupRecord) = popped \ Forced
    BY <1>5 DEF GroupRecord
  <2>2. \A r \in Committed : Calls(r) \subseteq Applied
    BY DEF Applied
  <2>3. \A r \in Committed : Calls(r) \cap Calls(GroupRecord) = {}
    <3> HIDE DEF Calls
    <3> QED BY <1>3, <1>6, <2>1, <2>2
  <2>4. \A r, s \in Committed : r # s => Calls(r) \cap Calls(s) = {}
    BY DEF RInv, AppliedInv
  <2>5. \A r, s \in Committed' : r # s => Calls(r) \cap Calls(s) = {}
    <3> HIDE DEF Calls
    <3> QED BY <1>4, <2>3, <2>4
  <2>6. \A r, s \in Committed' :
          r # s => (Elements(r.batches) \cap Elements(s.batches))' = {}
    BY <2>5 DEF Elements
  <2>7. Applied' = Applied \cup (popped \ Forced)
    BY <1>4, <1>5
  <2>8. Applied' \subseteq Returned' \cup done'
    BY <1>3, <2>7 DEF RInv, AppliedInv
  <2>9. done' \subseteq Forced \cup Applied'
    BY <1>3, <2>7 DEF RInv, AppliedInv
  <2>10. Returned' \subseteq Forced \cup Applied' \cup dropped'
    BY <1>1, <1>3, <2>7 DEF RInv, AppliedInv
  <2>11. dropped' \subseteq Returned' \ Applied'
    BY <1>1, <1>3, <1>6, <2>7 DEF RInv, AppliedInv
  <2>12. dropped' # {} => bgError'
    BY <1>1 DEF RInv, AppliedInv
  <2> QED
    BY <2>6, <2>8, <2>9, <2>10, <2>11, <2>12 DEF AppliedInv, Elements
<1>8. SequencesExact'
  BY CommitSequences DEF RInv
<1>9. \E k \in 1..Len(queue) : Atomic!Apply(k)
  <2>1. Applied' = Applied \cup ({queue[i] : i \in 1..n} \ Forced)
    BY <1>4, <1>5
  <2> HIDE DEF n
  <2> QED
    BY <1>1, <1>3, <2>1 DEF Atomic!Apply, Called, Applied, Returned, Rejected
<1>10. RInv'
  BY <1>3, <1>7, <1>8 DEF RInv
<1> QED
  BY <1>9, <1>10

-----------------------------------------------------------------------------
(***************************************************************************)
(* Calls come, and resume.                                                 *)
(***************************************************************************)

LEMMA CallRInv ==
  ASSUME RInv, IInv', NEW w \in Writers, Call(w)
  PROVE  RInv' /\ Atomic!Submit(w)
<1>1. /\ pc[w] = "idle" /\ queue' = Append(queue, w)
      /\ pc' = [pc EXCEPT ![w] = IF queue = <<>> THEN "room" ELSE "queued"]
      /\ UNCHANGED <<done, group, memVars, lastSequence, bgError, dropped>>
  BY DEF Call, At, Goto, batchVars
<1>2. /\ pc'[w] \in {"room", "queued"}
      /\ \A v \in Writers \ {w} : pc'[v] = pc[v]
  BY <1>1 DEF RInv, IInv, TypeOK
<1>3. /\ w \notin Called /\ Called' = Called \cup {w}
      /\ Returned' = Returned /\ Rejected' = Rejected
  BY <1>1, <1>2 DEF Called, Returned, Rejected
<1>4. Committed' = Committed
  BY <1>1, MemtablesStay DEF RInv
<1>5. AppliedInv' /\ Applied' = Applied
  BY <1>1, <1>3, <1>4, AppliedStays DEF RInv
<1>6. SequencesExact'
  BY <1>1, <1>4, SequencesStay DEF RInv
<1>7. BatchInv'
  <2>1. queue \in Seq(Writers) /\ Len(queue) \in Nat
    BY DEF RInv, IInv, TypeOK
  <2>2. /\ Len(queue') \in Nat /\ Len(queue') >= Len(queue)
        /\ \A i \in 1..Len(queue) : queue'[i] = queue[i]
    BY <1>1, <2>1
  <2>3. \A v \in Writers : pc'[v] \in {"building", "logging"} =>
                             pc[v] \in {"building", "logging"}
    BY <1>2
  <2> QED
    BY <1>1, <2>2, <2>3, BatchStays DEF RInv
<1>8. Atomic!Submit(w)
  BY <1>1, <1>3, <1>5 DEF Atomic!Submit, Called, Applied, Returned, Rejected
<1> QED
  BY <1>5, <1>6, <1>7, <1>8 DEF RInv

LEMMA ResumeRInv ==
  ASSUME RInv, IInv', NEW w \in Writers, Resume(w)
  PROVE  RInv' /\ (Atomic!Ack(w) \/ Same)
<1>1. /\ pc[w] = "queued" /\ queue' = queue /\ done' = done
      /\ pc' = [pc EXCEPT ![w] = IF w \in done THEN "returned" ELSE "room"]
      /\ UNCHANGED <<group, memVars, lastSequence, bgError, dropped>>
  BY DEF Resume, At, Goto, batchVars
<1>2. /\ pc'[w] = IF w \in done THEN "returned" ELSE "room"
      /\ \A v \in Writers \ {w} : pc'[v] = pc[v]
  BY <1>1 DEF RInv, IInv, TypeOK
<1>3. /\ w \in Called \ Returned /\ Called' = Called /\ Rejected' = Rejected
      /\ Returned' = IF w \in done THEN Returned \cup {w} ELSE Returned
  BY <1>1, <1>2 DEF Called, Returned, Rejected
<1>4. Committed' = Committed
  BY <1>1, MemtablesStay DEF RInv
<1>5. Applied' = Applied
  BY <1>4 DEF Applied
<1>6. SequencesExact'
  BY <1>1, <1>4, SequencesStay DEF RInv
<1>7. BatchInv'
  <2>1. Len(queue) \in Nat
    BY DEF RInv, IInv, TypeOK
  <2>2. \A v \in Writers : pc'[v] \in {"building", "logging"} =>
                             pc[v] \in {"building", "logging"}
    BY <1>2
  <2> QED
    BY <1>1, <2>1, <2>2, BatchStays DEF RInv
<1>8. AppliedInv'
  BY <1>1, <1>3, <1>4, <1>5 DEF RInv, AppliedInv
<1>9. CASE w \in done
  <2>1. \A i \in 1..Len(queue) : queue[i] # w
    BY <1>1, <1>9 DEF RInv, IInv, QueueInv, Elements, Leading
  <2>2. w \in Applied \cup Forced
    BY <1>9 DEF RInv, AppliedInv
  <2>3. Atomic!Ack(w)
    BY <1>1, <1>3, <1>5, <1>9, <2>1, <2>2
       DEF Atomic!Ack, Called, Applied, Returned, Rejected
  <2> QED
    BY <1>6, <1>7, <1>8, <2>3 DEF RInv
<1>10. CASE w \notin done
  <2>1. Same
    BY <1>1, <1>3, <1>5, <1>10 DEF Same
  <2> QED
    BY <1>6, <1>7, <1>8, <2>1 DEF RInv
<1> QED
  BY <1>9, <1>10

-----------------------------------------------------------------------------
(***************************************************************************)
(* The steps that belong to no call.                                       *)
(***************************************************************************)

LEMMA OtherSteps ==
  ASSUME RInv, IInv', FlushImm \/ BackgroundFails \/ UNCHANGED vars
  PROVE  RInv' /\ Same
<1>1. /\ UNCHANGED <<queueVars, pc, lastSequence, dropped, group>>
      /\ bgError => bgError'
      /\ UNCHANGED memVars \/ FlushImm
  BY DEF FlushImm, BackgroundFails, vars, batchVars
<1>2. Committed' = Committed
  BY <1>1, MemtablesStay DEF RInv
<1>3. Returned' = Returned /\ Called' = Called /\ Rejected' = Rejected
  BY <1>1 DEF Returned, Called, Rejected
<1>4. RInv' /\ Applied' = Applied
  BY <1>1, <1>2, <1>3, QuietStep
<1> QED
  BY <1>1, <1>3, <1>4 DEF Same, queueVars

\* A step that changes nothing AtomicWrites speaks of is a stutter of it.
LEMMA SameStutters ==
  ASSUME Same
  PROVE  [Atomic!Next]_(Atomic!vars)
BY DEF Same, Atomic!vars, Called, Applied, Returned, Rejected

LEMMA CallStep ==
  ASSUME RInv, IInv', NEW w \in Writers, Call(w) \/ Step(w)
  PROVE  RInv' /\ [Atomic!Next]_(Atomic!vars)
<1>1. CASE Call(w)
  BY <1>1, CallRInv DEF Atomic!Next
<1>2. CASE Resume(w)
  BY <1>2, ResumeRInv, SameStutters DEF Atomic!Next
<1>3. CASE RoomError(w)
  BY <1>3, RoomErrorRInv DEF Atomic!Next
<1>4. CASE RoomNoBatch(w)
  BY <1>4, RoomNoBatchRInv DEF Atomic!Next
<1>5. CASE RoomAvailable(w)
  BY <1>5, RoomAvailableRInv, SameStutters
<1>6. CASE RoomSpin(w) \/ RoomRotate(w) \/ Rotated(w) \/ Scheduled(w) \/ Seal(w)
  BY <1>6, LeaderSteps, SameStutters
<1>7. CASE Absorb(w)
  BY <1>7, AbsorbRInv, SameStutters
<1>8. CASE Commit(w)
  BY <1>8, CommitRInv DEF Atomic!Next
<1>9. CASE RotateFails(w) \/ BackgroundThrows(w) \/ LogFails(w)
  BY <1>9, FailingSteps DEF Atomic!Next
<1> QED
  BY <1>1, <1>2, <1>3, <1>4, <1>5, <1>6, <1>7, <1>8, <1>9 DEF Step

LEMMA NextRInv ==
  RInv /\ [Next]_vars => RInv' /\ [Atomic!Next]_(Atomic!vars)
<1> SUFFICES ASSUME RInv, [Next]_vars
             PROVE  RInv' /\ [Atomic!Next]_(Atomic!vars)
  OBVIOUS
<1>1. IInv'
  BY NextIInv DEF RInv
<1>2. CASE \E w \in Writers : Call(w) \/ Step(w)
  BY <1>1, <1>2, CallStep
<1>3. CASE FlushImm \/ BackgroundFails \/ UNCHANGED vars
  BY <1>1, <1>3, OtherSteps, SameStutters
<1> QED
  BY <1>2, <1>3 DEF Next, Terminated

LEMMA InitRInv == Init => RInv /\ Atomic!Init
<1> SUFFICES ASSUME Init
             PROVE  RInv /\ Atomic!Init
  OBVIOUS
<1>1. IInv
  BY InitIInv
<1>2. /\ queue = <<>> /\ mem = <<>> /\ imm = <<>> /\ tables = {}
      /\ done = {} /\ dropped = {} /\ lastSequence = 0
      /\ pc = [w \in Writers |-> "idle"]
  BY DEF Init
<1>3. Committed = {}
  BY <1>2 DEF Committed, Elements
<1>4. Applied = {} /\ Returned = {} /\ Called = {} /\ Rejected = {}
  BY <1>2, <1>3 DEF Applied, Returned, Called, Rejected
<1>5. SequencesExact
  BY <1>2, <1>3 DEF SequencesExact
<1>6. BatchInv
  BY <1>2 DEF BatchInv
<1>7. AppliedInv
  BY <1>2, <1>3, <1>4 DEF AppliedInv
<1>8. Atomic!Init
  BY <1>2, <1>4 DEF Atomic!Init, Applied, Returned, Called, Rejected
<1> QED
  BY <1>1, <1>5, <1>6, <1>7, <1>8 DEF RInv

-----------------------------------------------------------------------------
(***************************************************************************)
(* The theorems.                                                           *)
(***************************************************************************)

LEMMA RInductive == Spec => []RInv
<1>1. Init => RInv
  BY InitRInv
<1>2. RInv /\ [Next]_vars => RInv'
  BY NextRInv
<1> QED
  BY <1>1, <1>2, PTL DEF Spec

\* Groups get consecutive sequence numbers: whatever the batches and however
\* they were grouped, each number up to lastSequence belongs to one record.
THEOREM NumbersUsedOnce == Spec => []SequencesExact
<1>1. RInv => SequencesExact
  BY DEF RInv
<1> QED
  BY <1>1, RInductive, PTL

\* A call that write() resolved is in exactly one record that a reader can
\* find, unless a background error made write() drop it.
THEOREM AcknowledgedIsApplied == Spec => []AckMeansApplied
<1>1. RInv => AckMeansApplied
  <2> SUFFICES ASSUME RInv
               PROVE  AckMeansApplied
    OBVIOUS
  <2>1. ASSUME NEW w \in Writers \ (Forced \cup dropped), pc[w] = "returned"
        PROVE  \E r \in Committed : w \in Elements(r.batches)
    <3>1. w \in Applied
      BY <2>1 DEF RInv, AppliedInv, Returned
    <3> QED
      BY <3>1 DEF Applied
  <2>2. \A r \in Committed : dropped \cap Elements(r.batches) = {}
    <3>1. dropped \cap Applied = {}
      BY DEF RInv, AppliedInv
    <3> QED
      BY <3>1 DEF Applied
  <2>3. /\ \A r, s \in Committed :
             r # s => Elements(r.batches) \cap Elements(s.batches) = {}
        /\ dropped # {} => bgError
    BY DEF RInv, AppliedInv
  <2> QED
    BY <2>1, <2>2, <2>3 DEF AckMeansApplied
<1> QED
  BY <1>1, RInductive, PTL

\* The write path implements AtomicWrites: calls take effect in the order in
\* which they were made, each as a whole, and none after a failure, although
\* leaders await files and background work between their steps.
THEOREM WritesAreAtomic == Spec => ImplementsAtomicWrites
<1>1. Init => Atomic!Init
  BY InitRInv
<1>2. RInv /\ [Next]_vars => [Atomic!Next]_(Atomic!vars)
  BY NextRInv
<1> QED
  BY <1>1, <1>2, RInductive, PTL DEF Spec, ImplementsAtomicWrites, Atomic!Spec
=============================================================================
