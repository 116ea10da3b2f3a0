---------------------------- MODULE ReadsProofs ----------------------------
(* Proofs about Reads, for any keys and any numbers of writes and switches: *)
(* first about get(), then about the iterator.                             *)
EXTENDS Reads, FiniteSetTheorems, WellFoundedInduction, TLAPS

LogEntry == [key : Keys, type : {"value", "deletion"}]

\* The last write of the first s sources.
End(s) == IF s = 0 THEN 0 ELSE switches[s]

\* At most one memtable is immutable, and the memtables were switched in the
\* order of their writes.
SourcesInv ==
  /\ log \in Seq(LogEntry) /\ switches \in Seq(Nat) /\ flushed \in Nat
  /\ flushed <= Len(switches) /\ Len(switches) <= flushed + 1
  /\ \A i \in 1..Len(switches) : switches[i] <= Len(log)
  /\ \A i, j \in 1..Len(switches) : i < j => switches[i] <= switches[j]

\* What a call of get() has not asked yet holds every version it looks for.
Remaining(r) ==
  /\ r \in [state : {"tables"}, key : Keys, at : 0..Len(log), rest : SUBSET Nat]
  /\ \E m \in 0..flushed :
       /\ r.rest = 1..m
       /\ \A n \in 1..r.at : log[n].key = r.key => n <= End(m)

Responded(r) ==
  r \in [state : {"answered", "failed"}, key : Keys, at : 0..Len(log),
         answer : SUBSET Nat]

IInv ==
  /\ SourcesInv
  /\ read = Idle \/ Remaining(read) \/ Responded(read)
  /\ GetExact

\* Switches are in the order of their writes.
LEMMA EndNat ==
  ASSUME SourcesInv
  PROVE  /\ Len(log) \in Nat /\ Len(switches) \in Nat
         /\ \A s \in 0..Len(switches) : End(s) \in Nat /\ End(s) <= Len(log)
         /\ \A s, t \in 0..Len(switches) : s <= t => End(s) <= End(t)
  BY DEF SourcesInv, End

\* Each source begins where the one before it ends.
LEMMA SourceRange ==
  ASSUME SourcesInv, NEW s \in 1..Live
  PROVE  Source(s) = (End(s - 1) + 1)..(IF s = Live THEN Len(log) ELSE End(s))
  BY EndNat DEF Source, End, Live, SourcesInv

\* An answer is a set of writes.
LEMMA VersionsNat ==
  ASSUME SourcesInv, NEW s \in 1..Live, NEW k, NEW at \in Nat
  PROVE  Value(Latest(Versions(s, k, at))) \subseteq Nat
<1>1. Source(s) \subseteq Nat
  <2>1. s - 1 \in 0..Len(switches) /\ End(s - 1) \in Nat
    BY EndNat DEF Live
  <2>2. PICK stop : Source(s) = (End(s - 1) + 1)..stop
    BY SourceRange
  <2> QED BY <2>1, <2>2
<1> QED BY <1>1 DEF Value, Latest, Versions

\* The newest source that has a version of the key has the newest version.
LEMMA NewestSource ==
  ASSUME SourcesInv, NEW s \in 1..Live, NEW k, NEW at \in 0..Len(log),
         Versions(s, k, at) # {},
         \A n \in 1..at : log[n].key = k => n <= (IF s = Live THEN Len(log) ELSE End(s))
  PROVE  Latest(Versions(s, k, at)) = LatestOf(k, at)
<1> DEFINE V == Versions(s, k, at)
           All == {n \in 1..at : log[n].key = k}
           Stop == IF s = Live THEN Len(log) ELSE End(s)
<1>1. /\ Source(s) = (End(s - 1) + 1)..Stop
      /\ End(s - 1) \in Nat /\ Stop \in Nat /\ Stop <= Len(log)
  BY SourceRange, EndNat DEF Live
<1>2. V = {n \in All : n > End(s - 1)}
  BY <1>1 DEF Versions
<1>3. PICK v \in V : TRUE
  OBVIOUS
<1>4. v \in Nat /\ v \in All /\ v > End(s - 1)
  BY <1>2, <1>3
<1>5. \A n \in All : n \in Nat /\ (n \notin V => n < v)
  BY <1>1, <1>2, <1>4
<1>6. Latest(V) = Latest(All)
  <2>1. ASSUME NEW n \in Latest(V) PROVE n \in Latest(All)
    <3>1. n \in All /\ v <= n /\ \A m \in V : m <= n
      BY <1>2, <1>3, <2>1 DEF Latest
    <3>2. \A m \in All : m <= n
      BY <1>4, <1>5, <3>1
    <3> QED BY <3>1, <3>2 DEF Latest
  <2>2. ASSUME NEW n \in Latest(All) PROVE n \in Latest(V)
    <3>1. n \in All /\ v <= n /\ \A m \in All : m <= n
      BY <1>4, <2>2 DEF Latest
    <3>2. n \in V
      BY <1>4, <1>5, <3>1
    <3> QED BY <1>2, <3>1, <3>2 DEF Latest
  <2> QED BY <2>1, <2>2
<1> QED BY <1>6 DEF LatestOf

\* The database begins empty.
LEMMA InitIInv == Init => IInv
  BY ReadsAssumption DEF Init, IInv, SourcesInv, GetExact, Idle

\* Writes, switches and flushes.
LEMMA MemtablesStep ==
  ASSUME IInv,
         (\E k \in Keys, type \in {"value", "deletion"} : Write(k, type))
           \/ Switch \/ Flush
  PROVE  IInv'
<1> USE DEF IInv
<1>1. read' = read
  BY DEF Write, Switch, Flush
<1>2. /\ SourcesInv' /\ flushed <= flushed' /\ flushed' \in Nat
      /\ Len(log) \in Nat /\ Len(log') \in Nat /\ Len(log) <= Len(log')
      /\ \A n \in 1..Len(log) : log'[n] = log[n]
      /\ \A s \in 0..flushed : End(s)' = End(s)
  <2>1. CASE \E k \in Keys, type \in {"value", "deletion"} : Write(k, type)
    BY <2>1 DEF Write, SourcesInv, End, LogEntry
  <2>2. CASE Switch
    BY <2>2 DEF Switch, SourcesInv, End, Imm, Live
  <2>3. CASE Flush
    BY <2>3 DEF Flush, SourcesInv, End, Imm, Live
  <2> QED BY <2>1, <2>2, <2>3
<1>3. Remaining(read) => Remaining(read)'
  <2> SUFFICES ASSUME Remaining(read) PROVE Remaining(read)'
    OBVIOUS
  <2>1. PICK m \in 0..flushed :
          /\ read.rest = 1..m
          /\ \A n \in 1..read.at : log[n].key = read.key => n <= End(m)
    BY DEF Remaining
  <2>2. read.at \in 0..Len(log) /\ read.at \in 0..Len(log)' /\ m \in 0..flushed'
    BY <1>2 DEF Remaining, SourcesInv
  <2>3. \A n \in 1..read.at : log'[n] = log[n] /\ End(m)' = End(m)
    BY <1>2, <2>2
  <2>4. \A n \in 1..read.at : log'[n].key = read.key => n <= End(m)'
    BY <2>1, <2>3
  <2>5. read \in [state : {"tables"}, key : Keys, at : 0..Len(log'), rest : SUBSET Nat]
    BY <2>2 DEF Remaining
  <2> QED BY <1>1, <2>1, <2>2, <2>4, <2>5 DEF Remaining
<1>4. Responded(read) => Responded(read)'
  <2> SUFFICES ASSUME Responded(read) PROVE Responded(read)'
    OBVIOUS
  <2>1. read.at \in 0..Len(log')
    BY <1>2 DEF Responded
  <2>2. read \in [state : {"answered", "failed"}, key : Keys, at : 0..Len(log'),
                  answer : SUBSET Nat]
    BY <2>1 DEF Responded
  <2> QED BY <1>1, <2>2 DEF Responded
<1>5. GetExact'
  <2> SUFFICES ASSUME read.state = "answered", Responded(read)
               PROVE  GetExact'
    BY <1>1 DEF GetExact, Remaining, Idle
  <2>1. read.at \in Nat /\ \A n \in 1..read.at : log'[n] = log[n]
    BY <1>2 DEF Responded
  <2>2. Value(LatestOf(read.key, read.at))' = Value(LatestOf(read.key, read.at))
    <3> DEFINE k == read.key  at == read.at
    <3>1. LatestOf(k, at)' = LatestOf(k, at)
      BY <1>1, <2>1 DEF LatestOf, Latest
    <3>2. \A n \in LatestOf(k, at) : n \in 1..at
      BY DEF LatestOf, Latest
    <3> QED BY <1>1, <2>1, <3>1, <3>2 DEF Value
  <2> QED BY <1>1, <2>2 DEF GetExact
<1> QED BY <1>1, <1>2, <1>3, <1>4, <1>5

\* If no memtable has a version, the older writes are those of the tables.
LEMMA GetStep ==
  ASSUME IInv, NEW k \in Keys, NEW at \in 0..Len(log), Get(k, at)
  PROVE  IInv'
<1> DEFINE hits == {s \in {Live} \cup Imm : Versions(s, k, at) # {}}
<1>1. /\ SourcesInv /\ UNCHANGED <<log, switches, flushed>>
      /\ Len(log) \in Nat /\ at \in Nat /\ Live \in Nat /\ Live = Len(switches) + 1
      /\ Imm \subseteq 1..Live /\ Len(switches) \in Nat
  BY EndNat DEF IInv, Get, Imm, Live, SourcesInv
<1>2. SourcesInv'
  BY <1>1 DEF SourcesInv, LogEntry
<1>3. CASE hits = {}
  <2>1. read' = [state |-> "tables", key |-> k, at |-> at, rest |-> Tables]
    BY <1>3 DEF Get
  <2>2. ASSUME NEW n \in 1..at, log[n].key = k PROVE n <= End(flushed)
    <3>1. Versions(Live, k, at) = {} /\ \A s \in Imm : Versions(s, k, at) = {}
      BY <1>3
    <3>2. n \notin Source(Live) /\ \A s \in Imm : n \notin Source(s)
      BY <2>2, <3>1 DEF Versions
    <3>3. n <= End(Len(switches))
      <4>1. Source(Live) = (End(Len(switches)) + 1)..Len(log)
        BY <1>1, SourceRange
      <4> QED BY <1>1, <3>2, <4>1, EndNat
    <3>4. CASE flushed = Len(switches)
      BY <3>3, <3>4
    <3>5. CASE flushed # Len(switches)
      <4>1. Live - 1 \in Imm /\ Live - 1 \in 1..Live /\ Live - 2 = flushed
            /\ Live - 1 = Len(switches) /\ flushed \in 0..Len(switches)
        BY <1>1, <3>5 DEF Imm, SourcesInv
      <4>2. Source(Live - 1) = (End(Live - 1 - 1) + 1)..End(Live - 1)
        BY <1>1, <4>1, SourceRange
      <4>3. Live - 1 - 1 = flushed
        BY <1>1, <4>1
      <4>4. n \notin (End(flushed) + 1)..End(Len(switches))
        BY <3>2, <4>1, <4>2, <4>3
      <4> QED BY <1>1, <3>3, <4>1, <4>4, EndNat
    <3> QED BY <3>4, <3>5
  <2>3. Remaining(read)'
    <3>1. flushed \in Nat /\ flushed \in 0..flushed
      BY <1>1 DEF SourcesInv
    <3>2. read' \in [state : {"tables"}, key : Keys, at : 0..Len(log), rest : SUBSET Nat]
      BY <2>1, <3>1 DEF Tables
    <3>3. read'.rest = 1..flushed /\ read'.at = at /\ read'.key = k
      BY <2>1 DEF Tables
    <3>4. End(flushed)' = End(flushed)
      BY <1>1 DEF End
    <3> QED BY <1>1, <2>2, <3>1, <3>2, <3>3, <3>4 DEF Remaining
  <2> QED BY <1>2, <2>1, <2>3 DEF IInv, GetExact
<1>4. CASE hits # {}
  <2> DEFINE newest == CHOOSE s \in hits : \A o \in hits : o <= s
             answer == Value(Latest(Versions(newest, k, at)))
  <2>1. read' = [state |-> "answered", key |-> k, at |-> at, answer |-> answer]
    BY <1>4 DEF Get
  <2>2. newest \in hits /\ \A o \in hits : o <= newest
    <3>1. \E s \in hits : \A o \in hits : o <= s
      <4>1. CASE Live \in hits
        BY <1>1, <4>1
      <4>2. CASE Live \notin hits
        BY <1>1, <1>4, <4>2 DEF Imm
      <4> QED BY <4>1, <4>2
    <3> QED BY <3>1
  <2>3. newest \in 1..Live /\ Versions(newest, k, at) # {}
    <3>1. newest \in {Live} \cup Imm /\ Versions(newest, k, at) # {}
      BY <2>2
    <3>2. Live \in 1..Live
      BY <1>1
    <3> HIDE DEF newest
    <3> QED BY <1>1, <3>1, <3>2
  <2>4. ASSUME NEW n \in 1..at, log[n].key = k
        PROVE  n <= (IF newest = Live THEN Len(log) ELSE End(newest))
    <3>1. CASE newest = Live
      BY <1>1, <3>1
    <3>2. CASE newest # Live
      <4>1. newest = Live - 1 /\ Live \notin hits
        BY <1>1, <2>2, <3>2 DEF Imm
      <4>2. n \notin Source(Live)
        BY <2>4, <4>1 DEF Versions
      <4>3. Source(Live) = (End(Len(switches)) + 1)..Len(log)
        BY <1>1, SourceRange
      <4>4. newest = Len(switches)
        BY <1>1, <4>1
      <4>5. n \in 1..Len(log) /\ End(Len(switches)) \in Nat
        BY <1>1, EndNat
      <4>6. n <= End(Len(switches))
        BY <1>1, <4>2, <4>3, <4>5
      <4> QED BY <3>2, <4>4, <4>6
    <3> QED BY <3>1, <3>2
  <2>5. answer = Value(LatestOf(k, at))
    BY <1>1, <2>3, <2>4, NewestSource
  <2>6. answer \subseteq Nat
    BY <1>1, <2>3, VersionsNat
  <2>7. Responded(read)'
    BY <1>1, <2>1, <2>6 DEF Responded
  <2>8. GetExact'
    BY <1>1, <2>1, <2>5 DEF GetExact, Value, LatestOf, Latest
  <2> QED BY <1>2, <2>7, <2>8 DEF IInv
<1> QED BY <1>3, <1>4

\* A table without a version leaves the older ones to be asked.
LEMMA GetTableStep ==
  ASSUME IInv, GetTable
  PROVE  IInv'
<1>1. /\ SourcesInv /\ UNCHANGED <<log, switches, flushed>>
      /\ Len(log) \in Nat /\ Live \in Nat /\ Live = Len(switches) + 1
      /\ Len(switches) \in Nat /\ flushed \in 0..Len(switches)
  BY EndNat DEF IInv, GetTable, Live, SourcesInv
<1>2. SourcesInv'
  BY <1>1 DEF SourcesInv, LogEntry
<1>3. Remaining(read)
  BY DEF IInv, GetTable, Idle, Responded
<1> DEFINE k == read.key  at == read.at
<1>4. PICK m \in 0..flushed :
        /\ read.rest = 1..m
        /\ \A n \in 1..at : log[n].key = k => n <= End(m)
  BY <1>3 DEF Remaining
<1>5. k \in Keys /\ at \in 0..Len(log) /\ at \in Nat /\ m \in 0..Len(switches)
      /\ m \in Nat
  BY <1>1, <1>3 DEF Remaining
<1>6. ASSUME NEW answer \in SUBSET Nat, NEW failed \in BOOLEAN,
             read' = Answered(answer, failed),
             failed \/ answer = Value(LatestOf(k, at))
      PROVE  IInv'
  <2>1. Responded(read)'
    BY <1>1, <1>5, <1>6 DEF Responded, Answered
  <2>2. read'.key = k /\ read'.at = at /\ read'.answer = answer
        /\ read'.state = IF failed THEN "failed" ELSE "answered"
    BY <1>6 DEF Answered
  <2>3. GetExact'
    BY <1>1, <1>6, <2>2 DEF GetExact, Value, LatestOf, Latest
  <2> QED BY <1>2, <2>1, <2>3 DEF IInv
<1>7. CASE read.rest = {} /\ read' = Answered({}, FALSE)
  <2>1. m = 0
    <3>1. m # 0 => 1 \in 1..m
      BY <1>5
    <3> QED BY <1>4, <1>7, <3>1
  <2>2. LatestOf(k, at) = {}
    <3>1. End(m) = 0
      BY <2>1 DEF End
    <3>2. {n \in 1..at : log[n].key = k} = {}
      BY <1>4, <1>5, <3>1
    <3> QED BY <3>2 DEF LatestOf, Latest
  <2> QED BY <1>6, <1>7, <2>2 DEF Value
<1>8. ASSUME NEW s \in read.rest, AskedFirst(s),
             \/ read' = LET V == Versions(s, k, at)
                        IN  IF V = {} THEN [read EXCEPT !.rest = @ \ {s}]
                            ELSE Answered(Value(Latest(V)), FALSE)
             \/ read' = Answered({}, TRUE)
      PROVE  IInv'
  <2>1. s = m /\ m \in 1..flushed /\ m \in 1..Live /\ m # Live /\ m - 1 \in 0..flushed
        /\ m - 1 \in 0..Len(switches)
    BY <1>1, <1>4, <1>5, <1>8 DEF AskedFirst
  <2>2. Source(m) = (End(m - 1) + 1)..End(m)
    BY <1>1, <2>1, SourceRange
  <2>3. CASE read' = Answered({}, TRUE)
    BY <1>6, <2>3
  <2>4. CASE Versions(m, k, at) = {} /\ read' = [read EXCEPT !.rest = @ \ {m}]
    <3>1. ASSUME NEW n \in 1..at, log[n].key = k PROVE n <= End(m - 1)
      <4>1. n <= End(m) /\ n \notin Source(m)
        BY <1>4, <1>5, <2>4, <3>1 DEF Versions
      <4> QED BY <1>1, <1>5, <2>1, <2>2, <4>1, EndNat
    <3>2. read' \in [state : {"tables"}, key : Keys, at : 0..Len(log), rest : SUBSET Nat]
          /\ read'.key = k /\ read'.at = at /\ read'.rest = read.rest \ {m}
      BY <1>3, <2>4 DEF Remaining
    <3>3. read'.rest = 1..(m - 1)
      BY <1>4, <2>1, <3>2
    <3>4. End(m - 1)' = End(m - 1)
      BY <1>1 DEF End
    <3>5. Remaining(read)'
      BY <1>1, <2>1, <3>1, <3>2, <3>3, <3>4 DEF Remaining
    <3>6. GetExact'
      BY <3>2 DEF GetExact
    <3> QED BY <1>2, <3>5, <3>6 DEF IInv
  <2>5. CASE Versions(m, k, at) # {}
             /\ read' = Answered(Value(Latest(Versions(m, k, at))), FALSE)
    <3>1. Latest(Versions(m, k, at)) = LatestOf(k, at)
      BY <1>1, <1>4, <1>5, <2>1, <2>5, NewestSource
    <3>2. Value(Latest(Versions(m, k, at))) \in SUBSET Nat
      BY <1>1, <1>5, <2>1, VersionsNat
    <3> QED BY <1>6, <2>5, <3>1, <3>2
  <2> QED BY <1>8, <2>1, <2>3, <2>4, <2>5
<1> QED BY <1>7, <1>8 DEF GetTable

\* Every step keeps the invariant of get().
LEMMA NextIInv == IInv /\ [Next]_vars => IInv'
<1> SUFFICES ASSUME IInv, [Next]_vars PROVE IInv'
  OBVIOUS
<1>1. ASSUME UNCHANGED <<log, switches, flushed, read>> PROVE IInv'
  BY <1>1 DEF IInv, SourcesInv, Remaining, Responded, End, GetExact, Value,
              LatestOf, Latest, LogEntry
<1>2. CASE \E start \in {0} \cup Keys, reverse \in BOOLEAN : Iterate(start, reverse)
  BY <1>1, <1>2 DEF Iterate
<1>3. CASE (\E s \in 1..(MaxSwitches + 1) : Fetch(s)) \/ Merge
  BY <1>1, <1>3 DEF Fetch, Merge
<1>4. CASE UNCHANGED vars
  BY <1>1, <1>4 DEF vars
<1> QED BY <1>2, <1>3, <1>4, MemtablesStep, GetStep, GetTableStep DEF Next

\* get() answers as of its sequence number, for any keys and however often
\* memtables are written, switched and flushed while it waits for tables.
THEOREM GetAnswers == Spec => []GetExact
<1>1. IInv => GetExact
  BY DEF IInv
<1> QED BY <1>1, InitIInv, NextIInv, PTL DEF Spec

-----------------------------------------------------------------------------
(* The iterator.                                                           *)

\* Each write is in a source, and no table is empty.
CoverInv ==
  /\ \A i \in 1..Len(switches) : End(i - 1) < switches[i]
  /\ \A m \in 1..Len(log) : \E s \in 1..Live : m \in Source(s)

\* What a child has still to bring.
Ahead(s, m) ==
  /\ it.cache[s] # Done
  /\ \/ it.last[s] = None
     \/ Comes(it.reverse, it.last[s], m)
     \/ m = it.last[s] /\ it.cache[s] = m

InRange(k) == IF it.reverse THEN k <= it.start ELSE k > it.start
Yields(k) == {n \in it.yielded : log[n].key = k}

\* What RegularIteration says of a key behind the iterator.
Decided(k) ==
  \/ \E n \in Yields(k) : Yields(k) = {n} /\ \A m \in LatestOf(k, it.at) : m <= n
  \/ Yields(k) = {} /\ \E t \in it.at..Len(log) : Value(LatestOf(k, t)) = {}

ChildrenInv ==
  /\ it \in [state : {"merging", "ended"}, start : Nat, reverse : BOOLEAN,
             at : 0..Len(log), lost : BOOLEAN, last : [Children -> Nat],
             cache : [Children -> Int], lookup : Nat, updated : BOOLEAN,
             yielded : SUBSET (1..Len(log))]
  /\ Children \subseteq 1..Live
  /\ \A s \in Children :
       /\ it.last[s] = None \/ it.last[s] \in Source(s)
       /\ \/ it.cache[s] \in {None, Done}
          \/ it.cache[s] = it.last[s] /\ it.last[s] \in Source(s)
  /\ it.state = "ended" => \A s \in Children : it.cache[s] = Done

\* A write from before the call is still to be brought by the child of its source,
\* or its key is not new any more; unless a table could not be opened there is
\* such a child if the key is in the range.
AheadInv ==
  /\ \A s \in Children : \A m \in Source(s) :
       m <= it.at => Ahead(s, m) \/ ~NewKey(log[m].key)
  /\ ~it.lost => \A m \in 1..it.at :
       InRange(log[m].key) => \E s \in Children : m \in Source(s)

DecidedInv ==
  /\ \A n \in it.yielded : ~NewKey(log[n].key)
  /\ ~it.lost => \A k \in Keys :
       InRange(k) /\ ~NewKey(k) /\ (it.reverse => Plain(k)) => Decided(k)

Iterating == ChildrenInv /\ AheadInv /\ DecidedInv
IteratorInv == CoverInv /\ (it = Idle \/ Iterating)

\* The keys of writes are compared as numbers.
LEMMA KeysNat ==
  ASSUME SourcesInv
  PROVE  /\ Len(log) \in Nat
         /\ \A n \in 1..Len(log) : log[n].key \in Keys /\ log[n].key \in Nat
                                   /\ log[n].type \in {"value", "deletion"}
<1>1. Len(log) \in Nat /\ \A n \in 1..Len(log) : log[n] \in LogEntry
  BY DEF SourcesInv
<1> QED BY <1>1, ReadsAssumption DEF LogEntry

\* A source holds writes only.
LEMMA SourceNat ==
  ASSUME SourcesInv, NEW s \in 1..Live
  PROVE  Source(s) \subseteq 1..Len(log)
<1>1. s - 1 \in 0..Len(switches) /\ (s # Live => s \in 0..Len(switches))
  BY EndNat DEF Live
<1> QED BY <1>1, EndNat, SourceRange, SMTT(30)

\* The internal keys of writes are in a strict order, in both directions.
LEMMA Order ==
  ASSUME SourcesInv, NEW r \in BOOLEAN
  PROVE  /\ \A m, n \in 1..Len(log) :
              /\ ~(Comes(r, m, n) /\ Comes(r, n, m))
              /\ Comes(r, m, n) \/ Comes(r, n, m) \/ m = n
         /\ \A l, m, n \in 1..Len(log) :
              Comes(r, l, m) /\ Comes(r, m, n) => Comes(r, l, n)
<1>1. /\ \A m, n \in 1..Len(log) :
           /\ ~(Before(m, n) /\ Before(n, m))
           /\ Before(m, n) \/ Before(n, m) \/ m = n
      /\ \A l, m, n \in 1..Len(log) : Before(l, m) /\ Before(m, n) => Before(l, n)
  BY KeysNat, SMTT(30) DEF Before
<1> QED BY <1>1 DEF Comes

\* So one of some writes comes first: of the sets of those that come before one of
\* them, a smallest one is empty.
LEMMA FirstExists ==
  ASSUME SourcesInv, NEW r \in BOOLEAN, NEW S \in SUBSET (1..Len(log)), S # {}
  PROVE  \E n \in S : \A m \in S : ~Comes(r, m, n)
<1> DEFINE Earlier(x) == {y \in S : Comes(r, y, x)}
           T == {Earlier(x) : x \in S}
<1>1. IsFiniteSet(S)
  <2>1. IsFiniteSet(1..Len(log))
    BY KeysNat, FS_Interval
  <2> QED BY <2>1, FS_Subset
<1>2. IsWellFoundedOn(StrictSubsetOrdering(S), FiniteSubsetsOf(S))
  BY FS_StrictSubsetOrderingWellFounded, Zenon
<1>3. FiniteSubsetsOf(S) = SUBSET S
  BY <1>1, FS_FiniteSubsetsOfFinite, Zenon
<1>4. T \subseteq FiniteSubsetsOf(S) /\ T # {}
  <2>1. \A x \in S : Earlier(x) \in SUBSET S
    OBVIOUS
  <2>2. PICK x \in S : TRUE
    OBVIOUS
  <2>3. Earlier(x) \in T
    BY <2>2
  <2>4. T \subseteq SUBSET S
    BY <2>1
  <2> HIDE DEF T
  <2> QED BY <1>3, <2>3, <2>4
<1>5. PICK U \in T : \A V \in T : ~ <<V, U>> \in StrictSubsetOrdering(S)
  <2> HIDE DEF T
  <2> QED BY <1>2, <1>4, WFMin, Zenon
<1>6. PICK x \in S : U = Earlier(x)
  BY <1>5
<1>7. ASSUME NEW y \in S, Comes(r, y, x) PROVE FALSE
  <2>1. y \in Earlier(x) /\ y \notin Earlier(y) /\ \A z \in Earlier(y) : z \in Earlier(x)
    BY <1>7, Order
  <2>2. <<Earlier(y), U>> \in StrictSubsetOrdering(S)
    BY <1>6, <2>1 DEF StrictSubsetOrdering
  <2> QED BY <1>5, <2>2
<1> QED BY <1>7

\* Two versions of a plain key are one.
LEMMA PlainKey ==
  ASSUME SourcesInv, NEW k, Plain(k), NEW m \in 1..Len(log), NEW n \in 1..Len(log),
         log[m].key = k, log[n].key = k
  PROVE  m = n
<1> DEFINE S == {i \in 1..Len(log) : log[i].key = k}
<1>1. IsFiniteSet(S) /\ Cardinality(S) <= 1 /\ m \in S /\ n \in S
  <2>1. IsFiniteSet(1..Len(log)) /\ S \subseteq 1..Len(log)
    BY KeysNat, FS_Interval
  <2>2. IsFiniteSet(S)
    BY <2>1, FS_Subset
  <2> QED BY <2>2 DEF Plain
<1> HIDE DEF S
<1>2. {m, n} \subseteq S /\ IsFiniteSet({m}) /\ Cardinality({m}) = 1
  BY <1>1, FS_Singleton
<1>3. Cardinality({m, n}) <= Cardinality(S)
  BY <1>1, <1>2, FS_Subset
<1>4. m # n => Cardinality({m, n}) = 2
  <2>1. {m} \cup {n} = {m, n}
    OBVIOUS
  <2>2. m # n => Cardinality({m} \cup {n}) = Cardinality({m}) + 1
    BY <1>2, FS_AddElement
  <2> QED BY <1>2, <2>1, <2>2
<1>5. Cardinality(S) \in Nat
  BY <1>1, FS_CardinalityType
<1> QED BY <1>1, <1>3, <1>4, <1>5

\* At the start there is no write and no iterator.
LEMMA InitIterator == Init => IteratorInv
  BY DEF Init, IteratorInv, CoverInv

\* The invariant says of every key behind the iterator what is promised.
LEMMA IteratorHolds == SourcesInv /\ IteratorInv => RegularIteration
<1> SUFFICES ASSUME SourcesInv, Iterating, it # Idle, ~it.lost, NEW k \in Passed,
                    it.reverse => Plain(k)
             PROVE  Decided(k)
  BY DEF RegularIteration, IteratorInv, Decided, Yields
<1>1. k \in Keys /\ k \in Nat /\ InRange(k)
  BY ReadsAssumption DEF Passed, InRange
<1>2. it.reverse \in BOOLEAN /\ it.lookup \in Nat /\ it.at \in 0..Len(log)
      /\ Len(log) \in Nat
  BY KeysNat DEF Iterating, ChildrenInv
<1>3. CASE ~NewKey(k)
  BY <1>1, <1>3 DEF Iterating, DecidedInv
<1>4. CASE NewKey(k)
  <2>1. it.state = "ended"
    BY <1>1, <1>2, <1>4 DEF Passed, NewKey
  <2>2. ASSUME NEW m \in 1..it.at, log[m].key = k PROVE FALSE
    <3>1. PICK s \in Children : m \in Source(s)
      BY <1>1, <2>2 DEF Iterating, AheadInv
    <3>2. Ahead(s, m)
      BY <1>4, <2>2, <3>1 DEF Iterating, AheadInv
    <3> QED BY <2>1, <3>2 DEF Ahead, Iterating, ChildrenInv
  <2>3. Value(LatestOf(k, it.at)) = {}
    BY <2>2 DEF Value, LatestOf, Latest
  <2>4. Yields(k) = {}
    BY <1>4 DEF Yields, Iterating, DecidedInv
  <2>5. it.at \in it.at..Len(log)
    BY <1>2
  <2> QED BY <2>3, <2>4, <2>5 DEF Decided
<1> QED BY <1>3, <1>4

\* Memtables that are written, switched and flushed keep what is in a source, and
\* add newer writes to it.
LEMMA SourcesGrow ==
  ASSUME SourcesInv,
         (\E k \in Keys, type \in {"value", "deletion"} : Write(k, type))
           \/ Switch \/ Flush
  PROVE  /\ it' = it /\ Len(log) \in Nat /\ Len(log') \in Nat /\ Len(log) <= Len(log')
         /\ 1..Live \subseteq 1..Live'
         /\ \A n \in 1..Len(log) : log'[n] = log[n]
         /\ \A s \in 1..Live : /\ Source(s) \subseteq Source(s)'
                               /\ \A m \in Source(s)' : m \in Source(s) \/ m > Len(log)
<1>1. CASE \E k \in Keys, type \in {"value", "deletion"} : Write(k, type)
  <2>1. PICK k \in Keys, type \in {"value", "deletion"} : Write(k, type)
    BY <1>1
  <2>2. /\ log' = Append(log, [key |-> k, type |-> type])
        /\ UNCHANGED <<switches, flushed, it>>
    BY <2>1 DEF Write
  <2>3. /\ Len(log) \in Nat /\ Len(log') = Len(log) + 1
        /\ \A n \in 1..Len(log) : log'[n] = log[n]
    BY <2>2 DEF SourcesInv
  <2>4. Live' = Live
    BY <2>2 DEF Live
  <2>5. ASSUME NEW s \in 1..Live
        PROVE  /\ Source(s) \subseteq Source(s)'
               /\ \A m \in Source(s)' : m \in Source(s) \/ m > Len(log)
    <3>1. CASE s > Len(switches)
      <4>1. PICK a : /\ a = IF s = 1 THEN 1 ELSE switches[s - 1] + 1
                     /\ a \in Nat
        BY <2>5 DEF SourcesInv, Live
      <4>2. Source(s) = a..Len(log) /\ Source(s)' = a..Len(log')
        BY <2>2, <3>1, <4>1 DEF Source
      <4> QED BY <2>3, <4>1, <4>2
    <3>2. CASE ~(s > Len(switches))
      BY <2>2, <3>2 DEF Source
    <3> QED BY <3>1, <3>2
  <2> QED BY <2>2, <2>3, <2>4, <2>5
<1>2. CASE Switch
  <2>1. /\ switches' = Append(switches, Len(log)) /\ UNCHANGED <<log, flushed, it>>
    BY <1>2 DEF Switch
  <2>2. /\ Len(log) \in Nat /\ Len(switches) \in Nat
        /\ Len(switches') = Len(switches) + 1
        /\ switches'[Len(switches) + 1] = Len(log)
        /\ \A i \in 1..Len(switches) : switches'[i] = switches[i]
    BY <2>1 DEF SourcesInv
  <2>3. Live = Len(switches) + 1 /\ Live' = Len(switches) + 2
    BY <2>2 DEF Live
  <2>4. \A s \in 1..Live : Source(s)' = Source(s)
    <3> SUFFICES ASSUME NEW s \in 1..Live PROVE Source(s)' = Source(s)
      OBVIOUS
    <3>1. s # 1 => switches'[s - 1] = switches[s - 1]
      BY <2>2, <2>3
    <3>2. CASE s = Len(switches) + 1
      BY <2>1, <2>2, <3>1, <3>2 DEF Source
    <3>3. CASE s # Len(switches) + 1
      <4>1. s \in 1..Len(switches) /\ ~(s > Len(switches)) /\ ~(s > Len(switches'))
        BY <2>2, <2>3, <3>3
      <4> QED BY <2>1, <2>2, <3>1, <4>1 DEF Source
    <3> QED BY <3>2, <3>3
  <2> QED BY <2>1, <2>2, <2>3, <2>4
<1>3. CASE Flush
  BY <1>3 DEF Flush, SourcesInv, Source, Live
<1> QED BY <1>1, <1>2, <1>3

\* A write goes to the live memtable, which is switched only if it has one.
LEMMA CoverStep ==
  ASSUME SourcesInv, CoverInv,
         (\E k \in Keys, type \in {"value", "deletion"} : Write(k, type))
           \/ Switch \/ Flush
  PROVE  CoverInv'
<1>1. ASSUME NEW m \in 1..Len(log) PROVE \E s \in 1..Live' : m \in Source(s)'
  BY SourcesGrow DEF CoverInv
<1>2. CASE \E k \in Keys, type \in {"value", "deletion"} : Write(k, type)
  <2>1. /\ UNCHANGED switches /\ Len(log) \in Nat /\ Len(log') = Len(log) + 1
    BY <1>2 DEF Write, SourcesInv
  <2>2. \E s \in 1..Live' : Len(log') \in Source(s)'
    <3>1. Live = Len(switches) + 1 /\ Live' = Live /\ Len(switches) \in Nat
      BY <2>1 DEF Live, SourcesInv
    <3>2. PICK s \in 1..Live' : s = Live
      BY <3>1
    <3>3. PICK a : a = IF s = 1 THEN 1 ELSE switches[s - 1] + 1
      OBVIOUS
    <3>4. a \in Nat /\ a <= Len(log) + 1
      BY <3>1, <3>2, <3>3, <2>1 DEF SourcesInv
    <3>5. Source(s)' = a..Len(log')
      BY <2>1, <3>1, <3>2, <3>3 DEF Source
    <3> QED BY <2>1, <3>4, <3>5
  <2>3. \A m \in 1..Len(log') : m \in 1..Len(log) \/ m = Len(log')
    BY <2>1
  <2>4. \A i \in 1..Len(switches') : End(i - 1)' < switches'[i]
    BY <2>1 DEF CoverInv, End
  <2> QED BY <1>1, <2>2, <2>3, <2>4 DEF CoverInv
<1>3. CASE Switch
  <2>1. switches' = Append(switches, Len(log)) /\ UNCHANGED log /\ Source(Live) # {}
        /\ Len(log) \in Nat /\ Len(switches) \in Nat
    BY <1>3 DEF Switch, SourcesInv
  <2>2. End(Len(switches)) < Len(log)
    <3>1. Source(Live) = (End(Len(switches)) + 1)..Len(log)
      BY <2>1, SourceRange DEF Live
    <3> QED BY <2>1, <3>1, EndNat
  <2>3. ASSUME NEW i \in 1..Len(switches') PROVE End(i - 1)' < switches'[i]
    <3>1. End(i - 1)' = End(i - 1)
      BY <2>1 DEF End, SourcesInv
    <3>2. CASE i = Len(switches) + 1
      BY <2>1, <2>2, <3>1, <3>2 DEF SourcesInv
    <3>3. CASE i # Len(switches) + 1
      BY <2>1, <3>1, <3>3 DEF SourcesInv, CoverInv
    <3> QED BY <3>2, <3>3
  <2> QED BY <1>1, <2>1, <2>3 DEF CoverInv
<1>4. CASE Flush
  BY <1>1, <1>4 DEF Flush, CoverInv, End
<1> QED BY <1>2, <1>3, <1>4

\* What was decided stays so, and nothing new comes to be brought.
LEMMA GrowStep ==
  ASSUME SourcesInv, IteratorInv,
         (\E k \in Keys, type \in {"value", "deletion"} : Write(k, type))
           \/ Switch \/ Flush
  PROVE  IteratorInv'
<1> SUFFICES ASSUME Iterating PROVE Iterating'
  BY CoverStep, SourcesGrow DEF IteratorInv
<1>1. /\ it' = it /\ Len(log) \in Nat /\ Len(log') \in Nat /\ Len(log) <= Len(log')
      /\ \A n \in 1..Len(log) : log'[n] = log[n]
  BY SourcesGrow
<1>2. \A s \in Children : /\ s \in 1..Live /\ s \in 1..Live'
                          /\ Source(s) \subseteq Source(s)'
                          /\ \A m \in Source(s)' : m \in Source(s) \/ m > Len(log)
                          /\ Source(s) \subseteq 1..Len(log)
  BY SourcesGrow, SourceNat DEF Iterating, ChildrenInv
<1>3. Children' = Children
  BY <1>1 DEF Children
<1>4. it.at \in 0..Len(log) /\ it.at \in 0..Len(log') /\ it.reverse \in BOOLEAN
  BY <1>1 DEF Iterating, ChildrenInv
<1>5. ChildrenInv'
  <2>1. it.yielded \subseteq 1..Len(log')
    BY <1>1 DEF Iterating, ChildrenInv
  <2>2. it \in [state : {"merging", "ended"}, start : Nat, reverse : BOOLEAN,
                at : 0..Len(log'), lost : BOOLEAN, last : [Children -> Nat],
                cache : [Children -> Int], lookup : Nat, updated : BOOLEAN,
                yielded : SUBSET (1..Len(log'))]
    BY <1>4, <2>1 DEF Iterating, ChildrenInv
  <2> QED BY <1>1, <1>2, <1>3, <2>2 DEF Iterating, ChildrenInv
<1>6. AheadInv'
  <2>1. ASSUME NEW s \in Children, NEW m \in Source(s)', m <= it.at
        PROVE  Ahead(s, m)' \/ ~NewKey(log[m].key)'
    <3>1. m \in Source(s) /\ m \in 1..Len(log)
      <4>1. m \in Int
        BY <2>1 DEF Source
      <4> QED BY <1>1, <1>2, <1>4, <2>1, <4>1
    <3>2. CASE ~NewKey(log[m].key)
      BY <1>1, <3>1, <3>2 DEF NewKey
    <3>3. CASE Ahead(s, m)
      <4>1. it.last[s] = None \/ it.last[s] \in 1..Len(log)
        BY <1>2 DEF Iterating, ChildrenInv
      <4> QED BY <1>1, <3>1, <3>3, <4>1 DEF Ahead, Comes, Before
    <3> QED BY <2>1, <3>1, <3>2, <3>3 DEF Iterating, AheadInv
  <2>2. ASSUME ~it.lost, NEW m \in 1..it.at, InRange(log[m].key)'
        PROVE  \E s \in Children : m \in Source(s)'
    <3>1. m \in 1..Len(log) /\ InRange(log[m].key)
      BY <1>1, <1>4, <2>2 DEF InRange
    <3> QED BY <1>2, <2>2, <3>1 DEF Iterating, AheadInv
  <2> QED BY <1>1, <1>3, <2>1, <2>2 DEF AheadInv
<1>7. DecidedInv'
  <2>1. ASSUME NEW n \in it.yielded PROVE ~NewKey(log[n].key)'
    BY <1>1 DEF Iterating, ChildrenInv, DecidedInv, NewKey
  <2>2. ASSUME ~it.lost, NEW k \in Keys, InRange(k)', ~NewKey(k)', it.reverse => Plain(k)'
        PROVE  Decided(k)'
    <3>1. InRange(k) /\ ~NewKey(k)
      BY <1>1, <2>2 DEF InRange, NewKey
    <3>2. it.reverse => Plain(k)
      <4> DEFINE S == {n \in 1..Len(log) : log[n].key = k}
                 R == {n \in 1..Len(log') : log'[n].key = k}
      <4>1. S \subseteq R /\ R \subseteq 1..Len(log')
        BY <1>1
      <4>2. IsFiniteSet(R)
        <5>1. IsFiniteSet(1..Len(log'))
          BY <1>1, FS_Interval
        <5> QED BY <4>1, <5>1, FS_Subset
      <4>3. Cardinality(S) <= Cardinality(R) /\ Cardinality(S) \in Nat
            /\ Cardinality(R) \in Nat
        BY <4>1, <4>2, FS_Subset, FS_CardinalityType
      <4>4. Plain(k)' => Cardinality(R) <= 1
        BY DEF Plain
      <4>5. Cardinality(S) <= 1 => Plain(k)
        BY DEF Plain
      <4> HIDE DEF S, R
      <4> QED BY <2>2, <4>3, <4>4, <4>5
    <3>3. Decided(k)
      BY <2>2, <3>1, <3>2 DEF Iterating, DecidedInv
    <3>4. Yields(k)' = Yields(k)
      BY <1>1 DEF Yields, Iterating, ChildrenInv
    <3>5. \A t \in 0..Len(log) : LatestOf(k, t)' = LatestOf(k, t)
                                 /\ Value(LatestOf(k, t))' = Value(LatestOf(k, t))
      BY <1>1, SMTT(30) DEF LatestOf, Latest, Value
    <3>6. \A t \in it.at..Len(log) : t \in 0..Len(log) /\ t \in it.at..Len(log')
      BY <1>1, <1>4
    <3> QED BY <1>1, <1>4, <3>3, <3>4, <3>5, <3>6 DEF Decided
  <2> QED BY <1>1, <2>1, <2>2 DEF DecidedInv
<1> QED BY <1>5, <1>6, <1>7 DEF Iterating

\* A table that is skipped has no key in the range.
LEMMA NoneSkipped ==
  ASSUME SourcesInv, CoverInv, NEW s \in 1..flushed, NEW m \in Source(s),
         NEW start \in Nat, NEW reverse \in BOOLEAN,
         IF reverse THEN log[m].key <= start ELSE log[m].key > start
  PROVE  ~Skips(s, start, reverse)
<1>1. s \in 1..Live /\ Source(s) \in SUBSET (1..Len(log)) /\ Source(s) # {}
  <2>1. s \in 1..Live
    BY DEF SourcesInv, Live
  <2> QED BY <2>1, SourceNat
<1>2. \A i, j \in 1..Len(log) : log[i].key \in Nat /\ log[j].key \in Nat
                                 /\ (~Before(i, j) => log[j].key <= log[i].key)
  BY KeysNat DEF Before
<1>3. CASE reverse
  <2>1. \E n \in Source(s) : \A i \in Source(s) : ~Before(i, n)
    BY <1>1, FirstExists DEF Comes
  <2>2. Smallest(s) \in Source(s) /\ \A i \in Source(s) : ~Before(i, Smallest(s))
    BY <2>1 DEF Smallest
  <2>3. ~Before(m, Smallest(s)) /\ Smallest(s) \in 1..Len(log) /\ m \in 1..Len(log)
    BY <1>1, <2>2
  <2>4. log[Smallest(s)].key <= log[m].key /\ log[m].key <= start
        /\ log[Smallest(s)].key \in Nat /\ log[m].key \in Nat
    BY <1>2, <1>3, <2>3
  <2> QED BY <1>3, <2>4 DEF Skips
<1>4. CASE ~reverse
  <2>1. \E n \in Source(s) : \A i \in Source(s) : ~Before(n, i)
    BY <1>1, FirstExists DEF Comes
  <2>2. Largest(s) \in Source(s) /\ \A i \in Source(s) : ~Before(Largest(s), i)
    BY <2>1 DEF Largest
  <2>3. ~Before(Largest(s), m) /\ Largest(s) \in 1..Len(log) /\ m \in 1..Len(log)
    BY <1>1, <2>2
  <2>4. log[m].key <= log[Largest(s)].key /\ log[m].key > start
        /\ log[Largest(s)].key \in Nat /\ log[m].key \in Nat
    BY <1>2, <1>4, <2>3
  <2> QED BY <1>4, <2>4 DEF Skips
<1> QED BY <1>3, <1>4

\* The iterator changes no source.
LEMMA CoverKept ==
  ASSUME CoverInv, UNCHANGED <<log, switches>>
  PROVE  CoverInv'
  BY DEF CoverInv, End, Live, Source

\* The call takes a child for every source with a key in the range.
LEMMA IterateStep ==
  ASSUME SourcesInv, IteratorInv, NEW start \in {0} \cup Keys, NEW reverse \in BOOLEAN,
         Iterate(start, reverse)
  PROVE  IteratorInv'
<1>a. PICK failed \in SUBSET Tables :
        it' = [state |-> "merging", start |-> start, reverse |-> reverse,
               at |-> Len(log), lost |-> failed # {},
               last |-> [s \in Capture(start, reverse) \ failed |-> None],
               cache |-> [s \in Capture(start, reverse) \ failed |-> None],
               lookup |-> start, updated |-> FALSE, yielded |-> {}]
  BY DEF Iterate
<1>b. PICK S : S = Capture(start, reverse) \ failed
  OBVIOUS
<1>1. /\ S = Capture(start, reverse) \ failed
      /\ it' = [state |-> "merging", start |-> start, reverse |-> reverse,
                at |-> Len(log), lost |-> failed # {},
                last |-> [s \in S |-> None], cache |-> [s \in S |-> None],
                lookup |-> start, updated |-> FALSE, yielded |-> {}]
  BY <1>a, <1>b
<1>2. UNCHANGED <<log, switches, flushed>> /\ CoverInv /\ CoverInv'
  BY CoverKept DEF Iterate, IteratorInv
<1>3. start \in Nat /\ Len(log) \in Nat
  <2>1. start \in Nat
    BY ReadsAssumption
  <2>2. Len(log) \in Nat
    BY KeysNat
  <2> QED BY <2>1, <2>2
<1>4. Children' = S
  BY <1>1 DEF Children
<1>5. S \subseteq 1..Live
  <2>1. Live \in Nat /\ Live \in 1..Live /\ Imm \subseteq 1..Live /\ Tables \subseteq 1..Live
    BY DEF Live, Imm, Tables, SourcesInv
  <2> QED BY <1>1, <2>1 DEF Capture
<1>6. ChildrenInv'
  <2>1. [s \in S |-> None] \in [S -> Nat] /\ [s \in S |-> None] \in [S -> Int]
    BY DEF None
  <2>2. it' \in [state : {"merging", "ended"}, start : Nat, reverse : BOOLEAN,
                 at : 0..Len(log), lost : BOOLEAN, last : [S -> Nat],
                 cache : [S -> Int], lookup : Nat, updated : BOOLEAN,
                 yielded : SUBSET (1..Len(log))]
    BY <1>1, <1>3, <2>1
  <2>3. Live' = Live
    BY <1>2 DEF Live
  <2> QED BY <1>1, <1>2, <1>4, <1>5, <2>2, <2>3 DEF ChildrenInv
<1>7. AheadInv'
  <2>1. ASSUME NEW s \in S, NEW m PROVE Ahead(s, m)'
    BY <1>1, <2>1 DEF Ahead, None, Done
  <2>2. ASSUME failed = {}, NEW m \in 1..Len(log),
               IF reverse THEN log[m].key <= start ELSE log[m].key > start
        PROVE  \E s \in S : m \in Source(s)
    <3>1. PICK s \in 1..Live : m \in Source(s)
      BY <1>2 DEF CoverInv
    <3>2. s = Live \/ s \in Imm \/ s \in 1..flushed
      BY DEF Live, Imm, SourcesInv
    <3>3. s \in 1..flushed => ~Skips(s, start, reverse)
      BY <1>2, <1>3, <2>2, <3>1, NoneSkipped
    <3>4. s \in Capture(start, reverse)
      BY <3>2, <3>3 DEF Capture, Tables
    <3> QED BY <1>1, <2>2, <3>1, <3>4
  <2>3. ~it'.lost => failed = {}
    BY <1>1
  <2>4. it'.at = Len(log) /\ it'.reverse = reverse /\ it'.start = start
    BY <1>1
  <2>5. ASSUME failed = {}, NEW m \in 1..Len(log), InRange(log[m].key)'
        PROVE  \E s \in S : m \in Source(s)'
    <3>1. PICK s \in S : m \in Source(s)
      BY <1>2, <2>2, <2>4, <2>5 DEF InRange
    <3> QED BY <1>2, <3>1 DEF Source
  <2> QED BY <1>2, <1>4, <2>1, <2>3, <2>4, <2>5 DEF AheadInv
<1>8. DecidedInv'
  <2>1. it'.yielded = {} /\ \A k \in Keys : InRange(k)' => NewKey(k)'
    BY <1>1 DEF InRange, NewKey
  <2> QED BY <2>1 DEF DecidedInv
<1> QED BY <1>2, <1>6, <1>7, <1>8 DEF IteratorInv, Iterating

\* A child brings what comes first of what it has still to bring.
LEMMA FetchStep ==
  ASSUME SourcesInv, IteratorInv, NEW s, Fetch(s)
  PROVE  IteratorInv'
<1>1. /\ it.state = "merging" /\ s \in Children /\ it.cache[s] = None
      /\ UNCHANGED <<log, switches, flushed>>
  BY DEF Fetch
<1>2. Iterating /\ CoverInv'
  BY <1>1, CoverKept DEF IteratorInv, Idle
<1>3. s \in 1..Live /\ Source(s) \in SUBSET (1..Len(log)) /\ it.reverse \in BOOLEAN
  BY <1>1, <1>2, SourceNat DEF Iterating, ChildrenInv
<1> DEFINE r == it.reverse
           rest == {n \in Source(s) : it.last[s] = None \/ Comes(r, it.last[s], n)}
<1>4. /\ Following(s) = {n \in rest : \A m \in rest : ~Comes(r, m, n)}
      /\ rest \subseteq 1..Len(log)
  BY <1>3 DEF Following
<1>5. rest # {} => Following(s) # {}
  <2> HIDE DEF rest
  <2>1. rest # {} => \E n \in rest : \A m \in rest : ~Comes(r, m, n)
    BY <1>3, <1>4, FirstExists
  <2> QED BY <1>4, <2>1
<1>6. ASSUME NEW m \in Source(s), Ahead(s, m) PROVE m \in rest
  BY <1>1, <1>3, <1>6 DEF Ahead, None
<1>7. PICK c, l :
        /\ it' = [it EXCEPT !.cache[s] = c, !.last[s] = l]
        /\ \/ c = Done /\ l = it.last[s] /\ Following(s) = {}
           \/ c = l /\ c \in Following(s)
  <2>1. CASE Following(s) = {}
    <3>1. it' = [it EXCEPT !.cache[s] = Done]
      BY <2>1 DEF Fetch
    <3>2. it' = [it EXCEPT !.cache[s] = Done, !.last[s] = it.last[s]]
      BY <1>1, <1>2, <3>1 DEF Iterating, ChildrenInv
    <3> QED BY <2>1, <3>2
  <2>2. CASE Following(s) # {}
    <3>1. PICK n : n = CHOOSE i \in Following(s) : TRUE
      OBVIOUS
    <3>2. n \in Following(s) /\ it' = [it EXCEPT !.cache[s] = n, !.last[s] = n]
      BY <2>2, <3>1 DEF Fetch
    <3> QED BY <3>2
  <2> QED BY <2>1, <2>2
<1> HIDE DEF rest
<1>8. \/ c = Done /\ l = it.last[s]
      \/ c = l /\ l \in Source(s) /\ l \in rest /\ l \in 1..Len(log)
  BY <1>3, <1>4, <1>7 DEF rest
<1>9. c \in Int /\ l \in Nat /\ (l = None \/ l \in Source(s))
      /\ (c \in {None, Done} \/ (c = l /\ l \in Source(s)))
  <2>1. CASE c = Done /\ l = it.last[s]
    <3>1. it.last \in [Children -> Nat] /\ (it.last[s] = None \/ it.last[s] \in Source(s))
      BY <1>1, <1>2 DEF Iterating, ChildrenInv
    <3> QED BY <1>1, <2>1, <3>1 DEF Done
  <2>2. CASE c = l /\ l \in Source(s) /\ l \in 1..Len(log)
    BY <2>2
  <2> QED BY <1>8, <2>1, <2>2
<1>10. /\ it'.cache = [it.cache EXCEPT ![s] = c] /\ it'.last = [it.last EXCEPT ![s] = l]
       /\ it'.cache[s] = c /\ it'.last[s] = l
       /\ \A o \in Children : o # s => it'.cache[o] = it.cache[o] /\ it'.last[o] = it.last[o]
       /\ Children' = Children
       /\ it'.state = "merging" /\ it'.start = it.start /\ it'.reverse = it.reverse
       /\ it'.at = it.at /\ it'.lost = it.lost /\ it'.lookup = it.lookup
       /\ it'.updated = it.updated /\ it'.yielded = it.yielded
  BY <1>1, <1>2, <1>7 DEF Iterating, ChildrenInv, Children
<1>11. ChildrenInv'
  <2>1. it'.cache \in [Children -> Int] /\ it'.last \in [Children -> Nat]
    BY <1>2, <1>9, <1>10 DEF Iterating, ChildrenInv
  <2>2. it' \in [state : {"merging", "ended"}, start : Nat, reverse : BOOLEAN,
                 at : 0..Len(log), lost : BOOLEAN, last : [Children -> Nat],
                 cache : [Children -> Int], lookup : Nat, updated : BOOLEAN,
                 yielded : SUBSET (1..Len(log))]
    <3>1. it' = [state |-> it'.state, start |-> it'.start, reverse |-> it'.reverse,
                 at |-> it'.at, lost |-> it'.lost, last |-> it'.last,
                 cache |-> it'.cache, lookup |-> it'.lookup, updated |-> it'.updated,
                 yielded |-> it'.yielded]
      BY <1>2, <1>7 DEF Iterating, ChildrenInv
    <3> QED BY <1>2, <1>10, <2>1, <3>1 DEF Iterating, ChildrenInv
  <2>3. Live' = Live /\ \A o \in Children : Source(o)' = Source(o)
    BY <1>1 DEF Live, Source
  <2>4. ASSUME NEW o \in Children
        PROVE  /\ it'.last[o] = None \/ it'.last[o] \in Source(o)
               /\ \/ it'.cache[o] \in {None, Done}
                  \/ it'.cache[o] = it'.last[o] /\ it'.last[o] \in Source(o)
    <3>1. CASE o = s
      BY <1>9, <1>10, <3>1
    <3>2. CASE o # s
      BY <1>2, <1>10, <3>2 DEF Iterating, ChildrenInv
    <3> QED BY <3>1, <3>2
  <2> QED BY <1>1, <1>2, <1>10, <2>2, <2>3, <2>4 DEF Iterating, ChildrenInv
<1>12. \A m : Comes(r, l, m)' = Comes(r, l, m)
  BY <1>1, <1>10 DEF Comes, Before
<1>13. ASSUME NEW m \in Source(s), Ahead(s, m) PROVE Ahead(s, m)'
  <2>1. m \in rest /\ Following(s) # {}
    BY <1>5, <1>6, <1>13
  <2>2. c = l /\ l \in rest /\ ~Comes(r, m, l) /\ l \in 1..Len(log) /\ m \in 1..Len(log)
    BY <1>3, <1>4, <1>7, <1>8, <2>1
  <2>3. Comes(r, l, m) \/ m = l
    BY <1>3, <2>2, Order
  <2>4. c # Done
    BY <2>2 DEF Done
  <2> QED BY <1>1, <1>10, <2>2, <2>3, <2>4 DEF Ahead, Comes, Before
<1>14. ASSUME NEW o \in Children, o # s, NEW m, Ahead(o, m) PROVE Ahead(o, m)'
  BY <1>1, <1>10, <1>14 DEF Ahead, Comes, Before
<1>15. \A k : NewKey(k)' = NewKey(k) /\ InRange(k)' = InRange(k)
  BY <1>10 DEF NewKey, InRange
<1>16. AheadInv'
  <2>1. \A o \in Children : Source(o)' = Source(o)
    BY <1>1 DEF Source
  <2>2. ASSUME NEW o \in Children, NEW m \in Source(o), m <= it.at
        PROVE  Ahead(o, m)' \/ ~NewKey(log[m].key)'
    BY <1>2, <1>13, <1>14, <1>15, <1>1, <2>2 DEF Iterating, AheadInv
  <2> QED BY <1>1, <1>2, <1>10, <1>15, <2>1, <2>2 DEF Iterating, AheadInv
<1>17. DecidedInv'
  <2>1. \A k : Decided(k)' = Decided(k) /\ Plain(k)' = Plain(k)
    BY <1>1, <1>10 DEF Decided, Yields, LatestOf, Latest, Value, Plain
  <2> QED BY <1>1, <1>2, <1>10, <1>15, <2>1 DEF Iterating, DecidedInv
<1> QED BY <1>2, <1>11, <1>16, <1>17 DEF IteratorInv, Iterating

\* The entry that comes first is taken.  A key that is new no longer after that, and
\* was before, has no version from before the call or this one, which in forward
\* direction is its newest.
LEMMA MergeStep ==
  ASSUME SourcesInv, IteratorInv, Merge
  PROVE  IteratorInv'
<1>1. /\ it.state = "merging" /\ \A s \in Children : it.cache[s] # None
      /\ UNCHANGED <<log, switches, flushed>>
  BY DEF Merge
<1>2. Iterating /\ CoverInv'
  BY <1>1, CoverKept DEF IteratorInv, Idle
<1>3. /\ it.reverse \in BOOLEAN /\ it.lookup \in Nat /\ it.updated \in BOOLEAN
      /\ it.start \in Nat /\ it.at \in 0..Len(log) /\ Len(log) \in Nat
      /\ it.yielded \subseteq 1..Len(log) /\ it.cache \in [Children -> Int]
      /\ it.last \in [Children -> Nat]
  BY <1>2, KeysNat DEF Iterating, ChildrenInv
<1>4. \A s \in Children : Source(s) \subseteq 1..Len(log)
  BY <1>2, SourceNat DEF Iterating, ChildrenInv
<1>5. Live' = Live /\ \A s \in Children : Source(s)' = Source(s)
  BY <1>1 DEF Live, Source
<1> DEFINE hits == {s \in Children : it.cache[s] # Done}
<1>6. CASE hits = {}
  <2>1. it' = [it EXCEPT !.state = "ended"]
    BY <1>6 DEF Merge
  <2>2. it' = [state |-> "ended", start |-> it.start, reverse |-> it.reverse,
               at |-> it.at, lost |-> it.lost, last |-> it.last, cache |-> it.cache,
               lookup |-> it.lookup, updated |-> it.updated, yielded |-> it.yielded]
    BY <1>2, <2>1 DEF Iterating, ChildrenInv
  <2>3. Children' = Children /\ \A s \in Children : it.cache[s] = Done
    BY <1>6, <2>2 DEF Children
  <2>4. ChildrenInv'
    <3>1. it' \in [state : {"merging", "ended"}, start : Nat, reverse : BOOLEAN,
                   at : 0..Len(log), lost : BOOLEAN, last : [Children -> Nat],
                   cache : [Children -> Int], lookup : Nat, updated : BOOLEAN,
                   yielded : SUBSET (1..Len(log))]
      BY <1>2, <2>2 DEF Iterating, ChildrenInv
    <3> QED BY <1>1, <1>2, <1>5, <2>2, <2>3, <3>1 DEF Iterating, ChildrenInv
  <2>5. /\ \A s, m : Ahead(s, m)' = Ahead(s, m)
        /\ \A k : NewKey(k)' = NewKey(k) /\ InRange(k)' = InRange(k)
    BY <1>1, <2>2 DEF Ahead, Comes, Before, NewKey, InRange
  <2>6. AheadInv'
    BY <1>1, <1>2, <1>5, <2>2, <2>3, <2>5 DEF Iterating, AheadInv
  <2>7. \A k : Decided(k)' = Decided(k) /\ Plain(k)' = Plain(k)
    BY <1>1, <2>2 DEF Decided, Yields, LatestOf, Latest, Value, Plain
  <2>8. DecidedInv'
    BY <1>1, <1>2, <2>2, <2>5, <2>7 DEF Iterating, DecidedInv
  <2> QED BY <1>2, <2>4, <2>6, <2>8 DEF IteratorInv, Iterating
<1>7. CASE hits # {}
  <2>a. PICK s \in hits :
          /\ \A o \in hits : ~Comes(it.reverse, it.cache[o], it.cache[s])
          /\ it' = [it EXCEPT
               !.cache[s] = None,
               !.lookup  = IF NewKey(log[it.cache[s]].key) THEN log[it.cache[s]].key
                           ELSE @,
               !.updated = @ \/ NewKey(log[it.cache[s]].key),
               !.yielded = @ \cup {m \in {it.cache[s]} :
                                     /\ NewKey(log[it.cache[s]].key)
                                     /\ log[it.cache[s]].type = "value"}]
    BY <1>7 DEF Merge
  <2>b. PICK n : n = it.cache[s]
    OBVIOUS
  <2>c. PICK e : e = log[n]
    OBVIOUS
  <2>1. /\ n = it.cache[s] /\ e = log[n] /\ s \in hits
        /\ \A o \in hits : ~Comes(it.reverse, it.cache[o], n)
        /\ it' = [it EXCEPT
             !.cache[s] = None,
             !.lookup  = IF NewKey(e.key) THEN e.key ELSE @,
             !.updated = @ \/ NewKey(e.key),
             !.yielded = @ \cup {m \in {n} : NewKey(e.key) /\ e.type = "value"}]
    BY <2>a, <2>b, <2>c
  <2> DEFINE k == e.key
             r == it.reverse
  <2>2. /\ s \in Children /\ n = it.last[s] /\ n \in Source(s) /\ n \in 1..Len(log)
        /\ k \in Nat /\ k \in Keys /\ e.type \in {"value", "deletion"} /\ n \in Nat
    <3>1. s \in Children /\ n # None /\ n # Done
      BY <1>1, <2>1
    <3>2. n = it.last[s] /\ n \in Source(s)
      BY <1>2, <2>1, <3>1 DEF Iterating, ChildrenInv
    <3>3. n \in 1..Len(log)
      BY <1>4, <3>1, <3>2
    <3> QED BY <2>1, <3>1, <3>2, <3>3, KeysNat
  <2>3. /\ it'.cache = [it.cache EXCEPT ![s] = None] /\ it'.last = it.last
        /\ it'.state = "merging" /\ it'.start = it.start /\ it'.reverse = r
        /\ it'.at = it.at /\ it'.lost = it.lost
        /\ it'.lookup = (IF NewKey(k) THEN k ELSE it.lookup)
        /\ it'.updated = (it.updated \/ NewKey(k))
        /\ it'.yielded = it.yielded \cup {m \in {n} : NewKey(k) /\ e.type = "value"}
        /\ it' = [state |-> it'.state, start |-> it'.start, reverse |-> it'.reverse,
                  at |-> it'.at, lost |-> it'.lost, last |-> it'.last,
                  cache |-> it'.cache, lookup |-> it'.lookup, updated |-> it'.updated,
                  yielded |-> it'.yielded]
    BY <1>1, <1>2, <2>1 DEF Iterating, ChildrenInv
  <2>4. /\ Children' = Children /\ it'.cache[s] = None
        /\ \A o \in Children : o # s => it'.cache[o] = it.cache[o]
    BY <1>3, <2>2, <2>3 DEF Children
  <2>5. ChildrenInv'
    <3>1. it'.cache \in [Children -> Int] /\ it'.last \in [Children -> Nat]
      BY <1>3, <2>3 DEF None
    <3>2. it'.yielded \subseteq 1..Len(log) /\ it'.lookup \in Nat
          /\ it'.updated \in BOOLEAN
      BY <1>3, <2>2, <2>3 DEF NewKey
    <3>3. it' \in [state : {"merging", "ended"}, start : Nat, reverse : BOOLEAN,
                   at : 0..Len(log), lost : BOOLEAN, last : [Children -> Nat],
                   cache : [Children -> Int], lookup : Nat, updated : BOOLEAN,
                   yielded : SUBSET (1..Len(log))]
      <4>1. it.lost \in BOOLEAN
        BY <1>2 DEF Iterating, ChildrenInv
      <4> HIDE DEF k, r
      <4>2. it'.reverse \in BOOLEAN /\ it'.start \in Nat /\ it'.at \in 0..Len(log)
            /\ it'.lost \in BOOLEAN /\ it'.state \in {"merging", "ended"}
        BY <1>3, <2>3, <4>1 DEF r
      <4> QED BY <2>3, <3>1, <3>2, <4>2
    <3>4. ASSUME NEW o \in Children
          PROVE  /\ it'.last[o] = None \/ it'.last[o] \in Source(o)
                 /\ \/ it'.cache[o] \in {None, Done}
                    \/ it'.cache[o] = it'.last[o] /\ it'.last[o] \in Source(o)
      BY <1>2, <2>3, <2>4 DEF Iterating, ChildrenInv
    <3>5. Children \subseteq 1..Live
      BY <1>2 DEF Iterating, ChildrenInv
    <3>6. it'.state # "ended"
      BY <2>3
    <3> QED BY <1>1, <1>5, <2>4, <3>3, <3>4, <3>5, <3>6 DEF ChildrenInv
  \* What was not new is not new now, and the key of the entry is not either.
  <2>6. /\ ~NewKey(k)' /\ \A j \in Nat : ~NewKey(j) => ~NewKey(j)'
        /\ \A j : InRange(j)' = InRange(j)
    BY <1>3, <2>2, <2>3 DEF NewKey, InRange
  <2>7. ASSUME NEW o \in Children, NEW m \in Source(o), Ahead(o, m)
        PROVE  Ahead(o, m)' \/ ~NewKey(log[m].key)'
    <3>1. \A i : Comes(r, i, m)' = Comes(r, i, m)
      BY <1>1, <2>3 DEF Comes, Before
    <3>2. CASE o = s
      <4>1. n \in 1..Len(log) /\ n # None
        BY <1>1, <2>1, <2>2
      <4>2. m = n \/ Comes(r, n, m)
        BY <2>2, <2>7, <3>2, <4>1 DEF Ahead
      <4>3. m = n => ~NewKey(log[m].key)'
        BY <1>1, <2>1, <2>6
      <4>4. Comes(r, n, m) => Ahead(o, m)'
        BY <1>1, <2>2, <2>3, <2>4, <3>2 DEF Ahead, None, Done, Comes, Before
      <4> QED BY <4>2, <4>3, <4>4
    <3>3. CASE o # s
      BY <1>1, <2>3, <2>4, <2>7, <3>3 DEF Ahead, Comes, Before
    <3> QED BY <3>2, <3>3
  <2>8. AheadInv'
    <3>1. ASSUME NEW o \in Children, NEW m \in Source(o), m <= it.at
          PROVE  Ahead(o, m)' \/ ~NewKey(log[m].key)'
      <4>1. Ahead(o, m) \/ ~NewKey(log[m].key)
        BY <1>2, <3>1 DEF Iterating, AheadInv
      <4>2. log[m].key \in Nat /\ log' = log
        BY <1>1, <1>4, KeysNat
      <4>3. ~NewKey(log[m].key) => ~NewKey(log[m].key)'
        BY <2>6, <4>2
      <4> QED BY <2>7, <4>1, <4>3
    <3>2. ASSUME ~it.lost, NEW m \in 1..it.at, InRange(log[m].key)
          PROVE  \E o \in Children : m \in Source(o)
      BY <1>2, <3>2 DEF Iterating, AheadInv
    <3>3. \A m : InRange(log[m].key)' = InRange(log[m].key)
      BY <1>1, <2>3 DEF InRange
    <3> HIDE DEF k, r
    <3> QED BY <1>1, <1>5, <2>3, <2>4, <3>1, <3>2, <3>3 DEF AheadInv
  <2>9. ASSUME ~it.lost, NEW j \in Keys, InRange(j), NewKey(j), NEW m \in 1..it.at,
               log[m].key = j
        PROVE  m = n \/ Comes(r, n, m)
    <3>1. PICK o \in Children : m \in Source(o)
      BY <1>2, <2>9 DEF Iterating, AheadInv
    <3>2. Ahead(o, m)
      BY <1>2, <2>9, <3>1 DEF Iterating, AheadInv
    <3>3. it.cache[o] = it.last[o] /\ it.cache[o] \in Source(o) /\ o \in hits
      BY <1>1, <1>2, <3>2 DEF Ahead, Iterating, ChildrenInv
    <3>4. it.cache[o] \in 1..Len(log) /\ m \in 1..Len(log) /\ it.cache[o] # None
      BY <1>1, <1>4, <3>1, <3>3
    <3>5. m = it.cache[o] \/ Comes(r, it.cache[o], m)
      BY <3>2, <3>3, <3>4 DEF Ahead
    <3>6. n = it.cache[o] \/ Comes(r, n, it.cache[o])
      BY <1>3, <2>1, <2>2, <3>3, <3>4, Order
    <3> QED BY <1>3, <2>2, <3>4, <3>5, <3>6, Order
  <2>10. \A m : Comes(r, n, m) => IF r THEN log[m].key < k \/ log[m].key = k
                                      ELSE k < log[m].key \/ (k = log[m].key /\ n > m)
    BY <2>1 DEF Comes, Before
  <2>11. ASSUME ~it.lost, NEW j \in Keys, InRange(j), ~NewKey(j)', r => Plain(j)
         PROVE  Decided(j)'
    <3> USE <1>1
    <3>1. j \in Nat
      BY ReadsAssumption
    <3>2. CASE ~NewKey(j)
      <4>1. Decided(j)
        BY <1>2, <2>11, <3>2 DEF Iterating, DecidedInv
      <4>2. Yields(j)' = Yields(j)
        BY <2>1, <2>3, <3>2 DEF Yields
      <4> QED BY <2>3, <4>1, <4>2 DEF Decided, LatestOf, Latest, Value
    <3>3. CASE NewKey(j)
      <4>1. NewKey(k) /\ IF r THEN k <= j ELSE j <= k
        BY <1>3, <2>2, <2>3, <2>11, <3>1, <3>3 DEF NewKey
      <4>2. Yields(j) = {}
        BY <1>2, <3>3 DEF Yields, Iterating, DecidedInv
      <4>3. it.at \in it.at..Len(log)
        BY <1>3
      <4>4. CASE j # k
        <5>1. \A m \in 1..it.at : log[m].key # j
          <6> SUFFICES ASSUME NEW m \in 1..it.at, log[m].key = j PROVE FALSE
            OBVIOUS
          <6>1. Comes(r, n, m)
            BY <2>1, <2>9, <2>11, <3>3, <4>4
          <6>2. IF r THEN j < k \/ j = k ELSE k < j \/ k = j
            BY <2>10, <6>1
          <6> HIDE DEF k, r
          <6> QED BY <2>2, <3>1, <4>1, <4>4, <6>2
        <5>2. Value(LatestOf(j, it.at))' = {}
          BY <2>3, <5>1 DEF Value, LatestOf, Latest
        <5>3. Yields(j)' = {}
          BY <2>1, <2>3, <4>2, <4>4 DEF Yields
        <5> QED BY <2>3, <4>3, <5>2, <5>3 DEF Decided
      <4>5. CASE j = k
        <5>1. \A m \in 1..it.at : log[m].key = k => m <= n
          <6> SUFFICES ASSUME NEW m \in 1..it.at, log[m].key = k PROVE m <= n
            OBVIOUS
          <6>1. m \in 1..Len(log) /\ m \in Nat
            BY <1>3
          <6>2. CASE m = n
            BY <2>2, <6>2
          <6>3. CASE m # n /\ r
            BY <2>1, <2>2, <2>11, <4>5, <6>1, <6>3, PlainKey
          <6>4. CASE m # n /\ ~r
            <7>1. Comes(r, n, m)
              BY <2>9, <2>11, <3>3, <4>5, <6>4
            <7>2. k < k \/ (k = k /\ n > m)
              BY <2>10, <6>4, <7>1
            <7> HIDE DEF k
            <7> QED BY <2>2, <6>1, <7>2
          <6> QED BY <6>2, <6>3, <6>4
        <5>2. CASE e.type = "value"
          <6>1. Yields(j)' = {n}
            BY <2>1, <2>3, <4>1, <4>2, <4>5, <5>2 DEF Yields
          <6>2. \A m \in LatestOf(j, it.at)' : m <= n
            BY <2>3, <4>5, <5>1 DEF LatestOf, Latest
          <6> QED BY <2>3, <6>1, <6>2 DEF Decided
        <5>3. CASE e.type = "deletion"
          <6>1. Yields(j)' = {}
            BY <2>1, <2>3, <4>2, <5>3 DEF Yields
          <6>2. PICK t \in it.at..Len(log) : t \in Nat /\ t >= n
                                              /\ (t = it.at \/ t = n)
            <7>1. CASE n <= it.at
              BY <1>3, <2>2, <7>1
            <7>2. CASE ~(n <= it.at)
              BY <1>3, <2>2, <7>2
            <7> QED BY <7>1, <7>2
          <6>3. ASSUME NEW x \in LatestOf(k, t) PROVE x = n
            <7>1. x \in 1..t /\ log[x].key = k /\ \A m \in 1..t : log[m].key = k => m <= x
              BY <6>3 DEF LatestOf, Latest
            <7>2. n \in 1..t /\ log[n].key = k
              BY <2>1, <2>2, <6>2
            <7>3. n <= x
              BY <7>1, <7>2
            <7>4. x <= n
              BY <5>1, <6>2, <7>1
            <7> QED BY <2>2, <7>1, <7>3, <7>4
          <6>4. Value(LatestOf(k, t)) = {}
            BY <2>1, <5>3, <6>3 DEF Value
          <6>5. Value(LatestOf(j, t))' = {}
            BY <4>5, <6>4 DEF Value, LatestOf, Latest
          <6> QED BY <2>3, <6>1, <6>2, <6>5 DEF Decided
        <5> QED BY <2>2, <5>2, <5>3
      <4> QED BY <4>4, <4>5
    <3> QED BY <3>2, <3>3
  <2>12. DecidedInv'
    <3>1. ASSUME NEW i \in it'.yielded PROVE ~NewKey(log[i].key)'
      <4>1. CASE i \in it.yielded
        <5>1. ~NewKey(log[i].key) /\ log[i].key \in Nat
          BY <1>2, <1>3, <4>1, KeysNat DEF Iterating, DecidedInv
        <5> QED BY <1>1, <2>6, <5>1 DEF NewKey
      <4>2. CASE i = n
        BY <1>1, <2>1, <2>6, <4>2 DEF NewKey
      <4> QED BY <2>3, <3>1, <4>1, <4>2
    <3>2. \A j : Plain(j)' = Plain(j)
      BY <1>1 DEF Plain
    <3> HIDE DEF k, r
    <3> QED BY <1>1, <2>3, <2>6, <2>11, <3>1, <3>2 DEF DecidedInv, r
  <2> QED BY <1>2, <2>5, <2>8, <2>12 DEF IteratorInv, Iterating
<1> QED BY <1>6, <1>7

\* Every step keeps the invariant of the iterator.
LEMMA NextIterator == IInv /\ IteratorInv /\ [Next]_vars => IteratorInv'
<1> SUFFICES ASSUME SourcesInv, IteratorInv, [Next]_vars PROVE IteratorInv'
  BY DEF IInv
<1>1. ASSUME UNCHANGED <<log, switches, flushed, it>> PROVE IteratorInv'
  <2> USE <1>1
  <2>1. CoverInv => CoverInv'
    BY CoverKept
  <2>2. Live' = Live /\ Children' = Children /\ \A s : Source(s)' = Source(s)
    BY DEF Live, Children, Source
  <2>3. ChildrenInv => ChildrenInv'
    BY <2>2 DEF ChildrenInv
  <2>4. /\ \A s, m : Ahead(s, m)' = Ahead(s, m)
        /\ \A k : NewKey(k)' = NewKey(k) /\ InRange(k)' = InRange(k)
    BY DEF Ahead, Comes, Before, NewKey, InRange
  <2>5. AheadInv => AheadInv'
    BY <2>2, <2>4 DEF AheadInv
  <2>6. \A k : Decided(k)' = Decided(k) /\ Plain(k)' = Plain(k)
    BY DEF Decided, Yields, LatestOf, Latest, Value, Plain
  <2>7. DecidedInv => DecidedInv'
    BY <2>4, <2>6 DEF DecidedInv
  <2> QED BY <2>1, <2>3, <2>5, <2>7 DEF IteratorInv, Iterating
<1>2. CASE \E k \in Keys, at \in 0..Len(log) : Get(k, at)
  BY <1>1, <1>2 DEF Get
<1>3. CASE GetTable
  BY <1>1, <1>3 DEF GetTable
<1>4. CASE UNCHANGED vars
  BY <1>1, <1>4 DEF vars
<1> QED BY <1>2, <1>3, <1>4, GrowStep, IterateStep, FetchStep, MergeStep DEF Next

\* Whatever is written, switched and flushed beside an iterator, in either
\* direction: a key it has passed was yielded at most once, with a value it had at
\* some time since the call, and was left out only if it had none at some time.
THEOREM IteratesRegularly == Spec => []RegularIteration
<1>1. Init => IInv /\ IteratorInv
  BY InitIInv, InitIterator
<1>2. IInv /\ IteratorInv => RegularIteration
  BY IteratorHolds DEF IInv
<1> QED BY <1>1, <1>2, NextIInv, NextIterator, PTL DEF Spec
=============================================================================
