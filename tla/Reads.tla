------------------------------- MODULE Reads -------------------------------
(***************************************************************************)
(* Database.get and Database.iterator while others write: both take hold of *)
(* the memtables and of the version without an await between, and then wait *)
(* for tables; memtables are switched and flushed meanwhile, and the live   *)
(* memtable is read entry by entry while it grows.                         *)
(*                                                                         *)
(* A write is known by its sequence number, its index in log.  A source is  *)
(* a memtable or the table it became: the writes between two switches.      *)
(* Compactions of tables are in LsmTree; a version that was taken keeps its *)
(* tables.                                                                 *)
(***************************************************************************)
EXTENDS Integers, Sequences, FiniteSets

CONSTANTS
  Keys,        \* user keys, in the order of the comparator
  MaxWrites,   \* bound: writes
  MaxSwitches  \* bound: switches of the memtable

ASSUME ReadsAssumption ==
  Keys \subseteq Nat \ {0} /\ MaxWrites \in Nat /\ MaxSwitches \in Nat

VARIABLES
  log,       \* the writes
  switches,  \* lastSequence at each switch of the memtable
  flushed,   \* so many of the switched memtables are tables
  it,        \* an iterator
  read       \* a call of get; one of the two at a time, they share no state

vars == <<log, switches, flushed, it, read>>

Idle == [state |-> "idle"]
Init == log = <<>> /\ switches = <<>> /\ flushed = 0 /\ it = Idle /\ read = Idle

-----------------------------------------------------------------------------
(* Writes, and the sources.                                                *)

Live == Len(switches) + 1   \* the memtable
Imm  == {s \in {Live - 1} : s > flushed}
Tables == 1..flushed

\* The writes in a source: the live memtable has whatever was written so far.
Source(s) ==
  (IF s = 1 THEN 1 ELSE switches[s - 1] + 1)
    ..(IF s > Len(switches) THEN Len(log) ELSE switches[s])

\* The order of internal keys: by user key, and the newest first.
Before(m, n) == log[m].key < log[n].key \/ (log[m].key = log[n].key /\ m > n)
Comes(reverse, m, n) == IF reverse THEN Before(n, m) ELSE Before(m, n)

Write(k, type) ==
  /\ Len(log) < MaxWrites
  /\ log' = Append(log, [key |-> k, type |-> type])
  /\ UNCHANGED <<switches, flushed, it, read>>

Switch ==
  /\ Imm = {} /\ Source(Live) # {} /\ Len(switches) < MaxSwitches
  /\ switches' = Append(switches, Len(log))
  /\ UNCHANGED <<log, flushed, it, read>>

Flush ==
  /\ Imm # {} /\ flushed' = flushed + 1
  /\ UNCHANGED <<log, switches, it, read>>

-----------------------------------------------------------------------------
(* iterator().                                                             *)

Smallest(s) == CHOOSE n \in Source(s) : \A m \in Source(s) : ~Before(m, n)
Largest(s)  == CHOOSE n \in Source(s) : \A m \in Source(s) : ~Before(n, m)

Skips(s, start, reverse) ==
  IF reverse THEN start < log[Smallest(s)].key ELSE start > log[Largest(s)].key

\* Mutant: the immutable memtable is forgotten.
CaptureLive(start, reverse) ==
  {Live} \cup {s \in Tables : ~Skips(s, start, reverse)}

Capture(start, reverse) ==
  {Live} \cup Imm \cup {s \in Tables : ~Skips(s, start, reverse)}

None == 0    \* nothing fetched
Done == -1   \* the child has ended

\* The children of the merger, one for each source.  A table that cannot be
\* opened is left out.  The sequence number the caller asks for, of a snapshot
\* or of the call, decides nothing.
Iterate(start, reverse) ==
  /\ it = Idle /\ read = Idle
  /\ \E failed \in SUBSET Tables :
       LET S == Capture(start, reverse) \ failed
       IN  it' = [state |-> "merging", start |-> start, reverse |-> reverse,
                  at |-> Len(log), lost |-> failed # {},
                  last |-> [s \in S |-> None], cache |-> [s \in S |-> None],
                  lookup |-> start, updated |-> FALSE, yielded |-> {}]
  /\ UNCHANGED <<log, switches, flushed, read>>

Children == DOMAIN it.cache

\* What next() of a child yields: the entry that comes after its last one in
\* the source as it is now.
Following(s) ==
  LET rest == {n \in Source(s) :
                 it.last[s] = None \/ Comes(it.reverse, it.last[s], n)}
  IN  {n \in rest : \A m \in rest : ~Comes(it.reverse, m, n)}

\* The children are asked in turn, the memtable first; each is awaited.
Fetch(s) ==
  /\ it.state = "merging" /\ s \in Children /\ it.cache[s] = None
  /\ \A c \in Children : c > s => it.cache[c] # None
  /\ it' = IF Following(s) = {} THEN [it EXCEPT !.cache[s] = Done]
           ELSE LET n == CHOOSE n \in Following(s) : TRUE
                IN  [it EXCEPT !.cache[s] = n, !.last[s] = n]
  /\ UNCHANGED <<log, switches, flushed, read>>

\* Mutant: an entry with the key of the last one is taken as well.
NewKeyOrSame(k) ==
  IF it.reverse THEN ~it.updated \/ k <= it.lookup ELSE k >= it.lookup

NewKey(k) ==
  IF it.reverse THEN ~it.updated \/ k < it.lookup ELSE k > it.lookup

\* findSmallest or findLargest, and what iterator() does with the entry.
Merge ==
  /\ it.state = "merging" /\ \A s \in Children : it.cache[s] # None
  /\ LET hits == {s \in Children : it.cache[s] # Done}
     IN  IF hits = {} THEN it' = [it EXCEPT !.state = "ended"]
         ELSE \E s \in hits :
           LET n == it.cache[s]
               e == log[n]
           IN  /\ \A o \in hits : ~Comes(it.reverse, it.cache[o], n)
               /\ it' = [it EXCEPT
                    !.cache[s] = None,
                    !.lookup  = IF NewKey(e.key) THEN e.key ELSE @,
                    !.updated = @ \/ NewKey(e.key),
                    !.yielded = @ \cup {m \in {n} : NewKey(e.key) /\ e.type = "value"}]
  /\ UNCHANGED <<log, switches, flushed, read>>

-----------------------------------------------------------------------------
(* get().                                                                  *)

Latest(S) == {n \in S : \A m \in S : m <= n}
Versions(s, k, at) == {n \in Source(s) : log[n].key = k /\ n <= at}
Value(S) == {n \in S : log[n].type = "value"}

\* The memtables answer at once, or the tables of the version are next.
Get(k, at) ==
  /\ read = Idle /\ it = Idle
  /\ LET hits == {s \in {Live} \cup Imm : Versions(s, k, at) # {}}
     IN  read' =
           IF hits = {}
             THEN [state |-> "tables", key |-> k, at |-> at, rest |-> Tables]
             ELSE [state |-> "answered", key |-> k, at |-> at,
                   answer |-> Value(Latest(Versions(
                                CHOOSE s \in hits : \A o \in hits : o <= s, k, at)))]
  /\ UNCHANGED <<log, switches, flushed, it>>

Answered(answer, failed) ==
  [state |-> IF failed THEN "failed" ELSE "answered", key |-> read.key,
   at |-> read.at, answer |-> answer]

\* Mutant: the oldest table is asked first.
OldestFirst(s) == \A o \in read.rest : s <= o

\* forEachOverlapping asks the newest table first.
AskedFirst(s) == \A o \in read.rest : o <= s

\* match: another table is asked only if this one knows nothing of the key;
\* one that cannot be read ends the search, and the key is reported absent.
GetTable ==
  /\ read.state = "tables"
  /\ \/ read.rest = {} /\ read' = Answered({}, FALSE)
     \/ \E s \in read.rest :
          /\ AskedFirst(s)
          /\ \/ read' = LET V == Versions(s, read.key, read.at)
                        IN  IF V = {} THEN [read EXCEPT !.rest = @ \ {s}]
                            ELSE Answered(Value(Latest(V)), FALSE)
             \/ read' = Answered({}, TRUE)
  /\ UNCHANGED <<log, switches, flushed, it>>

Next ==
  \/ \E k \in Keys, type \in {"value", "deletion"} : Write(k, type)
  \/ Switch \/ Flush
  \/ \E start \in {0} \cup Keys, reverse \in BOOLEAN : Iterate(start, reverse)
  \/ \E s \in 1..(MaxSwitches + 1) : Fetch(s)
  \/ Merge
  \/ \E k \in Keys, at \in 0..Len(log) : Get(k, at)
  \/ GetTable

Spec == Init /\ [][Next]_vars

-----------------------------------------------------------------------------
(* What is checked.                                                        *)

LatestOf(k, at) == Latest({n \in 1..at : log[n].key = k})

\* get() answers what the last write up to its sequence number says, whatever
\* was switched or flushed while it waited, unless a table could not be read.
GetExact ==
  read.state = "answered" => read.answer = Value(LatestOf(read.key, read.at))

\* The keys behind the iterator.
Passed ==
  {k \in Keys :
     /\ IF it.reverse THEN k <= it.start ELSE k > it.start
     /\ \/ it.state = "ended"
        \/ IF it.reverse THEN it.updated /\ k > it.lookup ELSE k < it.lookup}

\* The reverse direction meets the oldest version of a key first: only keys
\* with one version are asked of it.
Plain(k) == Cardinality({n \in 1..Len(log) : log[n].key = k}) <= 1

\* A key behind the iterator was yielded at most once, with a value it had at
\* some time since the call; one that was not yielded had no value at some
\* time since.  Nothing is lost when memtables are switched or flushed.
RegularIteration ==
  it # Idle /\ ~it.lost =>
    \A k \in Passed : (it.reverse => Plain(k)) =>
      LET Y == {n \in it.yielded : log[n].key = k}
      IN  \/ \E n \in Y : Y = {n} /\ \A m \in LatestOf(k, it.at) : m <= n
          \/ Y = {} /\ \E t \in it.at..Len(log) : Value(LatestOf(k, t)) = {}

\* What ReadOptions says of a read without a snapshot: it is as of the state at
\* its beginning.
ReadsAsOf ==
  it # Idle /\ ~it.reverse => \A n \in it.yielded : n <= it.at
=============================================================================
