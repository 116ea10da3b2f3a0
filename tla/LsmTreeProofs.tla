---------------------------- MODULE LsmTreeProofs ----------------------------
(***************************************************************************)
(* Proofs about LsmTree, for any keys, levels, writes and snapshots.       *)
(***************************************************************************)
EXTENDS LsmTree, FiniteSetTheorems, WellFoundedInduction, TLAPS

-----------------------------------------------------------------------------
(***************************************************************************)
(* The inductive invariant.                                                *)
(***************************************************************************)

Tables == [num : Nat, smallest : Entry, largest : Entry, entries : SUBSET Entry]

\* smallest and largest are what FileMetaData says of the entries.
IsTable(t) ==
  /\ t \in Tables /\ IsFiniteSet(t.entries)
  /\ t.smallest \in t.entries /\ t.largest \in t.entries
  /\ \A e \in t.entries : ~Before(e, t.smallest) /\ ~Before(t.largest, e)

\* Versions of a key are newer in S than in T.
NewerIn(S, T) == \A e \in S, f \in T : e.key = f.key => e.seq > f.seq

\* Every entry that is anywhere.
All == {e \in Entry : \/ e \in mem \/ e \in imm
                      \/ \E l \in Levels : \E t \in files[l] : e \in t.entries}

AreTables(T) == IsFiniteSet(T) /\ \A t \in T : IsTable(t)

TypeInv ==
  /\ mem \subseteq Entry /\ IsFiniteSet(mem)
  /\ imm \subseteq Entry /\ IsFiniteSet(imm)
  /\ DOMAIN files = Levels
  /\ \A l \in Levels : AreTables(files[l])
  /\ lastSequence \in 0..MaxSequence /\ nextFileNumber \in Nat
  /\ snapshot \in [Snapshots -> (0..lastSequence) \cup {NoSnapshot}]
  /\ overlap \in BOOLEAN /\ exposed \in BOOLEAN

\* A sequence number belongs to one entry.
EntriesInv ==
  /\ \A e \in All : e.seq <= lastSequence
  /\ \A e, f \in All : e.seq = f.seq => e = f

NumbersInv ==
  /\ \A t \in files[0] : t.num < nextFileNumber
  /\ \A t, u \in files[0] : t.num = u.num => t = u

SortedInv == \A l \in Levels \ {0} : Disjoint(files[l])

\* NewerAbove, table by table.
NewerInv ==
  /\ NewerIn(mem, imm)
  /\ \A l \in Levels : \A t \in files[l] :
       NewerIn(mem, t.entries) /\ NewerIn(imm, t.entries)
  /\ \A l, m \in Levels : \A t \in files[l], u \in files[m] :
       l < m => NewerIn(t.entries, u.entries)
  /\ \A t, u \in files[0] : t.num > u.num => NewerIn(t.entries, u.entries)

\* A key between two tables of T is in the range of one of them.
Connected(T) ==
  \A x, y \in T, k \in Nat :
    x.smallest.key <= k /\ k <= y.largest.key
      => \E v \in T : v.smallest.key <= k /\ k <= v.largest.key

\* Table u is not between two tables of T.
Beside(u, T) == \/ \A v \in T : Before(u.largest, v.smallest)
                \/ \A v \in T : Before(v.largest, u.smallest)

JobTables == job.in[1] \cup job.in[2]

\* The inputs are there, what stays at their level is newer, and a key whose
\* deletions may be dropped is not at a deeper level.
JobInv ==
  job # NoJob =>
    /\ job.level \in Levels /\ job.level + 1 \in Levels
    /\ job.in[1] \subseteq files[job.level]
    /\ job.in[2] \subseteq files[job.level + 1]
    /\ \A u \in files[job.level] \ job.in[1], v \in job.in[1] :
         NewerIn(u.entries, v.entries)
    /\ \A d \in Levels : d >= job.level + 2 =>
         \A t \in files[d] : \A e \in t.entries, x \in JobEntries :
           e.key = x.key => e.key \in job.deeper
    /\ job.smallestSnapshot \in Nat
    /\ job.manual \in BOOLEAN

\* Unless a range was asked for, no table of the next level is where the outputs
\* will be, and none can get there.
AutoInv ==
  job # NoJob /\ ~job.manual =>
    /\ Connected(JobTables)
    /\ \A u \in files[job.level + 1] \ job.in[2] : Beside(u, JobTables)

IInv ==
  /\ TypeInv /\ EntriesInv /\ NumbersInv /\ SortedInv /\ NewerInv
  /\ SnapshotsAbove /\ JobInv /\ AutoInv /\ OverlapOnlyByRange

-----------------------------------------------------------------------------
(***************************************************************************)
(* Finite sets, the order of entries, and tables.                          *)
(***************************************************************************)

\* A finite set has an element that is not before another one.
LEMMA Extreme ==
  ASSUME NEW S, IsFiniteSet(S), S # {}, NEW R,
         \A x \in S : <<x, x>> \notin R,
         \A x, y, z \in S : <<x, y>> \in R /\ <<y, z>> \in R => <<x, z>> \in R
  PROVE  \E x \in S : \A y \in S : <<x, y>> \notin R
<1> DEFINE Behind(x) == {y \in S : <<x, y>> \in R}
           T == {Behind(x) : x \in S}
<1>1. IsWellFoundedOn(StrictSubsetOrdering(S), FiniteSubsetsOf(S))
  BY FS_StrictSubsetOrderingWellFounded, Zenon
<1>2. FiniteSubsetsOf(S) = SUBSET S
  BY FS_FiniteSubsetsOfFinite, Zenon
<1>3. T \subseteq FiniteSubsetsOf(S) /\ T # {}
  <2>1. \A x \in S : Behind(x) \in SUBSET S
    OBVIOUS
  <2>2. PICK x \in S : TRUE
    OBVIOUS
  <2>3. Behind(x) \in T
    BY <2>2
  <2>4. ASSUME NEW V \in T PROVE V \in SUBSET S
    <3>1. PICK y \in S : V = Behind(y)
      OBVIOUS
    <3> QED BY <2>1, <3>1
  <2> HIDE DEF T
  <2> QED BY <1>2, <2>3, <2>4
<1>4. PICK U \in T : \A V \in T : ~ <<V, U>> \in StrictSubsetOrdering(S)
  <2> HIDE DEF T
  <2> QED BY <1>1, <1>3, WFMin, Zenon
<1>5. PICK x \in S : U = Behind(x)
  BY <1>4
<1>6. ASSUME NEW y \in S, <<x, y>> \in R PROVE FALSE
  <2>1. Behind(y) \subseteq Behind(x) /\ Behind(y) # Behind(x)
    <3>1. y \in Behind(x) /\ y \notin Behind(y)
      BY <1>6
    <3>2. \A z \in Behind(y) : z \in Behind(x)
      BY <1>6
    <3> QED BY <3>1, <3>2
  <2>2. <<Behind(y), U>> \in StrictSubsetOrdering(S)
    BY <1>5, <2>1 DEF StrictSubsetOrdering
  <2> QED BY <1>4, <2>2
<1> QED BY <1>6

\* Max and Min of FiniteSetsExt are in the set and bound it.
LEMMA MaxIs ==
  ASSUME NEW S \in SUBSET Nat, IsFiniteSet(S), S # {}
  PROVE  Max(S) \in S /\ \A n \in S : n <= Max(S)
<1> DEFINE R == {p \in S \X S : p[1] < p[2]}
<1>1. PICK x \in S : \A y \in S : <<x, y>> \notin R
  <2>1. \A x \in S : <<x, x>> \notin R
    OBVIOUS
  <2>2. \A x, y, z \in S : <<x, y>> \in R /\ <<y, z>> \in R => <<x, z>> \in R
    OBVIOUS
  <2> HIDE DEF R
  <2> QED BY <2>1, <2>2, Extreme
<1>2. ASSUME NEW y \in S PROVE y <= x
  <2>1. <<x, y>> \in S \X S
    OBVIOUS
  <2>2. ~(x < y)
    BY <1>1, <2>1
  <2>3. x \in Nat /\ y \in Nat
    OBVIOUS
  <2> QED BY <2>2, <2>3
<1> QED BY <1>2 DEF Max

\* Any set of naturals has a least one, finite or not.
LEMMA MinIs ==
  ASSUME NEW S \in SUBSET Nat, S # {}
  PROVE  Min(S) \in S /\ \A n \in S : Min(S) <= n
<1>1. PICK m \in S : TRUE
  OBVIOUS
<1> DEFINE U == {n \in S : n <= m}
           R == {p \in U \X U : p[2] < p[1]}
<1>2. IsFiniteSet(U) /\ U # {}
  <2>1. U \subseteq 0..m /\ m \in U
    <3>1. m \in Nat /\ m \in U
      OBVIOUS
    <3>2. ASSUME NEW n \in U PROVE n \in 0..m
      <4>1. n \in Nat /\ n <= m
        OBVIOUS
      <4> QED BY <3>1, <4>1
    <3> QED BY <3>1, <3>2
  <2>2. IsFiniteSet(0..m)
    BY FS_Interval
  <2> HIDE DEF U
  <2> QED BY <2>1, <2>2, FS_Subset
<1>3. PICK x \in U : \A y \in U : <<x, y>> \notin R
  <2> HIDE DEF U
  <2>0. U \subseteq Nat
    BY DEF U
  <2>1. \A x \in U : <<x, x>> \notin R
    BY <2>0
  <2>2. \A x, y, z \in U : <<x, y>> \in R /\ <<y, z>> \in R => <<x, z>> \in R
    BY <2>0
  <2> HIDE DEF R
  <2> QED BY <1>2, <2>1, <2>2, Extreme
<1>4. ASSUME NEW y \in S PROVE x <= y
  <2>1. CASE y \in U
    <3>1. <<x, y>> \in U \X U
      BY <2>1
    <3>2. ~(y < x)
      BY <1>3, <2>1, <3>1
    <3> QED BY <3>2
  <2>2. CASE y \notin U
    BY <2>2
  <2> QED BY <2>1, <2>2
<1> QED BY <1>4 DEF Min

\* The bound on writes is a number.
LEMMA SequenceBound == MaxSequence \in Nat
<1>1. Writes \in Seq(SUBSET (Keys \X Types))
  BY LsmTreeAssumption
<1> DEFINE W == SUBSET (Keys \X Types)
<1> HIDE DEF W
<1>2. ASSUME Writes \in Seq(W) PROVE Len(Writes) \in Nat
  BY <1>2
<1> QED BY <1>1, <1>2 DEF MaxSequence, W

\* The fields of an entry.
LEMMA EntryTypes ==
  ASSUME NEW e \in Entry
  PROVE  e.key \in Keys /\ e.key \in Nat /\ e.seq \in Nat /\ e.seq > 0 /\ e.type \in Types
<1>1. MaxSequence \in Nat
  BY SequenceBound
<1>2. e.key \in Keys /\ e.seq \in 1..MaxSequence /\ e.type \in Types
  BY DEF Entry
<1>3. Keys \subseteq Nat
  BY LsmTreeAssumption
<1>4. e.key \in Nat
  BY <1>2, <1>3
<1>5. e.seq \in Nat /\ e.seq > 0
  <2>1. ASSUME NEW m \in Nat, e.seq \in 1..m PROVE e.seq \in Nat /\ e.seq > 0
    BY <2>1
  <2> QED BY <1>1, <1>2, <2>1
<1> QED BY <1>2, <1>4, <1>5

\* The order is a total one on keys and sequence numbers.
LEMMA Order ==
  ASSUME NEW e \in Entry, NEW f \in Entry, NEW g \in Entry
  PROVE  /\ ~Before(e, e)
         /\ Before(e, f) /\ Before(f, g) => Before(e, g)
         /\ Before(e, f) => ~Before(f, e)
         /\ Before(e, f) /\ ~Before(g, f) => Before(e, g)
         /\ ~Before(f, e) /\ Before(f, g) => Before(e, g)
         /\ ~Before(f, e) /\ ~Before(g, f) => ~Before(g, e)
         /\ Before(e, f) \/ Before(f, e) \/ (e.key = f.key /\ e.seq = f.seq)
  BY EntryTypes DEF Before

\* Every finite set of entries has a first one,
LEMMA FirstIs ==
  ASSUME NEW S \in SUBSET Entry, IsFiniteSet(S), S # {}
  PROVE  First(S) \in S /\ \A o \in S : ~Before(o, First(S))
<1> DEFINE R == {p \in S \X S : Before(p[2], p[1])}
<1>1. PICK x \in S : \A y \in S : <<x, y>> \notin R
  <2>1. \A x \in S : <<x, x>> \notin R
    BY Order
  <2>2. \A x, y, z \in S : <<x, y>> \in R /\ <<y, z>> \in R => <<x, z>> \in R
    BY Order
  <2> HIDE DEF R
  <2> QED BY <2>1, <2>2, Extreme
<1>2. ASSUME NEW y \in S PROVE ~Before(y, x)
  <2>1. <<x, y>> \in S \X S
    OBVIOUS
  <2> QED BY <1>1, <2>1
<1> QED BY <1>2 DEF First

\* and a last one: the CHOOSE of First and Last has something to choose.
LEMMA LastIs ==
  ASSUME NEW S \in SUBSET Entry, IsFiniteSet(S), S # {}
  PROVE  Last(S) \in S /\ \A o \in S : ~Before(Last(S), o)
<1> DEFINE R == {p \in S \X S : Before(p[1], p[2])}
<1>1. PICK x \in S : \A y \in S : <<x, y>> \notin R
  <2>1. \A x \in S : <<x, x>> \notin R
    BY Order
  <2>2. \A x, y, z \in S : <<x, y>> \in R /\ <<y, z>> \in R => <<x, z>> \in R
    BY Order
  <2> HIDE DEF R
  <2> QED BY <2>1, <2>2, Extreme
<1>2. ASSUME NEW y \in S PROVE ~Before(x, y)
  <2>1. <<x, y>> \in S \X S
    OBVIOUS
  <2> QED BY <1>1, <2>1
<1> QED BY <1>2 DEF Last

\* A table built of entries has the first and the last of them as its bounds.
LEMMA TableIs ==
  ASSUME NEW n \in Nat, NEW S \in SUBSET Entry, IsFiniteSet(S), S # {}
  PROVE  /\ IsTable(Table(n, S)) /\ Table(n, S).entries = S /\ Table(n, S).num = n
         /\ Table(n, S).smallest = First(S) /\ Table(n, S).largest = Last(S)
<1>1. First(S) \in S /\ \A o \in S : ~Before(o, First(S))
  BY FirstIs
<1>2. Last(S) \in S /\ \A o \in S : ~Before(Last(S), o)
  BY LastIs
<1>3. Table(n, S) \in Tables
  BY <1>1, <1>2 DEF Tables, Table
<1> QED BY <1>1, <1>2, <1>3 DEF IsTable, Table

\* What the fields of a table say about its keys.
LEMMA TableFacts ==
  ASSUME NEW t, IsTable(t)
  PROVE  /\ t.smallest \in Entry /\ t.largest \in Entry /\ t.entries \subseteq Entry
         /\ t.smallest.key \in Keys /\ t.largest.key \in Keys
         /\ t.smallest.key \in Nat /\ t.largest.key \in Nat
         /\ t.smallest.key <= t.largest.key /\ t.num \in Nat
         /\ ~Before(t.largest, t.smallest)
         /\ \A e \in t.entries : t.smallest.key <= e.key /\ e.key <= t.largest.key
<1>1. t.smallest \in Entry /\ t.largest \in Entry /\ t.entries \subseteq Entry
      /\ t.num \in Nat
  BY DEF IsTable, Tables
<1>2. \A e \in t.entries : ~Before(e, t.smallest) /\ ~Before(t.largest, e)
  BY DEF IsTable
<1>3. \A e \in t.entries : t.smallest.key <= e.key /\ e.key <= t.largest.key
  BY <1>1, <1>2, EntryTypes DEF Before
<1>4. t.smallest.key <= t.largest.key /\ ~Before(t.largest, t.smallest)
  BY <1>2, <1>3 DEF IsTable
<1> QED BY <1>1, <1>3, <1>4, EntryTypes

-----------------------------------------------------------------------------
(***************************************************************************)
(* Ranges of tables, and the tables that a compaction takes.               *)
(***************************************************************************)

\* What a function makes of a finite set is finite.
LEMMA ImageFinite ==
  ASSUME NEW S, IsFiniteSet(S), NEW f
  PROVE  IsFiniteSet({f[x] : x \in S})
<1> DEFINE T == {f[x] : x \in S}
           g == [x \in S |-> f[x]]
<1>1. g \in Surjection(S, T)
  <2>1. g \in [S -> T]
    OBVIOUS
  <2>2. \A y \in T : \E x \in S : g[x] = y
    OBVIOUS
  <2> HIDE DEF T, g
  <2> QED BY <2>1, <2>2 DEF Surjection
<1> HIDE DEF T, g
<1>2. IsFiniteSet(T)
  BY <1>1, FS_Surjection, Zenon
<1> QED BY <1>2 DEF T

\* The range of tables is that of two of them, and holds all of them.
LEMMA RangeOf ==
  ASSUME NEW T, AreTables(T), T # {}
  PROVE  /\ Lo(T) \in Keys /\ Hi(T) \in Keys /\ Lo(T) \in Nat /\ Hi(T) \in Nat
         /\ Lo(T) <= Hi(T)
         /\ \E x \in T : x.smallest.key = Lo(T)
         /\ \E y \in T : y.largest.key = Hi(T)
         /\ \A t \in T : Lo(T) <= t.smallest.key /\ t.largest.key <= Hi(T)
<1> DEFINE L == {t.smallest.key : t \in T}
           H == {t.largest.key : t \in T}
<1>1. \A t \in T : t.smallest.key \in Keys /\ t.largest.key \in Keys
                   /\ t.smallest.key \in Nat /\ t.largest.key \in Nat
                   /\ t.smallest.key <= t.largest.key
  BY TableFacts DEF AreTables
<1>2. L \in SUBSET Nat /\ L # {} /\ H \in SUBSET Nat /\ H # {}
  BY <1>1
<1>3. IsFiniteSet(H)
  <2> DEFINE f == [t \in T |-> t.largest.key]
  <2>1. H = {f[t] : t \in T}
    OBVIOUS
  <2> HIDE DEF f, H
  <2> QED BY <2>1, ImageFinite DEF AreTables
<1>4. Min(L) \in L /\ \A n \in L : Min(L) <= n
  <2> HIDE DEF L
  <2> QED BY <1>2, MinIs
<1>5. Max(H) \in H /\ \A n \in H : n <= Max(H)
  <2> HIDE DEF H
  <2> QED BY <1>2, <1>3, MaxIs
<1>6. PICK x \in T : x.smallest.key = Min(L)
  BY <1>4
<1>7. PICK y \in T : y.largest.key = Max(H)
  BY <1>5
<1>8. \A t \in T : Min(L) <= t.smallest.key /\ t.largest.key <= Max(H)
  BY <1>4, <1>5
<1>9. Lo(T) = Min(L) /\ Hi(T) = Max(H)
  BY DEF Lo, Hi
<1> HIDE DEF L, H
<1>10. Min(L) <= Max(H)
  <2>1. Min(L) <= x.largest.key
    BY <1>1, <1>6
  <2>2. x.largest.key <= Max(H)
    BY <1>8
  <2> QED BY <1>1, <1>6, <1>7, <2>1, <2>2
<1> QED BY <1>1, <1>6, <1>7, <1>8, <1>9, <1>10

\* Of finitely many tables some table ends last, and all that do end at one key.
LEMMA EndsIs ==
  ASSUME NEW T, AreTables(T), T # {}
  PROVE  /\ Ends(T) # {} /\ Ends(T) \subseteq T
         /\ \A t, z \in Ends(T) : t.largest.key = z.largest.key
<1> DEFINE R == {p \in T \X T : Before(p[1].largest, p[2].largest)}
<1>1. \A t \in T : t.largest \in Entry
  BY TableFacts DEF AreTables
<1>2. PICK x \in T : \A y \in T : <<x, y>> \notin R
  <2>1. \A t \in T : <<t, t>> \notin R
    BY <1>1, Order
  <2>2. \A t, u, v \in T : <<t, u>> \in R /\ <<u, v>> \in R => <<t, v>> \in R
    BY <1>1, Order
  <2> HIDE DEF R
  <2> QED BY <2>1, <2>2, Extreme DEF AreTables
<1>3. x \in Ends(T)
  <2>1. ASSUME NEW y \in T PROVE ~Before(x.largest, y.largest)
    <3>1. <<x, y>> \in T \X T
      OBVIOUS
    <3> QED BY <1>2, <3>1
  <2> QED BY <2>1 DEF Ends
<1>4. ASSUME NEW t \in Ends(T), NEW z \in Ends(T) PROVE t.largest.key = z.largest.key
  <2>1. ~Before(t.largest, z.largest) /\ ~Before(z.largest, t.largest)
    BY DEF Ends
  <2>2. t \in T /\ z \in T
    BY DEF Ends
  <2> QED BY <1>1, <2>1, <2>2, Order
<1> QED BY <1>3, <1>4 DEF Ends

\* The boundary tables, and the sets they are the least one of.
ChainClosed(l, T, S) ==
  \A t \in Ends(T) \cup S, u \in files[l] : Continues(t, u) => u \in S
Chain(l, T) ==
  {u \in files[l] : \A S \in SUBSET files[l] : ChainClosed(l, T, S) => u \in S}

\* The boundary tables are closed: where one of them ends, the next is one too,
LEMMA BoundaryIs ==
  ASSUME NEW l, NEW T
  PROVE  /\ WithBoundary(l, T) = T \cup Chain(l, T)
         /\ Chain(l, T) \subseteq files[l]
         /\ ChainClosed(l, T, Chain(l, T))
<1>1. WithBoundary(l, T) = T \cup Chain(l, T)
  BY DEF WithBoundary, Chain, ChainClosed
<1>2. ASSUME NEW t \in Ends(T) \cup Chain(l, T), NEW u \in files[l], Continues(t, u)
      PROVE  u \in Chain(l, T)
  <2>1. ASSUME NEW S \in SUBSET files[l], ChainClosed(l, T, S) PROVE u \in S
    <3>1. t \in Ends(T) \cup S
      BY <2>1 DEF Chain
    <3> QED BY <1>2, <2>1, <3>1 DEF ChainClosed
  <2> QED BY <2>1 DEF Chain
<1>3. ChainClosed(l, T, Chain(l, T))
  BY <1>2 DEF ChainClosed
<1> QED BY <1>1, <1>3 DEF Chain

\* and they are the least such set.
LEMMA ChainLeast ==
  ASSUME NEW l, NEW T, NEW S \in SUBSET files[l], ChainClosed(l, T, S)
  PROVE  Chain(l, T) \subseteq S
  BY DEF Chain

\* Tables that overlap no keys of each other have no key in common.
LEMMA NoCommonKey ==
  ASSUME NEW t, IsTable(t), NEW u, IsTable(u),
         ~Overlaps(u, t.smallest.key, t.largest.key)
  PROVE  \A e \in t.entries, f \in u.entries : e.key # f.key
<1>1. ASSUME NEW e \in t.entries, NEW f \in u.entries, e.key = f.key PROVE FALSE
  <2>1. t.smallest.key <= e.key /\ e.key <= t.largest.key
        /\ u.smallest.key <= f.key /\ f.key <= u.largest.key
    BY TableFacts
  <2>2. t.smallest.key \in Nat /\ t.largest.key \in Nat
        /\ u.smallest.key \in Nat /\ u.largest.key \in Nat
    BY TableFacts
  <2>3. e \in Entry
    BY TableFacts
  <2>4. e.key \in Nat
    BY <2>3, EntryTypes
  <2> QED BY <1>1, <2>1, <2>2, <2>4 DEF Overlaps
<1> QED BY <1>1

\* What the tables that are not taken are to those that are: in level 0 their
\* keys are other ones, above it none of them is in between.
Convex(l, T) ==
  IF l = 0
    THEN \E a, b \in Nat : Closed(a, b) /\ T = {t \in files[0] : Overlaps(t, a, b)}
    ELSE \A u \in files[l] \ T, v, w \in T :
           ~(Before(v.largest, u.smallest) /\ Before(u.largest, w.smallest))

\* In level 0 there are no boundary tables outside a closed range.
LEMMA NewerInZero ==
  ASSUME AreTables(files[0]), NEW T \in SUBSET files[0], T # {}, Convex(0, T)
  PROVE  /\ WithBoundary(0, T) = T
         /\ \A u \in files[0] \ T, v \in T : NewerIn(u.entries, v.entries)
<1>1. PICK a \in Nat, b \in Nat :
         Closed(a, b) /\ T = {t \in files[0] : Overlaps(t, a, b)}
  BY DEF Convex
<1>2. \A t \in T : a <= t.smallest.key /\ t.largest.key <= b
  BY <1>1 DEF Closed
<1>3. \A t \in files[0] :
         /\ t.smallest.key \in Nat /\ t.largest.key \in Nat
         /\ t.smallest.key <= t.largest.key
  BY TableFacts DEF AreTables
<1>4. ChainClosed(0, T, T)
  <2> SUFFICES ASSUME NEW t \in Ends(T) \cup T, NEW u \in files[0], Continues(t, u)
               PROVE  u \in T
    BY DEF ChainClosed
  <2>1. t \in T
    BY DEF Ends
  <2>2. u.smallest.key = t.largest.key
    BY DEF Continues
  <2>3. t \in files[0]
    BY <2>1
  <2>4. u.smallest.key <= b /\ u.largest.key >= a
    BY <1>2, <1>3, <2>1, <2>2, <2>3
  <2> QED BY <1>1, <2>4 DEF Overlaps
<1>5. WithBoundary(0, T) = T
  BY <1>4, BoundaryIs, ChainLeast
<1>6. ASSUME NEW u \in files[0] \ T, NEW v \in T, NEW e \in u.entries,
             NEW f \in v.entries, e.key = f.key
      PROVE  FALSE
  <2>1. IsTable(u) /\ IsTable(v)
    BY DEF AreTables
  <2>2. u.smallest.key <= e.key /\ e.key <= u.largest.key
        /\ v.smallest.key <= f.key /\ f.key <= v.largest.key
    BY <2>1, TableFacts
  <2>3. e \in Entry
    BY <2>1, TableFacts
  <2>4. e.key \in Nat
    BY <2>3, EntryTypes
  <2>5. a <= v.smallest.key /\ v.largest.key <= b
    BY <1>2
  <2>6. v \in files[0] /\ u \in files[0]
    OBVIOUS
  <2>7. ~Overlaps(u, a, b)
    BY <1>1, <2>6
  <2>8. a <= e.key /\ e.key <= b
    BY <1>3, <1>6, <2>2, <2>4, <2>5, <2>6
  <2>9. u.smallest.key <= b /\ u.largest.key >= a
    BY <1>3, <2>2, <2>4, <2>6, <2>8
  <2> QED BY <2>7, <2>9 DEF Overlaps
<1> QED BY <1>5, <1>6 DEF NewerIn

\* Above it, the tables that follow an input and begin with its last key are
\* inputs too.
LEMMA NewerAboveZero ==
  ASSUME NEW l \in Levels, l # 0, AreTables(files[l]), Disjoint(files[l]),
         NEW T \in SUBSET files[l], T # {}, Convex(l, T),
         NEW u \in files[l] \ WithBoundary(l, T), NEW v \in WithBoundary(l, T)
  PROVE  NewerIn(u.entries, v.entries)
<1>1. WithBoundary(l, T) = T \cup Chain(l, T) /\ Chain(l, T) \subseteq files[l]
      /\ ChainClosed(l, T, Chain(l, T))
  BY BoundaryIs
<1>2. u \in files[l] \ T /\ u \notin Chain(l, T) /\ v \in files[l] /\ u # v
  BY <1>1
<1>3. \A t \in files[l] : /\ IsTable(t) /\ t.smallest \in Entry /\ t.largest \in Entry
                          /\ t.entries \subseteq Entry
                          /\ ~Before(t.largest, t.smallest)
                          /\ \A e \in t.entries :
                               ~Before(e, t.smallest) /\ ~Before(t.largest, e)
  BY TableFacts DEF AreTables, IsTable
<1>4. ASSUME NEW t \in T \cup Chain(l, T) PROVE t \in files[l]
  BY <1>1, <1>4
<1>5. ASSUME NEW t \in Ends(T) \cup Chain(l, T) PROVE ~Continues(t, u)
  BY <1>1, <1>2 DEF ChainClosed
<1>6. CASE Before(u.largest, v.smallest)
  <2> SUFFICES ASSUME NEW e \in u.entries, NEW f \in v.entries, e.key = f.key
               PROVE  e.seq > f.seq
    BY DEF NewerIn
  <2>1. e \in Entry /\ f \in Entry /\ u.largest \in Entry /\ v.smallest \in Entry
    BY <1>2, <1>3
  <2>2. ~Before(u.largest, e) /\ ~Before(f, v.smallest)
    BY <1>2, <1>3
  <2>3. Before(e, v.smallest)
    BY <1>6, <2>1, <2>2, Order
  <2>4. Before(e, f)
    BY <2>1, <2>2, <2>3, Order
  <2> QED BY <2>1, <2>4, EntryTypes DEF Before
<1>7. CASE Before(v.largest, u.smallest)
  <2> SUFFICES ASSUME NEW e \in u.entries, NEW f \in v.entries, e.key = f.key
               PROVE  FALSE
    BY DEF NewerIn
  <2>1. e \in Entry /\ f \in Entry /\ u.smallest \in Entry /\ v.largest \in Entry
    BY <1>2, <1>3
  <2>2. ~Before(e, u.smallest) /\ ~Before(v.largest, f)
    BY <1>2, <1>3
  <2>3. u.smallest.key = v.largest.key
    <3>1. u.smallest.key <= e.key /\ f.key <= v.largest.key
          /\ v.largest.key <= u.smallest.key
      BY <1>7, <2>1, <2>2, EntryTypes DEF Before
    <3> QED BY <2>1, <3>1, EntryTypes
  <2>4. Continues(v, u)
    BY <1>7, <2>3 DEF Continues
  <2>5. v \in T /\ v \notin Ends(T)
    BY <1>1, <1>5, <2>4
  <2>6. PICK z \in Ends(T) : TRUE
    <3>1. AreTables(T)
      BY FS_Subset DEF AreTables
    <3> QED BY <3>1, EndsIs
  <2>7. z \in T /\ ~Before(z.largest, v.largest)
    BY <2>5, <2>6 DEF Ends
  <2>8. z \in files[l] /\ u \in files[l] /\ u # z
    BY <1>2, <2>7
  <2>9. Apart(u, z)
    BY <2>8 DEF Disjoint
  <2>10. CASE Before(z.largest, u.smallest)
    <3>1. z.largest.key <= u.smallest.key /\ v.largest.key <= z.largest.key
      BY <1>3, <2>1, <2>7, <2>8, <2>10, EntryTypes DEF Before
    <3>2. z.largest \in Entry
      BY <1>3, <2>8
    <3>3. z.largest.key = u.smallest.key
      BY <2>1, <2>3, <3>1, <3>2, EntryTypes
    <3>4. Continues(z, u)
      BY <2>10, <3>3 DEF Continues
    <3> QED BY <1>5, <2>6, <3>4
  <2>11. CASE Before(u.largest, z.smallest)
    BY <1>2, <1>7, <2>5, <2>7, <2>11 DEF Convex
  <2> QED BY <2>9, <2>10, <2>11 DEF Apart
<1> QED BY <1>2, <1>6, <1>7 DEF Disjoint, Apart

\* The range that level 0 is asked for is the least closed one.
LEMMA RangeZero ==
  ASSUME AreTables(files[0]), NEW lo \in Keys, NEW hi \in Keys, lo <= hi
  PROVE  \E a, b \in Keys :
           /\ a <= lo /\ hi <= b /\ Closed(a, b)
           /\ OverlappingInputs(0, lo, hi) = {t \in files[0] : Overlaps(t, a, b)}
           /\ \A c, d \in Keys : c <= lo /\ hi <= d /\ Closed(c, d) => c <= a /\ b <= d
<1> DEFINE R == {r \in Keys \X Keys : r[1] <= lo /\ hi <= r[2] /\ Closed(r[1], r[2])}
           A == {r[1] : r \in R}
           B == {r[2] : r \in R}
<1>0. Keys \subseteq Nat
  BY LsmTreeAssumption
<1>1. \A t \in files[0] : /\ t.smallest.key \in Keys /\ t.largest.key \in Keys
                          /\ t.smallest.key \in Nat /\ t.largest.key \in Nat
                          /\ t.smallest.key <= t.largest.key
  BY TableFacts DEF AreTables
<1>2. R # {}
  <2>1. CASE files[0] = {}
    <3>1. Closed(lo, hi)
      BY <2>1 DEF Closed
    <3>2. <<lo, hi>> \in R
      BY <1>0, <3>1
    <3> QED BY <3>2
  <2>2. CASE files[0] # {}
    <3> DEFINE T == files[0]
               c == IF lo <= Lo(T) THEN lo ELSE Lo(T)
               d == IF hi >= Hi(T) THEN hi ELSE Hi(T)
    <3>1. /\ Lo(T) \in Keys /\ Hi(T) \in Keys /\ Lo(T) \in Nat /\ Hi(T) \in Nat
          /\ \A t \in T : Lo(T) <= t.smallest.key /\ t.largest.key <= Hi(T)
      BY <2>2, RangeOf
    <3>2. c \in Keys /\ d \in Keys /\ c <= lo /\ hi <= d /\ c <= Lo(T) /\ Hi(T) <= d
      BY <1>0, <3>1
    <3>3. c \in Nat /\ d \in Nat
      BY <1>0, <3>2
    <3> HIDE DEF c, d
    <3>4. Closed(c, d)
      BY <1>1, <3>1, <3>2, <3>3 DEF Closed
    <3>5. <<c, d>> \in R
      BY <3>2, <3>4
    <3> QED BY <3>5
  <2> QED BY <2>1, <2>2
<1>3. \A r \in R : /\ r[1] \in Keys /\ r[2] \in Keys /\ r[1] \in Nat /\ r[2] \in Nat
                   /\ r[1] <= lo /\ hi <= r[2] /\ Closed(r[1], r[2])
  BY <1>0
<1>4. \A n \in A : n \in 0..lo
  <2> SUFFICES ASSUME NEW r \in R PROVE r[1] \in 0..lo
    OBVIOUS
  <2>1. r[1] \in Nat /\ r[1] <= lo /\ lo \in Nat
    BY <1>0, <1>3
  <2> QED BY <2>1
<1>5. Max(A) \in A /\ \A n \in A : n <= Max(A)
  <2>1. A \subseteq 0..lo /\ A # {}
    BY <1>2, <1>4
  <2>2. IsFiniteSet(0..lo)
    BY <1>0, FS_Interval
  <2> HIDE DEF A
  <2>3. IsFiniteSet(A)
    BY <2>1, <2>2, FS_Subset
  <2>4. A \in SUBSET Nat
    BY <1>0, <2>1
  <2> QED BY <2>1, <2>3, <2>4, MaxIs
<1>6. Min(B) \in B /\ \A n \in B : Min(B) <= n
  <2>1. B \in SUBSET Nat /\ B # {}
    BY <1>2, <1>3
  <2> HIDE DEF B
  <2> QED BY <2>1, MinIs
<1>7. PICK p \in R : Max(A) = p[1]
  BY <1>5
<1>8. PICK q \in R : Min(B) = q[2]
  BY <1>6
<1>9. \A r \in R : r[1] <= p[1] /\ q[2] <= r[2]
  <2> SUFFICES ASSUME NEW r \in R PROVE r[1] <= Max(A) /\ Min(B) <= r[2]
    BY <1>7, <1>8
  <2> QED BY <1>5, <1>6
<1>10. OverlappingInputs(0, lo, hi) = {t \in files[0] : Overlaps(t, p[1], q[2])}
  <2>1. OverlappingInputs(0, lo, hi) = {t \in files[0] : Overlaps(t, Max(A), Min(B))}
    BY DEF OverlappingInputs
  <2> QED BY <1>7, <1>8, <2>1
<1> HIDE DEF R, A, B
<1>11. Closed(p[1], q[2])
  <2> SUFFICES ASSUME NEW t \in files[0], Overlaps(t, p[1], q[2])
               PROVE  p[1] <= t.smallest.key /\ t.largest.key <= q[2]
    BY DEF Closed
  <2>1. q[1] <= p[1] /\ q[2] <= p[2] /\ p[1] <= q[2]
    <3>1. p[1] <= lo /\ hi <= q[2] /\ lo \in Nat /\ hi \in Nat
      BY <1>0, <1>3
    <3>2. p[1] \in Nat /\ q[2] \in Nat
      BY <1>3
    <3> QED BY <1>9, <3>1, <3>2
  <2>2. p[1] \in Nat /\ p[2] \in Nat /\ q[1] \in Nat /\ q[2] \in Nat
        /\ Closed(p[1], p[2]) /\ Closed(q[1], q[2])
    BY <1>3
  <2>3. Overlaps(t, p[1], p[2]) /\ Overlaps(t, q[1], q[2])
    BY <1>1, <2>1, <2>2 DEF Overlaps
  <2> QED BY <2>2, <2>3 DEF Closed
<1>12. \A c, d \in Keys : c <= lo /\ hi <= d /\ Closed(c, d) => c <= p[1] /\ q[2] <= d
  <2> SUFFICES ASSUME NEW c \in Keys, NEW d \in Keys, c <= lo, hi <= d, Closed(c, d)
               PROVE  c <= p[1] /\ q[2] <= d
    OBVIOUS
  <2>1. <<c, d>> \in R
    BY DEF R
  <2>2. <<c, d>>[1] <= p[1] /\ q[2] <= <<c, d>>[2]
    BY <1>9, <2>1
  <2> QED BY <2>2
<1> QED BY <1>3, <1>10, <1>11, <1>12

\* What overlaps a range is taken without gaps.
LEMMA OverlappingConvex ==
  ASSUME NEW l \in Levels, AreTables(files[l]), NEW lo \in Keys, NEW hi \in Keys, lo <= hi
  PROVE  /\ OverlappingInputs(l, lo, hi) \subseteq files[l]
         /\ Convex(l, OverlappingInputs(l, lo, hi))
         /\ \A t \in files[l] : Overlaps(t, lo, hi) => t \in OverlappingInputs(l, lo, hi)
<1>0. Keys \subseteq Nat
  BY LsmTreeAssumption
<1>1. \A t \in files[l] : /\ IsTable(t) /\ t.smallest \in Entry /\ t.largest \in Entry
                          /\ t.smallest.key \in Nat /\ t.largest.key \in Nat
                          /\ t.smallest.key <= t.largest.key
  BY TableFacts DEF AreTables
<1>2. CASE l = 0
  <2>1. PICK a \in Keys, b \in Keys :
           /\ a <= lo /\ hi <= b /\ Closed(a, b)
           /\ OverlappingInputs(0, lo, hi) = {t \in files[0] : Overlaps(t, a, b)}
    BY <1>2, RangeZero
  <2>2. Convex(0, OverlappingInputs(0, lo, hi))
    BY <1>0, <2>1 DEF Convex
  <2>3. \A t \in files[0] : Overlaps(t, lo, hi) => Overlaps(t, a, b)
    BY <1>0, <1>1, <1>2, <2>1 DEF Overlaps
  <2> QED BY <1>2, <2>1, <2>2, <2>3
<1>3. CASE l # 0
  <2> DEFINE T == {t \in files[l] : Overlaps(t, lo, hi)}
  <2>1. OverlappingInputs(l, lo, hi) = T
    <3>1. l > 0
      BY <1>3, LsmTreeAssumption DEF Levels
    <3> QED BY <3>1 DEF OverlappingInputs
  <2>2. ASSUME NEW u \in files[l] \ T, NEW v \in T, NEW w \in T,
               Before(v.largest, u.smallest), Before(u.largest, w.smallest)
        PROVE  FALSE
    <3>1. v.largest.key <= u.smallest.key /\ u.largest.key <= w.smallest.key
      BY <1>1, <2>2 DEF Before
    <3>2. v.largest.key >= lo /\ w.smallest.key <= hi
      BY DEF Overlaps
    <3>3. lo \in Nat /\ hi \in Nat
      BY <1>0
    <3>4. v \in files[l] /\ w \in files[l] /\ u \in files[l]
      OBVIOUS
    <3>5. u.smallest.key <= hi /\ u.largest.key >= lo
      BY <1>1, <3>1, <3>2, <3>3, <3>4
    <3> QED BY <3>5 DEF Overlaps
  <2>3. Convex(l, T)
    BY <1>3, <2>2 DEF Convex
  <2> QED BY <2>1, <2>3
<1> QED BY <1>2, <1>3

LevelOK(l) ==
  l \in Levels /\ AreTables(files[l]) /\ (l # 0 => Disjoint(files[l]))

\* Tables of two levels are tables, and so are some of them.
LEMMA TablesUnion ==
  ASSUME NEW S, AreTables(S), NEW T, AreTables(T)
  PROVE  AreTables(S \cup T)
<1>1. IsFiniteSet(S \cup T)
  BY FS_Union DEF AreTables
<1> QED BY <1>1 DEF AreTables

\* Some tables of a level are tables.
LEMMA TablesSubset ==
  ASSUME NEW S, AreTables(S), NEW T \in SUBSET S
  PROVE  AreTables(T)
<1>1. IsFiniteSet(T)
  BY FS_Subset DEF AreTables
<1> QED BY <1>1 DEF AreTables

\* A set of inputs with its boundary tables is older than what stays.
LEMMA BoundaryGood ==
  ASSUME NEW l, LevelOK(l), NEW T \in SUBSET files[l], T # {}, Convex(l, T)
  PROVE  /\ WithBoundary(l, T) \subseteq files[l] /\ T \subseteq WithBoundary(l, T)
         /\ \A u \in files[l] \ WithBoundary(l, T), v \in WithBoundary(l, T) :
              NewerIn(u.entries, v.entries)
<1>1. WithBoundary(l, T) \subseteq files[l] /\ T \subseteq WithBoundary(l, T)
  BY BoundaryIs
<1>2. CASE l = 0
  BY <1>1, <1>2, NewerInZero DEF LevelOK
<1>3. CASE l # 0
  BY <1>1, <1>3, NewerAboveZero DEF LevelOK
<1> QED BY <1>1, <1>2, <1>3

\* What overlaps the range of T: all of it, without gaps, and T itself.
LEMMA InputsIs ==
  ASSUME NEW l \in Levels, AreTables(files[l]), NEW T, AreTables(T), T # {}
  PROVE  /\ Inputs(l, T) \subseteq files[l] /\ Convex(l, Inputs(l, T))
         /\ \A t \in files[l] : Overlaps(t, Lo(T), Hi(T)) => t \in Inputs(l, T)
         /\ T \cap files[l] \subseteq Inputs(l, T)
<1>1. /\ Lo(T) \in Keys /\ Hi(T) \in Keys /\ Lo(T) \in Nat /\ Hi(T) \in Nat
      /\ Lo(T) <= Hi(T)
      /\ \A t \in T : Lo(T) <= t.smallest.key /\ t.largest.key <= Hi(T)
  BY RangeOf
<1>2. /\ Inputs(l, T) \subseteq files[l] /\ Convex(l, Inputs(l, T))
      /\ \A t \in files[l] : Overlaps(t, Lo(T), Hi(T)) => t \in Inputs(l, T)
  BY <1>1, OverlappingConvex DEF Inputs
<1>3. ASSUME NEW t \in T \cap files[l] PROVE Overlaps(t, Lo(T), Hi(T))
  <2>1. t.smallest.key \in Nat /\ t.largest.key \in Nat
        /\ t.smallest.key <= t.largest.key
    BY TableFacts DEF AreTables
  <2>2. Lo(T) <= t.smallest.key /\ t.largest.key <= Hi(T)
    BY <1>1
  <2> QED BY <1>1, <2>1, <2>2 DEF Overlaps
<1> QED BY <1>2, <1>3

\* setupOtherInputs takes one of two sets, and then what overlaps it.
LEMMA BothIs ==
  ASSUME NEW l, NEW T, NEW in \in BothInputs(l, T)
  PROVE  LET in0 == WithBoundary(l, T)
             in1 == Inputs(l + 1, in0)
             ex0 == WithBoundary(l, Inputs(l, in0 \cup in1))
         IN  in = <<in0, in1>> \/ in = <<ex0, Inputs(l + 1, ex0)>>
  BY DEF BothInputs

\* The inputs of a compaction.
GoodInputs(l, in) ==
  /\ in[1] \subseteq files[l] /\ in[1] # {}
  /\ in[2] = Inputs(l + 1, in[1])
  /\ \A u \in files[l] \ in[1], v \in in[1] : NewerIn(u.entries, v.entries)

\* Both pairs of inputs that setupOtherInputs may take are good.
LEMMA BothGood ==
  ASSUME NEW l, LevelOK(l), LevelOK(l + 1), NEW T \in SUBSET files[l], T # {},
         Convex(l, T), NEW in \in BothInputs(l, T)
  PROVE  GoodInputs(l, in)
<1> DEFINE in0 == WithBoundary(l, T)
           in1 == Inputs(l + 1, in0)
           ex  == Inputs(l, in0 \cup in1)
           ex0 == WithBoundary(l, ex)
<1>1. in = <<in0, in1>> \/ in = <<ex0, Inputs(l + 1, ex0)>>
  BY BothIs
<1>2. in0 \subseteq files[l] /\ in0 # {}
      /\ \A u \in files[l] \ in0, v \in in0 : NewerIn(u.entries, v.entries)
  BY BoundaryGood
<1> HIDE DEF in0
<1>3. AreTables(in0)
  BY <1>2, TablesSubset DEF LevelOK
<1>4. in1 \subseteq files[l + 1]
  BY <1>2, <1>3, InputsIs DEF LevelOK
<1> HIDE DEF in1
<1>5. AreTables(in0 \cup in1) /\ in0 \cup in1 # {}
  BY <1>2, <1>3, <1>4, TablesSubset, TablesUnion DEF LevelOK
<1>6. ex \subseteq files[l] /\ Convex(l, ex) /\ ex # {}
  <2>1. (in0 \cup in1) \cap files[l] # {}
    BY <1>2
  <2> QED BY <1>5, <2>1, InputsIs DEF LevelOK
<1> HIDE DEF ex
<1>7. ex0 \subseteq files[l] /\ ex0 # {}
      /\ \A u \in files[l] \ ex0, v \in ex0 : NewerIn(u.entries, v.entries)
  BY <1>6, BoundaryGood
<1> HIDE DEF ex0
<1>8. CASE in = <<in0, in1>>
  <2>1. in[1] = in0 /\ in[2] = in1
    BY <1>8
  <2> QED BY <1>2, <2>1 DEF GoodInputs, in1
<1>9. CASE in = <<ex0, Inputs(l + 1, ex0)>>
  <2>1. in[1] = ex0 /\ in[2] = Inputs(l + 1, ex0)
    BY <1>9
  <2> QED BY <1>7, <2>1 DEF GoodInputs
<1> QED BY <1>1, <1>8, <1>9

\* What pickCompaction begins with.
Beginning(l, t) == IF l = 0 THEN Inputs(0, {t}) ELSE {t}

\* pickCompaction begins with tables that leave no gap.
LEMMA BeginningIs ==
  ASSUME NEW l, LevelOK(l), NEW t \in files[l]
  PROVE  /\ Beginning(l, t) \subseteq files[l] /\ t \in Beginning(l, t)
         /\ Convex(l, Beginning(l, t)) /\ AreTables({t})
<1>1. AreTables({t})
  <2>1. IsFiniteSet({t})
    BY FS_Singleton
  <2> QED BY <2>1 DEF AreTables, LevelOK
<1>2. CASE l = 0
  <2>1. /\ Inputs(0, {t}) \subseteq files[0] /\ Convex(0, Inputs(0, {t}))
        /\ {t} \cap files[0] \subseteq Inputs(0, {t})
    BY <1>1, <1>2, InputsIs DEF LevelOK
  <2> QED BY <1>1, <1>2, <2>1 DEF Beginning
<1>3. CASE l # 0
  <2>1. ASSUME NEW u \in files[l], Before(t.largest, u.smallest),
               Before(u.largest, t.smallest)
        PROVE  FALSE
    <3>1. /\ t.smallest \in Entry /\ t.largest \in Entry /\ ~Before(t.largest, t.smallest)
          /\ u.smallest \in Entry /\ u.largest \in Entry /\ ~Before(u.largest, u.smallest)
      BY TableFacts DEF LevelOK, AreTables
    <3>2. Before(t.largest, u.largest)
      BY <2>1, <3>1, Order
    <3> QED BY <2>1, <3>1, <3>2, Order
  <2> QED BY <1>1, <1>3, <2>1 DEF Beginning, Convex
<1> QED BY <1>2, <1>3

\* What pickCompaction takes was made of such a beginning,
LEMMA PickedIs ==
  ASSUME NEW l, NEW in \in Picked(l)
  PROVE  \E t \in files[l] : in \in BothInputs(l, Beginning(l, t))
<1>1. in \in UNION {BothInputs(l, IF l = 0 THEN Inputs(0, {t}) ELSE {t}) : t \in files[l]}
  BY DEF Picked
<1> QED BY <1>1 DEF Beginning

\* so it is good.
LEMMA PickedGood ==
  ASSUME NEW l, LevelOK(l), LevelOK(l + 1), NEW in \in Picked(l)
  PROVE  GoodInputs(l, in)
<1>1. PICK t \in files[l] : in \in BothInputs(l, Beginning(l, t))
  BY PickedIs
<1>2. Beginning(l, t) \subseteq files[l] /\ t \in Beginning(l, t)
      /\ Convex(l, Beginning(l, t))
  BY BeginningIs
<1> QED BY <1>1, <1>2, BothGood

\* The tables of a range up to one of them.
Cut(all, t) == {u \in all : ~Before(t.smallest, u.smallest)}

\* The tables up to one of them leave no gap either,
LEMMA CutConvex ==
  ASSUME NEW l, LevelOK(l), l # 0, NEW all \in SUBSET files[l], Convex(l, all),
         NEW t \in all
  PROVE  Convex(l, Cut(all, t))
<1> SUFFICES ASSUME NEW u \in files[l] \ Cut(all, t), NEW v \in Cut(all, t),
                    NEW w \in Cut(all, t), Before(v.largest, u.smallest),
                    Before(u.largest, w.smallest)
             PROVE  FALSE
  BY DEF Convex
<1>1. v \in all /\ w \in all /\ ~Before(t.smallest, w.smallest)
  BY DEF Cut
<1>2. u \in all
  BY <1>1 DEF Convex
<1>3. Before(t.smallest, u.smallest)
  BY <1>2 DEF Cut
<1>4. /\ t.smallest \in Entry /\ w.smallest \in Entry
      /\ u.smallest \in Entry /\ u.largest \in Entry /\ ~Before(u.largest, u.smallest)
  BY <1>1, <1>2, TableFacts DEF LevelOK, AreTables
<1>5. Before(u.smallest, w.smallest)
  BY <1>4, Order
<1> QED BY <1>1, <1>3, <1>4, <1>5, Order

\* so what compactRange takes is good too.
LEMMA RangedGood ==
  ASSUME NEW l, LevelOK(l), LevelOK(l + 1), NEW lo \in Keys, NEW hi \in Keys,
         lo <= hi, NEW in \in Ranged(l, lo, hi)
  PROVE  GoodInputs(l, in)
<1> DEFINE all == OverlappingInputs(l, lo, hi)
           cuts == IF l = 0 THEN {all} ELSE {Cut(all, t) : t \in all}
<1>1. PICK T \in cuts : T # {} /\ in \in BothInputs(l, T)
  BY DEF Ranged, Cut
<1>2. all \subseteq files[l] /\ Convex(l, all)
  BY OverlappingConvex DEF LevelOK
<1>3. T \subseteq files[l] /\ Convex(l, T)
  <2>1. CASE l = 0
    BY <1>1, <1>2, <2>1
  <2>2. CASE l # 0
    <3>1. PICK t \in all : T = Cut(all, t)
      BY <1>1, <2>2
    <3> HIDE DEF all
    <3>2. T \subseteq files[l]
      BY <1>2, <3>1 DEF Cut
    <3>3. Convex(l, T)
      BY <1>2, <2>2, <3>1, CutConvex
    <3> QED BY <3>2, <3>3
  <2> QED BY <2>1, <2>2
<1> QED BY <1>1, <1>3, BothGood

-----------------------------------------------------------------------------
(***************************************************************************)
(* The inputs of pickCompaction leave no gap between them.                 *)
(***************************************************************************)

Covers(T, k) == \E v \in T : v.smallest.key <= k /\ k <= v.largest.key

\* Connected, with Covers.
LEMMA ConnectedIs ==
  ASSUME NEW T
  PROVE  Connected(T) <=>
           \A x, y \in T, k \in Nat :
             x.smallest.key <= k /\ k <= y.largest.key => Covers(T, k)
BY DEF Connected, Covers

\* What overlaps the range of some tables overlaps the range of more of them.
LEMMA OverlapsMore ==
  ASSUME NEW B, AreTables(B), NEW A \in SUBSET B, A # {}, NEW t, IsTable(t),
         Overlaps(t, Lo(A), Hi(A))
  PROVE  Overlaps(t, Lo(B), Hi(B))
<1>1. AreTables(A) /\ B # {}
  BY TablesSubset
<1>2. /\ Lo(A) \in Nat /\ Hi(A) \in Nat /\ Lo(B) \in Nat /\ Hi(B) \in Nat
      /\ Lo(B) <= Lo(A) /\ Hi(A) <= Hi(B)
  <2>1. /\ Lo(A) \in Nat /\ Hi(A) \in Nat
        /\ \E x \in A : x.smallest.key = Lo(A)
        /\ \E y \in A : y.largest.key = Hi(A)
    BY <1>1, RangeOf
  <2>2. /\ Lo(B) \in Nat /\ Hi(B) \in Nat
        /\ \A u \in B : Lo(B) <= u.smallest.key /\ u.largest.key <= Hi(B)
    BY <1>1, RangeOf
  <2> QED BY <2>1, <2>2
<1>3. t.smallest.key \in Nat /\ t.largest.key \in Nat
  BY TableFacts
<1> QED BY <1>2, <1>3 DEF Overlaps

\* Tables that reach into the range of the others leave no gap.
LEMMA ConnectedOverlap ==
  ASSUME NEW A, AreTables(A), A # {}, Connected(A), NEW B, AreTables(B),
         \A t \in B : Overlaps(t, Lo(A), Hi(A))
  PROVE  Connected(A \cup B)
<1> SUFFICES ASSUME NEW x \in A \cup B, NEW y \in A \cup B, NEW k \in Nat,
                    x.smallest.key <= k, k <= y.largest.key
             PROVE  Covers(A \cup B, k)
  BY ConnectedIs
<1>1. /\ Lo(A) \in Nat /\ Hi(A) \in Nat
      /\ \A t \in A : Lo(A) <= t.smallest.key /\ t.largest.key <= Hi(A)
  BY RangeOf
<1>2. PICK x0 \in A, y0 \in A : x0.smallest.key = Lo(A) /\ y0.largest.key = Hi(A)
  BY RangeOf
<1>3. \A t \in A \cup B : t.smallest.key \in Nat /\ t.largest.key \in Nat
  BY TableFacts DEF AreTables
<1>4. CASE Lo(A) <= k /\ k <= Hi(A)
  <2>1. Covers(A, k)
    BY <1>2, <1>4, ConnectedIs
  <2> QED BY <2>1 DEF Covers
<1>5. CASE k < Lo(A)
  <2>1. x \in B
    BY <1>1, <1>3, <1>5
  <2>2. x.largest.key >= Lo(A)
    BY <2>1 DEF Overlaps
  <2>3. k <= x.largest.key
    BY <1>1, <1>3, <1>5, <2>2
  <2> QED BY <2>3 DEF Covers
<1>6. CASE k > Hi(A)
  <2>1. y \in B
    BY <1>1, <1>3, <1>6
  <2>2. y.smallest.key <= Hi(A)
    BY <2>1 DEF Overlaps
  <2>3. y.smallest.key <= k
    BY <1>1, <1>3, <1>6, <2>2
  <2> QED BY <2>3 DEF Covers
<1> QED BY <1>1, <1>4, <1>5, <1>6

\* Nor do the boundary tables.
LEMMA ConnectedBoundary ==
  ASSUME NEW l, AreTables(files[l]), NEW T \in SUBSET files[l], T # {},
         NEW A, AreTables(A), T \subseteq A, Connected(A)
  PROVE  Connected(A \cup Chain(l, T))
<1> DEFINE D == Chain(l, T)
<1>1. PICK z \in Ends(T) : \A t \in Ends(T) : t.largest.key = z.largest.key
  <2>1. AreTables(T)
    BY TablesSubset
  <2> QED BY <2>1, EndsIs
<1> DEFINE b == z.largest.key
           S == {u \in D : /\ b <= u.smallest.key
                           /\ \A k \in Nat : b <= k /\ k <= u.largest.key
                                => Covers(A \cup D, k)}
<1>2. D \subseteq files[l] /\ ChainClosed(l, T, D)
  BY BoundaryIs
<1>3. z \in T /\ z \in A
  BY <1>1 DEF Ends
<1>4. \A t \in A \cup files[l] : /\ t.smallest.key \in Nat /\ t.largest.key \in Nat
                                 /\ t.smallest.key <= t.largest.key
  BY TableFacts DEF AreTables
<1>5. b \in Nat
  BY <1>3, <1>4
<1>6. D \subseteq S
  <2>1. ASSUME NEW t \in Ends(T) \cup S, NEW u \in files[l], Continues(t, u)
        PROVE  u \in S
    <3>1. u \in D
      <4>1. t \in Ends(T) \cup D
        OBVIOUS
      <4> HIDE DEF S, D
      <4> QED BY <1>2, <2>1, <4>1 DEF ChainClosed
    <3>2. u.smallest.key = t.largest.key
      BY <2>1 DEF Continues
    <3>3. t \in files[l] \cup A
      BY <1>2 DEF Ends
    <3>4. b <= t.largest.key
      <4>1. CASE t \in Ends(T)
        BY <1>1, <1>5, <4>1
      <4>2. CASE t \in S
        <5>1. b <= t.smallest.key
          BY <4>2
        <5> HIDE DEF S, D
        <5> QED BY <1>4, <1>5, <3>3, <5>1
      <4> QED BY <4>1, <4>2
    <3>5. ASSUME NEW k \in Nat, b <= k, k <= u.largest.key
          PROVE  Covers(A \cup D, k)
      <4>1. CASE k > t.largest.key
        <5>1. u.smallest.key <= k
          BY <1>4, <3>2, <4>1
        <5> QED BY <3>1, <3>5, <5>1 DEF Covers
      <4>2. CASE k <= t.largest.key /\ t \in S
        BY <3>5, <4>2
      <4>3. CASE k <= t.largest.key /\ t \in Ends(T)
        <5>1. k = b /\ t.largest.key = b /\ t \in A /\ t \in files[l]
          BY <1>1, <1>5, <3>5, <4>3 DEF Ends
        <5>2. t.smallest.key <= k /\ k <= t.largest.key
          BY <1>4, <3>4, <4>3, <5>1
        <5> HIDE DEF D
        <5> QED BY <5>1, <5>2 DEF Covers
      <4>4. t.largest.key \in Nat
        BY <1>4, <3>3
      <4> HIDE DEF S, D, b
      <4> QED BY <4>1, <4>2, <4>3, <4>4
    <3>6. b <= u.smallest.key
      BY <3>2, <3>4
    <3> QED BY <3>1, <3>5, <3>6
  <2>2. S \in SUBSET files[l]
    BY <1>2
  <2> HIDE DEF S, D
  <2>3. ChainClosed(l, T, S)
    BY <2>1 DEF ChainClosed
  <2> QED BY <2>2, <2>3, ChainLeast DEF D
<1>7. \A u \in D : /\ b <= u.smallest.key
                   /\ \A k \in Nat : b <= k /\ k <= u.largest.key => Covers(A \cup D, k)
  BY <1>6
<1> HIDE DEF S, D, b
<1>8. ASSUME NEW x \in A \cup D, NEW y \in A \cup D, NEW k \in Nat,
             x.smallest.key <= k, k <= y.largest.key
      PROVE  Covers(A \cup D, k)
  <2>1. x.smallest.key \in Nat /\ y.largest.key \in Nat
        /\ z.smallest.key \in Nat /\ z.smallest.key <= b
    BY <1>2, <1>3, <1>4 DEF b
  <2>2. ASSUME NEW v \in A, NEW w \in A, v.smallest.key <= k, k <= w.largest.key
        PROVE  Covers(A \cup D, k)
    <3>1. Covers(A, k)
      BY <2>2, ConnectedIs
    <3> QED BY <3>1 DEF Covers
  <2>3. CASE b <= k
    <3>1. z.smallest.key <= k
      BY <1>5, <2>1, <2>3
    <3>2. CASE y \in A
      BY <1>3, <1>8, <2>2, <3>1, <3>2
    <3>3. CASE y \in D
      BY <1>7, <1>8, <2>3, <3>3
    <3> QED BY <3>2, <3>3
  <2>4. CASE k < b
    <3>1. x \in A
      BY <1>5, <1>7, <1>8, <2>1, <2>4
    <3>2. k <= z.largest.key
      BY <1>5, <2>4 DEF b
    <3> QED BY <1>3, <1>8, <2>2, <3>1, <3>2
  <2> QED BY <1>5, <2>3, <2>4
<1> QED BY <1>8, ConnectedIs DEF D

\* Nor does the least closed range of level 0: a gap would make a smaller one.
LEMMA ConnectedZero ==
  ASSUME AreTables(files[0]), NEW J, AreTables(J), J # {}, Connected(J)
  PROVE  Connected(J \cup Inputs(0, J))
<1> DEFINE T == Inputs(0, J)
           lo == Lo(J)
           hi == Hi(J)
<1>0. Keys \subseteq Nat
  BY LsmTreeAssumption
<1>1. /\ lo \in Keys /\ hi \in Keys /\ lo \in Nat /\ hi \in Nat /\ lo <= hi
      /\ \A t \in J : lo <= t.smallest.key /\ t.largest.key <= hi
  BY RangeOf
<1>2. PICK x0 \in J, y0 \in J : x0.smallest.key = lo /\ y0.largest.key = hi
  BY RangeOf
<1>3. PICK a \in Keys, b \in Keys :
         /\ a <= lo /\ hi <= b /\ Closed(a, b)
         /\ OverlappingInputs(0, lo, hi) = {t \in files[0] : Overlaps(t, a, b)}
         /\ \A c, d \in Keys : c <= lo /\ hi <= d /\ Closed(c, d) => c <= a /\ b <= d
  BY <1>1, RangeZero
<1>4. T = {t \in files[0] : Overlaps(t, a, b)}
  BY <1>3 DEF Inputs
<1>5. a \in Nat /\ b \in Nat
  BY <1>0, <1>3
<1>6. \A t \in files[0] \cup J :
         /\ t.smallest.key \in Nat /\ t.largest.key \in Nat
         /\ t.smallest.key \in Keys /\ t.largest.key \in Keys
         /\ t.smallest.key <= t.largest.key
  BY TableFacts DEF AreTables
<1>7. \A t \in T : a <= t.smallest.key /\ t.largest.key <= b
  BY <1>3, <1>4 DEF Closed
<1> SUFFICES ASSUME NEW x \in J \cup T, NEW y \in J \cup T, NEW k \in Nat,
                    x.smallest.key <= k, k <= y.largest.key, ~Covers(J \cup T, k)
             PROVE  FALSE
  BY ConnectedIs
<1> HIDE DEF T, lo, hi
<1>8. \A t \in J \cup T : ~(t.smallest.key <= k /\ k <= t.largest.key)
  BY DEF Covers
<1>9. ~(lo <= k /\ k <= hi)
  <2>1. ASSUME lo <= k, k <= hi PROVE Covers(J, k)
    BY <1>2, <2>1, ConnectedIs
  <2> QED BY <1>8, <2>1 DEF Covers
<1>10. CASE k < lo
  <2> DEFINE L == {lo} \cup {n \in Keys : n > k /\ \E t \in T : n = t.smallest.key}
             c == Min(L)
  <2>1. L \in SUBSET Nat /\ L # {} /\ L \subseteq Keys /\ \A n \in L : n > k
    BY <1>0, <1>1, <1>10
  <2>2. c \in L /\ \A n \in L : c <= n
    <3> HIDE DEF L
    <3> QED BY <2>1, MinIs
  <2>3. \A t \in T : t.smallest.key > k => c <= t.smallest.key
    <3> SUFFICES ASSUME NEW t \in T, t.smallest.key > k PROVE c <= t.smallest.key
      OBVIOUS
    <3>1. t.smallest.key \in Keys
      BY <1>4, <1>6
    <3>2. t.smallest.key \in L
      BY <3>1
    <3> HIDE DEF L, c
    <3> QED BY <2>2, <3>2
  <2>4. c <= lo
    BY <2>2
  <2> HIDE DEF L, c
  <2>5. c \in Keys /\ c \in Nat /\ c > k
    BY <2>1, <2>2
  <2>6. a <= k
    <3>1. x \in T
      BY <1>1, <1>6, <1>10
    <3>2. a <= x.smallest.key /\ x.smallest.key \in Nat
      BY <1>4, <1>6, <1>7, <3>1
    <3> QED BY <1>5, <3>2
  <2>7. Closed(c, b)
    <3> SUFFICES ASSUME NEW t \in files[0], Overlaps(t, c, b)
                 PROVE  c <= t.smallest.key /\ t.largest.key <= b
      BY DEF Closed
    <3>1. t.smallest.key <= b /\ t.largest.key >= c
      BY DEF Overlaps
    <3>2. t.largest.key >= a
      BY <1>5, <1>6, <2>5, <2>6, <3>1
    <3>3. t \in T
      BY <1>4, <3>1, <3>2 DEF Overlaps
    <3>4. t.smallest.key > k
      BY <1>6, <1>8, <2>5, <3>1, <3>3
    <3> QED BY <1>7, <2>3, <3>3, <3>4
  <2>8. c <= a
    BY <1>3, <2>4, <2>5, <2>7
  <2> QED BY <1>5, <2>5, <2>6, <2>8
<1>11. CASE k > hi
  <2> DEFINE H == {hi} \cup {t.largest.key : t \in {u \in T : u.largest.key < k}}
             d == Max(H)
  <2>1. H \in SUBSET Nat /\ H # {} /\ H \subseteq Keys /\ \A n \in H : n < k
    <3>1. \A t \in T : t.largest.key \in Keys
      BY <1>4, <1>6
    <3> QED BY <1>0, <1>1, <1>11, <3>1
  <2>2. d \in H /\ \A n \in H : n <= d
    <3> DEFINE f == [t \in T |-> t.largest.key]
               U == {u \in T : u.largest.key < k}
    <3>1. IsFiniteSet(U)
      <4>1. U \in SUBSET files[0]
        BY <1>4
      <4> HIDE DEF U
      <4> QED BY <4>1, FS_Subset DEF AreTables
    <3>2. H = {hi} \cup {f[t] : t \in U}
      OBVIOUS
    <3> HIDE DEF H, f, U
    <3>3. IsFiniteSet({f[t] : t \in U})
      BY <3>1, ImageFinite
    <3>4. IsFiniteSet({hi})
      BY FS_Singleton
    <3>5. IsFiniteSet(H)
      BY <3>2, <3>3, <3>4, FS_Union
    <3> QED BY <2>1, <3>5, MaxIs
  <2>3. \A t \in T : t.largest.key < k => t.largest.key <= d
    <3> HIDE DEF d
    <3> QED BY <2>2
  <2>4. hi <= d
    BY <2>2
  <2> HIDE DEF H, d
  <2>5. d \in Keys /\ d \in Nat /\ d < k
    BY <2>1, <2>2
  <2>6. k <= b
    <3>1. y \in T
      BY <1>1, <1>6, <1>11
    <3>2. y.largest.key <= b /\ y.largest.key \in Nat
      BY <1>4, <1>6, <1>7, <3>1
    <3> QED BY <1>5, <3>2
  <2>7. Closed(a, d)
    <3> SUFFICES ASSUME NEW t \in files[0], Overlaps(t, a, d)
                 PROVE  a <= t.smallest.key /\ t.largest.key <= d
      BY DEF Closed
    <3>1. t.smallest.key <= d /\ t.largest.key >= a
      BY DEF Overlaps
    <3>2. t.smallest.key <= b
      BY <1>5, <1>6, <2>5, <2>6, <3>1
    <3>3. t \in T
      BY <1>4, <3>1, <3>2 DEF Overlaps
    <3>4. t.largest.key < k
      BY <1>6, <1>8, <2>5, <3>1, <3>3
    <3> QED BY <1>7, <2>3, <3>3, <3>4
  <2>8. b <= d
    BY <1>3, <2>4, <2>5, <2>7
  <2> QED BY <1>5, <2>5, <2>6, <2>8
<1> QED BY <1>1, <1>9, <1>10, <1>11

\* Below level 0 the inputs are what overlaps the range.
LEMMA InputsAboveZero ==
  ASSUME NEW l \in Nat, l > 0, NEW T
  PROVE  Inputs(l, T) = {t \in files[l] : Overlaps(t, Lo(T), Hi(T))}
BY DEF Inputs, OverlappingInputs

\* The tables that overlap the range of connected tables are connected with them.
LEMMA ConnectedInputs ==
  ASSUME NEW l \in Nat, AreTables(files[l]), NEW J, AreTables(J), J # {}, Connected(J)
  PROVE  Connected(J \cup Inputs(l, J))
<1>1. CASE l = 0
  BY <1>1, ConnectedZero
<1>2. CASE l > 0
  <2>1. Inputs(l, J) = {t \in files[l] : Overlaps(t, Lo(J), Hi(J))}
    BY <1>2, InputsAboveZero
  <2>2. AreTables(Inputs(l, J))
    <3>1. Inputs(l, J) \in SUBSET files[l]
      BY <2>1
    <3> QED BY <3>1, TablesSubset
  <2> QED BY <2>1, <2>2, ConnectedOverlap
<1> QED BY <1>1, <1>2

\* Of the inputs that pickCompaction takes no key between two is in no table.
LEMMA PickedConnected ==
  ASSUME NEW l \in Nat, LevelOK(l), LevelOK(l + 1), NEW in \in Picked(l)
  PROVE  Connected(in[1] \cup in[2])
<1>1. PICK t \in files[l] : in \in BothInputs(l, Beginning(l, t))
  BY PickedIs
<1> DEFINE T   == Beginning(l, t)
           in0 == WithBoundary(l, T)
           in1 == Inputs(l + 1, in0)
           J   == in0 \cup in1
           ex  == Inputs(l, J)
           ex0 == WithBoundary(l, ex)
           ex1 == Inputs(l + 1, ex0)
<1>2. in = <<in0, in1>> \/ in = <<ex0, ex1>>
  BY <1>1, BothIs
<1>3. T \subseteq files[l] /\ t \in T /\ Convex(l, T) /\ AreTables({t})
  BY BeginningIs
<1>4. AreTables(T) /\ Connected(T)
  <2>1. AreTables(T)
    BY <1>3, TablesSubset DEF LevelOK
  <2>2. Connected({t})
    BY DEF Connected
  <2>3. CASE l = 0
    <3>1. Connected({t} \cup Inputs(0, {t}))
      BY <1>3, <2>2, <2>3, ConnectedZero DEF LevelOK
    <3>2. T = Inputs(0, {t})
      BY <2>3 DEF Beginning
    <3>3. {t} \cup Inputs(0, {t}) = T
      BY <1>3, <3>2
    <3> QED BY <2>1, <3>1, <3>3
  <2>4. CASE l # 0
    <3>1. T = {t}
      BY <2>4 DEF Beginning
    <3> QED BY <2>1, <2>2, <3>1
  <2> QED BY <2>3, <2>4
<1> HIDE DEF T
<1>5. in0 = T \cup Chain(l, T) /\ in0 \subseteq files[l] /\ in0 # {}
  BY <1>3, BoundaryIs
<1>6. AreTables(in0) /\ Connected(in0)
  <2>1. Connected(T \cup Chain(l, T))
    BY <1>3, <1>4, ConnectedBoundary DEF LevelOK
  <2> QED BY <1>5, <2>1, TablesSubset DEF LevelOK
<1> HIDE DEF in0
<1>7. in1 \subseteq files[l + 1] /\ l + 1 \in Nat
  BY InputsAboveZero
<1>8. AreTables(J) /\ Connected(J) /\ J # {}
  <2>1. AreTables(in1)
    BY <1>7, TablesSubset DEF LevelOK
  <2>2. Connected(J)
    BY <1>5, <1>6, <1>7, ConnectedInputs DEF LevelOK
  <2> QED BY <1>5, <1>6, <2>1, <2>2, TablesUnion
<1>9. CASE in = <<in0, in1>>
  BY <1>8, <1>9
<1>10. CASE in = <<ex0, ex1>>
  <2>1. /\ ex \subseteq files[l] /\ Convex(l, ex) /\ in0 \subseteq ex
    <3>1. J \cap files[l] \subseteq ex
      BY <1>8, InputsIs DEF LevelOK
    <3> QED BY <1>5, <1>8, <3>1, InputsIs DEF LevelOK
  <2>2. Connected(J \cup ex) /\ AreTables(J \cup ex) /\ ex # {}
    <3>1. Connected(J \cup ex)
      BY <1>8, ConnectedInputs DEF LevelOK
    <3>2. AreTables(ex)
      BY <2>1, TablesSubset DEF LevelOK
    <3> QED BY <1>5, <1>8, <2>1, <3>1, <3>2, TablesUnion
  <2> HIDE DEF ex, J
  <2>3. ex0 = ex \cup Chain(l, ex) /\ Chain(l, ex) \subseteq files[l]
    BY BoundaryIs
  <2>4. Connected((J \cup ex) \cup Chain(l, ex))
    BY <2>1, <2>2, ConnectedBoundary DEF LevelOK
  <2>5. AreTables(ex0) /\ ex0 # {} /\ ex0 \subseteq files[l]
    BY <2>1, <2>2, <2>3, TablesSubset DEF LevelOK
  <2>6. (J \cup ex) \cup Chain(l, ex) = J \cup ex0
    BY <2>3
  <2> HIDE DEF ex0
  <2>7. Connected(J \cup ex0) /\ AreTables(J \cup ex0)
    BY <1>8, <2>4, <2>5, <2>6, TablesUnion
  <2>8. ex1 = {u \in files[l + 1] : Overlaps(u, Lo(ex0), Hi(ex0))}
    BY <1>7, InputsAboveZero
  <2>9. AreTables(ex1)
    <3>1. ex1 \in SUBSET files[l + 1]
      BY <2>8
    <3> QED BY <3>1, TablesSubset DEF LevelOK
  <2>10. \A u \in ex1 : Overlaps(u, Lo(J \cup ex0), Hi(J \cup ex0))
    <3> SUFFICES ASSUME NEW u \in ex1
                 PROVE  Overlaps(u, Lo(J \cup ex0), Hi(J \cup ex0))
      OBVIOUS
    <3>1. IsTable(u) /\ Overlaps(u, Lo(ex0), Hi(ex0))
      BY <2>8, <2>9 DEF AreTables
    <3>2. ex0 \in SUBSET (J \cup ex0)
      OBVIOUS
    <3> QED BY <2>5, <2>7, <3>1, <3>2, OverlapsMore
  <2>11. in1 \subseteq ex1
    <3> SUFFICES ASSUME NEW u \in in1 PROVE u \in ex1
      OBVIOUS
    <3>1. u \in files[l + 1] /\ Overlaps(u, Lo(in0), Hi(in0))
      BY <1>7, InputsAboveZero
    <3>2. IsTable(u)
      BY <3>1 DEF LevelOK, AreTables
    <3>3. in0 \in SUBSET ex0
      BY <2>1, <2>3
    <3>4. Overlaps(u, Lo(ex0), Hi(ex0))
      BY <1>5, <2>5, <3>1, <3>2, <3>3, OverlapsMore
    <3> QED BY <2>8, <3>1, <3>4
  <2> HIDE DEF ex1, in1
  <2>12. Connected((J \cup ex0) \cup ex1)
    BY <2>5, <2>7, <2>9, <2>10, ConnectedOverlap
  <2>13. (J \cup ex0) \cup ex1 = ex0 \cup ex1
    BY <2>1, <2>3, <2>11 DEF J
  <2> QED BY <1>10, <2>12, <2>13
<1> QED BY <1>2, <1>9, <1>10

-----------------------------------------------------------------------------
(***************************************************************************)
(* The steps keep the invariant.                                           *)
(***************************************************************************)

\* The levels.
LEMMA LevelsAre ==
  /\ Levels \subseteq Nat /\ 0 \in Levels
  /\ \A l \in Levels \ {NumLevels - 1} : l + 1 \in Levels
  /\ \A l \in 0..MaxMemCompactLevel : l \in Levels /\ \A m \in Levels : m <= l => m \in 0..l
BY LsmTreeAssumption DEF Levels

\* The invariant, for one level.
LEMMA LevelsOK ==
  ASSUME TypeInv, SortedInv, NEW l \in Levels
  PROVE  LevelOK(l)
BY DEF TypeInv, SortedInv, LevelOK

\* Tables without a common key may stand in one level.
LEMMA ApartIs ==
  ASSUME NEW t, IsTable(t), NEW u, IsTable(u),
         ~Overlaps(u, t.smallest.key, t.largest.key)
  PROVE  \/ t.largest.key < u.smallest.key /\ Before(t.largest, u.smallest)
         \/ u.largest.key < t.smallest.key /\ Before(u.largest, t.smallest)
<1>1. /\ t.smallest.key \in Nat /\ t.largest.key \in Nat
      /\ u.smallest.key \in Nat /\ u.largest.key \in Nat
  BY TableFacts
<1> QED BY <1>1 DEF Overlaps, Before

\* A table that overlaps nothing may be added to a sorted level.
LEMMA DisjointMore ==
  ASSUME NEW T, Disjoint(T), AreTables(T), NEW t, IsTable(t),
         \A u \in T : ~Overlaps(u, t.smallest.key, t.largest.key)
  PROVE  Disjoint(T \cup {t})
<1> SUFFICES ASSUME NEW u \in T \cup {t}, NEW v \in T \cup {t}, u # v
             PROVE  Apart(u, v)
  BY DEF Disjoint
<1>1. CASE u \in T /\ v \in T
  BY <1>1 DEF Disjoint
<1>2. CASE u = t /\ v \in T
  BY <1>2, ApartIs DEF Apart, AreTables
<1>3. CASE u \in T /\ v = t
  BY <1>3, ApartIs DEF Apart, AreTables
<1> QED BY <1>1, <1>2, <1>3

\* The range of one table is its own.
LEMMA SingleIs ==
  ASSUME NEW t, IsTable(t)
  PROVE  AreTables({t}) /\ Lo({t}) = t.smallest.key /\ Hi({t}) = t.largest.key
<1>1. IsFiniteSet({t})
  BY FS_Singleton
<1>2. AreTables({t})
  BY <1>1 DEF AreTables
<1>3. /\ \E x \in {t} : x.smallest.key = Lo({t})
      /\ \E y \in {t} : y.largest.key = Hi({t})
  BY <1>2, RangeOf
<1> QED BY <1>2, <1>3

\* A version is built when its deeper levels are sorted.
LEMMA ApplyIs ==
  ASSUME NEW version, Apply(version)
  PROVE  \/ /\ \A l \in Levels \ {0} : Disjoint(version[l])
            /\ files' = version /\ overlap' = FALSE
         \/ /\ ~ \A l \in Levels \ {0} : Disjoint(version[l])
            /\ files' = files /\ overlap' = TRUE
BY DEF Apply

\* A flush adds a table with the entries of imm at a level to which nothing
\* above it overlaps it.
LEMMA FlushIs ==
  ASSUME IInv, Flush
  PROVE  /\ \E l \in Levels : \E t :
              /\ IsTable(t) /\ t.entries = imm /\ t.num = nextFileNumber
              /\ l = 0 \/ \A m \in Levels : m <= l =>
                   \A u \in files[m] : ~Overlaps(u, t.smallest.key, t.largest.key)
              /\ files' = [files EXCEPT ![l] = @ \cup {t}]
         /\ overlap' = FALSE /\ imm' = {} /\ nextFileNumber' = nextFileNumber + 1
         /\ UNCHANGED <<mem, lastSequence, snapshot, job, exposed, restarts>>
         /\ \A m \in Levels \ {0} : Disjoint(files'[m])
<1> DEFINE t == Table(nextFileNumber, imm)
<1>1. IsTable(t) /\ t.entries = imm /\ t.num = nextFileNumber
  BY TableIs DEF IInv, TypeInv, Flush
<1>2. PICK l \in PickLevels(t.smallest.key, t.largest.key) :
         Apply([files EXCEPT ![l] = @ \cup {t}])
  BY DEF Flush
<1> HIDE DEF t
<1>3. /\ l \in Levels
      /\ l = 0 \/ \A m \in Levels : m <= l =>
           \A u \in files[m] : ~Overlaps(u, t.smallest.key, t.largest.key)
  <2>1. /\ l \in 0..MaxMemCompactLevel
        /\ l = 0 \/ \A m \in 0..l : ~OverlapInLevel(m, t.smallest.key, t.largest.key)
    BY <1>2 DEF PickLevels
  <2> QED BY <2>1, LevelsAre DEF OverlapInLevel
<1> DEFINE version == [files EXCEPT ![l] = @ \cup {t}]
<1>4. ASSUME NEW m \in Levels \ {0} PROVE Disjoint(version[m])
  <2>1. Disjoint(files[m]) /\ AreTables(files[m]) /\ DOMAIN files = Levels
    BY DEF IInv, SortedInv, TypeInv
  <2>2. CASE m # l
    BY <2>1, <2>2
  <2>3. CASE m = l
    <3>1. \A u \in files[l] : ~Overlaps(u, t.smallest.key, t.largest.key)
      BY <1>3, <1>4, <2>3, LevelsAre
    <3>2. Disjoint(files[l] \cup {t})
      BY <1>1, <2>1, <2>3, <3>1, DisjointMore
    <3>3. version[m] = files[l] \cup {t}
      BY <2>1, <2>3
    <3> QED BY <3>2, <3>3
  <2> QED BY <2>2, <2>3
<1>5. files' = version /\ overlap' = FALSE
  <2> HIDE DEF version
  <2>1. Apply(version)
    BY <1>2 DEF version
  <2> QED BY <1>4, <2>1, ApplyIs
<1>6. imm' = {} /\ nextFileNumber' = nextFileNumber + 1
      /\ UNCHANGED <<mem, lastSequence, snapshot, job, exposed, restarts>>
  BY <1>5 DEF Flush
<1>7. \A m \in Levels \ {0} : Disjoint(files'[m])
  <2> HIDE DEF version
  <2> QED BY <1>4, <1>5
<1> QED BY <1>1, <1>3, <1>5, <1>6, <1>7

\* A trivial move takes one table that overlaps nothing one level down.
LEMMA MoveIs ==
  ASSUME IInv, NEW l \in Levels, l + 1 \in Levels, NEW in \in Picked(l),
         IsTrivialMove(in),
         Apply([files EXCEPT ![l] = @ \ in[1], ![l + 1] = @ \cup in[1]])
  PROVE  /\ \E t \in files[l] :
              /\ files' = [files EXCEPT ![l] = @ \ {t}, ![l + 1] = @ \cup {t}]
              /\ \A u \in files[l] \ {t} : NewerIn(u.entries, t.entries)
         /\ overlap' = FALSE
         /\ \A m \in Levels \ {0} : Disjoint(files'[m])
<1>1. LevelOK(l) /\ LevelOK(l + 1) /\ GoodInputs(l, in)
  BY LevelsOK, PickedGood DEF IInv
<1>2. PICK t : in[1] = {t}
  <2>1. in[1] \in SUBSET files[l]
    BY <1>1 DEF GoodInputs
  <2>2. IsFiniteSet(in[1])
    BY <1>1, <2>1, FS_Subset DEF LevelOK, AreTables
  <2> QED BY <2>2, FS_Singleton DEF IsTrivialMove
<1>3. /\ t \in files[l] /\ IsTable(t)
      /\ \A u \in files[l] \ {t} : NewerIn(u.entries, t.entries)
  BY <1>1, <1>2 DEF GoodInputs, LevelOK, AreTables
<1>4. \A u \in files[l + 1] : ~Overlaps(u, t.smallest.key, t.largest.key)
  <2>1. Inputs(l + 1, {t}) = {}
    BY <1>1, <1>2 DEF GoodInputs, IsTrivialMove
  <2>2. Inputs(l + 1, {t}) = {u \in files[l + 1] : Overlaps(u, Lo({t}), Hi({t}))}
    BY InputsAboveZero, LevelsAre
  <2> QED BY <1>3, <2>1, <2>2, SingleIs
<1> DEFINE version == [files EXCEPT ![l] = @ \ {t}, ![l + 1] = @ \cup {t}]
<1>5. Apply(version)
  BY <1>2
<1>6. ASSUME NEW m \in Levels \ {0} PROVE Disjoint(version[m])
  <2>1. Disjoint(files[m]) /\ AreTables(files[m]) /\ DOMAIN files = Levels
    BY DEF IInv, SortedInv, TypeInv
  <2>2. CASE m = l + 1
    <3>1. version[m] = files[l + 1] \cup {t}
      BY <2>1, <2>2, LevelsAre
    <3> QED BY <1>3, <1>4, <2>1, <2>2, <3>1, DisjointMore
  <2>3. CASE m = l
    <3>1. version[m] = files[l] \ {t}
      BY <2>1, <2>3, LevelsAre
    <3> QED BY <2>1, <2>3, <3>1 DEF Disjoint
  <2>4. CASE m # l /\ m # l + 1
    BY <2>1, <2>4
  <2> QED BY <2>2, <2>3, <2>4
<1> HIDE DEF version
<1>7. files' = version /\ overlap' = FALSE
  BY <1>5, <1>6, ApplyIs
<1>8. \A m \in Levels \ {0} : Disjoint(files'[m])
  BY <1>6, <1>7
<1> QED BY <1>3, <1>7, <1>8 DEF version

\* The invariant holds at the start, and one lemma for each action keeps it.
LEMMA InitInv == Init => IInv
<1> SUFFICES ASSUME Init PROVE IInv
  OBVIOUS
<1> USE DEF Init
<1>1. TypeInv
  <2>1. IsFiniteSet({})
    BY FS_EmptySet
  <2>2. 0 \in 0..MaxSequence
    <3>1. MaxSequence \in Nat
      BY SequenceBound
    <3> QED BY <3>1
  <2>3. snapshot \in [Snapshots -> (0..lastSequence) \cup {NoSnapshot}]
    OBVIOUS
  <2>4. DOMAIN files = Levels /\ \A l \in Levels : files[l] = {}
    OBVIOUS
  <2> QED BY <2>1, <2>2, <2>3, <2>4 DEF TypeInv, AreTables
<1>2. All = {} /\ \A l \in Levels : files[l] = {}
  BY DEF All
<1>3. EntriesInv
  BY <1>2 DEF EntriesInv
<1>4. NumbersInv /\ SortedInv /\ NewerInv
  BY <1>2, LevelsAre DEF NumbersInv, SortedInv, NewerInv, NewerIn, Disjoint
<1>5. SnapshotsAbove /\ JobInv /\ AutoInv /\ OverlapOnlyByRange
  BY DEF SnapshotsAbove, JobInv, AutoInv, OverlapOnlyByRange
<1> QED BY <1>1, <1>3, <1>4, <1>5 DEF IInv

\* A write has the highest sequence number, so it may stand above everything.
LEMMA WriteInv ==
  ASSUME IInv, NEW k \in Keys, NEW type \in Types, Write(k, type)
  PROVE  IInv'
<1> DEFINE n == [key |-> k, seq |-> lastSequence + 1, type |-> type]
<1>1. /\ lastSequence < MaxSequence /\ lastSequence' = lastSequence + 1
      /\ mem' = mem \cup {n}
      /\ UNCHANGED <<imm, files, nextFileNumber, snapshot, job, overlap,
                     exposed, restarts>>
  BY DEF Write
<1>2. MaxSequence \in Nat /\ lastSequence \in Nat /\ lastSequence' \in 0..MaxSequence
  <2>1. MaxSequence \in Nat
    BY SequenceBound
  <2> QED BY <1>1, <2>1 DEF IInv, TypeInv
<1>3. n \in Entry /\ n.key = k /\ n.seq = lastSequence + 1
  BY <1>1, <1>2 DEF Entry
<1> HIDE DEF n
<1>4. TypeInv'
  <2>1. IsFiniteSet(mem')
    BY <1>1, FS_AddElement DEF IInv, TypeInv
  <2>2. snapshot' \in [Snapshots -> (0..lastSequence') \cup {NoSnapshot}]
    <3>1. 0..lastSequence \subseteq 0..lastSequence'
      BY <1>1, <1>2
    <3>2. snapshot \in [Snapshots -> (0..lastSequence) \cup {NoSnapshot}]
      BY DEF IInv, TypeInv
    <3> DEFINE X == 0..lastSequence
               Y == 0..lastSequence'
    <3> HIDE DEF X, Y
    <3>3. snapshot \in [Snapshots -> X \cup {NoSnapshot}] /\ X \subseteq Y
      BY <3>1, <3>2 DEF X, Y
    <3>4. snapshot \in [Snapshots -> Y \cup {NoSnapshot}]
      BY <3>3
    <3> QED BY <1>1, <3>4 DEF Y
  <2> QED BY <1>1, <1>2, <1>3, <2>1, <2>2 DEF IInv, TypeInv
<1>5. \A e \in All' : e \in All \/ e = n
  BY <1>1 DEF All
<1>6. \A e \in All : e.seq \in Nat /\ e.seq <= lastSequence
  BY EntryTypes DEF All, IInv, EntriesInv
<1>7. EntriesInv'
  <2>1. ASSUME NEW e \in All' PROVE e.seq <= lastSequence'
    BY <1>1, <1>2, <1>3, <1>5, <1>6
  <2>2. ASSUME NEW e \in All', NEW f \in All', e.seq = f.seq PROVE e = f
    <3>1. CASE e \in All /\ f \in All
      BY <2>2, <3>1 DEF IInv, EntriesInv
    <3> QED BY <1>2, <1>3, <1>5, <1>6, <2>2, <3>1
  <2> QED BY <2>1, <2>2 DEF EntriesInv
<1>8. NumbersInv' /\ SortedInv'
  BY <1>1 DEF IInv, NumbersInv, SortedInv, Disjoint, Apart
<1>9. NewerInv'
  <2>1. ASSUME NEW f \in imm PROVE f.seq < n.seq
    <3>1. f \in All
      BY <2>1 DEF All, IInv, TypeInv
    <3> QED BY <1>2, <1>3, <1>6, <3>1
  <2>2. ASSUME NEW l \in Levels, NEW t \in files[l], NEW f \in t.entries
        PROVE  f.seq < n.seq
    <3>1. t.entries \subseteq Entry
      BY TableFacts DEF IInv, TypeInv, AreTables
    <3>2. f \in All
      BY <3>1 DEF All
    <3> QED BY <1>2, <1>3, <1>6, <3>2
  <2>3. NewerIn(mem', imm')
    <3>1. ASSUME NEW e \in mem', NEW f \in imm', e.key = f.key PROVE e.seq > f.seq
      <4>1. f.seq < n.seq /\ f \in imm /\ f \in Entry
        BY <1>1, <2>1 DEF IInv, TypeInv
      <4>2. CASE e \in mem
        BY <3>1, <4>1, <4>2 DEF IInv, NewerInv, NewerIn
      <4>3. CASE e = n
        BY <1>2, <1>3, <4>1, <4>3, EntryTypes
      <4> QED BY <1>1, <4>2, <4>3
    <3> QED BY <3>1 DEF NewerIn
  <2>4. ASSUME NEW l \in Levels, NEW t \in files[l] PROVE NewerIn(mem', t.entries)
    <3>1. ASSUME NEW e \in mem', NEW f \in t.entries, e.key = f.key PROVE e.seq > f.seq
      <4>1. f.seq < n.seq /\ f \in Entry
        BY <2>2, TableFacts DEF IInv, TypeInv, AreTables
      <4>2. CASE e \in mem
        BY <3>1, <4>1, <4>2 DEF IInv, NewerInv, NewerIn
      <4>3. CASE e = n
        BY <1>2, <1>3, <4>1, <4>3, EntryTypes
      <4> QED BY <1>1, <4>2, <4>3
    <3> QED BY <3>1 DEF NewerIn
  <2> QED BY <1>1, <2>3, <2>4 DEF IInv, NewerInv
<1>10. SnapshotsAbove'
  BY <1>1, <1>2 DEF IInv, SnapshotsAbove, Held, JobInv
<1>11. JobInv' /\ AutoInv' /\ OverlapOnlyByRange'
  <2>1. JobInv'
    BY <1>1 DEF IInv, JobInv, JobEntries, EntriesOf
  <2>2. AutoInv'
    BY <1>1 DEF IInv, AutoInv, JobTables, Connected, Beside
  <2>3. OverlapOnlyByRange'
    BY <1>1 DEF IInv, OverlapOnlyByRange
  <2> QED BY <2>1, <2>2, <2>3
<1> QED BY <1>4, <1>7, <1>8, <1>9, <1>10, <1>11 DEF IInv

\* Steps that leave the tables and the compaction alone.
LEMMA SameTables ==
  ASSUME IInv, UNCHANGED <<files, nextFileNumber, job, overlap>>
  PROVE  /\ NumbersInv' /\ SortedInv' /\ JobInv' /\ AutoInv' /\ OverlapOnlyByRange'
<1>1. NumbersInv' /\ SortedInv'
  BY DEF IInv, NumbersInv, SortedInv, Disjoint, Apart
<1>2. JobInv'
  BY DEF IInv, JobInv, JobEntries, EntriesOf
<1>3. AutoInv'
  BY DEF IInv, AutoInv, JobTables, Connected, Beside
<1>4. OverlapOnlyByRange'
  BY DEF IInv, OverlapOnlyByRange
<1> QED BY <1>1, <1>2, <1>3, <1>4

\* A snapshot is taken at lastSequence, which no job is above.
LEMMA TakeInv ==
  ASSUME IInv, NEW s \in Snapshots, TakeSnapshot(s)
  PROVE  IInv'
<1>1. /\ snapshot' = [snapshot EXCEPT ![s] = lastSequence]
      /\ UNCHANGED <<mem, imm, files, lastSequence, nextFileNumber, job, overlap,
                     exposed, restarts>>
  BY DEF TakeSnapshot
<1>2. lastSequence \in 0..lastSequence
  <2>1. lastSequence \in Nat
    BY DEF IInv, TypeInv
  <2> QED BY <2>1
<1>3. TypeInv'
  BY <1>1, <1>2 DEF IInv, TypeInv
<1>4. EntriesInv' /\ NewerInv'
  BY <1>1 DEF IInv, EntriesInv, NewerInv, All
<1>5. SnapshotsAbove'
  BY <1>1 DEF IInv, SnapshotsAbove, Held, TypeInv
<1>6. NumbersInv' /\ SortedInv' /\ JobInv' /\ AutoInv' /\ OverlapOnlyByRange'
  BY <1>1, SameTables
<1> QED BY <1>3, <1>4, <1>5, <1>6 DEF IInv

\* A snapshot less leaves the others where they are.
LEMMA ReleaseInv ==
  ASSUME IInv, NEW s \in Snapshots, ReleaseSnapshot(s)
  PROVE  IInv'
<1>1. /\ snapshot' = [snapshot EXCEPT ![s] = NoSnapshot]
      /\ UNCHANGED <<mem, imm, files, lastSequence, nextFileNumber, job, overlap,
                     exposed, restarts>>
  BY DEF ReleaseSnapshot
<1>2. TypeInv'
  BY <1>1 DEF IInv, TypeInv
<1>3. EntriesInv' /\ NewerInv'
  BY <1>1 DEF IInv, EntriesInv, NewerInv, All
<1>4. SnapshotsAbove'
  BY <1>1 DEF IInv, SnapshotsAbove, Held, TypeInv
<1>5. NumbersInv' /\ SortedInv' /\ JobInv' /\ AutoInv' /\ OverlapOnlyByRange'
  BY <1>1, SameTables
<1> QED BY <1>2, <1>3, <1>4, <1>5 DEF IInv

\* The memtable is above what the immutable one is above.
LEMMA RotateInv ==
  ASSUME IInv, Rotate
  PROVE  IInv'
<1>1. /\ imm = {} /\ imm' = mem /\ mem' = {}
      /\ UNCHANGED <<files, lastSequence, nextFileNumber, snapshot, job, overlap,
                     exposed, restarts>>
  BY DEF Rotate
<1>2. TypeInv'
  <2>1. IsFiniteSet({})
    BY FS_EmptySet
  <2> QED BY <1>1, <2>1 DEF IInv, TypeInv
<1>3. \A e \in All' : e \in All
  BY <1>1 DEF All
<1>4. EntriesInv'
  BY <1>1, <1>3 DEF IInv, EntriesInv
<1>5. NewerInv'
  BY <1>1 DEF IInv, NewerInv, NewerIn
<1>6. SnapshotsAbove'
  BY <1>1 DEF IInv, SnapshotsAbove, Held
<1>7. NumbersInv' /\ SortedInv' /\ JobInv' /\ AutoInv' /\ OverlapOnlyByRange'
  BY <1>1, SameTables
<1> QED BY <1>2, <1>4, <1>5, <1>6, <1>7 DEF IInv

\* A table without a common key with tables that leave no gap is beside them.
LEMMA BesideIs ==
  ASSUME NEW T, Connected(T), NEW t, IsTable(t), \A v \in T : IsTable(v),
         \A v \in T : ~Overlaps(v, t.smallest.key, t.largest.key)
  PROVE  Beside(t, T)
<1> SUFFICES ASSUME NEW v \in T, ~Before(t.largest, v.smallest),
                    NEW w \in T, ~Before(w.largest, t.smallest)
             PROVE  FALSE
  BY DEF Beside
<1>1. v.largest.key < t.smallest.key /\ t.largest.key < w.smallest.key
  BY ApartIs
<1>2. \A u \in T \cup {t} : /\ u.smallest.key \in Nat /\ u.largest.key \in Nat
                            /\ u.smallest.key <= u.largest.key
  BY TableFacts
<1> DEFINE k == t.smallest.key
<1>3. k \in Nat /\ v.smallest.key <= k /\ k <= w.largest.key
  BY <1>1, <1>2
<1>4. Covers(T, k)
  <2> HIDE DEF k
  <2> QED BY <1>3, ConnectedIs
<1>5. PICK x \in T : x.smallest.key <= k /\ k <= x.largest.key
  BY <1>4 DEF Covers
<1>6. x.smallest.key <= t.largest.key
  BY <1>2, <1>5
<1> QED BY <1>5, <1>6 DEF Overlaps

\* The tables of a compaction.
LEMMA JobTablesAre ==
  ASSUME IInv, job # NoJob
  PROVE  /\ AreTables(JobTables) /\ AreTables(job.in[1]) /\ AreTables(job.in[2])
         /\ \A v \in JobTables : \E m \in {job.level, job.level + 1} : v \in files[m]
         /\ \A x : x \in JobEntries <=> \E v \in JobTables : x \in v.entries
<1>1. /\ job.level \in Levels /\ job.level + 1 \in Levels
      /\ job.in[1] \in SUBSET files[job.level]
      /\ job.in[2] \in SUBSET files[job.level + 1]
  BY DEF IInv, JobInv
<1>2. AreTables(job.in[1]) /\ AreTables(job.in[2])
  BY <1>1, TablesSubset DEF IInv, TypeInv
<1>3. AreTables(JobTables)
  BY <1>2, TablesUnion DEF JobTables
<1>4. \A v \in JobTables : \E m \in {job.level, job.level + 1} : v \in files[m]
  BY <1>1 DEF JobTables
<1>5. \A x : x \in JobEntries <=> \E v \in JobTables : x \in v.entries
  BY DEF JobEntries, EntriesOf, JobTables
<1> QED BY <1>2, <1>3, <1>4, <1>5

\* A flush puts its table above everything that has its keys.
LEMMA FlushInv ==
  ASSUME IInv, Flush
  PROVE  IInv'
<1>0. PICK l \in Levels : \E t :
         /\ IsTable(t) /\ t.entries = imm /\ t.num = nextFileNumber
         /\ l = 0 \/ \A m \in Levels : m <= l =>
              \A u \in files[m] : ~Overlaps(u, t.smallest.key, t.largest.key)
         /\ files' = [files EXCEPT ![l] = @ \cup {t}]
  BY FlushIs
<1>1. PICK t :
         /\ IsTable(t) /\ t.entries = imm /\ t.num = nextFileNumber
         /\ l = 0 \/ \A m \in Levels : m <= l =>
              \A u \in files[m] : ~Overlaps(u, t.smallest.key, t.largest.key)
         /\ files' = [files EXCEPT ![l] = @ \cup {t}]
  BY <1>0
<1>2. /\ overlap' = FALSE /\ imm' = {} /\ nextFileNumber' = nextFileNumber + 1
      /\ UNCHANGED <<mem, lastSequence, snapshot, job, exposed, restarts>>
      /\ \A m \in Levels \ {0} : Disjoint(files'[m])
  BY FlushIs
<1>3. DOMAIN files = Levels /\ \A m \in Levels : AreTables(files[m])
  BY DEF IInv, TypeInv
<1>4. \A m \in Levels : files'[m] = IF m = l THEN files[l] \cup {t} ELSE files[m]
  BY <1>1, <1>3
<1>5. \A m \in Levels : \A u \in files'[m] : u \in files[m] \/ (u = t /\ m = l)
  BY <1>4
<1>6. TypeInv'
  <2>1. AreTables(files[l] \cup {t})
    BY <1>1, <1>3, SingleIs, TablesUnion
  <2>2. \A m \in Levels : AreTables(files'[m])
    BY <1>3, <1>4, <2>1
  <2>3. DOMAIN files' = Levels
    BY <1>1, <1>3
  <2>4. IsFiniteSet({})
    BY FS_EmptySet
  <2>5. nextFileNumber' \in Nat
    BY <1>2 DEF IInv, TypeInv
  <2>6. lastSequence' \in 0..MaxSequence
        /\ snapshot' \in [Snapshots -> (0..lastSequence') \cup {NoSnapshot}]
    BY <1>2 DEF IInv, TypeInv
  <2> QED BY <1>2, <2>2, <2>3, <2>4, <2>5, <2>6 DEF IInv, TypeInv
<1>7. \A e \in All' : e \in All
  BY <1>1, <1>2, <1>5 DEF All
<1>8. EntriesInv'
  BY <1>2, <1>7 DEF IInv, EntriesInv
<1>9. NumbersInv' /\ SortedInv'
  <2>1. \A u \in files[0] : u.num < nextFileNumber /\ u.num \in Nat
    BY LevelsAre, TableFacts, <1>3 DEF IInv, NumbersInv, AreTables
  <2>2. \A u \in files'[0] : u \in files[0] \/ (u = t /\ u.num = nextFileNumber)
    BY <1>1, <1>5, LevelsAre
  <2>3. nextFileNumber \in Nat
    BY DEF IInv, TypeInv
  <2>4. \A u \in files'[0] : u.num < nextFileNumber'
    BY <1>2, <2>1, <2>2, <2>3
  <2>5. ASSUME NEW u \in files'[0], NEW v \in files'[0], u.num = v.num PROVE u = v
    <3>1. CASE u \in files[0] /\ v \in files[0]
      BY <2>5, <3>1 DEF IInv, NumbersInv
    <3> QED BY <2>1, <2>2, <2>3, <2>5, <3>1
  <2> QED BY <1>2, <2>4, <2>5 DEF NumbersInv, SortedInv
<1>10. NewerInv'
  <2>1. NewerIn(mem', imm')
    BY <1>2 DEF NewerIn
  <2>2. ASSUME NEW m \in Levels, NEW u \in files'[m]
        PROVE  NewerIn(mem', u.entries) /\ NewerIn(imm', u.entries)
    <3>1. NewerIn(imm', u.entries)
      BY <1>2 DEF NewerIn
    <3>2. NewerIn(mem, u.entries)
      BY <1>1, <1>5, <2>2 DEF IInv, NewerInv
    <3> QED BY <1>2, <3>1, <3>2
  <2>3. ASSUME NEW a \in Levels, NEW b \in Levels, NEW u \in files'[a],
               NEW v \in files'[b], a < b
        PROVE  NewerIn(u.entries, v.entries)
    <3>1. CASE u \in files[a] /\ v \in files[b]
      BY <2>3, <3>1 DEF IInv, NewerInv
    <3>2. CASE u = t /\ v \in files[b]
      BY <1>1, <3>2 DEF IInv, NewerInv
    <3>3. CASE u \in files[a] /\ v = t /\ b = l
      <4>1. a <= l /\ l # 0
        BY <2>3, <3>3, LevelsAre
      <4>2. ~Overlaps(u, t.smallest.key, t.largest.key) /\ IsTable(u)
        BY <1>1, <1>3, <3>3, <4>1 DEF AreTables
      <4>3. \A e \in t.entries, f \in u.entries : e.key # f.key
        BY <1>1, <4>2, NoCommonKey
      <4> QED BY <3>3, <4>3 DEF NewerIn
    <3>4. a # l \/ b # l
      BY <2>3, LevelsAre
    <3> QED BY <1>5, <3>1, <3>2, <3>3, <3>4
  <2>4. ASSUME NEW u \in files'[0], NEW v \in files'[0], u.num > v.num
        PROVE  NewerIn(u.entries, v.entries)
    <3>1. CASE u \in files[0] /\ v \in files[0]
      BY <2>4, <3>1 DEF IInv, NewerInv
    <3>2. CASE u = t /\ v \in files[0]
      BY <1>1, <3>2, LevelsAre DEF IInv, NewerInv
    <3>3. v # t
      <4>1. ASSUME v = t PROVE FALSE
        <5>1. u \in files[0] \/ u = t
          BY <1>5, LevelsAre
        <5>2. u.num \in Nat /\ nextFileNumber \in Nat /\ u.num <= nextFileNumber
          BY <1>1, <1>3, <5>1, LevelsAre, TableFacts DEF IInv, TypeInv, NumbersInv, AreTables
        <5> QED BY <1>1, <2>4, <4>1, <5>2
      <4> QED BY <4>1
    <3> QED BY <1>5, <3>1, <3>2, <3>3, LevelsAre
  <2> QED BY <2>1, <2>2, <2>3, <2>4 DEF NewerInv
<1>11. SnapshotsAbove' /\ OverlapOnlyByRange'
  BY <1>2 DEF IInv, SnapshotsAbove, Held, OverlapOnlyByRange
<1>12. JobInv' /\ AutoInv'
  <2>1. CASE job = NoJob
    BY <1>2, <2>1 DEF JobInv, AutoInv
  <2>2. CASE job # NoJob
    <3>1. /\ job.level \in Levels /\ job.level + 1 \in Levels
          /\ job.in[1] \subseteq files[job.level]
          /\ job.in[2] \subseteq files[job.level + 1]
          /\ \A u \in files[job.level] \ job.in[1], v \in job.in[1] :
               NewerIn(u.entries, v.entries)
          /\ \A d \in Levels : d >= job.level + 2 =>
               \A u \in files[d] : \A e \in u.entries, x \in JobEntries :
                 e.key = x.key => e.key \in job.deeper
          /\ job.smallestSnapshot \in Nat
          /\ job.manual \in BOOLEAN
      BY <2>2 DEF IInv, JobInv
    <3>0. job.level \in Nat /\ l \in Nat
      BY <3>1, LevelsAre
    <3>2. job.in[1] \subseteq files'[job.level] /\ job.in[2] \subseteq files'[job.level + 1]
      BY <1>4, <3>1
    <3>3. ASSUME NEW u \in files'[job.level] \ job.in[1], NEW v \in job.in[1]
          PROVE  NewerIn(u.entries, v.entries)
      <4>1. CASE u \in files[job.level]
        BY <3>1, <4>1
      <4>2. CASE u = t
        BY <1>1, <3>1, <4>2 DEF IInv, NewerInv
      <4> QED BY <1>5, <3>1, <4>1, <4>2
    <3>4. ASSUME NEW v \in JobTables, l # 0, l >= job.level + 1
          PROVE  ~Overlaps(v, t.smallest.key, t.largest.key)
      <4>1. PICK m \in {job.level, job.level + 1} : v \in files[m]
        BY <2>2, JobTablesAre
      <4>2. m \in Levels /\ m <= l
        BY <3>0, <3>1, <3>4, <4>1
      <4> QED BY <1>1, <3>4, <4>1, <4>2
    <3>5. ASSUME NEW d \in Levels, d >= job.level + 2, NEW u \in files'[d],
                 NEW e \in u.entries, NEW x \in JobEntries, e.key = x.key
          PROVE  e.key \in job.deeper
      <4>1. CASE u \in files[d]
        BY <3>1, <3>5, <4>1
      <4>2. CASE u = t /\ d = l
        <5>1. PICK v \in JobTables : x \in v.entries /\ IsTable(v)
          BY <2>2, JobTablesAre DEF AreTables
        <5>2. l # 0 /\ l >= job.level + 1
          BY <3>0, <3>5, <4>2
        <5>3. \A f \in t.entries, g \in v.entries : f.key # g.key
          BY <1>1, <3>4, <5>1, <5>2, NoCommonKey
        <5> QED BY <3>5, <4>2, <5>1, <5>3
      <4> QED BY <1>5, <4>1, <4>2
    <3>6. JobInv'
      <4>1. JobEntries' = JobEntries
        BY <1>2 DEF JobEntries
      <4> QED BY <1>2, <3>1, <3>2, <3>3, <3>5, <4>1 DEF JobInv
    <3>7. AutoInv'
      <4>1. CASE job.manual
        BY <1>2, <4>1 DEF AutoInv
      <4>2. CASE ~job.manual
        <5>1. Connected(JobTables)
              /\ \A u \in files[job.level + 1] \ job.in[2] : Beside(u, JobTables)
          BY <2>2, <4>2 DEF IInv, AutoInv
        <5>2. ASSUME NEW u \in files'[job.level + 1] \ job.in[2]
              PROVE  Beside(u, JobTables)
          <6>1. CASE u \in files[job.level + 1]
            BY <5>1, <6>1
          <6>2. CASE u = t /\ job.level + 1 = l
            <7>1. l # 0 /\ l >= job.level + 1
              BY <3>0, <6>2
            <7>2. \A v \in JobTables : IsTable(v) /\ ~Overlaps(v, t.smallest.key, t.largest.key)
              BY <2>2, <3>4, <7>1, JobTablesAre DEF AreTables
            <7> QED BY <1>1, <5>1, <6>2, <7>2, BesideIs
          <6> QED BY <1>5, <3>1, <6>1, <6>2
        <5>3. JobTables' = JobTables
          BY <1>2 DEF JobTables
        <5> QED BY <1>2, <5>1, <5>2, <5>3 DEF AutoInv
      <4> QED BY <3>1, <4>1, <4>2
    <3> QED BY <3>6, <3>7
  <2> QED BY <2>1, <2>2
<1> QED BY <1>6, <1>8, <1>9, <1>10, <1>11, <1>12 DEF IInv

\* A trivial move keeps every entry, and puts none under an older one.
LEMMA MoveInv ==
  ASSUME IInv, job = NoJob, NEW l \in Levels, l + 1 \in Levels, NEW in \in Picked(l),
         IsTrivialMove(in),
         Apply([files EXCEPT ![l] = @ \ in[1], ![l + 1] = @ \cup in[1]]),
         UNCHANGED <<mem, imm, lastSequence, nextFileNumber, snapshot,
                     job, exposed, restarts>>
  PROVE  IInv' /\ \A e : e \in All' <=> e \in All
<1>1. PICK t \in files[l] :
         /\ files' = [files EXCEPT ![l] = @ \ {t}, ![l + 1] = @ \cup {t}]
         /\ \A u \in files[l] \ {t} : NewerIn(u.entries, t.entries)
  BY MoveIs
<1>2. overlap' = FALSE /\ \A m \in Levels \ {0} : Disjoint(files'[m])
  BY MoveIs
<1>3. DOMAIN files = Levels /\ \A m \in Levels : AreTables(files[m])
  BY DEF IInv, TypeInv
<1>4. l \in Nat
  BY LevelsAre
<1>5. /\ files'[l] = files[l] \ {t} /\ files'[l + 1] = files[l + 1] \cup {t}
      /\ \A m \in Levels : m # l /\ m # l + 1 => files'[m] = files[m]
      /\ DOMAIN files' = Levels
  BY <1>1, <1>3, <1>4
<1>6. IsTable(t)
  BY <1>3 DEF AreTables
<1>7. \A m \in Levels : \A u \in files'[m] :
         \/ u \in files[m] /\ (m = l => u # t)
         \/ u = t /\ m = l + 1
  BY <1>5
<1>8. TypeInv'
  <2>1. AreTables(files[l + 1] \cup {t}) /\ AreTables(files[l] \ {t})
    <3>1. (files[l] \ {t}) \in SUBSET files[l]
      OBVIOUS
    <3> QED BY <1>3, <1>6, <3>1, SingleIs, TablesUnion, TablesSubset
  <2>2. \A m \in Levels : AreTables(files'[m])
    BY <1>3, <1>5, <2>1
  <2>3. snapshot' \in [Snapshots -> (0..lastSequence') \cup {NoSnapshot}]
    BY DEF IInv, TypeInv
  <2> QED BY <1>2, <1>5, <2>2, <2>3 DEF IInv, TypeInv
<1>9. \A e : e \in All' <=> e \in All
  <2>1. ASSUME NEW e, NEW m \in Levels, NEW u \in files'[m], e \in u.entries
        PROVE  \E a \in Levels : \E v \in files[a] : e \in v.entries
    BY <1>7, <2>1
  <2>2. ASSUME NEW e, NEW m \in Levels, NEW u \in files[m], e \in u.entries
        PROVE  \E a \in Levels : \E v \in files'[a] : e \in v.entries
    <3>1. CASE u = t
      <4>1. t \in files'[l + 1]
        BY <1>5
      <4> QED BY <2>2, <3>1, <4>1
    <3>2. CASE u # t
      <4>1. u \in files'[m]
        BY <1>5, <3>2
      <4> QED BY <2>2, <4>1
    <3> QED BY <3>1, <3>2
  <2> QED BY <2>1, <2>2 DEF All
<1>10. EntriesInv'
  BY <1>9 DEF IInv, EntriesInv
<1>11. \A u \in files'[0] : u \in files[0]
  BY <1>4, <1>7, LevelsAre
<1>12. NumbersInv' /\ SortedInv'
  BY <1>2, <1>11 DEF IInv, NumbersInv, SortedInv
<1>13. NewerInv'
  <2>1. NewerIn(mem', imm')
    BY DEF IInv, NewerInv
  <2>2. ASSUME NEW m \in Levels, NEW u \in files'[m]
        PROVE  NewerIn(mem', u.entries) /\ NewerIn(imm', u.entries)
    BY <1>7 DEF IInv, NewerInv
  <2>3. ASSUME NEW a \in Levels, NEW b \in Levels, NEW u \in files'[a],
               NEW v \in files'[b], a < b
        PROVE  NewerIn(u.entries, v.entries)
    <3>0. a \in Nat /\ b \in Nat
      BY LevelsAre
    <3>1. CASE u \in files[a] /\ v \in files[b]
      BY <2>3, <3>1 DEF IInv, NewerInv
    <3>2. CASE u = t /\ a = l + 1 /\ v \in files[b]
      <4>1. l < b
        BY <1>4, <2>3, <3>0, <3>2
      <4> QED BY <3>2, <4>1 DEF IInv, NewerInv
    <3>3. CASE v = t /\ b = l + 1 /\ u \in files[a]
      <4>1. CASE a = l
        <5>1. u # t
          BY <1>5, <4>1
        <5> QED BY <1>1, <3>3, <4>1, <5>1
      <4>2. CASE a # l
        <5>1. a < l
          BY <1>4, <2>3, <3>0, <3>3, <4>2
        <5> QED BY <3>3, <5>1 DEF IInv, NewerInv
      <4> QED BY <4>1, <4>2
    <3> QED BY <1>7, <2>3, <3>0, <3>1, <3>2, <3>3
  <2>4. ASSUME NEW u \in files'[0], NEW v \in files'[0], u.num > v.num
        PROVE  NewerIn(u.entries, v.entries)
    BY <1>11, <2>4 DEF IInv, NewerInv
  <2> QED BY <2>1, <2>2, <2>3, <2>4 DEF NewerInv
<1>14. SnapshotsAbove' /\ JobInv' /\ AutoInv' /\ OverlapOnlyByRange'
  BY <1>2 DEF SnapshotsAbove, JobInv, AutoInv, OverlapOnlyByRange
<1> QED BY <1>8, <1>9, <1>10, <1>12, <1>13, <1>14 DEF IInv

\* The snapshot that a compaction drops entries by is not above any that is held.
LEMMA SmallestIs ==
  ASSUME TypeInv
  PROVE  /\ SmallestSnapshot \in Nat /\ SmallestSnapshot <= lastSequence
         /\ \A s \in Held : SmallestSnapshot <= snapshot[s] /\ snapshot[s] \in 0..lastSequence
<1>1. lastSequence \in Nat
  BY DEF TypeInv
<1>2. \A s \in Held : snapshot[s] \in 0..lastSequence
  BY DEF TypeInv, Held
<1>3. CASE Held = {}
  BY <1>1, <1>3 DEF SmallestSnapshot
<1>4. CASE Held # {}
  <2> DEFINE X == {snapshot[s] : s \in Held}
  <2>1. X \in SUBSET (0..lastSequence) /\ X # {}
    BY <1>2, <1>4
  <2>2. Min(X) \in X /\ \A n \in X : Min(X) <= n
    <3>1. X \in SUBSET Nat
      BY <1>1, <2>1
    <3> HIDE DEF X
    <3> QED BY <2>1, <3>1, MinIs
  <2>3. SmallestSnapshot = Min(X)
    BY <1>4 DEF SmallestSnapshot
  <2>4. \A s \in Held : Min(X) <= snapshot[s]
    BY <2>2
  <2> HIDE DEF X
  <2>5. Min(X) \in 0..lastSequence
    BY <2>1, <2>2
  <2> QED BY <1>1, <1>2, <2>3, <2>4, <2>5
<1> QED BY <1>3, <1>4

\* A compaction starts with inputs that JobInv and AutoInv describe.
LEMMA StartInv ==
  ASSUME IInv, ~overlap, NEW l \in Levels, l + 1 \in Levels, NEW in, GoodInputs(l, in),
         NEW manual \in BOOLEAN, ~manual => in \in Picked(l), Start(l, in, manual)
  PROVE  IInv'
<1>1. /\ job' = [level |-> l, in |-> in, deeper |-> Deeper(l),
                 smallestSnapshot |-> SmallestSnapshot, manual |-> manual]
      /\ UNCHANGED <<mem, imm, files, lastSequence, nextFileNumber, snapshot,
                     overlap, exposed, restarts>>
  BY DEF Start
<1>2. /\ job'.level = l /\ job'.in = in /\ job'.deeper = Deeper(l)
      /\ job'.smallestSnapshot = SmallestSnapshot /\ job'.manual = manual
  BY <1>1
<1>3. TypeInv'
  BY <1>1 DEF IInv, TypeInv
<1>4. EntriesInv' /\ NewerInv'
  BY <1>1 DEF IInv, EntriesInv, NewerInv, All
<1>5. NumbersInv' /\ SortedInv'
  BY <1>1 DEF IInv, NumbersInv, SortedInv, Disjoint, Apart
<1>6. OverlapOnlyByRange'
  BY <1>1 DEF OverlapOnlyByRange
<1>7. SnapshotsAbove'
  BY <1>1, <1>2, SmallestIs DEF IInv, SnapshotsAbove, Held
<1>8. LevelOK(l) /\ LevelOK(l + 1) /\ l \in Nat
  BY LevelsOK, LevelsAre DEF IInv
<1>9. /\ in[1] \subseteq files[l] /\ in[1] # {} /\ in[2] \subseteq files[l + 1]
      /\ in[2] = {u \in files[l + 1] : Overlaps(u, Lo(in[1]), Hi(in[1]))}
  <2>1. in[2] = {u \in files[l + 1] : Overlaps(u, Lo(in[1]), Hi(in[1]))}
    BY <1>8, InputsAboveZero DEF GoodInputs
  <2> QED BY <2>1 DEF GoodInputs
<1>10. JobInv'
  <2>1. ASSUME NEW d \in Levels, d >= l + 2, NEW t \in files[d],
               NEW e \in t.entries
        PROVE  e.key \in Deeper(l)
    <3>1. IsTable(t)
      BY DEF IInv, TypeInv, AreTables
    <3>2. e \in Entry /\ t.smallest.key <= e.key /\ e.key <= t.largest.key
      BY <3>1, TableFacts
    <3>3. e.key \in Keys /\ e.key \in Nat
      BY <3>2, EntryTypes
    <3>4. t.smallest.key \in Nat /\ t.largest.key \in Nat
      BY <3>1, TableFacts
    <3>5. Overlaps(t, e.key, e.key)
      BY <3>2, <3>3, <3>4 DEF Overlaps
    <3>6. OverlapInLevel(d, e.key, e.key)
      BY <3>5 DEF OverlapInLevel
    <3>7. d \in (l + 2)..(NumLevels - 1)
      BY <1>8, <2>1, LsmTreeAssumption DEF Levels
    <3> QED BY <3>3, <3>6, <3>7 DEF Deeper
  <2>2. SmallestSnapshot \in Nat
    BY SmallestIs DEF IInv
  <2>3. \A u \in files[l] \ in[1], v \in in[1] : NewerIn(u.entries, v.entries)
    BY DEF GoodInputs
  <2> HIDE DEF Deeper
  <2> QED BY <1>1, <1>2, <1>9, <2>1, <2>2, <2>3 DEF JobInv
<1>11. AutoInv'
  <2>1. CASE manual
    BY <1>2, <2>1 DEF AutoInv
  <2>2. CASE ~manual
    <3>1. Connected(in[1] \cup in[2])
      BY <1>8, <2>2, PickedConnected
    <3>2. AreTables(in[1])
      BY <1>8, <1>9, TablesSubset DEF LevelOK
    <3> DEFINE a == Lo(in[1])
               b == Hi(in[1])
    <3>3. /\ a \in Nat /\ b \in Nat
          /\ \A t \in in[1] : a <= t.smallest.key /\ t.largest.key <= b
      BY <1>9, <3>2, RangeOf
    <3>4. \A t \in files[l] \cup files[l + 1] :
             /\ IsTable(t) /\ t.smallest \in Entry /\ t.largest \in Entry
             /\ t.smallest.key \in Nat /\ t.largest.key \in Nat
             /\ t.smallest.key <= t.largest.key
      BY <1>8, TableFacts DEF LevelOK, AreTables
    <3>5. l + 1 # 0
      BY <1>8
    <3> HIDE DEF a, b
    <3>6. ASSUME NEW u \in files[l + 1] \ in[2]
          PROVE  Beside(u, in[1] \cup in[2])
      <4>1. ~Overlaps(u, a, b)
        BY <1>9 DEF a, b
      <4>2. u.smallest.key > b \/ u.largest.key < a
        BY <3>3, <3>4, <4>1 DEF Overlaps
      <4>3. \A v \in in[2] : /\ v \in files[l + 1] /\ Overlaps(v, a, b)
                             /\ Apart(u, v)
        BY <1>8, <1>9, <3>5 DEF a, b, LevelOK, Disjoint
      <4>4. CASE u.smallest.key > b
        <5>1. ASSUME NEW v \in in[1] PROVE Before(v.largest, u.smallest)
          BY <1>9, <3>3, <3>4, <4>4 DEF Before
        <5>2. ASSUME NEW v \in in[2] PROVE Before(v.largest, u.smallest)
          <6>1. v.smallest.key <= b /\ v \in files[l + 1]
            BY <4>3 DEF Overlaps
          <6>2. ~Before(u.largest, v.smallest)
            BY <3>3, <3>4, <4>4, <6>1 DEF Before
          <6> QED BY <4>3, <6>2 DEF Apart
        <5> QED BY <5>1, <5>2 DEF Beside
      <4>5. CASE u.largest.key < a
        <5>1. ASSUME NEW v \in in[1] PROVE Before(u.largest, v.smallest)
          BY <1>9, <3>3, <3>4, <4>5 DEF Before
        <5>2. ASSUME NEW v \in in[2] PROVE Before(u.largest, v.smallest)
          <6>1. v.largest.key >= a /\ v \in files[l + 1]
            BY <4>3 DEF Overlaps
          <6>2. ~Before(v.largest, u.smallest)
            BY <3>3, <3>4, <4>5, <6>1 DEF Before
          <6> QED BY <4>3, <6>2 DEF Apart
        <5> QED BY <5>1, <5>2 DEF Beside
      <4> QED BY <4>2, <4>4, <4>5
    <3>7. JobTables' = in[1] \cup in[2]
      BY <1>2 DEF JobTables
    <3> QED BY <1>1, <1>2, <3>1, <3>6, <3>7 DEF AutoInv
  <2> QED BY <2>1, <2>2
<1> QED BY <1>3, <1>4, <1>5, <1>6, <1>7, <1>10, <1>11 DEF IInv

\* The entries of the inputs.
LEMMA JobEntriesAre ==
  ASSUME IInv, job # NoJob
  PROVE  /\ JobEntries \subseteq Entry /\ IsFiniteSet(JobEntries)
         /\ JobEntries \subseteq All
<1>1. /\ AreTables(JobTables)
      /\ \A v \in JobTables : \E m \in {job.level, job.level + 1} : v \in files[m]
      /\ \A x : x \in JobEntries <=> \E v \in JobTables : x \in v.entries
  BY JobTablesAre
<1>2. \A v \in JobTables : v.entries \subseteq Entry /\ IsFiniteSet(v.entries)
  BY <1>1, TableFacts DEF AreTables, IsTable
<1>3. IsFiniteSet(JobEntries)
  <2> DEFINE f == [t \in JobTables |-> t.entries]
             X == {f[t] : t \in JobTables}
  <2>1. JobEntries = UNION X
    BY DEF JobEntries, JobTables, EntriesOf
  <2>2. \A T \in X : IsFiniteSet(T)
    BY <1>2
  <2> HIDE DEF f
  <2>3. IsFiniteSet(X)
    BY <1>1, ImageFinite DEF AreTables
  <2> HIDE DEF X
  <2> QED BY <2>1, <2>2, <2>3, FS_UNION
<1>4. job.level \in Levels /\ job.level + 1 \in Levels
  BY DEF IInv, JobInv
<1>5. ASSUME NEW x \in JobEntries PROVE x \in Entry /\ x \in All
  <2>1. PICK v \in JobTables : x \in v.entries
    BY <1>1
  <2>2. PICK m \in Levels : v \in files[m]
    BY <1>1, <1>4
  <2>3. x \in Entry
    BY <1>2, <2>1
  <2> QED BY <2>1, <2>2, <2>3 DEF All
<1> QED BY <1>3, <1>5

\* Of two entries of a compaction one is before the other.
LEMMA JobOrder ==
  ASSUME IInv, job # NoJob, NEW e \in JobEntries, NEW f \in JobEntries, e # f
  PROVE  Before(e, f) \/ Before(f, e)
<1>1. e \in Entry /\ f \in Entry /\ e \in All /\ f \in All
  BY JobEntriesAre
<1>2. e.seq # f.seq
  BY <1>1 DEF IInv, EntriesInv
<1> QED BY <1>1, <1>2, Order

\* The outputs are tables of the entries kept, one after the other.
LEMMA OutputsAre ==
  ASSUME IInv, job # NoJob, NEW S \in SUBSET JobEntries, NEW C \in SUBSET S
  PROVE  /\ IsFiniteSet(C) /\ Cardinality(C) \in Nat
         /\ AreTables(Outputs(S, C))
         /\ \A o \in Outputs(S, C) : o.entries \subseteq S
         /\ Disjoint(Outputs(S, C))
<1>1. /\ JobEntries \subseteq Entry /\ IsFiniteSet(JobEntries) /\ nextFileNumber \in Nat
  BY JobEntriesAre DEF IInv, TypeInv
<1>2. /\ S \subseteq Entry /\ IsFiniteSet(S) /\ C \subseteq Entry /\ IsFiniteSet(C)
  BY <1>1, FS_Subset
<1>3. Cardinality(C) \in Nat
  BY <1>2, FS_CardinalityType
<1> DEFINE N(c) == nextFileNumber + Cardinality({d \in C : Before(d, c)})
           O(c) == Output(S, C, c)
<1>4. ASSUME NEW c \in C
      PROVE  /\ N(c) \in Nat /\ O(c) \in SUBSET S /\ IsFiniteSet(O(c)) /\ O(c) # {}
             /\ O(c) \subseteq Entry
  <2>1. Cardinality({d \in C : Before(d, c)}) \in Nat
    <3> DEFINE B == {d \in C : Before(d, c)}
    <3>1. B \in SUBSET C
      OBVIOUS
    <3> HIDE DEF B
    <3>2. IsFiniteSet(B)
      BY <1>2, <3>1, FS_Subset
    <3>3. Cardinality(B) \in Nat
      BY <3>2, FS_CardinalityType
    <3> QED BY <3>3 DEF B
  <2>2. O(c) \in SUBSET S
    BY DEF Output
  <2>3. c \in O(c)
    BY <1>2, Order DEF Output
  <2>4. IsFiniteSet(O(c))
    <3> HIDE DEF O
    <3> QED BY <1>2, <2>2, FS_Subset
  <2> QED BY <1>1, <1>2, <2>1, <2>2, <2>3, <2>4
<1>5. ASSUME NEW c \in C
      PROVE  /\ IsTable(Table(N(c), O(c))) /\ Table(N(c), O(c)).entries = O(c)
             /\ Table(N(c), O(c)).smallest \in O(c) /\ Table(N(c), O(c)).largest \in O(c)
  <2> HIDE DEF N, O
  <2>1. /\ IsTable(Table(N(c), O(c))) /\ Table(N(c), O(c)).entries = O(c)
    BY <1>4, TableIs
  <2> QED BY <2>1 DEF IsTable
<1>6. Outputs(S, C) = {Table(N(c), O(c)) : c \in C}
  BY DEF Outputs
<1>7. AreTables(Outputs(S, C))
  <2> DEFINE f == [c \in C |-> Table(N(c), O(c))]
  <2> HIDE DEF N, O
  <2>1. Outputs(S, C) = {f[c] : c \in C}
    BY <1>6
  <2> HIDE DEF f
  <2>2. IsFiniteSet(Outputs(S, C))
    BY <1>2, <2>1, ImageFinite
  <2> QED BY <1>5, <1>6, <2>2 DEF AreTables
<1>8. \A o \in Outputs(S, C) : o.entries \subseteq S
  <2> HIDE DEF N, O
  <2> QED BY <1>4, <1>5, <1>6
<1>9. ASSUME NEW c \in C, NEW d \in C, Before(c, d), NEW e \in O(c), NEW f \in O(d)
      PROVE  Before(e, f)
  <2>1. ~Before(c, e) /\ Before(c, f)
    BY <1>9 DEF Output
  <2>2. e \in Entry /\ f \in Entry /\ c \in Entry
    BY <1>2, <1>4
  <2> QED BY <2>1, <2>2, Order
<1>10. Disjoint(Outputs(S, C))
  <2> SUFFICES ASSUME NEW c \in C, NEW d \in C
               PROVE  \/ Table(N(c), O(c)) = Table(N(d), O(d))
                      \/ Apart(Table(N(c), O(c)), Table(N(d), O(d)))
    BY <1>6 DEF Disjoint
  <2>1. CASE c = d
    BY <2>1
  <2>2. CASE c # d
    <3>1. Before(c, d) \/ Before(d, c)
      BY <2>2, JobOrder
    <3> HIDE DEF N, O
    <3> QED BY <1>5, <1>9, <3>1 DEF Apart
  <2> QED BY <2>1, <2>2
<1> QED BY <1>2, <1>3, <1>7, <1>8, <1>10

\* What an automatic compaction makes of the levels is sorted.
LEMMA FinishSorted ==
  ASSUME IInv, job # NoJob, ~job.manual, NEW S \in SUBSET JobEntries, NEW C \in SUBSET S,
         NEW version,
         version = [files EXCEPT ![job.level] = @ \ job.in[1],
                      ![job.level + 1] = (@ \ job.in[2]) \cup Outputs(S, C)],
         NEW m \in Levels \ {0}
  PROVE  Disjoint(version[m])
<1> DEFINE l == job.level
<1>1. l \in Levels /\ l + 1 \in Levels /\ l \in Nat /\ DOMAIN files = Levels
  BY LevelsAre DEF IInv, JobInv, TypeInv
<1>2. /\ version[l] = files[l] \ job.in[1]
      /\ version[l + 1] = (files[l + 1] \ job.in[2]) \cup Outputs(S, C)
      /\ m # l /\ m # l + 1 => version[m] = files[m]
  BY <1>1
<1>3. Disjoint(files[m])
  BY DEF IInv, SortedInv
<1>4. CASE m = l + 1
  <2> SUFFICES ASSUME NEW u \in version[m], NEW v \in version[m]
               PROVE  u = v \/ Apart(u, v)
    BY DEF Disjoint
  <2>1. ASSUME NEW x \in files[l + 1] \ job.in[2], NEW o \in Outputs(S, C)
        PROVE  Apart(x, o) /\ Apart(o, x)
    <3>1. Beside(x, JobTables)
      BY <2>1 DEF IInv, AutoInv
    <3>2. IsTable(o) /\ o.entries \subseteq JobEntries
      BY OutputsAre DEF AreTables
    <3>3. o.smallest \in JobEntries /\ o.largest \in JobEntries
      BY <3>2 DEF IsTable
    <3>4. PICK v1 \in JobTables : o.smallest \in v1.entries
      BY <3>3, JobTablesAre
    <3>5. PICK v2 \in JobTables : o.largest \in v2.entries
      BY <3>3, JobTablesAre
    <3>6. IsTable(v1) /\ IsTable(v2) /\ IsTable(x)
      BY <1>1, JobTablesAre DEF AreTables, IInv, TypeInv
    <3>7. ~Before(o.smallest, v1.smallest) /\ ~Before(v2.largest, o.largest)
      BY <3>4, <3>5, <3>6 DEF IsTable
    <3>8. /\ o.smallest \in Entry /\ o.largest \in Entry /\ v1.smallest \in Entry
          /\ v2.largest \in Entry /\ x.smallest \in Entry /\ x.largest \in Entry
      BY <3>2, <3>6, TableFacts
    <3>9. CASE Before(x.largest, v1.smallest)
      <4>1. Before(x.largest, o.smallest)
        BY <3>7, <3>8, <3>9, Order
      <4> QED BY <4>1 DEF Apart
    <3>10. CASE Before(v2.largest, x.smallest)
      <4>1. Before(o.largest, x.smallest)
        BY <3>7, <3>8, <3>10, Order
      <4> QED BY <4>1 DEF Apart
    <3> QED BY <3>1, <3>9, <3>10 DEF Beside
  <2>2. Disjoint(Outputs(S, C))
    BY OutputsAre
  <2> QED BY <1>2, <1>3, <1>4, <2>1, <2>2 DEF Disjoint
<1>5. CASE m = l
  BY <1>2, <1>3, <1>5 DEF Disjoint
<1>6. CASE m # l /\ m # l + 1
  BY <1>2, <1>3, <1>6
<1> QED BY <1>4, <1>5, <1>6

\* A compaction installs its outputs, or the assertion fails and nothing changes.
LEMMA FinishIs ==
  ASSUME IInv, Finish
  PROVE  /\ job # NoJob
         /\ UNCHANGED <<mem, imm, lastSequence, snapshot, restarts>>
         /\ nextFileNumber' \in Nat /\ nextFileNumber' >= nextFileNumber
         /\ exposed' = (exposed \/ (~overlap' /\ Exposes))
         /\ \/ overlap' = TRUE /\ job.manual /\ files' = files /\ job' = job
            \/ /\ overlap' = FALSE /\ job' = NoJob
               /\ \A m \in Levels \ {0} : Disjoint(files'[m])
               /\ \E C \in SUBSET Kept(JobEntries) :
                    /\ Kept(JobEntries) # {} => Last(Kept(JobEntries)) \in C
                    /\ files' = [files EXCEPT ![job.level] = @ \ job.in[1],
                                   ![job.level + 1] =
                                     (@ \ job.in[2]) \cup Outputs(Kept(JobEntries), C)]
<1> DEFINE l == job.level
           S == Kept(JobEntries)
           version(C) == [files EXCEPT ![l] = @ \ job.in[1],
                            ![l + 1] = (@ \ job.in[2]) \cup Outputs(S, C)]
<1>1. /\ job # NoJob
      /\ UNCHANGED <<mem, imm, lastSequence, snapshot, restarts>>
      /\ exposed' = (exposed \/ (~overlap' /\ Exposes))
      /\ job' = IF overlap' THEN job ELSE NoJob
  BY DEF Finish
<1>2. PICK C \in SUBSET S : /\ S # {} => Last(S) \in C
                            /\ nextFileNumber' = nextFileNumber + Cardinality(C)
                            /\ Apply(version(C))
  BY DEF Finish
<1>3. S \in SUBSET JobEntries
  BY DEF Kept
<1> HIDE DEF S
<1>4. Cardinality(C) \in Nat /\ nextFileNumber \in Nat
  BY <1>1, <1>3, OutputsAre DEF IInv, TypeInv
<1>5. nextFileNumber' \in Nat /\ nextFileNumber' >= nextFileNumber
  BY <1>2, <1>4
<1> DEFINE V == version(C)
<1>6. ~job.manual => \A m \in Levels \ {0} : Disjoint(V[m])
  BY <1>1, <1>3, FinishSorted
<1>7. V = [files EXCEPT ![job.level] = @ \ job.in[1],
             ![job.level + 1] = (@ \ job.in[2]) \cup Outputs(Kept(JobEntries), C)]
  BY DEF S
<1>8. C \in SUBSET Kept(JobEntries)
      /\ (Kept(JobEntries) # {} => Last(Kept(JobEntries)) \in C)
  BY <1>2 DEF S
<1> HIDE DEF V, version
<1>9. CASE /\ \A m \in Levels \ {0} : Disjoint(V[m])
           /\ files' = V /\ overlap' = FALSE
  <2>1. \A m \in Levels \ {0} : Disjoint(files'[m])
    BY <1>9
  <2>2. job' = NoJob
    BY <1>1, <1>9
  <2> QED BY <1>1, <1>5, <1>7, <1>8, <1>9, <2>1, <2>2
<1>10. CASE /\ ~ \A m \in Levels \ {0} : Disjoint(V[m])
            /\ files' = files /\ overlap' = TRUE
  <2>1. job.manual
    BY <1>1, <1>6, <1>10
  <2>2. job' = job
    BY <1>1, <1>10
  <2> QED BY <1>1, <1>5, <1>10, <2>1, <2>2
<1>11. Apply(V)
  BY <1>2 DEF V
<1> QED BY <1>9, <1>10, <1>11, ApplyIs

\* Where the tables are afterwards, and their entries.
LEMMA FinishTables ==
  ASSUME IInv, job # NoJob, NEW C \in SUBSET Kept(JobEntries),
         files' = [files EXCEPT ![job.level] = @ \ job.in[1],
                     ![job.level + 1] =
                       (@ \ job.in[2]) \cup Outputs(Kept(JobEntries), C)]
  PROVE  /\ DOMAIN files' = Levels /\ \A m \in Levels : AreTables(files'[m])
         /\ files'[job.level] = files[job.level] \ job.in[1]
         /\ files'[job.level + 1] =
              (files[job.level + 1] \ job.in[2]) \cup Outputs(Kept(JobEntries), C)
         /\ \A m \in Levels : m # job.level /\ m # job.level + 1 => files'[m] = files[m]
         /\ \A o \in Outputs(Kept(JobEntries), C) : o.entries \subseteq Kept(JobEntries)
<1> DEFINE l == job.level
           S == Kept(JobEntries)
<1>1. l \in Levels /\ l + 1 \in Levels /\ l \in Nat /\ DOMAIN files = Levels
  BY LevelsAre DEF IInv, JobInv, TypeInv
<1>2. S \in SUBSET JobEntries
  BY DEF Kept
<1> HIDE DEF S
<1>3. AreTables(Outputs(S, C)) /\ \A o \in Outputs(S, C) : o.entries \subseteq S
  BY <1>2, OutputsAre DEF S
<1>4. /\ DOMAIN files' = Levels
      /\ files'[l] = files[l] \ job.in[1]
      /\ files'[l + 1] = (files[l + 1] \ job.in[2]) \cup Outputs(S, C)
      /\ \A m \in Levels : m # l /\ m # l + 1 => files'[m] = files[m]
  BY <1>1 DEF S
<1>5. \A m \in Levels : AreTables(files[m])
  BY DEF IInv, TypeInv
<1>6. AreTables(files'[l])
  <2>1. (files[l] \ job.in[1]) \in SUBSET files[l]
    OBVIOUS
  <2> QED BY <1>1, <1>4, <1>5, <2>1, TablesSubset
<1>7. AreTables(files'[l + 1])
  <2>1. (files[l + 1] \ job.in[2]) \in SUBSET files[l + 1]
    OBVIOUS
  <2>2. AreTables(files[l + 1] \ job.in[2])
    BY <1>1, <1>5, <2>1, TablesSubset
  <2> DEFINE A == files[l + 1] \ job.in[2]
             B == Outputs(S, C)
  <2> HIDE DEF A, B
  <2>3. AreTables(A) /\ AreTables(B) /\ files'[l + 1] = A \cup B
    BY <1>3, <1>4, <2>2 DEF A, B
  <2> QED BY <2>3, TablesUnion
<1>8. ASSUME NEW m \in Levels PROVE AreTables(files'[m])
  <2>1. CASE m = l
    BY <1>6, <2>1
  <2>2. CASE m = l + 1
    BY <1>7, <2>2
  <2>3. CASE m # l /\ m # l + 1
    <3>1. files'[m] = files[m]
      BY <1>4, <2>3
    <3> QED BY <1>5, <3>1
  <2> QED BY <2>1, <2>2, <2>3
<1> QED BY <1>3, <1>4, <1>8 DEF S

\* The outputs stand where the inputs stood.
LEMMA FinishInv ==
  ASSUME IInv, Finish
  PROVE  IInv'
<1>1. /\ job # NoJob
      /\ UNCHANGED <<mem, imm, lastSequence, snapshot, restarts>>
      /\ nextFileNumber' \in Nat /\ nextFileNumber' >= nextFileNumber
      /\ exposed' = (exposed \/ (~overlap' /\ Exposes))
  BY FinishIs
<1>0. exposed' \in BOOLEAN
  BY <1>1 DEF IInv, TypeInv
<1>2. CASE overlap' = TRUE /\ job.manual /\ files' = files /\ job' = job
  <2>1. TypeInv'
    BY <1>0, <1>1, <1>2 DEF IInv, TypeInv
  <2>2. EntriesInv' /\ NewerInv'
    BY <1>1, <1>2 DEF IInv, EntriesInv, NewerInv, All
  <2>3. NumbersInv'
    <3>1. \A t \in files[0] : t.num < nextFileNumber /\ t.num \in Nat
      BY TableFacts, LevelsAre DEF IInv, NumbersInv, TypeInv, AreTables
    <3>2. nextFileNumber \in Nat
      BY DEF IInv, TypeInv
    <3>3. \A t \in files[0] : t.num < nextFileNumber'
      BY <1>1, <3>1, <3>2
    <3> QED BY <1>2, <3>3 DEF IInv, NumbersInv
  <2>4. SortedInv'
    BY <1>2 DEF IInv, SortedInv, Disjoint, Apart
  <2>5. SnapshotsAbove' /\ OverlapOnlyByRange'
    BY <1>1, <1>2 DEF IInv, SnapshotsAbove, Held, OverlapOnlyByRange
  <2>6. JobInv'
    BY <1>2 DEF IInv, JobInv, JobEntries, EntriesOf
  <2>7. AutoInv'
    BY <1>2 DEF IInv, AutoInv
  <2> QED BY <2>1, <2>2, <2>3, <2>4, <2>5, <2>6, <2>7 DEF IInv
<1>3. CASE /\ overlap' = FALSE /\ job' = NoJob
           /\ \A m \in Levels \ {0} : Disjoint(files'[m])
           /\ \E C \in SUBSET Kept(JobEntries) :
                /\ Kept(JobEntries) # {} => Last(Kept(JobEntries)) \in C
                /\ files' = [files EXCEPT ![job.level] = @ \ job.in[1],
                               ![job.level + 1] =
                                 (@ \ job.in[2]) \cup Outputs(Kept(JobEntries), C)]
  <2>1. PICK C \in SUBSET Kept(JobEntries) :
           files' = [files EXCEPT ![job.level] = @ \ job.in[1],
                       ![job.level + 1] =
                         (@ \ job.in[2]) \cup Outputs(Kept(JobEntries), C)]
    BY <1>3
  <2> DEFINE l == job.level
             D == Outputs(Kept(JobEntries), C)
  <2>2. /\ DOMAIN files' = Levels /\ \A m \in Levels : AreTables(files'[m])
        /\ files'[l] = files[l] \ job.in[1]
        /\ files'[l + 1] = (files[l + 1] \ job.in[2]) \cup D
        /\ \A m \in Levels : m # l /\ m # l + 1 => files'[m] = files[m]
        /\ \A o \in D : o.entries \subseteq Kept(JobEntries)
    BY <1>1, <2>1, FinishTables
  <2>3. /\ l \in Levels /\ l + 1 \in Levels /\ l \in Nat
        /\ job.in[1] \subseteq files[l] /\ job.in[2] \subseteq files[l + 1]
        /\ \A u \in files[l] \ job.in[1], v \in job.in[1] :
             NewerIn(u.entries, v.entries)
    BY <1>1, LevelsAre DEF IInv, JobInv
  <2> HIDE DEF D
  <2>4. \A o \in D : \A x \in o.entries :
           \/ \E v \in job.in[1] : x \in v.entries
           \/ \E v \in job.in[2] : x \in v.entries
    <3>1. \A o \in D : o.entries \subseteq JobEntries
      BY <2>2 DEF Kept
    <3>2. \A x \in JobEntries : \E v \in JobTables : x \in v.entries
      BY <1>1, JobTablesAre
    <3> QED BY <3>1, <3>2 DEF JobTables
  <2>5. \A m \in Levels : \A u \in files'[m] :
           \/ u \in files[m] /\ (m = l => u \notin job.in[1])
           \/ u \in D /\ m = l + 1
    <3>1. ASSUME NEW m \in Levels, NEW u \in files'[m]
          PROVE  \/ u \in files[m] /\ (m = l => u \notin job.in[1])
                 \/ u \in D /\ m = l + 1
      <4>1. CASE m = l
        BY <2>2, <4>1
      <4>2. CASE m = l + 1
        BY <2>2, <2>3, <4>2
      <4>3. CASE m # l /\ m # l + 1
        BY <2>2, <4>3
      <4> QED BY <4>1, <4>2, <4>3
    <3> QED BY <3>1
  <2>6. TypeInv'
    BY <1>0, <1>1, <1>3, <2>2 DEF IInv, TypeInv
  <2>7. \A e \in All' : e \in All
    <3>1. ASSUME NEW e, NEW m \in Levels, NEW u \in files'[m], e \in u.entries
          PROVE  \E a \in Levels : \E v \in files[a] : e \in v.entries
      BY <2>3, <2>4, <2>5, <3>1
    <3> QED BY <1>1, <3>1 DEF All
  <2>8. EntriesInv'
    BY <1>1, <2>7 DEF IInv, EntriesInv
  <2>9. \A u \in files'[0] : u \in files[0]
    BY <2>3, <2>5, LevelsAre
  <2>10. NumbersInv' /\ SortedInv'
    <3>1. \A t \in files[0] : t.num < nextFileNumber /\ t.num \in Nat
      BY TableFacts, LevelsAre DEF IInv, NumbersInv, TypeInv, AreTables
    <3>2. nextFileNumber \in Nat
      BY DEF IInv, TypeInv
    <3>3. \A t \in files'[0] : t.num < nextFileNumber'
      BY <1>1, <2>9, <3>1, <3>2
    <3> QED BY <1>3, <2>9, <3>3 DEF IInv, NumbersInv, SortedInv
  <2>11. NewerInv'
    <3>1. NewerIn(mem', imm')
      BY <1>1 DEF IInv, NewerInv
    <3>2. ASSUME NEW m \in Levels, NEW u \in files'[m]
          PROVE  NewerIn(mem', u.entries) /\ NewerIn(imm', u.entries)
      <4>1. CASE u \in files[m]
        BY <1>1, <4>1 DEF IInv, NewerInv
      <4>2. CASE u \in D
        <5>1. \A v \in job.in[1] \cup job.in[2] :
                 NewerIn(mem, v.entries) /\ NewerIn(imm, v.entries)
          BY <2>3 DEF IInv, NewerInv
        <5> QED BY <1>1, <2>4, <4>2, <5>1 DEF NewerIn
      <4> QED BY <2>5, <4>1, <4>2
    <3>3. ASSUME NEW a \in Levels, NEW b \in Levels, NEW u \in files'[a],
                 NEW v \in files'[b], a < b
          PROVE  NewerIn(u.entries, v.entries)
      <4>0. a \in Nat /\ b \in Nat
        BY LevelsAre
      <4>1. CASE u \in files[a] /\ v \in files[b]
        BY <3>3, <4>1 DEF IInv, NewerInv
      <4>2. CASE u \in D /\ a = l + 1 /\ v \in files[b]
        <5>1. l < b /\ l + 1 < b
          BY <2>3, <3>3, <4>0, <4>2
        <5>2. \A w \in job.in[1] \cup job.in[2] : NewerIn(w.entries, v.entries)
          BY <2>3, <4>2, <5>1 DEF IInv, NewerInv
        <5> QED BY <2>4, <4>2, <5>2 DEF NewerIn
      <4>3. CASE v \in D /\ b = l + 1 /\ u \in files[a] /\ (a = l => u \notin job.in[1])
        <5>1. \A w \in job.in[1] \cup job.in[2] : NewerIn(u.entries, w.entries)
          <6>1. CASE a = l
            <7>1. \A w \in job.in[1] : NewerIn(u.entries, w.entries)
              BY <2>3, <4>3, <6>1
            <7>2. \A w \in job.in[2] : NewerIn(u.entries, w.entries)
              <8>1. l < l + 1
                BY <2>3
              <8> QED BY <2>3, <4>3, <6>1, <8>1 DEF IInv, NewerInv
            <7> QED BY <7>1, <7>2
          <6>2. CASE a # l
            <7>1. a < l /\ a < l + 1
              BY <2>3, <3>3, <4>0, <4>3, <6>2
            <7> QED BY <2>3, <4>3, <7>1 DEF IInv, NewerInv
          <6> QED BY <6>1, <6>2
        <5> QED BY <2>4, <4>3, <5>1 DEF NewerIn
      <4> QED BY <2>5, <3>3, <4>0, <4>1, <4>2, <4>3
    <3>4. ASSUME NEW u \in files'[0], NEW v \in files'[0], u.num > v.num
          PROVE  NewerIn(u.entries, v.entries)
      BY <2>9, <3>4 DEF IInv, NewerInv
    <3> QED BY <3>1, <3>2, <3>3, <3>4 DEF NewerInv
  <2>12. SnapshotsAbove' /\ JobInv' /\ AutoInv' /\ OverlapOnlyByRange'
    BY <1>3 DEF SnapshotsAbove, JobInv, AutoInv, OverlapOnlyByRange
  <2> QED BY <2>6, <2>8, <2>10, <2>11, <2>12 DEF IInv
<1> QED BY <1>2, <1>3, FinishIs

\* Opening the database again makes a table of each memtable that is not empty.
LEMMA RestartIs ==
  ASSUME IInv, Restart
  PROVE  \E New :
           /\ AreTables(New)
           /\ \A t \in New : \/ t.entries = imm /\ t.num = nextFileNumber
                             \/ t.entries = mem /\ t.num = nextFileNumber + 1
           /\ \A t, u \in New : t.num = u.num => t = u
           /\ imm # {} => \E t \in New : t.entries = imm
           /\ mem # {} => \E t \in New : t.entries = mem
           /\ files' = [files EXCEPT ![0] = @ \cup New]
<1> DEFINE logs == {log \in {<<nextFileNumber, imm>>, <<nextFileNumber + 1, mem>>} :
                      log[2] # {}}
           New == {Table(log[1], log[2]) : log \in logs}
           a == Table(nextFileNumber, imm)
           b == Table(nextFileNumber + 1, mem)
<1>1. files' = [files EXCEPT ![0] = @ \cup New]
  BY DEF Restart
<1>2. nextFileNumber \in Nat /\ nextFileNumber + 1 \in Nat
      /\ imm \in SUBSET Entry /\ IsFiniteSet(imm)
      /\ mem \in SUBSET Entry /\ IsFiniteSet(mem)
  BY DEF IInv, TypeInv
<1>3. imm # {} => IsTable(a) /\ a.entries = imm /\ a.num = nextFileNumber
  BY <1>2, TableIs
<1>4. mem # {} => IsTable(b) /\ b.entries = mem /\ b.num = nextFileNumber + 1
  BY <1>2, TableIs
<1>5. New = {t \in {a, b} : \/ t = a /\ imm # {}
                            \/ t = b /\ mem # {}}
  <2>1. ASSUME NEW t \in New
        PROVE  \/ t = a /\ imm # {}
               \/ t = b /\ mem # {}
    <3>1. PICK log \in logs : t = Table(log[1], log[2])
      OBVIOUS
    <3>2. CASE log = <<nextFileNumber, imm>>
      BY <3>1, <3>2
    <3>3. CASE log = <<nextFileNumber + 1, mem>>
      BY <3>1, <3>3
    <3> QED BY <3>2, <3>3
  <2>2. ASSUME imm # {} PROVE a \in New
    <3>1. <<nextFileNumber, imm>> \in logs
      BY <2>2
    <3> QED BY <3>1
  <2>3. ASSUME mem # {} PROVE b \in New
    <3>1. <<nextFileNumber + 1, mem>> \in logs
      BY <2>3
    <3> QED BY <3>1
  <2> HIDE DEF New, a, b
  <2> QED BY <2>1, <2>2, <2>3
<1> HIDE DEF New, a, b
<1>6. AreTables(New)
  <2>1. IsFiniteSet({a, b})
    <3>1. IsFiniteSet({a}) /\ IsFiniteSet({b})
      BY FS_Singleton
    <3>2. IsFiniteSet({a} \cup {b})
      BY <3>1, FS_Union
    <3>3. {a} \cup {b} = {a, b}
      OBVIOUS
    <3> QED BY <3>2, <3>3
  <2>2. New \in SUBSET {a, b}
    BY <1>5
  <2>3. IsFiniteSet(New)
    BY <2>1, <2>2, FS_Subset
  <2> QED BY <1>3, <1>4, <1>5, <2>3 DEF AreTables
<1>7. nextFileNumber # nextFileNumber + 1
  BY <1>2
<1>8. /\ \A t \in New : \/ t.entries = imm /\ t.num = nextFileNumber
                        \/ t.entries = mem /\ t.num = nextFileNumber + 1
      /\ \A t, u \in New : t.num = u.num => t = u
      /\ imm # {} => \E t \in New : t.entries = imm
      /\ mem # {} => \E t \in New : t.entries = mem
  BY <1>3, <1>4, <1>5, <1>7
<1> QED BY <1>1, <1>6, <1>8

\* The logs become tables of level 0, newer than those that are there.
LEMMA RestartInv ==
  ASSUME IInv, ~overlap, Restart
  PROVE  IInv' /\ \A e : e \in All' <=> e \in All
<1>1. PICK New :
         /\ AreTables(New)
         /\ \A t \in New : \/ t.entries = imm /\ t.num = nextFileNumber
                           \/ t.entries = mem /\ t.num = nextFileNumber + 1
         /\ \A t, u \in New : t.num = u.num => t = u
         /\ imm # {} => \E t \in New : t.entries = imm
         /\ mem # {} => \E t \in New : t.entries = mem
         /\ files' = [files EXCEPT ![0] = @ \cup New]
  BY RestartIs
<1>2. /\ mem' = {} /\ imm' = {} /\ nextFileNumber' = nextFileNumber + 2
      /\ snapshot' = [s \in Snapshots |-> NoSnapshot] /\ job' = NoJob
      /\ UNCHANGED <<lastSequence, overlap, exposed>>
  BY DEF Restart
<1>3. DOMAIN files = Levels /\ \A m \in Levels : AreTables(files[m])
  BY DEF IInv, TypeInv
<1>4. /\ files'[0] = files[0] \cup New /\ DOMAIN files' = Levels
      /\ \A m \in Levels \ {0} : files'[m] = files[m]
  BY <1>1, <1>3, LevelsAre
<1>5. \A m \in Levels : \A u \in files'[m] : u \in files[m] \/ (u \in New /\ m = 0)
  BY <1>4
<1>6. TypeInv'
  <2>1. AreTables(files[0] \cup New)
    BY <1>1, <1>3, LevelsAre, TablesUnion
  <2>2. \A m \in Levels : AreTables(files'[m])
    BY <1>3, <1>4, <2>1
  <2>3. IsFiniteSet({})
    BY FS_EmptySet
  <2>4. nextFileNumber' \in Nat
    BY <1>2 DEF IInv, TypeInv
  <2>5. snapshot' \in [Snapshots -> (0..lastSequence') \cup {NoSnapshot}]
    BY <1>2
  <2> QED BY <1>2, <1>4, <2>2, <2>3, <2>4, <2>5 DEF IInv, TypeInv
<1>7. \A e : e \in All' <=> e \in All
  <2>1. ASSUME NEW e, e \in All' PROVE e \in All
    BY <1>1, <1>2, <1>5, <2>1 DEF All
  <2>2. ASSUME NEW e, e \in All PROVE e \in All'
    <3>1. e \in Entry
      BY <2>2 DEF All
    <3>2. \E l \in Levels : \E t \in files'[l] : e \in t.entries
      <4>1. CASE e \in mem \/ e \in imm
        <5>1. PICK t \in New : e \in t.entries
          BY <1>1, <4>1
        <5>2. t \in files'[0]
          BY <1>4
        <5> QED BY <5>1, <5>2, LevelsAre
      <4>2. ASSUME NEW l \in Levels, NEW t \in files[l], e \in t.entries
            PROVE  \E u \in files'[l] : e \in u.entries
        BY <1>4, <4>2
      <4> QED BY <2>2, <4>1, <4>2 DEF All
    <3> QED BY <3>1, <3>2 DEF All
  <2> QED BY <2>1, <2>2
<1>8. EntriesInv'
  BY <1>2, <1>7 DEF IInv, EntriesInv
<1>9. nextFileNumber \in Nat
      /\ \A u \in files[0] : u.num < nextFileNumber /\ u.num \in Nat
  BY <1>3, LevelsAre, TableFacts DEF IInv, TypeInv, NumbersInv, AreTables
<1>10. \A u \in New : u.num \in {nextFileNumber, nextFileNumber + 1}
  BY <1>1
<1>11. NumbersInv'
  <2>1. \A u \in files'[0] : u.num < nextFileNumber'
    BY <1>2, <1>4, <1>9, <1>10
  <2>2. ASSUME NEW u \in files'[0], NEW v \in files'[0], u.num = v.num PROVE u = v
    <3>1. CASE u \in files[0] /\ v \in files[0]
      BY <2>2, <3>1 DEF IInv, NumbersInv
    <3>2. CASE u \in New /\ v \in New
      BY <1>1, <2>2, <3>2
    <3> QED BY <1>4, <1>9, <1>10, <2>2, <3>1, <3>2
  <2> QED BY <2>1, <2>2 DEF NumbersInv
<1>12. SortedInv'
  <2>1. ASSUME NEW m \in Levels \ {0} PROVE Disjoint(files'[m])
    BY <1>4 DEF IInv, SortedInv
  <2> QED BY <2>1 DEF SortedInv
<1>13. NewerInv'
  <2>1. NewerIn(mem', imm')
    BY <1>2 DEF NewerIn
  <2>2. \A m \in Levels : \A u \in files'[m] :
           NewerIn(mem', u.entries) /\ NewerIn(imm', u.entries)
    BY <1>2 DEF NewerIn
  <2>3. \A m \in Levels : \A u \in New, v \in files[m] : NewerIn(u.entries, v.entries)
    BY <1>1 DEF IInv, NewerInv
  <2>4. ASSUME NEW a \in Levels, NEW b \in Levels, NEW u \in files'[a],
               NEW v \in files'[b], a < b
        PROVE  NewerIn(u.entries, v.entries)
    <3>1. v \in files[b]
      <4>1. a \in Nat /\ b \in Nat
        BY LevelsAre
      <4>2. b # 0
        BY <2>4, <4>1
      <4> QED BY <1>5, <4>2
    <3>2. CASE u \in files[a]
      BY <2>4, <3>1, <3>2 DEF IInv, NewerInv
    <3>3. CASE u \in New
      BY <2>3, <3>1, <3>3
    <3> QED BY <1>5, <3>2, <3>3
  <2>5. ASSUME NEW u \in files'[0], NEW v \in files'[0], u.num > v.num
        PROVE  NewerIn(u.entries, v.entries)
    <3>1. CASE u \in files[0] /\ v \in files[0]
      BY <2>5, <3>1 DEF IInv, NewerInv
    <3>2. CASE u \in New /\ v \in files[0]
      BY <2>3, <3>2, LevelsAre
    <3>3. CASE v \in New
      <4>1. u.num = nextFileNumber + 1 /\ v.num = nextFileNumber /\ u \in New
        BY <1>4, <1>9, <1>10, <2>5, <3>3
      <4>2. u.entries = mem /\ v.entries = imm
        BY <1>1, <1>9, <3>3, <4>1
      <4> QED BY <4>2 DEF IInv, NewerInv
    <3> QED BY <1>4, <3>1, <3>2, <3>3
  <2> QED BY <2>1, <2>2, <2>4, <2>5 DEF NewerInv
<1>14. SnapshotsAbove' /\ JobInv' /\ AutoInv' /\ OverlapOnlyByRange'
  BY <1>2 DEF SnapshotsAbove, JobInv, AutoInv, OverlapOnlyByRange
<1> QED BY <1>6, <1>7, <1>8, <1>11, <1>12, <1>13, <1>14 DEF IInv

\* The invariant reads nothing but the variables.
LEMMA StutterInv ==
  ASSUME IInv, UNCHANGED vars
  PROVE  IInv'
<1>1. TypeInv'
  BY DEF IInv, TypeInv, vars
<1>2. EntriesInv' /\ NewerInv'
  BY DEF IInv, EntriesInv, NewerInv, All, vars
<1>3. SnapshotsAbove'
  BY DEF IInv, SnapshotsAbove, Held, vars
<1>4. NumbersInv' /\ SortedInv' /\ JobInv' /\ AutoInv' /\ OverlapOnlyByRange'
  BY SameTables DEF vars
<1> QED BY <1>1, <1>2, <1>3, <1>4 DEF IInv

\* pickCompaction moves a table or starts a compaction.
LEMMA CompactInv ==
  ASSUME IInv, ~overlap, Compact
  PROVE  IInv'
<1>0. PICK l \in Levels \ {NumLevels - 1} : \E in \in Picked(l) :
       \/ /\ IsTrivialMove(in)
          /\ Apply([files EXCEPT ![l] = @ \ in[1], ![l + 1] = @ \cup in[1]])
          /\ UNCHANGED <<mem, imm, lastSequence, nextFileNumber, snapshot,
                         job, exposed, restarts>>
       \/ Start(l, in, FALSE)
  BY DEF Compact
<1>1. PICK in \in Picked(l) :
       \/ /\ IsTrivialMove(in)
          /\ Apply([files EXCEPT ![l] = @ \ in[1], ![l + 1] = @ \cup in[1]])
          /\ UNCHANGED <<mem, imm, lastSequence, nextFileNumber, snapshot,
                         job, exposed, restarts>>
       \/ Start(l, in, FALSE)
  BY <1>0
<1>2. job = NoJob /\ l \in Levels /\ l + 1 \in Levels
  BY LevelsAre DEF Compact
<1>3. GoodInputs(l, in)
  BY <1>2, LevelsOK, PickedGood DEF IInv
<1>4. CASE Start(l, in, FALSE)
  BY <1>2, <1>3, <1>4, StartInv
<1>5. CASE /\ IsTrivialMove(in)
           /\ Apply([files EXCEPT ![l] = @ \ in[1], ![l + 1] = @ \cup in[1]])
           /\ UNCHANGED <<mem, imm, lastSequence, nextFileNumber, snapshot,
                          job, exposed, restarts>>
  BY <1>2, <1>5, MoveInv
<1> QED BY <1>1, <1>4, <1>5

\* compactRange starts one, with inputs that need not be connected.
LEMMA CompactRangeInv ==
  ASSUME IInv, ~overlap, CompactRange
  PROVE  IInv'
<1>1. PICK l \in Levels \ {NumLevels - 1}, lo \in Keys, hi \in Keys :
         lo <= hi /\ \E in \in Ranged(l, lo, hi) : Start(l, in, TRUE)
  BY DEF CompactRange
<1>2. PICK in \in Ranged(l, lo, hi) : Start(l, in, TRUE)
  BY <1>1
<1>3. l \in Levels /\ l + 1 \in Levels
  BY LevelsAre
<1>4. GoodInputs(l, in)
  BY <1>1, <1>3, LevelsOK, RangedGood DEF IInv
<1> QED BY <1>2, <1>3, <1>4, StartInv

\* A compaction that fails has changed nothing.
LEMMA FailsInv ==
  ASSUME IInv, ~overlap, CompactionFails
  PROVE  IInv'
<1>1. /\ UNCHANGED <<mem, imm, files, lastSequence, nextFileNumber, snapshot, overlap,
                     exposed>>
      /\ job' = NoJob
  BY DEF CompactionFails
<1>2. TypeInv'
  BY <1>1 DEF IInv, TypeInv
<1>3. EntriesInv' /\ NewerInv'
  BY <1>1 DEF IInv, EntriesInv, NewerInv, All
<1>4. NumbersInv' /\ SortedInv'
  BY <1>1 DEF IInv, NumbersInv, SortedInv, Disjoint, Apart
<1>5. SnapshotsAbove' /\ JobInv' /\ AutoInv' /\ OverlapOnlyByRange'
  BY <1>1 DEF SnapshotsAbove, JobInv, AutoInv, OverlapOnlyByRange
<1> QED BY <1>2, <1>3, <1>4, <1>5 DEF IInv

\* Every step keeps the invariant.
LEMMA NextInv ==
  ASSUME IInv, [Next]_vars
  PROVE  IInv'
<1>1. ASSUME NEW k \in Keys, NEW type \in Types, Write(k, type) PROVE IInv'
  BY <1>1, WriteInv
<1>2. ASSUME NEW s \in Snapshots, TakeSnapshot(s) PROVE IInv'
  BY <1>2, TakeInv
<1>3. ASSUME NEW s \in Snapshots, ReleaseSnapshot(s) PROVE IInv'
  BY <1>3, ReleaseInv
<1>4. CASE Rotate
  BY <1>4, RotateInv
<1>5. CASE Flush
  BY <1>5, FlushInv
<1>6. CASE ~overlap /\ Compact
  BY <1>6, CompactInv
<1>7. CASE ~overlap /\ CompactRange
  BY <1>7, CompactRangeInv
<1>8. CASE Finish
  BY <1>8, FinishInv
<1>9. CASE ~overlap /\ Restart
  BY <1>9, RestartInv
<1>10. CASE ~overlap /\ CompactionFails
  BY <1>10, FailsInv
<1>11. CASE UNCHANGED vars
  BY <1>11, StutterInv
<1> QED BY <1>1, <1>2, <1>3, <1>4, <1>5, <1>6, <1>7, <1>8, <1>9, <1>10, <1>11 DEF Next

\* The invariant holds of every behaviour.
THEOREM Invariant == Spec => []IInv
<1>1. Init => IInv
  BY InitInv
<1>2. IInv /\ [Next]_vars => IInv'
  BY NextInv
<1> QED BY <1>1, <1>2, PTL DEF Spec

\* get() may stop at the first place that has a version of the key: no flush,
\* compaction, move or restart puts an older version above a newer one, for any
\* number of levels, keys and writes.
THEOREM NewerIsAbove == Spec => []NewerAbove
<1>1. IInv => NewerAbove
  <2> SUFFICES ASSUME IInv PROVE NewerAbove
    OBVIOUS
  <2>1. NewerInv
    BY DEF IInv
  <2>2. \A e \in mem, f \in imm : e.key = f.key => e.seq > f.seq
    BY <2>1 DEF NewerInv, NewerIn
  <2>3. \A l \in Levels : \A e \in mem \cup imm, f \in EntriesOf(files[l]) :
           e.key = f.key => e.seq > f.seq
    BY <2>1 DEF NewerInv, NewerIn, EntriesOf
  <2>4. \A l, m \in Levels : l < m =>
           \A e \in EntriesOf(files[l]), f \in EntriesOf(files[m]) :
             e.key = f.key => e.seq > f.seq
    BY <2>1 DEF NewerInv, NewerIn, EntriesOf
  <2>5. \A t, u \in files[0] : t.num > u.num =>
           \A e \in t.entries, f \in u.entries : e.key = f.key => e.seq > f.seq
    BY <2>1 DEF NewerInv, NewerIn
  <2> QED BY <2>2, <2>3, <2>4, <2>5 DEF NewerAbove
<1> QED BY <1>1, Invariant, PTL

\* Whatever snapshots are taken and released while a compaction runs, none that
\* is held is below the sequence number that it drops entries by.
THEOREM SnapshotsStayAbove == Spec => []SnapshotsAbove
<1>1. IInv => SnapshotsAbove
  BY DEF IInv
<1> QED BY <1>1, Invariant, PTL

\* A memtable flushed inside a compaction that pickCompaction chose never makes
\* the tables of a level overlap: only compactRange can.
THEOREM OverlapsOnlyByRange == Spec => []OverlapOnlyByRange
<1>1. IInv => OverlapOnlyByRange
  BY DEF IInv
<1> QED BY <1>1, Invariant, PTL

-----------------------------------------------------------------------------
(***************************************************************************)
(* get() answers the newest version that is anywhere.                      *)
(***************************************************************************)

Visible(k, s) == {e \in All : e.key = k /\ e.seq <= s}
Answer(k, s)  == {e.seq : e \in {v \in Newest(Visible(k, s)) : v.type = "value"}}

Places == -2..(NumLevels - 1)

\* The versions at a place that get() asks.
At(p, k, s) ==
  {e \in Visible(k, s) : \/ p = -2 /\ e \in mem
                         \/ p = -1 /\ e \in imm
                         \/ p >= 0 /\ \E t \in files[p] : e \in t.entries}

\* The memtables, and the levels.
LEMMA PlacesAre ==
  /\ \A p \in Places : p \in Int /\ (p = -2 \/ p = -1 \/ (p >= 0 /\ p \in Levels))
  /\ Levels \subseteq Places /\ -2 \in Places /\ -1 \in Places
BY LsmTreeAssumption DEF Places, Levels

\* A visible entry is an entry.
LEMMA VisibleAre ==
  ASSUME NEW k, NEW s, NEW e \in Visible(k, s)
  PROVE  e \in All /\ e \in Entry /\ e.key = k /\ e.seq <= s /\ e.key \in Nat /\ e.seq \in Nat
BY EntryTypes DEF Visible, All

\* Of two places the one asked first has the newer versions.
LEMMA FirstPlaceNewer ==
  ASSUME IInv, NEW k, NEW s, NEW p \in Places, NEW q \in Places, q < p,
         NEW o \in At(q, k, s), NEW e \in At(p, k, s)
  PROVE  o.seq > e.seq
<1>1. /\ p \in Int /\ (p = -2 \/ p = -1 \/ (p >= 0 /\ p \in Levels))
      /\ q \in Int /\ (q = -2 \/ q = -1 \/ (q >= 0 /\ q \in Levels))
  BY PlacesAre
<1>2. o.key = e.key
  BY VisibleAre DEF At
<1>3. CASE q = -2 /\ p = -1
  <2>1. o \in mem /\ e \in imm
    BY <1>3 DEF At
  <2> QED BY <1>2, <2>1 DEF IInv, NewerInv, NewerIn
<1>4. CASE q < 0 /\ p >= 0
  <2>1. o \in mem \/ o \in imm
    BY <1>1, <1>4 DEF At
  <2>2. PICK t \in files[p] : e \in t.entries
    BY <1>4 DEF At
  <2>3. NewerIn(mem, t.entries) /\ NewerIn(imm, t.entries)
    BY <1>1, <1>4 DEF IInv, NewerInv
  <2> QED BY <1>2, <2>1, <2>2, <2>3 DEF NewerIn
<1>5. CASE q >= 0 /\ p >= 0
  <2>1. PICK t \in files[p] : e \in t.entries
    BY <1>5 DEF At
  <2>2. PICK u \in files[q] : o \in u.entries
    BY <1>5 DEF At
  <2>3. p \in Levels /\ q \in Levels
    BY <1>1, <1>5
  <2>4. NewerIn(u.entries, t.entries)
    BY <2>3 DEF IInv, NewerInv
  <2> QED BY <1>2, <2>1, <2>2, <2>4 DEF NewerIn
<1> QED BY <1>1, <1>3, <1>4, <1>5

\* Level 0: the table with the highest number that has the key.
LEMMA FoundZero ==
  ASSUME IInv, NEW k \in Keys, NEW s \in Nat, NEW e \in At(0, k, s)
  PROVE  \E o \in Versions(EntriesOf(NewestTable(k, s)), k, s) : o.seq >= e.seq
<1> DEFINE hits == {t \in files[0] : Versions(t.entries, k, s) # {}}
           R == {p \in hits \X hits : p[1].num < p[2].num}
<1>1. AreTables(files[0]) /\ 0 \in Levels
  BY LevelsAre DEF IInv, TypeInv
<1>2. \A t \in files[0] : t.num \in Nat /\ t.entries \subseteq Entry
  BY <1>1, TableFacts DEF AreTables
<1>3. PICK u \in files[0] : e \in u.entries
  BY DEF At
<1>4. e \in Versions(u.entries, k, s) /\ e \in Entry
  BY <1>3, VisibleAre DEF At, Versions
<1>5. u \in hits
  BY <1>3, <1>4
<1>6. PICK t \in hits : \A v \in hits : <<t, v>> \notin R
  <2>1. IsFiniteSet(hits)
    <3>1. hits \in SUBSET files[0]
      OBVIOUS
    <3> HIDE DEF hits
    <3> QED BY <1>1, <3>1, FS_Subset DEF AreTables
  <2>2. \A v \in hits : v.num \in Nat
    BY <1>2
  <2> HIDE DEF hits
  <2>3. \A v \in hits : <<v, v>> \notin R
    BY <2>2
  <2>4. \A v, w, z \in hits : <<v, w>> \in R /\ <<w, z>> \in R => <<v, z>> \in R
    BY <2>2
  <2> HIDE DEF R
  <2> QED BY <1>5, <2>1, <2>3, <2>4, Extreme
<1>7. \A v \in hits : v.num <= t.num
  <2> SUFFICES ASSUME NEW v \in hits PROVE v.num <= t.num
    OBVIOUS
  <2>1. v.num \in Nat /\ t.num \in Nat
    BY <1>2
  <2> HIDE DEF hits
  <2>2. <<t, v>> \in hits \X hits
    OBVIOUS
  <2>3. ~(t.num < v.num)
    BY <1>6, <2>2
  <2> QED BY <2>1, <2>3
<1>8. t \in NewestTable(k, s)
  BY <1>7 DEF NewestTable
<1>9. \A o \in Versions(t.entries, k, s) : o \in Versions(EntriesOf(NewestTable(k, s)), k, s)
  BY <1>8 DEF Versions, EntriesOf
<1>10. CASE u = t
  <2>1. e.seq >= e.seq
    BY <1>4, EntryTypes
  <2> QED BY <1>4, <1>9, <1>10, <2>1
<1>11. CASE u # t
  <2>1. PICK o \in Versions(t.entries, k, s) : TRUE
    OBVIOUS
  <2>2. t \in files[0]
    OBVIOUS
  <2> HIDE DEF hits
  <2>3. t.num > u.num
    BY <1>2, <1>3, <1>5, <1>7, <1>11, <2>2 DEF IInv, NumbersInv
  <2>4. NewerIn(t.entries, u.entries)
    BY <1>3, <2>2, <2>3 DEF IInv, NewerInv
  <2>5. o \in t.entries /\ o.key = k /\ o \in Entry
    BY <1>2, <2>1, <2>2 DEF Versions
  <2>6. o.seq > e.seq
    BY <1>3, <1>4, <2>4, <2>5 DEF NewerIn, Versions
  <2>7. o.seq >= e.seq
    BY <1>4, <2>5, <2>6, EntryTypes
  <2> QED BY <1>9, <2>1, <2>7
<1> QED BY <1>10, <1>11

\* A deeper level: the first table that does not end before the version.
LEMMA FoundDeeper ==
  ASSUME IInv, NEW p \in Levels, p # 0, NEW k \in Keys, NEW s \in Nat,
         NEW e \in At(p, k, s)
  PROVE  \E o \in Versions(EntriesOf(FoundFile(p, k, s)), k, s) : o.seq >= e.seq
<1> DEFINE x == [key |-> k, seq |-> s]
           after == {t \in files[p] : ~Before(t.largest, x)}
           R == {q \in after \X after : Before(q[2].largest, q[1].largest)}
<1>0. k \in Nat /\ x.key = k /\ x.seq = s /\ p >= 0
  BY LsmTreeAssumption, LevelsAre
<1> HIDE DEF x
<1>1. AreTables(files[p]) /\ Disjoint(files[p])
  BY DEF IInv, TypeInv, SortedInv
<1>2. \A t \in files[p] : /\ IsTable(t) /\ t.largest \in Entry /\ t.smallest \in Entry
                          /\ t.largest \in t.entries /\ t.entries \subseteq Entry
                          /\ ~Before(t.largest, t.smallest)
                          /\ \A o \in t.entries :
                               ~Before(o, t.smallest) /\ ~Before(t.largest, o)
  BY <1>1, TableFacts DEF AreTables, IsTable
<1>3. PICK u \in files[p] : e \in u.entries
  BY <1>0 DEF At
<1>4. e \in Versions(u.entries, k, s) /\ e \in Entry /\ e.key = k /\ e.seq <= s
      /\ e.seq \in Nat
  BY <1>3, VisibleAre DEF At, Versions
<1>5. u \in after
  <2>1. ~Before(u.largest, e) /\ u.largest \in Entry
    BY <1>2, <1>3
  <2>2. ~Before(u.largest, x)
    BY <1>0, <1>4, <2>1, EntryTypes DEF Before
  <2> QED BY <2>2
<1>6. PICK t \in after : \A v \in after : <<t, v>> \notin R
  <2>1. IsFiniteSet(after)
    <3>1. after \in SUBSET files[p]
      OBVIOUS
    <3> HIDE DEF after
    <3> QED BY <1>1, <3>1, FS_Subset DEF AreTables
  <2>2. \A v \in after : v.largest \in Entry
    BY <1>2
  <2> HIDE DEF after
  <2>3. \A v \in after : <<v, v>> \notin R
    BY <2>2, Order
  <2>4. \A v, w, z \in after : <<v, w>> \in R /\ <<w, z>> \in R => <<v, z>> \in R
    BY <2>2, Order
  <2> HIDE DEF R
  <2> QED BY <1>5, <2>1, <2>3, <2>4, Extreme
<1>7. \A v \in after : ~Before(v.largest, t.largest)
  <2> SUFFICES ASSUME NEW v \in after PROVE ~Before(v.largest, t.largest)
    OBVIOUS
  <2> HIDE DEF after
  <2>1. <<t, v>> \in after \X after
    OBVIOUS
  <2> QED BY <1>6, <2>1
<1>8. t \in FoundFile(p, k, s)
  BY <1>7 DEF FoundFile, x
<1>9. \A o \in Versions(t.entries, k, s) : o \in Versions(EntriesOf(FoundFile(p, k, s)), k, s)
  BY <1>8 DEF Versions, EntriesOf
<1>10. t \in files[p] /\ ~Before(t.largest, x)
  OBVIOUS
<1>11. ~Before(u.largest, t.largest)
  BY <1>5, <1>7
<1> HIDE DEF after
<1>12. CASE u = t
  BY <1>4, <1>9, <1>12
<1>13. CASE u # t
  <2>1. Apart(t, u)
    BY <1>1, <1>3, <1>10, <1>13 DEF Disjoint
  <2>2. Before(t.largest, u.smallest)
    <3>1. ASSUME Before(u.largest, t.smallest) PROVE FALSE
      <4>1. Before(u.largest, t.largest)
        BY <1>2, <1>3, <1>10, <3>1, Order
      <4> QED BY <1>11, <4>1
    <3> QED BY <2>1, <3>1 DEF Apart
  <2>3. Before(t.largest, e)
    BY <1>2, <1>3, <1>4, <1>10, <2>2, Order
  <2>4. t.largest \in Entry
    BY <1>2, <1>10
  <2>5. t.largest.key = k /\ t.largest.seq <= s /\ t.largest.seq >= e.seq
    BY <1>0, <1>4, <1>10, <2>3, <2>4, EntryTypes DEF Before
  <2>6. t.largest \in Versions(t.entries, k, s)
    BY <1>2, <1>10, <2>5 DEF Versions
  <2> QED BY <1>9, <2>5, <2>6
<1> QED BY <1>12, <1>13

\* So at each place the version found is the newest one there.
LEMMA FoundIs ==
  ASSUME IInv, NEW k \in Keys, NEW s \in Nat, NEW p \in Places
  PROVE  /\ Found(p, k, s) \subseteq At(p, k, s)
         /\ \A e \in At(p, k, s) : \E o \in Found(p, k, s) : o.seq >= e.seq
<1>1. p \in Int /\ (p = -2 \/ p = -1 \/ (p >= 0 /\ p \in Levels))
  BY PlacesAre
<1>2. mem \subseteq Entry /\ imm \subseteq Entry
  BY DEF IInv, TypeInv
<1>3. \A e \in At(p, k, s) : e \in Entry /\ e.seq >= e.seq /\ e.key = k /\ e.seq <= s
  BY VisibleAre DEF At
<1>4. CASE p = -2
  <2>1. Found(p, k, s) = Versions(mem, k, s)
    BY <1>4 DEF Found
  <2>2. At(p, k, s) = Versions(mem, k, s)
    BY <1>2, <1>4 DEF At, Versions, Visible, All
  <2> QED BY <1>3, <2>1, <2>2
<1>5. CASE p = -1
  <2>1. Found(p, k, s) = Versions(imm, k, s)
    BY <1>5 DEF Found
  <2>2. At(p, k, s) = Versions(imm, k, s)
    BY <1>2, <1>5 DEF At, Versions, Visible, All
  <2> QED BY <1>3, <2>1, <2>2
<1>6. ASSUME p >= 0, p \in Levels, NEW T \in SUBSET files[p]
      PROVE  Versions(EntriesOf(T), k, s) \subseteq At(p, k, s)
  <2> SUFFICES ASSUME NEW e \in Versions(EntriesOf(T), k, s) PROVE e \in At(p, k, s)
    OBVIOUS
  <2>1. PICK t \in files[p] : e \in t.entries
    BY <1>6 DEF Versions, EntriesOf
  <2>2. e \in Entry
    BY <1>6, <2>1, TableFacts DEF IInv, TypeInv, AreTables
  <2>3. e \in Visible(k, s)
    BY <1>6, <2>1, <2>2 DEF Versions, Visible, All
  <2> QED BY <1>6, <2>1, <2>3 DEF At
<1>7. CASE p = 0
  <2>1. Found(p, k, s) = Versions(EntriesOf(NewestTable(k, s)), k, s)
    BY <1>7 DEF Found
  <2>2. NewestTable(k, s) \in SUBSET files[0]
    BY DEF NewestTable
  <2> QED BY <1>6, <1>7, <2>1, <2>2, FoundZero, LevelsAre
<1>8. CASE p > 0
  <2>1. Found(p, k, s) = Versions(EntriesOf(FoundFile(p, k, s)), k, s)
    BY <1>1, <1>8 DEF Found
  <2>2. FoundFile(p, k, s) \in SUBSET files[p]
    BY DEF FoundFile
  <2>3. p \in Levels /\ p # 0 /\ p >= 0
    BY <1>1, <1>8
  <2> QED BY <1>6, <2>1, <2>2, <2>3, FoundDeeper
<1> QED BY <1>1, <1>4, <1>5, <1>7, <1>8

\* get() answers the newest visible version, wherever it is.
LEMMA GetIs ==
  ASSUME IInv, NEW k \in Keys, NEW s \in Nat
  PROVE  Get(k, s) = Answer(k, s)
<1>1. \A e \in Visible(k, s) : \E p \in Places : e \in At(p, k, s)
  <2> SUFFICES ASSUME NEW e \in Visible(k, s) PROVE \E p \in Places : e \in At(p, k, s)
    OBVIOUS
  <2>1. e \in mem \/ e \in imm \/ \E l \in Levels : \E t \in files[l] : e \in t.entries
    BY DEF Visible, All
  <2>2. CASE e \in mem
    BY <2>2, PlacesAre DEF At
  <2>3. CASE e \in imm
    BY <2>3, PlacesAre DEF At
  <2>4. ASSUME NEW l \in Levels, NEW t \in files[l], e \in t.entries
        PROVE  \E p \in Places : e \in At(p, k, s)
    <3>1. l \in Places /\ l >= 0
      BY PlacesAre, LevelsAre
    <3>2. e \in At(l, k, s)
      BY <2>4, <3>1 DEF At
    <3> QED BY <3>1, <3>2
  <2> QED BY <2>1, <2>2, <2>3, <2>4
<1>2. \A p \in Places : At(p, k, s) \subseteq Visible(k, s)
  BY DEF At
<1>3. \A e \in Visible(k, s) : e \in All /\ e.seq \in Nat
  BY VisibleAre
<1>4. \A e, f \in Visible(k, s) : e.seq = f.seq => e = f
  BY <1>3 DEF IInv, EntriesInv
<1>5. \A p \in Places : p \in Int
  BY PlacesAre
<1>6. ASSUME NEW n \in Get(k, s) PROVE n \in Answer(k, s)
  <2>1. PICK p \in Places : \E v \in Newest(Found(p, k, s)) :
           /\ n = v.seq /\ v.type = "value"
           /\ \A q \in -2..(p - 1) : Found(q, k, s) = {}
    BY DEF Get, Places
  <2>2. PICK v \in Newest(Found(p, k, s)) :
           /\ n = v.seq /\ v.type = "value"
           /\ \A q \in -2..(p - 1) : Found(q, k, s) = {}
    BY <2>1
  <2>3. v \in Found(p, k, s) /\ \A o \in Found(p, k, s) : o.seq <= v.seq
    BY DEF Newest
  <2>4. v \in At(p, k, s) /\ v \in Visible(k, s)
    BY <1>2, <2>3, FoundIs
  <2>5. ASSUME NEW o \in Visible(k, s) PROVE o.seq <= v.seq
    <3>1. PICK q \in Places : o \in At(q, k, s)
      BY <1>1
    <3>2. CASE q < p
      <4>1. q \in -2..(p - 1)
        BY <1>5, <3>2 DEF Places
      <4>2. Found(q, k, s) # {}
        BY <3>1, FoundIs
      <4> QED BY <2>2, <4>1, <4>2
    <3>3. CASE q = p
      <4>1. PICK w \in Found(p, k, s) : w.seq >= o.seq
        BY <3>1, <3>3, FoundIs
      <4>2. w.seq <= v.seq /\ w \in Visible(k, s)
        BY <1>2, <2>3, <4>1, FoundIs
      <4> QED BY <1>3, <2>4, <4>1, <4>2
    <3>4. CASE q > p
      <4>1. v.seq > o.seq
        BY <1>5, <2>4, <3>1, <3>4, FirstPlaceNewer
      <4> QED BY <1>3, <2>4, <4>1
    <3> QED BY <1>5, <3>2, <3>3, <3>4
  <2>6. v \in Newest(Visible(k, s))
    BY <2>4, <2>5 DEF Newest
  <2> QED BY <2>2, <2>6 DEF Answer
<1>7. ASSUME NEW n \in Answer(k, s) PROVE n \in Get(k, s)
  <2>1. PICK v \in Newest(Visible(k, s)) : n = v.seq /\ v.type = "value"
    BY DEF Answer
  <2>2. v \in Visible(k, s) /\ \A o \in Visible(k, s) : o.seq <= v.seq
    BY DEF Newest
  <2>3. PICK p \in Places : v \in At(p, k, s)
    BY <1>1, <2>2
  <2>4. v \in Newest(Found(p, k, s))
    <3>1. PICK w \in Found(p, k, s) : w.seq >= v.seq
      BY <2>3, FoundIs
    <3>2. \A o \in Found(p, k, s) : o \in Visible(k, s)
      BY <1>2, FoundIs
    <3>3. w.seq = v.seq
      BY <1>3, <2>2, <3>1, <3>2
    <3>4. w = v
      BY <1>4, <2>2, <3>2, <3>3
    <3> QED BY <2>2, <3>1, <3>2, <3>4 DEF Newest
  <2>5. ASSUME NEW q \in -2..(p - 1) PROVE Found(q, k, s) = {}
    <3>1. q \in Places /\ q < p
      BY <1>5, LsmTreeAssumption DEF Places
    <3>2. ASSUME NEW o \in Found(q, k, s) PROVE FALSE
      <4>1. o \in At(q, k, s) /\ o \in Visible(k, s)
        BY <1>2, <3>1, FoundIs
      <4>2. o.seq > v.seq
        BY <2>3, <3>1, <4>1, FirstPlaceNewer
      <4> QED BY <1>3, <2>2, <4>1, <4>2
    <3> QED BY <3>2
  <2> QED BY <2>1, <2>4, <2>5 DEF Get, Places
<1> QED BY <1>6, <1>7

-----------------------------------------------------------------------------
(***************************************************************************)
(* The tree implements the map: what each step does to the answers.        *)
(***************************************************************************)

VisibleIn(A, k, s) == {e \in A : e.key = k /\ e.seq <= s}
AnswerIn(A, k, s)  ==
  {e.seq : e \in {v \in Newest(VisibleIn(A, k, s)) : v.type = "value"}}
AnswersIn(A, s) == [k \in Keys |-> AnswerIn(A, k, s)]

\* What get() answers, now and in the snapshots, by the entries alone.
Reading ==
  /\ [k \in Keys |-> Get(k, lastSequence)] = AnswersIn(All, lastSequence)
  /\ [s \in Held |-> [k \in Keys |-> Get(k, snapshot[s])]]
       = [s \in Held |-> AnswersIn(All, snapshot[s])]

\* What the invariant says of the numbers that reads ask for.
LEMMA HeldAre ==
  ASSUME IInv
  PROVE  /\ lastSequence \in Nat /\ All \subseteq Entry /\ Held \subseteq Snapshots
         /\ \A s \in Held : snapshot[s] \in Nat /\ snapshot[s] <= lastSequence
         /\ \A e \in All : e.seq \in Nat /\ e.seq <= lastSequence
<1>1. lastSequence \in Nat /\ \A s \in Held : snapshot[s] \in 0..lastSequence
  BY DEF IInv, TypeInv, Held
<1>2. \A e \in All : e \in Entry /\ e.seq \in Nat
  BY EntryTypes DEF All
<1>3. \A e \in All : e.seq <= lastSequence
  BY DEF IInv, EntriesInv
<1> QED BY <1>1, <1>2, <1>3 DEF Held

\* GetIs, for all keys, now and in the snapshots,
LEMMA ReadingIs == IInv => Reading
<1> SUFFICES ASSUME IInv PROVE Reading
  OBVIOUS
<1>1. ASSUME NEW k \in Keys, NEW s \in Nat PROVE Get(k, s) = AnswerIn(All, k, s)
  <2>1. Answer(k, s) = AnswerIn(All, k, s)
    BY DEF Answer, AnswerIn, Visible, VisibleIn
  <2> QED BY <2>1, GetIs
<1>2. [k \in Keys |-> Get(k, lastSequence)] = AnswersIn(All, lastSequence)
  BY <1>1, HeldAre DEF AnswersIn
<1>3. \A s \in Held : [k \in Keys |-> Get(k, snapshot[s])] = AnswersIn(All, snapshot[s])
  BY <1>1, HeldAre DEF AnswersIn
<1> QED BY <1>2, <1>3 DEF Reading

\* and after a step.
LEMMA ReadingNext == IInv' => Reading'
BY ReadingIs, PTL

\* Of the versions that are visible one is the newest.
LEMMA NewestExists ==
  ASSUME NEW A \in SUBSET Entry, NEW k, NEW s \in Nat, NEW e \in VisibleIn(A, k, s)
  PROVE  \E v \in Newest(VisibleIn(A, k, s)) : v.seq >= e.seq
<1> DEFINE V == VisibleIn(A, k, s)
           N == {v.seq : v \in V}
<1>1. \A v \in V : v.seq \in Nat /\ v.seq <= s
  BY EntryTypes DEF VisibleIn
<1> HIDE DEF V
<1>2. N \in SUBSET (0..s) /\ N \in SUBSET Nat /\ e.seq \in N
  BY <1>1 DEF V
<1>3. IsFiniteSet(N)
  <2>1. IsFiniteSet(0..s)
    BY FS_Interval
  <2> HIDE DEF N
  <2> QED BY <1>2, <2>1, FS_Subset
<1>4. Max(N) \in N /\ \A n \in N : n <= Max(N)
  <2> HIDE DEF N
  <2> QED BY <1>2, <1>3, MaxIs
<1>5. PICK v \in V : v.seq = Max(N)
  BY <1>4
<1>6. \A o \in V : o.seq <= v.seq
  BY <1>4, <1>5
<1>7. v.seq >= e.seq
  BY <1>1, <1>6 DEF V
<1> QED BY <1>6, <1>7 DEF Newest, V

\* Entries may be dropped when the newest visible one stays, or is a deletion
\* that leaves nothing behind it.
LEMMA AnswerKept ==
  ASSUME NEW A \in SUBSET Entry, NEW B \in SUBSET A, NEW k, NEW s \in Nat,
         \A v \in Newest(VisibleIn(A, k, s)) :
           v \in B \/ (v.type = "deletion" /\ VisibleIn(B, k, s) = {})
  PROVE  AnswerIn(B, k, s) = AnswerIn(A, k, s)
<1>1. VisibleIn(B, k, s) \subseteq VisibleIn(A, k, s)
  BY DEF VisibleIn
<1>2. \A v \in VisibleIn(A, k, s) : v.seq \in Nat
  BY EntryTypes DEF VisibleIn
<1>3. ASSUME NEW v \in Newest(VisibleIn(A, k, s)), v.type = "value"
      PROVE  v \in Newest(VisibleIn(B, k, s))
  <2>1. v \in B
    BY <1>3
  <2>2. v \in VisibleIn(B, k, s)
    BY <2>1 DEF Newest, VisibleIn
  <2> QED BY <1>1, <2>2 DEF Newest
<1>4. ASSUME NEW v \in Newest(VisibleIn(B, k, s))
      PROVE  v \in Newest(VisibleIn(A, k, s))
  <2>1. v \in VisibleIn(B, k, s) /\ v \in VisibleIn(A, k, s)
    BY <1>1 DEF Newest
  <2>2. ASSUME NEW o \in VisibleIn(A, k, s) PROVE o.seq <= v.seq
    <3>1. PICK m \in Newest(VisibleIn(A, k, s)) : m.seq >= o.seq
      BY NewestExists
    <3>2. m \in B
      BY <2>1
    <3>3. m \in VisibleIn(A, k, s)
      BY DEF Newest
    <3>4. m \in VisibleIn(B, k, s)
      BY <3>2, <3>3 DEF VisibleIn
    <3>5. m.seq <= v.seq
      BY <3>4 DEF Newest
    <3> QED BY <1>2, <2>1, <3>1, <3>3, <3>5
  <2> QED BY <2>1, <2>2 DEF Newest
<1> QED BY <1>3, <1>4 DEF AnswerIn

\* A step that keeps the entries and the snapshots changes nothing for the map.
LEMMA SameMap ==
  ASSUME Reading, Reading', All' = All, lastSequence' = lastSequence,
         snapshot' = snapshot
  PROVE  UNCHANGED (Map!vars)
<1>1. Held' = Held
  BY DEF Held
<1>2. [k \in Keys |-> Get(k, lastSequence)]' = [k \in Keys |-> Get(k, lastSequence)]
  BY DEF Reading
<1>3. [s \in Held |-> [k \in Keys |-> Get(k, snapshot[s])]]'
        = [s \in Held |-> [k \in Keys |-> Get(k, snapshot[s])]]
  BY <1>1 DEF Reading
<1> QED BY <1>1, <1>2, <1>3 DEF Map!vars

\* A write puts or deletes its key, and no snapshot sees it.
LEMMA WriteMap ==
  ASSUME IInv, Reading, Reading', NEW k \in Keys, NEW type \in Types, Write(k, type)
  PROVE  Map!Next
<1> DEFINE n == [key |-> k, seq |-> lastSequence + 1, type |-> type]
           value == IF type = "value" THEN {lastSequence + 1} ELSE {}
<1>1. /\ lastSequence' = lastSequence + 1 /\ snapshot' = snapshot
      /\ mem' = mem \cup {n} /\ imm' = imm /\ files' = files
      /\ lastSequence < MaxSequence
  BY DEF Write
<1>2. /\ lastSequence \in Nat /\ All \subseteq Entry
      /\ \A s \in Held : snapshot[s] \in Nat /\ snapshot[s] <= lastSequence
      /\ \A e \in All : e.seq \in Nat /\ e.seq <= lastSequence
  BY HeldAre
<1>3. n \in Entry /\ n.key = k /\ n.seq = lastSequence + 1 /\ n.type = type
  <2>1. MaxSequence \in Nat
    BY SequenceBound
  <2>2. lastSequence + 1 \in 1..MaxSequence
    BY <1>1, <1>2, <2>1
  <2> QED BY <2>2 DEF Entry
<1> HIDE DEF n
<1>4. All' = All \cup {n}
  BY <1>1, <1>3 DEF All
<1>5. ASSUME NEW j \in Keys, NEW s \in Nat, s <= lastSequence
      PROVE  AnswerIn(All', j, s) = AnswerIn(All, j, s)
  <2>1. VisibleIn(All', j, s) = VisibleIn(All, j, s)
    <3>1. ~(n.seq <= s)
      BY <1>2, <1>3, <1>5
    <3> QED BY <1>4, <3>1 DEF VisibleIn
  <2> QED BY <2>1 DEF AnswerIn
<1>6. ASSUME NEW j \in Keys, j # k
      PROVE  AnswerIn(All', j, lastSequence') = AnswerIn(All, j, lastSequence)
  <2>1. VisibleIn(All', j, lastSequence') = VisibleIn(All, j, lastSequence)
    BY <1>1, <1>2, <1>3, <1>4, <1>6 DEF VisibleIn
  <2> QED BY <2>1 DEF AnswerIn
<1>7. AnswerIn(All', k, lastSequence') = value
  <2> DEFINE V == VisibleIn(All', k, lastSequence')
  <2>1. n \in V /\ \A e \in V : e = n \/ (e.seq \in Nat /\ e.seq <= lastSequence)
    BY <1>1, <1>2, <1>3, <1>4 DEF VisibleIn
  <2> HIDE DEF V
  <2>2. Newest(V) = {n}
    <3>1. \A e \in V : e.seq <= n.seq
      BY <1>2, <1>3, <2>1
    <3>2. \A e \in V : e # n => ~(n.seq <= e.seq)
      BY <1>2, <1>3, <2>1
    <3> QED BY <2>1, <3>1, <3>2 DEF Newest
  <2>3. AnswerIn(All', k, lastSequence') = {e.seq : e \in {v \in {n} : v.type = "value"}}
    BY <2>2 DEF AnswerIn, V
  <2> QED BY <1>3, <2>3
<1> HIDE DEF value
<1>8. Held' = Held
  BY <1>1 DEF Held
<1>9. [j \in Keys |-> Get(j, lastSequence)]'
        = [[j \in Keys |-> Get(j, lastSequence)] EXCEPT ![k] = value]
  <2>1. AnswersIn(All', lastSequence') = [AnswersIn(All, lastSequence) EXCEPT ![k] = value]
    BY <1>6, <1>7 DEF AnswersIn
  <2> QED BY <2>1 DEF Reading
<1>10. [s \in Held |-> [j \in Keys |-> Get(j, snapshot[s])]]'
        = [s \in Held |-> [j \in Keys |-> Get(j, snapshot[s])]]
  <2>1. ASSUME NEW s \in Held PROVE AnswersIn(All', snapshot'[s]) = AnswersIn(All, snapshot[s])
    BY <1>1, <1>2, <1>5 DEF AnswersIn
  <2>2. [s \in Held' |-> AnswersIn(All', snapshot'[s])] = [s \in Held |-> AnswersIn(All, snapshot[s])]
    BY <1>8, <2>1
  <2> QED BY <2>2 DEF Reading
<1>11. CASE type = "value"
  <2>1. value = {lastSequence + 1}
    BY <1>11 DEF value
  <2>2. Map!Put(k)
    BY <1>1, <1>8, <1>9, <1>10, <2>1 DEF Map!Put, Map!Set
  <2> QED BY <2>2 DEF Map!Next
<1>12. CASE type # "value"
  <2>1. value = {}
    BY <1>12 DEF value
  <2>2. Map!Delete(k)
    BY <1>1, <1>8, <1>9, <1>10, <2>1 DEF Map!Delete, Map!Set
  <2> QED BY <2>2 DEF Map!Next
<1> QED BY <1>11, <1>12

\* A snapshot sees what get() answers now.
LEMMA TakeMap ==
  ASSUME IInv, Reading, Reading', NEW s \in Snapshots, TakeSnapshot(s)
  PROVE  Map!Next
<1>1. /\ snapshot[s] = NoSnapshot /\ snapshot' = [snapshot EXCEPT ![s] = lastSequence]
      /\ lastSequence' = lastSequence /\ mem' = mem /\ imm' = imm /\ files' = files
  BY DEF TakeSnapshot
<1>2. DOMAIN snapshot = Snapshots /\ lastSequence # NoSnapshot
  BY LsmTreeAssumption, HeldAre DEF IInv, TypeInv
<1>3. All' = All
  BY <1>1 DEF All
<1>4. s \notin Held /\ Held' = Held \cup {s} /\ snapshot'[s] = lastSequence
      /\ \A t \in Held : snapshot'[t] = snapshot[t]
  BY <1>1, <1>2 DEF Held
<1> DEFINE latest == [k \in Keys |-> Get(k, lastSequence)]
           view == [t \in Held |-> [k \in Keys |-> Get(k, snapshot[t])]]
<1>5. latest' = latest
  BY <1>1, <1>3 DEF Reading
<1>6. latest = AnswersIn(All, lastSequence)
  BY DEF Reading
<1>7. view' = [t \in Held' |-> AnswersIn(All', snapshot'[t])]
  BY DEF Reading
<1>8. \A t \in Held : view[t] = AnswersIn(All, snapshot[t])
  <2>1. view = [t \in Held |-> AnswersIn(All, snapshot[t])]
    BY DEF Reading
  <2> HIDE DEF view
  <2> QED BY <2>1
<1>9. view' = [t \in Held \cup {s} |-> IF t = s THEN latest ELSE view[t]]
  <2> DEFINE a == [t \in Held \cup {s} |-> IF t = s THEN latest ELSE view[t]]
             b == [t \in Held \cup {s} |-> AnswersIn(All', snapshot'[t])]
  <2>1. \A t \in Held \cup {s} :
          AnswersIn(All', snapshot'[t]) = IF t = s THEN latest ELSE view[t]
    <3> HIDE DEF latest, view
    <3> QED BY <1>3, <1>4, <1>6, <1>8
  <2>2. a = b
    <3> HIDE DEF latest, view
    <3> QED BY <2>1
  <2> QED BY <1>4, <1>7, <2>2
<1>10. Map!Take(s)
  BY <1>1, <1>4, <1>5, <1>9 DEF Map!Take
<1> QED BY <1>10 DEF Map!Next

\* Releasing snapshots, one or all of them, takes their views away.
LEMMA FewerHeld ==
  ASSUME IInv, Reading, Reading', NEW S \in SUBSET Held, S # {},
         Held' = Held \ S, \A t \in Held \ S : snapshot'[t] = snapshot[t],
         All' = All, lastSequence' = lastSequence
  PROVE  Map!Next
<1> DEFINE latest == [k \in Keys |-> Get(k, lastSequence)]
           view == [t \in Held |-> [k \in Keys |-> Get(k, snapshot[t])]]
<1>1. latest' = latest
  BY DEF Reading
<1>2. view' = [t \in Held' |-> AnswersIn(All', snapshot'[t])]
  BY DEF Reading
<1>3. \A t \in Held : view[t] = AnswersIn(All, snapshot[t])
  <2>1. view = [t \in Held |-> AnswersIn(All, snapshot[t])]
    BY DEF Reading
  <2> HIDE DEF view
  <2> QED BY <2>1
<1>4. view' = [t \in Held \ S |-> view[t]]
  <2> DEFINE a == [t \in Held \ S |-> view[t]]
             b == [t \in Held \ S |-> AnswersIn(All', snapshot'[t])]
  <2>1. a = b
    <3> HIDE DEF view
    <3> QED BY <1>3
  <2> QED BY <1>2, <2>1
<1>5. S \in SUBSET Snapshots
  BY HeldAre
<1>6. Map!Release(S)
  BY <1>1, <1>4 DEF Map!Release
<1> QED BY <1>5, <1>6 DEF Map!Next

\* A snapshot is released.
LEMMA ReleaseMap ==
  ASSUME IInv, Reading, Reading', NEW s \in Snapshots, ReleaseSnapshot(s)
  PROVE  Map!Next
<1>1. /\ snapshot[s] # NoSnapshot /\ snapshot' = [snapshot EXCEPT ![s] = NoSnapshot]
      /\ lastSequence' = lastSequence /\ mem' = mem /\ imm' = imm /\ files' = files
  BY DEF ReleaseSnapshot
<1>2. DOMAIN snapshot = Snapshots
  BY DEF IInv, TypeInv
<1>3. All' = All
  BY <1>1 DEF All
<1>4. s \in Held /\ Held' = Held \ {s} /\ \A t \in Held \ {s} : snapshot'[t] = snapshot[t]
  BY <1>1, <1>2 DEF Held
<1>5. {s} \in SUBSET Held /\ {s} # {}
  BY <1>4
<1> QED BY <1>1, <1>3, <1>4, <1>5, FewerHeld

\* A restart keeps the entries and releases every snapshot.
LEMMA RestartMap ==
  ASSUME IInv, Reading, Reading', ~overlap, Restart
  PROVE  Map!Next \/ UNCHANGED (Map!vars)
<1>1. All' = All
  BY RestartInv
<1>2. /\ lastSequence' = lastSequence
      /\ snapshot' = [s \in Snapshots |-> NoSnapshot]
  BY DEF Restart
<1>3. Held' = {}
  BY <1>2 DEF Held
<1>4. CASE Held # {}
  <2>1. Held \in SUBSET Held /\ Held' = Held \ Held
    BY <1>3
  <2> QED BY <1>1, <1>2, <1>4, <2>1, FewerHeld
<1>5. CASE Held = {}
  <2>1. [k \in Keys |-> Get(k, lastSequence)]' = [k \in Keys |-> Get(k, lastSequence)]
    BY <1>1, <1>2 DEF Reading
  <2>2. [s \in Held |-> [k \in Keys |-> Get(k, snapshot[s])]]'
          = [s \in Held |-> [k \in Keys |-> Get(k, snapshot[s])]]
    BY <1>3, <1>5 DEF Reading
  <2> QED BY <1>2, <1>3, <1>5, <2>1, <2>2 DEF Map!vars
<1> QED BY <1>4, <1>5

\* What a flush writes was in the immutable memtable.
LEMMA FlushMap ==
  ASSUME IInv, Reading, Reading', Flush
  PROVE  UNCHANGED (Map!vars)
<1>0. PICK l \in Levels : \E t :
         /\ IsTable(t) /\ t.entries = imm
         /\ files' = [files EXCEPT ![l] = @ \cup {t}]
  BY FlushIs
<1>1. PICK t :
         /\ IsTable(t) /\ t.entries = imm
         /\ files' = [files EXCEPT ![l] = @ \cup {t}]
  BY <1>0
<1>2. imm' = {} /\ mem' = mem /\ lastSequence' = lastSequence /\ snapshot' = snapshot
  BY FlushIs
<1>3. DOMAIN files = Levels
  BY DEF IInv, TypeInv
<1>4. files'[l] = files[l] \cup {t} /\ \A m \in Levels : m # l => files'[m] = files[m]
  BY <1>1, <1>3
<1>5. All' = All
  <2>1. ASSUME NEW e \in All' PROVE e \in All
    BY <1>1, <1>2, <1>4, <2>1 DEF All
  <2>2. ASSUME NEW e \in All PROVE e \in All'
    <3>1. CASE e \in imm
      <4>1. t \in files'[l] /\ e \in t.entries /\ e \in Entry
        BY <1>1, <1>4, <3>1 DEF All
      <4> QED BY <4>1 DEF All
    <3>2. CASE e \in mem
      BY <1>2, <3>2 DEF All
    <3>3. ASSUME NEW m \in Levels, NEW u \in files[m], e \in u.entries PROVE e \in All'
      <4>1. u \in files'[m] /\ e \in Entry
        BY <1>4 DEF All
      <4> QED BY <3>3, <4>1 DEF All
    <3> QED BY <3>1, <3>2, <3>3 DEF All
  <2> QED BY <2>1, <2>2
<1> QED BY <1>2, <1>5, SameMap

\* The memtable is asked at its new place.
LEMMA RotateMap ==
  ASSUME IInv, Reading, Reading', Rotate
  PROVE  UNCHANGED (Map!vars)
<1>1. /\ imm = {} /\ imm' = mem /\ mem' = {} /\ files' = files
      /\ lastSequence' = lastSequence /\ snapshot' = snapshot
  BY DEF Rotate
<1>2. All' = All
  BY <1>1 DEF All
<1> QED BY <1>1, <1>2, SameMap

\* To start a compaction changes no table.
LEMMA StartMap ==
  ASSUME Reading, Reading', NEW l, NEW in, NEW manual, Start(l, in, manual)
  PROVE  UNCHANGED (Map!vars)
<1>1. /\ mem' = mem /\ imm' = imm /\ files' = files
      /\ lastSequence' = lastSequence /\ snapshot' = snapshot
  BY DEF Start
<1>2. All' = All
  BY <1>1 DEF All
<1> QED BY <1>1, <1>2, SameMap

\* A trivial move keeps the entries.
LEMMA CompactMap ==
  ASSUME IInv, Reading, Reading', ~overlap, Compact
  PROVE  UNCHANGED (Map!vars)
<1>1. PICK l \in Levels \ {NumLevels - 1} : \E in \in Picked(l) :
       \/ /\ IsTrivialMove(in)
          /\ Apply([files EXCEPT ![l] = @ \ in[1], ![l + 1] = @ \cup in[1]])
          /\ UNCHANGED <<mem, imm, lastSequence, nextFileNumber, snapshot,
                         job, exposed, restarts>>
       \/ Start(l, in, FALSE)
  BY DEF Compact
<1>2. PICK in \in Picked(l) :
       \/ /\ IsTrivialMove(in)
          /\ Apply([files EXCEPT ![l] = @ \ in[1], ![l + 1] = @ \cup in[1]])
          /\ UNCHANGED <<mem, imm, lastSequence, nextFileNumber, snapshot,
                         job, exposed, restarts>>
       \/ Start(l, in, FALSE)
  BY <1>1
<1>3. job = NoJob /\ l \in Levels /\ l + 1 \in Levels
  BY LevelsAre DEF Compact
<1>4. CASE Start(l, in, FALSE)
  BY <1>4, StartMap
<1>5. CASE /\ IsTrivialMove(in)
           /\ Apply([files EXCEPT ![l] = @ \ in[1], ![l + 1] = @ \cup in[1]])
           /\ UNCHANGED <<mem, imm, lastSequence, nextFileNumber, snapshot,
                          job, exposed, restarts>>
  <2>1. All' = All
    BY <1>3, <1>5, MoveInv
  <2> QED BY <1>5, <2>1, SameMap
<1> QED BY <1>2, <1>4, <1>5

\* Every entry that is kept is in one of the outputs.
LEMMA OutputsCover ==
  ASSUME IInv, job # NoJob, NEW S \in SUBSET JobEntries, NEW C \in SUBSET S,
         S # {} => Last(S) \in C, NEW e \in S
  PROVE  \E o \in Outputs(S, C) : e \in o.entries
<1>1. /\ JobEntries \subseteq Entry /\ IsFiniteSet(JobEntries) /\ nextFileNumber \in Nat
  BY JobEntriesAre DEF IInv, TypeInv
<1>2. /\ S \subseteq Entry /\ IsFiniteSet(S) /\ C \subseteq Entry /\ IsFiniteSet(C)
  BY <1>1, FS_Subset
<1>3. Last(S) \in C /\ ~Before(Last(S), e)
  BY <1>2, LastIs
<1> DEFINE D == {c \in C : ~Before(c, e)}
<1>4. D \in SUBSET C /\ D \in SUBSET Entry /\ D # {}
  BY <1>2, <1>3
<1>5. IsFiniteSet(D)
  <2> HIDE DEF D
  <2> QED BY <1>2, <1>4, FS_Subset
<1>6. First(D) \in D /\ \A o \in D : ~Before(o, First(D))
  <2> HIDE DEF D
  <2> QED BY <1>4, <1>5, FirstIs
<1>7. PICK c \in C : ~Before(c, e) /\ \A d \in C : ~Before(d, e) => ~Before(d, c)
  BY <1>6
<1> HIDE DEF D
<1>8. e \in Output(S, C, c)
  BY <1>7 DEF Output
<1> DEFINE n == nextFileNumber + Cardinality({d \in C : Before(d, c)})
           B == {d \in C : Before(d, c)}
           O == Output(S, C, c)
<1>9. n \in Nat
  <2>1. B \in SUBSET C
    OBVIOUS
  <2> HIDE DEF B
  <2>2. Cardinality(B) \in Nat
    BY <1>2, <2>1, FS_Subset, FS_CardinalityType
  <2> QED BY <1>1, <2>2 DEF B
<1>10. O \in SUBSET S /\ O \in SUBSET Entry /\ O # {}
  BY <1>2, <1>8 DEF Output
<1>11. IsFiniteSet(O)
  <2> HIDE DEF O
  <2> QED BY <1>2, <1>10, FS_Subset
<1>12. Table(n, O) \in Outputs(S, C)
  BY DEF Outputs
<1>13. Table(n, O).entries = O
  BY DEF Table
<1> QED BY <1>8, <1>12, <1>13

\* A compaction drops what nobody can see: an entry below a newer one that every
\* snapshot sees too, and, unless Exposes, a deletion with nothing behind it.
LEMMA FinishAnswers ==
  ASSUME IInv, Finish, overlap' = FALSE, ~Exposes,
         NEW k \in Keys, NEW s \in Nat, job.smallestSnapshot <= s
  PROVE  AnswerIn(All', k, s) = AnswerIn(All, k, s)
<1> DEFINE l == job.level
           J == JobEntries
           S == Kept(JobEntries)
<1>1. job # NoJob /\ UNCHANGED <<mem, imm>>
  BY FinishIs
<1>2. PICK C \in SUBSET S :
         /\ S # {} => Last(S) \in C
         /\ files' = [files EXCEPT ![job.level] = @ \ job.in[1],
                        ![job.level + 1] = (@ \ job.in[2]) \cup Outputs(S, C)]
  BY FinishIs
<1>3. /\ files'[l] = files[l] \ job.in[1]
      /\ files'[l + 1] = (files[l + 1] \ job.in[2]) \cup Outputs(S, C)
      /\ \A m \in Levels : m # l /\ m # l + 1 => files'[m] = files[m]
      /\ \A o \in Outputs(S, C) : o.entries \subseteq S
  BY <1>1, <1>2, FinishTables
<1>4. /\ l \in Levels /\ l + 1 \in Levels /\ l \in Nat
      /\ job.in[1] \subseteq files[l] /\ job.in[2] \subseteq files[l + 1]
      /\ \A u \in files[l] \ job.in[1], v \in job.in[1] : NewerIn(u.entries, v.entries)
      /\ \A d \in Levels : d >= l + 2 =>
           \A t \in files[d] : \A e \in t.entries, x \in J :
             e.key = x.key => e.key \in job.deeper
      /\ job.smallestSnapshot \in Nat
  BY <1>1, LevelsAre DEF IInv, JobInv
<1>5. /\ J \subseteq Entry /\ J \subseteq All
      /\ \A x : x \in J <=> \E v \in job.in[1] \cup job.in[2] : x \in v.entries
      /\ S \subseteq J
  BY <1>1, JobEntriesAre, JobTablesAre DEF JobTables, Kept
<1>6. \A e \in S : e \in J /\ ~HiddenByNewer(e, J) /\ ~ObsoleteDeletion(e)
  BY DEF Kept
<1>7. \A e \in J : ~HiddenByNewer(e, J) /\ ~ObsoleteDeletion(e) => e \in S
  BY DEF Kept
<1>8. \A e \in S : \E o \in Outputs(S, C) : e \in o.entries
  <2> HIDE DEF S
  <2> QED BY <1>1, <1>2, <1>5, OutputsCover
<1> HIDE DEF S, J, l
<1>9. \A e \in All : e \in Entry /\ e.seq \in Nat
  BY HeldAre DEF IInv
<1>10. All' \subseteq All
  <2> SUFFICES ASSUME NEW e \in All' PROVE e \in All
    OBVIOUS
  <2>1. e \in Entry /\ (e \in mem \/ e \in imm
                        \/ \E m \in Levels : \E t \in files'[m] : e \in t.entries)
    BY <1>1 DEF All
  <2>2. ASSUME NEW m \in Levels, NEW t \in files'[m], e \in t.entries PROVE e \in All
    <3>1. t \in files[m] \/ t \in Outputs(S, C)
      BY <1>3
    <3>2. CASE t \in files[m]
      BY <2>1, <2>2, <3>2 DEF All
    <3>3. CASE t \in Outputs(S, C)
      BY <1>3, <1>5, <2>2, <3>3
    <3> QED BY <3>1, <3>2, <3>3
  <2> QED BY <2>1, <2>2 DEF All
\* What is not an input stays, and so does what is kept.
<1>11. ASSUME NEW e \in All, e \notin J PROVE e \in All'
  <2>1. e \in Entry /\ (e \in mem \/ e \in imm
                        \/ \E m \in Levels : \E t \in files[m] : e \in t.entries)
    BY DEF All
  <2>2. ASSUME NEW m \in Levels, NEW t \in files[m], e \in t.entries PROVE e \in All'
    <3>1. t \notin job.in[1] \cup job.in[2]
      BY <1>5, <1>11, <2>2
    <3>2. t \in files'[m]
      BY <1>3, <3>1
    <3> QED BY <2>1, <2>2, <3>2 DEF All
  <2> QED BY <1>1, <2>1, <2>2 DEF All
<1>12. ASSUME NEW e \in S PROVE e \in All'
  <2>1. PICK o \in Outputs(S, C) : e \in o.entries
    BY <1>8
  <2>2. o \in files'[l + 1] /\ e \in Entry
    BY <1>3, <1>5
  <2> QED BY <1>4, <2>1, <2>2 DEF All
\* The newest visible version v is dropped only as an obsolete deletion.
<1>13. ASSUME NEW v \in Newest(VisibleIn(All, k, s)), v \notin All'
       PROVE  v.type = "deletion" /\ VisibleIn(All', k, s) = {}
  <2>1. /\ v \in All /\ v.key = k /\ v.seq <= s
        /\ \A o \in All : o.key = k /\ o.seq <= s => o.seq <= v.seq
    BY DEF Newest, VisibleIn
  <2>2. v \in J /\ v \notin S
    BY <1>11, <1>12, <1>13, <2>1
  <2>3. ~HiddenByNewer(v, J)
    <3> SUFFICES ASSUME NEW n \in J, n.key = v.key, n.seq > v.seq,
                        n.seq <= job.smallestSnapshot
                 PROVE  FALSE
      BY DEF HiddenByNewer
    <3>1. n \in All /\ n.seq \in Nat /\ v.seq \in Nat
      BY <1>5, <1>9, <2>1
    <3>2. n.seq <= s
      BY <1>4, <3>1
    <3> QED BY <2>1, <3>1, <3>2
  <2>4. ObsoleteDeletion(v)
    BY <1>7, <2>2, <2>3
  <2>5. /\ v.type = "deletion" /\ v.seq <= job.smallestSnapshot
        /\ v.key \notin job.deeper
    BY <2>4 DEF ObsoleteDeletion
  <2>6. PICK w \in job.in[1] \cup job.in[2] : v \in w.entries
    BY <1>5, <2>2
  <2>7. ASSUME NEW o \in VisibleIn(All', k, s) PROVE FALSE
    <3>1. o \in All' /\ o \in All /\ o.key = v.key /\ o.seq <= v.seq /\ o # v
          /\ o.seq \in Nat /\ v.seq \in Nat
      BY <1>9, <1>10, <1>13, <2>1 DEF VisibleIn
    <3>2. o.seq < v.seq
      <4>1. o.seq # v.seq
        BY <2>1, <3>1 DEF IInv, EntriesInv
      <4> QED BY <3>1, <4>1
    <3>3. \A T : NewerIn(T, w.entries) => o \notin T
      <4> SUFFICES ASSUME NEW T, NewerIn(T, w.entries), o \in T PROVE FALSE
        OBVIOUS
      <4>1. o.seq > v.seq
        BY <2>6, <3>1 DEF NewerIn
      <4> QED BY <3>1, <3>2, <4>1
    <3>4. PICK m \in Levels : w \in files[m] /\ (m = l \/ m = l + 1)
                              /\ (w \notin job.in[1] => m = l + 1)
      <4>1. CASE w \in job.in[1]
        BY <1>4, <4>1
      <4>2. CASE w \notin job.in[1]
        <5>1. w \in job.in[2]
          BY <2>6, <4>2
        <5> QED BY <1>4, <4>2, <5>1
      <4> QED BY <4>1, <4>2
    <3>5. o \notin mem /\ o \notin imm
      BY <3>3, <3>4 DEF IInv, NewerInv
    <3>6. PICK d \in Levels : \E t \in files'[d] : o \in t.entries
      BY <1>1, <3>1, <3>5 DEF All
    <3>7. PICK t \in files'[d] : o \in t.entries
      BY <3>6
    <3>8. d \in Nat /\ m \in Nat
      BY LevelsAre
    <3>9. CASE t \in Outputs(S, C)
      <4>1. o \in J /\ ~HiddenByNewer(o, J)
        BY <1>3, <1>6, <3>7, <3>9
      <4>2. v.seq > o.seq
        BY <3>1, <3>2
      <4> QED BY <2>2, <2>5, <3>1, <4>1, <4>2 DEF HiddenByNewer
    <3>10. CASE t \notin Outputs(S, C)
      <4>1. l # l + 1
        BY <1>4
      <4>2. t \in files[d] /\ (d = l => t \notin job.in[1]) /\ (d = l + 1 => t \notin job.in[2])
        BY <1>3, <3>10, <4>1
      <4>3. CASE d < m
        BY <3>3, <3>4, <3>7, <4>2, <4>3 DEF IInv, NewerInv
      <4>4. CASE d = l /\ w \in job.in[1]
        BY <1>4, <3>3, <3>7, <4>2, <4>4
      <4>5. CASE d = l + 1
        <5>1. t \in files[job.level + 1] \ job.in[2]
          BY <4>2, <4>5 DEF l
        <5> QED BY <2>2, <2>3, <2>4, <3>1, <3>2, <3>7, <5>1 DEF Exposes, J
      <4>6. CASE d >= l + 2
        <5>1. o.key \in job.deeper
          BY <1>4, <2>2, <3>1, <3>7, <4>2, <4>6
        <5> QED BY <2>5, <3>1, <5>1
      <4>7. d < m \/ (d = l /\ w \in job.in[1]) \/ d = l + 1 \/ d >= l + 2
        <5>1. CASE m = l
          <6>1. w \in job.in[1]
            BY <1>4, <3>4, <5>1
          <6> QED BY <1>4, <3>8, <5>1, <6>1
        <5>2. CASE m = l + 1
          BY <1>4, <3>8, <5>2
        <5> QED BY <3>4, <5>1, <5>2
      <4> QED BY <4>3, <4>4, <4>5, <4>6, <4>7
    <3> QED BY <3>9, <3>10
  <2> QED BY <2>5, <2>7
<1>14. All \in SUBSET Entry /\ All' \in SUBSET All
  BY <1>9, <1>10
<1> QED BY <1>13, <1>14, AnswerKept

\* A compaction that exposes nothing changes nothing for the map.
LEMMA FinishMap ==
  ASSUME IInv, Reading, Reading', Finish, ~exposed'
  PROVE  UNCHANGED (Map!vars)
<1>1. /\ job # NoJob
      /\ mem' = mem /\ imm' = imm /\ lastSequence' = lastSequence /\ snapshot' = snapshot
      /\ exposed' = (exposed \/ (~overlap' /\ Exposes))
      /\ (overlap' = TRUE /\ files' = files) \/ overlap' = FALSE
  BY FinishIs
<1>2. CASE overlap' = TRUE /\ files' = files
  <2>1. All' = All
    BY <1>1, <1>2 DEF All
  <2> QED BY <1>1, <2>1, SameMap
<1>3. CASE overlap' = FALSE
  <2>1. ~Exposes
    BY <1>1, <1>3
  <2>2. job.smallestSnapshot <= lastSequence
        /\ \A s \in Held : job.smallestSnapshot <= snapshot[s]
    BY <1>1 DEF IInv, SnapshotsAbove
  <2>3. Held' = Held
    BY <1>1 DEF Held
  <2>4. AnswersIn(All', lastSequence') = AnswersIn(All, lastSequence)
    <3>1. \A k \in Keys : AnswerIn(All', k, lastSequence) = AnswerIn(All, k, lastSequence)
      BY <1>3, <2>1, <2>2, HeldAre, FinishAnswers
    <3> QED BY <1>1, <3>1 DEF AnswersIn
  <2>5. ASSUME NEW s \in Held
        PROVE  AnswersIn(All', snapshot'[s]) = AnswersIn(All, snapshot[s])
    <3>1. \A k \in Keys : AnswerIn(All', k, snapshot[s]) = AnswerIn(All, k, snapshot[s])
      BY <1>3, <2>1, <2>2, HeldAre, FinishAnswers
    <3> QED BY <1>1, <3>1 DEF AnswersIn
  <2>6. [k \in Keys |-> Get(k, lastSequence)]' = [k \in Keys |-> Get(k, lastSequence)]
    BY <2>4 DEF Reading
  <2>7. [s \in Held |-> [k \in Keys |-> Get(k, snapshot[s])]]'
          = [s \in Held |-> [k \in Keys |-> Get(k, snapshot[s])]]
    <3>1. [s \in Held' |-> AnswersIn(All', snapshot'[s])]
            = [s \in Held |-> AnswersIn(All, snapshot[s])]
      BY <2>3, <2>5
    <3> QED BY <3>1 DEF Reading
  <2> QED BY <1>1, <2>3, <2>6, <2>7 DEF Map!vars
<1> QED BY <1>1, <1>2, <1>3

\* Every step is one of the map, or a stutter, or exposes a version.
LEMMA MapStep ==
  ASSUME IInv, IInv', [Next]_vars
  PROVE  Map!Next \/ exposed' \/ UNCHANGED (Map!vars)
<1>0. Reading /\ Reading'
  BY ReadingIs, ReadingNext
<1>1. ASSUME NEW k \in Keys, NEW type \in Types, Write(k, type) PROVE Map!Next
  BY <1>0, <1>1, WriteMap
<1>2. ASSUME NEW s \in Snapshots, TakeSnapshot(s) PROVE Map!Next
  BY <1>0, <1>2, TakeMap
<1>3. ASSUME NEW s \in Snapshots, ReleaseSnapshot(s) PROVE Map!Next
  BY <1>0, <1>3, ReleaseMap
<1>4. CASE Rotate
  BY <1>0, <1>4, RotateMap
<1>5. CASE Flush
  BY <1>0, <1>5, FlushMap
<1>6. CASE ~overlap /\ Compact
  BY <1>0, <1>6, CompactMap
<1>7. CASE CompactRange
  <2>1. PICK l, in : Start(l, in, TRUE)
    BY <1>7 DEF CompactRange
  <2> QED BY <1>0, <2>1, StartMap
<1>8. CASE Finish
  BY <1>0, <1>8, FinishMap
<1>9. CASE ~overlap /\ Restart
  BY <1>0, <1>9, RestartMap
<1>10. CASE CompactionFails \/ UNCHANGED vars
  <2>1. /\ mem' = mem /\ imm' = imm /\ files' = files
        /\ lastSequence' = lastSequence /\ snapshot' = snapshot
    BY <1>10 DEF vars, CompactionFails
  <2>2. All' = All
    BY <2>1 DEF All
  <2> QED BY <1>0, <2>1, <2>2, SameMap
<1> QED BY <1>1, <1>2, <1>3, <1>4, <1>5, <1>6, <1>7, <1>8, <1>9, <1>10 DEF Next

\* At the start there is nothing anywhere.
LEMMA MapInit ==
  ASSUME Init, Reading
  PROVE  Map!Init
<1>1. lastSequence = 0 /\ Held = {} /\ All = {}
  BY DEF Init, Held, All
<1>2. \A k \in Keys : AnswerIn(All, k, lastSequence) = {}
  BY <1>1 DEF AnswerIn, VisibleIn, Newest
<1>3. [k \in Keys |-> Get(k, lastSequence)] = [k \in Keys |-> {}]
  BY <1>2 DEF Reading, AnswersIn
<1>4. [s \in Held |-> [k \in Keys |-> Get(k, snapshot[s])]] = <<>>
  BY <1>1
<1> QED BY <1>1, <1>3, <1>4 DEF Map!Init

\* Whatever is flushed, moved and compacted, in any order with writes, snapshots
\* and restarts, get() and every snapshot answer as a map of keys would, until a
\* compaction drops a deletion that still hid an older value.
THEOREM TreeIsMap == Spec => ImplementsMap
<1>1. Init => Map!Init
  BY InitInv, ReadingIs, MapInit
<1>2. IInv /\ IInv' /\ [Next]_vars => [Map!Next \/ exposed']_(Map!vars)
  BY MapStep
<1> QED BY <1>1, <1>2, Invariant, PTL DEF Spec, ImplementsMap
=============================================================================
