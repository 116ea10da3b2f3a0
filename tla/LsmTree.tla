------------------------------ MODULE LsmTree ------------------------------
(***************************************************************************)
(* The tables of a database: what a flush and a compaction do to the levels,*)
(* and what a read at a sequence number finds in them.                     *)
(*                                                                         *)
(* An entry is a key, the sequence number of the write and its type.  A     *)
(* table is its number and the set of its entries; sizes in bytes are       *)
(* abstracted, so that every choice the code makes by size is open.         *)
(* One background action runs at a time (Background.tla): a compaction      *)
(* picks its inputs, and between that and the installation of its outputs   *)
(* there may be writes, snapshots and flushes.                             *)
(***************************************************************************)
EXTENDS Integers, Sequences, FiniteSets, FiniteSetsExt

CONSTANTS
  Keys,             \* user keys, in the order of the comparator
  Snapshots,        \* names for the snapshots that clients hold
  NoSnapshot,       \* no snapshot of that name
  NumLevels,        \* kNumLevels
  MaxMemCompactLevel, \* kMaxMemCompactLevel
  L0Trigger,        \* kL0CompactionTrigger
  Writes,           \* bound: the n-th write is one of Writes[n], <<key, type>>
  MaxRestarts       \* bound: restarts

Types == {"value", "deletion"}

ASSUME LsmTreeAssumption ==
  /\ Keys \subseteq Nat
  /\ NoSnapshot \notin Nat
  /\ NumLevels \in Nat /\ NumLevels > 1
  /\ MaxMemCompactLevel \in 0..(NumLevels - 1)
  /\ L0Trigger \in Nat \ {0}
  /\ Writes \in Seq(SUBSET (Keys \X Types))
  /\ MaxRestarts \in Nat

Levels == 0..(NumLevels - 1)
MaxSequence == Len(Writes)

VARIABLES
  mem, imm,        \* entries of the memtable and of the immutable one
  files,           \* tables of each level of the current version
  lastSequence,    \* the sequence number of the last write
  nextFileNumber,  \* the next table gets this number
  snapshot,        \* the sequence number of each snapshot
  job,             \* the compaction that runs
  overlap,         \* the assertion of maybeAddFile has failed
  exposed,         \* a deletion was dropped that still hid something
  reached,         \* the deepest level of each key since then
  restarts         \* how often the database was opened again

vars == <<mem, imm, files, lastSequence, nextFileNumber, snapshot, job,
          overlap, exposed, reached, restarts>>

Entry == [key : Keys, seq : 1..MaxSequence, type : Types]
NoJob == [level |-> -1]

Init ==
  /\ mem = {} /\ imm = {}
  /\ files = [l \in Levels |-> {}]
  /\ lastSequence = 0 /\ nextFileNumber = 1
  /\ snapshot = [s \in Snapshots |-> NoSnapshot]
  /\ job = NoJob /\ overlap = FALSE /\ exposed = FALSE
  /\ reached = [k \in Keys |-> 0] /\ restarts = 0

-----------------------------------------------------------------------------
(* The order of internal keys, and the ranges of tables.                   *)

\* By key, and the newest first.
Before(e, f) == e.key < f.key \/ (e.key = f.key /\ e.seq > f.seq)

First(S) == CHOOSE e \in S : \A o \in S : ~Before(o, e)
Last(S)  == CHOOSE e \in S : \A o \in S : ~Before(e, o)

\* FileMetaData, and what is in the file.
Table(num, S) ==
  [num |-> num, smallest |-> First(S), largest |-> Last(S), entries |-> S]

EntriesOf(T) == UNION {t.entries : t \in T}
Lo(T) == Min({t.smallest.key : t \in T})
Hi(T) == Max({t.largest.key : t \in T})

Overlaps(t, lo, hi) == t.smallest.key <= hi /\ t.largest.key >= lo
OverlapInLevel(l, lo, hi) == \E t \in files[l] : Overlaps(t, lo, hi)

\* A range that no table of level 0 reaches into from outside.
Closed(lo, hi) ==
  \A t \in files[0] :
    Overlaps(t, lo, hi) => lo <= t.smallest.key /\ t.largest.key <= hi

\* Tables of level 0 overlap each other: the range grows until it is closed.
OverlappingInputs(l, lo, hi) ==
  IF l > 0 THEN {t \in files[l] : Overlaps(t, lo, hi)}
  ELSE LET R == {r \in Keys \X Keys :
                   r[1] <= lo /\ hi <= r[2] /\ Closed(r[1], r[2])}
       IN  {t \in files[0] :
              Overlaps(t, Max({r[1] : r \in R}), Min({r[2] : r \in R}))}

Inputs(l, T) == OverlappingInputs(l, Lo(T), Hi(T))

\* Mutant: the boundary tables are forgotten.
WithoutBoundary(l, T) == T

\* Table u goes on with the versions of the last key of table t.
Continues(t, u) ==
  u.smallest.key = t.largest.key /\ Before(t.largest, u.smallest)

Ends(T) == {t \in T : \A u \in T : ~Before(t.largest, u.largest)}

\* The boundary tables: those that go on where T ends, and so on.
WithBoundary(l, T) ==
  LET closed(S) == \A t \in Ends(T) \cup S, u \in files[l] :
                     Continues(t, u) => u \in S
  IN  T \cup {u \in files[l] : \A S \in SUBSET files[l] : closed(S) => u \in S}

-----------------------------------------------------------------------------
(* Reads: get() at a sequence number.                                      *)

Versions(S, k, s) == {e \in S : e.key = k /\ e.seq <= s}
Newest(S) == {e \in S : \A o \in S : o.seq <= e.seq}

\* findFile: the first table of the level whose last entry is not before
\* version s of key k.
FoundFile(l, k, s) ==
  LET after == {t \in files[l] :
                  ~Before(t.largest, [key |-> k, seq |-> s])}
  IN  {t \in after : \A u \in after : ~Before(u.largest, t.largest)}

\* The tables of level 0 are tried in the order of their numbers.
NewestTable(k, s) ==
  LET hits == {t \in files[0] : Versions(t.entries, k, s) # {}}
  IN  {t \in hits : \A u \in hits : u.num <= t.num}

\* The memtables, then level by level.
Found(p, k, s) ==
  Versions(CASE p = -2 -> mem
             [] p = -1 -> imm
             [] p = 0  -> EntriesOf(NewestTable(k, s))
             [] OTHER  -> EntriesOf(FoundFile(p, k, s)), k, s)

\* The first place that has a version of the key answers, unless that version
\* is a deletion: the number of one write, or of none.
Get(k, s) ==
  UNION {{e.seq : e \in {v \in Newest(Found(p, k, s)) :
                           /\ v.type = "value"
                           /\ \A q \in -2..(p - 1) : Found(q, k, s) = {}}} :
           p \in -2..(NumLevels - 1)}

-----------------------------------------------------------------------------
(* Writes, snapshots, and the memtable.                                    *)

Write(k, type) ==
  /\ lastSequence < MaxSequence /\ <<k, type>> \in Writes[lastSequence + 1]
  /\ lastSequence' = lastSequence + 1
  /\ mem' = mem \cup {[key |-> k, seq |-> lastSequence + 1, type |-> type]}
  /\ UNCHANGED <<imm, files, nextFileNumber, snapshot, job, overlap,
                 exposed, restarts>>

Held == {s \in Snapshots : snapshot[s] # NoSnapshot}

TakeSnapshot(s) ==
  /\ snapshot[s] = NoSnapshot
  /\ snapshot' = [snapshot EXCEPT ![s] = lastSequence]
  /\ UNCHANGED <<mem, imm, files, lastSequence, nextFileNumber, job, overlap,
                 exposed, restarts>>

ReleaseSnapshot(s) ==
  /\ snapshot[s] # NoSnapshot
  /\ snapshot' = [snapshot EXCEPT ![s] = NoSnapshot]
  /\ UNCHANGED <<mem, imm, files, lastSequence, nextFileNumber, job, overlap,
                 exposed, restarts>>

\* makeRoomForWrite gives the memtable to the background.
Rotate ==
  /\ imm = {} /\ mem # {}
  /\ imm' = mem /\ mem' = {}
  /\ UNCHANGED <<files, lastSequence, nextFileNumber, snapshot, job, overlap,
                 exposed, restarts>>

\* saveTo: a version whose deeper levels are not sorted is not built.
Apart(t, u) == Before(t.largest, u.smallest) \/ Before(u.largest, t.smallest)
Disjoint(T) == \A t, u \in T : t = u \/ Apart(t, u)
Apply(version) ==
  IF \A l \in Levels \ {0} : Disjoint(version[l])
    THEN files' = version /\ overlap' = FALSE
    ELSE UNCHANGED files /\ overlap' = TRUE

\* Mutant: the level that the table goes to is not looked at.
PickLevelsBelow(lo, hi) ==
  {l \in 0..MaxMemCompactLevel :
     /\ \A m \in 0..(l - 1) : ~OverlapInLevel(m, lo, hi)
     /\ \/ l = MaxMemCompactLevel
        \/ OverlapInLevel(0, lo, hi)
        \/ OverlapInLevel(l + 1, lo, hi)
        \/ l + 2 < NumLevels /\ OverlapInLevel(l + 2, lo, hi)}

\* The levels that a table from lo to hi may go to: it sinks while nothing
\* overlaps it, and may stop where much overlaps it two levels below.
PickLevels(lo, hi) ==
  {l \in 0..MaxMemCompactLevel :
     /\ l = 0 \/ \A m \in 0..l : ~OverlapInLevel(m, lo, hi)
     /\ \/ l = MaxMemCompactLevel
        \/ OverlapInLevel(0, lo, hi)
        \/ OverlapInLevel(l + 1, lo, hi)
        \/ l + 2 < NumLevels /\ OverlapInLevel(l + 2, lo, hi)}

\* compactMemTable, between two compactions or at an input of one.
Flush ==
  /\ imm # {}
  /\ LET t == Table(nextFileNumber, imm)
     IN  \E l \in PickLevels(t.smallest.key, t.largest.key) :
           Apply([files EXCEPT ![l] = @ \cup {t}])
  /\ imm' = IF overlap' THEN imm ELSE {}
  /\ nextFileNumber' = nextFileNumber + 1
  /\ UNCHANGED <<mem, lastSequence, snapshot, job, exposed, restarts>>

-----------------------------------------------------------------------------
(* Compactions.                                                            *)

\* setupOtherInputs: both pairs of inputs when the first level can be
\* expanded, which its size decides.
BothInputs(l, T) ==
  LET in0 == WithBoundary(l, T)
      in1 == Inputs(l + 1, in0)
      ex0 == WithBoundary(l, Inputs(l, in0 \cup in1))
      ex1 == Inputs(l + 1, ex0)
  IN  {<<in0, in1>>} \cup
      (IF Cardinality(ex0) > Cardinality(in0)
            /\ Cardinality(ex1) = Cardinality(in1)
         THEN {<<ex0, ex1>>} ELSE {})

Grandparents(l, in) ==
  IF l + 2 < NumLevels THEN Inputs(l + 2, in[1] \cup in[2]) ELSE {}

\* pickCompaction: a level whose score is 1 or more, and a table of it (the
\* compaction pointer, which goes around, is abstracted).
Picked(l) ==
  {in \in UNION {BothInputs(l, IF l = 0 THEN Inputs(0, {t}) ELSE {t}) :
                   t \in files[l]} :
     l > 0 \/ Cardinality(files[0]) >= L0Trigger}

\* VersionSet.compactRange: what the range overlaps; above level 0 as many
\* tables as are not too large.
Ranged(l, lo, hi) ==
  LET all == OverlappingInputs(l, lo, hi)
      cuts == IF l = 0 THEN {all}
              ELSE {{u \in all : ~Before(t.smallest, u.smallest)} :
                      t \in all}
  IN  UNION {BothInputs(l, T) : T \in cuts \ {{}}}

\* Mutant: snapshots are not looked at.
SmallestWithoutSnapshots == lastSequence

SmallestSnapshot ==
  IF Held = {} THEN lastSequence ELSE Min({snapshot[s] : s \in Held})

\* The keys for which isBaseLevelForKey is false, by the input version.
Deeper(l) ==
  {k \in Keys : \E d \in (l + 2)..(NumLevels - 1) : OverlapInLevel(d, k, k)}

Start(l, in, manual) ==
  /\ job' = [level |-> l, in |-> in, deeper |-> Deeper(l),
             smallestSnapshot |-> SmallestSnapshot, manual |-> manual]
  /\ UNCHANGED <<mem, imm, files, lastSequence, nextFileNumber, snapshot,
                 overlap, exposed, restarts>>

IsTrivialMove(in) == Cardinality(in[1]) = 1 /\ in[2] = {}

\* A table that nothing overlaps moves down; when much overlaps it two levels
\* below it is rewritten.
Compact ==
  /\ job = NoJob /\ imm = {}
  /\ \E l \in Levels \ {NumLevels - 1} : \E in \in Picked(l) :
       \/ /\ IsTrivialMove(in)
          /\ Apply([files EXCEPT ![l] = @ \ in[1], ![l + 1] = @ \cup in[1]])
          /\ UNCHANGED <<mem, imm, lastSequence, nextFileNumber, snapshot,
                         job, exposed, restarts>>
       \/ /\ ~IsTrivialMove(in) \/ Grandparents(l, in) # {}
          /\ Start(l, in, FALSE)

\* The deepest level that the range of a key was in, in any version so far.
Reach(k) ==
  Max({0} \cup {d \in Levels : \E t \in files'[d] : Overlaps(t, k, k)}
          \cup {d \in {reached[k]} : restarts' = restarts})

\* compactRange goes down to the deepest level that its range overlapped when it was
\* called; the versions are others by then.
CompactRange ==
  /\ job = NoJob /\ imm = {}
  /\ \E l \in Levels \ {NumLevels - 1} : \E lo, hi \in Keys :
       /\ lo <= hi
       /\ l = 0 \/ \E k \in Keys : lo <= k /\ k <= hi /\ l < reached[k]
       /\ \E in \in Ranged(l, lo, hi) : Start(l, in, TRUE)

\* doCompactionWork keeps an entry unless (A) a newer one of its key is also
\* in every snapshot, or it is a deletion that hides nothing any more.
HiddenByNewer(e, S) ==
  \E n \in S : n.key = e.key /\ n.seq > e.seq
               /\ n.seq <= job.smallestSnapshot
\* Mutant: every deletion is obsolete that every snapshot sees.
ObsoleteAnywhere(e) ==
  e.type = "deletion" /\ e.seq <= job.smallestSnapshot

ObsoleteDeletion(e) ==
  e.type = "deletion" /\ e.seq <= job.smallestSnapshot /\ e.key \notin job.deeper
Kept(S) == {e \in S : ~HiddenByNewer(e, S) /\ ~ObsoleteDeletion(e)}

JobEntries == EntriesOf(job.in[1] \cup job.in[2])

\* A deletion that will be dropped is followed by an older version of its key in
\* the next table of the output level, which is not an input.
Exposes ==
  \E e \in JobEntries, t \in files[job.level + 1] \ job.in[2] :
    /\ ~HiddenByNewer(e, JobEntries) /\ ObsoleteDeletion(e)
    /\ \E o \in t.entries : o.key = e.key /\ o.seq < e.seq

\* The outputs end at the entries in C, and at the last one.
Output(S, C, c) ==
  {e \in S : ~Before(c, e) /\ \A d \in C : Before(d, c) => Before(d, e)}

Outputs(S, C) ==
  {Table(nextFileNumber + Cardinality({d \in C : Before(d, c)}),
         Output(S, C, c)) : c \in C}

Finish ==
  /\ job # NoJob
  /\ LET l == job.level
         S == Kept(JobEntries)
     IN  \E C \in SUBSET S :
           /\ S # {} => Last(S) \in C
           /\ nextFileNumber' = nextFileNumber + Cardinality(C)
           /\ Apply([files EXCEPT ![l] = @ \ job.in[1],
                       ![l + 1] = (@ \ job.in[2]) \cup Outputs(S, C)])
  /\ job' = IF overlap' THEN job ELSE NoJob
  /\ exposed' = (exposed \/ (~overlap' /\ Exposes))
  /\ UNCHANGED <<mem, imm, lastSequence, snapshot, restarts>>

\* An output cannot be written or installed: the version stays as it was.  (Until
\* the next opening no background work follows, which the model does not require.)
CompactionFails ==
  /\ job # NoJob /\ job' = NoJob
  /\ UNCHANGED <<mem, imm, files, lastSequence, nextFileNumber, snapshot, overlap,
                 exposed, restarts>>

-----------------------------------------------------------------------------
\* The process ends or crashes, and the database is opened again: each log
\* becomes a table of level 0 (Recovery.tla has the steps between).
Restart ==
  /\ restarts < MaxRestarts /\ restarts' = restarts + 1
  /\ LET logs == {log \in {<<nextFileNumber, imm>>,
                            <<nextFileNumber + 1, mem>>} : log[2] # {}}
     IN  files' = [files EXCEPT
                     ![0] = @ \cup {Table(log[1], log[2]) : log \in logs}]
  /\ mem' = {} /\ imm' = {}
  /\ nextFileNumber' = nextFileNumber + 2
  /\ snapshot' = [s \in Snapshots |-> NoSnapshot]
  /\ job' = NoJob
  /\ UNCHANGED <<lastSequence, overlap, exposed>>

Next ==
  /\ ~overlap
  /\ \/ \E k \in Keys, type \in Types : Write(k, type)
     \/ \E s \in Snapshots : TakeSnapshot(s) \/ ReleaseSnapshot(s)
     \/ Rotate \/ Flush \/ Compact \/ CompactRange \/ Finish \/ CompactionFails
     \/ Restart
  /\ reached' = [k \in Keys |-> Reach(k)]

Spec == Init /\ [][Next]_vars

-----------------------------------------------------------------------------
(* What is checked.                                                        *)

\* The variables have their types: tables are never empty, and no two have
\* one number.
TypeOK ==
  /\ mem \subseteq Entry /\ imm \subseteq Entry
  /\ files \in [Levels -> SUBSET [num : 1..(nextFileNumber - 1),
                                  smallest : Entry, largest : Entry,
                                  entries : SUBSET Entry]]
  /\ lastSequence \in 0..MaxSequence /\ nextFileNumber \in Nat
  /\ snapshot \in [Snapshots -> (0..lastSequence) \cup {NoSnapshot}]
  /\ \A l, m \in Levels : \A t \in files[l], u \in files[m] :
       t.num = u.num => l = m /\ t = u

\* The assertion "Must not overlap" of VersionBuilder.maybeAddFile: a flush
\* inside a compaction puts no table where the outputs will go, unless the
\* compaction was asked for with compactRange.
OverlapOnlyByRange == overlap => job # NoJob /\ job.manual

\* The same without the exception, as the comment above the assertion has it.
NeverOverlaps == ~overlap

\* get() stops at the first place that has the key: of two versions of a key
\* the newer one is never in a deeper place, or in an older table of level 0.
NewerAbove ==
  LET newer(S, T) == \A e \in S, f \in T : e.key = f.key => e.seq > f.seq
      tables(l)   == EntriesOf(files[l])
  IN  /\ newer(mem, imm)
      /\ \A l \in Levels : newer(mem \cup imm, tables(l))
      /\ \A l, m \in Levels : l < m => newer(tables(l), tables(m))
      /\ \A t, u \in files[0] : t.num > u.num => newer(t.entries, u.entries)

\* smallestSnapshot is read when the compaction starts, and snapshots are
\* taken and released while it runs: none that is held, and no read of the
\* current state, is ever below it.
SnapshotsAbove ==
  job # NoJob =>
    /\ job.smallestSnapshot <= lastSequence
    /\ \A s \in Held : job.smallestSnapshot <= snapshot[s]

\* "There is no data in higher levels, data in lower levels will have larger
\* sequence numbers, data that is being compacted here will be dropped:" a
\* deletion that is dropped hides nothing any more.
DeletionsObsolete == job # NoJob => ~Exposes

\* Flushes and compactions change no answer, neither for the current sequence
\* number nor for that of any snapshot that is held, and writes change one key,
\* until a deletion is dropped that is not obsolete.
Map == INSTANCE VersionedMap WITH
  writes <- lastSequence,
  latest <- [k \in Keys |-> Get(k, lastSequence)],
  held   <- Held,
  view   <- [s \in Held |-> [k \in Keys |-> Get(k, snapshot[s])]]
ImplementsMap == Map!Init /\ [][Map!Next \/ exposed']_(Map!vars)
=============================================================================
