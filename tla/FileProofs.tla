----------------------------- MODULE FileProofs -----------------------------
(***************************************************************************)
(* Proofs about the two files that have a module of their own, for any     *)
(* constants: the log (LogFormat) and the lock file (Lockfile).            *)
(***************************************************************************)
EXTENDS LogFormat, Lockfile, SequenceTheorems, TLAPS

(***************************************************************************)
(* The log.  Its file is described by the fragments that were written: of   *)
(* each the block, where it starts, which record it is of and from where,   *)
(* how long it is, and whether the record has had one before.              *)
(***************************************************************************)
Cells ==
  {Zero, [kind |-> "crc"]} \cup [kind : {"head"}, type : Types, length : Nat]
    \cup [kind : {"data"}, of : Nat, at : Nat]

BlockStarts == {k * BlockSize : k \in Nat}

Fragments ==
  [block : BlockStarts, start : Nat, of : Nat \ {0}, from : Nat, length : Nat,
   created : BOOLEAN]

EndOf(g) == g.start + HeaderSize + g.length
Ended(g) == g.from + g.length = sizes[g.of]
Full(g) == g.block + BlockSize - EndOf(g) < HeaderSize

\* What comes after the fragments before the k-th.
Turn(fs, k) ==
  IF k = 1
    THEN [block |-> 0, start |-> 0, of |-> 1, from |-> 0, created |-> FALSE]
    ELSE LET g == fs[k - 1]
         IN  [block |-> IF Full(g) THEN g.block + BlockSize ELSE g.block,
              start |-> IF Full(g) THEN g.block + BlockSize ELSE EndOf(g),
              of |-> IF Ended(g) THEN g.of + 1 ELSE g.of,
              from |-> IF Ended(g) THEN 0 ELSE g.from + g.length,
              created |-> ~Ended(g)]

Takes(g, t) ==
  /\ g.block = t.block /\ g.start = t.start
  /\ g.of = t.of /\ g.from = t.from /\ g.created = t.created

\* A fragment lies in its block, in the file and in its record, is followed by
\* another of the record only in another block, and is empty only at the end.
Placed(g) ==
  /\ g.block <= g.start
  /\ EndOf(g) <= g.block + BlockSize /\ EndOf(g) <= Len(file)
  /\ g.of \in DOMAIN sizes /\ g.from + g.length <= sizes[g.of]
  /\ ~Ended(g) => EndOf(g) = g.block + BlockSize

HeadOf(later, ended, n) ==
  [kind |-> "head", type |-> RecordType(~later, ended), length |-> n]

Content(g) ==
  /\ file[g.start + HeaderSize] = HeadOf(g.created, Ended(g), g.length)
  /\ \A i \in 1..g.length :
       file[g.start + HeaderSize + i] =
         [kind |-> "data", of |-> g.of, at |-> g.from + i]

EndsAround(g) ==
  /\ \A i \in 1..(g.of - 1) : i \in DOMAIN ends /\ ends[i] <= g.start
  /\ Ended(g) => g.of \in DOMAIN ends /\ ends[g.of] = EndOf(g)
  /\ \A i \in DOMAIN ends :
       i > g.of \/ (i = g.of /\ ~Ended(g)) => ends[i] > EndOf(g)

Written(fs) ==
  \A k \in DOMAIN fs :
    /\ Takes(fs[k], Turn(fs, k))
    /\ Placed(fs[k]) /\ Content(fs[k]) /\ EndsAround(fs[k])

\* What the writer will write next.
NextOf(fs) == Turn(fs, Len(fs) + 1)
LastOf(fs) == fs[Len(fs)]
WriterInv(fs) ==
  /\ Len(ends) = NextOf(fs).of - 1
  /\ \A i \in DOMAIN ends : ends[i] <= NextOf(fs).start
  /\ IF Left > 0
       THEN /\ NextOf(fs).of = Len(sizes) /\ NextOf(fs).from = position
            /\ NextOf(fs).created = created
       ELSE NextOf(fs).of = Len(sizes) + 1

OffsetInv(fs) ==
  /\ Len(file) <= NextOf(fs).start
  /\ writers = 1 =>
       \/ /\ fs # <<>> /\ Len(file) = EndOf(LastOf(fs))
          /\ blockOffset = Len(file) - LastOf(fs).block
       \/ /\ Len(file) = NextOf(fs).start /\ NextOf(fs).start = NextOf(fs).block
          /\ blockOffset = 0 /\ (fs = <<>> \/ Left > 0)
  /\ writers > 1 =>
       /\ fs # <<>> /\ LastOf(fs).block = 0 /\ Len(file) = EndOf(LastOf(fs))
       /\ blockOffset < Len(file)

TornInv(fs) ==
  LET t == NextOf(fs)
  IN  /\ Len(file) <= t.block + BlockSize
      /\ t.start + HeaderSize <= Len(file) =>
           /\ Len(sizes) > Len(ends)
           /\ \E ended \in BOOLEAN, n \in Nat :
                /\ file[t.start + HeaderSize] = HeadOf(t.created, ended, n)
                /\ t.start + HeaderSize + n > Len(file)

BufInv ==
  /\ blockIndex > 0 =>
       /\ (blockIndex - 1) * BlockSize < Len(file)
       /\ \A i \in 1..BlockSize :
            (blockIndex - 1) * BlockSize + i <= Len(file) =>
              buf[i] = file[(blockIndex - 1) * BlockSize + i]
  /\ Len(file) <= BlockSize =>
       \A i \in 1..BlockSize : i > Len(file) => buf[i] = Zero

Awaits(t) ==
  /\ \/ AtBlockEnd /\ t.start = blockIndex * BlockSize /\ t.block = t.start
     \/ /\ blockIndex > 0 /\ t.block = (blockIndex - 1) * BlockSize
        /\ t.start = t.block + handled
  /\ handled <= BlockSize /\ ReadUpTo <= Len(file)
  /\ latestOp = Payload(t.of, 0, t.from)
  /\ Len(yielded) = t.of - 1
  /\ \A r \in 1..(t.of - 1) : yielded[r] = Record(r)
  /\ \A i \in DOMAIN ends : i < t.of => ends[i] <= ReadUpTo
  /\ t.created /\ latestType = "last" => Headless(t.of)
  /\ ~t.created => latestType # "first"

AllFound == \A r \in DOMAIN ends : Found(r)
FewTorn ==
  Len(file) <= BlockSize =>
    /\ Len(yielded) <= Len(ends) + 1
    /\ Len(yielded) = Len(ends) + 1 => Len(sizes) > Len(ends)

Past ==
  /\ blockIndex > 0 /\ ReadUpTo > Len(file)
  /\ blockIndex * BlockSize >= Len(file)
  /\ AllFound /\ FewTorn

Fresh ==
  /\ blockIndex = 0 /\ handled = 0 /\ latestType = "none"
  /\ latestOp = <<>> /\ yielded = <<>>

Inv(fs) ==
  /\ Written(fs) /\ WriterInv(fs) /\ BufInv
  /\ phase = "writing" => OffsetInv(fs) /\ Fresh
  /\ phase # "writing" => TornInv(fs)
  /\ phase = "reading" => Past \/ \E k \in 1..(Len(fs) + 1) : Awaits(Turn(fs, k))
  /\ phase \in {"done", "failed"} => ReadsWhatWasWritten /\ OneTornRecord

LogTypeOK ==
  /\ file \in Seq(Cells) /\ blockOffset \in 0..BlockSize
  /\ sizes \in Seq(Nat \ {0}) /\ ends \in Seq(Nat) /\ position \in Nat
  /\ sizes # <<>> => position <= sizes[Len(sizes)]
  /\ created \in BOOLEAN /\ writers \in Nat \ {0}
  /\ phase \in {"writing", "reading", "done", "failed"}
  /\ blockIndex \in Nat /\ buf \in [1..BlockSize -> Cells] /\ handled \in Nat
  /\ latestOp \in Seq(Cells) /\ yielded \in Seq(Seq(Cells))

OneBlockOrWriter == writers = 1 \/ Len(file) <= BlockSize

-----------------------------------------------------------------------------
(* Lemmas about the operators.                                             *)

LEMMA LogConstants ==
  /\ BlockSize \in Nat /\ HeaderSize \in Nat
  /\ 0 < HeaderSize /\ HeaderSize < BlockSize
  /\ Sizes \subseteq Nat \ {0} /\ Lengths \subseteq Nat
  /\ MaxWriters \in Nat \ {0}
  BY LogFormatAssumption

LEMMA BlocksMultiply ==
  ASSUME NEW n \in Nat, NEW m \in Nat
  PROVE  /\ n * BlockSize \in Nat
         /\ (n + 1) * BlockSize = n * BlockSize + BlockSize
         /\ (n + m) * BlockSize = n * BlockSize + m * BlockSize
<1>1. BlockSize \in Nat
  BY LogConstants
<1> QED BY <1>1, SMT

\* Two blocks that are not the same do not overlap.
LEMMA BlocksApart ==
  /\ BlockStarts \subseteq Nat /\ 0 \in BlockStarts
  /\ \A n \in Nat : n * BlockSize \in BlockStarts
  /\ \A b \in BlockStarts : b + BlockSize \in BlockStarts
  /\ \A b, c \in BlockStarts : b < c => b + BlockSize <= c
<1>1. BlockStarts \subseteq Nat
  BY BlocksMultiply DEF BlockStarts
<1>2. \A n \in Nat : n * BlockSize \in BlockStarts
  BY DEF BlockStarts
<1>3. 0 \in BlockStarts
  <2>1. 0 * BlockSize = 0
    BY LogConstants, SMT
  <2> QED BY <1>2, <2>1
<1>4. ASSUME NEW b \in BlockStarts PROVE b + BlockSize \in BlockStarts
  <2>1. PICK n \in Nat : b = n * BlockSize
    BY DEF BlockStarts
  <2>2. b + BlockSize = (n + 1) * BlockSize
    BY <2>1, BlocksMultiply
  <2> QED BY <1>2, <2>2
<1>5. ASSUME NEW b \in BlockStarts, NEW c \in BlockStarts, b < c
      PROVE  b + BlockSize <= c
  <2>1. PICK n \in Nat : b = n * BlockSize
    BY DEF BlockStarts
  <2>2. PICK m \in Nat : c = m * BlockSize
    BY DEF BlockStarts
  <2>3. n < m
    <3>1. SUFFICES ASSUME m <= n PROVE FALSE
      OBVIOUS
    <3>2. n - m \in Nat /\ n = m + (n - m)
      BY <3>1
    <3>3. n * BlockSize = m * BlockSize + (n - m) * BlockSize
      BY <3>2, BlocksMultiply
    <3>4. (n - m) * BlockSize \in Nat /\ m * BlockSize \in Nat
      BY <3>2, BlocksMultiply
    <3> QED BY <1>5, <2>1, <2>2, <3>3, <3>4
  <2>4. m - n - 1 \in Nat /\ m = (n + 1) + (m - n - 1)
    BY <2>3
  <2>5. m * BlockSize = (n + 1) * BlockSize + (m - n - 1) * BlockSize
    BY <2>4, BlocksMultiply
  <2>6. (n + 1) * BlockSize = n * BlockSize + BlockSize
    BY BlocksMultiply
  <2>7. (m - n - 1) * BlockSize \in Nat /\ n * BlockSize \in Nat
    BY <2>4, BlocksMultiply
  <2> QED BY <2>1, <2>2, <2>5, <2>6, <2>7, LogConstants
<1> QED BY <1>1, <1>2, <1>3, <1>4, <1>5

LEMMA RecordTypes ==
  /\ RecordType(TRUE, TRUE) = "full" /\ RecordType(TRUE, FALSE) = "first"
  /\ RecordType(FALSE, TRUE) = "last" /\ RecordType(FALSE, FALSE) = "middle"
<1>1. RecordType(TRUE, TRUE) = "full"
  BY Zenon DEF RecordType
<1>2. RecordType(TRUE, FALSE) = "first"
  BY Zenon DEF RecordType
<1>3. RecordType(FALSE, TRUE) = "last"
  BY Zenon DEF RecordType
<1>4. RecordType(FALSE, FALSE) = "middle"
  BY Zenon DEF RecordType
<1> QED BY <1>1, <1>2, <1>3, <1>4

LEMMA CellKinds ==
  /\ Zero \in Cells /\ [kind |-> "crc"] \in Cells
  /\ \A later, ended \in BOOLEAN, n \in Nat : HeadOf(later, ended, n) \in Cells
  /\ \A r, i \in Nat : [kind |-> "data", of |-> r, at |-> i] \in Cells
<1>1. ASSUME NEW later \in BOOLEAN, NEW ended \in BOOLEAN, NEW n \in Nat
      PROVE  HeadOf(later, ended, n) \in Cells
  <2>1. RecordType(~later, ended) \in Types
    BY RecordTypes DEF Types
  <2> QED BY <2>1 DEF HeadOf, Cells
<1> QED BY <1>1 DEF Cells

LEMMA PayloadSeq ==
  ASSUME NEW r \in Nat, NEW from \in Nat, NEW n \in Nat
  PROVE  /\ Payload(r, from, n) \in Seq(Cells) /\ Len(Payload(r, from, n)) = n
         /\ \A i \in 1..n : Payload(r, from, n)[i]
                              = [kind |-> "data", of |-> r, at |-> from + i]
<1>1. \A i \in 1..n : [kind |-> "data", of |-> r, at |-> from + i] \in Cells
  BY CellKinds
<1> QED BY <1>1 DEF Payload

LEMMA HeaderSeq ==
  ASSUME NEW later \in BOOLEAN, NEW ended \in BOOLEAN, NEW n \in Nat
  PROVE  /\ Header(RecordType(~later, ended), n) \in Seq(Cells)
         /\ Len(Header(RecordType(~later, ended), n)) = HeaderSize
         /\ Header(RecordType(~later, ended), n)[HeaderSize] = HeadOf(later, ended, n)
<1>1. \A i \in 1..HeaderSize :
        (IF i < HeaderSize THEN [kind |-> "crc"] ELSE HeadOf(later, ended, n)) \in Cells
  BY CellKinds
<1>2. Header(RecordType(~later, ended), n)
        = [i \in 1..HeaderSize |-> IF i < HeaderSize THEN [kind |-> "crc"]
                                   ELSE HeadOf(later, ended, n)]
  BY DEF Header, HeadOf
<1> QED BY <1>1, <1>2, LogConstants

LEMMA JoinedAt ==
  ASSUME NEW S, NEW s \in Seq(S), NEW t \in Seq(S), NEW i \in 1..(Len(s) + Len(t)), i > Len(s)
  PROVE  (s \o t)[i] = t[i - Len(s)]
BY ConcatProperties, LenProperties

\* The payload of a record is put together from its fragments.
LEMMA PayloadsJoin ==
  ASSUME NEW r \in Nat, NEW n \in Nat, NEW m \in Nat
  PROVE  Payload(r, 0, n) \o Payload(r, n, m) = Payload(r, 0, n + m)
<1>1. /\ Payload(r, 0, n) \in Seq(Cells) /\ Payload(r, n, m) \in Seq(Cells)
      /\ Len(Payload(r, 0, n)) = n /\ Len(Payload(r, n, m)) = m
  BY PayloadSeq
<1>2. Payload(r, 0, n + m) \in Seq(Cells) /\ Len(Payload(r, 0, n + m)) = n + m
  BY PayloadSeq
<1>3. /\ Payload(r, 0, n) \o Payload(r, n, m) \in Seq(Cells)
      /\ Len(Payload(r, 0, n) \o Payload(r, n, m)) = n + m
  BY <1>1, ConcatProperties
<1>4. ASSUME NEW i \in 1..(n + m)
      PROVE  (Payload(r, 0, n) \o Payload(r, n, m))[i] = Payload(r, 0, n + m)[i]
  <2>0. n + m \in Nat /\ i \in Nat /\ 1 <= i /\ i <= n + m
    OBVIOUS
  <2>1. Payload(r, 0, n + m)[i] = [kind |-> "data", of |-> r, at |-> 0 + i]
    BY <2>0, PayloadSeq
  <2>2. CASE i <= n
    <3>1. (Payload(r, 0, n) \o Payload(r, n, m))[i] = Payload(r, 0, n)[i]
      BY <1>1, <2>2, ConcatProperties
    <3>2. Payload(r, 0, n)[i] = [kind |-> "data", of |-> r, at |-> 0 + i]
      BY <2>2, PayloadSeq
    <3> QED BY <2>1, <3>1, <3>2
  <2>3. CASE i > n
    <3>1. (Payload(r, 0, n) \o Payload(r, n, m))[i] = Payload(r, n, m)[i - n]
      <4>1. /\ i \in 1..(Len(Payload(r, 0, n)) + Len(Payload(r, n, m)))
            /\ i > Len(Payload(r, 0, n))
        BY <1>1, <2>3
      <4>2. (Payload(r, 0, n) \o Payload(r, n, m))[i]
              = Payload(r, n, m)[i - Len(Payload(r, 0, n))]
        BY <1>1, <4>1, JoinedAt
      <4> QED BY <1>1, <4>2
    <3>2. i - n \in 1..m /\ n + (i - n) = 0 + i
      BY <2>0, <2>3
    <3>3. Payload(r, n, m)[i - n] = [kind |-> "data", of |-> r, at |-> n + (i - n)]
      BY <3>2, PayloadSeq
    <3> QED BY <2>1, <3>1, <3>2, <3>3
  <2>4. i <= n \/ i > n
    BY <2>0
  <2> QED BY <2>2, <2>3, <2>4, ZenonT(30)
<1> QED BY <1>2, <1>3, <1>4, SeqEqual

LEMMA TurnFirst ==
  ASSUME NEW fs
  PROVE  Turn(fs, 1) = [block |-> 0, start |-> 0, of |-> 1, from |-> 0, created |-> FALSE]
  BY DEF Turn

LEMMA TurnAfter ==
  ASSUME NEW fs, NEW k \in Nat \ {0}
  PROVE  LET g == fs[k]
             t == Turn(fs, k + 1)
         IN  /\ Full(g) => /\ t.block = g.block + BlockSize
                           /\ t.start = g.block + BlockSize
             /\ ~Full(g) => t.block = g.block /\ t.start = EndOf(g)
             /\ Ended(g) => t.of = g.of + 1 /\ t.from = 0 /\ t.created = FALSE
             /\ ~Ended(g) => /\ t.of = g.of /\ t.from = g.from + g.length
                             /\ t.created = TRUE
<1>1. k + 1 # 1 /\ (k + 1) - 1 = k
  OBVIOUS
<1>2. Turn(fs, k + 1)
        = [block |-> IF Full(fs[k]) THEN fs[k].block + BlockSize ELSE fs[k].block,
           start |-> IF Full(fs[k]) THEN fs[k].block + BlockSize ELSE EndOf(fs[k]),
           of |-> IF Ended(fs[k]) THEN fs[k].of + 1 ELSE fs[k].of,
           from |-> IF Ended(fs[k]) THEN 0 ELSE fs[k].from + fs[k].length,
           created |-> ~Ended(fs[k])]
  BY <1>1 DEF Turn
<1> DEFINE g == fs[k]
           t == Turn(fs, k + 1)
<1>3. /\ t.block = IF Full(g) THEN g.block + BlockSize ELSE g.block
      /\ t.start = IF Full(g) THEN g.block + BlockSize ELSE EndOf(g)
      /\ t.of = IF Ended(g) THEN g.of + 1 ELSE g.of
      /\ t.from = IF Ended(g) THEN 0 ELSE g.from + g.length
  BY <1>2
<1>4. t.created = ~Ended(g)
  BY <1>2
<1>5. (Ended(g) => t.created = FALSE) /\ (~Ended(g) => t.created = TRUE)
  BY <1>4
<1> HIDE DEF t, g
<1>6. /\ Full(g) => t.block = g.block + BlockSize /\ t.start = g.block + BlockSize
      /\ ~Full(g) => t.block = g.block /\ t.start = EndOf(g)
      /\ Ended(g) => t.of = g.of + 1 /\ t.from = 0
      /\ ~Ended(g) => t.of = g.of /\ t.from = g.from + g.length
  BY <1>3
<1> QED BY <1>5, <1>6, Zenon DEF t, g

LEMMA FragmentType ==
  ASSUME NEW g \in Fragments
  PROVE  /\ g.block \in BlockStarts /\ g.block \in Nat /\ g.start \in Nat
         /\ g.of \in Nat \ {0} /\ g.from \in Nat /\ g.length \in Nat
         /\ g.created \in BOOLEAN /\ EndOf(g) \in Nat
<1>1. /\ g.block \in BlockStarts /\ g.start \in Nat
      /\ g.of \in Nat \ {0} /\ g.from \in Nat /\ g.length \in Nat
      /\ g.created \in BOOLEAN
  BY DEF Fragments
<1>2. g.block \in Nat
  BY <1>1, BlocksApart
<1>3. EndOf(g) \in Nat
  BY <1>1, LogConstants DEF EndOf
<1> QED BY <1>1, <1>2, <1>3

LEMMA TurnType ==
  ASSUME NEW fs \in Seq(Fragments), NEW k \in 1..(Len(fs) + 1)
  PROVE  /\ Turn(fs, k).block \in BlockStarts /\ Turn(fs, k).block \in Nat
         /\ Turn(fs, k).start \in Nat /\ Turn(fs, k).of \in Nat \ {0}
         /\ Turn(fs, k).from \in Nat /\ Turn(fs, k).created \in BOOLEAN
<1>1. CASE k = 1
  <2> DEFINE t == Turn(fs, 1)
  <2>1. t.block = 0 /\ t.start = 0 /\ t.of = 1 /\ t.from = 0 /\ t.created = FALSE
    BY TurnFirst
  <2>2. t = Turn(fs, k)
    BY <1>1
  <2> HIDE DEF t
  <2>3. /\ t.block \in BlockStarts /\ t.block \in Nat
        /\ t.start \in Nat /\ t.of \in Nat \ {0} /\ t.from \in Nat
    BY <2>1, BlocksApart
  <2>4. t.created \in BOOLEAN
    BY <2>1
  <2> QED BY <2>2, <2>3, <2>4
<1>2. CASE k # 1
  <2>1. k - 1 \in Nat \ {0} /\ k - 1 \in 1..Len(fs) /\ (k - 1) + 1 = k
    BY <1>2
  <2>2. fs[k - 1] \in Fragments
    BY <2>1, ElementOfSeq
  <2> DEFINE g == fs[k - 1]
  <2>3. /\ g.block \in BlockStarts /\ g.block \in Nat /\ g.start \in Nat
        /\ g.of \in Nat \ {0} /\ g.from \in Nat /\ g.length \in Nat
        /\ EndOf(g) \in Nat /\ g.block + BlockSize \in BlockStarts
        /\ g.block + BlockSize \in Nat
    BY <2>2, FragmentType, BlocksApart
  <2> DEFINE t == Turn(fs, (k - 1) + 1)
  <2>4. /\ Full(g) => /\ t.block = g.block + BlockSize
                      /\ t.start = g.block + BlockSize
        /\ ~Full(g) => t.block = g.block /\ t.start = EndOf(g)
        /\ Ended(g) => t.of = g.of + 1 /\ t.from = 0 /\ t.created = FALSE
        /\ ~Ended(g) => /\ t.of = g.of /\ t.from = g.from + g.length
                        /\ t.created = TRUE
    BY <2>1, TurnAfter, ZenonT(30)
  <2>5. t = Turn(fs, k)
    BY <2>1
  <2> HIDE DEF g, t
  <2>6. /\ t.block \in BlockStarts /\ t.block \in Nat
        /\ t.start \in Nat
    BY <2>3, <2>4
  <2>8. t.of \in Nat \ {0} /\ t.from \in Nat
    <3>1. CASE Ended(g)
      BY <2>3, <2>4, <3>1, SMTT(30)
    <3>2. CASE ~Ended(g)
      <4>1. t.of = g.of /\ t.from = g.from + g.length
        BY <2>4, <3>2, ZenonT(30)
      <4> QED BY <2>3, <4>1
    <3> QED BY <3>1, <3>2
  <2>7. t.created \in BOOLEAN
    BY <2>4
  <2> QED BY <2>5, <2>6, <2>7, <2>8
<1> QED BY <1>1, <1>2

LEMMA NextType ==
  ASSUME NEW fs \in Seq(Fragments)
  PROVE  /\ NextOf(fs).block \in BlockStarts /\ NextOf(fs).block \in Nat
         /\ NextOf(fs).start \in Nat /\ NextOf(fs).of \in Nat \ {0}
         /\ NextOf(fs).from \in Nat /\ NextOf(fs).created \in BOOLEAN
<1>1. Len(fs) + 1 \in 1..(Len(fs) + 1)
  BY LenProperties
<1> QED BY <1>1, TurnType DEF NextOf

\* Turns and fragments depend on no more than this of the state.
LEMMA TurnSame ==
  ASSUME NEW fs \in Seq(Fragments), NEW k \in 1..(Len(fs) + 1),
         \A i \in 1..Len(fs) : sizes'[fs[i].of] = sizes[fs[i].of]
  PROVE  Turn(fs, k)' = Turn(fs, k)
<1>1. CASE k = 1
  BY <1>1, TurnFirst DEF Turn
<1>2. CASE k # 1
  <2>1. k - 1 \in 1..Len(fs)
    BY <1>2
  <2>2. Ended(fs[k - 1])' <=> Ended(fs[k - 1])
    BY <2>1 DEF Ended
  <2>3. Full(fs[k - 1])' <=> Full(fs[k - 1])
    BY DEF Full, EndOf
  <2>4. EndOf(fs[k - 1])' = EndOf(fs[k - 1])
    BY DEF EndOf
  <2> QED BY <1>2, <2>2, <2>3, <2>4 DEF Turn
<1> QED BY <1>1, <1>2

(* The type of the variables.                                               *)

FragmentLength == Least(Left, BlockSize - blockOffset - HeaderSize)

LEMMA LeftType ==
  ASSUME LogTypeOK
  PROVE  /\ Left \in Nat /\ Leftover \in Nat /\ Len(sizes) \in Nat
         /\ Left > 0 => /\ sizes # <<>> /\ Len(sizes) \in 1..Len(sizes)
                        /\ Left = sizes[Len(sizes)] - position
                        /\ Last(sizes) = sizes[Len(sizes)]
         /\ \A r \in 1..Len(sizes) : sizes[r] \in Nat \ {0}
<1>1. Leftover \in Nat
  BY LogConstants DEF LogTypeOK, Leftover
<1>2. sizes \in Seq(Nat \ {0}) /\ Len(sizes) \in Nat
  BY DEF LogTypeOK
<1>3. \A r \in 1..Len(sizes) : sizes[r] \in Nat \ {0}
  BY <1>2, ElementOfSeq
<1>4. CASE sizes = <<>>
  BY <1>1, <1>2, <1>3, <1>4 DEF Left
<1>5. CASE sizes # <<>>
  <2>1. Len(sizes) \in 1..Len(sizes)
    BY <1>2, <1>5, EmptySeq
  <2>2. position <= sizes[Len(sizes)] /\ position \in Nat
    BY <1>5 DEF LogTypeOK
  <2>3. Left = sizes[Len(sizes)] - position /\ Last(sizes) = sizes[Len(sizes)]
    BY <1>5 DEF Left, Last
  <2> QED BY <1>1, <1>2, <1>3, <1>5, <2>1, <2>2, <2>3
<1> QED BY <1>4, <1>5

\* What a fragment is.
LEMMA FragmentIs ==
  ASSUME LogTypeOK, Left > 0, ~Switches
  PROVE  /\ FragmentLength \in Nat /\ FragmentLength <= Left
         /\ blockOffset + HeaderSize + FragmentLength <= BlockSize
         /\ FragmentLength # Left =>
              blockOffset + HeaderSize + FragmentLength = BlockSize
         /\ Fragment \in Seq(Cells) /\ Len(Fragment) = HeaderSize + FragmentLength
         /\ Fragment[HeaderSize]
              = HeadOf(created, FragmentLength = Left, FragmentLength)
         /\ \A i \in 1..FragmentLength :
              Fragment[HeaderSize + i]
                = [kind |-> "data", of |-> Len(sizes), at |-> position + i]
<1>1. /\ Left \in Nat /\ blockOffset \in Nat /\ Leftover = BlockSize - blockOffset
      /\ Len(sizes) \in Nat /\ position \in Nat /\ created \in BOOLEAN
  BY LeftType, LogConstants DEF LogTypeOK, Leftover
<1>2. blockOffset + HeaderSize <= BlockSize
  BY <1>1, LogConstants DEF Switches
<1>3. /\ FragmentLength \in Nat /\ FragmentLength <= Left
      /\ blockOffset + HeaderSize + FragmentLength <= BlockSize
      /\ FragmentLength # Left =>
           blockOffset + HeaderSize + FragmentLength = BlockSize
  BY <1>1, <1>2, LogConstants DEF FragmentLength, Least
<1> DEFINE n == FragmentLength
           h == Header(RecordType(~created, n = Left), n)
           p == Payload(Len(sizes), position, n)
<1>4. Fragment = h \o p
  BY DEF Fragment, FragmentLength
<1>5. (n = Left) \in BOOLEAN /\ n \in Nat
  BY <1>3
<1>6. /\ h \in Seq(Cells) /\ Len(h) = HeaderSize
      /\ h[HeaderSize] = HeadOf(created, n = Left, n)
  BY <1>1, <1>5, HeaderSeq
<1>7. /\ p \in Seq(Cells) /\ Len(p) = n
      /\ \A i \in 1..n : p[i] = [kind |-> "data", of |-> Len(sizes), at |-> position + i]
  <2> HIDE DEF n
  <2>1. Len(sizes) \in Nat /\ position \in Nat /\ n \in Nat
    BY <1>1, <1>5
  <2> QED BY <2>1, PayloadSeq, ZenonT(30)
<1> HIDE DEF n, h, p
<1>8. /\ h \o p \in Seq(Cells) /\ Len(h \o p) = HeaderSize + n
      /\ \A i \in 1..(HeaderSize + n) :
           (h \o p)[i] = IF i <= HeaderSize THEN h[i] ELSE p[i - HeaderSize]
  BY <1>6, <1>7, ConcatProperties
<1>9. (h \o p)[HeaderSize] = h[HeaderSize]
  <2>1. HeaderSize \in 1..(HeaderSize + n) /\ HeaderSize <= HeaderSize
    BY <1>5, LogConstants
  <2> QED BY <1>8, <2>1
<1>10. ASSUME NEW i \in 1..n PROVE (h \o p)[HeaderSize + i] = p[i]
  <2>1. HeaderSize + i \in 1..(HeaderSize + n) /\ ~(HeaderSize + i <= HeaderSize)
        /\ (HeaderSize + i) - HeaderSize = i
    BY <1>5, LogConstants
  <2> QED BY <1>8, <2>1
<1> QED BY <1>3, <1>4, <1>6, <1>7, <1>8, <1>9, <1>10 DEF n

LEMMA TrailerIs ==
  ASSUME LogTypeOK
  PROVE  /\ Trailer \in Seq(Cells) /\ Len(Trailer) = Leftover
         /\ \A i \in 1..Leftover : Trailer[i] = Zero
<1>1. Leftover \in Nat /\ Zero \in Cells
  BY LeftType, CellKinds
<1> QED BY <1>1 DEF Trailer

\* What is read of a fragment.
LEMMA ReadType ==
  ASSUME LogTypeOK, ~AtBlockEnd
  PROVE  /\ blockIndex > 0 /\ blockIndex \in Nat /\ handled \in Nat
         /\ handled + HeaderSize < BlockSize
         /\ handled + HeaderSize \in 1..BlockSize
         /\ \A h \in Headers : h.length \in Nat
         /\ \A n \in Nat : Data(n) \in Seq(Cells)
<1>1. /\ blockIndex > 0 /\ blockIndex \in Nat /\ handled \in Nat
      /\ handled + HeaderSize < BlockSize /\ handled + HeaderSize \in 1..BlockSize
  BY LogConstants DEF LogTypeOK, AtBlockEnd
<1>2. \A i \in 1..BlockSize : buf[i] \in Cells
  BY DEF LogTypeOK
<1>3. ASSUME NEW h \in Headers PROVE h.length \in Nat
  <2> DEFINE cell == buf[handled + HeaderSize]
  <2>1. cell \in Cells
    BY <1>1, <1>2
  <2>2. cell.kind = "head" => cell.length \in Nat
    BY <2>1 DEF Cells, Zero
  <2> HIDE DEF cell
  <2>3. Headers = CASE cell.kind = "head" -> {[type |-> cell.type, length |-> cell.length]}
                    [] cell.kind = "zero" -> {[type |-> "zero", length |-> 0]}
                    [] OTHER -> [type : Types \cup {"other"}, length : Lengths]
    BY DEF Headers, cell
  <2>4. CASE cell.kind = "head"
    BY <2>2, <2>3, <2>4
  <2>5. CASE cell.kind = "zero"
    BY <2>3, <2>5
  <2>6. CASE cell.kind # "head" /\ cell.kind # "zero"
    <3>1. Headers = [type : Types \cup {"other"}, length : Lengths]
      BY <2>3, <2>6
    <3> QED BY <3>1, LogConstants
  <2> QED BY <2>4, <2>5, <2>6
<1>4. ASSUME NEW n \in Nat PROVE Data(n) \in Seq(Cells)
  <2> DEFINE a == handled + HeaderSize + 1
             b == Least(handled + HeaderSize + n, BlockSize)
  <2>1. a \in Int /\ b \in Int /\ b <= BlockSize /\ 1 <= a
    BY <1>1, LogConstants DEF Least
  <2> HIDE DEF a, b
  <2>2. \A i \in a..b : buf[i] \in Cells
    BY <1>2, <2>1, LogConstants
  <2>3. SubSeq(buf, a, b) \in Seq(Cells)
    BY <2>1, <2>2, SubSeqProperties
  <2> QED BY <2>3 DEF Data, a, b
<1> QED BY <1>1, <1>3, <1>4

\* What the reader keeps is of the type it should be.
LEMMA ReaderTypeStep ==
  ASSUME LogTypeOK, ReadPhysicalRecord PROVE LogTypeOK'
<1>1. ~AtBlockEnd /\ phase = "reading"
  BY DEF ReadPhysicalRecord
<1>2. PICK h \in Headers :
        LET data == Data(h.length)
            asserted == h.type \in {"first", "last"} => latestType # h.type
        IN  /\ handled' = IF h.type = "zero" THEN BlockSize
                          ELSE handled + h.length + HeaderSize
            /\ latestType' = h.type
            /\ CASE h.type = "full" ->
                      yielded' = Append(yielded, data) /\ UNCHANGED latestOp
                 [] h.type = "last" /\ asserted -> LastRead(data)
                 [] h.type = "first" /\ asserted ->
                      latestOp' = data /\ UNCHANGED yielded
                 [] h.type = "middle" ->
                      latestOp' = latestOp \o data /\ UNCHANGED yielded
                 [] OTHER -> OtherRead(h.type, data)
            /\ phase' = IF asserted THEN phase ELSE "failed"
  BY DEF ReadPhysicalRecord
<1> DEFINE data == Data(h.length)
           asserted == h.type \in {"first", "last"} => latestType # h.type
<1>3. h.length \in Nat /\ data \in Seq(Cells) /\ handled \in Nat
  BY <1>1, ReadType
<1>4. handled' \in Nat
  BY <1>2, <1>3, LogConstants
<1>5. phase' \in {"reading", "failed"}
  BY <1>1, <1>2
<1>6. /\ latestOp \in Seq(Cells) /\ yielded \in Seq(Seq(Cells))
      /\ latestOp \o data \in Seq(Cells)
  BY <1>3, ConcatProperties DEF LogTypeOK
<1>7. (CASE h.type = "full" ->
              yielded' = Append(yielded, data) /\ UNCHANGED latestOp
         [] h.type = "last" /\ asserted -> LastRead(data)
         [] h.type = "first" /\ asserted -> latestOp' = data /\ UNCHANGED yielded
         [] h.type = "middle" -> latestOp' = latestOp \o data /\ UNCHANGED yielded
         [] OTHER -> OtherRead(h.type, data))
  BY <1>2
<1>8. UNCHANGED <<writer, blockIndex, buf>>
  BY DEF ReadPhysicalRecord
<1> HIDE DEF data, asserted
<1>9. latestOp' \in Seq(Cells) /\ yielded' \in Seq(Seq(Cells))
  <2>1. CASE h.type = "full"
    <3>1. yielded' = Append(yielded, data) /\ latestOp' = latestOp
      BY <1>7, <2>1
    <3> QED BY <1>3, <1>6, <3>1, AppendProperties
  <2>2. CASE h.type = "last" /\ asserted
    <3>1. yielded' = Append(yielded, latestOp \o data) /\ latestOp' = <<>>
      BY <1>7, <2>2 DEF LastRead
    <3> QED BY <1>6, <3>1, AppendProperties, EmptySeq
  <2>3. CASE h.type = "first" /\ asserted
    BY <1>3, <1>6, <1>7, <2>3
  <2>4. CASE h.type = "middle"
    BY <1>6, <1>7, <2>4
  <2>5. CASE h.type # "full" /\ ~(h.type = "last" /\ asserted)
             /\ ~(h.type = "first" /\ asserted) /\ h.type # "middle"
    BY <1>6, <1>7, <2>5 DEF OtherRead
  <2> QED BY <2>1, <2>2, <2>3, <2>4, <2>5
<1> QED BY <1>4, <1>5, <1>8, <1>9 DEF LogTypeOK, writer

LEMMA FillTypeStep ==
  ASSUME LogTypeOK, FillBuffer PROVE LogTypeOK'
<1> DEFINE start == blockIndex * BlockSize
           bytes == Least(BlockSize, IF Len(file) > start THEN Len(file) - start ELSE 0)
<1>1. start \in Nat /\ Len(file) \in Nat /\ file \in Seq(Cells)
  <2>1. blockIndex \in Nat /\ file \in Seq(Cells) /\ Len(file) \in Nat
    BY DEF LogTypeOK
  <2>2. blockIndex * BlockSize \in Nat
    BY <2>1, BlocksMultiply
  <2> QED BY <2>1, <2>2
<1>2. /\ bytes \in 0..BlockSize
      /\ bytes # 0 => start + bytes <= Len(file)
  BY <1>1, LogConstants DEF Least
<1>3. CASE bytes = 0
  <2>1. phase' = "done" /\ UNCHANGED <<blockIndex, buf, handled>>
    BY <1>3 DEF FillBuffer
  <2> QED BY <2>1 DEF FillBuffer, LogTypeOK, writer
<1>4. CASE bytes # 0
  <2>1. /\ buf' = [i \in 1..BlockSize |-> IF i <= bytes THEN file[start + i] ELSE buf[i]]
        /\ blockIndex' = blockIndex + 1 /\ handled' = 0 /\ phase' = phase
    BY <1>4 DEF FillBuffer
  <2> HIDE DEF start, bytes
  <2>2. ASSUME NEW i \in 1..BlockSize
        PROVE  (IF i <= bytes THEN file[start + i] ELSE buf[i]) \in Cells
    <3>1. buf[i] \in Cells
      BY DEF LogTypeOK
    <3>2. CASE i <= bytes
      <4>1. start + i \in 1..Len(file)
        BY <1>1, <1>2, <1>4, <3>2, LogConstants
      <4> QED BY <1>1, <3>2, <4>1, ElementOfSeq
    <3> QED BY <3>1, <3>2
  <2>3. buf' \in [1..BlockSize -> Cells]
    BY <2>1, <2>2
  <2> QED BY <2>1, <2>3 DEF FillBuffer, LogTypeOK, writer
<1> QED BY <1>3, <1>4

LEMMA RecoverTypeStep ==
  ASSUME LogTypeOK, Recover PROVE LogTypeOK' /\ Len(file') >= Len(file)
<1>1. file' \in Seq(Cells) /\ Len(file') >= Len(file)
  <2>1. file \in Seq(Cells)
    BY DEF LogTypeOK
  <2>2. CASE file' = file
    BY <2>1, <2>2
  <2>3. CASE file' # file
    <3> DEFINE chunk == IF Switches THEN Trailer ELSE Fragment
    <3>1. Left > 0
      BY <2>3 DEF Recover
    <3>2. PICK n \in 1..(Len(chunk) - 1) : file' = file \o SubSeq(chunk, 1, n)
      BY <2>3 DEF Recover
    <3>3. chunk \in Seq(Cells)
      BY <3>1, FragmentIs, TrailerIs
    <3> HIDE DEF chunk
    <3>4. \A i \in 1..n : chunk[i] \in Cells
      BY <3>2, <3>3, ElementOfSeq
    <3>5. n \in Nat /\ n \in Int /\ 1 \in Int
      BY <3>2, <3>3
    <3>6. SubSeq(chunk, 1, n) \in Seq(Cells)
      BY <3>4, <3>5, SubSeqProperties
    <3> QED BY <2>1, <3>2, <3>6, ConcatProperties
  <2> QED BY <2>2, <2>3
<1> QED BY <1>1 DEF Recover, LogTypeOK, writer, reader

LEMMA WriterTypeStep ==
  ASSUME LogTypeOK,
         \/ \E size \in Sizes : AddRecord(size)
         \/ SwitchBlock \/ EmitPhysicalRecord \/ Reopen
  PROVE  LogTypeOK'
<1>1. /\ file \in Seq(Cells) /\ sizes \in Seq(Nat \ {0}) /\ ends \in Seq(Nat)
      /\ Len(sizes) \in Nat /\ Len(file) \in Nat /\ Len(ends) \in Nat
      /\ position \in Nat /\ blockOffset \in 0..BlockSize
  BY DEF LogTypeOK
<1>2. ASSUME NEW size \in Sizes, AddRecord(size) PROVE LogTypeOK'
  <2>1. size \in Nat \ {0}
    BY LogConstants
  <2>2. /\ sizes' \in Seq(Nat \ {0}) /\ sizes'[Len(sizes')] = size /\ position' = 0
    BY <1>1, <1>2, <2>1, AppendProperties DEF AddRecord
  <2>3. position' <= sizes'[Len(sizes')]
    BY <2>1, <2>2
  <2>4. created' \in BOOLEAN
    BY <1>2, Zenon DEF AddRecord
  <2> QED BY <1>2, <2>2, <2>3, <2>4 DEF AddRecord, LogTypeOK, reader
<1>3. CASE SwitchBlock
  <2>1. file' \in Seq(Cells)
    BY <1>1, <1>3, TrailerIs, ConcatProperties DEF SwitchBlock
  <2> QED BY <1>3, <2>1, LogConstants DEF SwitchBlock, LogTypeOK, reader
<1>4. CASE EmitPhysicalRecord
  <2>1. /\ FragmentLength \in Nat /\ FragmentLength <= Left
        /\ blockOffset + HeaderSize + FragmentLength <= BlockSize
        /\ Fragment \in Seq(Cells) /\ Len(Fragment) = HeaderSize + FragmentLength
    BY <1>4, FragmentIs DEF EmitPhysicalRecord
  <2>2. /\ sizes # <<>> /\ Left = sizes[Len(sizes)] - position
        /\ Len(sizes) \in 1..Len(sizes) /\ sizes[Len(sizes)] \in Nat
    BY <1>4, LeftType DEF EmitPhysicalRecord
  <2>3. file' \in Seq(Cells) /\ Len(file') \in Nat
    BY <1>1, <1>4, <2>1, ConcatProperties DEF EmitPhysicalRecord
  <2>4. position' = position + FragmentLength /\ position' \in Nat
    BY <1>1, <1>4, <2>1, LogConstants DEF EmitPhysicalRecord
  <2>5. position' <= sizes[Len(sizes)]
    BY <1>1, <2>1, <2>2, <2>4
  <2>6. blockOffset' \in 0..BlockSize
    BY <1>1, <1>4, <2>1, LogConstants DEF EmitPhysicalRecord
  <2>7. ends' \in Seq(Nat)
    BY <1>1, <1>4, <2>3, AppendProperties DEF EmitPhysicalRecord
  <2> QED BY <1>4, <2>3, <2>4, <2>5, <2>6, <2>7 DEF EmitPhysicalRecord, LogTypeOK, reader
<1>5. CASE Reopen
  BY <1>5, LogConstants DEF Reopen, LogTypeOK, reader
<1> QED BY <1>2, <1>3, <1>4, <1>5

LEMMA LogTypeStep == LogTypeOK /\ [Next]_vars => LogTypeOK'
<1> SUFFICES ASSUME LogTypeOK, [Next]_vars PROVE LogTypeOK'
  OBVIOUS
<1>1. CASE UNCHANGED vars
  BY <1>1 DEF vars, writer, reader, LogTypeOK
<1>2. CASE (\E size \in Sizes : AddRecord(size)) \/ SwitchBlock
           \/ EmitPhysicalRecord \/ Reopen
  BY <1>2, WriterTypeStep
<1> QED BY <1>1, <1>2, RecoverTypeStep, FillTypeStep, ReaderTypeStep DEF Next

LEMMA LogTypeInit == Init => LogTypeOK
<1> SUFFICES ASSUME Init PROVE LogTypeOK
  OBVIOUS
<1>1. buf \in [1..BlockSize -> Cells]
  BY CellKinds DEF Init
<1>2. /\ file \in Seq(Cells) /\ sizes \in Seq(Nat \ {0}) /\ ends \in Seq(Nat)
      /\ latestOp \in Seq(Cells) /\ yielded \in Seq(Seq(Cells))
  BY EmptySeq DEF Init
<1>3. blockOffset \in 0..BlockSize
  BY LogConstants DEF Init
<1>4. created \in BOOLEAN
  BY Zenon DEF Init
<1> QED BY <1>1, <1>2, <1>3, <1>4 DEF Init, LogTypeOK

(* The fragments of the file.                                               *)

\* A step only adds to the file, to the records and to their ends, and a new
\* end is behind what was in the file.
Grows ==
  /\ Len(file) <= Len(file') /\ \A i \in 1..Len(file) : file'[i] = file[i]
  /\ Len(sizes) <= Len(sizes') /\ \A i \in 1..Len(sizes) : sizes'[i] = sizes[i]
  /\ Len(ends) <= Len(ends') /\ \A i \in 1..Len(ends) : ends'[i] = ends[i]
  /\ \A i \in 1..Len(ends') : i > Len(ends) => ends'[i] > Len(file)

LEMMA LengthTypes ==
  ASSUME LogTypeOK
  PROVE  /\ Len(file) \in Nat /\ Len(sizes) \in Nat /\ Len(ends) \in Nat
         /\ Len(yielded) \in Nat /\ Len(latestOp) \in Nat
         /\ DOMAIN file = 1..Len(file) /\ DOMAIN sizes = 1..Len(sizes)
         /\ DOMAIN ends = 1..Len(ends) /\ DOMAIN yielded = 1..Len(yielded)
         /\ \A i \in 1..Len(ends) : ends[i] \in Nat
         /\ \A i \in 1..Len(file) : file[i] \in Cells
<1>1. /\ file \in Seq(Cells) /\ sizes \in Seq(Nat \ {0}) /\ ends \in Seq(Nat)
      /\ yielded \in Seq(Seq(Cells)) /\ latestOp \in Seq(Cells)
  BY DEF LogTypeOK
<1>2. \A i \in 1..Len(ends) : ends[i] \in Nat
  BY <1>1, ElementOfSeq
<1>3. \A i \in 1..Len(file) : file[i] \in Cells
  BY <1>1, ElementOfSeq
<1> QED BY <1>1, <1>2, <1>3, LenProperties

\* One fragment as the next state has it.
LEMMA FragmentKept ==
  ASSUME LogTypeOK, LogTypeOK', Grows, NEW g \in Fragments,
         Placed(g), Content(g), EndsAround(g)
  PROVE  /\ Placed(g)' /\ Content(g)' /\ EndsAround(g)'
         /\ (Ended(g)' <=> Ended(g)) /\ sizes'[g.of] = sizes[g.of]
<1>1. /\ g.start \in Nat /\ g.of \in Nat \ {0} /\ g.length \in Nat
      /\ EndOf(g) \in Nat /\ g.block \in Nat /\ g.from \in Nat
      /\ EndOf(g) = g.start + HeaderSize + g.length
  BY FragmentType DEF EndOf
<1>2. /\ Len(file) \in Nat /\ Len(sizes) \in Nat /\ Len(ends) \in Nat
      /\ DOMAIN sizes = 1..Len(sizes) /\ DOMAIN ends = 1..Len(ends)
      /\ \A i \in 1..Len(ends) : ends[i] \in Nat
  BY LengthTypes
<1>3. /\ Len(file') \in Nat /\ Len(sizes') \in Nat /\ Len(ends') \in Nat
      /\ DOMAIN sizes' = 1..Len(sizes') /\ DOMAIN ends' = 1..Len(ends')
      /\ \A i \in 1..Len(ends') : ends'[i] \in Nat
  <2>1. file' \in Seq(Cells) /\ sizes' \in Seq(Nat \ {0}) /\ ends' \in Seq(Nat)
    BY DEF LogTypeOK
  <2>2. \A i \in 1..Len(ends') : ends'[i] \in Nat
    BY <2>1, ElementOfSeq
  <2> QED BY <2>1, <2>2, LenProperties
<1>4. g.of \in 1..Len(sizes) /\ sizes'[g.of] = sizes[g.of]
  BY <1>2 DEF Placed, Grows
<1>5. Ended(g)' <=> Ended(g)
  BY <1>4 DEF Ended
<1>6. EndOf(g) <= Len(file)
  BY DEF Placed
<1>7. Placed(g)'
  <2>1. g.of \in DOMAIN sizes'
    BY <1>2, <1>3, <1>4 DEF Grows
  <2>2. EndOf(g) <= Len(file')
    BY <1>1, <1>2, <1>3, <1>6 DEF Grows
  <2> QED BY <1>4, <1>5, <2>1, <2>2 DEF Placed, EndOf
<1>8. Content(g)'
  <2>1. g.start + HeaderSize \in 1..Len(file)
    BY <1>1, <1>2, <1>6, LogConstants, SMTT(30)
  <2>2. file'[g.start + HeaderSize] = file[g.start + HeaderSize]
    BY <2>1 DEF Grows
  <2>3. ASSUME NEW i \in 1..g.length
        PROVE  file'[g.start + HeaderSize + i] = file[g.start + HeaderSize + i]
    <3>1. g.start + HeaderSize + i \in 1..Len(file)
      BY <1>1, <1>2, <1>6, LogConstants, SMTT(30)
    <3> QED BY <3>1 DEF Grows
  <2>4. file'[g.start + HeaderSize] = HeadOf(g.created, Ended(g)', g.length)
    <3>1. Ended(g)' = Ended(g)
      BY <1>4 DEF Ended
    <3> QED BY <2>2, <3>1 DEF Content
  <2> QED BY <2>3, <2>4 DEF Content, HeadOf
<1>9. EndsAround(g)'
  <2>1. ASSUME NEW i \in 1..(g.of - 1)
        PROVE  i \in DOMAIN ends' /\ ends'[i] <= g.start
    BY <1>2, <1>3 DEF EndsAround, Grows
  <2>2. ASSUME Ended(g)' PROVE g.of \in DOMAIN ends' /\ ends'[g.of] = EndOf(g)
    BY <1>2, <1>3, <1>5, <2>2 DEF EndsAround, Grows
  <2>3. ASSUME NEW i \in DOMAIN ends', i > g.of \/ (i = g.of /\ ~Ended(g)')
        PROVE  ends'[i] > EndOf(g)
    <3>1. CASE i \in DOMAIN ends
      <4>1. ends[i] > EndOf(g)
        BY <1>5, <2>3, <3>1 DEF EndsAround
      <4> QED BY <1>2, <3>1, <4>1 DEF Grows
    <3>2. CASE i \notin DOMAIN ends
      <4>1. i \in 1..Len(ends') /\ i > Len(ends)
        BY <1>2, <1>3, <3>2
      <4>2. ends'[i] > Len(file)
        BY <4>1 DEF Grows
      <4>3. ends'[i] \in Nat
        BY <1>3, <4>1
      <4> QED BY <1>1, <1>2, <1>6, <4>2, <4>3
    <3> QED BY <3>1, <3>2
  <2> QED BY <2>1, <2>2, <2>3 DEF EndsAround, EndOf
<1> QED BY <1>4, <1>5, <1>7, <1>8, <1>9

LEMMA WrittenKept ==
  ASSUME LogTypeOK, LogTypeOK', Grows, NEW fs \in Seq(Fragments), Written(fs)
  PROVE  /\ Written(fs)'
         /\ \A k \in 1..(Len(fs) + 1) : Turn(fs, k)' = Turn(fs, k)
         /\ NextOf(fs)' = NextOf(fs)
<1>1. Len(fs) \in Nat /\ DOMAIN fs = 1..Len(fs)
  BY LenProperties
<1>2. ASSUME NEW k \in 1..Len(fs)
      PROVE  /\ fs[k] \in Fragments /\ Takes(fs[k], Turn(fs, k))
             /\ Placed(fs[k])' /\ Content(fs[k])' /\ EndsAround(fs[k])'
             /\ sizes'[fs[k].of] = sizes[fs[k].of]
  <2>1. fs[k] \in Fragments
    BY ElementOfSeq
  <2>2. /\ Takes(fs[k], Turn(fs, k)) /\ Placed(fs[k]) /\ Content(fs[k])
        /\ EndsAround(fs[k])
    BY <1>1 DEF Written
  <2> QED BY <2>1, <2>2, FragmentKept
<1>3. ASSUME NEW k \in 1..(Len(fs) + 1) PROVE Turn(fs, k)' = Turn(fs, k)
  BY <1>2, TurnSame
<1>4. Written(fs)'
  <2> SUFFICES ASSUME NEW k \in DOMAIN fs
               PROVE  /\ Takes(fs[k], Turn(fs, k)')
                      /\ Placed(fs[k])' /\ Content(fs[k])' /\ EndsAround(fs[k])'
    BY DEF Written, Takes
  <2>1. k \in 1..Len(fs) /\ k \in 1..(Len(fs) + 1)
    BY <1>1
  <2>2. Turn(fs, k)' = Turn(fs, k)
    BY <1>3, <2>1
  <2> QED BY <1>2, <2>1, <2>2
<1>5. NextOf(fs)' = NextOf(fs)
  <2>1. Len(fs) + 1 \in 1..(Len(fs) + 1)
    BY <1>1
  <2> QED BY <1>3, <2>1 DEF NextOf
<1> QED BY <1>3, <1>4, <1>5

(* The writer.                                                              *)

LEMMA TurnOfSizes ==
  ASSUME NEW fs, NEW k, sizes' = sizes
  PROVE  Turn(fs, k)' = Turn(fs, k) /\ NextOf(fs)' = NextOf(fs)
<1>1. \A g : Ended(g)' = Ended(g) /\ Full(g)' = Full(g) /\ EndOf(g)' = EndOf(g)
  BY DEF Ended, Full, EndOf
<1> QED BY <1>1 DEF Turn, NextOf

\* The last fragment, and what follows it.
LEMMA AfterLast ==
  ASSUME NEW fs \in Seq(Fragments), Written(fs), fs # <<>>
  PROVE  LET g == LastOf(fs)
             t == NextOf(fs)
         IN  /\ g \in Fragments /\ Placed(g) /\ Content(g) /\ EndsAround(g)
             /\ Full(g) => t.block = g.block + BlockSize /\ t.start = g.block + BlockSize
             /\ ~Full(g) => t.block = g.block /\ t.start = EndOf(g)
             /\ Ended(g) => t.of = g.of + 1 /\ t.from = 0 /\ t.created = FALSE
             /\ ~Ended(g) => /\ t.of = g.of /\ t.from = g.from + g.length
                             /\ t.created = TRUE
<1>1. Len(fs) \in Nat \ {0} /\ Len(fs) \in 1..Len(fs) /\ DOMAIN fs = 1..Len(fs)
  BY EmptySeq, LenProperties
<1>2. LastOf(fs) \in Fragments
  BY <1>1, ElementOfSeq DEF LastOf
<1>3. Placed(LastOf(fs)) /\ Content(LastOf(fs)) /\ EndsAround(LastOf(fs))
  BY <1>1 DEF Written, LastOf
<1> QED BY <1>1, <1>2, <1>3, TurnAfter, Zenon DEF LastOf, NextOf

LEMMA BeforeFirst ==
  ASSUME NEW fs \in Seq(Fragments), fs = <<>>
  PROVE  /\ NextOf(fs).block = 0 /\ NextOf(fs).start = 0 /\ NextOf(fs).of = 1
         /\ NextOf(fs).from = 0 /\ NextOf(fs).created = FALSE
<1>1. Len(fs) + 1 = 1
  OBVIOUS
<1> QED BY <1>1, TurnFirst DEF NextOf

\* Where a fragment is, or would be.
LEMMA TurnPlace ==
  ASSUME NEW fs \in Seq(Fragments), Written(fs), NEW k \in 1..(Len(fs) + 1),
         NEW t, t = Turn(fs, k)
  PROVE  /\ t.block <= t.start /\ t.start + HeaderSize <= t.block + BlockSize
         /\ t.created => t.start = t.block /\ t.start >= BlockSize
         /\ ~t.created => t.from = 0
<1>0. Len(fs) \in Nat /\ DOMAIN fs = 1..Len(fs)
  BY LenProperties
<1>1. CASE k = 1
  <2>1. t.block = 0 /\ t.start = 0 /\ t.from = 0
    BY <1>1, TurnFirst
  <2>2. t.created = FALSE
    BY <1>1, TurnFirst
  <2> QED BY <2>1, <2>2, LogConstants
<1>2. CASE k # 1
  <2>1. k - 1 \in 1..Len(fs) /\ k - 1 \in Nat \ {0} /\ (k - 1) + 1 = k
    BY <1>0, <1>2
  <2>2. PICK g : g = fs[k - 1]
    OBVIOUS
  <2>3. g \in Fragments /\ Placed(g)
    BY <1>0, <2>1, <2>2, ElementOfSeq DEF Written
  <2>4. /\ Full(g) => t.block = g.block + BlockSize /\ t.start = g.block + BlockSize
        /\ ~Full(g) => t.block = g.block /\ t.start = EndOf(g)
        /\ Ended(g) => t.created = FALSE /\ t.from = 0
        /\ ~Ended(g) => t.created = TRUE
    <3>1. /\ Full(fs[k - 1]) => /\ Turn(fs, (k - 1) + 1).block = fs[k - 1].block + BlockSize
                                /\ Turn(fs, (k - 1) + 1).start = fs[k - 1].block + BlockSize
          /\ ~Full(fs[k - 1]) => /\ Turn(fs, (k - 1) + 1).block = fs[k - 1].block
                                 /\ Turn(fs, (k - 1) + 1).start = EndOf(fs[k - 1])
          /\ Ended(fs[k - 1]) => /\ Turn(fs, (k - 1) + 1).created = FALSE
                                 /\ Turn(fs, (k - 1) + 1).from = 0
          /\ ~Ended(fs[k - 1]) => Turn(fs, (k - 1) + 1).created = TRUE
      BY <2>1, TurnAfter, ZenonT(30)
    <3> QED BY <2>1, <2>2, <3>1
  <2>5. /\ g.block \in Nat /\ g.start \in Nat /\ g.length \in Nat /\ EndOf(g) \in Nat
        /\ EndOf(g) = g.start + HeaderSize + g.length
    BY <2>3, FragmentType DEF EndOf
  <2>6. /\ g.block <= g.start /\ EndOf(g) <= g.block + BlockSize
        /\ ~Ended(g) => EndOf(g) = g.block + BlockSize
    BY <2>3 DEF Placed
  <2>7. Full(g) <=> g.block + BlockSize - EndOf(g) < HeaderSize
    BY DEF Full
  <2>8. t.block <= t.start /\ t.start + HeaderSize <= t.block + BlockSize
    <3>1. CASE Full(g)
      BY <2>4, <2>5, <3>1, LogConstants, SMTT(30)
    <3>2. CASE ~Full(g)
      <4>1. t.block = g.block /\ t.start = EndOf(g)
        BY <2>4, <3>2
      <4>2. g.block + BlockSize - EndOf(g) >= HeaderSize
        BY <2>5, <2>7, <3>2, LogConstants
      <4> QED BY <2>5, <2>6, <4>1, <4>2, LogConstants, SMTT(30)
    <3> QED BY <3>1, <3>2
  <2>9. ASSUME t.created PROVE t.start = t.block /\ t.start >= BlockSize
    <3>1. ~Ended(g)
      BY <2>4, <2>9
    <3>2. Full(g)
      BY <2>5, <2>6, <2>7, <3>1, LogConstants
    <3> QED BY <2>4, <2>5, <3>2, LogConstants
  <2>10. ~t.created => t.from = 0
    BY <2>4
  <2> QED BY <2>8, <2>9, <2>10
<1> QED BY <1>1, <1>2

LEMMA NextPlace ==
  ASSUME NEW fs \in Seq(Fragments), Written(fs)
  PROVE  /\ NextOf(fs).block <= NextOf(fs).start
         /\ NextOf(fs).start + HeaderSize <= NextOf(fs).block + BlockSize
         /\ NextOf(fs).created => /\ NextOf(fs).start = NextOf(fs).block
                                  /\ NextOf(fs).start >= BlockSize
<1>1. Len(fs) + 1 \in 1..(Len(fs) + 1)
  BY LenProperties
<1> QED BY <1>1, TurnPlace DEF NextOf

\* A record begins where the one before has ended.
LEMMA NextRecord ==
  ASSUME LogTypeOK, NEW fs \in Seq(Fragments), Written(fs), WriterInv(fs), Left = 0
  PROVE  NextOf(fs).from = 0 /\ NextOf(fs).created = FALSE
<1>1. CASE fs = <<>>
  BY <1>1, BeforeFirst
<1>2. CASE fs # <<>>
  <2> DEFINE g == LastOf(fs)
  <2>1. /\ g \in Fragments /\ Placed(g)
        /\ Ended(g) => NextOf(fs).from = 0 /\ NextOf(fs).created = FALSE
        /\ ~Ended(g) => NextOf(fs).of = g.of
    BY <1>2, AfterLast
  <2>2. g.of \in 1..Len(sizes) /\ Len(sizes) \in Nat
    BY <2>1, LengthTypes DEF Placed
  <2>3. NextOf(fs).of = Len(sizes) + 1
    BY DEF WriterInv
  <2> HIDE DEF g
  <2> QED BY <2>1, <2>2, <2>3
<1> QED BY <1>1, <1>2

\* Where the writer stands when there is room for a header.
LEMMA WriterPlace ==
  ASSUME LogTypeOK, NEW fs \in Seq(Fragments), Written(fs), OffsetInv(fs),
         ~Switches, writers = 1 \/ Len(file) + HeaderSize <= BlockSize
  PROVE  /\ Len(file) = NextOf(fs).start
         /\ writers = 1 => Len(file) = NextOf(fs).block + blockOffset
         /\ writers # 1 => NextOf(fs).block = 0 /\ blockOffset < Len(file)
<1> DEFINE t == NextOf(fs)
           g == LastOf(fs)
<1>1. /\ writers \in Nat \ {0} /\ blockOffset \in Nat /\ Len(file) \in Nat
      /\ Leftover = BlockSize - blockOffset /\ Leftover >= HeaderSize
  BY LogConstants DEF LogTypeOK, Leftover, Switches
<1>2. t.block \in Nat /\ t.start \in Nat
  BY NextType
<1>3. /\ writers = 1 =>
           \/ fs # <<>> /\ Len(file) = EndOf(g) /\ blockOffset = Len(file) - g.block
           \/ Len(file) = t.start /\ t.start = t.block /\ blockOffset = 0
      /\ writers > 1 =>
           fs # <<>> /\ g.block = 0 /\ Len(file) = EndOf(g) /\ blockOffset < Len(file)
  BY DEF OffsetInv
<1>4. ASSUME fs # <<>>
      PROVE  /\ g \in Fragments /\ g.block \in Nat /\ EndOf(g) \in Nat
             /\ EndOf(g) + HeaderSize <= g.block + BlockSize =>
                  t.block = g.block /\ t.start = EndOf(g)
  <2>1. g \in Fragments /\ (~Full(g) => t.block = g.block /\ t.start = EndOf(g))
    BY <1>4, AfterLast
  <2>2. g.block \in Nat /\ EndOf(g) \in Nat
    BY <2>1, FragmentType
  <2> HIDE DEF g, t
  <2> QED BY <2>1, <2>2, LogConstants DEF Full
<1> HIDE DEF g, t
<1>5. CASE writers = 1
  <2>1. CASE fs # <<>> /\ Len(file) = EndOf(g) /\ blockOffset = Len(file) - g.block
    <3>1. EndOf(g) + HeaderSize <= g.block + BlockSize
      BY <1>1, <1>4, <2>1, LogConstants, SMTT(30)
    <3> QED BY <1>1, <1>4, <1>5, <2>1, <3>1 DEF t
  <2>2. CASE Len(file) = t.start /\ t.start = t.block /\ blockOffset = 0
    BY <1>1, <1>2, <1>5, <2>2 DEF t
  <2> QED BY <1>3, <1>5, <2>1, <2>2
<1>6. CASE writers # 1
  <2>1. /\ fs # <<>> /\ g.block = 0 /\ Len(file) = EndOf(g)
        /\ blockOffset < Len(file) /\ Len(file) + HeaderSize <= BlockSize
    BY <1>1, <1>3, <1>6
  <2>2. EndOf(g) + HeaderSize <= g.block + BlockSize
    BY <1>1, <2>1, LogConstants
  <2> QED BY <1>4, <1>6, <2>1, <2>2 DEF t
<1> QED BY <1>5, <1>6

LEMMA Appended ==
  ASSUME NEW f \in Seq(Cells), NEW x \in Seq(Cells)
  PROVE  /\ Len(f) \in Nat /\ Len(x) \in Nat
         /\ Len(f \o x) = Len(f) + Len(x)
         /\ \A i \in 1..Len(f) : (f \o x)[i] = f[i]
         /\ \A i \in 1..Len(x) : (f \o x)[Len(f) + i] = x[i]
<1>1. Len(f) \in Nat /\ Len(x) \in Nat
  OBVIOUS
<1>2. /\ Len(f \o x) = Len(f) + Len(x)
      /\ \A i \in 1..(Len(f) + Len(x)) :
           (f \o x)[i] = IF i <= Len(f) THEN f[i] ELSE x[i - Len(f)]
  BY ConcatProperties
<1>3. ASSUME NEW i \in 1..Len(f) PROVE (f \o x)[i] = f[i]
  <2>1. i \in 1..(Len(f) + Len(x)) /\ i <= Len(f)
    BY <1>1
  <2> QED BY <1>2, <2>1
<1>4. ASSUME NEW i \in 1..Len(x) PROVE (f \o x)[Len(f) + i] = x[i]
  <2>1. Len(f) + i \in 1..(Len(f) + Len(x)) /\ ~(Len(f) + i <= Len(f))
        /\ (Len(f) + i) - Len(f) = i
    BY <1>1
  <2> QED BY <1>2, <2>1
<1> QED BY <1>1, <1>2, <1>3, <1>4

\* Nothing but the writer's own variables: what was written stays.
LEMMA OnlyGrows ==
  ASSUME LogTypeOK, LogTypeOK',
         /\ Len(file) <= Len(file') /\ \A i \in 1..Len(file) : file'[i] = file[i],
         /\ Len(sizes) <= Len(sizes') /\ \A i \in 1..Len(sizes) : sizes'[i] = sizes[i],
         ends' = ends
  PROVE  Grows
<1>1. Len(ends) \in Nat
  BY LengthTypes
<1> QED BY <1>1 DEF Grows

LEMMA AddRecordKeeps ==
  ASSUME LogTypeOK, LogTypeOK', NEW size \in Sizes, AddRecord(size),
         NEW fs \in Seq(Fragments), Written(fs), WriterInv(fs), OffsetInv(fs)
  PROVE  Grows /\ Written(fs)' /\ WriterInv(fs)' /\ OffsetInv(fs)'
<1>1. /\ Left = 0 /\ sizes' = Append(sizes, size) /\ position' = 0 /\ created' = FALSE
      /\ UNCHANGED <<file, blockOffset, ends, writers>>
  BY DEF AddRecord
<1>2. size \in Nat \ {0} /\ sizes \in Seq(Nat \ {0}) /\ Len(sizes) \in Nat
  BY LogConstants DEF LogTypeOK
<1>3. /\ Len(sizes') = Len(sizes) + 1 /\ sizes'[Len(sizes) + 1] = size
      /\ sizes' # <<>> /\ \A i \in 1..Len(sizes) : sizes'[i] = sizes[i]
  BY <1>1, <1>2, AppendProperties
<1>4. Grows
  <2>1. Len(file) \in Nat /\ Len(file) <= Len(file')
    BY <1>1, LengthTypes
  <2>2. Len(sizes) <= Len(sizes')
    BY <1>2, <1>3
  <2> QED BY <1>1, <1>3, <2>1, <2>2, OnlyGrows
<1>5. /\ Written(fs)' /\ NextOf(fs)' = NextOf(fs)
  BY <1>4, WrittenKept
<1>6. NextOf(fs).from = 0 /\ NextOf(fs).created = FALSE
  BY <1>1, NextRecord
<1>7. Left' = size /\ Left' > 0
  <2>1. Left' = size - 0
    BY <1>1, <1>3 DEF Left, Last
  <2> QED BY <1>2, <2>1
<1>8. WriterInv(fs)'
  <2>1. NextOf(fs).of = Len(sizes) + 1
    BY <1>1 DEF WriterInv
  <2>2. /\ Len(ends') = NextOf(fs)'.of - 1
        /\ \A i \in DOMAIN ends' : ends'[i] <= NextOf(fs)'.start
    BY <1>1, <1>5 DEF WriterInv
  <2>3. /\ NextOf(fs)'.of = Len(sizes') /\ NextOf(fs)'.from = position'
        /\ NextOf(fs)'.created = created'
    BY <1>1, <1>3, <1>5, <1>6, <2>1
  <2> QED BY <1>7, <2>2, <2>3 DEF WriterInv
<1>9. OffsetInv(fs)'
  BY <1>1, <1>5, <1>7 DEF OffsetInv, LastOf, EndOf
<1> QED BY <1>4, <1>5, <1>8, <1>9

\* Behind the switch the file ends where the next block begins.
LEMMA SwitchKeeps ==
  ASSUME LogTypeOK, LogTypeOK', SwitchBlock, OneBlockOrWriter',
         NEW fs \in Seq(Fragments), Written(fs), WriterInv(fs), OffsetInv(fs)
  PROVE  Grows /\ Written(fs)' /\ WriterInv(fs)' /\ OffsetInv(fs)'
<1>1. /\ Left > 0 /\ Switches /\ file' = file \o Trailer /\ blockOffset' = 0
      /\ UNCHANGED <<sizes, ends, position, created, writers>>
  BY DEF SwitchBlock
<1>2. /\ file \in Seq(Cells) /\ Trailer \in Seq(Cells) /\ Len(Trailer) = Leftover
      /\ Leftover \in Nat /\ Len(file) \in Nat /\ Leftover < HeaderSize
      /\ Leftover = BlockSize - blockOffset /\ blockOffset \in Nat
      /\ writers \in Nat \ {0}
  <2>1. file \in Seq(Cells) /\ blockOffset \in Nat /\ writers \in Nat \ {0}
    BY DEF LogTypeOK
  <2>2. Trailer \in Seq(Cells) /\ Len(Trailer) = Leftover /\ Leftover \in Nat
    BY TrailerIs
  <2>3. Len(file) \in Nat
    BY <2>1, LenProperties
  <2>4. Leftover < HeaderSize /\ Leftover = BlockSize - blockOffset
    BY <1>1 DEF Switches, Leftover
  <2> QED BY <2>1, <2>2, <2>3, <2>4
<1>3. /\ Len(file') = Len(file) + Leftover /\ \A i \in 1..Len(file) : file'[i] = file[i]
  BY <1>1, <1>2, Appended
<1>4. Grows
  <2>1. Len(file) <= Len(file') /\ Len(sizes) \in Nat /\ Len(sizes) <= Len(sizes')
    BY <1>1, <1>2, <1>3, LengthTypes
  <2> QED BY <1>1, <1>3, <2>1, OnlyGrows
<1>5. Written(fs)' /\ NextOf(fs)' = NextOf(fs)
  BY <1>4, WrittenKept
<1>6. Left' = Left
  BY <1>1 DEF Left
<1>7. WriterInv(fs)'
  BY <1>1, <1>5, <1>6 DEF WriterInv
<1> DEFINE t == NextOf(fs)
           g == LastOf(fs)
<1>8. fs # <<>> =>
        /\ g \in Fragments /\ g.block \in Nat /\ EndOf(g) \in Nat
        /\ Full(g) => t.block = g.block + BlockSize /\ t.start = g.block + BlockSize
  BY AfterLast, FragmentType
<1>9. /\ writers = 1 =>
           \/ fs # <<>> /\ Len(file) = EndOf(g) /\ blockOffset = Len(file) - g.block
           \/ Len(file) = t.start /\ t.start = t.block /\ blockOffset = 0
      /\ writers > 1 => blockOffset < Len(file)
  BY DEF OffsetInv
<1>10. writers = 1
  <2>1. SUFFICES ASSUME writers # 1 PROVE FALSE
    OBVIOUS
  <2>2. Len(file') <= BlockSize
    BY <1>1, <2>1 DEF OneBlockOrWriter
  <2> QED BY <1>2, <1>3, <1>9, <2>1, <2>2, LogConstants
<1>11. fs # <<>> /\ Len(file) = EndOf(g) /\ blockOffset = Len(file) - g.block
  BY <1>2, <1>9, <1>10, LogConstants
<1>12. g.block + BlockSize - EndOf(g) < HeaderSize
  <2> HIDE DEF g
  <2> QED BY <1>2, <1>8, <1>11, LogConstants
<1>13. Len(file') = t.start /\ t.start = t.block
  <2>1. Full(g)
    BY <1>12 DEF Full
  <2>2. t.start = g.block + BlockSize /\ t.block = g.block + BlockSize
    BY <1>8, <1>11, <2>1
  <2>3. PICK b : b = g.block /\ b \in Nat
    BY <1>8, <1>11
  <2>4. Len(file') = b + BlockSize
    <3>1. Leftover = BlockSize - (Len(file) - b)
      BY <1>2, <1>11, <2>3
    <3>2. Len(file') = Len(file) + Leftover /\ Len(file) \in Nat
      BY <1>2, <1>3
    <3>3. PICK n : n = Len(file) /\ n \in Nat
      BY <3>2
    <3>4. Leftover = BlockSize - (n - b) /\ Len(file') = n + Leftover
      BY <3>1, <3>2, <3>3
    <3> QED BY <2>3, <3>3, <3>4, LogConstants
  <2> QED BY <2>2, <2>3, <2>4
<1>14. OffsetInv(fs)'
  <2>1. Len(file') <= NextOf(fs)'.start
    <3>1. Len(file') \in Nat
      BY <1>2, <1>3
    <3> QED BY <1>5, <1>13, <3>1
  <2> QED BY <1>1, <1>5, <1>6, <1>10, <1>13, <2>1 DEF OffsetInv
<1> QED BY <1>4, <1>5, <1>7, <1>14

\* Before a fragment can be written the file has room for its header.
LEMMA EmitPlace ==
  ASSUME LogTypeOK, LogTypeOK', EmitPhysicalRecord, OneBlockOrWriter',
         NEW fs \in Seq(Fragments), Written(fs), OffsetInv(fs)
  PROVE  /\ file' = file \o Fragment /\ Len(file) \in Nat
         /\ Len(file') = Len(file) + HeaderSize + FragmentLength
         /\ \A i \in 1..Len(file) : file'[i] = file[i]
         /\ \A i \in 1..(HeaderSize + FragmentLength) :
              file'[Len(file) + i] = Fragment[i]
         /\ Len(file) = NextOf(fs).start
         /\ writers = 1 => Len(file) = NextOf(fs).block + blockOffset
         /\ writers # 1 => /\ NextOf(fs).block = 0 /\ blockOffset < Len(file)
                           /\ Len(file') <= BlockSize
<1>1. Left > 0 /\ ~Switches /\ file' = file \o Fragment /\ writers' = writers
  BY DEF EmitPhysicalRecord
<1>2. /\ FragmentLength \in Nat /\ Fragment \in Seq(Cells) /\ file \in Seq(Cells)
      /\ Len(Fragment) = HeaderSize + FragmentLength
  BY <1>1, FragmentIs DEF LogTypeOK
<1>3. /\ Len(file) \in Nat /\ Len(file') = Len(file) + (HeaderSize + FragmentLength)
      /\ \A i \in 1..Len(file) : file'[i] = file[i]
      /\ \A i \in 1..(HeaderSize + FragmentLength) : file'[Len(file) + i] = Fragment[i]
  BY <1>1, <1>2, Appended
<1>4. writers # 1 => Len(file') <= BlockSize
  BY <1>1 DEF OneBlockOrWriter
<1>5. writers = 1 \/ Len(file) + HeaderSize <= BlockSize
  BY <1>2, <1>3, <1>4, LogConstants
<1>6. /\ Len(file) = NextOf(fs).start
      /\ writers = 1 => Len(file) = NextOf(fs).block + blockOffset
      /\ writers # 1 => NextOf(fs).block = 0 /\ blockOffset < Len(file)
  BY <1>1, <1>5, WriterPlace
<1>7. Len(file') = Len(file) + HeaderSize + FragmentLength
  BY <1>2, <1>3, LogConstants
<1> QED BY <1>1, <1>3, <1>4, <1>6, <1>7

NewFragment(fs) ==
  [block |-> NextOf(fs).block, start |-> NextOf(fs).start, of |-> Len(sizes),
   from |-> position, length |-> FragmentLength, created |-> created]

LEMMA NewFragmentIs ==
  ASSUME LogTypeOK, Left > 0, ~Switches, NEW fs \in Seq(Fragments)
  PROVE  LET g == NewFragment(fs)
         IN  /\ g \in Fragments /\ g.block = NextOf(fs).block
             /\ g.start = NextOf(fs).start /\ g.of = Len(sizes)
             /\ g.from = position /\ g.length = FragmentLength /\ g.created = created
             /\ EndOf(g) = NextOf(fs).start + HeaderSize + FragmentLength
             /\ Ended(g) <=> FragmentLength = Left
             /\ g.of \in 1..Len(sizes)
             /\ g.from + g.length <= sizes[g.of]
<1> DEFINE g == NewFragment(fs)
<1>1. /\ FragmentLength \in Nat /\ FragmentLength <= Left /\ position \in Nat
      /\ created \in BOOLEAN /\ Left \in Nat
      /\ Len(sizes) \in 1..Len(sizes) /\ Len(sizes) \in Nat
      /\ Left = sizes[Len(sizes)] - position /\ sizes[Len(sizes)] \in Nat
  BY FragmentIs, LeftType DEF LogTypeOK
<1>2. NextOf(fs).block \in BlockStarts /\ NextOf(fs).start \in Nat
  BY NextType
<1>3. g \in Fragments
  <2>1. Len(sizes) \in Nat \ {0}
    BY <1>1
  <2> QED BY <1>1, <1>2, <2>1 DEF NewFragment, Fragments
<1>4. /\ g.block = NextOf(fs).block /\ g.start = NextOf(fs).start /\ g.of = Len(sizes)
      /\ g.from = position /\ g.length = FragmentLength /\ g.created = created
  BY DEF NewFragment
<1> HIDE DEF g
<1>5. EndOf(g) = NextOf(fs).start + HeaderSize + FragmentLength
  BY <1>4 DEF EndOf
<1>6. Ended(g) <=> FragmentLength = Left
  <2>1. Ended(g) <=> position + FragmentLength = sizes[Len(sizes)]
    BY <1>4 DEF Ended
  <2> QED BY <1>1, <2>1
<1>7. g.of \in 1..Len(sizes) /\ g.from + g.length <= sizes[g.of]
  BY <1>1, <1>4
<1> QED BY <1>3, <1>4, <1>5, <1>6, <1>7 DEF g

\* The new fragment as the next state has it.
LEMMA EmitWrites ==
  ASSUME LogTypeOK, LogTypeOK', EmitPhysicalRecord, OneBlockOrWriter',
         NEW fs \in Seq(Fragments), Written(fs), WriterInv(fs), OffsetInv(fs),
         NEW g, g = NewFragment(fs)
  PROVE  Grows /\ Placed(g)' /\ Content(g)' /\ EndsAround(g)'
<1>0. PICK n, t : n = FragmentLength /\ t = NextOf(fs)
  OBVIOUS
<1>1. /\ Left > 0 /\ ~Switches /\ sizes' = sizes
      /\ ends' = IF position' = Last(sizes) THEN Append(ends, Len(file')) ELSE ends
      /\ position' = position + Len(Fragment) - HeaderSize
  BY DEF EmitPhysicalRecord
<1>2. /\ Len(file) \in Nat /\ Len(file') = Len(file) + HeaderSize + n
      /\ \A i \in 1..Len(file) : file'[i] = file[i]
      /\ \A i \in 1..(HeaderSize + n) : file'[Len(file) + i] = Fragment[i]
      /\ Len(file) = t.start
      /\ writers = 1 => Len(file) = t.block + blockOffset
      /\ writers # 1 => /\ t.block = 0 /\ blockOffset < Len(file)
                        /\ Len(file') <= BlockSize
  BY <1>0, EmitPlace
<1>3. /\ n \in Nat /\ n <= Left /\ blockOffset + HeaderSize + n <= BlockSize
      /\ n # Left => blockOffset + HeaderSize + n = BlockSize
      /\ Len(Fragment) = HeaderSize + n
  BY <1>0, <1>1, FragmentIs
<1>4. /\ Fragment[HeaderSize] = HeadOf(created, n = Left, n)
      /\ \A i \in 1..n : Fragment[HeaderSize + i]
           = [kind |-> "data", of |-> Len(sizes), at |-> position + i]
  BY <1>0, <1>1, FragmentIs
<1>5. /\ g \in Fragments /\ g.block = t.block /\ g.start = t.start
      /\ g.of = Len(sizes) /\ g.from = position /\ g.length = n
      /\ EndOf(g) = t.start + HeaderSize + n
      /\ g.of \in 1..Len(sizes) /\ g.from + g.length <= sizes[g.of]
  BY <1>0, <1>1, NewFragmentIs
<1>6. g.created = created /\ (Ended(g) <=> n = Left)
  BY <1>0, <1>1, NewFragmentIs
<1>7. /\ Left \in Nat /\ Len(sizes) \in Nat /\ Last(sizes) = sizes[Len(sizes)]
      /\ Left = sizes[Len(sizes)] - position /\ sizes[Len(sizes)] \in Nat
      /\ position \in Nat /\ blockOffset \in Nat
  <2>1. Len(sizes) \in 1..Len(sizes)
    BY <1>1, LeftType
  <2>2. sizes[Len(sizes)] \in Nat
    BY <2>1, LeftType
  <2>3. position \in Nat /\ blockOffset \in Nat
    BY LogConstants DEF LogTypeOK
  <2> QED BY <1>1, <2>2, <2>3, LeftType
<1>8. /\ Len(ends) \in Nat /\ DOMAIN sizes = 1..Len(sizes) /\ DOMAIN ends = 1..Len(ends)
      /\ ends \in Seq(Nat)
  BY LengthTypes DEF LogTypeOK
<1>9. t.block \in Nat /\ t.start \in Nat /\ t.block <= t.start
  BY <1>0, NextType, NextPlace
<1>10. position' = position + n
  BY <1>1, <1>3, <1>7, LogConstants
<1>11. Len(ends) = Len(sizes) - 1 /\ \A i \in DOMAIN ends : ends[i] <= t.start
  BY <1>0, <1>1, <1>7, <1>8 DEF WriterInv
<1>12. EndOf(g) = Len(file') /\ EndOf(g)' = EndOf(g)
  BY <1>2, <1>3, <1>5, LogConstants DEF EndOf
<1>13. Ended(g)' <=> Ended(g)
  BY <1>1 DEF Ended
<1>14. Len(file') \in Nat /\ Len(file') > Len(file)
  BY <1>2, <1>3, LogConstants
<1>15. /\ n = Left => ends' = Append(ends, Len(file'))
       /\ n # Left => ends' = ends
  BY <1>1, <1>3, <1>7, <1>10
<1>16. n = Left => /\ Len(ends') = Len(ends) + 1 /\ ends'[Len(ends) + 1] = Len(file')
                   /\ \A i \in 1..Len(ends) : ends'[i] = ends[i]
  <2>1. SUFFICES ASSUME n = Left
                 PROVE  /\ Len(ends') = Len(ends) + 1 /\ ends'[Len(ends) + 1] = Len(file')
                        /\ \A i \in 1..Len(ends) : ends'[i] = ends[i]
    OBVIOUS
  <2>2. ends' = Append(ends, Len(file'))
    BY <1>15, <2>1
  <2> QED BY <1>8, <1>14, <2>2, AppendProperties
<1>17. Len(ends') \in Nat /\ DOMAIN ends' = 1..Len(ends')
  <2>1. ends' \in Seq(Nat)
    BY DEF LogTypeOK
  <2> QED BY <2>1, LenProperties
<1>18. Grows
  <2>1. CASE n = Left
    <3>1. Len(ends) <= Len(ends') /\ \A i \in 1..Len(ends) : ends'[i] = ends[i]
      BY <1>8, <1>16, <2>1
    <3>2. \A i \in 1..Len(ends') : i > Len(ends) => ends'[i] > Len(file)
      BY <1>8, <1>14, <1>16, <2>1
    <3> QED BY <1>1, <1>2, <1>7, <1>14, <3>1, <3>2, SMTT(30) DEF Grows
  <2>2. CASE n # Left
    <3>1. ends' = ends
      BY <1>15, <2>2
    <3>2. Len(file) <= Len(file') /\ \A i \in 1..Len(file) : file'[i] = file[i]
      BY <1>2, <1>14
    <3>3. Len(sizes) <= Len(sizes') /\ \A i \in 1..Len(sizes) : sizes'[i] = sizes[i]
      BY <1>1, <1>7
    <3> QED BY <3>1, <3>2, <3>3, OnlyGrows
  <2> QED BY <2>1, <2>2
<1>19. Placed(g)'
  <2>1. g.block <= g.start
    BY <1>5, <1>9
  <2>2. EndOf(g) <= g.block + BlockSize
    <3>1. CASE writers = 1
      BY <1>2, <1>3, <1>5, <1>7, <1>9, <3>1, LogConstants, SMTT(30)
    <3>2. CASE writers # 1
      BY <1>2, <1>5, <1>9, <1>12, <1>14, <3>2, LogConstants
    <3> QED BY <3>1, <3>2
  <2>3. ~Ended(g) => EndOf(g) = g.block + BlockSize
    <3>1. SUFFICES ASSUME n # Left PROVE EndOf(g) = g.block + BlockSize
      BY <1>6
    <3>2. blockOffset + HeaderSize + n = BlockSize
      BY <1>3, <3>1
    <3>3. writers = 1
      BY <1>2, <1>3, <1>7, <3>2, LogConstants
    <3>4. t.start = t.block + blockOffset
      BY <1>2, <3>3
    <3>5. EndOf(g) = t.block + blockOffset + HeaderSize + n
      BY <1>5, <3>4
    <3>6. t.block + blockOffset + HeaderSize + n = t.block + (blockOffset + HeaderSize + n)
      BY <1>3, <1>7, <1>9, LogConstants
    <3> QED BY <1>5, <3>2, <3>5, <3>6
  <2>4. g.of \in DOMAIN sizes' /\ g.from + g.length <= sizes'[g.of]
    BY <1>1, <1>5, <1>8
  <2>5. EndOf(g) <= Len(file')
    BY <1>12, <1>14
  <2> QED BY <1>12, <1>13, <2>1, <2>2, <2>3, <2>4, <2>5 DEF Placed
<1>20. Content(g)'
  <2>1. file'[g.start + HeaderSize] = HeadOf(g.created, Ended(g), g.length)
    <3>1. HeaderSize \in 1..(HeaderSize + n) /\ Len(file) + HeaderSize = g.start + HeaderSize
      BY <1>2, <1>3, <1>5, LogConstants
    <3>2. file'[g.start + HeaderSize] = HeadOf(created, n = Left, n)
      BY <1>2, <1>4, <3>1
    <3>3. (n = Left) = Ended(g)
      BY <1>6 DEF Ended
    <3> QED BY <1>5, <1>6, <3>2, <3>3
  <2>2. ASSUME NEW i \in 1..g.length
        PROVE  file'[g.start + HeaderSize + i]
                 = [kind |-> "data", of |-> g.of, at |-> g.from + i]
    <3>1. HeaderSize + i \in 1..(HeaderSize + n) /\ i \in 1..n
          /\ Len(file) + (HeaderSize + i) = g.start + HeaderSize + i
      BY <1>2, <1>3, <1>5, LogConstants, SMTT(30)
    <3>2. file'[g.start + HeaderSize + i] = Fragment[HeaderSize + i]
      BY <1>2, <3>1
    <3> QED BY <1>4, <1>5, <3>1, <3>2
  <2>3. Ended(g)' = Ended(g)
    BY <1>1 DEF Ended
  <2> QED BY <2>1, <2>2, <2>3 DEF Content, HeadOf, RecordType
<1>21. EndsAround(g)'
  <2>1. ASSUME NEW i \in 1..(g.of - 1) PROVE i \in DOMAIN ends' /\ ends'[i] <= g.start
    <3>1. i \in DOMAIN ends /\ i \in 1..Len(ends)
      BY <1>5, <1>7, <1>8, <1>11
    <3>2. ends[i] <= t.start
      BY <1>11, <3>1
    <3>3. i \in 1..Len(ends') /\ ends'[i] = ends[i]
      BY <1>8, <1>15, <1>16, <3>1
    <3> QED BY <1>5, <1>17, <3>2, <3>3
  <2>2. Ended(g) => g.of \in DOMAIN ends' /\ ends'[g.of] = EndOf(g)
    <3>1. SUFFICES ASSUME n = Left
                   PROVE  g.of \in DOMAIN ends' /\ ends'[g.of] = EndOf(g)
      BY <1>6
    <3>2. Len(ends') = Len(ends) + 1 /\ ends'[Len(ends) + 1] = EndOf(g)
      BY <1>12, <1>16, <3>1
    <3>3. g.of = Len(ends) + 1
      BY <1>5, <1>7, <1>11
    <3>4. Len(ends) + 1 \in 1..Len(ends')
      BY <1>8, <3>2
    <3> QED BY <1>17, <3>2, <3>3, <3>4
  <2>3. ASSUME NEW i \in DOMAIN ends', i > g.of \/ (i = g.of /\ ~Ended(g)) PROVE FALSE
    <3>1. CASE n = Left
      BY <1>5, <1>6, <1>7, <1>8, <1>11, <1>16, <1>17, <2>3, <3>1
    <3>2. CASE n # Left
      <4>1. i \in 1..Len(ends)
        BY <1>8, <1>15, <3>2
      <4>2. i < g.of
        BY <1>5, <1>7, <1>8, <1>11, <4>1
      <4> QED BY <1>5, <1>7, <2>3, <4>1, <4>2
    <3> QED BY <3>1, <3>2
  <2> QED BY <1>12, <1>13, <2>1, <2>2, <2>3 DEF EndsAround
<1> QED BY <1>18, <1>19, <1>20, <1>21

\* The turns of what is written do not depend on what follows.
LEMMA TurnOfAppend ==
  ASSUME NEW fs \in Seq(Fragments), NEW g \in Fragments, NEW gs, gs = Append(fs, g),
         NEW k \in 1..(Len(fs) + 1)
  PROVE  Turn(gs, k) = Turn(fs, k)
<1>1. Len(fs) \in Nat /\ \A i \in 1..Len(fs) : gs[i] = fs[i]
  BY AppendProperties, LenProperties
<1> CASE k = 1
  BY TurnFirst
<1> CASE k # 1
  <2>1. k - 1 \in 1..Len(fs)
    BY <1>1
  <2>2. gs[k - 1] = fs[k - 1]
    BY <1>1, <2>1
  <2> QED BY <2>2 DEF Turn
<1> QED OBVIOUS

LEMMA EmitKeeps ==
  ASSUME LogTypeOK, LogTypeOK', EmitPhysicalRecord, OneBlockOrWriter',
         NEW fs \in Seq(Fragments), Written(fs), WriterInv(fs), OffsetInv(fs),
         NEW g, g = NewFragment(fs), NEW gs, gs = Append(fs, g)
  PROVE  /\ Grows /\ gs \in Seq(Fragments)
         /\ Written(gs)' /\ WriterInv(gs)' /\ OffsetInv(gs)'
<1>0. PICK n, t, u : n = FragmentLength /\ t = NextOf(fs) /\ u = NextOf(gs)
  OBVIOUS
<1>1. /\ Left > 0 /\ ~Switches /\ sizes' = sizes /\ writers' = writers
      /\ ends' = IF position' = Last(sizes) THEN Append(ends, Len(file')) ELSE ends
      /\ blockOffset' = blockOffset + Len(Fragment)
      /\ position' = position + Len(Fragment) - HeaderSize
  BY DEF EmitPhysicalRecord
<1>2. created' = TRUE
  BY DEF EmitPhysicalRecord
<1>3. Grows /\ Placed(g)' /\ Content(g)' /\ EndsAround(g)'
  BY EmitWrites
<1>4. /\ g \in Fragments /\ g.block = t.block /\ g.start = t.start
      /\ g.of = Len(sizes) /\ g.from = position /\ g.length = n
      /\ EndOf(g) = t.start + HeaderSize + n
  BY <1>0, <1>1, NewFragmentIs
<1>5. g.created = created /\ (Ended(g) <=> n = Left)
  BY <1>0, <1>1, NewFragmentIs
<1>6. /\ Len(fs) \in Nat /\ DOMAIN fs = 1..Len(fs)
      /\ gs \in Seq(Fragments) /\ Len(gs) = Len(fs) + 1
      /\ gs[Len(fs) + 1] = g /\ \A k \in 1..Len(fs) : gs[k] = fs[k]
  BY <1>4, AppendProperties, LenProperties
<1>7. gs # <<>> /\ LastOf(gs) = g /\ DOMAIN gs = 1..Len(gs) /\ Len(gs) \in Nat \ {0}
      /\ gs[Len(gs)] = g
  <2>1. DOMAIN gs = 1..Len(gs) /\ Len(gs) \in Nat \ {0}
    BY <1>6, LenProperties
  <2>2. gs # <<>>
    BY <1>6, <2>1, EmptySeq
  <2> QED BY <1>6, <2>1, <2>2 DEF LastOf
<1>8. Written(fs)'
  BY <1>3, WrittenKept
<1>9. /\ t.of = Len(sizes) /\ t.from = position /\ t.created = created
      /\ Len(ends) = t.of - 1 /\ \A i \in DOMAIN ends : ends[i] <= t.start
  BY <1>0, <1>1 DEF WriterInv
<1>10. Written(gs)'
  <2>1. SUFFICES ASSUME NEW k \in 1..(Len(fs) + 1)
                 PROVE  /\ Takes(gs[k], Turn(gs, k)')
                        /\ Placed(gs[k])' /\ Content(gs[k])' /\ EndsAround(gs[k])'
    BY <1>6, <1>7 DEF Written, Takes
  <2>2. Turn(gs, k)' = Turn(fs, k) /\ Turn(fs, k)' = Turn(fs, k)
    <3>1. Turn(gs, k)' = Turn(gs, k) /\ Turn(fs, k)' = Turn(fs, k)
      BY <1>1, TurnOfSizes
    <3> QED BY <1>4, <3>1, TurnOfAppend
  <2>3. CASE k = Len(fs) + 1
    <3>1. gs[k] = g /\ Turn(fs, k) = t
      BY <1>0, <1>6, <2>3 DEF NextOf
    <3>2. Takes(g, t)
      BY <1>4, <1>5, <1>9 DEF Takes
    <3> QED BY <1>3, <2>2, <3>1, <3>2
  <2>4. CASE k # Len(fs) + 1
    <3>1. k \in DOMAIN fs /\ gs[k] = fs[k]
      BY <1>6, <2>4
    <3>2. /\ Takes(fs[k], Turn(fs, k)') /\ Placed(fs[k])' /\ Content(fs[k])'
          /\ EndsAround(fs[k])'
      BY <1>8, <3>1 DEF Written, Takes
    <3> QED BY <2>2, <3>1, <3>2
  <2> QED BY <2>3, <2>4
<1>11. NextOf(gs)' = u
  BY <1>0, <1>1, TurnOfSizes
<1>12. /\ Full(g) => u.block = g.block + BlockSize /\ u.start = g.block + BlockSize
       /\ ~Full(g) => u.block = g.block /\ u.start = EndOf(g)
       /\ Ended(g) => u.of = g.of + 1 /\ u.from = 0 /\ u.created = FALSE
       /\ ~Ended(g) => /\ u.of = g.of /\ u.from = g.from + g.length
                       /\ u.created = TRUE
  <2>1. Turn(gs, Len(gs) + 1) = u
    BY <1>0 DEF NextOf
  <2> HIDE <1>0
  <2>2. /\ Full(gs[Len(gs)]) => /\ Turn(gs, Len(gs) + 1).block = gs[Len(gs)].block + BlockSize
                              /\ Turn(gs, Len(gs) + 1).start = gs[Len(gs)].block + BlockSize
        /\ ~Full(gs[Len(gs)]) => /\ Turn(gs, Len(gs) + 1).block = gs[Len(gs)].block
                               /\ Turn(gs, Len(gs) + 1).start = EndOf(gs[Len(gs)])
        /\ Ended(gs[Len(gs)]) => /\ Turn(gs, Len(gs) + 1).of = gs[Len(gs)].of + 1
                               /\ Turn(gs, Len(gs) + 1).from = 0
                               /\ Turn(gs, Len(gs) + 1).created = FALSE
        /\ ~Ended(gs[Len(gs)]) =>
             /\ Turn(gs, Len(gs) + 1).of = gs[Len(gs)].of
             /\ Turn(gs, Len(gs) + 1).from = gs[Len(gs)].from + gs[Len(gs)].length
             /\ Turn(gs, Len(gs) + 1).created = TRUE
    BY <1>7, TurnAfter, ZenonT(30)
  <2>3. gs[Len(gs)] = g
    BY <1>7
  <2> QED BY <2>1, <2>2, <2>3
<1>13. /\ Len(file) \in Nat /\ Len(file') = Len(file) + HeaderSize + n
       /\ Len(file) = t.start
       /\ writers = 1 => Len(file) = t.block + blockOffset
       /\ writers # 1 => t.block = 0 /\ blockOffset < Len(file)
  BY <1>0, EmitPlace
<1>14. n \in Nat /\ n <= Left /\ Len(Fragment) = HeaderSize + n
  BY <1>0, <1>1, FragmentIs
<1>15. /\ Left \in Nat /\ Last(sizes) = sizes[Len(sizes)]
       /\ Left = sizes[Len(sizes)] - position /\ sizes[Len(sizes)] \in Nat
       /\ Len(sizes) \in Nat /\ sizes # <<>> /\ position \in Nat
       /\ blockOffset \in Nat /\ writers \in Nat \ {0}
  <2>1. Len(sizes) \in 1..Len(sizes)
    BY <1>1, LeftType
  <2>2. sizes[Len(sizes)] \in Nat
    BY <2>1, LeftType
  <2>3. position \in Nat /\ blockOffset \in Nat /\ writers \in Nat \ {0}
    BY LogConstants DEF LogTypeOK
  <2> QED BY <1>1, <2>2, <2>3, LeftType
<1>16. /\ Len(ends) \in Nat /\ DOMAIN ends = 1..Len(ends) /\ ends \in Seq(Nat)
       /\ \A i \in 1..Len(ends) : ends[i] \in Nat
  BY LengthTypes DEF LogTypeOK
<1>17. t.block \in Nat /\ t.start \in Nat
  BY <1>0, NextType
<1>18. position' = position + n
  BY <1>1, <1>14, <1>15, LogConstants
<1>19. Left' = Left - n
  <2>1. Left' = sizes[Len(sizes)] - position'
    BY <1>1, <1>15 DEF Left, Last
  <2> QED BY <1>14, <1>15, <1>18, <2>1
<1>20. EndOf(g) = Len(file') /\ EndOf(g) <= u.start /\ EndOf(g) \in Nat
       /\ t.start <= EndOf(g) /\ u.start \in Nat
  <2>1. EndOf(g) = Len(file')
    BY <1>4, <1>13
  <2>2. EndOf(g) <= g.block + BlockSize
    BY <1>3 DEF Placed, EndOf
  <2>3. EndOf(g) \in Nat /\ t.start <= EndOf(g)
    BY <1>4, <1>14, <1>17, LogConstants
  <2>4. u.start \in Nat
    BY <1>0, <1>6, NextType
  <2>5. EndOf(g) <= u.start
    BY <1>12, <2>2, <2>3
  <2> QED BY <2>1, <2>3, <2>4, <2>5
<1>21. WriterInv(gs)'
  <2>1. CASE n = Left
    <3>1. ends' = Append(ends, Len(file')) /\ Len(file') \in Nat
      BY <1>1, <1>15, <1>18, <1>20, <2>1, SMTT(30)
    <3>2. Len(ends') = Len(ends) + 1 /\ DOMAIN ends' = 1..Len(ends')
          /\ ends'[Len(ends) + 1] = Len(file')
          /\ \A i \in 1..Len(ends) : ends'[i] = ends[i]
      BY <1>16, <3>1, AppendProperties, LenProperties
    <3>3. u.of = Len(sizes) + 1
      BY <1>4, <1>5, <1>12, <2>1
    <3>4. Left' = 0
      BY <1>15, <1>19, <2>1
    <3>5. ASSUME NEW i \in DOMAIN ends' PROVE ends'[i] <= u.start
      <4>1. CASE i = Len(ends) + 1
        BY <1>20, <3>2, <4>1
      <4>2. CASE i # Len(ends) + 1
        <5>1. i \in 1..Len(ends) /\ ends'[i] = ends[i]
          BY <1>16, <3>2, <4>2
        <5>2. ends[i] <= t.start /\ ends[i] \in Nat
          BY <1>9, <1>16, <5>1
        <5> QED BY <1>17, <1>20, <5>1, <5>2
      <4> QED BY <4>1, <4>2
    <3>6. Len(ends') = u.of - 1
      BY <1>9, <1>15, <1>16, <3>2, <3>3
    <3> QED BY <1>1, <1>11, <3>3, <3>4, <3>5, <3>6 DEF WriterInv
  <2>2. CASE n # Left
    <3>1. ends' = ends
      BY <1>1, <1>14, <1>15, <1>18, <2>2, SMTT(30)
    <3>2. u.of = Len(sizes) /\ u.from = position + n
      BY <1>4, <1>5, <1>12, <2>2
    <3>3. u.created = TRUE
      BY <1>5, <1>12, <2>2
    <3>4. Left' > 0
      BY <1>14, <1>15, <1>19, <2>2
    <3>5. ASSUME NEW i \in DOMAIN ends' PROVE ends'[i] <= u.start
      <4>1. i \in 1..Len(ends) /\ ends'[i] = ends[i]
        BY <1>16, <3>1
      <4>2. ends[i] <= t.start /\ ends[i] \in Nat
        BY <1>9, <1>16, <4>1
      <4> QED BY <1>17, <1>20, <4>1, <4>2
    <3>6. Len(ends') = u.of - 1
      BY <1>9, <3>1, <3>2
    <3> QED BY <1>1, <1>2, <1>11, <1>18, <3>2, <3>3, <3>4, <3>5, <3>6 DEF WriterInv
  <2> QED BY <2>1, <2>2
<1>22. OffsetInv(gs)'
  <2>1. Len(file') <= u.start
    BY <1>20
  <2>2. LastOf(gs)' = g /\ EndOf(g)' = Len(file')
    BY <1>7, <1>20 DEF LastOf, EndOf
  <2>3. writers' = 1 => blockOffset' = Len(file') - g.block
    BY <1>1, <1>4, <1>13, <1>14, <1>15, <1>17, LogConstants, SMTT(30)
  <2>4. writers' > 1 => g.block = 0 /\ blockOffset' < Len(file')
    BY <1>1, <1>4, <1>13, <1>14, <1>15, <1>17, LogConstants, SMTT(30)
  <2>5. EndOf(LastOf(gs))' = Len(file')
    BY <1>7, <1>20 DEF LastOf, EndOf
  <2> QED BY <1>7, <1>11, <2>1, <2>2, <2>3, <2>4, <2>5 DEF OffsetInv
<1> QED BY <1>3, <1>6, <1>10, <1>21, <1>22

\* A writer that opens the file again stands before what is in it.
LEMMA ReopenKeeps ==
  ASSUME LogTypeOK, LogTypeOK', Reopen, OneBlockOrWriter',
         NEW fs \in Seq(Fragments), Written(fs), WriterInv(fs), OffsetInv(fs)
  PROVE  Grows /\ Written(fs)' /\ WriterInv(fs)' /\ OffsetInv(fs)'
<1>0. PICK t, g : t = NextOf(fs) /\ g = LastOf(fs)
  OBVIOUS
<1>1. /\ Left = 0 /\ sizes # <<>> /\ blockOffset' = 0 /\ writers' = writers + 1
      /\ file' = file /\ sizes' = sizes /\ ends' = ends /\ position' = position
  BY DEF Reopen
<1>2. created' = created
  BY DEF Reopen
<1>3. Len(file) \in Nat /\ Len(sizes) \in Nat \ {0} /\ writers \in Nat \ {0}
  <2>1. sizes \in Seq(Nat \ {0}) /\ writers \in Nat \ {0}
    BY DEF LogTypeOK
  <2> QED BY <1>1, <2>1, EmptySeq, LenProperties, LengthTypes
<1>4. Grows
  <2>1. /\ Len(file) <= Len(file') /\ \A i \in 1..Len(file) : file'[i] = file[i]
        /\ Len(sizes) <= Len(sizes') /\ \A i \in 1..Len(sizes) : sizes'[i] = sizes[i]
    BY <1>1, <1>3
  <2> QED BY <1>1, <2>1, OnlyGrows
<1>5. Written(fs)' /\ NextOf(fs)' = NextOf(fs)
  BY <1>4, WrittenKept
<1>6. Left' = Left
  BY <1>1 DEF Left
<1>7. WriterInv(fs)'
  BY <1>1, <1>2, <1>5, <1>6 DEF WriterInv
<1>8. Len(file) <= BlockSize
  BY <1>1, <1>3 DEF OneBlockOrWriter
<1>9. fs # <<>>
  <2>1. fs = <<>> => NextOf(fs).of = 1
    BY BeforeFirst
  <2>2. NextOf(fs).of = Len(sizes) + 1
    BY <1>1 DEF WriterInv
  <2> QED BY <1>3, <2>1, <2>2
<1>10. Len(file) = EndOf(g)
  <2>1. CASE writers = 1
    BY <1>0, <1>1, <1>9, <2>1 DEF OffsetInv
  <2>2. CASE writers # 1
    BY <1>0, <1>3, <2>2 DEF OffsetInv
  <2> QED BY <2>1, <2>2
<1>11. g \in Fragments /\ Placed(g)
  BY <1>0, <1>9, AfterLast
<1>12. /\ g.block \in Nat /\ g.block \in BlockStarts /\ g.start \in Nat
       /\ g.length \in Nat /\ g.block <= g.start
       /\ EndOf(g) = g.start + HeaderSize + g.length
  BY <1>11, FragmentType DEF Placed, EndOf
<1>13. g.block < BlockSize /\ 0 < Len(file)
  BY <1>8, <1>10, <1>12, LogConstants
<1>14. g.block = 0
  <2>1. 0 < g.block => 0 + BlockSize <= g.block
    BY <1>12, BlocksApart
  <2> QED BY <1>12, <1>13, <2>1, LogConstants
<1>15. OffsetInv(fs)'
  <2>1. Len(file') <= NextOf(fs)'.start
    BY <1>1, <1>5 DEF OffsetInv
  <2>2. writers' # 1
    BY <1>1, <1>3
  <2>3. LastOf(fs)' = g /\ EndOf(LastOf(fs))' = EndOf(g)
    BY <1>0 DEF LastOf, EndOf
  <2>4. blockOffset' < Len(file')
    BY <1>1, <1>13
  <2>5. Len(file') = EndOf(LastOf(fs))' /\ LastOf(fs)'.block = 0
    BY <1>1, <1>10, <1>14, <2>3
  <2> QED BY <1>9, <2>1, <2>2, <2>4, <2>5 DEF OffsetInv
<1> QED BY <1>4, <1>5, <1>7, <1>15

-----------------------------------------------------------------------------
(* The process ends, and the log is opened for reading.                    *)

\* The end of a process: what it leaves of an append is no fragment.
LEMMA RecoverKeeps ==
  ASSUME LogTypeOK, LogTypeOK', Recover, OneBlockOrWriter',
         NEW fs \in Seq(Fragments), Written(fs), WriterInv(fs), OffsetInv(fs)
  PROVE  Grows /\ Written(fs)' /\ WriterInv(fs)' /\ TornInv(fs)'
<1>0. PICK t : t = NextOf(fs)
  OBVIOUS
<1>1. /\ sizes' = sizes /\ ends' = ends /\ position' = position
      /\ writers' = writers
  BY DEF Recover
<1>2. created' = created
  BY DEF Recover
<1>3. \/ file' = file
      \/ /\ Left > 0 /\ Switches
         /\ \E n \in 1..(Len(Trailer) - 1) : file' = file \o SubSeq(Trailer, 1, n)
      \/ /\ Left > 0 /\ ~Switches
         /\ \E n \in 1..(Len(Fragment) - 1) : file' = file \o SubSeq(Fragment, 1, n)
  <2>1. CASE Switches
    BY <2>1 DEF Recover
  <2>2. CASE ~Switches
    BY <2>2 DEF Recover
  <2> QED BY <2>1, <2>2
<1>4. /\ Len(file) \in Nat /\ Len(sizes) \in Nat /\ file \in Seq(Cells)
      /\ writers \in Nat \ {0} /\ blockOffset \in Nat /\ Leftover \in Nat
  BY LengthTypes, LeftType, LogConstants, SMTT(30) DEF LogTypeOK
<1>5. /\ t.block \in Nat /\ t.start \in Nat
      /\ t.start + HeaderSize <= t.block + BlockSize /\ Len(file) <= t.start
  BY <1>0, NextType, NextPlace DEF OffsetInv
<1>6. /\ Len(file) <= Len(file') /\ \A i \in 1..Len(file) : file'[i] = file[i]
      /\ Len(file') \in Nat
  <2>1. ASSUME NEW x \in Seq(Cells), NEW n \in 1..(Len(x) - 1),
               file' = file \o SubSeq(x, 1, n)
        PROVE  /\ Len(file) <= Len(file') /\ \A i \in 1..Len(file) : file'[i] = file[i]
               /\ Len(file') \in Nat
    <3>1. SubSeq(x, 1, n) \in Seq(Cells)
      BY SubSeqProperties, LenProperties
    <3> QED BY <1>4, <2>1, <3>1, Appended
  <2>2. Left > 0 /\ ~Switches => Fragment \in Seq(Cells)
    BY FragmentIs
  <2>3. Trailer \in Seq(Cells)
    BY TrailerIs
  <2>4. CASE file' = file
    BY <1>4, <2>4
  <2> QED BY <1>3, <2>1, <2>2, <2>3, <2>4
<1>7. Grows
  <2>1. Len(sizes) <= Len(sizes') /\ \A i \in 1..Len(sizes) : sizes'[i] = sizes[i]
    BY <1>1, <1>4
  <2> QED BY <1>1, <1>6, <2>1, OnlyGrows
<1>8. Written(fs)' /\ NextOf(fs)' = t
  BY <1>0, <1>7, WrittenKept
<1>9. WriterInv(fs)'
  <2>1. Left' = Left
    BY <1>1 DEF Left
  <2> QED BY <1>0, <1>1, <1>2, <1>8, <2>1 DEF WriterInv
<1>10. CASE Len(file') < t.start + HeaderSize
  <2>1. Len(file') <= t.block + BlockSize /\ ~(t.start + HeaderSize <= Len(file'))
    BY <1>5, <1>6, <1>10, LogConstants
  <2>2. TornInv(fs)'
    BY <1>8, <2>1 DEF TornInv
  <2> QED BY <1>7, <1>8, <1>9, <2>2
<1>11. CASE Len(file') >= t.start + HeaderSize
  <2>1. file' # file
    BY <1>4, <1>5, <1>11, LogConstants
  <2>2. ~(Left > 0 /\ Switches)
    <3>1. SUFFICES ASSUME Left > 0 /\ Switches PROVE FALSE
      OBVIOUS
    <3>2. PICK n \in 1..(Len(Trailer) - 1) : file' = file \o SubSeq(Trailer, 1, n)
      BY <1>3, <2>1, <3>1
    <3>3. Trailer \in Seq(Cells) /\ Len(Trailer) = Leftover /\ Leftover < HeaderSize
      BY <3>1, TrailerIs DEF Switches
    <3>4. SubSeq(Trailer, 1, n) \in Seq(Cells) /\ Len(SubSeq(Trailer, 1, n)) = n
      BY <3>3, SubSeqProperties, LenProperties
    <3>5. Len(file') = Len(file) + n
      BY <1>4, <3>2, <3>4, Appended
    <3> QED BY <1>4, <1>5, <1>11, <3>3, <3>5, LogConstants
  <2>3. Left > 0 /\ ~Switches
    BY <1>3, <2>1, <2>2
  <2>4. PICK n \in 1..(Len(Fragment) - 1) : file' = file \o SubSeq(Fragment, 1, n)
    BY <1>3, <2>1, <2>3
  <2>5. /\ Fragment \in Seq(Cells) /\ Len(Fragment) = HeaderSize + FragmentLength
        /\ FragmentLength \in Nat
        /\ blockOffset + HeaderSize + FragmentLength <= BlockSize
        /\ Fragment[HeaderSize]
             = HeadOf(created, FragmentLength = Left, FragmentLength)
    BY <2>3, FragmentIs
  <2>6. /\ SubSeq(Fragment, 1, n) \in Seq(Cells) /\ Len(SubSeq(Fragment, 1, n)) = n
        /\ \A i \in 1..n : SubSeq(Fragment, 1, n)[i] = Fragment[i]
    BY <2>5, SubSeqProperties, LenProperties
  <2>7. /\ Len(file') = Len(file) + n
        /\ \A i \in 1..n : file'[Len(file) + i] = Fragment[i]
    BY <1>4, <2>4, <2>6, Appended
  <2>8. writers # 1 => Len(file') <= BlockSize
    BY <1>1 DEF OneBlockOrWriter
  <2>9. /\ Len(file) = t.start /\ writers = 1 => Len(file) = t.block + blockOffset
        /\ writers # 1 => t.block = 0
    <3>1. writers = 1 \/ Len(file) + HeaderSize <= BlockSize
      BY <1>4, <1>5, <1>6, <1>11, <2>8, LogConstants
    <3> QED BY <1>0, <2>3, <3>1, WriterPlace
  <2>10. Len(file) = t.start
    BY <1>0, <1>4, <1>5, <1>6, <1>11, <2>3, <2>8, LogConstants, WriterPlace
  <2>11. n \in Nat /\ HeaderSize <= n /\ n < HeaderSize + FragmentLength
    BY <1>4, <1>5, <1>11, <2>5, <2>7, <2>10, LogConstants
  <2>12. Len(file') <= t.block + BlockSize
    <3>1. CASE writers = 1
      <4>1. Len(file) = t.block + blockOffset
        BY <2>9, <2>10, <3>1
      <4>2. Len(file') = t.block + blockOffset + n
        BY <2>7, <4>1
      <4> QED BY <1>4, <1>5, <2>5, <2>11, <4>2, LogConstants, SMTT(30)
    <3>2. CASE writers # 1
      BY <2>8, <2>9, <3>2, <1>6, LogConstants
    <3> QED BY <3>1, <3>2
  <2>13. /\ t.created = created /\ t.of = Len(sizes) /\ Len(ends) = t.of - 1
    BY <1>0, <2>3 DEF WriterInv
  <2>14. file'[t.start + HeaderSize]
           = HeadOf(t.created, FragmentLength = Left, FragmentLength)
    <3>1. HeaderSize \in 1..n
      BY <2>11, LogConstants
    <3> QED BY <2>5, <2>7, <2>10, <2>13, <3>1
  <2>15. t.start + HeaderSize + FragmentLength > Len(file')
    BY <1>4, <1>5, <2>5, <2>7, <2>10, <2>11, LogConstants
  <2>16. Len(sizes') > Len(ends')
    BY <1>1, <1>4, <2>13
  <2>17. PICK m, later, ended :
           /\ m \in Nat /\ ended \in BOOLEAN /\ later = t.created
           /\ file'[t.start + HeaderSize] = HeadOf(later, ended, m)
           /\ t.start + HeaderSize + m > Len(file')
    <3>1. (FragmentLength = Left) \in BOOLEAN
      OBVIOUS
    <3> QED BY <2>5, <2>14, <2>15, <3>1
  <2>18. TornInv(fs)'
    <3>1. file'[t.start + HeaderSize] = HeadOf(t.created, ended, m)'
      BY <2>17 DEF HeadOf, RecordType
    <3> QED BY <1>8, <2>12, <2>16, <2>17, <3>1 DEF TornInv
  <2> QED BY <1>7, <1>8, <1>9, <2>18
<1> QED BY <1>5, <1>6, <1>10, <1>11, LogConstants

-----------------------------------------------------------------------------
(* What the buffer of the reader holds, and where the reader stands.       *)

\* The buffer is what it was while the log is written.
LEMMA BufferKept ==
  ASSUME LogTypeOK, LogTypeOK', Grows, BufInv, blockIndex = 0, blockIndex' = blockIndex,
         buf' = buf
  PROVE  BufInv'
<1>1. Len(file) \in Nat /\ Len(file') \in Nat /\ Len(file) <= Len(file')
  <2>1. file' \in Seq(Cells)
    BY DEF LogTypeOK
  <2> QED BY <2>1, LengthTypes, LenProperties DEF Grows
<1>2. ASSUME Len(file') <= BlockSize, NEW i \in 1..BlockSize, i > Len(file')
      PROVE  buf'[i] = Zero
  BY <1>1, <1>2, LogConstants DEF BufInv
<1>3. ~(blockIndex' > 0)
  OBVIOUS
<1> QED BY <1>2, <1>3 DEF BufInv

\* Every end is in the file, and behind its beginning.
LEMMA EndsInside ==
  ASSUME LogTypeOK, NEW fs \in Seq(Fragments), Written(fs), WriterInv(fs)
  PROVE  \A i \in DOMAIN ends : 0 < ends[i] /\ ends[i] <= Len(file)
<1>1. /\ Len(file) \in Nat /\ Len(ends) \in Nat /\ DOMAIN ends = 1..Len(ends)
      /\ \A i \in 1..Len(ends) : ends[i] \in Nat
  BY LengthTypes
<1>2. CASE fs = <<>>
  <2>1. NextOf(fs).of = 1
    BY <1>2, BeforeFirst
  <2>2. Len(ends) = 0
    BY <1>1, <2>1 DEF WriterInv
  <2> QED BY <1>1, <2>2
<1>3. CASE fs # <<>>
  <2>0. PICK g, f, t : g = LastOf(fs) /\ f = fs[1] /\ t = NextOf(fs)
    OBVIOUS
  <2>1. /\ g \in Fragments /\ Placed(g) /\ EndsAround(g)
        /\ Ended(g) => t.of = g.of + 1
        /\ ~Ended(g) => t.of = g.of
    <3>1. /\ LastOf(fs) \in Fragments /\ Placed(LastOf(fs)) /\ EndsAround(LastOf(fs))
          /\ Ended(LastOf(fs)) => NextOf(fs).of = LastOf(fs).of + 1
          /\ ~Ended(LastOf(fs)) => NextOf(fs).of = LastOf(fs).of
      BY <1>3, AfterLast
    <3> QED BY <2>0, <3>1
  <2>2. f \in Fragments /\ EndsAround(f) /\ f.of = 1
    <3>1. 1 \in DOMAIN fs /\ DOMAIN fs = 1..Len(fs)
      BY <1>3, EmptySeq, LenProperties
    <3>2. f \in Fragments /\ EndsAround(f) /\ Takes(f, Turn(fs, 1))
      BY <2>0, <3>1, ElementOfSeq DEF Written
    <3> QED BY <3>2, TurnFirst DEF Takes
  <2>3. /\ g.of \in Nat \ {0} /\ g.start \in Nat /\ g.length \in Nat
        /\ EndOf(g) = g.start + HeaderSize + g.length /\ EndOf(g) <= Len(file)
    BY <2>1, FragmentType DEF Placed, EndOf
  <2>4. EndOf(f) \in Nat /\ 0 < EndOf(f)
    <3>1. f.start \in Nat /\ f.length \in Nat
      BY <2>2, FragmentType
    <3> QED BY <3>1, LogConstants DEF EndOf
  <2>5. Len(ends) = t.of - 1
    BY <2>0 DEF WriterInv
  <2>6. ASSUME NEW i \in DOMAIN ends PROVE 0 < ends[i]
    <3>1. CASE Ended(f) /\ i = 1
      <4>1. ends[1] = EndOf(f)
        BY <2>2, <3>1 DEF EndsAround
      <4> QED BY <2>4, <3>1, <4>1
    <3>2. CASE ~(Ended(f) /\ i = 1)
      <4>1. i > f.of \/ (i = f.of /\ ~Ended(f))
        BY <1>1, <2>2, <3>2
      <4>2. ends[i] > EndOf(f)
        BY <2>2, <4>1 DEF EndsAround
      <4> QED BY <1>1, <2>4, <4>2
    <3> QED BY <3>1, <3>2
  <2>7. ASSUME NEW i \in DOMAIN ends PROVE ends[i] <= Len(file)
    <3>1. CASE i = g.of
      <4>1. Ended(g)
        BY <1>1, <2>1, <2>3, <2>5, <3>1
      <4>2. ends[i] = EndOf(g)
        BY <2>1, <3>1, <4>1 DEF EndsAround
      <4> QED BY <2>3, <4>2
    <3>2. CASE i # g.of
      <4>1. i \in 1..(g.of - 1)
        BY <1>1, <2>1, <2>3, <2>5, <3>2
      <4>2. ends[i] <= g.start
        BY <2>1, <4>1 DEF EndsAround
      <4> QED BY <1>1, <2>3, <4>2, LogConstants
    <3> QED BY <3>1, <3>2
  <2> QED BY <2>6, <2>7
<1> QED BY <1>2, <1>3

\* The records before a turn end before it, and the others behind it.
LEMMA EndsAtTurn ==
  ASSUME LogTypeOK, NEW fs \in Seq(Fragments), Written(fs), WriterInv(fs),
         NEW k \in 1..(Len(fs) + 1), NEW t, t = Turn(fs, k)
  PROVE  /\ t.of - 1 \in Nat /\ t.of - 1 <= Len(ends)
         /\ \A i \in DOMAIN ends : i >= t.of => ends[i] > t.start
<1>1. /\ Len(fs) \in Nat /\ DOMAIN fs = 1..Len(fs) /\ Len(ends) \in Nat
      /\ DOMAIN ends = 1..Len(ends) /\ \A i \in 1..Len(ends) : ends[i] \in Nat
  BY LengthTypes, LenProperties
<1>2. t.of \in Nat \ {0} /\ t.start \in Nat
  BY TurnType
<1>3. CASE k = Len(fs) + 1
  <2>1. Len(ends) = t.of - 1
    BY <1>3 DEF WriterInv, NextOf
  <2> QED BY <1>1, <1>2, <2>1
<1>4. CASE k # Len(fs) + 1
  <2>1. k \in DOMAIN fs
    BY <1>1, <1>4
  <2>2. PICK g : g = fs[k]
    OBVIOUS
  <2>3. g \in Fragments /\ Takes(g, t) /\ EndsAround(g)
    BY <1>1, <2>1, <2>2, ElementOfSeq DEF Written
  <2>4. g.of = t.of /\ g.start = t.start
    BY <2>3 DEF Takes
  <2>5. EndOf(g) \in Nat /\ EndOf(g) > t.start
    <3>1. g.length \in Nat
      BY <2>3, FragmentType
    <3> QED BY <1>2, <2>4, <3>1, LogConstants DEF EndOf
  <2>6. t.of - 1 <= Len(ends)
    <3>1. CASE t.of = 1
      BY <1>1, <3>1
    <3>2. CASE t.of # 1
      <4>1. t.of - 1 \in DOMAIN ends
        <5>1. t.of - 1 \in 1..(g.of - 1)
          BY <1>2, <2>4, <3>2
        <5> QED BY <2>3, <5>1 DEF EndsAround
      <4> QED BY <1>1, <4>1
    <3> QED BY <3>1, <3>2
  <2>7. ASSUME NEW i \in DOMAIN ends, i >= t.of PROVE ends[i] > t.start
    <3>1. CASE i = t.of /\ Ended(g)
      <4>1. ends[i] = EndOf(g)
        BY <2>3, <2>4, <3>1 DEF EndsAround
      <4> QED BY <2>5, <4>1
    <3>2. CASE ~(i = t.of /\ Ended(g))
      <4>1. i > g.of \/ (i = g.of /\ ~Ended(g))
        BY <1>1, <1>2, <2>4, <2>7, <3>2
      <4>2. ends[i] > EndOf(g)
        BY <2>3, <4>1 DEF EndsAround
      <4> QED BY <1>1, <1>2, <2>5, <4>2
    <3> QED BY <3>1, <3>2
  <2> QED BY <1>2, <2>6, <2>7
<1> QED BY <1>3, <1>4

\* Behind the first fragment of a block, a turn that begins a record is where
\* the record before has ended.
LEMMA TurnBehind ==
  ASSUME LogTypeOK, NEW fs \in Seq(Fragments), Written(fs), NEW k \in 1..(Len(fs) + 1),
         NEW t, t = Turn(fs, k), ~t.created, t.start # t.block
  PROVE  t.of - 1 \in DOMAIN ends /\ ends[t.of - 1] = t.start
<1>0. Len(fs) \in Nat /\ DOMAIN fs = 1..Len(fs)
  BY LenProperties
<1>1. k # 1
  BY TurnFirst
<1>2. k - 1 \in 1..Len(fs) /\ k - 1 \in Nat \ {0} /\ (k - 1) + 1 = k
  BY <1>0, <1>1
<1>3. PICK g : g = fs[k - 1]
  OBVIOUS
<1>4. g \in Fragments /\ EndsAround(g)
  BY <1>0, <1>2, <1>3, ElementOfSeq DEF Written
<1>5. /\ Full(g) => t.block = g.block + BlockSize /\ t.start = g.block + BlockSize
      /\ ~Full(g) => t.start = EndOf(g)
      /\ Ended(g) => t.of = g.of + 1
      /\ ~Ended(g) => t.created = TRUE
  <2>1. /\ Full(fs[k - 1]) => /\ Turn(fs, (k - 1) + 1).block = fs[k - 1].block + BlockSize
                              /\ Turn(fs, (k - 1) + 1).start = fs[k - 1].block + BlockSize
        /\ ~Full(fs[k - 1]) => Turn(fs, (k - 1) + 1).start = EndOf(fs[k - 1])
        /\ Ended(fs[k - 1]) => Turn(fs, (k - 1) + 1).of = fs[k - 1].of + 1
        /\ ~Ended(fs[k - 1]) => Turn(fs, (k - 1) + 1).created = TRUE
    BY <1>2, TurnAfter, ZenonT(30)
  <2> QED BY <1>2, <1>3, <2>1
<1>6. t.start = EndOf(g) /\ t.of = g.of + 1 /\ Ended(g)
  BY <1>5
<1>7. g.of \in DOMAIN ends /\ ends[g.of] = EndOf(g)
  BY <1>4, <1>6 DEF EndsAround
<1>8. t.of - 1 = g.of
  <2>1. g.of \in Nat
    BY <1>4, FragmentType
  <2> QED BY <1>6, <2>1
<1> QED BY <1>6, <1>7, <1>8

\* Where the reader stands.
LEMMA Places ==
  ASSUME LogTypeOK
  PROVE  /\ handled \in Nat /\ blockIndex \in Nat /\ ReadUpTo \in Nat
         /\ blockIndex * BlockSize \in Nat
         /\ blockIndex = 0 => blockIndex * BlockSize = 0 /\ ReadUpTo = 0
         /\ blockIndex > 0 =>
              /\ (blockIndex - 1) * BlockSize \in Nat
              /\ (blockIndex - 1) * BlockSize \in BlockStarts
              /\ blockIndex * BlockSize = (blockIndex - 1) * BlockSize + BlockSize
              /\ ReadUpTo = (blockIndex - 1) * BlockSize + handled
<1>1. handled \in Nat /\ blockIndex \in Nat
  BY DEF LogTypeOK
<1>2. CASE blockIndex = 0
  <2>1. blockIndex * BlockSize = 0 /\ ReadUpTo = 0
    BY <1>2, LogConstants DEF ReadUpTo
  <2> QED BY <1>1, <1>2, <2>1
<1>3. CASE blockIndex # 0
  <2>1. blockIndex - 1 \in Nat /\ (blockIndex - 1) + 1 = blockIndex
    BY <1>1, <1>3
  <2>2. /\ (blockIndex - 1) * BlockSize \in Nat
        /\ ((blockIndex - 1) + 1) * BlockSize = (blockIndex - 1) * BlockSize + BlockSize
    BY <2>1, BlocksMultiply
  <2>3. (blockIndex - 1) * BlockSize \in BlockStarts
    BY <2>1, BlocksApart
  <2>4. ReadUpTo = (blockIndex - 1) * BlockSize + handled
    BY <1>3 DEF ReadUpTo
  <2>5. blockIndex * BlockSize = (blockIndex - 1) * BlockSize + BlockSize
    BY <2>1, <2>2
  <2>6. ReadUpTo \in Nat /\ blockIndex * BlockSize \in Nat
    BY <1>1, <2>2, <2>4, <2>5, LogConstants
  <2> QED BY <1>1, <1>3, <2>2, <2>3, <2>4, <2>5, <2>6
<1> QED BY <1>2, <1>3

LEMMA AwaitsPlace ==
  ASSUME LogTypeOK, NEW t, Awaits(t), t.start \in Nat
  PROVE  ReadUpTo <= t.start
<1>1. handled <= BlockSize
  BY DEF Awaits
<1>2. CASE t.start = blockIndex * BlockSize
  <2>1. CASE blockIndex = 0
    BY <1>2, <2>1, Places
  <2>2. CASE blockIndex # 0
    <3>1. /\ (blockIndex - 1) * BlockSize \in Nat /\ handled \in Nat
          /\ t.start = (blockIndex - 1) * BlockSize + BlockSize
          /\ ReadUpTo = (blockIndex - 1) * BlockSize + handled
      BY <1>2, <2>2, Places
    <3> QED BY <1>1, <3>1, LogConstants
  <2> QED BY <2>1, <2>2
<1>3. CASE t.start # blockIndex * BlockSize
  <2>1. /\ blockIndex > 0 /\ t.block = (blockIndex - 1) * BlockSize
        /\ t.start = t.block + handled
    BY <1>3 DEF Awaits
  <2>2. ReadUpTo = t.start
    BY <2>1, Places
  <2> QED BY <2>2
<1> QED BY <1>2, <1>3

\* While it waits for a turn, the reader has found the records before it.
LEMMA AwaitsShows ==
  ASSUME LogTypeOK, NEW fs \in Seq(Fragments), Written(fs), WriterInv(fs),
         NEW k \in 1..(Len(fs) + 1), NEW t, t = Turn(fs, k), Awaits(t)
  PROVE  /\ \A r \in DOMAIN ends : ends[r] <= ReadUpTo => Found(r)
         /\ \A r \in DOMAIN yielded :
              r < t.of /\ r \in DOMAIN ends /\ ends[r] <= ReadUpTo
         /\ \A r \in DOMAIN ends : r < t.of => Found(r) /\ ends[r] <= ReadUpTo
         /\ Len(yielded) <= Len(ends)
<1>1. /\ Len(yielded) \in Nat /\ Len(ends) \in Nat
      /\ DOMAIN ends = 1..Len(ends) /\ DOMAIN yielded = 1..Len(yielded)
      /\ \A i \in 1..Len(ends) : ends[i] \in Nat
  BY LengthTypes
<1>2. t.of \in Nat \ {0} /\ t.start \in Nat
  BY TurnType
<1>3. t.of - 1 <= Len(ends) /\ \A i \in DOMAIN ends : i >= t.of => ends[i] > t.start
  BY EndsAtTurn
<1>4. ReadUpTo <= t.start /\ ReadUpTo \in Nat
  BY <1>2, AwaitsPlace, Places
<1>5. /\ Len(yielded) = t.of - 1 /\ \A r \in 1..(t.of - 1) : yielded[r] = Record(r)
      /\ \A i \in DOMAIN ends : i < t.of => ends[i] <= ReadUpTo
  BY DEF Awaits
<1>6. ASSUME NEW r \in DOMAIN ends, r < t.of PROVE Found(r) /\ ends[r] <= ReadUpTo
  <2>1. r \in 1..(t.of - 1) /\ r \in DOMAIN yielded
    BY <1>1, <1>2, <1>5, <1>6
  <2> QED BY <1>5, <1>6, <2>1 DEF Found
<1>7. ASSUME NEW r \in DOMAIN ends, ends[r] <= ReadUpTo PROVE Found(r)
  <2>1. ~(ends[r] > t.start)
    BY <1>1, <1>2, <1>4, <1>7
  <2>2. r < t.of
    BY <1>1, <1>2, <1>3, <2>1
  <2> QED BY <1>6, <2>2
<1>8. ASSUME NEW r \in DOMAIN yielded
      PROVE  r < t.of /\ r \in DOMAIN ends /\ ends[r] <= ReadUpTo
  <2>1. r < t.of /\ r \in DOMAIN ends
    BY <1>1, <1>2, <1>3, <1>5
  <2> QED BY <1>5, <2>1
<1> QED BY <1>1, <1>2, <1>3, <1>5, <1>6, <1>7, <1>8

\* What the invariant says of the properties.
LEMMA InvShows ==
  ASSUME LogTypeOK, NEW fs \in Seq(Fragments), Inv(fs)
  PROVE  ReadsWhatWasWritten /\ OneTornRecord
<1>1. Written(fs) /\ WriterInv(fs)
  BY DEF Inv
<1>2. /\ Len(yielded) \in Nat /\ Len(ends) \in Nat /\ Len(file) \in Nat
      /\ DOMAIN ends = 1..Len(ends) /\ DOMAIN yielded = 1..Len(yielded)
      /\ \A i \in 1..Len(ends) : ends[i] \in Nat
  BY LengthTypes
<1>3. CASE phase = "writing"
  <2>1. Fresh
    BY <1>3 DEF Inv
  <2>2. ReadUpTo = 0 /\ Len(yielded) = 0
    BY <2>1 DEF Fresh, ReadUpTo
  <2>3. \A r \in DOMAIN ends : 0 < ends[r]
    BY <1>1, EndsInside
  <2>4. \A r \in DOMAIN ends : ~(ends[r] <= ReadUpTo)
    BY <1>2, <2>2, <2>3
  <2>5. ReadsWhatWasWritten
    BY <1>2, <1>3, <2>2, <2>4 DEF ReadsWhatWasWritten, GivenUp
  <2>6. OneTornRecord
    BY <1>2, <1>3, <2>2 DEF OneTornRecord
  <2> QED BY <2>5, <2>6
<1>4. CASE phase = "reading" /\ Past
  <2>1. /\ \A r \in DOMAIN ends : Found(r)
        /\ ReadUpTo > Len(file) /\ FewTorn /\ ReadUpTo \in Nat
    BY <1>4, Places DEF Past, AllFound
  <2>2. ~(ReadUpTo <= Len(file))
    BY <1>2, <2>1
  <2>3. ReadsWhatWasWritten
    BY <1>4, <2>1, <2>2 DEF ReadsWhatWasWritten, GivenUp
  <2>4. OneTornRecord
    BY <1>4, <2>1 DEF OneTornRecord, FewTorn
  <2> QED BY <2>3, <2>4
<1>5. CASE phase = "reading" /\ \E k \in 1..(Len(fs) + 1) : Awaits(Turn(fs, k))
  <2>1. PICK k \in 1..(Len(fs) + 1) : Awaits(Turn(fs, k))
    BY <1>5
  <2>2. PICK t : t = Turn(fs, k)
    OBVIOUS
  <2>3. /\ \A r \in DOMAIN ends : ends[r] <= ReadUpTo => Found(r)
        /\ \A r \in DOMAIN yielded : r \in DOMAIN ends /\ ends[r] <= ReadUpTo
        /\ Len(yielded) <= Len(ends)
    BY <1>1, <2>1, <2>2, AwaitsShows
  <2>4. ReadsWhatWasWritten
    BY <1>5, <2>3 DEF ReadsWhatWasWritten, GivenUp
  <2>5. OneTornRecord
    <3>1. Len(yielded) # Len(ends) + 1 /\ Len(yielded) <= Len(ends) + 1
      <4>1. Len(yielded) \in Nat /\ Len(ends) \in Nat /\ Len(yielded) <= Len(ends)
        BY <1>2, <2>3
      <4> QED BY <4>1
    <3> QED BY <1>5, <3>1 DEF OneTornRecord
  <2> QED BY <2>4, <2>5
<1>6. CASE phase \in {"done", "failed"}
  BY <1>6 DEF Inv
<1> QED BY <1>3, <1>4, <1>5, <1>6 DEF Inv, LogTypeOK

\* Where a fragment leaves the log, if u is the turn after it.
Follows(g, u) ==
  /\ Full(g) => u.block = g.block + BlockSize /\ u.start = g.block + BlockSize
  /\ ~Full(g) => u.block = g.block /\ u.start = EndOf(g)
  /\ Ended(g) => u.of = g.of + 1 /\ u.from = 0 /\ u.created = FALSE
  /\ ~Ended(g) => u.of = g.of /\ u.from = g.from + g.length /\ u.created = TRUE

LEMMA FragmentTurn ==
  ASSUME NEW fs \in Seq(Fragments), Written(fs), NEW k \in 1..Len(fs)
  PROVE  /\ fs[k] \in Fragments /\ Placed(fs[k]) /\ Content(fs[k]) /\ EndsAround(fs[k])
         /\ Takes(fs[k], Turn(fs, k)) /\ Follows(fs[k], Turn(fs, k + 1))
<1>1. k \in DOMAIN fs /\ k \in Nat \ {0}
  BY LenProperties
<1>2. /\ fs[k] \in Fragments /\ Placed(fs[k]) /\ Content(fs[k]) /\ EndsAround(fs[k])
      /\ Takes(fs[k], Turn(fs, k))
  BY <1>1, ElementOfSeq DEF Written
<1>3. /\ Full(fs[k]) => /\ Turn(fs, k + 1).block = fs[k].block + BlockSize
                        /\ Turn(fs, k + 1).start = fs[k].block + BlockSize
      /\ ~Full(fs[k]) => /\ Turn(fs, k + 1).block = fs[k].block
                         /\ Turn(fs, k + 1).start = EndOf(fs[k])
      /\ Ended(fs[k]) => /\ Turn(fs, k + 1).of = fs[k].of + 1
                         /\ Turn(fs, k + 1).from = 0
                         /\ Turn(fs, k + 1).created = FALSE
      /\ ~Ended(fs[k]) => /\ Turn(fs, k + 1).of = fs[k].of
                          /\ Turn(fs, k + 1).from = fs[k].from + fs[k].length
                          /\ Turn(fs, k + 1).created = TRUE
  BY <1>1, TurnAfter, ZenonT(30)
<1>4. Follows(fs[k], Turn(fs, k + 1))
  BY <1>3, Zenon DEF Follows
<1> QED BY <1>2, <1>4

\* At the end of a block the reader waits for the beginning of the next: it
\* passes over the empty fragment of a record without a head.
LEMMA AtEnd ==
  ASSUME LogTypeOK, NEW fs \in Seq(Fragments), Written(fs), TornInv(fs), AtBlockEnd,
         NEW k \in 1..(Len(fs) + 1), Awaits(Turn(fs, k))
  PROVE  \/ \E j \in 1..(Len(fs) + 1) :
              /\ Awaits(Turn(fs, j)) /\ Turn(fs, j).start = blockIndex * BlockSize
              /\ Turn(fs, j).block = blockIndex * BlockSize
         \/ k = Len(fs) + 1 /\ Len(file) <= blockIndex * BlockSize
<1>0. PICK t : t = Turn(fs, k)
  OBVIOUS
<1>1. CASE t.start = blockIndex * BlockSize /\ t.block = t.start
  BY <1>0, <1>1
<1>2. CASE ~(t.start = blockIndex * BlockSize /\ t.block = t.start)
  <2>1. PICK b : b = (blockIndex - 1) * BlockSize
    OBVIOUS
  <2>2. /\ blockIndex > 0 /\ t.block = b /\ t.start = t.block + handled
        /\ handled <= BlockSize
    BY <1>0, <1>2, <2>1 DEF Awaits
  <2>3. /\ b \in Nat /\ b \in BlockStarts
        /\ blockIndex * BlockSize = b + BlockSize /\ handled \in Nat
        /\ ReadUpTo = b + handled
    BY <2>1, <2>2, Places
  <2>4. t.start + HeaderSize <= t.block + BlockSize
    BY <1>0, TurnPlace
  <2>5. handled >= BlockSize - HeaderSize
    BY <2>2, <2>3 DEF AtBlockEnd
  <2>6. handled + HeaderSize = BlockSize
    BY <2>2, <2>3, <2>4, <2>5, LogConstants
  <2>7. t.start # t.block
    BY <2>2, <2>3, <2>6, LogConstants
  <2>8. ~t.created /\ t.from = 0
    BY <1>0, <2>7, TurnPlace
  <2>9. CASE k = Len(fs) + 1
    <3>1. Len(file) <= t.block + BlockSize
      BY <1>0, <2>9 DEF TornInv, NextOf
    <3> QED BY <2>2, <2>3, <2>9, <3>1
  <2>10. CASE k # Len(fs) + 1
    <3>1. k \in 1..Len(fs) /\ k + 1 \in 1..(Len(fs) + 1)
      BY <2>10, LenProperties
    <3>2. PICK g, u : g = fs[k] /\ u = Turn(fs, k + 1)
      OBVIOUS
    <3>0. g \in Fragments /\ Placed(g) /\ Content(g) /\ Takes(g, t) /\ Follows(g, u)
      BY <1>0, <3>1, <3>2, FragmentTurn
    <3>3. /\ g \in Fragments /\ Placed(g) /\ Content(g)
          /\ t.block = g.block /\ t.start = g.start /\ t.of = g.of /\ t.from = g.from
          /\ Full(g) => u.block = g.block + BlockSize /\ u.start = g.block + BlockSize
      BY <3>0 DEF Takes, Follows
    <3>4. /\ t.created = g.created
          /\ ~Ended(g) => /\ u.of = g.of /\ u.from = g.from + g.length
                          /\ u.created = TRUE
      BY <3>0 DEF Takes, Follows
    <3>5. /\ g.start \in Nat /\ g.length \in Nat /\ g.of \in Nat \ {0}
          /\ EndOf(g) = g.start + HeaderSize + g.length
          /\ EndOf(g) <= g.block + BlockSize /\ g.of \in DOMAIN sizes
      BY <3>3, FragmentType DEF EndOf, Placed
    <3>6. g.length = 0 /\ EndOf(g) = b + BlockSize
      <4>1. g.block = b /\ g.start = b + handled
        BY <2>1, <2>2, <3>3
      <4> QED BY <2>3, <2>6, <3>5, <4>1, LogConstants
    <3>7. ~Ended(g)
      <4>1. sizes[g.of] \in Nat \ {0}
        BY <3>5, LeftType, LengthTypes
      <4>2. g.from + g.length = 0
        BY <2>8, <3>3, <3>6
      <4> QED BY <4>1, <4>2 DEF Ended
    <3>8. Full(g)
      <4>1. g.block = b
        BY <2>1, <2>2, <3>3
      <4>2. g.block + BlockSize - EndOf(g) = 0
        BY <2>3, <3>6, <4>1, LogConstants
      <4> QED BY <4>2, LogConstants DEF Full
    <3>9. /\ u.block = blockIndex * BlockSize /\ u.start = blockIndex * BlockSize
          /\ u.of = t.of /\ u.from = 0 /\ u.created = TRUE
      <4>1. u.from = 0
        BY <2>8, <3>3, <3>4, <3>6, <3>7
      <4> QED BY <2>2, <2>3, <3>3, <3>4, <3>7, <3>8, <4>1
    <3>10. Headless(t.of)
      <4>1. t.of - 1 \in DOMAIN ends /\ ends[t.of - 1] = t.start
        BY <1>0, <2>7, <2>8, TurnBehind
      <4>2. file[t.start + HeaderSize] = HeadOf(FALSE, FALSE, 0)
        <5>1. file[g.start + HeaderSize] = HeadOf(g.created, Ended(g), g.length)
          BY <3>3 DEF Content
        <5>2. g.created = FALSE
          <6>1. g.created \in BOOLEAN
            BY <3>3, FragmentType
          <6> QED BY <2>8, <3>4, <6>1
        <5>3. Ended(g) = FALSE
          BY <3>7 DEF Ended
        <5> QED BY <3>3, <3>6, <5>1, <5>2, <5>3
      <4>3. HeadOf(FALSE, FALSE, 0) = [kind |-> "head", type |-> "first", length |-> 0]
        <5>1. RecordType(~FALSE, FALSE) = "first"
          BY DEF RecordType
        <5> QED BY <5>1 DEF HeadOf
      <4>4. PICK cell : cell = file[ends[t.of - 1] + HeaderSize]
        OBVIOUS
      <4>5. cell.kind = "head" /\ cell.type = "first" /\ cell.length = 0
        <5>1. cell = [kind |-> "head", type |-> "first", length |-> 0]
          BY <4>1, <4>2, <4>3, <4>4
        <5> QED BY <5>1
      <4> QED BY <4>1, <4>4, <4>5 DEF Headless
    <3>11. Awaits(u)
      <4>1. /\ handled <= BlockSize /\ ReadUpTo <= Len(file)
            /\ latestOp = Payload(t.of, 0, t.from)
            /\ Len(yielded) = t.of - 1
            /\ \A r \in 1..(t.of - 1) : yielded[r] = Record(r)
            /\ \A i \in DOMAIN ends : i < t.of => ends[i] <= ReadUpTo
        BY <1>0 DEF Awaits
      <4>2. latestOp = Payload(u.of, 0, u.from)
        BY <2>8, <3>9, <4>1
      <4>3. /\ Len(yielded) = u.of - 1
            /\ \A r \in 1..(u.of - 1) : yielded[r] = Record(r)
            /\ \A i \in DOMAIN ends : i < u.of => ends[i] <= ReadUpTo
        BY <3>9, <4>1
      <4>4. Headless(u.of)
        BY <3>9, <3>10
      <4> QED BY <3>9, <4>1, <4>2, <4>3, <4>4 DEF Awaits
    <3> QED BY <3>1, <3>2, <3>9, <3>11
  <2> QED BY <2>9, <2>10
<1> QED BY <1>1, <1>2

\* The reader changes nothing of what was written.
LEMMA ReadKeeps ==
  ASSUME LogTypeOK, LogTypeOK', file' = file, sizes' = sizes, ends' = ends,
         position' = position, created' = created, NEW fs \in Seq(Fragments),
         Written(fs), WriterInv(fs), TornInv(fs)
  PROVE  /\ Written(fs)' /\ WriterInv(fs)' /\ TornInv(fs)'
         /\ \A k \in 1..(Len(fs) + 1) : Turn(fs, k)' = Turn(fs, k)
<1>1. Grows
  <2>1. Len(file) \in Nat /\ Len(sizes) \in Nat
    BY LengthTypes
  <2> QED BY <2>1, OnlyGrows
<1>2. /\ Written(fs)' /\ NextOf(fs)' = NextOf(fs)
      /\ \A k \in 1..(Len(fs) + 1) : Turn(fs, k)' = Turn(fs, k)
  BY <1>1, WrittenKept
<1>3. WriterInv(fs)'
  <2>1. Left' = Left
    BY DEF Left
  <2> QED BY <1>2, <2>1 DEF WriterInv
<1>4. TornInv(fs)'
  BY <1>2 DEF TornInv, HeadOf, RecordType
<1> QED BY <1>2, <1>3, <1>4

-----------------------------------------------------------------------------
(* LogReader takes the next block.                                         *)

\* The reader has come to the end: everything is found.
LEMMA FillDone ==
  ASSUME LogTypeOK, NEW fs \in Seq(Fragments), Written(fs), WriterInv(fs), TornInv(fs),
         AtBlockEnd, Len(file) <= blockIndex * BlockSize,
         Past \/ \E k \in 1..(Len(fs) + 1) : Awaits(Turn(fs, k))
  PROVE  /\ \A r \in DOMAIN ends : Found(r) /\ ends[r] <= ReadUpTo
         /\ ReadUpTo <= Len(file) =>
              \A r \in DOMAIN yielded : r \in DOMAIN ends /\ ends[r] <= ReadUpTo
         /\ FewTorn
<1>1. /\ Len(yielded) \in Nat /\ Len(ends) \in Nat /\ Len(file) \in Nat /\ ReadUpTo \in Nat
      /\ DOMAIN ends = 1..Len(ends) /\ \A i \in 1..Len(ends) : ends[i] \in Nat
  BY LengthTypes, Places
<1>2. CASE Past
  <2>1. (\A r \in DOMAIN ends : Found(r)) /\ ReadUpTo > Len(file) /\ FewTorn
    BY <1>2 DEF Past, AllFound
  <2>2. \A r \in DOMAIN ends : ends[r] <= Len(file)
    BY EndsInside
  <2>3. \A r \in DOMAIN ends : ends[r] <= ReadUpTo
    BY <1>1, <2>1, <2>2
  <2> QED BY <1>1, <2>1, <2>3
<1>3. CASE \E k \in 1..(Len(fs) + 1) : Awaits(Turn(fs, k))
  <2>1. Awaits(NextOf(fs))
    <3>1. PICK k \in 1..(Len(fs) + 1) : Awaits(Turn(fs, k))
      BY <1>3
    <3>2. CASE k = Len(fs) + 1
      BY <3>1, <3>2 DEF NextOf
    <3>3. CASE k # Len(fs) + 1
      <4>1. PICK j \in 1..(Len(fs) + 1) :
              /\ Awaits(Turn(fs, j)) /\ Turn(fs, j).start = blockIndex * BlockSize
        BY <3>1, <3>3, AtEnd
      <4>2. ASSUME j # Len(fs) + 1 PROVE FALSE
        <5>1. j \in 1..Len(fs)
          BY <4>2, LenProperties
        <5>2. PICK g : g = fs[j]
          OBVIOUS
        <5>3. g \in Fragments /\ Placed(g) /\ g.start = blockIndex * BlockSize
          BY <4>1, <5>1, <5>2, FragmentTurn DEF Takes
        <5>4. /\ g.start \in Nat /\ g.length \in Nat
              /\ g.start + HeaderSize + g.length <= Len(file)
          BY <5>3, FragmentType DEF Placed, EndOf
        <5> QED BY <1>1, <5>3, <5>4, LogConstants
      <4> QED BY <4>1, <4>2 DEF NextOf
    <3> QED BY <3>2, <3>3
  <2>2. PICK t : t = NextOf(fs)
    OBVIOUS
  <2>3. Len(fs) + 1 \in 1..(Len(fs) + 1) /\ t = Turn(fs, Len(fs) + 1)
    BY <2>2, LenProperties DEF NextOf
  <2>4. /\ \A r \in DOMAIN yielded : r \in DOMAIN ends /\ ends[r] <= ReadUpTo
        /\ \A r \in DOMAIN ends : r < t.of => Found(r) /\ ends[r] <= ReadUpTo
        /\ Len(yielded) <= Len(ends)
    BY <2>1, <2>2, <2>3, AwaitsShows
  <2>5. Len(ends) = t.of - 1 /\ t.of \in Nat
    BY <2>2, NextType DEF WriterInv
  <2>6. \A r \in DOMAIN ends : r < t.of
    BY <1>1, <2>5
  <2>7. FewTorn
    <3>1. Len(yielded) # Len(ends) + 1 /\ Len(yielded) <= Len(ends) + 1
      <4>1. Len(yielded) \in Nat /\ Len(ends) \in Nat /\ Len(yielded) <= Len(ends)
        BY <1>1, <2>4
      <4> QED BY <4>1
    <3> QED BY <3>1 DEF FewTorn
  <2> QED BY <2>4, <2>6, <2>7
<1> QED BY <1>2, <1>3

LEMMA FillKeeps ==
  ASSUME LogTypeOK, LogTypeOK', FillBuffer, NEW fs \in Seq(Fragments), Inv(fs)
  PROVE  Inv(fs)'
<1>0. PICK start : start = blockIndex * BlockSize
  OBVIOUS
<1>1. /\ phase = "reading" /\ AtBlockEnd /\ file' = file /\ sizes' = sizes
      /\ ends' = ends /\ position' = position
      /\ latestType' = latestType /\ latestOp' = latestOp /\ yielded' = yielded
  BY DEF FillBuffer, writer
<1>2. created' = created
  BY DEF FillBuffer, writer
<1>3. /\ Written(fs) /\ WriterInv(fs) /\ TornInv(fs) /\ BufInv
      /\ Past \/ \E k \in 1..(Len(fs) + 1) : Awaits(Turn(fs, k))
  BY <1>1 DEF Inv
<1>4. /\ Written(fs)' /\ WriterInv(fs)' /\ TornInv(fs)'
      /\ \A k \in 1..(Len(fs) + 1) : Turn(fs, k)' = Turn(fs, k)
  BY <1>1, <1>2, <1>3, ReadKeeps
<1>5. Len(file) \in Nat /\ start \in Nat /\ blockIndex \in Nat
  BY <1>0, LengthTypes, Places
<1>6. PICK bytes : bytes = Least(BlockSize, IF Len(file) > start THEN Len(file) - start ELSE 0)
  OBVIOUS
<1>7. /\ bytes \in Nat /\ bytes <= BlockSize /\ (bytes = 0 <=> Len(file) <= start)
      /\ \A i \in 1..BlockSize : i <= bytes <=> start + i <= Len(file)
  <2>1. CASE Len(file) > start
    <3>1. bytes = IF BlockSize < Len(file) - start THEN BlockSize ELSE Len(file) - start
      BY <1>6, <2>1 DEF Least
    <3> QED BY <1>5, <2>1, <3>1, LogConstants
  <2>2. CASE ~(Len(file) > start)
    <3>1. bytes = 0
      BY <1>6, <2>2, LogConstants DEF Least
    <3> QED BY <1>5, <2>2, <3>1, LogConstants
  <2> QED BY <2>1, <2>2
<1>8. CASE bytes = 0
  <2>1. phase' = "done" /\ blockIndex' = blockIndex /\ buf' = buf /\ handled' = handled
    BY <1>0, <1>6, <1>8 DEF FillBuffer
  <2>2. Len(file) <= blockIndex * BlockSize
    BY <1>0, <1>7, <1>8
  <2>3. /\ \A r \in DOMAIN ends : Found(r) /\ ends[r] <= ReadUpTo
        /\ ReadUpTo <= Len(file) =>
             \A r \in DOMAIN yielded : r \in DOMAIN ends /\ ends[r] <= ReadUpTo
        /\ FewTorn
    BY <1>1, <1>3, <2>2, FillDone
  <2>4. ReadUpTo' = ReadUpTo /\ \A r : Found(r)' <=> Found(r)
    BY <1>1, <2>1 DEF ReadUpTo, Found, Record, Payload
  <2>5. ReadsWhatWasWritten'
    <3>1. /\ \A r \in DOMAIN ends' : ends'[r] <= ReadUpTo' => Found(r)'
          /\ ReadUpTo' <= Len(file') =>
               \A r \in DOMAIN yielded' : r \in DOMAIN ends' /\ ends'[r] <= ReadUpTo'
          /\ \A r \in DOMAIN ends' : ends'[r] <= ReadUpTo'
      BY <1>1, <2>3, <2>4
    <3>2. ~GivenUp'
      BY <2>1 DEF GivenUp
    <3> QED BY <3>1, <3>2 DEF ReadsWhatWasWritten
  <2>6. OneTornRecord'
    BY <1>1, <2>1, <2>3 DEF OneTornRecord, FewTorn
  <2>7. BufInv'
    BY <1>1, <1>3, <2>1 DEF BufInv
  <2> QED BY <1>4, <2>1, <2>5, <2>6, <2>7 DEF Inv
<1>9. CASE bytes # 0
  <2>1. /\ phase' = "reading" /\ blockIndex' = blockIndex + 1 /\ handled' = 0
        /\ buf' = [i \in 1..BlockSize |-> IF i <= bytes THEN file[start + i] ELSE buf[i]]
    BY <1>0, <1>1, <1>6, <1>9 DEF FillBuffer
  <2>2. start < Len(file)
    BY <1>5, <1>7, <1>9
  <2>3. /\ blockIndex' > 0 /\ blockIndex' # 0 /\ (blockIndex' - 1) * BlockSize = start
        /\ ReadUpTo' = start
    <3>1. blockIndex' > 0 /\ blockIndex' - 1 = blockIndex /\ blockIndex' # 0
      BY <1>5, <2>1
    <3>2. (blockIndex' - 1) * BlockSize = start
      BY <1>0, <3>1
    <3> QED BY <1>5, <2>1, <3>1, <3>2 DEF ReadUpTo
  <2>4. BufInv'
    <3>1. ASSUME NEW i \in 1..BlockSize, start + i <= Len(file) PROVE buf'[i] = file[start + i]
      BY <1>7, <2>1, <3>1
    <3>2. ASSUME Len(file) <= BlockSize, NEW i \in 1..BlockSize, i > Len(file)
          PROVE  buf'[i] = Zero
      <4>1. ~(start + i <= Len(file)) /\ buf[i] = Zero
        BY <1>3, <1>5, <3>2, LogConstants DEF BufInv
      <4>2. ~(i <= bytes)
        BY <1>7, <4>1
      <4> QED BY <2>1, <4>1, <4>2
    <3>3. \A i \in 1..BlockSize : (blockIndex' - 1) * BlockSize + i <= Len(file')
            => buf'[i] = file'[(blockIndex' - 1) * BlockSize + i]
      BY <1>1, <2>3, <3>1
    <3>4. (blockIndex' - 1) * BlockSize < Len(file')
      BY <1>1, <2>2, <2>3
    <3> QED BY <1>1, <3>2, <3>3, <3>4 DEF BufInv
  <2>5. ~Past
    BY <1>0, <1>5, <2>2 DEF Past
  <2>6. PICK k \in 1..(Len(fs) + 1) :
          /\ Awaits(Turn(fs, k)) /\ Turn(fs, k).start = start /\ Turn(fs, k).block = start
    <3>1. PICK j \in 1..(Len(fs) + 1) : Awaits(Turn(fs, j))
      BY <1>3, <2>5
    <3>2. ~(Len(file) <= blockIndex * BlockSize)
      BY <1>0, <1>5, <2>2
    <3> QED BY <1>0, <1>1, <1>3, <3>1, <3>2, AtEnd
  <2>7. PICK t : t = Turn(fs, k)
    OBVIOUS
  <2>8. Awaits(t)'
    <3>1. /\ latestOp = Payload(t.of, 0, t.from) /\ Len(yielded) = t.of - 1
          /\ \A r \in 1..(t.of - 1) : yielded[r] = Record(r)
          /\ \A i \in DOMAIN ends : i < t.of => ends[i] <= ReadUpTo
          /\ t.created /\ latestType = "last" => Headless(t.of)
          /\ ~t.created => latestType # "first"
      BY <2>6, <2>7 DEF Awaits
    <3>2. ReadUpTo <= start /\ ReadUpTo \in Nat
      BY <1>5, <2>6, <2>7, AwaitsPlace, Places
    <3>3. \A i \in DOMAIN ends : ends[i] \in Nat
      BY LengthTypes
    <3>4. \A i \in DOMAIN ends' : i < t.of => ends'[i] <= ReadUpTo'
      BY <1>1, <1>5, <2>3, <3>1, <3>2, <3>3
    <3>5. /\ blockIndex' > 0 /\ t.block = (blockIndex' - 1) * BlockSize
          /\ t.start = t.block + handled'
          /\ handled' <= BlockSize /\ ReadUpTo' <= Len(file')
      BY <1>1, <1>5, <2>1, <2>2, <2>3, <2>6, <2>7, LogConstants
    <3>6. /\ latestOp' = Payload(t.of, 0, t.from)' /\ Len(yielded') = t.of - 1
          /\ \A r \in 1..(t.of - 1) : yielded'[r] = Record(r)'
      BY <1>1, <3>1 DEF Record, Payload
    <3>7. /\ t.created /\ latestType' = "last" => Headless(t.of)'
          /\ ~t.created => latestType' # "first"
      BY <1>1, <3>1 DEF Headless
    <3> QED BY <3>4, <3>5, <3>6, <3>7 DEF Awaits
  <2>9. Awaits(Turn(fs, k))'
    <3>1. Turn(fs, k)' = t
      BY <1>4, <2>7
    <3> QED BY <2>8, <3>1 DEF Awaits
  <2> QED BY <1>4, <2>1, <2>4, <2>9 DEF Inv
<1> QED BY <1>8, <1>9

-----------------------------------------------------------------------------
(* LogReader takes a fragment.                                             *)

\* What readPhysicalRecord does with a header h.
Reads(h) ==
  LET data == Data(h.length)
      asserted == h.type \in {"first", "last"} => latestType # h.type
  IN  /\ handled' = IF h.type = "zero" THEN BlockSize
                    ELSE handled + h.length + HeaderSize
      /\ latestType' = h.type
      /\ phase' = IF asserted THEN phase ELSE "failed"
      /\ h.type = "full" => yielded' = Append(yielded, data) /\ latestOp' = latestOp
      /\ h.type = "first" /\ asserted => latestOp' = data /\ yielded' = yielded
      /\ h.type = "middle" => latestOp' = latestOp \o data /\ yielded' = yielded
      /\ h.type = "last" /\ asserted =>
           yielded' = Append(yielded, latestOp \o data) /\ latestOp' = <<>>
      /\ h.type \notin {"full", "first", "middle", "last"} \/ ~asserted =>
           yielded' = yielded /\ latestOp' = latestOp

LEMMA ReadsHeader ==
  ASSUME ReadPhysicalRecord
  PROVE  /\ phase = "reading" /\ ~AtBlockEnd
         /\ file' = file /\ sizes' = sizes /\ ends' = ends /\ position' = position
         /\ created' = created /\ blockIndex' = blockIndex /\ buf' = buf
         /\ \E h \in Headers : Reads(h)
<1>1. /\ phase = "reading" /\ ~AtBlockEnd
      /\ file' = file /\ sizes' = sizes /\ ends' = ends /\ position' = position
      /\ blockIndex' = blockIndex /\ buf' = buf
  BY DEF ReadPhysicalRecord, writer
<1>2. created' = created
  BY DEF ReadPhysicalRecord, writer
<1>3. PICK h \in Headers :
        LET data == Data(h.length)
            asserted == h.type \in {"first", "last"} => latestType # h.type
        IN  /\ handled' = IF h.type = "zero" THEN BlockSize
                          ELSE handled + h.length + HeaderSize
            /\ latestType' = h.type
            /\ CASE h.type = "full" ->
                      yielded' = Append(yielded, data) /\ UNCHANGED latestOp
                 [] h.type = "last" /\ asserted -> LastRead(data)
                 [] h.type = "first" /\ asserted ->
                      latestOp' = data /\ UNCHANGED yielded
                 [] h.type = "middle" ->
                      latestOp' = latestOp \o data /\ UNCHANGED yielded
                 [] OTHER -> OtherRead(h.type, data)
            /\ phase' = IF asserted THEN phase ELSE "failed"
  BY DEF ReadPhysicalRecord
<1>4. Reads(h)
  <2>1. CASE h.type = "full"
    BY <1>3, <2>1 DEF Reads
  <2>2. CASE h.type = "first"
    <3>1. CASE latestType = "first"
      BY <1>3, <2>2, <3>1 DEF Reads, OtherRead
    <3>2. CASE latestType # "first"
      BY <1>3, <2>2, <3>2 DEF Reads
    <3> QED BY <3>1, <3>2
  <2>3. CASE h.type = "middle"
    BY <1>3, <2>3 DEF Reads
  <2>4. CASE h.type = "last"
    <3>1. CASE latestType = "last"
      BY <1>3, <2>4, <3>1 DEF Reads, OtherRead
    <3>2. CASE latestType # "last"
      BY <1>3, <2>4, <3>2 DEF Reads, LastRead
    <3> QED BY <3>1, <3>2
  <2>5. CASE h.type \notin {"full", "first", "middle", "last"}
    BY <1>3, <2>5 DEF Reads, OtherRead
  <2> QED BY <2>1, <2>2, <2>3, <2>4, <2>5
<1> QED BY <1>1, <1>2, <1>3, <1>4

\* A head cell is read as what it says.
LEMMA HeadRead ==
  ASSUME NEW type, NEW n, buf[handled + HeaderSize]
                            = [kind |-> "head", type |-> type, length |-> n],
         NEW h \in Headers
  PROVE  h.type = type /\ h.length = n
<1>1. PICK cell : cell = buf[handled + HeaderSize]
  OBVIOUS
<1>2. cell.kind = "head" /\ cell.type = type /\ cell.length = n
  <2>1. cell = [kind |-> "head", type |-> type, length |-> n]
    BY <1>1
  <2> QED BY <2>1
<1>3. Headers = {[type |-> cell.type, length |-> cell.length]}
  BY <1>1, <1>2 DEF Headers
<1>4. h = [type |-> cell.type, length |-> cell.length]
  BY <1>3
<1> QED BY <1>2, <1>4

\* Behind the header of a fragment comes its part of the record.
LEMMA DataRead ==
  ASSUME LogTypeOK, BufInv, blockIndex > 0, NEW g \in Fragments, Content(g),
         EndOf(g) <= Len(file), g.start = (blockIndex - 1) * BlockSize + handled,
         handled + HeaderSize + g.length <= BlockSize
  PROVE  /\ buf[handled + HeaderSize] = HeadOf(g.created, Ended(g), g.length)
         /\ Data(g.length) = Payload(g.of, g.from, g.length)
<1>0. PICK b : b = (blockIndex - 1) * BlockSize
  OBVIOUS
<1>1. /\ b \in Nat /\ handled \in Nat /\ Len(file) \in Nat
      /\ g.start \in Nat /\ g.length \in Nat /\ g.of \in Nat /\ g.from \in Nat
      /\ g.start + HeaderSize + g.length <= Len(file)
  BY <1>0, Places, LengthTypes, FragmentType DEF EndOf
<1>2. \A i \in 1..BlockSize : b + i <= Len(file) => buf[i] = file[b + i]
  BY <1>0 DEF BufInv
<1>3. ASSUME NEW i \in 0..g.length
      PROVE  buf[handled + HeaderSize + i] = file[g.start + HeaderSize + i]
  <2>1. /\ handled + HeaderSize + i \in 1..BlockSize
        /\ b + (handled + HeaderSize + i) = g.start + HeaderSize + i
        /\ g.start + HeaderSize + i <= Len(file)
    <3>1. g.start = b + handled
      BY <1>0
    <3>2. i \in Nat /\ i <= g.length
      BY <1>1
    <3>3. PICK l : l = g.length
      OBVIOUS
    <3>4. /\ l \in Nat /\ i <= l /\ handled + HeaderSize + l <= BlockSize
          /\ b + handled + HeaderSize + l <= Len(file)
      BY <1>1, <3>1, <3>2, <3>3
    <3>5. handled + HeaderSize + i \in 1..BlockSize
      BY <1>1, <3>2, <3>4, LogConstants
    <3>6. b + (handled + HeaderSize + i) = g.start + HeaderSize + i
      BY <1>1, <3>1, <3>2, LogConstants
    <3>7. b + handled + HeaderSize + i <= Len(file)
      BY <1>1, <3>2, <3>4, LogConstants
    <3> QED BY <3>1, <3>5, <3>6, <3>7
  <2> QED BY <1>2, <2>1
<1>4. buf[handled + HeaderSize] = HeadOf(g.created, Ended(g), g.length)
  <2>1. /\ 0 \in 0..g.length /\ handled + HeaderSize + 0 = handled + HeaderSize
        /\ g.start + HeaderSize + 0 = g.start + HeaderSize
    BY <1>1, LogConstants
  <2>2. buf[handled + HeaderSize] = file[g.start + HeaderSize]
    BY <1>3, <2>1
  <2> QED BY <2>2 DEF Content
<1>5. Data(g.length) = Payload(g.of, g.from, g.length)
  <2> DEFINE m == handled + HeaderSize + 1
             n == handled + HeaderSize + g.length
  <2>1. buf \in [1..BlockSize -> Cells]
    BY DEF LogTypeOK
  <2> HIDE DEF m, n
  <2>2. /\ m \in Nat /\ n \in Nat /\ n - m + 1 = g.length /\ 1 <= m /\ n <= BlockSize
        /\ (m <= n \/ g.length = 0) /\ (m <= n => g.length > 0)
    BY <1>1, LogConstants, SMTT(30) DEF m, n
  <2>3. Data(g.length) = SubSeq(buf, m, n)
    <3>1. n = BlockSize \/ n < BlockSize
      BY <2>2, LogConstants
    <3>2. Least(n, BlockSize) = n
      BY <3>1 DEF Least
    <3> QED BY <3>2 DEF Data, m, n
  <2>4. /\ SubSeq(buf, m, n) \in Seq(Cells) /\ Len(SubSeq(buf, m, n)) = g.length
        /\ \A i \in 1..g.length : SubSeq(buf, m, n)[i] = buf[m + i - 1]
    <3>1. \A i \in m..n : buf[i] \in Cells
      BY <2>1, <2>2, LogConstants
    <3>2. m \in Int /\ n \in Int
      BY <2>2
    <3>3. /\ SubSeq(buf, m, n) \in Seq(Cells)
          /\ Len(SubSeq(buf, m, n)) = IF m <= n THEN n - m + 1 ELSE 0
          /\ \A i \in 1..(n - m + 1) : SubSeq(buf, m, n)[i] = buf[m + i - 1]
      BY <3>1, <3>2, SubSeqProperties
    <3>4. Len(SubSeq(buf, m, n)) = g.length
      BY <2>2, <3>3
    <3> QED BY <2>2, <3>3, <3>4
  <2>5. ASSUME NEW i \in 1..g.length
        PROVE  buf[m + i - 1] = [kind |-> "data", of |-> g.of, at |-> g.from + i]
    <3>1. m + i - 1 = handled + HeaderSize + i /\ i \in 0..g.length
      BY <1>1, LogConstants DEF m
    <3> QED BY <1>3, <3>1 DEF Content
  <2>6. /\ Payload(g.of, g.from, g.length) \in Seq(Cells)
        /\ Len(Payload(g.of, g.from, g.length)) = g.length
        /\ \A i \in 1..g.length : Payload(g.of, g.from, g.length)[i]
                                    = [kind |-> "data", of |-> g.of, at |-> g.from + i]
    <3>1. g.of \in Nat /\ g.from \in Nat /\ g.length \in Nat
      BY <1>1
    <3> QED BY <3>1, PayloadSeq, ZenonT(30)
  <2>7. PICK p, q : p = Payload(g.of, g.from, g.length) /\ q = SubSeq(buf, m, n)
    OBVIOUS
  <2>8. /\ p \in Seq(Cells) /\ q \in Seq(Cells) /\ Len(p) = Len(q)
        /\ \A i \in 1..Len(p) : p[i] = q[i]
    BY <2>4, <2>5, <2>6, <2>7
  <2>9. p = q
    BY <2>8, SeqEqual
  <2> QED BY <2>3, <2>7, <2>9
<1> QED BY <1>4, <1>5

\* The reader that has passed a fragment is at the next turn.
LEMMA ReadPlace ==
  ASSUME LogTypeOK, ~AtBlockEnd, NEW t, NEW u, NEW g \in Fragments, Placed(g),
         EndsAround(g), Takes(g, t), Follows(g, u), Awaits(t),
         blockIndex' = blockIndex, file' = file, ends' = ends,
         handled' = handled + g.length + HeaderSize
  PROVE  /\ \/ AtBlockEnd' /\ u.start = blockIndex' * BlockSize /\ u.block = u.start
            \/ /\ blockIndex' > 0 /\ u.block = (blockIndex' - 1) * BlockSize
               /\ u.start = u.block + handled'
         /\ handled' <= BlockSize /\ ReadUpTo' <= Len(file')
         /\ ReadUpTo' = EndOf(g) /\ ReadUpTo <= ReadUpTo'
         /\ \A i \in DOMAIN ends' : i < u.of => ends'[i] <= ReadUpTo'
<1>0. PICK b : b = (blockIndex - 1) * BlockSize
  OBVIOUS
<1>1. /\ blockIndex > 0 /\ blockIndex # 0 /\ handled < BlockSize - HeaderSize
      /\ b \in Nat /\ handled \in Nat /\ blockIndex * BlockSize = b + BlockSize
      /\ ReadUpTo = b + handled
  <2>1. blockIndex # 0 /\ blockIndex \in Nat /\ handled \in Nat
    BY Places DEF AtBlockEnd
  <2>2. handled < BlockSize - HeaderSize
    BY <2>1, LogConstants DEF AtBlockEnd
  <2> QED BY <1>0, <2>1, <2>2, Places
<1>2. t.block = b /\ t.start = b + handled
  BY <1>0, <1>1 DEF Awaits
<1>3. g.block = b /\ g.start = b + handled /\ g.of = t.of
  BY <1>2 DEF Takes
<1>4. /\ g.length \in Nat /\ g.of \in Nat \ {0} /\ Len(file) \in Nat
      /\ EndOf(g) = g.start + HeaderSize + g.length
  BY FragmentType, LengthTypes DEF EndOf
<1>5. EndOf(g) <= g.block + BlockSize /\ EndOf(g) <= Len(file)
  BY DEF Placed
<1>6. PICK e, n : e = EndOf(g) /\ n = g.length
  OBVIOUS
<1>7. /\ e = b + handled + HeaderSize + n /\ n \in Nat /\ e <= b + BlockSize
      /\ handled' = handled + n + HeaderSize
  BY <1>3, <1>4, <1>5, <1>6
<1>8. e \in Nat /\ handled' <= BlockSize /\ e = b + handled' /\ handled' \in Nat
      /\ b + handled <= e
  BY <1>1, <1>7, LogConstants
<1>9. ReadUpTo' = e
  BY <1>0, <1>1, <1>8 DEF ReadUpTo
<1>10. ReadUpTo' <= Len(file') /\ ReadUpTo <= ReadUpTo' /\ ReadUpTo \in Nat
  BY <1>1, <1>5, <1>6, <1>8, <1>9
<1>11. \/ AtBlockEnd' /\ u.start = blockIndex' * BlockSize /\ u.block = u.start
       \/ /\ blockIndex' > 0 /\ u.block = (blockIndex' - 1) * BlockSize
          /\ u.start = u.block + handled'
  <2>1. CASE Full(g)
    <3>1. b + BlockSize - e < HeaderSize
      BY <1>3, <1>6, <2>1 DEF Full
    <3>2. handled' >= BlockSize - HeaderSize
      BY <1>1, <1>8, <3>1, LogConstants
    <3>3. u.block = b + BlockSize /\ u.start = b + BlockSize
      BY <1>3, <2>1 DEF Follows
    <3> QED BY <1>1, <3>2, <3>3 DEF AtBlockEnd
  <2>2. CASE ~Full(g)
    <3>1. u.block = b /\ u.start = e
      BY <1>3, <1>6, <2>2 DEF Follows
    <3> QED BY <1>0, <1>1, <1>8, <3>1
  <2> QED BY <2>1, <2>2
<1>12. ASSUME NEW i \in DOMAIN ends', i < u.of PROVE ends'[i] <= ReadUpTo'
  <2>1. i \in DOMAIN ends /\ i \in Nat /\ ends[i] \in Nat
    BY LengthTypes
  <2>2. CASE i < t.of
    <3>1. ends[i] <= ReadUpTo
      BY <2>1, <2>2 DEF Awaits
    <3> QED BY <1>8, <1>9, <1>10, <2>1, <3>1
  <2>3. CASE ~(i < t.of)
    <3>1. Ended(g) /\ i = g.of
      <4>1. Ended(g) => u.of = g.of + 1
        BY DEF Follows
      <4>2. ~Ended(g) => u.of = g.of
        BY DEF Follows
      <4> QED BY <1>3, <1>4, <1>12, <2>1, <2>3, <4>1, <4>2
    <3>2. ends[i] = e
      BY <1>6, <3>1 DEF EndsAround
    <3> QED BY <1>8, <1>9, <3>2
  <2> QED BY <2>2, <2>3
<1> QED BY <1>6, <1>8, <1>9, <1>10, <1>11, <1>12

\* A fragment after the next: its bytes, and what they are the end of.
LEMMA ReadFragment ==
  ASSUME LogTypeOK, LogTypeOK', ReadPhysicalRecord, NEW fs \in Seq(Fragments),
         Written(fs), BufInv, NEW k \in 1..Len(fs), Awaits(Turn(fs, k))
  PROVE  \/ phase' = "reading" /\ Awaits(Turn(fs, k + 1))'
         \/ phase' = "failed" /\ ReadsWhatWasWritten' /\ OneTornRecord'
<1>0. PICK g, t, u : g = fs[k] /\ t = Turn(fs, k) /\ u = Turn(fs, k + 1)
  OBVIOUS
<1>1. /\ g \in Fragments /\ Placed(g) /\ Content(g) /\ EndsAround(g)
      /\ Takes(g, t) /\ Follows(g, u) /\ Awaits(t)
  BY <1>0, FragmentTurn
<1>2. /\ phase = "reading" /\ ~AtBlockEnd
      /\ file' = file /\ sizes' = sizes /\ ends' = ends
      /\ blockIndex' = blockIndex /\ buf' = buf
  BY ReadsHeader
<1>3. PICK h \in Headers : Reads(h)
  BY ReadsHeader
<1>4. /\ t.block = g.block /\ t.start = g.start /\ t.of = g.of /\ t.from = g.from
  BY <1>1 DEF Takes
<1>5. t.created = g.created /\ g.created \in BOOLEAN
  BY <1>1, FragmentType DEF Takes
<1>6. /\ g.of \in Nat \ {0} /\ g.from \in Nat /\ g.length \in Nat /\ g.start \in Nat
      /\ g.of - 1 \in Nat /\ g.from + g.length \in Nat
  BY <1>1, FragmentType, SMTT(30)
<1>7. /\ blockIndex > 0 /\ g.start = (blockIndex - 1) * BlockSize + handled
      /\ EndOf(g) <= Len(file) /\ handled + HeaderSize + g.length <= BlockSize
  <2>1. blockIndex > 0 /\ handled < BlockSize - HeaderSize
    <3>1. blockIndex # 0 /\ blockIndex \in Nat /\ handled \in Nat
      BY <1>2, Places DEF AtBlockEnd
    <3> QED BY <1>2, <3>1, LogConstants DEF AtBlockEnd
  <2>2. PICK b : b = (blockIndex - 1) * BlockSize
    OBVIOUS
  <2>3. b \in Nat /\ handled \in Nat /\ blockIndex * BlockSize = b + BlockSize
    BY <2>1, <2>2, Places
  <2>4. t.block = b /\ t.start = b + handled
    <3>1. ~AtBlockEnd
      BY <1>2
    <3> QED BY <1>1, <2>2, <3>1 DEF Awaits
  <2>5. EndOf(g) <= g.block + BlockSize /\ EndOf(g) <= Len(file)
    BY <1>1 DEF Placed
  <2>6. b + handled + HeaderSize + g.length <= b + BlockSize
    BY <1>4, <2>4, <2>5 DEF EndOf
  <2>7. handled + HeaderSize + g.length <= BlockSize
    BY <1>6, <2>3, <2>6, LogConstants, SMTT(30)
  <2> QED BY <1>4, <2>1, <2>2, <2>4, <2>5, <2>7
<1>8. /\ buf[handled + HeaderSize] = HeadOf(g.created, Ended(g), g.length)
      /\ Data(g.length) = Payload(g.of, g.from, g.length)
  BY <1>1, <1>7, DataRead
<1>9. h.type = RecordType(~g.created, Ended(g)) /\ h.length = g.length
  BY <1>8, HeadRead DEF HeadOf
<1>10. /\ ~g.created /\ Ended(g) => h.type = "full"
       /\ ~g.created /\ ~Ended(g) => h.type = "first"
       /\ g.created /\ Ended(g) => h.type = "last"
       /\ g.created /\ ~Ended(g) => h.type = "middle"
  <2>1. (g.created = TRUE \/ g.created = FALSE) /\ (Ended(g) = TRUE \/ Ended(g) = FALSE)
    BY <1>5 DEF Ended
  <2> QED BY <1>9, <2>1, RecordTypes
<1>11. /\ handled' = handled + g.length + HeaderSize /\ latestType' = h.type
       /\ h.type \in {"full", "first", "last", "middle"}
  <2>1. h.type \in {"full", "first", "last", "middle"}
    BY <1>10
  <2> QED BY <1>3, <1>9, <2>1 DEF Reads
<1>12. /\ \/ AtBlockEnd' /\ u.start = blockIndex' * BlockSize /\ u.block = u.start
          \/ /\ blockIndex' > 0 /\ u.block = (blockIndex' - 1) * BlockSize
             /\ u.start = u.block + handled'
       /\ handled' <= BlockSize /\ ReadUpTo' <= Len(file')
       /\ ReadUpTo' = EndOf(g) /\ ReadUpTo <= ReadUpTo'
       /\ \A i \in DOMAIN ends' : i < u.of => ends'[i] <= ReadUpTo'
  BY <1>1, <1>2, <1>11, ReadPlace
<1>13. /\ latestOp = Payload(g.of, 0, g.from) /\ Len(yielded) = g.of - 1
       /\ \A r \in 1..(g.of - 1) : yielded[r] = Record(r)
       /\ \A i \in DOMAIN ends : i < g.of => ends[i] <= ReadUpTo
  BY <1>1, <1>4 DEF Awaits
<1>14. /\ g.created /\ latestType = "last" => Headless(g.of)
       /\ ~g.created => latestType # "first" /\ g.from = 0
  <2>1. ~t.created => t.from = 0
    <3>1. k \in 1..(Len(fs) + 1)
      BY LenProperties
    <3> QED BY <1>0, <3>1, TurnPlace
  <2> QED BY <1>1, <1>4, <1>5, <2>1 DEF Awaits
<1>15. Turn(fs, k + 1)' = u
  BY <1>0, <1>2, TurnOfSizes
<1>16. \A r : Payload(r, 0, 0) = <<>>
  BY DEF Payload
<1>17. CASE ~Ended(g) /\ ~(h.type \in {"first", "last"} /\ latestType = h.type)
  <2>1. u.of = g.of /\ u.from = g.from + g.length
    BY <1>1, <1>17 DEF Follows
  <2>2. u.created = TRUE
    BY <1>1, <1>17 DEF Follows
  <2>3. latestOp' = Payload(g.of, 0, g.from + g.length) /\ yielded' = yielded
    <3>1. CASE g.created
      <4>1. h.type = "middle"
        BY <1>10, <1>17, <3>1
      <4>2. latestOp' = latestOp \o Data(g.length) /\ yielded' = yielded
        BY <1>3, <1>9, <4>1 DEF Reads
      <4>3. Payload(g.of, 0, g.from) \o Payload(g.of, g.from, g.length)
              = Payload(g.of, 0, g.from + g.length)
        <5>1. g.of \in Nat /\ g.from \in Nat /\ g.length \in Nat
          BY <1>6
        <5> QED BY <5>1, PayloadsJoin, ZenonT(30)
      <4> QED BY <1>8, <1>13, <4>2, <4>3
    <3>2. CASE ~g.created
      <4>1. h.type = "first"
        BY <1>10, <1>17, <3>2
      <4>2. latestOp' = Data(g.length) /\ yielded' = yielded
        BY <1>3, <1>9, <1>17, <4>1 DEF Reads
      <4>3. g.from = 0 /\ g.from + g.length = g.length
        BY <1>6, <1>14, <3>2
      <4> QED BY <1>8, <4>2, <4>3
    <3> QED BY <3>1, <3>2
  <2>4. latestType' # "last" /\ phase' = "reading"
    <3>1. h.type # "last"
      BY <1>5, <1>10, <1>17
    <3> QED BY <1>2, <1>3, <1>11, <1>17, <3>1 DEF Reads
  <2>5. Awaits(u)'
    <3>1. /\ latestOp' = Payload(u.of, 0, u.from)' /\ Len(yielded') = u.of - 1
          /\ \A r \in 1..(u.of - 1) : yielded'[r] = Record(r)'
      BY <1>2, <1>13, <2>1, <2>3 DEF Payload, Record
    <3> QED BY <1>12, <2>2, <2>4, <3>1 DEF Awaits
  <2> QED BY <1>15, <2>4, <2>5 DEF Awaits
<1>18. CASE Ended(g) /\ ~(h.type \in {"first", "last"} /\ latestType = h.type)
  <2>1. u.of = g.of + 1 /\ u.from = 0
    BY <1>1, <1>18 DEF Follows
  <2>2. u.created = FALSE
    BY <1>1, <1>18 DEF Follows
  <2>3. g.from + g.length = sizes[g.of]
    BY <1>18 DEF Ended
  <2>4. latestOp' = <<>> /\ yielded' = Append(yielded, Record(g.of))
    <3>1. CASE g.created
      <4>1. h.type = "last"
        BY <1>10, <1>18, <3>1
      <4>2. latestOp' = <<>> /\ yielded' = Append(yielded, latestOp \o Data(g.length))
        BY <1>3, <1>9, <1>18, <4>1 DEF Reads
      <4>3. Payload(g.of, 0, g.from) \o Payload(g.of, g.from, g.length)
              = Payload(g.of, 0, g.from + g.length)
        <5>1. g.of \in Nat /\ g.from \in Nat /\ g.length \in Nat
          BY <1>6
        <5> QED BY <5>1, PayloadsJoin, ZenonT(30)
      <4> QED BY <1>8, <1>13, <2>3, <4>2, <4>3 DEF Record
    <3>2. CASE ~g.created
      <4>1. h.type = "full"
        BY <1>10, <1>18, <3>2
      <4>2. latestOp' = latestOp /\ yielded' = Append(yielded, Data(g.length))
        BY <1>3, <1>9, <4>1 DEF Reads
      <4>3. g.from = 0 /\ g.length = sizes[g.of]
        BY <1>6, <1>14, <2>3, <3>2
      <4> QED BY <1>8, <1>13, <1>16, <4>2, <4>3 DEF Record
    <3> QED BY <3>1, <3>2
  <2>5. latestType' # "first" /\ phase' = "reading"
    <3>1. h.type # "first"
      BY <1>5, <1>10, <1>18
    <3> QED BY <1>2, <1>3, <1>11, <1>18, <3>1 DEF Reads
  <2>6. /\ Len(yielded') = u.of - 1 /\ \A r \in 1..(u.of - 1) : yielded'[r] = Record(r)
    <3>1. PICK x : x = Record(g.of)
      OBVIOUS
    <3>2. yielded \in Seq(Seq(Cells)) /\ x \in Seq(Cells)
      <4>1. Record(g.of) = Payload(g.of, 0, g.from + g.length)
        BY <2>3 DEF Record
      <4>2. Payload(g.of, 0, g.from + g.length) \in Seq(Cells)
        BY <1>6, PayloadSeq
      <4> QED BY <3>1, <4>1, <4>2 DEF LogTypeOK
    <3>3. /\ Len(yielded') = Len(yielded) + 1 /\ yielded'[Len(yielded) + 1] = x
          /\ \A r \in 1..Len(yielded) : yielded'[r] = yielded[r]
      BY <2>4, <3>1, <3>2, AppendProperties
    <3>4. Len(yielded') = u.of - 1
      BY <1>6, <1>13, <2>1, <3>3
    <3>5. ASSUME NEW r \in 1..(u.of - 1) PROVE yielded'[r] = Record(r)
      <4>1. CASE r = g.of
        <5>1. yielded'[g.of] = x
          BY <1>6, <1>13, <3>3
        <5> QED BY <3>1, <4>1, <5>1
      <4>2. CASE r # g.of
        <5>1. r \in 1..(g.of - 1)
          BY <1>6, <2>1, <4>2
        <5> QED BY <1>13, <3>3, <5>1
      <4> QED BY <4>1, <4>2
    <3> QED BY <3>4, <3>5
  <2>7. Awaits(u)'
    <3>1. latestOp' = Payload(u.of, 0, u.from)'
      BY <2>1, <2>4 DEF Payload
    <3>2. \A r \in 1..(u.of - 1) : yielded'[r] = Record(r)'
      BY <1>2, <2>6 DEF Record, Payload
    <3> QED BY <1>12, <2>2, <2>5, <2>6, <3>1, <3>2 DEF Awaits
  <2> QED BY <1>15, <2>5, <2>7 DEF Awaits
<1>19. CASE h.type \in {"first", "last"} /\ latestType = h.type
  <2>1. g.created /\ h.type = "last" /\ Headless(g.of)
    <3>1. g.created
      BY <1>5, <1>10, <1>14, <1>19
    <3> QED BY <1>10, <1>14, <1>19, <3>1
  <2>2. phase' = "failed" /\ yielded' = yielded
    BY <1>3, <1>19 DEF Reads
  <2>3. \A i \in DOMAIN ends : i \in Nat /\ 1 <= i /\ ends[i] \in Nat
    BY LengthTypes
  <2>4. EndOf(g) \in Nat /\ ReadUpTo \in Nat /\ DOMAIN yielded = 1..(g.of - 1)
    BY <1>1, <1>13, FragmentType, Places, LengthTypes
  <2>5. ASSUME NEW r \in DOMAIN ends, ends[r] <= EndOf(g)
        PROVE  Found(r)' \/ r = Len(yielded) + 1
    <3>1. ~(r > g.of)
      <4>1. r > g.of => ends[r] > EndOf(g)
        BY <1>1 DEF EndsAround
      <4> QED BY <2>3, <2>4, <2>5, <4>1
    <3>2. CASE r = g.of
      BY <1>6, <1>13, <3>2
    <3>3. CASE r # g.of
      <4>1. r \in 1..(g.of - 1)
        BY <1>6, <2>3, <3>1, <3>3
      <4>2. r \in DOMAIN yielded' /\ yielded'[r] = Record(r)
        BY <1>13, <2>2, <2>4, <4>1
      <4> QED BY <1>2, <4>2 DEF Found, Record, Payload
    <3> QED BY <3>2, <3>3
  <2>6. ASSUME NEW r \in DOMAIN yielded PROVE r \in DOMAIN ends /\ ends[r] <= EndOf(g)
    <3>1. r \in 1..(g.of - 1) /\ r < g.of
      BY <1>6, <2>4
    <3>2. r \in DOMAIN ends
      BY <1>1, <3>1 DEF EndsAround
    <3>3. ends[r] <= ReadUpTo
      BY <1>13, <3>1, <3>2
    <3> QED BY <1>12, <2>3, <2>4, <3>2, <3>3
  <2>7. Headless(Len(yielded) + 1)' /\ Len(yielded) + 1 = g.of
    <3>1. Len(yielded') + 1 = g.of
      BY <1>6, <1>13, <2>2
    <3>2. Headless(g.of)'
      BY <1>2, <2>1 DEF Headless
    <3>3. Headless(Len(yielded) + 1)'
      BY <3>1, <3>2 DEF Headless
    <3> QED BY <2>2, <3>1, <3>3
  <2>8. ReadsWhatWasWritten'
    <3>1. GivenUp'
      BY <1>12, <2>2 DEF GivenUp
    <3>2. \A r \in DOMAIN ends' : ends'[r] <= ReadUpTo' =>
            Found(r)' \/ (GivenUp' /\ r = Len(yielded') + 1)
      BY <1>2, <1>12, <2>2, <2>5, <3>1
    <3>3. \A r \in DOMAIN yielded' : r \in DOMAIN ends' /\ ends'[r] <= ReadUpTo'
      BY <1>2, <1>12, <2>2, <2>6
    <3> QED BY <2>2, <2>7, <3>2, <3>3 DEF ReadsWhatWasWritten
  <2>9. Len(file') > BlockSize
    <3>1. t.created => t.start >= BlockSize
      <4>1. k \in 1..(Len(fs) + 1)
        BY LenProperties
      <4> QED BY <1>0, <4>1, TurnPlace
    <3>2. g.start >= BlockSize
      BY <1>4, <1>5, <2>1, <3>1
    <3>3. g.start + HeaderSize + g.length <= Len(file) /\ Len(file) \in Nat
      BY <1>1, LengthTypes DEF Placed, EndOf
    <3> QED BY <1>2, <1>6, <3>2, <3>3, LogConstants
  <2>10. OneTornRecord'
    <3>1. ~(Len(file') <= BlockSize)
      <4>1. Len(file') \in Nat
        BY <1>2, LengthTypes
      <4> QED BY <2>9, <4>1, LogConstants
    <3> QED BY <3>1 DEF OneTornRecord
  <2> QED BY <2>2, <2>8, <2>10
<1> QED BY <1>17, <1>18, <1>19

\* In a file of one block the cells behind its end are read as its end.
LEMMA ReadZero ==
  ASSUME LogTypeOK, BufInv, ~AtBlockEnd, Len(file) <= BlockSize,
         ReadUpTo + HeaderSize > Len(file), NEW h \in Headers
  PROVE  h.type = "zero"
<1>0. PICK b : b = (blockIndex - 1) * BlockSize
  OBVIOUS
<1>1. blockIndex > 0 /\ handled < BlockSize - HeaderSize /\ handled \in Nat
  <2>1. blockIndex # 0 /\ blockIndex \in Nat /\ handled \in Nat
    BY Places DEF AtBlockEnd
  <2> QED BY <2>1, LogConstants DEF AtBlockEnd
<1>2. b \in Nat /\ b \in BlockStarts /\ ReadUpTo = b + handled
  BY <1>0, <1>1, Places
<1>3. Len(file) \in Nat
  BY LengthTypes
<1>4. b = 0
  <2>1. b < Len(file)
    BY <1>0, <1>1 DEF BufInv
  <2>2. 0 < b => 0 + BlockSize <= b
    BY <1>2, BlocksApart
  <2> QED BY <1>2, <1>3, <2>1, <2>2, LogConstants
<1>5. buf[handled + HeaderSize] = Zero
  <2>1. handled + HeaderSize \in 1..BlockSize /\ handled + HeaderSize > Len(file)
    BY <1>1, <1>2, <1>3, <1>4, LogConstants
  <2> QED BY <2>1 DEF BufInv
<1>6. PICK cell : cell = buf[handled + HeaderSize]
  OBVIOUS
<1>7. cell.kind = "zero"
  BY <1>5, <1>6 DEF Zero
<1>8. Headers = {[type |-> "zero", length |-> 0]}
  BY <1>6, <1>7 DEF Headers
<1> QED BY <1>8

\* What a step that only reads keeps of the records found.
LEMMA FoundKept ==
  ASSUME LogTypeOK, NEW h, Reads(h), sizes' = sizes, ends' = ends, AllFound
  PROVE  /\ AllFound' /\ Len(yielded') \in Nat
         /\ Len(yielded') <= Len(yielded) + 1
         /\ h.type = "zero" => yielded' = yielded
<1>1. yielded \in Seq(Seq(Cells))
  BY DEF LogTypeOK
<1>2. yielded' = yielded \/ \E x : yielded' = Append(yielded, x)
  BY DEF Reads
<1>3. h.type = "zero" => yielded' = yielded
  BY DEF Reads
<1>4. /\ Len(yielded) \in Nat /\ DOMAIN yielded = 1..Len(yielded)
      /\ Len(yielded') \in Nat /\ Len(yielded') <= Len(yielded) + 1
      /\ DOMAIN yielded' = 1..Len(yielded') /\ Len(yielded) <= Len(yielded')
      /\ \A i \in 1..Len(yielded) : yielded'[i] = yielded[i]
  <2>1. Len(yielded) \in Nat /\ DOMAIN yielded = 1..Len(yielded)
    BY <1>1, LenProperties
  <2>2. CASE yielded' = yielded
    BY <2>1, <2>2
  <2>3. CASE yielded' # yielded
    <3>1. PICK x : yielded' = Append(yielded, x)
      BY <1>2, <2>3
    <3>2. PICK S : S = Seq(Cells) \cup {x}
      OBVIOUS
    <3>3. yielded \in Seq(S) /\ x \in S
      <4>1. Seq(Cells) \subseteq S
        BY <3>2
      <4> QED BY <1>1, <3>2, <4>1, SeqMonotonic
    <3>4. /\ Len(yielded') = Len(yielded) + 1 /\ yielded' \in Seq(S)
          /\ \A i \in 1..Len(yielded) : yielded'[i] = yielded[i]
      BY <3>1, <3>3, AppendProperties
    <3>5. DOMAIN yielded' = 1..Len(yielded')
      BY <3>4, LenProperties
    <3> QED BY <2>1, <3>4, <3>5
  <2> QED BY <2>2, <2>3
<1>5. ASSUME NEW r \in DOMAIN ends' PROVE Found(r)'
  <2>1. r \in DOMAIN yielded /\ yielded[r] = Record(r)
    BY <1>5 DEF AllFound, Found
  <2>2. r \in DOMAIN yielded' /\ yielded'[r] = yielded[r]
    BY <1>4, <2>1
  <2> QED BY <2>1, <2>2 DEF Found, Record, Payload
<1> QED BY <1>3, <1>4, <1>5 DEF AllFound

\* A step that comes behind the end of the file finds nothing more that counts.
LEMMA PastEnd ==
  ASSUME LogTypeOK, LogTypeOK', NEW h, Reads(h), phase = "reading",
         file' = file, sizes' = sizes, ends' = ends, blockIndex' = blockIndex,
         blockIndex > 0, blockIndex * BlockSize >= Len(file),
         AllFound, FewTorn', ReadUpTo' > Len(file),
         phase' = "failed" => Len(file) > BlockSize
  PROVE  \/ phase' = "reading" /\ Past'
         \/ phase' = "failed" /\ ReadsWhatWasWritten' /\ OneTornRecord'
<1>1. AllFound'
  BY FoundKept
<1>2. phase' \in {"reading", "failed"}
  BY DEF Reads
<1>3. Past'
  BY <1>1 DEF Past
<1>4. ASSUME phase' = "failed" PROVE ReadsWhatWasWritten' /\ OneTornRecord'
  <2>1. Len(file) \in Nat /\ ReadUpTo' \in Nat
    <3>1. ReadUpTo' \in Nat
      <4>1. handled' \in Nat
        BY DEF LogTypeOK
      <4>2. (blockIndex - 1) * BlockSize \in Nat
        BY Places
      <4>3. ReadUpTo' = (blockIndex - 1) * BlockSize + handled'
        BY DEF ReadUpTo
      <4> QED BY <4>1, <4>2, <4>3
    <3> QED BY <3>1, LengthTypes
  <2>2. ~(ReadUpTo' <= Len(file')) /\ ~(Len(file') <= BlockSize)
    BY <1>4, <2>1, LogConstants
  <2>3. ~GivenUp'
    BY <2>2 DEF GivenUp
  <2> QED BY <1>1, <1>4, <2>2, <2>3 DEF ReadsWhatWasWritten, OneTornRecord, AllFound
<1> QED BY <1>2, <1>3, <1>4

\* Behind the end of the file the reader stays behind it.
LEMMA ReadPast ==
  ASSUME LogTypeOK, LogTypeOK', ReadPhysicalRecord, BufInv, Past
  PROVE  \/ phase' = "reading" /\ Past'
         \/ phase' = "failed" /\ ReadsWhatWasWritten' /\ OneTornRecord'
<1>1. /\ phase = "reading" /\ ~AtBlockEnd
      /\ file' = file /\ sizes' = sizes /\ ends' = ends
      /\ blockIndex' = blockIndex
  BY ReadsHeader
<1>2. PICK h \in Headers : Reads(h)
  BY ReadsHeader
<1>3. /\ blockIndex > 0 /\ ReadUpTo > Len(file) /\ blockIndex * BlockSize >= Len(file)
      /\ AllFound /\ FewTorn
  BY DEF Past
<1>4. /\ Len(file) \in Nat /\ ReadUpTo \in Nat /\ handled \in Nat
      /\ h.length \in Nat /\ handled + HeaderSize < BlockSize
  <2>1. h.length \in Nat /\ handled + HeaderSize < BlockSize
    BY <1>1, ReadType
  <2> QED BY <2>1, LengthTypes, Places
<1>5. handled' >= handled /\ handled' \in Nat
  <2>1. handled' = BlockSize \/ handled' = handled + h.length + HeaderSize
    BY <1>2 DEF Reads
  <2> QED BY <1>4, <2>1, LogConstants
<1>6. ReadUpTo' > Len(file)
  <2>1. PICK b : b = (blockIndex - 1) * BlockSize
    OBVIOUS
  <2>2. b \in Nat /\ ReadUpTo = b + handled
    BY <1>3, <2>1, Places
  <2>3. ReadUpTo' = b + handled'
    BY <1>1, <1>3, <2>1 DEF ReadUpTo
  <2> QED BY <1>3, <1>4, <1>5, <2>2, <2>3
<1>7. ASSUME Len(file) <= BlockSize PROVE h.type = "zero"
  <2>1. ReadUpTo + HeaderSize > Len(file)
    BY <1>3, <1>4, LogConstants
  <2> QED BY <1>1, <1>7, <2>1, ReadZero
<1>8. FewTorn'
  <2>1. SUFFICES ASSUME Len(file') <= BlockSize
                 PROVE  /\ Len(yielded') <= Len(ends') + 1
                        /\ Len(yielded') = Len(ends') + 1 => Len(sizes') > Len(ends')
    BY DEF FewTorn
  <2>2. yielded' = yielded
    BY <1>1, <1>2, <1>7, <2>1 DEF Reads
  <2> QED BY <1>1, <1>3, <2>1, <2>2 DEF FewTorn
<1>9. phase' = "failed" => Len(file) > BlockSize
  <2>1. h.type = "zero" => phase' = "reading"
    BY <1>1, <1>2 DEF Reads
  <2> QED BY <1>4, <1>7, <2>1, LogConstants
<1> QED BY <1>1, <1>2, <1>3, <1>6, <1>8, <1>9, PastEnd

\* Where the written fragments end: what is left of an append, zeros, or what
\* an earlier block has left in the buffer.
LEMMA ReadTorn ==
  ASSUME LogTypeOK, LogTypeOK', ReadPhysicalRecord, NEW fs \in Seq(Fragments),
         Written(fs), WriterInv(fs), TornInv(fs), BufInv, Awaits(NextOf(fs))
  PROVE  \/ phase' = "reading" /\ Past'
         \/ phase' = "failed" /\ ReadsWhatWasWritten' /\ OneTornRecord'
<1>0. PICK t, b : t = NextOf(fs) /\ b = (blockIndex - 1) * BlockSize
  OBVIOUS
<1>1. /\ phase = "reading" /\ ~AtBlockEnd
      /\ file' = file /\ sizes' = sizes /\ ends' = ends
      /\ blockIndex' = blockIndex
  BY ReadsHeader
<1>2. PICK h \in Headers : Reads(h)
  BY ReadsHeader
<1>3. /\ blockIndex > 0 /\ handled + HeaderSize < BlockSize /\ handled \in Nat
      /\ h.length \in Nat /\ Len(file) \in Nat
  BY <1>1, ReadType, LengthTypes
<1>4. /\ b \in Nat /\ ReadUpTo = b + handled /\ blockIndex * BlockSize = b + BlockSize
  BY <1>0, <1>3, Places
<1>5. t.block = b /\ t.start = b + handled
  <2>1. Awaits(t)
    BY <1>0
  <2> QED BY <1>0, <1>1, <2>1 DEF Awaits
<1>6. ReadUpTo' = b + handled'
  BY <1>0, <1>1, <1>3 DEF ReadUpTo
<1>7. Len(file) <= t.block + BlockSize
  BY <1>0 DEF TornInv
<1>8. Len(fs) + 1 \in 1..(Len(fs) + 1) /\ t = Turn(fs, Len(fs) + 1)
  BY <1>0, LenProperties DEF NextOf
<1>9. AllFound /\ Len(yielded) = Len(ends)
  <2>1. \A r \in DOMAIN ends : r < t.of => Found(r)
    BY <1>0, <1>8, AwaitsShows
  <2>2. Len(ends) = t.of - 1 /\ t.of \in Nat /\ DOMAIN ends = 1..Len(ends)
    BY <1>0, NextType, LengthTypes DEF WriterInv
  <2>3. Len(yielded) = t.of - 1
    BY <1>0 DEF Awaits
  <2> QED BY <2>1, <2>2, <2>3 DEF AllFound
<1>10. /\ t.created /\ latestType = "last" => t.start >= BlockSize
       /\ ~t.created => latestType # "first"
       /\ t.created => t.start >= BlockSize
  <2>1. t.created => t.start >= BlockSize
    BY <1>8, TurnPlace
  <2>2. ~t.created => latestType # "first"
    BY <1>0 DEF Awaits
  <2> QED BY <2>1, <2>2
<1>11. Len(yielded') \in Nat /\ Len(yielded') <= Len(yielded) + 1
       /\ (h.type = "zero" => yielded' = yielded)
  BY <1>1, <1>2, <1>9, FoundKept
<1>12. CASE t.start + HeaderSize <= Len(file)
  <2>1. PICK ended \in BOOLEAN, n \in Nat :
          /\ Len(sizes) > Len(ends)
          /\ file[t.start + HeaderSize] = HeadOf(t.created, ended, n)
          /\ t.start + HeaderSize + n > Len(file)
    BY <1>0, <1>12 DEF TornInv
  <2>2. buf[handled + HeaderSize] = HeadOf(t.created, ended, n)
    <3>1. /\ handled + HeaderSize \in 1..BlockSize
          /\ b + (handled + HeaderSize) = t.start + HeaderSize
      BY <1>3, <1>4, <1>5, LogConstants
    <3>2. b + (handled + HeaderSize) <= Len(file)
      BY <1>12, <3>1
    <3>3. buf[handled + HeaderSize] = file[b + (handled + HeaderSize)]
      BY <1>0, <1>3, <3>1, <3>2 DEF BufInv
    <3> QED BY <2>1, <3>1, <3>3
  <2>3. h.type = RecordType(~t.created, ended) /\ h.length = n
    BY <2>2, HeadRead DEF HeadOf
  <2>4. t.created \in BOOLEAN
    BY <1>0, NextType
  <2>5. /\ h.type \in {"full", "first", "middle", "last"}
        /\ ~t.created => h.type \in {"full", "first"}
        /\ t.created => h.type \in {"middle", "last"}
    BY <2>1, <2>3, <2>4, RecordTypes
  <2>6. handled' = handled + n + HeaderSize
    BY <1>2, <2>3, <2>5 DEF Reads
  <2>7. ReadUpTo' > Len(file)
    BY <1>3, <1>4, <1>5, <1>6, <2>1, <2>6, LogConstants
  <2>8. FewTorn'
    <3>1. /\ Len(yielded') <= Len(ends') + 1 /\ Len(sizes') > Len(ends')
      BY <1>1, <1>9, <1>11, <2>1
    <3> QED BY <3>1 DEF FewTorn
  <2>9. phase' = "failed" => Len(file) > BlockSize
    <3>1. SUFFICES ASSUME phase' = "failed" PROVE Len(file) > BlockSize
      OBVIOUS
    <3>2. h.type \in {"first", "last"} /\ latestType = h.type
      BY <1>1, <1>2, <3>1 DEF Reads
    <3>3. t.created
      BY <1>10, <2>5, <3>2
    <3>4. t.start >= BlockSize
      BY <1>10, <3>3
    <3> QED BY <1>3, <1>4, <1>5, <1>12, <3>4, LogConstants
  <2> QED BY <1>1, <1>2, <1>3, <1>4, <1>5, <1>7, <1>9, <2>7, <2>8, <2>9, PastEnd
<1>13. CASE t.start + HeaderSize > Len(file)
  <2>1. ASSUME Len(file) <= BlockSize PROVE h.type = "zero"
    <3>1. ReadUpTo + HeaderSize > Len(file)
      BY <1>4, <1>5, <1>13
    <3> QED BY <1>1, <2>1, <3>1, ReadZero
  <2>2. ReadUpTo' > Len(file)
    <3>1. handled' = BlockSize \/ handled' = handled + h.length + HeaderSize
      BY <1>2 DEF Reads
    <3>2. CASE handled' = BlockSize
      BY <1>3, <1>4, <1>5, <1>6, <1>13, <3>2, LogConstants
    <3>3. CASE handled' = handled + h.length + HeaderSize
      <4>1. ReadUpTo' = t.start + HeaderSize + h.length
        BY <1>3, <1>4, <1>5, <1>6, <3>3, LogConstants, SMTT(30)
      <4> QED BY <1>3, <1>4, <1>5, <1>13, <4>1, LogConstants
    <3> QED BY <3>1, <3>2, <3>3
  <2>3. FewTorn'
    <3>1. SUFFICES ASSUME Len(file') <= BlockSize
                   PROVE  Len(yielded') <= Len(ends') + 1 /\ Len(yielded') # Len(ends') + 1
      BY DEF FewTorn
    <3>2. yielded' = yielded
      BY <1>1, <1>11, <2>1, <3>1
    <3>3. Len(yielded) = Len(ends) /\ Len(ends) \in Nat
      BY <1>9, LengthTypes
    <3> QED BY <1>1, <3>2, <3>3
  <2>4. phase' = "failed" => Len(file) > BlockSize
    <3>1. h.type = "zero" => phase' = "reading"
      BY <1>1, <1>2 DEF Reads
    <3> QED BY <1>3, <2>1, <3>1, LogConstants
  <2> QED BY <1>1, <1>2, <1>3, <1>4, <1>5, <1>7, <1>9, <2>2, <2>3, <2>4, PastEnd
<1>14. t.start + HeaderSize <= Len(file) \/ t.start + HeaderSize > Len(file)
  BY <1>3, <1>4, <1>5, LogConstants
<1> QED BY <1>12, <1>13, <1>14

-----------------------------------------------------------------------------
(* Every step.                                                             *)

LEMMA ReadKeepsInv ==
  ASSUME LogTypeOK, LogTypeOK', ReadPhysicalRecord, NEW fs \in Seq(Fragments), Inv(fs)
  PROVE  Inv(fs)'
<1>1. /\ phase = "reading" /\ file' = file /\ sizes' = sizes /\ ends' = ends
      /\ position' = position /\ blockIndex' = blockIndex /\ buf' = buf
  BY ReadsHeader
<1>2. created' = created
  BY ReadsHeader
<1>3. /\ Written(fs) /\ WriterInv(fs) /\ TornInv(fs) /\ BufInv
      /\ Past \/ \E k \in 1..(Len(fs) + 1) : Awaits(Turn(fs, k))
  BY <1>1 DEF Inv
<1>4. Written(fs)' /\ WriterInv(fs)' /\ TornInv(fs)'
  BY <1>1, <1>2, <1>3, ReadKeeps
<1>5. BufInv'
  BY <1>1, <1>3 DEF BufInv
<1>6. \/ /\ phase' = "reading"
         /\ Past' \/ \E k \in 1..(Len(fs) + 1) : Awaits(Turn(fs, k))'
      \/ phase' = "failed" /\ ReadsWhatWasWritten' /\ OneTornRecord'
  <2>1. CASE Past
    BY <1>3, <2>1, ReadPast
  <2>2. CASE ~Past
    <3>1. PICK k \in 1..(Len(fs) + 1) : Awaits(Turn(fs, k))
      BY <1>3, <2>2
    <3>2. CASE k = Len(fs) + 1
      <4>1. Awaits(NextOf(fs))
        BY <3>1, <3>2 DEF NextOf
      <4> QED BY <1>3, <4>1, ReadTorn
    <3>3. CASE k # Len(fs) + 1
      <4>1. k \in 1..Len(fs) /\ k + 1 \in 1..(Len(fs) + 1)
        BY <3>3, LenProperties
      <4>2. \/ phase' = "reading" /\ Awaits(Turn(fs, k + 1))'
            \/ phase' = "failed" /\ ReadsWhatWasWritten' /\ OneTornRecord'
        BY <1>3, <3>1, <4>1, ReadFragment
      <4> QED BY <4>1, <4>2
    <3> QED BY <3>2, <3>3
  <2> QED BY <2>1, <2>2
<1> QED BY <1>4, <1>5, <1>6 DEF Inv

\* The writer's steps, and the end of its process.
LEMMA WriteKeepsInv ==
  ASSUME LogTypeOK, LogTypeOK', OneBlockOrWriter', NEW fs \in Seq(Fragments), Inv(fs),
         \/ \E size \in Sizes : AddRecord(size)
         \/ SwitchBlock \/ EmitPhysicalRecord \/ Reopen \/ Recover
  PROVE  \E gs \in Seq(Fragments) : Inv(gs)'
<1>1. /\ phase = "writing" /\ blockIndex' = blockIndex /\ handled' = handled /\ buf' = buf
      /\ latestType' = latestType /\ latestOp' = latestOp /\ yielded' = yielded
  BY DEF AddRecord, SwitchBlock, EmitPhysicalRecord, Reopen, Recover, reader
<1>2. Written(fs) /\ WriterInv(fs) /\ BufInv /\ OffsetInv(fs) /\ Fresh
  BY <1>1 DEF Inv
<1>3. Fresh'
  BY <1>1, <1>2 DEF Fresh
<1>4. Grows => BufInv'
  <2>1. blockIndex = 0
    BY <1>2 DEF Fresh
  <2> QED BY <1>1, <1>2, <2>1, BufferKept
<1>5. CASE ~Recover
  <2>1. phase' = "writing"
    BY <1>1, <1>5 DEF AddRecord, SwitchBlock, EmitPhysicalRecord, Reopen
  <2>2. PICK gs \in Seq(Fragments) :
          Grows /\ Written(gs)' /\ WriterInv(gs)' /\ OffsetInv(gs)'
    <3>1. CASE \E size \in Sizes : AddRecord(size)
      BY <1>2, <3>1, AddRecordKeeps
    <3>2. CASE SwitchBlock
      BY <1>2, <3>2, SwitchKeeps
    <3>3. CASE EmitPhysicalRecord
      <4>1. PICK g, gs : g = NewFragment(fs) /\ gs = Append(fs, g)
        OBVIOUS
      <4> QED BY <1>2, <3>3, <4>1, EmitKeeps
    <3>4. CASE Reopen
      BY <1>2, <3>4, ReopenKeeps
    <3> QED BY <1>5, <3>1, <3>2, <3>3, <3>4
  <2>3. Inv(gs)'
    BY <1>3, <1>4, <2>1, <2>2 DEF Inv
  <2> QED BY <2>3
<1>6. CASE Recover
  <2>1. Grows /\ Written(fs)' /\ WriterInv(fs)' /\ TornInv(fs)'
    BY <1>2, <1>6, RecoverKeeps
  <2>2. phase' = "reading"
    BY <1>6 DEF Recover
  <2>3. Awaits(Turn(fs, 1))'
    <3>1. PICK t : t = Turn(fs, 1)
      OBVIOUS
    <3>2. /\ t.block = 0 /\ t.start = 0 /\ t.of = 1 /\ t.from = 0
      BY <3>1, TurnFirst
    <3>3. t.created = FALSE
      BY <3>1, TurnFirst
    <3>4. Turn(fs, 1)' = t
      BY <3>1 DEF Turn
    <3>5. Len(file') \in Nat /\ DOMAIN ends' \subseteq Nat \ {0}
      <4>1. file' \in Seq(Cells) /\ ends' \in Seq(Nat)
        BY DEF LogTypeOK
      <4> QED BY <4>1, LenProperties
    <3>6. /\ blockIndex' = 0 /\ handled' = 0 /\ ReadUpTo' = 0 /\ AtBlockEnd'
          /\ blockIndex' * BlockSize = 0
      BY <1>3, LogConstants DEF Fresh, ReadUpTo, AtBlockEnd
    <3>7. latestType' = "none" /\ latestOp' = <<>> /\ yielded' = <<>>
      BY <1>3 DEF Fresh
    <3>8. latestOp' = Payload(t.of, 0, t.from)'
      BY <3>2, <3>7 DEF Payload
    <3>9. Awaits(t)'
      <4>1. /\ Len(yielded') = t.of - 1
            /\ \A r \in 1..(t.of - 1) : yielded'[r] = Record(r)'
        BY <3>2, <3>7
      <4>2. \A i \in DOMAIN ends' : i < t.of => ends'[i] <= ReadUpTo'
        BY <3>2, <3>5
      <4>3. t.start = blockIndex' * BlockSize /\ t.block = t.start
            /\ handled' <= BlockSize /\ ReadUpTo' <= Len(file')
        BY <3>2, <3>5, <3>6, LogConstants
      <4> QED BY <3>3, <3>6, <3>7, <3>8, <4>1, <4>2, <4>3 DEF Awaits
    <3> QED BY <3>4, <3>9 DEF Awaits
  <2>4. 1 \in 1..(Len(fs) + 1)
    BY LenProperties
  <2>5. Inv(fs)'
    BY <1>4, <2>1, <2>2, <2>3, <2>4 DEF Inv
  <2> QED BY <2>5
<1> QED BY <1>5, <1>6

LEMMA StutterKeepsInv ==
  ASSUME LogTypeOK, LogTypeOK', UNCHANGED vars, NEW fs \in Seq(Fragments), Inv(fs)
  PROVE  Inv(fs)'
<1>1. /\ file' = file /\ blockOffset' = blockOffset /\ sizes' = sizes /\ ends' = ends
      /\ position' = position /\ writers' = writers /\ phase' = phase
      /\ blockIndex' = blockIndex /\ buf' = buf /\ handled' = handled
      /\ latestType' = latestType /\ latestOp' = latestOp /\ yielded' = yielded
  BY DEF vars, writer, reader
<1>2. created' = created
  BY DEF vars, writer
<1>3. Written(fs) /\ WriterInv(fs) /\ BufInv
  BY DEF Inv
<1>4. Grows
  <2>1. Len(file) \in Nat /\ Len(sizes) \in Nat
    BY LengthTypes
  <2> QED BY <1>1, <2>1, OnlyGrows
<1>5. /\ Written(fs)' /\ NextOf(fs)' = NextOf(fs)
      /\ \A k \in 1..(Len(fs) + 1) : Turn(fs, k)' = Turn(fs, k)
  BY <1>3, <1>4, WrittenKept
<1>6. WriterInv(fs)'
  <2>1. Left' = Left
    BY <1>1 DEF Left
  <2> QED BY <1>1, <1>2, <1>3, <1>5, <2>1 DEF WriterInv
<1>7. BufInv'
  BY <1>1, <1>3 DEF BufInv
<1>8. ASSUME phase' = "writing" PROVE OffsetInv(fs)' /\ Fresh'
  <2>1. OffsetInv(fs) /\ Fresh
    BY <1>1, <1>8 DEF Inv
  <2>2. LastOf(fs)' = LastOf(fs) /\ EndOf(LastOf(fs))' = EndOf(LastOf(fs))
    BY DEF LastOf, EndOf
  <2>3. Left' = Left
    BY <1>1 DEF Left
  <2>4. OffsetInv(fs)'
    BY <1>1, <1>5, <2>1, <2>2, <2>3 DEF OffsetInv
  <2> QED BY <1>1, <2>1, <2>4 DEF Fresh
<1>9. ASSUME phase' # "writing" PROVE TornInv(fs)'
  <2>1. TornInv(fs)
    BY <1>1, <1>9 DEF Inv
  <2> QED BY <1>1, <1>2, <1>3, <2>1, ReadKeeps
<1>10. ASSUME phase' = "reading"
       PROVE  Past' \/ \E k \in 1..(Len(fs) + 1) : Awaits(Turn(fs, k))'
  <2>1. ReadUpTo' = ReadUpTo /\ (AtBlockEnd' <=> AtBlockEnd)
    BY <1>1 DEF ReadUpTo, AtBlockEnd
  <2>2. Past => Past'
    <3>1. AllFound => AllFound'
      BY <1>1 DEF AllFound, Found, Record, Payload
    <3>2. FewTorn => FewTorn'
      BY <1>1 DEF FewTorn
    <3> QED BY <1>1, <2>1, <3>1, <3>2 DEF Past
  <2>3. ASSUME NEW k \in 1..(Len(fs) + 1), Awaits(Turn(fs, k)) PROVE Awaits(Turn(fs, k))'
    <3>1. PICK t : t = Turn(fs, k)
      OBVIOUS
    <3>2. Awaits(t)
      BY <2>3, <3>1
    <3>3. /\ latestOp' = Payload(t.of, 0, t.from)'
          /\ \A r \in 1..(t.of - 1) : yielded'[r] = Record(r)'
      BY <1>1, <3>2 DEF Awaits, Payload, Record
    <3>4. Headless(t.of) => Headless(t.of)'
      BY <1>1 DEF Headless
    <3>5. Awaits(t)'
      BY <1>1, <2>1, <3>2, <3>3, <3>4 DEF Awaits
    <3>6. Turn(fs, k)' = t
      BY <1>5, <3>1
    <3> QED BY <3>5, <3>6 DEF Awaits
  <2> QED BY <1>1, <1>10, <2>2, <2>3 DEF Inv
<1>11. ASSUME phase' \in {"done", "failed"} PROVE ReadsWhatWasWritten' /\ OneTornRecord'
  <2>1. ReadsWhatWasWritten /\ OneTornRecord
    BY <1>1, <1>11 DEF Inv
  <2>2. /\ ReadUpTo' = ReadUpTo /\ GivenUp' = GivenUp
        /\ \A r : Found(r)' <=> Found(r)
        /\ Headless(Len(yielded) + 1) => Headless(Len(yielded) + 1)'
    BY <1>1 DEF ReadUpTo, GivenUp, Found, Record, Payload, Headless
  <2>3. ReadsWhatWasWritten'
    BY <1>1, <2>1, <2>2 DEF ReadsWhatWasWritten
  <2> QED BY <1>1, <2>1, <2>3 DEF OneTornRecord
<1> QED BY <1>5, <1>6, <1>7, <1>8, <1>9, <1>10, <1>11 DEF Inv

-----------------------------------------------------------------------------
(* Of logs with one writer, and of logs of one block.                      *)

LogInv == LogTypeOK /\ (OneBlockOrWriter => \E fs \in Seq(Fragments) : Inv(fs))

LEMMA LogInvInit == Init => LogInv
<1> SUFFICES ASSUME Init PROVE LogInv
  OBVIOUS
<1>1. LogTypeOK
  BY LogTypeInit
<1>2. PICK fs : fs = <<>> /\ fs \in Seq(Fragments) /\ Len(fs) = 0
  BY EmptySeq
<1>3. /\ file = <<>> /\ blockOffset = 0 /\ sizes = <<>> /\ ends = <<>> /\ position = 0
      /\ writers = 1 /\ phase = "writing" /\ blockIndex = 0 /\ handled = 0
      /\ latestType = "none" /\ latestOp = <<>> /\ yielded = <<>>
      /\ buf = [i \in 1..BlockSize |-> Zero]
  BY DEF Init
<1>4. NextOf(fs).block = 0 /\ NextOf(fs).start = 0 /\ NextOf(fs).of = 1
  BY <1>2, BeforeFirst
<1>5. Written(fs)
  BY <1>2 DEF Written
<1>6. WriterInv(fs)
  <2>1. Left = 0
    BY <1>3 DEF Left
  <2> QED BY <1>3, <1>4, <2>1 DEF WriterInv
<1>7. BufInv
  BY <1>3 DEF BufInv
<1>8. OffsetInv(fs) /\ Fresh
  BY <1>2, <1>3, <1>4 DEF OffsetInv, Fresh
<1>9. Inv(fs)
  BY <1>3, <1>5, <1>6, <1>7, <1>8 DEF Inv
<1> QED BY <1>1, <1>2, <1>9 DEF LogInv

LEMMA LogInvStep == LogInv /\ [Next]_vars => LogInv'
<1> SUFFICES ASSUME LogInv, [Next]_vars PROVE LogInv'
  OBVIOUS
<1>1. LogTypeOK /\ LogTypeOK'
  BY LogTypeStep DEF LogInv
<1>2. SUFFICES ASSUME OneBlockOrWriter' PROVE \E gs \in Seq(Fragments) : Inv(gs)'
  BY <1>1 DEF LogInv
<1>3. OneBlockOrWriter
  <2>1. Len(file) <= Len(file') /\ (writers' = writers \/ writers' # 1)
    <3>1. Len(file) \in Nat /\ writers \in Nat \ {0} /\ file \in Seq(Cells)
      BY <1>1, LengthTypes DEF LogTypeOK
    <3>2. CASE Recover
      BY <1>1, <3>2, RecoverTypeStep DEF Recover
    <3>3. CASE SwitchBlock
      <4>1. Len(file') = Len(file) + Len(Trailer) /\ Len(Trailer) \in Nat
        BY <1>1, <3>1, <3>3, TrailerIs, Appended DEF SwitchBlock
      <4> QED BY <3>1, <3>3, <4>1 DEF SwitchBlock
    <3>4. CASE EmitPhysicalRecord
      <4>1. Fragment \in Seq(Cells)
        BY <1>1, <3>4, FragmentIs DEF EmitPhysicalRecord
      <4>2. Len(file') = Len(file) + Len(Fragment) /\ Len(Fragment) \in Nat
        BY <3>1, <3>4, <4>1, Appended DEF EmitPhysicalRecord
      <4> QED BY <3>1, <3>4, <4>2 DEF EmitPhysicalRecord
    <3>5. CASE Reopen
      BY <3>1, <3>5 DEF Reopen
    <3>6. CASE \/ \E size \in Sizes : AddRecord(size)
               \/ FillBuffer \/ ReadPhysicalRecord \/ UNCHANGED vars
      BY <3>1, <3>6 DEF AddRecord, FillBuffer, ReadPhysicalRecord, vars, writer
    <3> QED BY <3>2, <3>3, <3>4, <3>5, <3>6 DEF Next
  <2>2. Len(file) \in Nat /\ Len(file') \in Nat
    <3>1. file' \in Seq(Cells)
      BY <1>1 DEF LogTypeOK
    <3> QED BY <1>1, <3>1, LengthTypes, LenProperties
  <2>3. CASE writers' = 1
    BY <2>1, <2>3 DEF OneBlockOrWriter
  <2>4. CASE Len(file') <= BlockSize
    BY <2>1, <2>2, <2>4, LogConstants DEF OneBlockOrWriter
  <2> QED BY <1>2, <2>3, <2>4 DEF OneBlockOrWriter
<1>4. PICK fs \in Seq(Fragments) : Inv(fs)
  BY <1>3 DEF LogInv
<1>5. CASE \/ \E size \in Sizes : AddRecord(size)
           \/ SwitchBlock \/ EmitPhysicalRecord \/ Reopen \/ Recover
  BY <1>1, <1>2, <1>4, <1>5, WriteKeepsInv
<1>6. CASE FillBuffer
  BY <1>1, <1>4, <1>6, FillKeeps
<1>7. CASE ReadPhysicalRecord
  BY <1>1, <1>4, <1>7, ReadKeepsInv
<1>8. CASE UNCHANGED vars
  BY <1>1, <1>4, <1>8, StutterKeepsInv
<1> QED BY <1>5, <1>6, <1>7, <1>8 DEF Next

LEMMA LogInvShows == LogInv => ReadsWhatWasWritten /\ OneTornRecord
<1> SUFFICES ASSUME LogInv PROVE ReadsWhatWasWritten /\ OneTornRecord
  OBVIOUS
<1>1. CASE OneBlockOrWriter
  BY <1>1, InvShows DEF LogInv
<1>2. CASE ~OneBlockOrWriter
  BY <1>2 DEF OneBlockOrWriter, ReadsWhatWasWritten, OneTornRecord
<1> QED BY <1>1, <1>2

\* Of a log written by one writer, or by several within one block, the reader
\* (LogReader.iterator) yields every record that LogWriter.addRecord had
\* written whole, in order and unchanged, and nothing else before the end of
\* the file; where it gives up earlier, a record has no head.
THEOREM LogReadBack == Spec => []ReadsWhatWasWritten
<1> QED BY LogInvInit, LogInvStep, LogInvShows, PTL DEF Spec

\* In a log of one block, what the end of the process leaves of an append is
\* read as one record at most, and no assertion of LogReader fails.
THEOREM TornOnce == Spec => []OneTornRecord
<1> QED BY LogInvInit, LogInvStep, LogInvShows, PTL DEF Spec

-----------------------------------------------------------------------------
(* The lock file.                                                          *)

\* As long as nothing has harmed the lock: at most one process is about to
\* write the file, at most one has the directory open, never both; and the file
\* of an owner that sees to it is there and has not expired.
Standing ==
  ~harmed =>
    /\ \A p, q \in Processes : pc[p] = "write" /\ pc[q] = "write" => p = q
    /\ \A p, q \in Processes : pc[p] = "own" /\ pc[q] = "own" => p = q
    /\ \A p, q \in Processes : ~(pc[p] = "own" /\ pc[q] = "write")
    /\ \A p \in Holders : exists /\ age <= Limit

LEMMA LimitsNat == Limit \in Nat /\ Patience \in Nat
  BY LockfileAssumption, SMT DEF Limit, Patience

\* The parts of the type that a step of one database leaves or changes.
Booleans == exists \in BOOLEAN /\ harmed \in BOOLEAN
Times == /\ age \in 0..(Limit + 1)
         /\ pc \in [Processes -> States]
         /\ seen \in [Processes -> 0..(Limit + 1)]
         /\ waited \in [Processes -> 0..(Patience + 1)]
         /\ timer \in [Processes -> 0..Half]
         /\ interval \subseteq Processes /\ writing \subseteq Processes
         /\ closer \in [Processes -> {"no", "unlinked", "cleared"}]
Needed == \A p \in Processes :
            /\ seen[p] # 0 => pc[p] = "judge"
            /\ waited[p] # 0 => pc[p] \in {"poll", "judge", "close"}
            /\ timer[p] # 0 => pc[p] = "poll" \/ p \in interval
            /\ p \in interval \cup writing => pc[p] \in {"own", "closed"}

LEMMA Parts == TypeOK <=> Booleans /\ Times /\ Needed
  BY Zenon DEF TypeOK, Booleans, Times, Needed

LEMMA BooleanStep == Booleans /\ [LockNext]_lockVars => Booleans'
<1> SUFFICES ASSUME Booleans, [LockNext]_lockVars PROVE Booleans'
  OBVIOUS
<1> USE DEF Booleans
<1>1. ASSUME NEW p \in Processes, Check(p) \/ Judge(p) PROVE Booleans'
  <2>1. UNCHANGED exists
    BY <1>1 DEF Check, Judge, lockFile
  <2>2. harmed' \in BOOLEAN
    BY <1>1, ZenonT(30) DEF Check, Judge, Enter
  <2> QED BY <2>1, <2>2
<1>2. ASSUME NEW p \in Processes, Unlink(p) \/ Exit(p) PROVE Booleans'
  BY <1>2, ZenonT(30) DEF Unlink, Exit, RemoveFile
<1>3. ASSUME NEW p \in Processes,
             Lock(p) \/ ReadTime(p) \/ StatFails(p) \/ OpenFails(p) \/ CloseFile(p)
               \/ CloseFails(p) \/ Refresh(p) \/ ClearInterval(p) \/ CloseFiles(p)
               \/ Kill(p) \/ Restart(p)
      PROVE  Booleans'
  BY <1>3 DEF Lock, ReadTime, StatFails, OpenFails, CloseFile, CloseFails, Refresh,
     ClearInterval, CloseFiles, Kill, Restart, lockFile
<1>4. ASSUME NEW p \in Processes, Acquire(p) \/ AcquireFails(p) \/ Refreshed(p)
      PROVE  Booleans'
  BY <1>4 DEF Acquire, AcquireFails, Refreshed, lockFile
<1>5. CASE Tick
  BY <1>5, Zenon DEF Tick
<1>6. CASE UNCHANGED lockVars
  BY <1>6 DEF lockVars, lockFile
<1> QED BY <1>1, <1>2, <1>3, <1>4, <1>5, <1>6 DEF LockNext, Step

LEMMA TimesStep == Times /\ Needed /\ [LockNext]_lockVars => Times' /\ Needed'
<1> SUFFICES ASSUME Times, Needed, [LockNext]_lockVars PROVE Times' /\ Needed'
  OBVIOUS
<1> USE LockfileAssumption, LimitsNat DEF Times, Needed, States, lockFile, timers, Goto
<1>1. ASSUME NEW p \in Processes, Lock(p) PROVE Times' /\ Needed'
  BY <1>1 DEF Lock
<1>2. ASSUME NEW p \in Processes, Check(p) PROVE Times' /\ Needed'
  <2>1. UNCHANGED <<age, seen, waited, timer, interval, writing, closer>>
    BY <1>2 DEF Check
  <2>2. /\ pc[p] = "check"
        /\ \/ pc' = [pc EXCEPT ![p] = "write"]
           \/ pc' = [pc EXCEPT ![p] = "poll"]
           \/ pc' = [pc EXCEPT ![p] = "failed"]
    BY <1>2 DEF Check, Enter
  <2> QED BY <2>1, <2>2
<1>3. ASSUME NEW p \in Processes, ReadTime(p) PROVE Times' /\ Needed'
  BY <1>3 DEF ReadTime
<1>4. ASSUME NEW p \in Processes, StatFails(p) \/ OpenFails(p)
      PROVE  Times' /\ Needed'
  BY <1>4 DEF StatFails, OpenFails, Leave
<1>5. ASSUME NEW p \in Processes, Judge(p) PROVE Times' /\ Needed'
  <2>1. UNCHANGED <<age, timer, interval, writing, closer>>
    BY <1>5 DEF Judge
  <2>2. /\ pc[p] = "judge"
        /\ seen' = [seen EXCEPT ![p] = 0]
        /\ \/ /\ pc' = [pc EXCEPT ![p] = "write"]
              /\ waited' = [waited EXCEPT ![p] = 0]
           \/ pc' = [pc EXCEPT ![p] = "close"] /\ waited' = waited
    BY <1>5 DEF Judge, Enter
  <2> QED BY <2>1, <2>2
<1>6. ASSUME NEW p \in Processes, CloseFile(p) PROVE Times' /\ Needed'
  BY <1>6 DEF CloseFile, Leave
<1>7. ASSUME NEW p \in Processes, CloseFails(p) PROVE Times' /\ Needed'
  BY <1>7 DEF CloseFails, Leave
<1>8. ASSUME NEW p \in Processes, Acquire(p) \/ AcquireFails(p)
      PROVE  Times' /\ Needed'
  BY <1>8 DEF Acquire, AcquireFails, StartInterval
<1>9. ASSUME NEW p \in Processes, Refresh(p) PROVE Times' /\ Needed'
  BY <1>9 DEF Refresh
<1>10. ASSUME NEW p \in Processes, Refreshed(p) PROVE Times' /\ Needed'
  BY <1>10 DEF Refreshed
<1>11. ASSUME NEW p \in Processes, Unlink(p) PROVE Times' /\ Needed'
  BY <1>11 DEF Unlink, RemoveFile
<1>12. ASSUME NEW p \in Processes, ClearInterval(p) PROVE Times' /\ Needed'
  BY <1>12 DEF ClearInterval
<1>13. ASSUME NEW p \in Processes, CloseFiles(p) PROVE Times' /\ Needed'
  BY <1>13 DEF CloseFiles
<1>14. ASSUME NEW p \in Processes, Exit(p) \/ Kill(p) PROVE Times' /\ Needed'
  <2>1. Vanish(p) /\ age' \in 0..(Limit + 1)
    BY <1>14 DEF Exit, Kill, RemoveFile
  <2> QED BY <2>1 DEF Vanish
<1>15. ASSUME NEW p \in Processes, Restart(p) PROVE Times' /\ Needed'
  BY <1>15 DEF Restart
<1>16. CASE Tick
  <2>1. UNCHANGED <<pc, interval, writing, closer>>
    BY <1>16 DEF Tick
  <2>2. age' \in 0..(Limit + 1)
    BY <1>16 DEF Tick, Later
  <2>3. /\ seen' \in [Processes -> 0..(Limit + 1)]
        /\ \A p \in Processes : seen'[p] # 0 => pc[p] = "judge"
    BY <1>16 DEF Tick, Later
  <2>4. /\ waited' \in [Processes -> 0..(Patience + 1)]
        /\ \A p \in Processes : waited'[p] # 0 => pc[p] \in {"poll", "judge", "close"}
    BY <1>16 DEF Tick, Later
  <2>5. /\ timer' \in [Processes -> 0..Half]
        /\ \A p \in Processes : timer'[p] # 0 => timer[p] # 0
    BY <1>16 DEF Tick, Sooner
  <2> QED BY <2>1, <2>2, <2>3, <2>4, <2>5
<1>17. CASE UNCHANGED lockVars
  BY <1>17 DEF lockVars
<1> QED
  BY <1>1, <1>2, <1>3, <1>4, <1>5, <1>6, <1>7, <1>8, <1>9, <1>10, <1>11, <1>12,
     <1>13, <1>14, <1>15, <1>16, <1>17 DEF LockNext, Step

\* No step breaks a lock that stands.
LEMMA StandingStep == Times /\ Standing /\ [LockNext]_lockVars => Standing'
<1> SUFFICES ASSUME Times, Standing, [LockNext]_lockVars, ~harmed' PROVE Standing'
  BY DEF Standing
<1> USE LockfileAssumption, LimitsNat
        DEF Times, Standing, Owners, Holders, lockFile, timers, Goto
<1>1. ASSUME NEW p \in Processes, NEW again \in BOOLEAN, Enter(p, again),
             pc[p] # "own", exists /\ age <= Limit => again,
             UNCHANGED <<lockFile, interval, closer>>
      PROVE  Standing'
  <2>1. ~harmed /\ ~again /\ Owners \ Holders = {}
        /\ \A q \in Processes \ {p} : pc[q] # "write"
    BY <1>1 DEF Enter
  <2>2. \A q \in Processes : pc[q] # "own"
    BY <1>1, <2>1
  <2> QED BY <1>1, <2>1, <2>2 DEF Enter
<1>2. ASSUME NEW p \in Processes, Check(p) PROVE Standing'
  <2>1. CASE ~exists /\ Enter(p, FALSE)
    BY <1>1, <1>2, <2>1 DEF Check
  <2>2. CASE ~(~exists /\ Enter(p, FALSE))
    <3>1. \/ pc' = [pc EXCEPT ![p] = "poll"]
          \/ pc' = [pc EXCEPT ![p] = "failed"]
      BY <1>2, <2>2 DEF Check
    <3>2. UNCHANGED <<exists, age, interval, closer, harmed>>
      BY <1>2, <2>2 DEF Check
    <3>3. \A q \in Processes : pc'[q] \in {"own", "write"} => pc'[q] = pc[q]
      BY <3>1
    <3> QED BY <3>2, <3>3
  <2> QED BY <2>1, <2>2
<1>3. ASSUME NEW p \in Processes, Judge(p) PROVE Standing'
  <2>1. CASE Expired(p)
    <3> DEFINE again == exists /\ age < seen[p]
    <3>1. Enter(p, again) /\ pc[p] = "judge" /\ UNCHANGED <<lockFile, interval, closer>>
      BY <1>3, <2>1 DEF Judge
    <3>2. exists /\ age <= Limit => again
      BY <2>1 DEF Expired
    <3>3. again \in BOOLEAN
      OBVIOUS
    <3> HIDE DEF again
    <3> QED BY <3>1, <3>2, <3>3, <1>1
  <2>2. CASE ~Expired(p)
    BY <1>3, <2>2 DEF Judge
  <2> QED BY <2>1, <2>2
<1>4. ASSUME NEW p \in Processes,
             Lock(p) \/ ReadTime(p) \/ StatFails(p) \/ OpenFails(p) \/ CloseFile(p)
               \/ CloseFails(p) \/ Restart(p)
      PROVE  Standing'
  <2>1. UNCHANGED <<lockFile, interval, closer, harmed>>
    BY <1>4 DEF Lock, ReadTime, StatFails, OpenFails, CloseFile, CloseFails, Restart
  <2>2. \E s \in {"check", "judge", "close", "failed", "poll", "out"} :
          pc' = [pc EXCEPT ![p] = s]
    BY <1>4 DEF Lock, ReadTime, StatFails, OpenFails, CloseFile, CloseFails, Restart,
       Leave
  <2>3. \A q \in Processes : pc'[q] \in {"own", "write"} => pc'[q] = pc[q]
    BY <2>2
  <2> QED BY <2>1, <2>3
<1>5. ASSUME NEW p \in Processes, Acquire(p) PROVE Standing'
  BY <1>5 DEF Acquire
<1>6. ASSUME NEW p \in Processes, AcquireFails(p) PROVE Standing'
  BY <1>6 DEF AcquireFails
<1>7. ASSUME NEW p \in Processes, Refresh(p) PROVE Standing'
  BY <1>7 DEF Refresh
<1>8. ASSUME NEW p \in Processes, Refreshed(p) PROVE Standing'
  BY <1>8 DEF Refreshed
<1>9. ASSUME NEW p \in Processes, Unlink(p) PROVE Standing'
  <2>1. ~harmed /\ Owners \ {p} = {} /\ UNCHANGED <<pc, interval>>
        /\ closer'[p] = "unlinked"
    BY <1>9 DEF Unlink, RemoveFile
  <2>2. Holders' = {}
    BY <2>1
  <2> QED BY <2>1, <2>2
<1>10. ASSUME NEW p \in Processes, ClearInterval(p) PROVE Standing'
  BY <1>10 DEF ClearInterval
<1>11. ASSUME NEW p \in Processes, CloseFiles(p) PROVE Standing'
  <2>1. UNCHANGED <<lockFile, interval, harmed>> /\ closer[p] = "cleared"
        /\ \A q \in Processes : q # p => closer'[q] = closer[q]
    BY <1>11 DEF CloseFiles
  <2>2. \A q \in Processes : pc'[q] \in {"own", "write"} => pc'[q] = pc[q]
    BY <1>11 DEF CloseFiles
  <2> QED BY <2>1, <2>2
<1>12. ASSUME NEW p \in Processes, Exit(p) PROVE Standing'
  <2>1. ~harmed /\ Owners \ {p} = {} /\ pc' = [pc EXCEPT ![p] = "dead"]
    BY <1>12 DEF Exit, Vanish, RemoveFile
  <2>2. Owners' = {}
    BY <2>1
  <2> QED BY <2>1, <2>2
<1>13. ASSUME NEW p \in Processes, Kill(p) PROVE Standing'
  <2>1. UNCHANGED <<lockFile, harmed>> /\ pc' = [pc EXCEPT ![p] = "dead"]
        /\ interval' = interval \ {p}
        /\ \A q \in Processes : q # p => closer'[q] = closer[q]
    BY <1>13 DEF Kill, Vanish
  <2> QED BY <2>1
<1>14. CASE Tick
  <2>1. UNCHANGED <<pc, exists, interval, closer>> /\ ~harmed
    BY <1>14 DEF Tick
  <2>2. Holders # {} => age' <= Limit
    <3>1. age' \in Nat
      BY <1>14 DEF Tick, Later
    <3>2. ~(Holders # {} /\ age' > Limit)
      <4> HIDE DEF Holders
      <4> QED BY <1>14, Zenon DEF Tick
    <3> HIDE DEF Holders
    <3> QED BY <3>1, <3>2
  <2> QED BY <2>1, <2>2
<1>15. CASE UNCHANGED lockVars
  BY <1>15 DEF lockVars
<1> QED
  BY <1>2, <1>3, <1>4, <1>5, <1>6, <1>7, <1>8, <1>9, <1>10, <1>11, <1>12,
     <1>13, <1>14, <1>15 DEF LockNext, Step

LEMMA TypeStep == TypeOK /\ [LockNext]_lockVars => TypeOK'
<1> SUFFICES ASSUME TypeOK, [LockNext]_lockVars PROVE TypeOK'
  OBVIOUS
<1>1. Booleans /\ Times /\ Needed
  BY Parts
<1>2. Booleans' /\ Times' /\ Needed'
  BY <1>1, BooleanStep, TimesStep
<1> QED BY <1>2, Zenon DEF TypeOK, Booleans, Times, Needed

LEMMA Initially == LockInit => TypeOK /\ Standing
<1>1. LockInit => Booleans
  BY Zenon DEF LockInit, Booleans
<1>2. LockInit => Times /\ Needed
  BY LockfileAssumption, LimitsNat DEF LockInit, Times, Needed, States
<1>3. LockInit => Standing
  BY DEF LockInit, Standing, Holders, Owners
<1> QED BY <1>1, <1>2, <1>3, Parts

\* The types are kept, and times only where they matter, for any number of
\* processes and any times.
THEOREM TypeCorrect == LockSpec => []TypeOK
<1> QED BY TypeStep, Initially, PTL DEF LockSpec

\* Two databases have one directory open only after one of the six things that
\* the lock does not stand, for any number of processes and any times.
THEOREM OwnersExclude == LockSpec => []Exclusive
<1>1. LockInit => TypeOK /\ Standing
  BY Initially
<1>2. (TypeOK /\ Standing) /\ [LockNext]_lockVars => (TypeOK /\ Standing)'
  BY TypeStep, StandingStep, Parts
<1>3. TypeOK /\ Standing => Exclusive
  BY DEF Standing, Exclusive, Owners
<1> QED BY <1>1, <1>2, <1>3, PTL DEF LockSpec
=============================================================================
