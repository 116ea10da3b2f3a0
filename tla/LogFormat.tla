----------------------------- MODULE LogFormat -----------------------------
(***************************************************************************)
(* A log: the records that LogWriter appends, cut into fragments that fit   *)
(* into blocks, and what LogReader makes of the file afterwards.           *)
(*                                                                         *)
(* A file is a sequence of cells, each a few bytes: the cells of a header   *)
(* (the last has the type and the length), those of a payload (record, place*)
(* in it) and zeros.  Checksums are written and never looked at.  A process *)
(* may end in the middle of an append.  logAndApply opens its descriptor    *)
(* again for every edit, with a new writer.                                *)
(***************************************************************************)
EXTENDS Naturals, Sequences, SequencesExt

CONSTANTS
  BlockSize,   \* kBlockSize
  HeaderSize,  \* kHeaderSize
  Sizes,       \* sizes of records
  MaxRecords,  \* bound: records
  MaxWriters,  \* bound: how often the file is opened for appending
  Lengths      \* bound: the lengths that data read as a header may have

ASSUME LogFormatAssumption ==
  /\ HeaderSize \in Nat \ {0} /\ BlockSize \in Nat /\ HeaderSize < BlockSize
  /\ Sizes \subseteq Nat \ {0}
  /\ MaxRecords \in Nat /\ MaxWriters \in Nat \ {0}
  /\ Lengths \subseteq Nat

VARIABLES
  file,         \* the cells
  blockOffset,  \* _blockOffset of the writer
  sizes,        \* the sizes of the records added so far
  ends,         \* where in the file each of them was complete
  position,     \* how much of the last one has been emitted
  created,      \* hasFirstRecordCreated
  writers,      \* how many writers there were
  phase,        \* "writing", "reading", "done" or "failed"
  blockIndex,   \* LogReader: the block in buf; 0 before the first
  buf,          \* its buffer
  handled,      \* bufHandledPosition
  latestType,   \* the type of the last fragment
  latestOp,     \* latestOpBuf: the fragments of a record so far
  yielded       \* the records it has yielded

writer == <<file, blockOffset, sizes, ends, position, created, writers>>
reader == <<blockIndex, buf, handled, latestType, latestOp, yielded>>
vars == <<writer, phase, reader>>

Zero == [kind |-> "zero"]
Types == {"zero", "full", "first", "middle", "last"}

Init ==
  /\ file = <<>> /\ blockOffset = 0 /\ sizes = <<>> /\ ends = <<>>
  /\ position = 0 /\ created = FALSE /\ writers = 1 /\ phase = "writing"
  /\ blockIndex = 0 /\ buf = [i \in 1..BlockSize |-> Zero] /\ handled = 0
  /\ latestType = "none" /\ latestOp = <<>> /\ yielded = <<>>

-----------------------------------------------------------------------------
(* LogWriter.                                                              *)

Left == IF sizes = <<>> THEN 0 ELSE Last(sizes) - position
Leftover == BlockSize - blockOffset
Least(a, b) == IF a < b THEN a ELSE b

AddRecord(size) ==
  /\ phase = "writing" /\ Left = 0 /\ Len(sizes) < MaxRecords
  /\ sizes' = Append(sizes, size) /\ position' = 0 /\ created' = FALSE
  /\ UNCHANGED <<file, blockOffset, ends, writers, phase, reader>>

RecordType(isBegin, isEnd) ==
  CASE isBegin /\ isEnd -> "full" [] isBegin /\ ~isEnd -> "first"
    [] ~isBegin /\ isEnd -> "last" [] OTHER -> "middle"

\* The next n cells of the record's payload.
Payload(r, from, n) == [i \in 1..n |-> [kind |-> "data", of |-> r, at |-> from + i]]

Header(type, n) ==
  [i \in 1..HeaderSize |-> IF i < HeaderSize THEN [kind |-> "crc"]
                           ELSE [kind |-> "head", type |-> type, length |-> n]]

\* Mutant: a record may end with less than a header left, and the next begins.
SwitchesWhenFull == Leftover = 0

\* A fragment needs room for its header; the rest of the block is filled.
Switches == Leftover < HeaderSize

Fragment ==
  LET start == IF Switches THEN 0 ELSE blockOffset
      n     == Least(Left, BlockSize - start - HeaderSize)
  IN  Header(RecordType(~created, n = Left), n)
        \o Payload(Len(sizes), position, n)

Trailer == [i \in 1..Leftover |-> Zero]

\* Two appends at most, the process being able to end between them (Recover).
SwitchBlock ==
  /\ phase = "writing" /\ Left > 0 /\ Switches
  /\ file' = file \o Trailer /\ blockOffset' = 0
  /\ UNCHANGED <<sizes, ends, position, created, writers, phase, reader>>

EmitPhysicalRecord ==
  /\ phase = "writing" /\ Left > 0 /\ ~Switches
  /\ file' = file \o Fragment
  /\ blockOffset' = blockOffset + Len(Fragment)
  /\ position' = position + Len(Fragment) - HeaderSize /\ created' = TRUE
  /\ ends' = IF position' = Last(sizes) THEN Append(ends, Len(file')) ELSE ends
  /\ UNCHANGED <<sizes, writers, phase, reader>>

\* logAndApply opens the descriptor again: the writer starts at offset 0.
Reopen ==
  /\ phase = "writing" /\ Left = 0 /\ writers < MaxWriters /\ sizes # <<>>
  /\ blockOffset' = 0 /\ writers' = writers + 1
  /\ UNCHANGED <<file, sizes, ends, position, created, phase, reader>>

\* The file is read from the beginning when the database is opened again; the
\* process before may have ended with a part of an append done.
Recover ==
  /\ phase = "writing" /\ phase' = "reading"
  /\ \/ UNCHANGED file
     \/ /\ Left > 0
        /\ LET chunk == IF Switches THEN Trailer ELSE Fragment
           IN  \E n \in 1..(Len(chunk) - 1) : file' = file \o SubSeq(chunk, 1, n)
  /\ UNCHANGED <<blockOffset, sizes, ends, position, created, writers, reader>>

-----------------------------------------------------------------------------
(* LogReader.                                                              *)

AtBlockEnd == blockIndex = 0 \/ handled >= BlockSize - HeaderSize

\* The rest of buf keeps what it was when the file ends inside the block.
FillBuffer ==
  /\ phase = "reading" /\ AtBlockEnd
  /\ LET start == blockIndex * BlockSize
         bytes == Least(BlockSize, IF Len(file) > start THEN Len(file) - start ELSE 0)
     IN  IF bytes = 0
           THEN phase' = "done" /\ UNCHANGED <<blockIndex, buf, handled>>
           ELSE /\ buf' = [i \in 1..BlockSize |->
                             IF i <= bytes THEN file[start + i] ELSE buf[i]]
                /\ blockIndex' = blockIndex + 1 /\ handled' = 0
                /\ UNCHANGED phase
  /\ UNCHANGED <<writer, latestType, latestOp, yielded>>

\* readPhysicalRecord takes any cells for a header: data reads as anything.
Headers ==
  LET cell == buf[handled + HeaderSize]
  IN  CASE cell.kind = "head" -> {[type |-> cell.type, length |-> cell.length]}
        [] cell.kind = "zero" -> {[type |-> "zero", length |-> 0]}
        [] OTHER -> [type : Types \cup {"other"}, length : Lengths]

Data(n) == SubSeq(buf, handled + HeaderSize + 1,
                  Least(handled + HeaderSize + n, BlockSize))

\* The last fragment of a record: the record is yielded.
LastRead(data) ==
  /\ yielded' = Append(yielded, latestOp \o data) /\ latestOp' = <<>>

\* Mutant: a preallocated rest of a block is a record too.
OtherIsFull(type, data) == yielded' = Append(yielded, data) /\ UNCHANGED latestOp

\* A zero (the rest of a block) and an unknown type yield nothing.
OtherRead(type, data) == UNCHANGED <<yielded, latestOp>>

ReadPhysicalRecord ==
  /\ phase = "reading" /\ ~AtBlockEnd
  /\ \E h \in Headers :
       LET data == Data(h.length)
           asserted == h.type \in {"first", "last"} => latestType # h.type
       IN  /\ handled' = IF h.type = "zero" THEN BlockSize
                         ELSE handled + h.length + HeaderSize
           /\ latestType' = h.type
           /\ CASE h.type = "full" ->
                     yielded' = Append(yielded, data) /\ UNCHANGED latestOp
                [] h.type = "last" /\ asserted -> LastRead(data)
                [] h.type = "first" /\ asserted ->
                     latestOp' = data /\ UNCHANGED yielded
                [] h.type = "middle" ->
                     latestOp' = latestOp \o data /\ UNCHANGED yielded
                [] OTHER -> OtherRead(h.type, data)
           /\ phase' = IF asserted THEN phase ELSE "failed"
  /\ UNCHANGED <<writer, blockIndex, buf>>

Next ==
  \/ \E size \in Sizes : AddRecord(size)
  \/ SwitchBlock \/ EmitPhysicalRecord \/ Reopen \/ Recover
  \/ FillBuffer \/ ReadPhysicalRecord

Spec == Init /\ [][Next]_vars

-----------------------------------------------------------------------------
(* What is checked.                                                        *)

Record(r) == Payload(r, 0, sizes[r])

\* How far into the file the reader has come.
ReadUpTo == IF blockIndex = 0 THEN 0 ELSE (blockIndex - 1) * BlockSize + handled

Found(r) == r \in DOMAIN yielded /\ yielded[r] = Record(r)

\* The reader has given up before the end of the file.
GivenUp == phase = "failed" /\ ReadUpTo <= Len(file)

\* Record r begins where a block has room for a header only: with a fragment
\* of nothing, which the reader does not look at.
Headless(r) ==
  /\ r - 1 \in DOMAIN ends
  /\ LET cell == file[ends[r - 1] + HeaderSize]
     IN  cell.kind = "head" /\ cell.type = "first" /\ cell.length = 0

\* One writer, or several in one block: the reader yields every record that
\* was written whole, in order and unchanged, and until it passes the end of
\* the file nothing else; and when it gives up before the end, that is at the
\* end of a record without a head.
ReadsWhatWasWritten ==
  writers = 1 \/ Len(file) <= BlockSize =>
    /\ \A r \in DOMAIN ends : ends[r] <= ReadUpTo =>
         Found(r) \/ (GivenUp /\ r = Len(yielded) + 1)
    /\ ReadUpTo <= Len(file) =>
         \A r \in DOMAIN yielded : r \in DOMAIN ends /\ ends[r] <= ReadUpTo
    /\ phase = "done" => \A r \in DOMAIN ends : ends[r] <= ReadUpTo
    /\ GivenUp => Headless(Len(yielded) + 1)

\* In a file of one block the buffer is zero behind the end: a torn append
\* makes at most one record that nobody wrote, and the reader never fails.
OneTornRecord ==
  Len(file) <= BlockSize =>
    /\ phase # "failed"
    /\ Len(yielded) <= Len(ends) + 1
    /\ Len(yielded) = Len(ends) + 1 => Len(sizes) > Len(ends)

\* The assertions of LogReader.iterator: in a log whose only writer finished
\* every record, no first fragment follows a first one and no last a last one.
FragmentsFollow == writers = 1 /\ Len(ends) = Len(sizes) => phase # "failed"
=============================================================================
