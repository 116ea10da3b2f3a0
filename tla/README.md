# Verification of rippledb

TLA+ models of rippledb (`src/src/*.ts`), the TLC instances that check them and
the TLAPS proofs about them.  Line numbers are those of the commit in `src/`.

## The system

rippledb is an embedded key-value store in TypeScript, after LevelDB.  One
process opens a directory; all its calls run on one JavaScript event loop, so
code between two `await`s is atomic and everything else interleaves.  There are
no background threads: "background" work is awaited inline by whichever call
starts it (`Database.ts:826`).

| Component | State | Operations | What makes it hard |
|---|---|---|---|
| Write path (`Database.write`, `buildBatchGroup`, `makeRoomForWrite`, `WriterQueue`) | queue of writers, `tmpBatch`, log, memtable, immutable memtable, `lastSequence`, `_bgError` | `put`, `del`, `batch`, forced write of `compactRange` | calls interleave at every await; one leader works for the others; files fail in between |
| Background scheduler (`maybeScheduleCompaction`, `backgroundCall`, `backgroundCompaction`) | `_backgroundCompactionScheduled`, `_manualCompaction`, `_bgError` | schedule, run, `compactRange` | loops without awaits, a flag that an exception leaves set, a shared manual request |
| Versions (`VersionSet`, `Version`, `VersionBuilder`, `VersionEdit`) | current version (files per level), file and log numbers, compaction pointers, MANIFEST, CURRENT | `logAndApply`, `recover`, `pickCompaction`, `compactRange` | several file operations per edit, any of which may fail or be the last before a crash |
| Recovery (`recover`, `recoverLogFile`, `recoverWrapper`) | the files of the directory | open, replay logs, delete obsolete files | what a crash left behind: orphan tables, torn logs, two logs, an empty CURRENT |
| Compaction (`doCompactionWork`, `Compaction`) | open output, smallest snapshot, last user key | merge inputs, drop hidden entries, install | snapshots and memtable flushes during the merge |
| Reads (`get`, `iterator`, `Version.get`, `Merger`) | references to memtables and the version | `get`, `iterator` | memtables are switched between their awaits |
| Snapshots (`SnapshotList`) | ordered list of sequence numbers | insert, delete, oldest | must bound what compaction drops |
| Table cache (`TableCache`, `LRUCache`) | file number to open table, recency list | `findTable`, `get`, evict | two misses of one file, eviction of a handle in use |
| Tables (`SSTable*`, `BloomFilter`) | blocks, index, filter | build, get, iterate | restart points, index keys, reversed iteration |
| Log format (`LogWriter`, `LogReader`) | block offset, buffer | add record, iterate | fragments at block ends, torn tails, reopened files |
| Memtable (`MemTable`, `Skiplist`) | linked levels | add, get, iterate | iteration while inserting |
| Lock file (`Lockfile`) | the file, its time, a timer | lock, refresh, unlock | two processes, expiry against refresh |
| Repair (`DBRepairer`) | the files of the directory | rebuild the MANIFEST | order of files it never saw the history of |
| Encodings, buffers, checksums, options, platform ports | - | - | byte handling and settings; abstracted |

How they interact: `write` appends to the log through `LogWriter`, inserts in
the `MemTable`, and, when that is full, makes it immutable and awaits the
scheduler; the scheduler flushes the immutable memtable to a table (`Builder`)
or merges tables, and installs the result with `VersionSet.logAndApply`, which
appends to the MANIFEST and rewrites CURRENT; `deleteObsoleteFiles` then removes
logs and tables that the version set no longer names; `recover` reads CURRENT,
the MANIFEST and the logs back.  `get` and `iterator` read memtables and the
current version through the table cache.

What each component promises: the write path, that calls take effect in order,
atomically, with consecutive sequence numbers, and that an acknowledged call is
in a log that recovery reads; recovery, that the acknowledged calls are back in
the same order; the scheduler, that work that is needed is eventually done and
nobody waits for ever; compaction and versions, that no value visible to a
reader or a snapshot changes and levels above 0 stay disjoint; reads, that they
return the state at their snapshot; the table cache, that a handle in use is
open; the log format, that what was added is what is read; the lock file, that
one process owns the directory.

The hazards of `PROJECT.json` list, line by line, what can go wrong in each.

## Modules

| Module | What it is |
|---|---|
| `AtomicWrites` | abstract specification: calls wait in order, take effect together or not at all, are acknowledged afterwards |
| `WriteQueue` | the write path in detail, its properties, and the mapping to `AtomicWrites` |
| `Recovery` | the files of the directory: opening, flushing, crashes and failures, one file operation a step |
| `Background` | who does background work, and who waits for it |
| `VersionedMap` | abstract specification: a map from keys to values, and snapshots of it |
| `LsmTree` | levels and their tables: flushes, compactions, restarts and what a read finds, and the mapping to `VersionedMap` |
| `Reads` | `get` and `iterator` while memtables are written, switched and flushed |
| `TableCache` | `findTable` over the LRU cache, and the handles it opens and closes |
| `LogFormat` | the fragments of a log in its blocks, written, torn and read back |
| `Lockfile` | several processes over one lock file, with time |
| `Repair` | `InternalDBRepairer.run`, cut off by crashes and run again |
| `MCWriteQueue`, `MCLsmTree`, `MCTableCache` | instances for TLC; the other modules are checked as they are |
| `WriteQueueProofs`, `BackgroundProofs`, `FileProofs` (of `LogFormat` and `Lockfile`), `LsmTreeProofs`, `ReadsProofs`, `RecoveryProofs`, `RepairProofs`, `TableCacheProofs` | the inductive invariants and the theorems |

The models overlap on purpose where the components meet, and each takes as one
step, or as a choice, what another takes apart:

- `WriteQueue` takes a flush as one action, which `Recovery` takes apart into
  file operations and `Background` into the decisions of the scheduler;
- `Recovery` takes a write as the two steps `AppendLog` and `Insert` of a single
  writer, which `WriteQueue` shows to be enough (`WritersExclude`,
  `LogsCoverMemory`), and takes a log as a sequence of records, which
  `LogFormat` takes apart;
- `Background` has the queue of writers as "one call leads at a time", and
  levels as numbers of files; `LsmTree` has the files and, as
  `WorkersExclude` allows, one background action at a time;
- `LsmTree` answers a read in one step, and `Reads` takes it apart where it
  waits; that a table may turn out unreadable is a choice in `Reads` and the
  subject of `TableCache`;
- `Repair` begins with any directory that `Recovery` and `LsmTree` can leave.

### WriteQueue

`pc[w]` is the await at which call `w` is suspended; an action is the code from
there to the next await.

| Action | Code |
|---|---|
| `Call`, `Resume` | `write` up to and including the wait (`Database.ts:635-649`) |
| `RoomError`, `RoomNoBatch`, `RoomAvailable`, `RoomSpin`, `RoomRotate`, `Rotated`, `Scheduled` | the branches of `makeRoomForWrite` (729-798), with what `write` does when it returns |
| `RoomAvailable`, `Absorb`, `Seal` | `buildBatchGroup` (687-724), with the `lastSequence` that is read before it (`group.after`, 655-659) |
| `Commit` | after `addRecord` resolved: insert, clear `tmpBatch`, publish the sequence number computed from `group.after`, pop and signal (665-684) |
| `RotateFails`, `BackgroundThrows`, `LogFails` | the exceptions that reject the leader; the queue is not popped |
| `FlushImm`, `BackgroundFails` | `compactMemTable` (1083-1109) and `recordBackgroundError` (1307-1310) as one step each |

Abstractions.  A batch is the call that brought it; an update weighs one byte,
so the one `Count` is both `getCount` and `byteSize`.  Log files are numbered in
the order they were opened.  `writer.sync` is never set by the code, so the
branch of `buildBatchGroup` on it is left out.  The one-second delay at eight
level-0 files is a call that stays at `room`; the branch for twelve such files
belongs to the scheduler's module.  A flush is one step here: its files are the
subject of the recovery module.  Promise plumbing that only delays a
continuation (`await status.ok()`) is not a state.

### AtomicWrites

The refinement mapping takes the queue for the abstract waiting line, the union
of the records in memtables and tables for what is applied, and `dropped` (a
history variable: calls that `write` resolved without applying because of
`_bgError`) for what is lost.

### Recovery

The directory (`current`, `manifests`, `logs`, `tables`) outlives the process;
`pc` is the file operation at which opening or background work stands.

| Action | Code |
|---|---|
| `Open`, `InitDescriptor`, `InitCurrent` | `shouldInit`, `initVersionEdit` (`Database.ts:159-194`) |
| `ReadDescriptor`, `ReadFails` | `VersionSet.recover` (145-247) and the list of logs, sorted as strings (`Database.ts:249-318`) |
| `ReaderThrows` | an assertion of `LogReader` fails, on the descriptor or on a log (`LogReader.ts:59-79`) |
| `SkipLog`, `ReplayLog`, `RecoveredTable`, `RecoveryBuildFails` | the loop of `recover` and `recoverLogFile` (319-410) |
| `NewLog`, `OpeningFails` | `recoverWrapper` (196-247) |
| `AppendLog`, `Insert`, `Rotate` | `write` and `makeRoomForWrite`, as in `WriteQueue` with one writer |
| `StartFlush`, `FlushedTable`, `FlushBuildFails`, `ApplyFails` | `compactMemTable` and `writeLevel0Table` (1083-1156), `buildTable` |
| `BackgroundThrows` | a promise that background work awaits outside of a `Status` rejects: `builder.add`, opening the descriptor, `readdir`, `unlink` |
| `WriteSnapshot`, `WriteEdit`, `TruncateCurrent`, `Install` | `VersionSet.logAndApply` (295-375), `writeCurrentFile` |
| `ListFiles`, `Unlink`, `Cleaned` | `deleteObsoleteFiles` (1326-1384) |
| `Crash` | the process ends anywhere, or an opening is rejected by an error that nothing but `recoverWrapper` catches; closing a database does no more |

Abstractions.  All writes go to one key, so that all tables overlap and "the
newest wins" means the largest sequence number; records have size 1, so a log
holds what one memtable held and is replayed into one table.  A descriptor is
its sequence of edits; an edit that only adds files is what `writeSnapshot`
makes.  A table is its cells, positions counted from where its builder started,
because that is what a file opened with `"a+"` confuses.  `Version.get` is asked
as `Answer`: memtables, level 0 newest file first, then the deeper levels.
Merging compactions and torn log records are not in this module, nor is what a
reader takes from a log beyond its end (`LogFormat` has both): `LogReader` either
yields the records or throws.  Closing a file that was written is taken to succeed.

`Faults` says what may happen besides a crash between two file operations:
`"current"` (a crash inside the rewriting of CURRENT), `"table"` (a crash or an
error leaves any part of a table), `"flush"` and `"replay"` (building a table
fails, before or after something was written), `"descriptor"` (the descriptor or
CURRENT cannot be written, also after CURRENT was truncated), `"throw"`
(background work is rejected and stays scheduled), `"reader"` (`LogReader` throws
on a file that nothing harmed, as `log_tail` shows it can).  `harmed` remembers
that one of four events has happened after which an opening that succeeds may
miss an acknowledged write or hide it behind an older one: part of a table was
left (its number may be given out again), the table of a log was not
written, an edit of an open database was not written, or `logs.sort()` put logs in
another order than that of their numbers.  Two further things are not survived
but noticed, and the properties name them: CURRENT was left empty (`phase` is
`corrupt` from then on), and the reader throws (`unread`).  A database does not
open then; it never opens with less than what was acknowledged.
`Opened` is a set: how often the directory may have been opened and
closed before, which decides whether numbers like 9 and 10 meet.

### Background

There are calls of three kinds: the one that opens the database, calls of
`write()` and calls of `compactRange()`, which begin with a forced write.
`pc[c]` is where call `c` is, `back[c]` where it goes on when
`maybeScheduleCompaction` returns, `job[c]` the background work it is doing.

| Action | Code |
|---|---|
| `Open` | `recoverWrapper` from its call of `maybeScheduleCompaction` (`Database.ts:233-237`) |
| `Call`, `Lead` | `compactRange` up to its write (1228-1243), the wait of `write` (643-652) |
| `RoomError`, `Delay`, `DelayEnds`, `Write`, `RoomSpin`, `NewLog`, `Switch`, `NewLogThrows` | the branches of `makeRoomForWrite` (729-798) |
| `Request`, `LoopSpin`, `NextLevel` | `manualCompactRangeWithLevel` (1252-1300) and the loop of `compactRange` |
| `Schedule`, `Begin` (parts of `Open`, `Switch`, `Request`, `EndWork`) | `maybeScheduleCompaction` (800-828), `backgroundCall` and `backgroundCompaction` up to the first await (830-890), `pickCompaction`, `VersionSet.compactRange` |
| `Flush`, `FlushFails` | `compactMemTable`, also inside `doCompactionWork` (946-950); a memtable without entries adds no file |
| `Merge`, `MergeFails`, `Move`, `MoveFails` | `doCompactionWork` and the trivial move, with their results |
| `Conclude`, `EndWork`, `WorkThrows` | the rest of `backgroundCompaction` (906-920) and of `backgroundCall` (835-838), or a rejection of any promise it awaits, which skips it |

`Schedule` and `Begin` speak of the next state: the flag, the request and the
picked inputs are decided in the same step as what precedes the call, because no
await lies between.

Abstractions.  A level is the number of its files.  Which files a compaction
takes, how many it writes and how many lie in a manual range is arbitrary, so
every choice the code can make is among those of the model.  A level above 0 is
over its limit when it has `Room` files; the last level never is (its limit is a
terabyte, and `finalize` gives it a score all the same, which is listed as a
hazard).  The queue of `write()` is that one call leads, in any order.  `get()`
is not a call here although it has a call of `maybeScheduleCompaction`
(`Database.ts:589`): `Version.updateStats` is a stub that returns false, so reads
never schedule anything and no file is ever picked for its seeks.

Three things the code does are kept although they look like slips, because the
properties depend on them: `backgroundCompaction` ends by deleting the request
that is there at that time, which may be one put up after its work was picked
(`Database.ts:906-920`); the status of `doCompactionWork` is declared a second
time (891), so a merge that fails never marks its request as done; and a trivial
move that fails records no error and is simply tried again.

### LsmTree

An entry is a key, a sequence number and a type; a table is its number and the
set of its entries, with the smallest and the largest of them.

| Action | Code |
|---|---|
| `Write`, `Rotate` | `MemTable.add`, `makeRoomForWrite` |
| `TakeSnapshot`, `ReleaseSnapshot` | `SnapshotList` |
| `Flush` | `writeLevel0Table` with `Version.pickLevelForMemTableOutput`, between two compactions or inside one |
| `Compact` | `pickCompaction` and `setupOtherInputs` of `VersionSet`, and the trivial move of `backgroundCompaction` |
| `CompactRange` | `VersionSet.compactRange` on the levels that `Database.compactRange` goes through: down to the deepest one its range was in when it was called, which `reached` remembers |
| `Finish` | `doCompactionWork`: the rules that drop entries, the cutting of outputs, `installCompactionResults` |
| `CompactionFails` | an output cannot be finished or installed: the compaction is dropped and the version stays |
| `Restart` | logs become tables of level 0 (`Recovery` has the steps) |

A version is installed by `Apply`, which keeps the assertion of
`VersionBuilder.maybeAddFile`: if the tables of a deeper level would overlap,
`overlap` is set and nothing else happens.  What the code decides by sizes
(whether a level is over its limit, where an output is cut, whether inputs are
expanded, how deep a flushed table sinks) is a choice.  The boundary files (as
the least set that goes on where the inputs end), the growth of a range over the
tables of level 0 (as the smallest closed range) and
the smallest snapshot read at the start are the code's.  The compaction pointer,
which spreads compactions over a level, is any table.

`Get` asks the memtable, the immutable one, level 0 by number, and in each
deeper level the one table that `findFile` finds.  The refinement mapping to
`VersionedMap` has for every key what `Get` answers at `lastSequence`, and for
every snapshot that is held what it answers there.

The mapping has one exception, which the proof of the refinement found and a run
shows.  `setupOtherInputs` adds boundary files at the first level of a
compaction and not at the second.  Where two tables of the second level share a
key, a deletion in the first and the value it deletes in the next, a compaction
may take the one and leave the other; the deletion is dropped, because only
deeper levels are asked for its key, and the value is read again.  `Exposes` is
the condition for it when a compaction ends, `exposed` remembers that it
happened, and `ImplementsMap` allows anything from that step on.

### Reads

A write is its index in `log`, which is its sequence number; a source (a memtable,
or the table it became) is the writes between two switches.  A call of `get()`
or of `iterator()` takes hold of the memtables and the version without an await
between, so `Get` and `Iterate` capture them in one step.

| Action | Code |
|---|---|
| `Write`, `Switch`, `Flush` | `MemTable.add`, `makeRoomForWrite`, `compactMemTable` |
| `Iterate`, `Fetch`, `Merge` | `Database.iterator`, one `await` of a child in `Merger`, `findSmallest` or `findLargest` and what `iterator` does with it |
| `Get`, `GetTable` | `Database.get` over the memtables, one table of `Version.get` |

Three things of the code shape the properties.  The sequence number of an
iterator is computed and compared with nothing (`Database.ts:439`), so an entry
written while it runs is yielded; `RegularIteration` says what is left, and
`reads_snapshot` shows the rest.  In reverse the merger meets the oldest version
of a key first and that is the one yielded (only keys with one version are asked
of it), and a reverse iterator without a start skips every table
(`Database.ts:483-490`).  A table that cannot be opened is left out of an
iteration silently, and a table that cannot be read makes `get()` report the key
as absent: `it.lost` and the state `"failed"` stand for these.  One reader at a
time is enough because readers share no state with each other.

### TableCache

A handle is the number of the open that returned it.  `list` is the order of the
LRU cache.  A reader is a call of `get`, an iterator or a compaction.

| Action | Code |
|---|---|
| `Find` | `findTable` up to its first await: a hit, or a miss (`SSTableCache.ts:87`) |
| `Opened`, `OpenFails`, `Loaded`, `LoadFails` | the results of `env.open()` and `SSTable.open()`; `Loaded` has `LRUCache.set` with `trim` and the disposal of what it drops |
| `Read`, `Failed` | the caller reads, or meets a handle that was closed |
| `EndEarly` | `return()` of a compaction's only input iterator, which closes the file |
| `Destroy` | `destroy()` and `LRUCache.reset` |

`Capacity` is `maxOpenFiles` less ten; ten open files would give a maximum of 0,
which `LRUCache` takes for no limit (`LRUCache.ts:109`), and so does the model if
`Capacity` is not less than the number of tables.
The cache is first in, first out: `get` does not move what it finds.  A table
whose `open` fails leaves its handle open, and nobody has it any more
(`abandoned`).  `destroy()` does not stop a `findTable` in flight, which fills
the cache again.  The block cache is keyed by a new buffer for every read, so
it never hits and decides nothing; it is left out.

### LogFormat

A cell is a few bytes: of a header, of a record's payload, or zeros.  The reader
parses any cells that it takes for a header; if they are payload, type and
length are arbitrary.  `position` is how much of the record has been written,
`created` is `hasFirstRecordCreated`, and `ends` remembers where each record was
complete.

| Action | Code |
|---|---|
| `AddRecord`, `EmitPhysicalRecord`, `SwitchBlock` | `LogWriter.addRecord`, one append a step |
| `Reopen` | `logAndApply` opens the descriptor again, and the new writer starts at block offset 0 |
| `Recover` | the process ends, perhaps inside an append, and the file is opened for reading |
| `FillBuffer`, `ReadPhysicalRecord` | `LogReader.iterator`: the next block; one fragment, with its assertions |

### Lockfile

`age` is how long ago the file was written, `seen[p]` how old by now the file time
is that a waiter has read, `timer[p]` when the timer of a process fires, at the
earliest: event loops may be blocked and file operations slow, so any number of
ticks may lie between two steps.  `pc[p]` is the await at which `lock()` is
suspended; `closer[p]` how far the `close()` of the same database is, which may be
called at any time, also while `lock()` still waits.

| Action | Code |
|---|---|
| `Lock`, `Check` | `lock` and `waitUntilOk`, with the errors other than a missing file |
| `ReadTime`, `StatFails`, `OpenFails` | `waitUntilExpire` up to `await fd.stat()` (`Lockfile.ts:52-57`) |
| `Judge` | the comparison with the clock (58), after that await |
| `CloseFile`, `CloseFails` | `await fd.close()` (61), and behind it the test of patience (64) |
| `Acquire`, `AcquireFails` | `writeSomething` and `setInterval`; errors of the first write are ignored too |
| `Refresh`, `Refreshed` | the interval starts `writeSomething`, which ends later, with success or not, perhaps after `close()` |
| `Unlink`, `ClearInterval`, `CloseFiles` | `Database.close`: the file is removed, then the interval ended, then the files of the database closed |
| `Exit`, `Kill`, `Restart` | the exit handler, which unlinks the file whoever owns it; a kill; a new process |
| `Tick` | time |

An owner is a database that is open, from before it reads its first file until
`close()` has closed the last one.  `harmed` remembers that one of six things has
happened, without which there is one owner: two processes found the lock free
before either wrote it; an owner let its file expire; a waiter judged an old file
time when the owner had written the file again (`Lockfile.ts:56-58`); a lock file
could not be written; a database removed the file of another when it was closed or
its process exited; the lock was taken from a database that had unlocked it and was
not closed yet (`Database.ts:423-432`).  Without any one of the six TLC finds two
owners.  A process that waits for an owner that unlocks gets an error (the `open`
or `stat` of a file that is gone) and not the lock.

When `lock()` gives up nothing can be said of the owner: between the comparison and
the test of patience the file is closed, and if that takes long enough the
waiter leaves although the file has expired meanwhile.  The processes are taken to
be on one machine, with one clock; a second `writeSomething` of the interval that
starts before the first has ended is taken to end with it.

### Repair

A file is the set of writes that can be read from it, so a conversion keeps its
argument unless it fails.  The initial directories are those a database can leave:
logs in order, each write in a log or in a table or, when a flushed log was not
unlinked yet, in both, and any of the tables damaged.

| Action | Code |
|---|---|
| `FindFiles` | `findFiles` (`DBRepairer.ts`), with the next number it computes |
| `ConvertLog`, `ConvertFails`, `EndConversion`, `Archive` | `convertLogFilesToTables`; an error may leave part of a table; the rename to `lost/` is not awaited |
| `Scan`, `SizeFails` | `extractMetaData`, `scanTable`; a table whose size cannot be had is moved away |
| `CopyFails`, `CopyTable`, `FinishCopy`, `RenameCopy`, `CopyLost`, `DropEmpty` | `repairTable`, also of a table that an empty log became |
| `WriteDescriptor`, `Install`, `Rename` | `writeDescriptor`, with its rename that nobody awaits |
| `WriteCurrent`, `RenameCurrent` | `setCurrentFile`, over the same temporary file |
| `DescriptorFails` | an error in any of these, among them the open that makes `writeDescriptor` return nothing |
| `Crash` | the run is cut off: what was started and not awaited does not happen, and part of a table may be left |

`spoilt` are the logs whose conversion failed, which are moved away all the same;
`lost` the writes of tables moved away for their size; `displaced` the files whose
writes may stand in the wrong order or in two places afterwards: a log converted
twice, a flushed one that could not be converted, a copy that kept its own number,
a table moved away.  A second error while one is handled and a descriptor record
that was written in part are left out.

A table that was copied is not added to `_tableInfos`, so the new descriptor
leaves it out; `Complete` is about files that could be read at the start.  All tables
go to level 0, where the highest number is asked first, while compactions give
old writes new numbers: `NewestFound` has the premise that the tables found
were in order (`InOrder`).  Temporary files are opened for appending.  The order
of `readdir` is taken to be that of the names.

## Runs

One passing run checks each module as a whole.  Three runs end in a violation
and show a disagreement between the code and what it says of itself.

| Run | Instance | Shows |
|---|---|---|
| `write_queue` | five calls, all failures, background work by anybody, fair | `OneLeader`, `WakeUps`, `Recoverable`, `SequencesExact`, `AckMeansApplied`, `NothingAfterFailure`, `EveryCallReturns`, `ImplementsAtomicWrites` |
| `recovery` | new directory or one opened three times before, 2 crashes or errors, 6 writes, memtables of 2 records, all faults, fair | all properties of `Recovery` |
| `background` | three writers, one `compactRange`, all failures and exceptions, fair | the safety properties of `Background`, `Settles` |
| `lsm_tree` | three keys, three writes, three levels, one snapshot, one restart | `OverlapOnlyByRange`, `NewerAbove`, `SnapshotsAbove`, `ImplementsMap` |
| `lsm_tree_deletion` | two keys, four writes, three levels, one snapshot, no restart | violation of `DeletionsObsolete`: a compaction drops a deletion whose older value stays in the next table of its output level |
| `reads` | two keys, four writes, two switches | `GetExact`, `RegularIteration` |
| `reads_snapshot` | the same with three writes | violation of `ReadsAsOf`: an iterator yields what was written after it was created |
| `table_cache` | three tables, two readers, two entries, four opens, symmetric | `Accounted`, `OpensBounded`, `UsableUnlessEnded` |
| `log_format` | blocks of six cells, two records of any size, two writers | `ReadsWhatWasWritten`, `OneTornRecord` |
| `log_tail` | the same | violation of `FragmentsFollow`: behind the end of a log the reader parses the block before |
| `lockfile` | two processes, fair | `Exclusive`, `Answered` |
| `repair` | three writes of two keys in a table, two logs or both, one failure, two runs | `NothingLost`, `Complete`, `NewestFound` |

The properties of `WriteQueue`: `OneLeader` (mutual exclusion and an open log),
`WakeUps` (no lost or wasted signal), `Recoverable` (what is only in memory is in
a log recovery reads), `SequencesExact` (each sequence number once, no gap),
`AckMeansApplied` (a call that resolved took effect once unless a background
error dropped it), `EveryCallReturns` (each call returns unless one was rejected
or the event loop hangs), `NothingAfterFailure` (no append behind a record that
may be torn), `ImplementsAtomicWrites`.

The properties of `Recovery`: `NoWriteLost` (unless one of the four events has
struck that `harmed` remembers, acknowledged writes are visible whenever the
database is open, and an opening that misses a file or an edit does so because
CURRENT was left empty), `NewestWins` (no older value
hides a newer one), `DiskCovers` (at any time what CURRENT leads to has every
acknowledged record), `SequencesFresh`, `LogsFresh` (no number of the last
incarnation is used again), `ReadersKeep` (a flush, also a failing one, takes
nothing away from readers), `Reopens` (a crash is followed by an opening that
succeeds, unless CURRENT is empty, the reader throws or one of the four events has
struck), `FlushEnds` (a memtable that was switched off is flushed, unless an error was
recorded or background work was rejected).

The properties of `Background`: `OneWorker` (the flag excludes), `InputsLive`
(what a compaction has picked stays there, whatever is flushed meanwhile),
`NothingForgotten` (work that is due is somebody's), `RequestsOwned` (no request
outlives its call), `SpinsForOthers` (nobody hangs waiting for itself),
`Settles` (calls return and work ends).

The properties of `LsmTree`: `ImplementsMap` (no flush, compaction, move or
restart changes an answer at the current sequence number or at a snapshot, and
a write changes one key, until a deletion has been dropped that is not obsolete), `NewerAbove` (`get()` may stop at the first place that
has the key), `SnapshotsAbove` (the smallest snapshot that a compaction read at
its start stays below every snapshot taken or held while it runs),
`OverlapOnlyByRange` (the assertion "Must not overlap" fails only for manual
compactions).

The properties of the smaller modules: `GetExact` (the answer is the one at the
call's sequence number), `RegularIteration` (each key passed is yielded once,
with a value it had since the call, or had none at some time since);
`Accounted` (no handle is forgotten, and the cache bounds how many are open),
`OpensBounded` (a table that stays cached is opened at most once for each
reader), `UsableUnlessEnded` (no closed handle stays in the cache unless an
iterator closed it); `ReadsWhatWasWritten` (what was written whole is read back in
order, and until the end of the file nothing else; where the reader gives up
earlier, the record after the last one it yielded is `Headless`), `OneTornRecord`
(in a file of one block a torn append makes at most one record that nobody wrote,
and no assertion fails); `Exclusive` (one owner unless one of the six things has
happened), `Answered` (every `lock()` ends); `NothingLost`, `Complete`
and `NewestFound` (what can be read stays in the directory, is named by the new
descriptor, and is asked in the right order).

### Statements that do not hold

The modules state what the code or its documentation says also where it is
refuted; a reader who puts a name of the first column into the module's `.cfg` as
an `INVARIANT`, with the constants given, gets the behaviour from TLC.

| Statement | Why it fails |
|---|---|
| `WriteQueue.NeverSpins`, `Background.NeverSpins` | the branch commented "so we wait" (`Database.ts:757`) and the loop commented "aborted early" (1284) loop without an await; `SpinsForOthers` and the premises of `Settles` say what is left |
| `Recovery.WritesSurvive` | CURRENT is truncated before it is written (`VersionSet.ts:448`); tables are opened with `"a+"` (`Builder.ts:27`); the status of a table that recovery could not build is dropped (`Database.ts:387`); a descriptor that could not be written is unlinked although CURRENT names it (`VersionSet.ts:370`); `LogReader` throws on files that nothing harmed (`LogReader.ts:64`); logs are sorted as strings, so that 10 is replayed before 9 (`Database.ts:318`) and, in a descriptor whose number is used again (`VersionSet.ts:329`), the edit of an opening that was cut off names a table that the next one numbered otherwise |
| `LsmTree.NeverOverlaps` | a memtable flushed inside a manual compaction lands in a gap of its inputs, at the level the output goes to |
| `LogFormat` with two writers and more than one block | a reopened descriptor is written from block offset 0: records straddle blocks and are misread, which `ReadsWhatWasWritten` excludes by its premise |
| `LogFormat`: whatever one writer wrote whole is read back | a record that begins exactly a header before the end of a block has a first fragment of nothing (`LogWriter.ts:82`), which the reader passes over (`LogReader.ts:39`); after a record that ended with a last fragment, its own last fragment fails the assertion at `LogReader.ts:64`, and this record and all after it are not read; `Headless` is what `ReadsWhatWasWritten` leaves open |
| `TableCache`: cached handles are open, with no exception | the file that `return()` closes stays cached, against the comment "so that if the error is transient ... we recover automatically" (`SSTableCache.ts:90-91`); `UsableUnlessEnded` is what is left |
| `Repair.Installed` | the rename of the descriptor is not awaited (`DBRepairer.ts:391`) and `setCurrentFile` truncates the same `000001.dbtmp`: CURRENT may name a file that is missing or has no record |

### Bounds

`WriteQueue`.  Five calls: batches of one, two, one and no updates and one call
without a batch.  With `Limit` 1, `MaxGroup` 3 and `BufferSize` 1, the small
first batch admits one more update, the large one admits a group of three, a
batch without updates always fits, and a memtable is full after two updates, so
that groups of one to three, groups cut by the limit, groups with a writer that
only rides along, two rotations and a flush beside a running group all occur.
`CHECK_DEADLOCK FALSE`: after a rejected leader the remaining calls wait for
ever, which is what the code does.

`Recovery`.  `MaxFailures` 2 lets a crash or an error hit an opening that follows a
crash or an error;
`MaxWrites` 6 with memtables of two records gives a full memtable beside an
immutable one, two logs to replay and tables at each of the levels 0, 1 and 2.
A new directory has file numbers below ten for long, so that sorting is right; in
one that was opened three times before logs 9 and 10 meet when the first crash
leaves two, and they are replayed in the wrong order.  The theorems need none of these bounds.

`Background`.  Three levels (`Last` 2), so that a manual range takes the loop of
`compactRange` round twice and a merge can fill the next level; the triggers 2, 3
and 4 keep the order of the code's 4, 8 and 12.  The directory begins
without tables and gets them from flushes.  Three writers are what it
takes to meet a full memtable beside an immutable one while the fourth call
works: one fills the memtable, one makes it immutable and fills the next, one
finds both.  `CHECK_DEADLOCK FALSE`: the calls are finitely many, and a rejected
or spinning call stops the system.  The opening call is finished before others
begin, as `ok()` makes them wait for it.

`LsmTree`.  Key 1 is written, overwritten and deleted, key 3 makes tables wide
and leaves the gap that key 2 falls into.  Three levels with `L0Trigger` 2 give
compactions into the last level and above it, moves, deletions that still hide
something and such that do not; the snapshot may lie between any two writes, and
the restart may hit a running compaction.  Nothing needs to happen once writes
and restarts are used up, so deadlock is not checked.  For `DeletionsObsolete`
four writes are needed: a value and its deletion, kept apart by a snapshot in two
tables of one level, and two more that make the table above reach only the first.

`Reads`.  Two keys are passed in either order; four writes and two switches give
a live, an immutable and a flushed source, each with something in it, and a
source that is switched twice while an iterator holds it.

`TableCache`.  Two entries for three tables make eviction necessary; four opens
are two misses of one table with two more handles to replace or evict them, for
two readers.  `CHECK_DEADLOCK FALSE`: opens are bounded.

`LogFormat`.  With blocks of six cells and headers of two, sizes from one to nine
cover a fragment that fits, ends one cell before, at and after a block's end,
leaves room for a header only or for less, and a record of three fragments.

`Lockfile`.  `Stale` 2, `Half` 1 and `Margin` 1 keep the order of the code's
times; counters saturate above the limits they are compared with, so no bound on
time is needed.  Two processes are enough for each of the six ways to two owners;
with every await a step, three are too many for TLC, and the theorem is about any
number.

`Repair`.  Three writes can be spread over a table, a log and another log or
table, any of them damaged, and be in a flushed log as well.  Two runs let a crash hit
each step once, and one failure each operation once, before, after or without it.

### Fairness

`WriteQueue`.  Weak fairness of each call's next step and of the flush: the event
loop runs every ready task and a file operation ends.  No fairness for calls
(nobody is forced to write) or failures.

`Recovery`.  A closed or crashed database is opened again, and file operations
end; nothing is assumed of writers, crashes and failures.  `Rest` lets an open
database with nothing to do (or one that cannot be opened) stay as it is, so that
a deadlock means an opening or a flush that is stuck.

`Background`.  Whoever can go on does, and file operations end, with success or
not.  A call that loops without awaiting disables every other step, as it does in
JavaScript.

`Lockfile`.  Time passes (`WF(Tick)`), and a process that can go on with its
`lock()` does (`WF(Step(p))`); nothing is assumed of owners, exits and crashes.

The other modules state no liveness: their calls are awaited file operations in
a row, and whether they end is the file system's business.

## Proofs

The assumptions are those named in the modules (`WriteQueueAssumption` and so
on): types of the constants, and besides that only that the level-0 stop trigger
is not below the compaction trigger (12 and 4 in `Config`), that the interval of
a lock is not longer than its `Stale`, that a cache has room for one entry, and
that the directory given to repair is finite.

`WriteQueueProofs` proves for any set of calls, batches and limits, with
failures and foreign background work allowed: `TypeCorrect`, `WritersExclude`,
`NoLostWakeUp`, `LogsCoverMemory` and `FailureIsFinal`.

The inductive invariant `IInv` is `TypeOK`, `QueueInv` (a call is queued exactly
when its `pc` says so, nobody twice, and only the front is past the wait),
`WakeUps`, `GroupInv` (`lastWriter` is still queued while its group is written:
otherwise the popping loop would never meet it), `LogCovers` (the log in use
covers the memtable and the one before it the immutable memtable, and
`logNumber` is not past it) and `RotationInv` (the log is closed only while it
is changed, and that happens only without an immutable memtable).  `OneLeader`
alone is not inductive: it needs to know that waiting writers behind the front
are not past the wait, and that a popped writer is never queued again.
`Recoverable` needs `RotationInv`: a rotation while the previous memtable is
still there would push its log two back.

Its second part goes on from there and proves `WritesAreAtomic`
(`ImplementsAtomicWrites`), `NumbersUsedOnce` (`SequencesExact`) and
`AcknowledgedIsApplied` (`AckMeansApplied`).  Its invariant `RInv` adds
`SequencesExact` itself, `BatchInv` (the batches of a group that is built or
written are those of the writers that will be popped for it: a writer without a
batch rides, one that is too big stays) and `AppliedInv` (what is applied belongs
to calls that were popped, what was popped is applied, dropped or has no batch,
and no call is in two records).  With them each action is a step of
`AtomicWrites` or leaves its variables alone: `Call` is `Submit`, `Commit` is
`Apply` of as many calls as are popped, `RoomNoBatch` is `Apply` of one,
`RoomError` is `Lose`, `Resume` of a popped writer is `Ack`, the three failures
are `Reject`, and all others are stutters (`Same`).

`BackgroundProofs` proves every safety property of `Background`, for any number
of calls and levels and any triggers: `TypeCorrect`, `WorkersExclude`,
`InputsStay`, `NoWorkForgotten`, `RequestsHaveOwners` and
`NobodySpinsForItself`.  Its `IInv` is `TypeOK`, `OneWorker`,
`NothingForgotten`, `PlaceInv` (a call that will enter the loop over the levels
is still at level 0, one that is in it has not passed its last level),
`ManualInv` (the request that is up is for such a level, and its call is in the
loop) and `JobInv` (only the worker has a job, and its inputs are there).
`OneWorker` needs `JobInv` nowhere, but `TypeOK` needs all of them: that a level
never has a negative number of files rests on `InputsLive`, that on there being
one worker, and that the level of a request exists on `ManualInv` and
`PlaceInv`.  The steps are grouped by what they may disturb: those that walk a
call from one place to another, those that end in a decision (`ScheduleDoes`
says what it can be), those of the worker, and exceptions.
`NobodySpinsForItself` follows from `NothingForgotten` and `OneWorker` with one
more fact, `OpenInv`: nobody calls before the database is open.

`RecoveryProofs` proves every safety property of `Recovery`, for any number of
writes, crashes and earlier openings, any size of memtables and all faults:
`WritesKept` (`NoWriteLost`), `NewestAnswered` (`NewestWins`),
`DirectoryCovers` (`DiskCovers`), `SequencesUnique` (`SequencesFresh`),
`LogsNew` (`LogsFresh`), `ReadersSafe` (`ReadersKeep`) and `TypeCorrect`.
`DiskCovers` is what has to survive a crash, and it is far from inductive: a
crash may come after any file operation, the next opening builds on what it finds,
and may be cut off again.  The invariant `IInv` says what a descriptor promises,
and which descriptor promises it at which point:

- `Sane(m)`, whatever happened: descriptor `m` has numbers, its log number is
  below its next file number, and no record in a table is beyond what replaying
  moves `lastSequence` to.  From this alone `SequencesUnique` and `LogsNew` follow.
- `Good(m)`, unless one of the four harmful events happened.  `KeptInv`: at most
  two logs with records are to be replayed, the one the descriptor names and the
  one with its next file number, the older records in the first.  `FilesInv`:
  a file with a higher number has newer records and no deeper level, and what is only in
  logs is newer still; this is why `get()` may stop at the first source that
  answers, and why placing a flushed table at level 2 is safe.  `CoverInv`:
  acknowledged records are in a file or in such a log.
- What an earlier opening left behind is harmless because replaying is
  deterministic: `Planned` is the table number that a log gets in every attempt.
  A table file with a number not yet given out is empty or holds copies of
  just what would be written (`LeftInv`, `Copied`: the footer of the last copy
  points into the first, as positions count from the builder's start), and a
  descriptor left by an attempt adds only planned files (`AttemptsInv`).  An
  opening that differs from the one before it, as a wrong order of logs or a
  dropped table makes it, breaks exactly this.
- `ReplayInv`, `ReplayedInv`, `OpeningInv` and `OpenedInv` follow an opening from the
  descriptor it read to the moment when CURRENT names the new one (`SaneNow` and
  `GoodNow` of the new descriptor hold before it is named); `MemoryInv`,
  `AppliedInv`, `FlushInv` and `VisibleInv` relate the memory of a running process
  to its log and descriptor: the memtable is its log, the immutable memtable is
  the log the descriptor names, the table of a flush has the number that replaying
  that log would give it.

TLC checked `IInv` on the instance of the run before it was proved.  A step that
only adds to files that no descriptor counts on keeps `Sane` and `Good` (the
lemmas on `Kept` and `Intact`), so each action needs an argument for the few
parts it is about.  `logs.sort()` is `Sorted`, any sequence in that order, and
`Contents` of copied cells are computed from positions, so no recursion and no
induction over data is needed.

`LsmTreeProofs` proves every property that the runs of `LsmTree` check, for any
keys, levels and sequences of writes, any snapshots and restarts, and whatever
the code decides by size: `NewerIsAbove` (`NewerAbove`), `SnapshotsStayAbove`
(`SnapshotsAbove`), `OverlapsOnlyByRange` (`OverlapOnlyByRange`) and `TreeIsMap`
(`ImplementsMap`).  The argument has three parts.

- What the choice of inputs guarantees.  A set of tables of a level is `Convex`
  if no other table lies between two of them, and `Connected` if no key between
  two of them is outside all of them.  `OverlappingInputs` is convex, and at level
  0 the smallest closed range exists because closed ranges intersect in a closed
  range.  With its boundary tables (`Chain`, the least set that is closed) a
  convex set has only older versions than what stays at its level: that is
  `GoodInputs`, and it holds for `pickCompaction` (`PickedGood`) and for
  `compactRange` (`RangedGood`), which cuts what its range overlaps.  Only the
  inputs of `pickCompaction` are connected too (`PickedConnected`).
- The invariant `IInv`.  `NewerAbove` needs that a sequence number belongs to one
  entry (`EntriesInv`), that deeper levels are sorted (`SortedInv`) and that
  the inputs of the running compaction are still older than what stays beside them,
  although memtables were flushed meanwhile (`JobInv`).  `JobInv` also says
  that a key that was at no deeper level when the compaction started has not got
  there since: a flush beside a compaction puts its table where it overlaps
  nothing.  `OverlapOnlyByRange` needs `AutoInv`: every table of the output
  level is beside the inputs as a whole, and as these are connected a flushed
  table cannot end up between two of them.  TLC checked `IInv` before.
- The answers.  `GetIs`: by `NewerInv` and `SortedInv`, what `Get` finds with its
  order of places, its newest table of level 0 and its binary search is the
  newest visible version among all entries, wherever it is (`AnswerIn`).  So a
  step that keeps the set of all entries is a stutter of `VersionedMap`: flushes,
  moves, rotations, restarts.  A compaction drops entries, and `FinishAnswers` shows
  for every sequence number from the smallest snapshot on that the newest
  version of a key is kept or is a deletion with nothing behind it: not above
  (`NewerInv`), not beside (`JobInv`), not in the outputs (it would be hidden),
  not deeper (`JobInv` again), and in the output level only if `Exposes`.

`FileProofs` proves `LogReadBack` (`ReadsWhatWasWritten`) and `TornOnce`
(`OneTornRecord`) for any sizes of blocks, headers and records, any torn append
and any bytes that the reader takes for a header.  A file is a sequence of cells,
which says nothing about where its fragments are; so the invariant `LogInv` says
that there is a sequence `fs` of fragments that describes the file.  `Turn(fs, k)`
is where the k-th fragment goes (block, place, record, position in the record)
computed from the one before it only, so that no fragment's place is a sum over
all earlier ones and nothing has to be counted by induction.  The parts of `Inv(fs)`:

- `Written`: each fragment is in its `Turn`, lies inside its block (`Placed`), the
  file has its header and payload there (`Content`), and the records that were
  complete before it end before it (`EndsAround`).  A write adds cells only, so
  `Written` stays true (`WrittenKept`), and a new fragment is added to `fs` in the
  turn it has (`EmitPlace`, `EmitWrites`, `EmitKeeps`).
- `WriterInv` and `OffsetInv`: the writer goes on where the last fragment ends, and
  `blockOffset` is its distance from the start of the block.  This is where
  `OneBlockOrWriter` is needed, the premise of both properties: a second writer
  begins at offset 0 wherever it is, which is harmless only as long as the file
  ends in its first block.
- `TornInv`: what the end of the process left behind the last fragment is a
  beginning of the fragment, or of the trailer, that was due.
- `BufInv`: the buffer holds its block as far as the file goes, and behind that
  zeros if it is the first.
- `Awaits`: the reader stands before a fragment whose record is the next one it
  yields, with exactly the part before the fragment collected, and `latestType` is
  none that the fragment cannot follow, unless the record is `Headless`; or `Past`: it has passed the end of the file,
  where only what was found and how many records were made up still matters.

The step of the reader (`ReadFragment`) finds that the header under it is the one
that was written, and its assertions hold because fragments of a record follow
each other by `Turn`, except after a fragment of nothing, which gives `Headless`.
TLC checked `Inv` first on the instance of the run, with `fs` as a history
variable, and `Inv` had to be strengthened by the case of a fragment of nothing.

Its second part, on the lock file, proves for any number of processes and any times `TypeCorrect`,
and `OwnersExclude` (`Exclusive`).  Exclusion of
owners is not inductive by itself: `Standing` adds, as long as nothing has harmed
the lock, that at most one process is about to write the file, that nobody is
while there is an owner, and that the file of an owner that has not unlocked it is
there and has not expired.  A waiter that judges a file time as expired then judges
one that was read before the owner wrote the file again, or one of a file that
nobody holds.

`ReadsProofs` proves `GetAnswers` (`GetExact`) for any keys, writes and switches.
`SourcesInv` has the sources as consecutive ranges of writes; `Remaining`
says of a call in progress that every version it looks for lies in the sources it
has not asked, which are the oldest ones.  Lemma `NewestSource`: the newest source
with a version of a key has the newest version.

Its second part proves `IteratesRegularly` (`RegularIteration`), in both directions.
What makes it hard is that the live memtable grows under the iterator, so nothing can
be said of all the writes a child will bring.  `AheadInv` speaks of those from
before the call only: each is still to be brought by the child of its source
(`Ahead`), or its key is not new any more (`NewKey`).  When the entry that comes first
is merged, a key that stops being new without having been brought had no version then,
and one that is brought is brought with its newest version from before the call or
a newer one (`DecidedInv`).  That no child is missing needs that every write is
in a source and that no table is empty (`CoverInv`): only then has a table the
smallest and largest keys by which it is skipped (`FirstExists`, `NoneSkipped`).

`RepairProofs` proves `LosesNothing` (`NothingLost`) for any files, failures and
numbers of crashes.  `NothingLost` is about all writes together and not
inductive; the invariant follows every file: a log that was moved away, or whose
rename has been started, is contained in the tables unless its conversion failed,
and so is every table that could be read and was not moved away for its size
(`LogsInv`).  That a new file overwrites
none needs that its number is above all others (`RunInv`), and so that a finite
set of numbers has a largest one (`MaxExists`, from well-foundedness of the
subsets of a finite set).  The assumption is that the directory is finite.

`LeavesNothingOut` (`Complete`) is about the last step only, so what is named has to
be followed through the run.  `Stable` are the tables that no step will
take away, as long as none is moved away for its size (`NamedInv`); a log that was or will be moved away is one of them, in the list of
tables still to scan or of those scanned (`ListedInv`), and the lists lead through
what is written to the temporary file to the descriptor (`WrittenInv`), which may
begin with what an earlier run had left in the file: that too names stable tables.

`NewestIsFirst` (`NewestFound`) needs the order of the numbers.  Tables that were found
keep theirs, also over a copy (`PlacesInv`); what logs became is above them; and
logs become tables in their order, each being older than those that have
their turn yet (`AheadInv`).  A crash or an error breaks this where it leaves a copy under its own
number or a converted log in its place, or takes a table or a flushed log out of its
place, which `displaced` remembers (`OrderInv` holds as long as nothing was).  The
logs have all writes from some one on, so the table that an already flushed log becomes
is in order all the same.  The
assumptions are that the writes are finitely many and that a log and a table never
have the same number, which come from one counter.

`TableCacheProofs` proves `NothingLeaks` (`Accounted`) and `ClosedOnlyByEnd`
(`UsableUnlessEnded`) for any numbers of tables, readers, opens and entries.  The
invariant adds that no table and no handle is in the cache twice (`ListInv`) and
that the handle of a table that is still being opened is nobody else's, not
cached and not closed (`LoadingInv`): otherwise the handle that `set()` puts in
could be one that an iterator has closed.  The three ways a handle enters or
leaves the cache (overwriting, eviction, closing) share two lemmas, `InsertStep`
and `ClosingStep`.

Its second part proves `OpenedOnceEach` (`OpensBounded`).  A number of handles is
not inductive; `OpenersInv` says why there are not more: the handles of a file
were opened by different calls, an injection, and each of these is past opening
the file (`Past`): it is about to put the handle into the cache, or the file is
there, where the next look finds it.  A file leaves the cache by an eviction or
`destroy()` only, which the premise excludes (`LeavingDisturbs`).  The assumption
is that the calls are finitely many.

Every invariant and every action property that a passing run checks is proved,
and the two refinements.  Only model-checked are the liveness properties
(`EveryCallReturns`, `Reopens`, `FlushEnds`, `Settles`, `Answered`), which are out
of the prover's reach, and the statements that TLC refutes.

## What is left

What would add most: compactions in the files of `Recovery`, whose tables come from
flushes and logs only.

## Not modelled

- The encodings of edits, keys, batches, blocks and footers, and `Buffer`,
  `Slice`, `Coding`: pure functions of bytes without state or waiting.
- The skip list: an insertion has no await, and the one thing that interleaves
  with it, an iterator between two of its nodes, is in `Reads`.
- Blocks, index, filter and builder of tables: built and read in one sequential
  pass; a table is the set of its entries.
- Checksums: written and never verified.
- Reference counts of versions and memtables: they free nothing in JavaScript
  and no decision reads them.
- Options, status, logging, platform ports, benchmarks.
