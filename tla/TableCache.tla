----------------------------- MODULE TableCache -----------------------------
(***************************************************************************)
(* The cache of open tables: TableCache.findTable over an LRUCache, called  *)
(* by get, by iterators and by compactions at the same time.  findTable     *)
(* awaits the opening of the file and of the table between its look into   *)
(* the cache and its entry there, and the cache closes the handles it drops *)
(* whoever still reads from them.                                          *)
(*                                                                         *)
(* A handle is the number of the open that returned it.                    *)
(***************************************************************************)
EXTENDS Integers, Sequences, FiniteSets, SequencesExt

CONSTANTS
  Files,     \* numbers of tables
  Readers,   \* calls of get, iterators, compactions
  Capacity,  \* max: the entries of the cache (no limit, which is what a max of 0
             \* means, is any number that is not less than that of the tables)
  MaxOpens   \* bound: handles

ASSUME TableCacheAssumption ==
  Capacity \in Nat \ {0} /\ MaxOpens \in Nat /\ IsFiniteSet(Readers)

VARIABLES
  list,       \* LRU_LIST, the youngest entry first
  opened,     \* the file of each handle
  closed,     \* what a handle was closed for
  abandoned,  \* handles of tables that could not be opened
  reader,
  destroyed

vars == <<list, opened, closed, abandoned, reader, destroyed>>

Handles == 1..Len(opened)
Open == Handles \ DOMAIN closed
Idle == [at |-> "idle"]

Init ==
  /\ list = <<>> /\ opened = <<>> /\ closed = <<>> /\ abandoned = {}
  /\ reader = [r \in Readers |-> Idle] /\ destroyed = FALSE

-----------------------------------------------------------------------------
(* LRUCache.                                                               *)

\* get() does not move what it finds to the front.
Cached(f) == {i \in DOMAIN list : list[i].file = f}

\* dispose: a handle that was closed is closed again without harm.
Close(S, why) ==
  [h \in DOMAIN closed \cup S |->
     (IF h \in DOMAIN closed THEN closed[h] ELSE {}) \cup {w \in {why} : h \in S}]

\* Mutant: the new handle of an entry that is overwritten is disposed of.
DisposedNew(f, h) == {h}

Disposed(f, h) == {list[i].handle : i \in Cached(f)}

\* Mutant: no trim().
Untrimmed(entries) == entries

Trimmed(entries) == IF Len(entries) > Capacity THEN Front(entries) ELSE entries

\* set(): an entry for the file is overwritten where it is; a new one goes to
\* the front, and trim() drops the last.
Set(f, h) ==
  IF Cached(f) # {}
    THEN /\ list' = [i \in DOMAIN list |->
                       IF i \in Cached(f) THEN [list[i] EXCEPT !.handle = h]
                       ELSE list[i]]
         /\ closed' = Close(Disposed(f, h), "replaced")
    ELSE LET all == <<[file |-> f, handle |-> h]>> \o list
         IN  /\ list' = Trimmed(all)
             /\ closed' = Close({all[i].handle : i \in DOMAIN all \ DOMAIN list'},
                                "evicted")

-----------------------------------------------------------------------------
(* findTable().                                                            *)

\* Mutant: a table that is cached is opened again if its handle was closed.
HitsIfOpen(f) == {i \in Cached(f) : list[i].handle \in Open}

Hits(f) == Cached(f)

Find(r, f) ==
  /\ reader[r] = Idle
  /\ \/ \E i \in Hits(f) :
          reader' = [reader EXCEPT ![r] =
                       [at |-> "reading", file |-> f, handle |-> list[i].handle]]
     \/ /\ Hits(f) = {}
        /\ reader' = [reader EXCEPT ![r] = [at |-> "opening", file |-> f]]
  /\ UNCHANGED <<list, opened, closed, abandoned, destroyed>>

\* env.open() resolves.
Opened(r) ==
  /\ reader[r].at = "opening" /\ Len(opened) < MaxOpens
  /\ opened' = Append(opened, reader[r].file)
  /\ reader' = [reader EXCEPT ![r] =
                  [at |-> "loading", file |-> @.file, handle |-> Len(opened')]]
  /\ UNCHANGED <<list, closed, abandoned, destroyed>>

OpenFails(r) ==
  /\ reader[r].at = "opening"
  /\ reader' = [reader EXCEPT ![r] = Idle]
  /\ UNCHANGED <<list, opened, closed, abandoned, destroyed>>

\* Table.open() resolves: the handle is cached, whatever the cache holds now,
\* and also after destroy().
Loaded(r) ==
  /\ reader[r].at = "loading"
  /\ Set(reader[r].file, reader[r].handle)
  /\ reader' = [reader EXCEPT ![r].at = "reading"]
  /\ UNCHANGED <<opened, abandoned, destroyed>>

\* Table.open() rejects: nobody closes the handle.
LoadFails(r) ==
  /\ reader[r].at = "loading"
  /\ abandoned' = abandoned \cup {reader[r].handle}
  /\ reader' = [reader EXCEPT ![r] = Idle]
  /\ UNCHANGED <<list, opened, closed, destroyed>>

-----------------------------------------------------------------------------
(* What the callers do with a table.                                       *)

\* The last block is read, or a block cannot be because the handle is closed.
Read(r) ==
  /\ reader[r].at = "reading"
  /\ reader' = [reader EXCEPT ![r] =
                  IF @.handle \in Open THEN Idle ELSE [@ EXCEPT !.at = "failed"]]
  /\ UNCHANGED <<list, opened, closed, abandoned, destroyed>>

Failed(r) ==
  /\ reader[r].at = "failed"
  /\ reader' = [reader EXCEPT ![r] = Idle]
  /\ UNCHANGED <<list, opened, closed, abandoned, destroyed>>

\* A compaction with one input iterator stops early: the iterator's return()
\* closes the file, which stays in the cache.
EndEarly(r) ==
  /\ reader[r].at = "reading"
  /\ closed' = Close({reader[r].handle}, "ended")
  /\ reader' = [reader EXCEPT ![r] = Idle]
  /\ UNCHANGED <<list, opened, abandoned, destroyed>>

\* destroy(): reset() disposes of every entry.
Destroy ==
  /\ ~destroyed /\ destroyed' = TRUE
  /\ closed' = Close({list[i].handle : i \in DOMAIN list}, "reset")
  /\ list' = <<>>
  /\ UNCHANGED <<opened, abandoned, reader>>

Next ==
  \/ \E r \in Readers :
       \/ \E f \in Files : Find(r, f)
       \/ Opened(r) \/ OpenFails(r) \/ Loaded(r) \/ LoadFails(r)
       \/ Read(r) \/ Failed(r) \/ EndEarly(r)
  \/ Destroy

Spec == Init /\ [][Next]_vars

-----------------------------------------------------------------------------
(* What is checked.                                                        *)

Held == {list[i].handle : i \in DOMAIN list}
Loading == {reader[r].handle : r \in {r \in Readers : reader[r].at = "loading"}}

\* No handle is forgotten, and the cache bounds their number: an open one is one
\* of at most Capacity in the cache, or a call is about to put it there, or its
\* table could not be opened.
Accounted ==
  /\ Open \subseteq Held \cup Loading \cup abandoned
  /\ Cardinality(Held \cap Open) <= Capacity

\* Calls that miss at the same time open a file more than once, but it is not
\* opened again while it stays in the cache: at most one handle for each reader.
OpensBounded ==
  \A f \in Files :
    LET H == {h \in Handles : opened[h] = f}
    IN  (\A h \in H : h \notin abandoned
           /\ (h \in DOMAIN closed => closed[h] \cap {"evicted", "reset"} = {}))
          => Cardinality(H) <= Cardinality(Readers)

\* What the comment in findTable() says: a failure is not cached, the next call
\* recovers.  That holds but for handles that an iterator has closed.
UsableUnlessEnded ==
  \A i \in DOMAIN list :
    list[i].handle \in DOMAIN closed => "ended" \in closed[list[i].handle]
=============================================================================
