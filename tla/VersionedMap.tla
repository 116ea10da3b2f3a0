---------------------------- MODULE VersionedMap ----------------------------
(***************************************************************************)
(* What the tree of tables promises, whatever it flushes and compacts: a    *)
(* map from keys to values, and snapshots, each a copy of the map as it was *)
(* when the snapshot was taken.  A value is the number of the write that    *)
(* made it: a key has a set of values, with one value or none.             *)
(***************************************************************************)
EXTENDS Naturals

CONSTANTS Keys, Snapshots

VARIABLES
  writes,  \* how many writes there were
  latest,  \* the map
  held,    \* the snapshots that exist
  view     \* and the map that each of them sees

vars == <<writes, latest, held, view>>

Init ==
  /\ writes = 0 /\ latest = [k \in Keys |-> {}]
  /\ held = {} /\ view = <<>>

Set(k, value) ==
  /\ writes' = writes + 1
  /\ latest' = [latest EXCEPT ![k] = value]
  /\ UNCHANGED <<held, view>>

Put(k)    == Set(k, {writes + 1})
Delete(k) == Set(k, {})

Take(s) ==
  /\ s \notin held /\ held' = held \cup {s}
  /\ view' = [t \in held \cup {s} |-> IF t = s THEN latest ELSE view[t]]
  /\ UNCHANGED <<writes, latest>>

\* Snapshots that are released, one or, when the process ends, all of them.
Release(S) ==
  /\ S \subseteq held /\ S # {} /\ held' = held \ S
  /\ view' = [t \in held \ S |-> view[t]]
  /\ UNCHANGED <<writes, latest>>

Next ==
  \/ \E k \in Keys : Put(k) \/ Delete(k)
  \/ \E s \in Snapshots : Take(s)
  \/ \E S \in SUBSET Snapshots : Release(S)

Spec == Init /\ [][Next]_vars
=============================================================================
