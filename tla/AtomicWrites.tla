---------------------------- MODULE AtomicWrites ----------------------------
(***************************************************************************)
(* What write() promises to its callers.  Calls take effect in the order   *)
(* in which they were made; several may take effect in one step, never one *)
(* in part; a call is acknowledged only after it took effect, or after the *)
(* database gave up on background work and dropped it; and once a call was *)
(* rejected nothing takes effect any more.                                 *)
(***************************************************************************)
EXTENDS Integers, Sequences

CONSTANTS
  Calls,    \* the calls of write(), each made once
  NoBatch   \* those that have nothing to apply

VARIABLES
  called,    \* the calls that were made
  waiting,   \* those that are not finished, in the order they were made
  applied,   \* those whose updates are visible
  lost,      \* those that were acknowledged without being applied
  acked,     \* those whose promise resolved
  failed     \* those whose promise was rejected

vars == <<called, waiting, applied, lost, acked, failed>>

Init ==
  /\ called = {}
  /\ waiting = <<>>
  /\ applied = {}
  /\ lost = {}
  /\ acked = {}
  /\ failed = {}

\* A call is made: it waits behind those made before.
Submit(w) ==
  /\ w \notin called
  /\ called' = called \cup {w}
  /\ waiting' = Append(waiting, w)
  /\ UNCHANGED <<applied, lost, acked, failed>>

\* The first n calls take effect together, and the first is acknowledged.
Apply(n) ==
  /\ failed = {}
  /\ applied' = applied \cup ({waiting[i] : i \in 1..n} \ NoBatch)
  /\ acked' = acked \cup {waiting[1]}
  /\ waiting' = SubSeq(waiting, n + 1, Len(waiting))
  /\ UNCHANGED <<called, lost, failed>>

\* The first call is acknowledged and has no effect.
Lose ==
  /\ failed = {} /\ waiting # <<>>
  /\ lost' = lost \cup ({waiting[1]} \ NoBatch)
  /\ acked' = acked \cup {waiting[1]}
  /\ waiting' = SubSeq(waiting, 2, Len(waiting))
  /\ UNCHANGED <<called, applied, failed>>

\* A call that took effect with an earlier one is acknowledged.
Ack(w) ==
  /\ w \in called \ acked
  /\ \A i \in 1..Len(waiting) : waiting[i] # w
  /\ w \in applied \cup NoBatch
  /\ acked' = acked \cup {w}
  /\ UNCHANGED <<called, waiting, applied, lost, failed>>

\* The first call is rejected.
Reject ==
  /\ failed = {} /\ waiting # <<>>
  /\ failed' = {waiting[1]}
  /\ UNCHANGED <<called, waiting, applied, lost, acked>>

Next ==
  \/ \E w \in Calls : Submit(w) \/ Ack(w)
  \/ \E n \in 1..Len(waiting) : Apply(n)
  \/ Lose
  \/ Reject

Spec == Init /\ [][Next]_vars
=============================================================================
