---------------------------- MODULE MCWriteQueue ----------------------------
(***************************************************************************)
(* Instances of WriteQueue for TLC: four calls with batches of one, two,   *)
(* one and no updates and one call without a batch, with the limits scaled *)
(* down so that a group takes some of the waiting batches and not others,  *)
(* and a memtable that is full after two updates.                          *)
(***************************************************************************)
EXTENDS WriteQueue, TLC

CONSTANTS a, b, c, d, f

MCWriters == {a, b, c, d, f}
MCForced  == {f}
MCCount   == (a :> 1 @@ b :> 2 @@ c :> 1 @@ d :> 0 @@ f :> 0)
=============================================================================
