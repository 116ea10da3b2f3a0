---------------------------- MODULE MCTableCache ----------------------------
(* Three tables in a cache of two entries, and two calls at a time.        *)
EXTENDS TableCache, TLC

Symmetry == Permutations(Files) \cup Permutations(Readers)
=============================================================================
