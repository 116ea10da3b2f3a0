----------------------------- MODULE MCLsmTree -----------------------------
(* Constants for checking LsmTree.                                          *)
EXTENDS LsmTree

\* Key 1 is written, overwritten and deleted; key 3 makes wide tables, and
\* tables with a gap between them in which key 2 comes.
MCWrites == << {<<1, "value">>, <<3, "value">>},
               {<<1, "value">>, <<1, "deletion">>, <<3, "value">>},
               {<<1, "value">>, <<1, "deletion">>, <<2, "value">>} >>

\* A value and its deletion in two tables of one level, because a snapshot lies
\* between them, and a table above that reaches the first of the two.
MCDeletionWrites == << {<<1, "value">>}, {<<2, "value">>},
                       {<<2, "deletion">>}, {<<1, "value">>} >>
=============================================================================
