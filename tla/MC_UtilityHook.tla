--------------------------- MODULE MC_UtilityHook ---------------------------
(* One rule table p1 with two foreign-table partitions, one foreign table  *)
(* f1 that inherits from nothing, one ordinary table t1, a name t2 no     *)
(* relation has yet, one index name i1, and two keys k1, k2.              *)
EXTENDS UtilityHook, TLC

CONSTANTS p1, c1, c2, f1, t1, t2, i1, k1, k2

MC_Kids == [p \in {p1} |-> {c1, c2}]

(* Key k1 falls in c1's range, k2 in c2's.                                 *)
MC_KeyPart == (k1 :> c1) @@ (k2 :> c2)

(* ALTER command lists whose commands all pass the guard loop.             *)
MC_CheckedLists == {<<"column">>, <<"column", "options">>}

(* Adds a list whose first command is OPTIONS.                             *)
MC_AllLists == MC_CheckedLists \cup {<<"options", "column">>}

=============================================================================
