--------------------------- MODULE MC_RowRouter ----------------------------
(* Model-checking instance of RowRouter: two values, three oids for each  *)
(* (enough for an initial partition and every re-creation after the      *)
(* drops MaxDDL allows), one or two PartitionFilter nodes.                *)
EXTENDS RowRouter, TLC

CONSTANTS n1, n2, a1, a2, a3, b1, b2, b3, v1, v2, f1, f2

MC_Parts == {a1, a2, a3, b1, b2, b3}
MC_Vals == {v1, v2}
MC_RangeOf == [c \in MC_Parts |-> IF c \in {a1, a2, a3} THEN v1 ELSE v2]
(* v1's partitions are heap tables; v2's are foreign, b3 through an FDW  *)
(* other than gogudb_fdw.                                                  *)
MC_PartFdw == [c \in MC_Parts |-> CASE c \in {a1, a2, a3} -> "none"
                                    [] c \in {b1, b2} -> "gogudb_fdw"
                                    [] OTHER -> "other_fdw"]
MC_OneNode == {n1}
MC_TwoNodes == {n1, n2}
MC_OneForeign == {f1}
MC_TwoForeign == {f1, f2}

(* Oids of the same range and FDW are interchangeable, and so are the     *)
(* nodes.                                                                  *)
MC_Symmetry == Permutations({a1, a2, a3}) \cup Permutations({b1, b2})
                 \cup Permutations(MC_TwoNodes)

=============================================================================
