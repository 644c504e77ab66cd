------------------------- MODULE MC_PartitionCache -------------------------
(* Model-checking instance of PartitionCache: two parents, two partitions, *)
(* two bounds.                                                             *)
EXTENDS PartitionCache, TLC

CONSTANTS p1, p2, c1, c2, b1, b2

MC_Parents == {p1, p2}
MC_Parts == {c1, c2}
MC_BoundVals == {b1, b2}

(* One parent, for the liveness run. *)
MC_OneParent == {p1}

(* One bound value, for the liveness run: no bound can go stale in the  *)
(* bounds cache across a reset.                                           *)
MC_OneBound == {b1}

(* Relations and bounds are interchangeable model values. *)
MC_Symmetry == Permutations(MC_Parents) \cup Permutations(MC_Parts)
                 \cup Permutations(MC_BoundVals)

=============================================================================
