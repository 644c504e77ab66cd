------------------------- MODULE MC_HashPartitions --------------------------
(* Model-checking instance of HashPartitions: one parent, a slot space of *)
(* four slots in place of 128, up to two servers and four partitions.     *)
EXTENDS HashPartitions, TLC

CONSTANTS q1

MC_Parents == {q1}
MC_HashVals == {0, 5, 7}

R(s, e) == [start |-> s, end |-> e]

(* Server maps: two that tile the slot space, one with a gap, one with an  *)
(* overlap, one that stops short of HASH_SLOT_SIZE.                        *)
MC_ServerMaps ==
  { <<R(0, 4)>>, <<R(0, 2), R(2, 4)>>,
    <<R(0, 1), R(2, 4)>>, <<R(0, 3), R(1, 4)>>, <<R(0, 2), R(2, 3)>> }

=============================================================================
