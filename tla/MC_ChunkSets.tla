---------------------------- MODULE MC_ChunkSets ----------------------------
(* Instances of ChunkSets for TLC. *)
EXTENDS ChunkSets, TLC

CONSTANTS r1, r2, q1, k1, k2

(* k1 is sent again with an explicit version, which is another request. *)
SomeAsks == {<<k1, 0>>, <<k1, 2>>, <<k2, 1>>}

Symmetry == Permutations(Runners)
=============================================================================
