------------------------- MODULE MC_CleanVersions -------------------------
(* Instances of CleanVersions for TLC. *)
EXTENDS CleanVersions, TLC

CONSTANTS q1, q2, s1, s2, k1, k2, k3

Symmetry == Permutations(Requests) \union Permutations(Sections) \union Permutations(Keys)
=============================================================================
