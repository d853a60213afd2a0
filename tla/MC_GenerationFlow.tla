-------------------------- MODULE MC_GenerationFlow --------------------------
(* Instances of GenerationFlow. Two chunks and two runners, so that a child *)
(* may run beside its sibling or beside the parent; two batches, parallel   *)
(* or a batch and its retry.                                                *)
EXTENDS GenerationFlow, TLC

Symmetry == Permutations(Runners) \union Permutations(Requests) \union Permutations(Chunks)
==============================================================================
