------------------------------ MODULE MC_Curation ------------------------------
(* Instances of Curation.                                                     *)
EXTENDS Curation, TLC

Symmetry == Permutations(Candidates) \union Permutations(Requests)
================================================================================
