----------------------------- MODULE MC_ExportSeal -----------------------------
(* Instances of ExportSeal.                                                   *)
EXTENDS ExportSeal, TLC

Symmetry == Permutations(Runners)
================================================================================
