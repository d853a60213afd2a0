------------------------- MODULE MC_SchemaMigrations -------------------------
(* Instances of SchemaMigrations for TLC. *)
EXTENDS SchemaMigrations, TLC

CONSTANTS i1, i2, c1, c2, e1, a, b, o1, o2

(* Two containers, or exports and one container: compositions and exports  *)
(* are constrained apart, but for the source of an export.                 *)
Apart ==
  \/ Cardinality({c \in Containers : containers[c].status # "absent"}) <= 1
  \/ snapshot = <<>> /\ \A e \in Exports : export[e].status = "absent"

Symmetry == Permutations(Items) \union Permutations(Containers)
              \union Permutations(Contents) \union Permutations(Objects)
=============================================================================
