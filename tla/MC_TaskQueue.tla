---------------------------- MODULE MC_TaskQueue ----------------------------
(* Instances of TaskQueue for TLC. *)
EXTENDS TaskQueue, TLC

CONSTANTS t1, t2, r1, r2, g1

\* A batch task t1, tried twice, with its child t2, tried once; both count against
\* the one slot of their group.
PairParent  == t1 :> NoTask @@ t2 :> t1
OneGroup    == [t \in Tasks |-> g1]
ParentTwice == t1 :> 2 @@ t2 :> 1

One     == [g \in Groups |-> 1]
OneTick == [t \in Tasks |-> 1]
=============================================================================
