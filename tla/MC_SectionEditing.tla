-------------------------- MODULE MC_SectionEditing --------------------------
(* Instances of SectionEditing for TLC. *)
EXTENDS SectionEditing, TLC

CONSTANTS u1, u2, q1, q2

MixedOps == q1 :> {"acquire", "heartbeat", "release", "save", "submit"}
            @@ q2 :> {"save", "accept", "reject", "assign", "complete", "return"}
SubmitOps == [r \in Requests |-> {"acquire", "save", "submit"}]
AssignOps == [r \in Requests |-> {"acquire", "save", "assign"}]

\* What a request still has use for of the copy its session keeps.
Remembered(r) ==
  LET me == request[r]
  IN CASE me.op = "submit" -> <<me.seen.revision = me.expected, me.seen.status>>
       [] me.op \in {"accept", "reject"} -> <<me.seen.status>>
       [] me.op \in {"assign", "complete"} -> <<me.seen.assignment, me.seen.assignee>>
       [] me.op = "return" -> <<me.seen.assignment>>
       [] OTHER -> <<>>

\* States that differ only in what no step reads any more are one state for TLC: the
\* rest of that copy, who asks for a review, and the time left of a released lease.
View == <<section, history, lock,
          [l \in DOMAIN leases |-> IF leases[l].released THEN leases[l].user ELSE leases[l]],
          [r \in Requests |->
             <<[request[r] EXCEPT !.seen = NewSection,
                  !.user = IF request[r].op \in {"accept", "reject", "assign", "return"}
                           THEN NoUser ELSE @], Remembered(r)>>]>>
Symmetry == Permutations(Users)
=============================================================================
