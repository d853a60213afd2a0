---------------------------- MODULE MC_DocumentJobs ----------------------------
(* Instances of DocumentJobs.                                                 *)
EXTENDS DocumentJobs, TLC

Symmetry == Permutations(Runners)

\* What the next steps and the invariants can tell apart: nothing but itself reads
\* the status that a document shows, and nothing reads a row that is gone, its
\* objects or a profile that no later parse can use.
ShownDoc == [doc EXCEPT !.status = IF HasDoc THEN "uploaded" ELSE @]
RowsLeft == [j \in Jobs |-> IF Exists(j) THEN jobs[j] ELSE None]
ObjectsLeft ==
  {o \in store : IF o.key = PdfKey THEN doc.status # "deleted" ELSE Exists(o.key.job)}
CurrentProfile == IF Len(jobs) < MaxJobs THEN profile ELSE None

View == <<ShownDoc, RowsLeft, tasks, CurrentProfile, ObjectsLeft, deletion,
          [r \in Runners |-> <<worker[r].pc, worker[r].task>>],
          [t \in Tasks |-> IF closing[t] = None THEN None ELSE closing[t].status]>>
================================================================================
