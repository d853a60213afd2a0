------------------------ MODULE GenerationFlowProofs ------------------------
(***************************************************************************)
(* Proofs about GenerationFlow for any number of chunks, runners, requests *)
(* and batches. FlowInv is inductive; every property of the module but its *)
(* violated ones follows from it or from one step under it.                *)
(***************************************************************************)
EXTENDS GenerationFlow, FiniteSetTheorems, SequenceTheorems, TLAPS

Numbers == 1..MaxBatches
Statuses == {"absent"} \union Live \union Ended

(* What a run shows of the status of its task.                             *)
RunOf(status) == IF status \in Live THEN "queued"
                 ELSE IF status = "absent" THEN "none" ELSE status

(* The rows of the children: a run is settled together with its task, only *)
(* a live task is being ended, and exactly the chunks asked for have rows. *)
JobsAgree(b) ==
  /\ \A c \in Chunks : /\ runs[b][c] = RunOf(tasks[b][c].status)
                       /\ ending[b][c] # "no" => tasks[b][c].status \in Live
  /\ b \notin Batches => \A p \in Parts : tasks[b][p].status = "absent"
  /\ b \in Batches => \A c \in Chunks :
       c \in batches[b].chunks <=> tasks[b][c].status # "absent"

(* The batch is open exactly as long as its own task is live.              *)
HeadAgrees(b) ==
  IF tasks[b][Parent].status \in Live THEN Open(b)
  ELSE batches[b].status = tasks[b][Parent].status

Counted(b) == batches[b].status \in {"pending", "processing", "completed"} =>
                batches[b].done = Cardinality(Succeeded(b))
Whole(b) == batches[b].status = "completed" => Succeeded(b) = batches[b].chunks
Summed(b) == batches[b].summary.known =>
               batches[b].summary.listed = Succeeded(b) /\ Settled(runs[b])

(* No child of a batch that is told to stop waits or runs freely.          *)
Stopped(b) == tasks[b][Parent].status \in {"cancelling", "cancelled"} =>
                \A c \in Chunks : tasks[b][c].status \notin {"queued", "processing"}

BatchFits(b) == HeadAgrees(b) /\ Counted(b) /\ Whole(b) /\ Summed(b) /\ Stopped(b)

(* A batch that was retried has come to rest, and its retry has only       *)
(* chunks that did not succeed there.                                      *)
Retried(n) == Before(n) # 0 =>
  /\ Before(n) \in Batches /\ AllTasksEnded(Before(n))
  /\ batches[n].chunks \subseteq batches[Before(n)].chunks \ Succeeded(Before(n))

TablesFit ==
  /\ batches \in Seq(Batch) /\ Len(batches) <= MaxBatches
  /\ runs \in [Numbers -> [Chunks -> RunStatus]]
  /\ tasks \in [Numbers -> [Parts -> Task]]
  /\ ending \in [Numbers -> [Chunks -> {"no", "failed", "cancelled"}]]

OneInside ==
  \A q, r \in Runners :
    (worker[q].pc = "working" /\ worker[r].pc = "working"
       /\ worker[q].job[2] = worker[r].job[2]) => q = r

HandsFit ==
  /\ worker \in [Runners -> Worker]
  /\ request \in [Requests -> Request]
  /\ OneInside
  /\ \A r \in Runners :
       /\ worker[r].pc = "working" => worker[r].job \in Batches \X Chunks
       /\ worker[r].pc = "polled" => worker[r].job \in Batches \X {Parent}

FlowInv ==
  /\ TablesFit /\ HandsFit
  /\ \A b \in Numbers : JobsAgree(b)
  /\ \A b \in Batches : BatchFits(b) /\ Retried(b)
-----------------------------------------------------------------------------
(* Tables.                                                                 *)

LEMMA NumbersOf ==
  ASSUME TablesFit
  PROVE  /\ Len(batches) \in Nat /\ Batches \subseteq Numbers /\ MaxBatches \in Nat
         /\ \A b \in Batches : batches[b] \in Batch
<1>1. Len(batches) \in Nat /\ MaxBatches \in Nat
  BY GenerationAssumption, LenProperties DEF TablesFit, GenerationAssumption
<1>2. \A b \in 1..Len(batches) : batches[b] \in Batch
  BY ElementOfSeq DEF TablesFit
<1>3. Batches \subseteq Numbers
  BY <1>1 DEF TablesFit, Batches, Numbers
<1> QED
  BY <1>1, <1>2, <1>3 DEF Batches

(* One cell of a table of tables.                                          *)
LEMMA SetCell ==
  ASSUME NEW I, NEW J, NEW V, NEW f \in [I -> [J -> V]], NEW b \in I, NEW p \in J,
         NEW x \in V, NEW g, g = [f EXCEPT ![b][p] = x]
  PROVE  /\ g \in [I -> [J -> V]]
         /\ g[b][p] = x
         /\ \A q \in J \ {p} : g[b][q] = f[b][q]
         /\ \A a \in I \ {b} : g[a] = f[a]
OBVIOUS

LEMMA SetRow ==
  ASSUME NEW I, NEW V, NEW f \in [I -> V], NEW b \in I, NEW x \in V, NEW g,
         g = [f EXCEPT ![b] = x]
  PROVE  g \in [I -> V] /\ g[b] = x /\ \A a \in I \ {b} : g[a] = f[a]
OBVIOUS

LEMMA ChildIsNotParent ==
  ASSUME NEW c \in Chunks
  PROVE  c # Parent /\ c \in Parts /\ Parent \in Parts
BY GenerationAssumption DEF GenerationAssumption, Parts

LEMMA SubsetsCounted ==
  ASSUME NEW S \in SUBSET Chunks
  PROVE  IsFiniteSet(S) /\ Cardinality(S) \in Nat
BY GenerationAssumption, FS_Subset, FS_CardinalityType DEF GenerationAssumption

LEMMA StatusTypes ==
  /\ \A x \in Task : x.status \in Statuses
  /\ \A status \in Statuses : Moved(status) \in Task /\ Moved(status).status = status
  /\ Queued = Moved("queued") /\ Absent = Moved("absent")
  /\ \A status \in Statuses : RunOf(status) \in RunStatus
  /\ "absent" \notin Live \union Ended /\ Live \intersect Ended = {}
BY DEF Task, Statuses, Moved, Queued, Absent, RunOf, RunStatus, Live, Ended, Nobody

(* What the hook of a batch leaves behind.                                 *)
LEMMA Hooked ==
  ASSUME NEW batch \in Batch, NEW status \in {"failed", "cancelled"},
         NEW seen \in SUBSET Chunks, NEW settled \in BOOLEAN,
         batch.status \in {"pending", "processing", status}
  PROVE  LET after == BatchHook(batch, status, seen, settled)
         IN /\ after \in Batch
            /\ after.chunks = batch.chunks /\ after.retryOf = batch.retryOf
            /\ after.status = status
            /\ after.summary.known => settled /\ after.summary.listed = seen
<1> DEFINE summary == IF settled THEN [known |-> TRUE, listed |-> seen,
                                       succeeded |-> Cardinality(seen)]
                      ELSE NoSummary
<1>1. Cardinality(seen) \in Nat
  BY SubsetsCounted
<1>2. /\ summary \in Summary
      /\ summary.known => settled /\ summary.listed = seen
  BY <1>1 DEF Summary, NoSummary
<1>3. BatchHook(batch, status, seen, settled) =
        [batch EXCEPT !.status = status, !.done = Cardinality(seen), !.summary = summary]
  BY DEF BatchHook, Summarised
<1> HIDE DEF summary
<1> QED
  BY <1>1, <1>2, <1>3 DEF Batch, Ended
-----------------------------------------------------------------------------
(* Slots and requests.                                                     *)

LEMMA HandsRest ==
  ASSUME HandsFit, Len(batches') = Len(batches), UNCHANGED <<worker, request>>
  PROVE  HandsFit'
BY DEF HandsFit, OneInside, Batches

LEMMA SlotStops ==
  ASSUME HandsFit, Len(batches') = Len(batches), UNCHANGED request,
         NEW r \in Runners, Stops(r)
  PROVE  HandsFit'
<1>1. /\ Free \in Worker /\ Free.pc = "idle"
      /\ worker' = [worker EXCEPT ![r] = Free] /\ worker \in [Runners -> Worker]
  BY DEF Free, Worker, Stops, HandsFit
<1>2. /\ worker' \in [Runners -> Worker] /\ worker'[r].pc = "idle"
      /\ \A q \in Runners \ {r} : worker'[q] = worker[q]
  BY <1>1
<1>3. OneInside'
  BY <1>2 DEF HandsFit, OneInside
<1> QED
  BY <1>2, <1>3 DEF HandsFit, Batches

(* An attempt enters a chunk that nobody is inside of.                     *)
LEMMA SlotClaims ==
  ASSUME TablesFit, HandsFit, UNCHANGED <<batches, request>>, NEW r \in Runners,
         NEW b \in Batches, NEW p \in Parts, NEW pc, NEW seen \in Nat,
         Claims(r, b, p, pc, seen),
         \/ pc = "working" /\ p \in Chunks /\ ChunkFree(p)
         \/ pc = "polled" /\ p = Parent
  PROVE  HandsFit'
<1> DEFINE slot == [pc |-> pc, job |-> <<b, p>>, seen |-> seen]
<1>1. b \in Numbers
  BY NumbersOf
<1>2. /\ slot \in Worker /\ slot.pc = pc /\ slot.job = <<b, p>> /\ slot.job[2] = p
  BY <1>1 DEF Worker, Jobs, Numbers
<1>3. worker' = [worker EXCEPT ![r] = slot] /\ worker \in [Runners -> Worker]
  BY DEF Claims, HandsFit
<1> HIDE DEF slot
<1>4. /\ worker' \in [Runners -> Worker] /\ worker'[r] = slot
      /\ \A q \in Runners \ {r} : worker'[q] = worker[q]
  BY <1>2, <1>3
<1>5. OneInside'
  <2> SUFFICES ASSUME NEW q \in Runners, NEW s \in Runners,
                      worker'[q].pc = "working", worker'[s].pc = "working",
                      worker'[q].job[2] = worker'[s].job[2]
               PROVE  q = s
    BY DEF OneInside
  <2>1. CASE q # r /\ s # r
    BY <1>4, <2>1 DEF HandsFit, OneInside
  <2>2. CASE q = r /\ s # r
    BY <1>2, <1>4, <2>2 DEF ChunkFree
  <2>3. CASE q # r /\ s = r
    BY <1>2, <1>4, <2>3 DEF ChunkFree
  <2> QED
    BY <2>1, <2>2, <2>3
<1>6. ASSUME NEW q \in Runners
      PROVE  /\ worker'[q].pc = "working" => worker'[q].job \in Batches \X Chunks
             /\ worker'[q].pc = "polled" => worker'[q].job \in Batches \X {Parent}
  <2>1. /\ pc = "working" => <<b, p>> \in Batches \X Chunks
        /\ pc = "polled" => <<b, p>> \in Batches \X {Parent}
    OBVIOUS
  <2>2. CASE q = r
    BY <1>2, <1>4, <2>1, <2>2
  <2>3. CASE q # r
    BY <1>4, <2>3 DEF HandsFit
  <2> QED
    BY <2>2, <2>3
<1>7. Batches' = Batches /\ request' = request
  BY DEF Batches
<1> QED
  BY <1>4, <1>5, <1>6, <1>7 DEF HandsFit

(* What a runner that is not idle works on.                                *)
LEMMA JobOf ==
  ASSUME HandsFit, NEW r \in Runners, worker[r].pc # "idle"
  PROVE  /\ worker[r].job[1] \in Batches /\ worker[r].job[2] \in Parts
         /\ worker[r].pc = "working" => worker[r].job[2] \in Chunks
         /\ worker[r].pc = "polled" => worker[r].job[2] = Parent
         /\ worker[r].seen \in Nat
BY DEF HandsFit, Worker, Parts
-----------------------------------------------------------------------------
(* Steps on one batch: the others and its order stay as they are, and what *)
(* has ended stays ended.                                                  *)
OnlyBatch(b) ==
  /\ Len(batches') = Len(batches)
  /\ \A a \in Numbers \ {b} : /\ tasks'[a] = tasks[a] /\ runs'[a] = runs[a]
                              /\ ending'[a] = ending[a]
  /\ \A a \in Batches \ {b} : batches'[a] = batches[a]
  /\ batches'[b].chunks = batches[b].chunks /\ batches'[b].retryOf = batches[b].retryOf

EndedStay(b) ==
  \A p \in Parts : tasks[b][p].status \notin Live =>
                     tasks'[b][p].status = tasks[b][p].status

(* A batch whose tasks have all ended keeps its candidates.                *)
LEMMA RestingKeeps ==
  ASSUME FlowInv, NEW m \in Numbers, AllTasksEnded(m), EndedStay(m), JobsAgree(m)'
  PROVE  AllTasksEnded(m)' /\ Succeeded(m)' = Succeeded(m)
<1>1. \A p \in Parts : tasks'[m][p].status = tasks[m][p].status
  BY DEF AllTasksEnded, EndedStay
<1>2. \A c \in Chunks : runs'[m][c] = runs[m][c]
  BY <1>1, ChildIsNotParent DEF FlowInv, JobsAgree
<1> QED
  BY <1>1, <1>2 DEF AllTasksEnded, Succeeded

LEMMA Recomposed ==
  ASSUME FlowInv, TablesFit', HandsFit', NEW b \in Batches,
         OnlyBatch(b), EndedStay(b), JobsAgree(b)', BatchFits(b)'
  PROVE  FlowInv'
<1>1. Batches' = Batches /\ Batches \subseteq Numbers
  BY NumbersOf DEF OnlyBatch, Batches, FlowInv
<1>2. ASSUME NEW a \in Numbers PROVE JobsAgree(a)' /\ EndedStay(a)
  <2>1. CASE a # b
    <3>1. /\ tasks'[a] = tasks[a] /\ runs'[a] = runs[a] /\ ending'[a] = ending[a]
          /\ a \in Batches => batches'[a] = batches[a]
      BY <2>1 DEF OnlyBatch
    <3>2. JobsAgree(a)
      BY DEF FlowInv
    <3> QED
      BY <1>1, <3>1, <3>2 DEF JobsAgree, EndedStay
  <2> QED
    BY <2>1
<1>3. ASSUME NEW a \in Batches PROVE BatchFits(a)'
  <2>1. CASE a # b
    <3>1. tasks'[a] = tasks[a] /\ runs'[a] = runs[a] /\ batches'[a] = batches[a]
      BY <1>1, <2>1 DEF OnlyBatch
    <3>2. Succeeded(a)' = Succeeded(a)
      BY <3>1 DEF Succeeded
    <3>3. BatchFits(a)
      BY DEF FlowInv
    <3> QED
      BY <3>1, <3>2, <3>3
      DEF BatchFits, HeadAgrees, Counted, Whole, Summed, Stopped, Open
  <2> QED
    BY <2>1
<1>4. ASSUME NEW n \in Batches PROVE Retried(n)'
  <2>1. /\ \A a \in Batches : /\ batches'[a].chunks = batches[a].chunks
                              /\ batches'[a].retryOf = batches[a].retryOf
    BY DEF OnlyBatch
  <2>2. CASE batches[n].retryOf # 0
    <3>1. PICK m \in Batches :
            /\ m = batches[n].retryOf /\ AllTasksEnded(m)
            /\ batches[n].chunks \subseteq batches[m].chunks \ Succeeded(m)
      BY <2>2 DEF FlowInv, Retried, Before
    <3>2. AllTasksEnded(m)' /\ Succeeded(m)' = Succeeded(m)
      BY <1>1, <1>2, <3>1, RestingKeeps
    <3>3. batches'[n].retryOf = m /\ batches'[n].chunks \subseteq batches'[m].chunks \ Succeeded(m)'
      BY <2>1, <3>1, <3>2
    <3> QED
      BY <1>1, <3>2, <3>3 DEF Retried, Before, AllTasksEnded, Succeeded
  <2>3. CASE batches[n].retryOf = 0
    BY <2>1, <2>3 DEF Retried, Before
  <2> QED
    BY <2>2, <2>3
<1> QED
  BY <1>1, <1>2, <1>3, <1>4 DEF FlowInv
-----------------------------------------------------------------------------
(* The task of one child moves, and its run with it.                       *)
ChildMoves(b, c) ==
  /\ OnlyBatch(b)
  /\ tasks[b][c].status \in Live
  /\ tasks'[b][c].status \in Live \union Ended
  /\ \A p \in Parts \ {c} : tasks'[b][p] = tasks[b][p]
  /\ runs'[b][c] = RunOf(tasks'[b][c].status)
  /\ ending'[b][c] # "no" => tasks'[b][c].status \in Live
  /\ \A d \in Chunks \ {c} : runs'[b][d] = runs[b][d] /\ ending'[b][d] = ending[b][d]
  /\ tasks[b][Parent].status \in {"cancelling", "cancelled"} =>
       tasks'[b][c].status \notin {"queued", "processing"}

LEMMA ChildMoved ==
  ASSUME FlowInv, NEW b \in Batches, NEW c \in Chunks, ChildMoves(b, c)
  PROVE  /\ JobsAgree(b)' /\ EndedStay(b) /\ Stopped(b)'
         /\ c \in batches[b].chunks \ Succeeded(b) /\ Succeeded(b) \subseteq batches[b].chunks
         /\ Succeeded(b)' = IF tasks'[b][c].status = "completed" THEN Succeeded(b) \union {c}
                            ELSE Succeeded(b)
         /\ ~batches[b].summary.known
<1>1. /\ b \in Numbers /\ Batches' = Batches /\ c # Parent /\ c \in Parts /\ Parent \in Parts
      /\ batches'[b].chunks = batches[b].chunks
  BY NumbersOf, ChildIsNotParent DEF FlowInv, ChildMoves, OnlyBatch, Batches
<1>2. JobsAgree(b) /\ BatchFits(b)
  BY <1>1 DEF FlowInv
<1>3. EndedStay(b)
  BY DEF EndedStay, ChildMoves
<1>4. JobsAgree(b)'
  <2>1. ASSUME NEW d \in Chunks
        PROVE  /\ runs'[b][d] = RunOf(tasks'[b][d].status)
               /\ ending'[b][d] # "no" => tasks'[b][d].status \in Live
               /\ d \in batches'[b].chunks <=> tasks'[b][d].status # "absent"
    <3>1. CASE d = c
      BY <1>1, <1>2, <3>1 DEF ChildMoves, JobsAgree, Live, Ended
    <3>2. CASE d # c
      BY <1>1, <1>2, <3>2, ChildIsNotParent DEF ChildMoves, JobsAgree
    <3> QED
      BY <3>1, <3>2
  <2> QED
    BY <1>1, <2>1 DEF JobsAgree
<1>5. Stopped(b)'
  <2>1. tasks'[b][Parent] = tasks[b][Parent]
    BY <1>1 DEF ChildMoves
  <2>2. ASSUME NEW d \in Chunks, tasks[b][Parent].status \in {"cancelling", "cancelled"}
        PROVE  tasks'[b][d].status \notin {"queued", "processing"}
    <3>1. CASE d = c
      BY <2>2, <3>1 DEF ChildMoves
    <3>2. CASE d # c
      BY <1>2, <2>2, <3>2, ChildIsNotParent DEF ChildMoves, BatchFits, Stopped
    <3> QED
      BY <3>1, <3>2
  <2> QED
    BY <2>1, <2>2 DEF Stopped
<1>6. runs[b][c] = "queued" /\ tasks[b][c].status # "absent"
  BY <1>2 DEF JobsAgree, ChildMoves, RunOf, Live
<1>7. Succeeded(b) \subseteq batches[b].chunks
  BY <1>2 DEF Succeeded, JobsAgree, RunOf
<1>8. c \in batches[b].chunks \ Succeeded(b)
  BY <1>2, <1>6 DEF Succeeded, JobsAgree
<1>9. Succeeded(b)' = IF tasks'[b][c].status = "completed" THEN Succeeded(b) \union {c}
                      ELSE Succeeded(b)
  <2>1. runs'[b][c] = "completed" <=> tasks'[b][c].status = "completed"
    BY DEF ChildMoves, RunOf, Live, Ended
  <2> QED
    BY <1>6, <2>1 DEF Succeeded, ChildMoves
<1>10. ~batches[b].summary.known
  BY <1>2, <1>6 DEF BatchFits, Summed, Settled
<1> QED
  BY <1>3, <1>4, <1>5, <1>7, <1>8, <1>9, <1>10

(* A child moves without a success and its batch is left alone.            *)
LEMMA ChildKept ==
  ASSUME FlowInv, NEW b \in Batches, NEW c \in Chunks, ChildMoves(b, c),
         batches' = batches, tasks'[b][c].status # "completed",
         TablesFit', HandsFit'
  PROVE  FlowInv'
<1>1. /\ JobsAgree(b)' /\ EndedStay(b) /\ Stopped(b)' /\ OnlyBatch(b)
      /\ Succeeded(b)' = Succeeded(b) /\ ~batches[b].summary.known
  BY ChildMoved DEF ChildMoves
<1>2. /\ tasks'[b][Parent] = tasks[b][Parent] /\ BatchFits(b)
  BY ChildIsNotParent DEF ChildMoves, FlowInv
<1>3. BatchFits(b)'
  BY <1>1, <1>2 DEF BatchFits, HeadAgrees, Counted, Whole, Summed, Open
<1> QED
  BY <1>1, <1>3, Recomposed

(* The task of the batch moves.                                            *)
ParentMoves(b) ==
  /\ OnlyBatch(b)
  /\ tasks[b][Parent].status \in Live
  /\ \A p \in Parts \ {Parent} : tasks'[b][p] = tasks[b][p]
  /\ runs' = runs /\ ending' = ending
  /\ tasks'[b][Parent].status \in {"cancelling", "cancelled"} =>
       tasks[b][Parent].status \in {"cancelling", "cancelled"}

LEMMA ParentMoved ==
  ASSUME FlowInv, NEW b \in Batches, ParentMoves(b)
  PROVE  /\ JobsAgree(b)' /\ EndedStay(b) /\ Stopped(b)' /\ Open(b)
         /\ Succeeded(b)' = Succeeded(b)
<1>1. /\ b \in Numbers /\ Batches' = Batches
      /\ \A c \in Chunks : tasks'[b][c] = tasks[b][c] /\ c \in Parts
      /\ batches'[b].chunks = batches[b].chunks
  BY NumbersOf, ChildIsNotParent DEF FlowInv, ParentMoves, OnlyBatch, Batches
<1>2. JobsAgree(b) /\ BatchFits(b)
  BY <1>1 DEF FlowInv
<1>3. EndedStay(b) /\ Open(b)
  BY <1>2 DEF EndedStay, ParentMoves, BatchFits, HeadAgrees
<1>4. JobsAgree(b)'
  BY <1>1, <1>2 DEF JobsAgree, ParentMoves
<1>5. Stopped(b)'
  BY <1>1, <1>2 DEF Stopped, BatchFits, ParentMoves
<1>6. Succeeded(b)' = Succeeded(b)
  BY DEF Succeeded, ParentMoves
<1> QED
  BY <1>3, <1>4, <1>5, <1>6
-----------------------------------------------------------------------------
(* One task is written; the runs and endings stay or are written with it.  *)

LEMMA TaskWritten ==
  ASSUME TablesFit, NEW b \in Batches, NEW p \in Parts, NEW x \in Task,
         tasks' = [tasks EXCEPT ![b][p] = x]
  PROVE  /\ tasks' \in [Numbers -> [Parts -> Task]]
         /\ tasks'[b][p] = x
         /\ \A q \in Parts \ {p} : tasks'[b][q] = tasks[b][q]
         /\ \A a \in Numbers \ {b} : tasks'[a] = tasks[a]
<1>1. b \in Numbers /\ tasks \in [Numbers -> [Parts -> Task]]
  BY NumbersOf DEF TablesFit
<1> QED
  BY <1>1, SetCell

LEMMA TaskMoved ==
  ASSUME TablesFit, NEW b \in Batches, NEW p \in Parts, NEW status \in Statuses,
         Moves(b, p, status)
  PROVE  /\ tasks' \in [Numbers -> [Parts -> Task]]
         /\ tasks'[b][p].status = status
         /\ \A q \in Parts \ {p} : tasks'[b][q] = tasks[b][q]
         /\ \A a \in Numbers \ {b} : tasks'[a] = tasks[a]
<1>1. PICK x \in Task : x = Moved(status) /\ x.status = status
  BY StatusTypes
<1>2. tasks' = [tasks EXCEPT ![b][p] = x]
  BY <1>1 DEF Moves
<1>3. /\ tasks' \in [Numbers -> [Parts -> Task]]
      /\ tasks'[b][p] = x
      /\ \A q \in Parts \ {p} : tasks'[b][q] = tasks[b][q]
      /\ \A a \in Numbers \ {b} : tasks'[a] = tasks[a]
  BY <1>2, TaskWritten
<1> QED
  BY <1>1, <1>3

LEMMA BatchWritten ==
  ASSUME TablesFit, NEW b \in Batches, NEW x \in Batch,
         batches' = [batches EXCEPT ![b] = x]
  PROVE  /\ batches' \in Seq(Batch) /\ Len(batches') = Len(batches)
         /\ batches'[b] = x
         /\ \A a \in Batches \ {b} : batches'[a] = batches[a]
<1>1. batches \in Seq(Batch) /\ b \in 1..Len(batches)
  BY DEF TablesFit, Batches
<1>2. /\ [batches EXCEPT ![b] = x] \in Seq(Batch)
      /\ Len([batches EXCEPT ![b] = x]) = Len(batches)
      /\ \A a \in 1..Len(batches) :
           [batches EXCEPT ![b] = x][a] = IF a = b THEN x ELSE batches[a]
  BY <1>1, ExceptSeq
<1> QED
  BY <1>1, <1>2 DEF Batches

LEMMA RunWritten ==
  ASSUME TablesFit, NEW b \in Batches, NEW c \in Chunks, NEW x \in RunStatus,
         runs' = [runs EXCEPT ![b][c] = x]
  PROVE  /\ runs' \in [Numbers -> [Chunks -> RunStatus]]
         /\ runs'[b][c] = x
         /\ \A d \in Chunks \ {c} : runs'[b][d] = runs[b][d]
         /\ \A a \in Numbers \ {b} : runs'[a] = runs[a]
<1>1. b \in Numbers /\ runs \in [Numbers -> [Chunks -> RunStatus]]
  BY NumbersOf DEF TablesFit
<1> QED
  BY <1>1, SetCell

LEMMA EndingWritten ==
  ASSUME TablesFit, NEW b \in Batches, NEW c \in Chunks,
         NEW x \in {"no", "failed", "cancelled"},
         ending' = [ending EXCEPT ![b][c] = x]
  PROVE  /\ ending' \in [Numbers -> [Chunks -> {"no", "failed", "cancelled"}]]
         /\ ending'[b][c] = x
         /\ \A d \in Chunks \ {c} : ending'[b][d] = ending[b][d]
         /\ \A a \in Numbers \ {b} : ending'[a] = ending[a]
<1>1. /\ b \in Numbers
      /\ ending \in [Numbers -> [Chunks -> {"no", "failed", "cancelled"}]]
  BY NumbersOf DEF TablesFit
<1> QED
  BY <1>1, SetCell

(* The task of a live child is written; it stays live.                     *)
LEMMA ChildRewritten ==
  ASSUME FlowInv, HandsFit', NEW b \in Batches, NEW c \in Chunks, NEW x \in Task,
         tasks' = [tasks EXCEPT ![b][c] = x], UNCHANGED <<batches, runs, ending>>,
         tasks[b][c].status \in Live, x.status \in Live,
         tasks[b][Parent].status \in {"cancelling", "cancelled"} =>
           x.status \notin {"queued", "processing"}
  PROVE  FlowInv'
<1>1. /\ tasks' \in [Numbers -> [Parts -> Task]]
      /\ tasks'[b][c] = x
      /\ \A q \in Parts \ {c} : tasks'[b][q] = tasks[b][q]
      /\ \A a \in Numbers \ {b} : tasks'[a] = tasks[a]
  BY TaskWritten, ChildIsNotParent DEF FlowInv
<1>2. runs'[b][c] = RunOf(x.status)
  <2>1. JobsAgree(b)
    BY NumbersOf DEF FlowInv
  <2> QED
    BY <2>1 DEF JobsAgree, RunOf
<1>3. OnlyBatch(b)
  BY <1>1 DEF OnlyBatch
<1>4. ChildMoves(b, c)
  BY <1>1, <1>2, <1>3 DEF ChildMoves
<1>5. TablesFit'
  BY <1>1 DEF FlowInv, TablesFit
<1>6. x.status # "completed"
  BY DEF Live
<1> QED
  BY <1>1, <1>4, <1>5, <1>6, ChildKept

(* The task of the batch is written and stays live, the batch stays open.  *)
LEMMA ParentRewritten ==
  ASSUME FlowInv, HandsFit', NEW b \in Batches, NEW x \in Task,
         tasks' = [tasks EXCEPT ![b][Parent] = x], UNCHANGED <<runs, ending>>,
         NEW to \in {"pending", "processing"},
         batches' = [batches EXCEPT ![b] = [batches[b] EXCEPT !.status = to]],
         tasks[b][Parent].status \in Live,
         x.status \in {"queued", "processing"}
  PROVE  FlowInv'
<1>1. /\ tasks' \in [Numbers -> [Parts -> Task]]
      /\ tasks'[b][Parent] = x
      /\ \A q \in Parts \ {Parent} : tasks'[b][q] = tasks[b][q]
      /\ \A a \in Numbers \ {b} : tasks'[a] = tasks[a]
  BY TaskWritten DEF FlowInv, Parts
<1> DEFINE batch == [batches[b] EXCEPT !.status = to]
<1>2. /\ batch \in Batch
      /\ batch.chunks = batches[b].chunks /\ batch.retryOf = batches[b].retryOf
      /\ batch.status = to /\ batch.done = batches[b].done
      /\ batch.summary = batches[b].summary
  <2>1. batches[b] \in Batch
    BY NumbersOf DEF FlowInv
  <2> QED
    BY <2>1 DEF Batch
<1>3. batches' = [batches EXCEPT ![b] = batch]
  OBVIOUS
<1> HIDE DEF batch
<1>4. /\ batches' \in Seq(Batch) /\ Len(batches') = Len(batches)
      /\ batches'[b] = batch
      /\ \A a \in Batches \ {b} : batches'[a] = batches[a]
  BY <1>2, <1>3, BatchWritten DEF FlowInv
<1>5. OnlyBatch(b)
  BY <1>1, <1>2, <1>4 DEF OnlyBatch
<1>6. ParentMoves(b)
  BY <1>1, <1>5 DEF ParentMoves
<1>7. /\ JobsAgree(b)' /\ EndedStay(b) /\ Stopped(b)' /\ Open(b)
      /\ Succeeded(b)' = Succeeded(b)
  BY <1>6, ParentMoved
<1>8. BatchFits(b)'
  <2>1. BatchFits(b)
    BY DEF FlowInv
  <2>2. HeadAgrees(b)'
    BY <1>1, <1>2, <1>4 DEF HeadAgrees, Open, Live
  <2>3. Counted(b)' /\ Whole(b)'
    BY <1>2, <1>4, <1>7, <2>1 DEF BatchFits, Counted, Whole, Open
  <2>4. Summed(b)'
    BY <1>2, <1>4, <1>7, <2>1 DEF BatchFits, Summed, Settled
  <2> QED
    BY <1>7, <2>2, <2>3, <2>4 DEF BatchFits
<1>9. TablesFit'
  BY <1>1, <1>4 DEF FlowInv, TablesFit
<1> QED
  BY <1>5, <1>7, <1>8, <1>9, Recomposed

(* The batch row is not touched.                                           *)
LEMMA SameStatus ==
  ASSUME TablesFit, NEW b \in Batches
  PROVE  batches = [batches EXCEPT ![b] = [batches[b] EXCEPT !.status = batches[b].status]]
<1>1. batches[b] \in Batch /\ batches \in Seq(Batch)
  BY NumbersOf DEF TablesFit
<1>2. [batches[b] EXCEPT !.status = batches[b].status] = batches[b]
  BY <1>1 DEF Batch
<1> QED
  BY <1>1, <1>2

LEMMA ClaimsKeep ==
  ASSUME FlowInv, NEW r \in Runners, NEW b \in Batches, NEW p \in Parts, NEW pc,
         NEW seen \in Nat, Claims(r, b, p, pc, seen),
         \/ pc = "working" /\ p \in Chunks /\ ChunkFree(p)
         \/ pc = "polled" /\ p = Parent
  PROVE  FlowInv'
<1> DEFINE x == [status |-> "processing", owner |-> r]
<1>1. /\ tasks' = [tasks EXCEPT ![b][p] = x] /\ tasks[b][p].status = "queued"
      /\ UNCHANGED <<batches, runs, ending, request>>
  BY DEF Claims
<1>2. x \in Task /\ x.status = "processing"
  BY DEF Task, Live, Ended
<1>3. HandsFit'
  BY <1>1, SlotClaims DEF FlowInv
<1>4. BatchFits(b)
  BY DEF FlowInv
<1>5. CASE p = Parent
  <2>1. batches[b].status \in {"pending", "processing"}
    BY <1>1, <1>4, <1>5 DEF BatchFits, HeadAgrees, Open, Live
  <2>2. batches' = [batches EXCEPT ![b] = [batches[b] EXCEPT !.status = batches[b].status]]
    BY <1>1, SameStatus DEF FlowInv
  <2> HIDE DEF x
  <2> QED
    BY <1>1, <1>2, <1>3, <1>5, <2>1, <2>2, ParentRewritten DEF Live
<1>6. CASE p \in Chunks
  <2>1. tasks[b][Parent].status \notin {"cancelling", "cancelled"}
    BY <1>1, <1>4, <1>6 DEF BatchFits, Stopped
  <2> HIDE DEF x
  <2> QED
    BY <1>1, <1>2, <1>3, <1>6, <2>1, ChildRewritten DEF Live
<1> QED
  BY <1>5, <1>6

LEMMA RequeuesKeep ==
  ASSUME FlowInv, HandsFit', NEW b \in Batches, NEW p \in Parts, Requeues(b, p),
         tasks[b][p].status = "processing"
  PROVE  FlowInv'
<1> DEFINE x == Moved("queued")
<1>1. /\ tasks' = [tasks EXCEPT ![b][p] = x]
      /\ UNCHANGED <<batches, runs, ending>>
  BY DEF Requeues, Moves
<1>2. x \in Task /\ x.status = "queued"
  BY StatusTypes DEF Statuses, Live
<1>3. BatchFits(b)
  BY DEF FlowInv
<1> HIDE DEF x
<1>4. CASE p = Parent
  <2>1. batches[b].status \in {"pending", "processing"}
    BY <1>3, <1>4 DEF BatchFits, HeadAgrees, Open, Live
  <2>2. batches' = [batches EXCEPT ![b] = [batches[b] EXCEPT !.status = batches[b].status]]
    BY <1>1, SameStatus DEF FlowInv
  <2> QED
    BY <1>1, <1>2, <1>4, <2>1, <2>2, ParentRewritten DEF Live
<1>5. CASE p \in Chunks
  <2>1. tasks[b][Parent].status \notin {"cancelling", "cancelled"}
    BY <1>3, <1>5 DEF BatchFits, Stopped
  <2> QED
    BY <1>1, <1>2, <1>5, <2>1, ChildRewritten DEF Live
<1> QED
  BY <1>4, <1>5 DEF Parts

LEMMA PollAgainKeeps ==
  ASSUME FlowInv, NEW r \in Runners, PollAgain(r)
  PROVE  FlowInv'
<1>1. PICK b \in Batches : b = worker[r].job[1] /\ worker[r].job[2] = Parent
  BY JobOf DEF PollAgain, FlowInv
<1>2. /\ tasks' = [tasks EXCEPT ![b][Parent] = Moved("queued")]
      /\ batches' = [batches EXCEPT ![b].status = "processing"]
      /\ UNCHANGED <<runs, ending, request>> /\ Stops(r)
      /\ tasks[b][Parent].status = "processing"
  BY <1>1 DEF PollAgain, Moves, Owns, StatusOf
<1>3. Moved("queued") \in Task /\ Moved("queued").status = "queued"
  BY StatusTypes DEF Statuses, Live
<1>4. batches' = [batches EXCEPT ![b] = [batches[b] EXCEPT !.status = "processing"]]
  BY <1>2
<1>5. Len(batches') = Len(batches)
  <2>1. [batches[b] EXCEPT !.status = "processing"] \in Batch
    BY NumbersOf DEF FlowInv, Batch
  <2> QED
    BY <1>4, <2>1, BatchWritten DEF FlowInv
<1>6. HandsFit'
  BY <1>2, <1>5, SlotStops DEF FlowInv
<1> QED
  BY <1>2, <1>3, <1>4, <1>6, ParentRewritten DEF Live
-----------------------------------------------------------------------------
(* Success.                                                                *)

(* A child that publishes is counted while its batch is open; a batch that *)
(* is completed or cancelled has no child left that could.                 *)
LEMMA PublishKeeps ==
  ASSUME FlowInv, NEW r \in Runners, Publish(r)
  PROVE  FlowInv'
<1>1. PICK b \in Batches, c \in Chunks : b = worker[r].job[1] /\ c = worker[r].job[2]
  BY JobOf DEF Publish, FlowInv
<1> DEFINE done == IF Counts(b) THEN batches[b].done + 1 ELSE batches[b].done
<1>2. /\ Moves(b, c, "completed")
      /\ runs' = [runs EXCEPT ![b][c] = "completed"]
      /\ batches' = [batches EXCEPT ![b] = [batches[b] EXCEPT !.done = done]]
      /\ UNCHANGED <<ending, request>> /\ Stops(r) /\ ending[b][c] = "no"
      /\ tasks[b][c].status = "processing"
  BY <1>1 DEF Publish, Owns, StatusOf, RowFree
<1>3. PICK batch \in Batch :
        /\ batch = [batches[b] EXCEPT !.done = done]
        /\ batch.chunks = batches[b].chunks /\ batch.retryOf = batches[b].retryOf
        /\ batch.status = batches[b].status /\ batch.done = done
        /\ batch.summary = batches[b].summary
  <2>1. batches[b] \in Batch /\ done \in Nat
    BY NumbersOf DEF FlowInv, Batch
  <2> DEFINE x == [batches[b] EXCEPT !.done = done]
  <2> HIDE DEF done
  <2>2. /\ x \in Batch /\ x.chunks = batches[b].chunks /\ x.retryOf = batches[b].retryOf
        /\ x.status = batches[b].status /\ x.done = done /\ x.summary = batches[b].summary
    BY <2>1 DEF Batch
  <2> QED
    BY <2>2
<1>4. /\ batches' \in Seq(Batch) /\ Len(batches') = Len(batches)
      /\ batches'[b] = batch
      /\ \A a \in Batches \ {b} : batches'[a] = batches[a]
  BY <1>2, <1>3, BatchWritten DEF FlowInv
<1>5. TablesFit /\ "completed" \in Statuses /\ Parent \in Parts /\ Chunks \subseteq Parts
  BY DEF FlowInv, Statuses, Ended, Parts
<1>6. /\ tasks' \in [Numbers -> [Parts -> Task]]
      /\ tasks'[b][c].status = "completed"
      /\ \A q \in Parts \ {c} : tasks'[b][q] = tasks[b][q]
      /\ \A a \in Numbers \ {b} : tasks'[a] = tasks[a]
  BY <1>2, <1>5, TaskMoved
<1>7. /\ runs' \in [Numbers -> [Chunks -> RunStatus]]
      /\ runs'[b][c] = "completed"
      /\ \A d \in Chunks \ {c} : runs'[b][d] = runs[b][d]
      /\ \A a \in Numbers \ {b} : runs'[a] = runs[a]
  BY <1>2, RunWritten DEF FlowInv, RunStatus, Ended
<1>8. OnlyBatch(b)
  BY <1>2, <1>3, <1>4, <1>6, <1>7 DEF OnlyBatch
<1>9. ChildMoves(b, c)
  BY <1>2, <1>6, <1>7, <1>8 DEF ChildMoves, RunOf, Live, Ended
<1>10. /\ JobsAgree(b)' /\ EndedStay(b) /\ Stopped(b)'
       /\ c \in batches[b].chunks \ Succeeded(b) /\ Succeeded(b) \subseteq batches[b].chunks
       /\ Succeeded(b)' = Succeeded(b) \union {c}
       /\ ~batches[b].summary.known
  BY <1>6, <1>9, ChildMoved
<1>11. /\ BatchFits(b) /\ tasks'[b][Parent] = tasks[b][Parent]
       /\ batches[b].chunks \in SUBSET Chunks /\ batches[b].done \in Nat
  BY <1>6, ChildIsNotParent, NumbersOf DEF FlowInv, Batch
<1>12. HeadAgrees(b)' /\ Summed(b)'
  BY <1>3, <1>4, <1>10, <1>11 DEF BatchFits, HeadAgrees, Summed, Open
<1>13. batches[b].status # "completed"
  BY <1>10, <1>11 DEF BatchFits, Whole
<1>14. Whole(b)'
  BY <1>3, <1>4, <1>13 DEF Whole
<1>15. Counted(b)'
  <2>1. CASE Open(b)
    <3>1. /\ IsFiniteSet(batches[b].chunks) /\ Cardinality(batches[b].chunks) \in Nat
          /\ IsFiniteSet(Succeeded(b)) /\ Cardinality(Succeeded(b)) \in Nat
      BY <1>10, <1>11, SubsetsCounted
    <3>2. Cardinality(Succeeded(b) \union {c}) = Cardinality(Succeeded(b)) + 1
      BY <1>10, <3>1, FS_AddElement
    <3>3. /\ Cardinality(Succeeded(b)) <= Cardinality(batches[b].chunks)
          /\ Cardinality(Succeeded(b)) # Cardinality(batches[b].chunks)
      BY <1>10, <3>1, FS_Subset
    <3>4. batches[b].done = Cardinality(Succeeded(b))
      BY <1>11, <2>1 DEF BatchFits, Counted, Open
    <3>5. Counts(b)
      BY <2>1, <3>1, <3>3, <3>4 DEF Counts
    <3>6. batches'[b].done = Cardinality(Succeeded(b)')
      BY <1>3, <1>4, <1>10, <3>2, <3>4, <3>5
    <3> QED
      BY <3>6 DEF Counted
  <2>2. CASE ~Open(b)
    BY <1>3, <1>4, <1>13, <2>2 DEF Counted, Open
  <2> QED
    BY <2>1, <2>2
<1>16. HandsFit'
  BY <1>2, <1>4, SlotStops DEF FlowInv
<1>17. TablesFit'
  BY <1>2, <1>4, <1>6, <1>7 DEF FlowInv, TablesFit
<1> QED
  BY <1>8, <1>10, <1>12, <1>14, <1>15, <1>16, <1>17, Recomposed DEF BatchFits

(* The batch is completed when every child is: its counter is right, every *)
(* run has ended and the list is read in this moment.                      *)
LEMMA FinishBatchKeeps ==
  ASSUME FlowInv, NEW r \in Runners, FinishBatch(r)
  PROVE  FlowInv'
<1>1. PICK b \in Batches : b = worker[r].job[1] /\ worker[r].job[2] = Parent
  BY JobOf DEF FinishBatch, FlowInv
<1> DEFINE summary == [known |-> TRUE, listed |-> Succeeded(b), succeeded |-> worker[r].seen]
<1>2. /\ Moves(b, Parent, "completed")
      /\ batches' = [batches EXCEPT ![b] = [batches[b] EXCEPT !.status = "completed",
                                                              !.summary = summary]]
      /\ UNCHANGED <<runs, ending, request>> /\ Stops(r)
      /\ tasks[b][Parent].status = "processing" /\ AllCompleted(b)
  BY <1>1 DEF FinishBatch, Owns, StatusOf
<1>3. PICK batch \in Batch :
        /\ batch = [batches[b] EXCEPT !.status = "completed", !.summary = summary]
        /\ batch.chunks = batches[b].chunks /\ batch.retryOf = batches[b].retryOf
        /\ batch.status = "completed" /\ batch.done = batches[b].done
        /\ batch.summary.listed = Succeeded(b)
  <2>1. batches[b] \in Batch /\ worker[r].seen \in Nat
    BY <1>2, NumbersOf, JobOf DEF FlowInv, FinishBatch
  <2>2. summary \in Summary /\ summary.listed = Succeeded(b)
    BY <2>1 DEF Summary, Succeeded
  <2> HIDE DEF summary
  <2> DEFINE x == [batches[b] EXCEPT !.status = "completed", !.summary = summary]
  <2>3. /\ x \in Batch /\ x.chunks = batches[b].chunks /\ x.retryOf = batches[b].retryOf
        /\ x.status = "completed" /\ x.done = batches[b].done /\ x.summary = summary
    BY <2>1, <2>2 DEF Batch, Ended
  <2> HIDE DEF x
  <2>4. x = [batches[b] EXCEPT !.status = "completed", !.summary = summary]
    BY DEF x
  <2> QED
    BY <2>2, <2>3, <2>4
<1>4. /\ batches' \in Seq(Batch) /\ Len(batches') = Len(batches)
      /\ batches'[b] = batch
      /\ \A a \in Batches \ {b} : batches'[a] = batches[a]
  BY <1>2, <1>3, BatchWritten DEF FlowInv
<1>5. TablesFit /\ "completed" \in Statuses /\ Parent \in Parts /\ Chunks \subseteq Parts
  BY DEF FlowInv, Statuses, Ended, Parts
<1>6. /\ tasks' \in [Numbers -> [Parts -> Task]]
      /\ tasks'[b][Parent].status = "completed"
      /\ \A q \in Parts \ {Parent} : tasks'[b][q] = tasks[b][q]
      /\ \A a \in Numbers \ {b} : tasks'[a] = tasks[a]
  BY <1>2, <1>5, TaskMoved
<1>7. OnlyBatch(b)
  BY <1>2, <1>3, <1>4, <1>6 DEF OnlyBatch
<1>8. ParentMoves(b)
  BY <1>2, <1>6, <1>7 DEF ParentMoves, Live
<1>9. /\ JobsAgree(b)' /\ EndedStay(b) /\ Stopped(b)' /\ Open(b)
      /\ Succeeded(b)' = Succeeded(b)
  BY <1>8, ParentMoved
<1>10. JobsAgree(b) /\ BatchFits(b)
  BY NumbersOf DEF FlowInv
<1>11. \A c \in batches[b].chunks : tasks[b][c].status = "completed"
  BY <1>2 DEF AllCompleted, Having
<1>12. Succeeded(b) = batches[b].chunks /\ Settled(runs[b])
  <2>1. ASSUME NEW c \in Chunks
        PROVE  /\ runs[b][c] # "queued"
               /\ runs[b][c] = "completed" <=> c \in batches[b].chunks
    <3>1. CASE c \in batches[b].chunks
      BY <1>10, <1>11, <3>1 DEF JobsAgree, RunOf, Live
    <3>2. CASE c \notin batches[b].chunks
      BY <1>10, <3>2 DEF JobsAgree, RunOf, Live
    <3> QED
      BY <3>1, <3>2
  <2>2. batches[b].chunks \subseteq Chunks
    BY NumbersOf DEF FlowInv, Batch
  <2> QED
    BY <2>1, <2>2 DEF Succeeded, Settled
<1>13. batches[b].done = Cardinality(Succeeded(b))
  BY <1>9, <1>10 DEF BatchFits, Counted, Open
<1>14. BatchFits(b)'
  <2>1. HeadAgrees(b)' /\ Whole(b)'
    BY <1>3, <1>4, <1>6, <1>9, <1>12 DEF HeadAgrees, Whole, Live
  <2>2. Counted(b)'
    BY <1>3, <1>4, <1>9, <1>13 DEF Counted
  <2>3. Summed(b)'
    BY <1>2, <1>3, <1>4, <1>9, <1>12 DEF Summed, Settled
  <2> QED
    BY <1>9, <2>1, <2>2, <2>3 DEF BatchFits
<1>15. HandsFit'
  BY <1>2, <1>4, SlotStops DEF FlowInv
<1>16. TablesFit'
  BY <1>2, <1>4, <1>6 DEF FlowInv, TablesFit
<1> QED
  BY <1>7, <1>9, <1>14, <1>15, <1>16, Recomposed
-----------------------------------------------------------------------------
(* Failure and cancellation.                                               *)

(* The slot of the runner that settles its task comes back; a reaper or a  *)
(* request has none.                                                       *)
Leaves == UNCHANGED request /\ (UNCHANGED worker \/ \E r \in Runners : Stops(r))

LEMMA HandsLeave ==
  ASSUME HandsFit, Len(batches') = Len(batches), Leaves
  PROVE  HandsFit'
BY HandsRest, SlotStops DEF Leaves

(* A live child ends while its batch is cancelled: its hook writes the     *)
(* summary from the runs with its own among them.                          *)
LEMMA ChildEndsKeeps ==
  ASSUME FlowInv, NEW b \in Batches, NEW c \in Chunks, NEW own,
         NEW status \in {"failed", "cancelled"}, ChildEnds(b, c, status, own), Leaves,
         tasks[b][c].status \in Live
  PROVE  FlowInv'
<1> DEFINE rs == [runs[b] EXCEPT ![c] = RunHook(@, status)]
<1>1. /\ b \in Numbers /\ c \in Parts /\ c # Parent /\ Parent \in Parts
      /\ JobsAgree(b) /\ BatchFits(b) /\ TablesFit /\ status \in Statuses
      /\ batches[b] \in Batch
  BY NumbersOf, ChildIsNotParent DEF FlowInv, Statuses, Ended
<1>2. /\ ending[b][c] = "no" /\ batches[b].status = "cancelled"
      /\ batches' = [batches EXCEPT ![b] =
                       BatchHook(batches[b], "cancelled", Done(rs), Settled(rs))]
      /\ runs' = [runs EXCEPT ![b] = rs]
      /\ Moves(b, c, status)
      /\ UNCHANGED ending
  BY DEF ChildEnds, RowFree
<1>3. /\ rs \in [Chunks -> RunStatus] /\ rs[c] = status
      /\ \A d \in Chunks \ {c} : rs[d] = runs[b][d]
  <2>1. runs[b] \in [Chunks -> RunStatus] /\ runs[b][c] = "queued"
    BY <1>1 DEF TablesFit, JobsAgree, RunOf
  <2>2. RunHook(runs[b][c], status) = status /\ status \in RunStatus
    BY <2>1 DEF RunHook, RunStatus, Ended
  <2> QED
    BY <2>1, <2>2
<1>4. Done(rs) \in SUBSET Chunks /\ Settled(rs) \in BOOLEAN
  BY DEF Done, Settled
<1> HIDE DEF rs
<1>5. PICK batch \in Batch :
        /\ batch = BatchHook(batches[b], "cancelled", Done(rs), Settled(rs))
        /\ batch.chunks = batches[b].chunks /\ batch.retryOf = batches[b].retryOf
        /\ batch.status = "cancelled"
        /\ batch.summary.known => Settled(rs) /\ batch.summary.listed = Done(rs)
  <2>1. batches[b].status \in {"pending", "processing", "cancelled"}
    BY <1>2
  <2> QED
    BY <1>1, <1>4, <2>1, Hooked
<1>6. /\ batches' \in Seq(Batch) /\ Len(batches') = Len(batches)
      /\ batches'[b] = batch
      /\ \A a \in Batches \ {b} : batches'[a] = batches[a]
  <2>1. batches' = [batches EXCEPT ![b] = batch]
    BY <1>2, <1>5
  <2> QED
    BY <1>1, <2>1, BatchWritten
<1>7. /\ tasks' \in [Numbers -> [Parts -> Task]]
      /\ tasks'[b][c].status = status
      /\ \A q \in Parts \ {c} : tasks'[b][q] = tasks[b][q]
      /\ \A a \in Numbers \ {b} : tasks'[a] = tasks[a]
  BY <1>1, <1>2, TaskMoved
<1>8. /\ runs' \in [Numbers -> [Chunks -> RunStatus]] /\ runs'[b] = rs
      /\ \A a \in Numbers \ {b} : runs'[a] = runs[a]
  BY <1>1, <1>2, <1>3, SetRow DEF TablesFit
<1>9. OnlyBatch(b)
  BY <1>2, <1>5, <1>6, <1>7, <1>8 DEF OnlyBatch
<1>10. ChildMoves(b, c)
  <2>1. RunOf(status) = status /\ status \in Ended
    BY DEF RunOf, Live, Ended
  <2> QED
    BY <1>2, <1>3, <1>7, <1>8, <1>9, <2>1 DEF ChildMoves
<1>11. JobsAgree(b)' /\ EndedStay(b) /\ Stopped(b)'
  BY <1>10, ChildMoved
<1>12. BatchFits(b)'
  <2>1. HeadAgrees(b)'
    BY <1>1, <1>2, <1>5, <1>6, <1>7 DEF BatchFits, HeadAgrees, Open
  <2>2. Counted(b)' /\ Whole(b)'
    BY <1>5, <1>6 DEF Counted, Whole
  <2>3. Succeeded(b)' = Done(rs)
    BY <1>8 DEF Succeeded, Done
  <2>4. Summed(b)'
    BY <1>5, <1>6, <1>8, <2>3 DEF Summed
  <2> QED
    BY <1>11, <2>1, <2>2, <2>4 DEF BatchFits
<1>13. HandsFit'
  BY <1>6, HandsLeave DEF FlowInv
<1>14. TablesFit'
  BY <1>1, <1>2, <1>6, <1>7, <1>8 DEF TablesFit
<1> QED
  BY <1>9, <1>11, <1>12, <1>13, <1>14, Recomposed

(* Only the ending of a child is written.                                  *)
LEMMA EndingKept ==
  ASSUME FlowInv, HandsFit', NEW b \in Batches, NEW c \in Chunks,
         NEW x \in {"no", "failed", "cancelled"},
         ending' = [ending EXCEPT ![b][c] = x], UNCHANGED <<batches, runs, tasks>>,
         x # "no" => tasks[b][c].status \in Live
  PROVE  FlowInv'
<1>1. /\ ending' \in [Numbers -> [Chunks -> {"no", "failed", "cancelled"}]]
      /\ ending'[b][c] = x
      /\ \A d \in Chunks \ {c} : ending'[b][d] = ending[b][d]
      /\ \A a \in Numbers \ {b} : ending'[a] = ending[a]
  BY EndingWritten DEF FlowInv
<1>2. /\ JobsAgree(b) /\ BatchFits(b) /\ Batches' = Batches
  BY NumbersOf DEF FlowInv, Batches
<1>3. OnlyBatch(b) /\ EndedStay(b)
  BY <1>1 DEF OnlyBatch, EndedStay
<1>4. JobsAgree(b)'
  BY <1>1, <1>2 DEF JobsAgree
<1>5. BatchFits(b)'
  <2>1. Succeeded(b)' = Succeeded(b)
    BY DEF Succeeded
  <2> QED
    BY <1>2, <2>1 DEF BatchFits, HeadAgrees, Counted, Whole, Summed, Stopped, Open
<1>6. TablesFit'
  BY <1>1 DEF FlowInv, TablesFit
<1> QED
  BY <1>3, <1>4, <1>5, <1>6, Recomposed

(* The task of the batch ends with its hook; it is only cancelled after it *)
(* was told to stop.                                                       *)
LEMMA ParentEndsKeeps ==
  ASSUME FlowInv, NEW b \in Batches, NEW status \in {"failed", "cancelled"},
         ParentEnds(b, status), Leaves, tasks[b][Parent].status \in Live,
         status = "cancelled" => tasks[b][Parent].status = "cancelling"
  PROVE  FlowInv'
<1> DEFINE rs == runs[b]
<1>1. /\ b \in Numbers /\ Parent \in Parts /\ BatchFits(b) /\ TablesFit
      /\ status \in Statuses /\ status \notin Live /\ batches[b] \in Batch
  BY NumbersOf DEF FlowInv, Statuses, Ended, Parts, Live
<1>2. /\ batches' = [batches EXCEPT ![b] = BatchHook(batches[b], status, Done(rs), Settled(rs))]
      /\ Moves(b, Parent, status)
      /\ UNCHANGED <<runs, ending>>
  BY DEF ParentEnds
<1>3. Done(rs) \in SUBSET Chunks /\ Settled(rs) \in BOOLEAN
  BY DEF Done, Settled
<1>4. batches[b].status \in {"pending", "processing", status}
  BY <1>1 DEF BatchFits, HeadAgrees, Open
<1>5. PICK batch \in Batch :
        /\ batch = BatchHook(batches[b], status, Done(rs), Settled(rs))
        /\ batch.chunks = batches[b].chunks /\ batch.retryOf = batches[b].retryOf
        /\ batch.status = status
        /\ batch.summary.known => Settled(rs) /\ batch.summary.listed = Done(rs)
  BY <1>1, <1>3, <1>4, Hooked
<1>6. /\ batches' \in Seq(Batch) /\ Len(batches') = Len(batches)
      /\ batches'[b] = batch
      /\ \A a \in Batches \ {b} : batches'[a] = batches[a]
  <2>1. batches' = [batches EXCEPT ![b] = batch]
    BY <1>2, <1>5
  <2> QED
    BY <1>1, <2>1, BatchWritten
<1>7. /\ tasks' \in [Numbers -> [Parts -> Task]]
      /\ tasks'[b][Parent].status = status
      /\ \A q \in Parts \ {Parent} : tasks'[b][q] = tasks[b][q]
      /\ \A a \in Numbers \ {b} : tasks'[a] = tasks[a]
  BY <1>1, <1>2, TaskMoved
<1>8. OnlyBatch(b)
  BY <1>2, <1>5, <1>6, <1>7 DEF OnlyBatch
<1>9. ParentMoves(b)
  BY <1>2, <1>7, <1>8 DEF ParentMoves
<1>10. /\ JobsAgree(b)' /\ EndedStay(b) /\ Stopped(b)'
       /\ Succeeded(b)' = Succeeded(b)
  BY <1>9, ParentMoved
<1>11. BatchFits(b)'
  <2>1. HeadAgrees(b)'
    BY <1>1, <1>5, <1>6, <1>7 DEF HeadAgrees
  <2>2. Counted(b)' /\ Whole(b)'
    BY <1>5, <1>6 DEF Counted, Whole
  <2>3. Summed(b)'
    BY <1>2, <1>5, <1>6, <1>10 DEF Summed, Succeeded, Done
  <2> QED
    BY <1>10, <2>1, <2>2, <2>3 DEF BatchFits
<1>12. HandsFit'
  BY <1>6, HandsLeave DEF FlowInv
<1>13. TablesFit'
  BY <1>1, <1>2, <1>6, <1>7 DEF TablesFit
<1> QED
  BY <1>8, <1>10, <1>11, <1>12, <1>13, Recomposed

LEMMA EndsKeeps ==
  ASSUME FlowInv, NEW b \in Batches, NEW p \in Parts, NEW own,
         NEW status \in {"failed", "cancelled"}, Ends(b, p, status, own), Leaves,
         tasks[b][p].status \in Live,
         p = Parent /\ status = "cancelled" => tasks[b][p].status = "cancelling"
  PROVE  FlowInv'
<1>1. CASE p = Parent
  BY <1>1, ParentEndsKeeps DEF Ends
<1>2. CASE p # Parent
  <2>1. p \in Chunks
    BY <1>2 DEF Parts
  <2>2. CASE ChildEnds(b, p, status, own)
    BY <2>1, <2>2, ChildEndsKeeps
  <2>3. CASE ChildStartsEnding(b, p, status, own)
    <3>1. /\ ending' = [ending EXCEPT ![b][p] = status]
          /\ UNCHANGED <<batches, runs, tasks>>
      BY <2>3 DEF ChildStartsEnding
    <3>2. HandsFit'
      BY <3>1, HandsLeave DEF FlowInv
    <3> QED
      BY <2>1, <3>1, <3>2, EndingKept
  <2> QED
    BY <1>2, <2>2, <2>3 DEF Ends
<1> QED
  BY <1>1, <1>2

LEMMA CommitChildKeeps ==
  ASSUME FlowInv, NEW b \in Batches, NEW c \in Chunks, CommitChild(b, c)
  PROVE  FlowInv'
<1>1. PICK status \in {"failed", "cancelled"} : ending[b][c] = status
  BY NumbersOf DEF CommitChild, RowFree, FlowInv, TablesFit
<1>2. /\ tasks[b][c].status \in Live /\ runs[b][c] = "queued"
      /\ status \in Statuses /\ status \in RunStatus /\ c \in Parts /\ TablesFit
      /\ RunOf(status) = status /\ status \in Ended
  <2>1. JobsAgree(b)
    BY NumbersOf DEF FlowInv
  <2>2. tasks[b][c].status \in Live /\ runs[b][c] = "queued"
    BY <1>1, <2>1 DEF JobsAgree, RunOf
  <2> QED
    BY <2>2, ChildIsNotParent DEF FlowInv, Statuses, RunStatus, RunOf, Live, Ended
<1>3. /\ runs' = [runs EXCEPT ![b][c] = status] /\ Moves(b, c, status)
      /\ ending' = [ending EXCEPT ![b][c] = "no"] /\ UNCHANGED <<batches, worker, request>>
  BY <1>1, <1>2 DEF CommitChild, RunHook
<1>4. /\ tasks' \in [Numbers -> [Parts -> Task]]
      /\ tasks'[b][c].status = status
      /\ \A q \in Parts \ {c} : tasks'[b][q] = tasks[b][q]
      /\ \A a \in Numbers \ {b} : tasks'[a] = tasks[a]
  BY <1>2, <1>3, TaskMoved
<1>5. /\ runs' \in [Numbers -> [Chunks -> RunStatus]]
      /\ runs'[b][c] = status
      /\ \A d \in Chunks \ {c} : runs'[b][d] = runs[b][d]
      /\ \A a \in Numbers \ {b} : runs'[a] = runs[a]
  BY <1>2, <1>3, RunWritten
<1>6. /\ ending' \in [Numbers -> [Chunks -> {"no", "failed", "cancelled"}]]
      /\ ending'[b][c] = "no"
      /\ \A d \in Chunks \ {c} : ending'[b][d] = ending[b][d]
      /\ \A a \in Numbers \ {b} : ending'[a] = ending[a]
  BY <1>2, <1>3, EndingWritten
<1>7. OnlyBatch(b)
  BY <1>3, <1>4, <1>5, <1>6 DEF OnlyBatch
<1>8. ChildMoves(b, c)
  BY <1>2, <1>4, <1>5, <1>6, <1>7 DEF ChildMoves
<1>9. HandsFit'
  BY <1>3, HandsRest DEF FlowInv
<1>10. TablesFit'
  BY <1>2, <1>3, <1>4, <1>5, <1>6 DEF TablesFit
<1> QED
  BY <1>3, <1>4, <1>8, <1>9, <1>10, ChildKept

LEMMA UnendKeeps ==
  ASSUME FlowInv, NEW b \in Batches, NEW c \in Chunks, Unend(b, c)
  PROVE  FlowInv'
<1>1. HandsFit'
  BY HandsRest DEF FlowInv, Unend
<1> QED
  BY <1>1, EndingKept DEF Unend

LEMMA SettleKeeps ==
  ASSUME FlowInv, NEW r \in Runners, Settle(r)
  PROVE  FlowInv'
<1>1. PICK b \in Batches, p \in Parts : b = worker[r].job[1] /\ p = worker[r].job[2]
  BY JobOf DEF Settle, FlowInv
<1>2. /\ \/ tasks[b][p].status = "cancelling" /\ Ends(b, p, "cancelled", {r})
         \/ tasks[b][p].status = "processing"
              /\ (Requeues(b, p) \/ Ends(b, p, "failed", {r}))
      /\ Stops(r) /\ UNCHANGED request
  BY <1>1 DEF Settle, CancelSeen, Owns, StatusOf
<1>3. Leaves
  BY <1>2 DEF Leaves
<1>4. CASE Requeues(b, p) /\ tasks[b][p].status = "processing"
  <2>1. HandsFit'
    BY <1>2, <1>4, SlotStops DEF FlowInv, Requeues
  <2> QED
    BY <1>4, <2>1, RequeuesKeep
<1>5. CASE Ends(b, p, "cancelled", {r}) /\ tasks[b][p].status = "cancelling"
  BY <1>3, <1>5, EndsKeeps DEF Live
<1>6. CASE Ends(b, p, "failed", {r}) /\ tasks[b][p].status = "processing"
  BY <1>3, <1>6, EndsKeeps DEF Live
<1> QED
  BY <1>2, <1>4, <1>5, <1>6

LEMMA ReapKeeps ==
  ASSUME FlowInv, NEW b \in Batches, NEW p \in Parts, Reap(b, p)
  PROVE  FlowInv'
<1>1. Leaves
  BY DEF Reap, Leaves
<1>2. CASE Requeues(b, p) /\ tasks[b][p].status = "processing"
  <2>1. HandsFit'
    BY <1>2, HandsRest DEF FlowInv, Requeues, Reap
  <2> QED
    BY <1>2, <2>1, RequeuesKeep
<1>3. CASE Ends(b, p, "cancelled", {}) /\ tasks[b][p].status = "cancelling"
  BY <1>1, <1>3, EndsKeeps DEF Live
<1>4. CASE Ends(b, p, "failed", {}) /\ tasks[b][p].status = "processing"
  BY <1>1, <1>4, EndsKeeps DEF Live
<1> QED
  BY <1>2, <1>3, <1>4 DEF Reap

(* request_cancel leaves a row that is neither waiting nor running alone.  *)
LEMMA CancelledRow ==
  ASSUME NEW task \in Task
  PROVE  /\ CancelRow(task) \in Task
         /\ task.status = "queued" => CancelRow(task).status = "cancelled"
         /\ task.status = "processing" => CancelRow(task).status = "cancelling"
         /\ task.status \notin {"queued", "processing"} => CancelRow(task) = task
<1>1. Moved("cancelled") \in Task /\ Moved("cancelled").status = "cancelled"
  BY StatusTypes DEF Statuses, Ended
<1>2. /\ [task EXCEPT !.status = "cancelling"] \in Task
      /\ [task EXCEPT !.status = "cancelling"].status = "cancelling"
  BY DEF Task, Live
<1> QED
  BY <1>1, <1>2 DEF CancelRow

LEMMA CancelChildKeeps ==
  ASSUME FlowInv, NEW b \in Batches, NEW c \in Chunks, CancelChild(b, c)
  PROVE  FlowInv'
<1>1. Leaves /\ c \in Parts /\ c # Parent
  BY ChildIsNotParent DEF CancelChild, Leaves
<1>2. CASE Ends(b, c, "cancelled", {}) /\ tasks[b][c].status = "queued"
  BY <1>1, <1>2, EndsKeeps DEF Live
<1>3. CASE /\ tasks[b][c].status = "processing"
           /\ tasks' = [tasks EXCEPT ![b][c] = CancelRow(@)]
           /\ UNCHANGED <<batches, runs, ending>>
  <2>1. tasks[b][c] \in Task
    BY <1>1, NumbersOf DEF FlowInv, TablesFit
  <2>2. PICK x \in Task : x = CancelRow(tasks[b][c]) /\ x.status = "cancelling"
    BY <1>3, <2>1, CancelledRow
  <2>3. tasks' = [tasks EXCEPT ![b][c] = x]
    BY <1>3, <2>2
  <2>4. HandsFit'
    BY <1>3, HandsRest DEF FlowInv, CancelChild
  <2> QED
    BY <1>3, <2>2, <2>3, <2>4, ChildRewritten DEF Live
<1> QED
  BY <1>2, <1>3 DEF CancelChild

(* The children are stopped first, then the parent; its hook sees the runs *)
(* that were cancelled with it.                                            *)
LEMMA CancelBatchKeeps ==
  ASSUME FlowInv, NEW b \in Batches, CancelBatch(b)
  PROVE  FlowInv'
<1> DEFINE row == [p \in Parts |-> IF p \in LiveParts(b) THEN CancelRow(tasks[b][p])
                                   ELSE tasks[b][p]]
           rs == [c \in Chunks |-> IF c \in LiveParts(b) /\ tasks[b][c].status = "queued"
                                   THEN RunHook(runs[b][c], "cancelled") ELSE runs[b][c]]
<1>1. /\ JobsAgree(b) /\ BatchFits(b) /\ TablesFit /\ batches[b] \in Batch
      /\ Parent \in Parts /\ Chunks \subseteq Parts
  BY NumbersOf DEF FlowInv, Batches, Parts
<1>2. /\ tasks' = [tasks EXCEPT ![b] = row]
      /\ runs' = [runs EXCEPT ![b] = rs]
      /\ UNCHANGED <<ending, worker, request>>
      /\ tasks[b][Parent].status \in Live
      /\ \A p \in LiveParts(b) : RowFree(b, p)
      /\ IF tasks[b][Parent].status = "queued"
         THEN batches' = [batches EXCEPT ![b] =
                            BatchHook(batches[b], "cancelled", Done(rs), Settled(rs))]
         ELSE UNCHANGED batches
  BY DEF CancelBatch
<1>3. b \in Numbers
  BY NumbersOf DEF FlowInv
<1>4. ASSUME NEW p \in Parts
      PROVE  /\ row[p] \in Task
             /\ row[p].status = IF tasks[b][p].status = "queued" THEN "cancelled"
                                ELSE IF tasks[b][p].status = "processing" THEN "cancelling"
                                ELSE tasks[b][p].status
  <2>1. tasks[b][p] \in Task
    BY <1>1, <1>3 DEF TablesFit
  <2>2. p \in LiveParts(b) <=> tasks[b][p].status \in Live
    BY DEF LiveParts
  <2>3. tasks[b][p].status = "queued" \/ tasks[b][p].status = "processing" => p \in LiveParts(b)
    BY <2>2 DEF Live
  <2>4. row[p] = IF tasks[b][p].status \in {"queued", "processing"}
                 THEN CancelRow(tasks[b][p]) ELSE tasks[b][p]
    BY <2>1, <2>3, CancelledRow
  <2> QED
    BY <2>1, <2>4, CancelledRow
<1>5. row \in [Parts -> Task]
  BY <1>4
<1>6. ASSUME NEW c \in Chunks
      PROVE  /\ rs[c] = RunOf(row[c].status)
             /\ rs[c] = IF tasks[b][c].status = "queued" THEN "cancelled" ELSE runs[b][c]
             /\ rs[c] \in RunStatus
             /\ ending[b][c] = "no"
  <2>1. /\ runs[b][c] = RunOf(tasks[b][c].status) /\ runs[b][c] \in RunStatus
        /\ ending[b][c] # "no" => tasks[b][c].status \in Live
        /\ c \in Parts
    BY <1>1, <1>3 DEF JobsAgree, TablesFit
  <2>2. c \in LiveParts(b) <=> tasks[b][c].status \in Live
    BY <2>1 DEF LiveParts
  <2>3. ending[b][c] = "no"
    BY <1>2, <2>1, <2>2 DEF RowFree
  <2>4. rs[c] = IF tasks[b][c].status = "queued" THEN "cancelled" ELSE runs[b][c]
    BY <2>1, <2>2 DEF RunHook, RunOf, Live
  <2>5. RunOf(row[c].status) = rs[c]
    BY <1>4, <2>1, <2>4 DEF RunOf, Live
  <2> QED
    BY <2>1, <2>3, <2>4, <2>5 DEF RunStatus, Ended
<1>7. rs \in [Chunks -> RunStatus]
  BY <1>6
<1>8. Done(rs) \in SUBSET Chunks /\ Settled(rs) \in BOOLEAN
  BY DEF Done, Settled
<1>9. Done(rs) = Succeeded(b) /\ (Settled(runs[b]) => Settled(rs))
  <2>1. \A c \in Chunks : tasks[b][c].status = "queued" => runs[b][c] = "queued"
    BY <1>1 DEF JobsAgree, RunOf, Live
  <2>2. \A c \in Chunks : /\ rs[c] = "completed" <=> runs[b][c] = "completed"
                          /\ rs[c] = "queued" => runs[b][c] = "queued"
    BY <1>6, <2>1
  <2> QED
    BY <2>2 DEF Done, Succeeded, Settled
<1> HIDE DEF row, rs
<1>10. /\ tasks' \in [Numbers -> [Parts -> Task]] /\ tasks'[b] = row
       /\ \A a \in Numbers \ {b} : tasks'[a] = tasks[a]
  BY <1>1, <1>2, <1>3, <1>5, SetRow DEF TablesFit
<1>11. /\ runs' \in [Numbers -> [Chunks -> RunStatus]] /\ runs'[b] = rs
       /\ \A a \in Numbers \ {b} : runs'[a] = runs[a]
  BY <1>1, <1>2, <1>3, <1>7, SetRow DEF TablesFit
<1>12. Succeeded(b)' = Succeeded(b)
  BY <1>9, <1>11 DEF Succeeded, Done
<1>13. /\ batches' \in Seq(Batch) /\ Len(batches') = Len(batches)
       /\ \A a \in Batches \ {b} : batches'[a] = batches[a]
       /\ batches'[b].chunks = batches[b].chunks /\ batches'[b].retryOf = batches[b].retryOf
       /\ HeadAgrees(b)' /\ Counted(b)' /\ Whole(b)' /\ Summed(b)'
  <2>1. CASE tasks[b][Parent].status = "queued"
    <3>1. batches[b].status \in {"pending", "processing", "cancelled"}
      BY <1>1, <2>1 DEF BatchFits, HeadAgrees, Open, Live
    <3>2. PICK batch \in Batch :
            /\ batch = BatchHook(batches[b], "cancelled", Done(rs), Settled(rs))
            /\ batch.chunks = batches[b].chunks /\ batch.retryOf = batches[b].retryOf
            /\ batch.status = "cancelled"
            /\ batch.summary.known => Settled(rs) /\ batch.summary.listed = Done(rs)
      BY <1>1, <1>8, <3>1, Hooked
    <3>3. /\ batches' \in Seq(Batch) /\ Len(batches') = Len(batches)
          /\ batches'[b] = batch
          /\ \A a \in Batches \ {b} : batches'[a] = batches[a]
      <4>1. batches' = [batches EXCEPT ![b] = batch]
        BY <1>2, <2>1, <3>2
      <4> QED
        BY <1>1, <4>1, BatchWritten
    <3>4. tasks'[b][Parent].status = "cancelled"
      BY <1>1, <1>4, <1>10, <2>1
    <3>5. HeadAgrees(b)'
      BY <3>2, <3>3, <3>4 DEF HeadAgrees, Live
    <3>6. Counted(b)' /\ Whole(b)'
      BY <3>2, <3>3 DEF Counted, Whole
    <3>7. Summed(b)'
      BY <1>9, <1>11, <1>12, <3>2, <3>3 DEF Summed
    <3> QED
      BY <3>2, <3>3, <3>5, <3>6, <3>7
  <2>2. CASE tasks[b][Parent].status # "queued"
    <3>1. batches' = batches
      BY <1>2, <2>2
    <3>2. tasks'[b][Parent].status \in Live
      BY <1>1, <1>2, <1>4, <1>10, <2>2 DEF Live
    <3>3. HeadAgrees(b)'
      BY <1>1, <1>2, <3>1, <3>2 DEF BatchFits, HeadAgrees, Open
    <3>4. Counted(b)' /\ Whole(b)'
      BY <1>1, <1>12, <3>1 DEF BatchFits, Counted, Whole
    <3>5. Summed(b)'
      BY <1>1, <1>9, <1>11, <1>12, <3>1 DEF BatchFits, Summed
    <3> QED
      BY <1>1, <3>1, <3>3, <3>4, <3>5 DEF TablesFit
  <2> QED
    BY <2>1, <2>2
<1>14. OnlyBatch(b)
  BY <1>2, <1>10, <1>11, <1>13 DEF OnlyBatch
<1>15. EndedStay(b)
  BY <1>4, <1>10 DEF EndedStay, Live
<1>16. Stopped(b)'
  <2>1. \A c \in Chunks : tasks'[b][c].status \notin {"queued", "processing"}
    BY <1>1, <1>4, <1>10
  <2> QED
    BY <2>1 DEF Stopped
<1>17. JobsAgree(b)'
  <2>1. Batches' = Batches
    BY <1>13 DEF Batches
  <2>2. ASSUME NEW c \in Chunks
        PROVE  /\ runs'[b][c] = RunOf(tasks'[b][c].status)
               /\ ending'[b][c] = "no"
               /\ c \in batches'[b].chunks <=> tasks'[b][c].status # "absent"
    <3>1. c \in batches[b].chunks <=> tasks[b][c].status # "absent"
      BY <1>1 DEF JobsAgree
    <3>2. tasks'[b][c].status = "absent" <=> tasks[b][c].status = "absent"
      BY <1>1, <1>4, <1>10
    <3> QED
      BY <1>2, <1>6, <1>10, <1>11, <1>13, <3>1, <3>2
  <2> QED
    BY <2>1, <2>2 DEF JobsAgree
<1>18. TablesFit'
  BY <1>1, <1>2, <1>10, <1>11, <1>13 DEF TablesFit
<1>19. HandsFit'
  BY <1>2, <1>13, HandsRest DEF FlowInv
<1> QED
  BY <1>12, <1>13, <1>14, <1>15, <1>16, <1>17, <1>18, <1>19, Recomposed DEF BatchFits
-----------------------------------------------------------------------------
(* New batches.                                                            *)

LEMMA HandsGrow ==
  ASSUME HandsFit, Batches \subseteq Batches', UNCHANGED worker,
         request' \in [Requests -> Request]
  PROVE  HandsFit'
BY DEF HandsFit, OneInside

(* A new batch starts with every child waiting and nothing counted; the    *)
(* one it retries is at rest.                                              *)
LEMMA NewBatchKeeps ==
  ASSUME FlowInv, NEW chosen \in SUBSET Chunks, NEW source \in Nat,
         NewBatch(chosen, source), UNCHANGED <<ending, worker>>,
         request' \in [Requests -> Request],
         source # 0 =>
           /\ source \in Batches /\ AllTasksEnded(source)
           /\ chosen \subseteq batches[source].chunks \ Succeeded(source)
  PROVE  FlowInv'
<1> DEFINE batch == [chunks |-> chosen, retryOf |-> source, status |-> "pending",
                     done |-> 0, summary |-> NoSummary]
           rs == [c \in Chunks |-> IF c \in chosen THEN "queued" ELSE "none"]
           row == [p \in Parts |-> IF p \in chosen \union {Parent} THEN Queued ELSE Absent]
<1>1. /\ TablesFit /\ HandsFit /\ Len(batches) \in Nat /\ MaxBatches \in Nat
      /\ Batches \subseteq Numbers /\ Batches = 1..Len(batches) /\ batches \in Seq(Batch)
  BY NumbersOf DEF FlowInv, Batches, TablesFit
<1>2. PICK b \in Numbers :
        /\ b = Len(batches) + 1 /\ b \notin Batches /\ b # 0
        /\ batches' = Append(batches, batch)
        /\ runs' = [runs EXCEPT ![b] = rs] /\ tasks' = [tasks EXCEPT ![b] = row]
  <2> DEFINE b == Len(batches) + 1
  <2>1. /\ b <= MaxBatches
        /\ batches' = Append(batches, batch)
        /\ runs' = [runs EXCEPT ![b] = rs] /\ tasks' = [tasks EXCEPT ![b] = row]
    BY DEF NewBatch
  <2>2. b \in Numbers /\ b \notin Batches /\ b # 0
    BY <1>1, <2>1 DEF Numbers
  <2> HIDE DEF batch, rs, row
  <2> QED
    BY <2>1, <2>2
<1>3. /\ batch \in Batch /\ batch.chunks = chosen /\ batch.retryOf = source
      /\ batch.status = "pending" /\ batch.done = 0 /\ ~batch.summary.known
  <2>1. source \in 0..MaxBatches
    BY <1>1 DEF Numbers
  <2>2. NoSummary \in Summary /\ ~NoSummary.known
    BY DEF NoSummary, Summary
  <2> QED
    BY <2>1, <2>2 DEF Batch
<1>4. /\ row \in [Parts -> Task] /\ row[Parent].status = "queued"
      /\ \A c \in Chunks : row[c].status = IF c \in chosen THEN "queued" ELSE "absent"
  <2>1. /\ Queued \in Task /\ Queued.status = "queued"
        /\ Absent \in Task /\ Absent.status = "absent"
    BY StatusTypes DEF Statuses, Live
  <2> QED
    BY <2>1, ChildIsNotParent DEF Parts
<1>5. /\ rs \in [Chunks -> RunStatus]
      /\ \A c \in Chunks : rs[c] = IF c \in chosen THEN "queued" ELSE "none"
  BY DEF RunStatus
<1> HIDE DEF batch, rs, row
<1>6. /\ batches' \in Seq(Batch) /\ Len(batches') = Len(batches) + 1
      /\ batches'[b] = batch /\ \A a \in Batches : batches'[a] = batches[a]
  <2>1. /\ Append(batches, batch) \in Seq(Batch)
        /\ Len(Append(batches, batch)) = Len(batches) + 1
        /\ Append(batches, batch)[Len(batches) + 1] = batch
        /\ \A a \in 1..Len(batches) : Append(batches, batch)[a] = batches[a]
    BY <1>1, <1>3, AppendProperties
  <2> QED
    BY <1>1, <1>2, <2>1
<1>7. Batches' = Batches \union {b}
  BY <1>1, <1>2, <1>6 DEF Batches
<1>8. /\ tasks' \in [Numbers -> [Parts -> Task]] /\ tasks'[b] = row
      /\ \A a \in Numbers \ {b} : tasks'[a] = tasks[a]
  BY <1>1, <1>2, <1>4, SetRow DEF TablesFit
<1>9. /\ runs' \in [Numbers -> [Chunks -> RunStatus]] /\ runs'[b] = rs
      /\ \A a \in Numbers \ {b} : runs'[a] = runs[a]
  BY <1>1, <1>2, <1>5, SetRow DEF TablesFit
<1>10. TablesFit'
  BY <1>1, <1>2, <1>6, <1>8, <1>9 DEF TablesFit, Numbers
<1>11. HandsFit'
  BY <1>1, <1>7, HandsGrow
<1>12. ASSUME NEW a \in Numbers PROVE JobsAgree(a)'
  <2>1. JobsAgree(a)
    BY DEF FlowInv
  <2>2. CASE a # b
    <3>1. /\ tasks'[a] = tasks[a] /\ runs'[a] = runs[a] /\ ending'[a] = ending[a]
          /\ a \in Batches' <=> a \in Batches
          /\ a \in Batches => batches'[a] = batches[a]
      BY <1>6, <1>7, <1>8, <1>9, <2>2
    <3> QED
      BY <2>1, <3>1 DEF JobsAgree
  <2>3. CASE a = b
    <3>1. \A c \in Chunks : ending[b][c] = "no"
      BY <1>2, <2>1, <2>3, ChildIsNotParent DEF JobsAgree, Live
    <3>2. \A c \in Chunks : /\ runs'[b][c] = RunOf(tasks'[b][c].status)
                            /\ c \in batches'[b].chunks <=> tasks'[b][c].status # "absent"
      BY <1>3, <1>4, <1>5, <1>6, <1>8, <1>9 DEF RunOf, Live
    <3> QED
      BY <1>7, <2>3, <3>1, <3>2 DEF JobsAgree
  <2> QED
    BY <2>2, <2>3
<1>13. BatchFits(b)'
  <2>1. Succeeded(b)' = {}
    BY <1>5, <1>9 DEF Succeeded
  <2>2. Cardinality({}) = 0
    BY FS_EmptySet
  <2>3. tasks'[b][Parent].status = "queued"
    BY <1>4, <1>8
  <2>4. HeadAgrees(b)' /\ Stopped(b)'
    BY <1>3, <1>6, <2>3 DEF HeadAgrees, Stopped, Open, Live
  <2>5. Counted(b)' /\ Whole(b)' /\ Summed(b)'
    BY <1>3, <1>6, <2>1, <2>2 DEF Counted, Whole, Summed
  <2> QED
    BY <2>4, <2>5 DEF BatchFits
<1>14. ASSUME NEW a \in Batches
       PROVE  /\ batches'[a] = batches[a] /\ tasks'[a] = tasks[a] /\ runs'[a] = runs[a]
              /\ Succeeded(a)' = Succeeded(a)
  BY <1>1, <1>2, <1>6, <1>8, <1>9 DEF Succeeded
<1>15. ASSUME NEW a \in Batches PROVE BatchFits(a)'
  <2>1. BatchFits(a)
    BY DEF FlowInv
  <2> QED
    BY <1>14, <2>1 DEF BatchFits, HeadAgrees, Counted, Whole, Summed, Stopped, Open
<1>16. ASSUME NEW m \in Batches, AllTasksEnded(m)
       PROVE  AllTasksEnded(m)'
  BY <1>14, <1>16 DEF AllTasksEnded
<1>17. ASSUME NEW a \in Batches PROVE Retried(a)'
  <2>1. Retried(a)
    BY DEF FlowInv
  <2>2. CASE batches[a].retryOf = 0
    BY <1>14, <2>2 DEF Retried, Before
  <2>3. CASE batches[a].retryOf # 0
    <3>1. PICK m \in Batches :
            /\ m = batches[a].retryOf /\ AllTasksEnded(m)
            /\ batches[a].chunks \subseteq batches[m].chunks \ Succeeded(m)
      BY <2>1, <2>3 DEF Retried, Before
    <3>2. /\ AllTasksEnded(m)' /\ m \in Batches' /\ batches'[a].retryOf = m
          /\ batches'[a].chunks \subseteq batches'[m].chunks \ Succeeded(m)'
      BY <1>7, <1>14, <1>16, <3>1
    <3> QED
      BY <3>2 DEF Retried, Before, AllTasksEnded, Succeeded
  <2> QED
    BY <2>2, <2>3
<1>18. Retried(b)'
  <2>1. CASE source = 0
    BY <1>3, <1>6, <2>1 DEF Retried, Before
  <2>2. CASE source # 0
    <3>1. PICK m \in Batches : m = source
      BY <2>2
    <3>2. /\ AllTasksEnded(m)' /\ m \in Batches' /\ batches'[b].retryOf = m
          /\ batches'[b].chunks \subseteq batches'[m].chunks \ Succeeded(m)'
      BY <1>3, <1>6, <1>7, <1>14, <1>16, <2>2, <3>1
    <3> QED
      BY <3>2 DEF Retried, Before, AllTasksEnded, Succeeded
  <2> QED
    BY <2>1, <2>2
<1> QED
  BY <1>7, <1>10, <1>11, <1>12, <1>13, <1>15, <1>17, <1>18 DEF FlowInv

LEMMA CreateKeeps ==
  ASSUME FlowInv, NEW q \in Requests, Create(q)
  PROVE  FlowInv'
<1>1. /\ request \in [Requests -> Request] /\ Idle \in Request
      /\ request[q].chosen \in SUBSET Chunks
  BY DEF FlowInv, HandsFit, Request, Idle
<1>2. /\ NewBatch(request[q].chosen, 0) /\ request' \in [Requests -> Request]
      /\ UNCHANGED <<ending, worker>>
  BY <1>1 DEF Create
<1> QED
  BY <1>1, <1>2, NewBatchKeeps

LEMMA RetryKeeps ==
  ASSUME FlowInv, NEW b \in Batches, Retry(b)
  PROVE  FlowInv'
<1> DEFINE rest == batches[b].chunks \ Succeeded(b)
<1>1. /\ NewBatch(rest, b) /\ AllTasksEnded(b) /\ UNCHANGED <<ending, worker, request>>
  BY DEF Retry
<1>2. /\ rest \in SUBSET Chunks /\ b \in Nat /\ request' \in [Requests -> Request]
  BY <1>1, NumbersOf DEF FlowInv, HandsFit, Batch, Numbers
<1> QED
  BY <1>1, <1>2, NewBatchKeeps
-----------------------------------------------------------------------------
(* Steps that write no table.                                              *)

LEMMA TablesRest ==
  ASSUME FlowInv, HandsFit', UNCHANGED <<batches, runs, tasks, ending>>
  PROVE  FlowInv'
<1>1. TablesFit' /\ Batches' = Batches
  BY DEF FlowInv, TablesFit, Batches
<1>2. ASSUME NEW b \in Numbers PROVE JobsAgree(b)'
  BY <1>1 DEF FlowInv, JobsAgree
<1>3. ASSUME NEW b \in Batches PROVE BatchFits(b)' /\ Retried(b)'
  <2>1. BatchFits(b) /\ Retried(b) /\ \A a \in Batches : Succeeded(a)' = Succeeded(a)
    BY DEF FlowInv, Succeeded
  <2>2. BatchFits(b)'
    BY <2>1 DEF BatchFits, HeadAgrees, Counted, Whole, Summed, Stopped, Open
  <2>3. Retried(b)'
    BY <1>1, <2>1 DEF Retried, Before, AllTasksEnded, Succeeded
  <2> QED
    BY <2>2, <2>3
<1> QED
  BY <1>1, <1>2, <1>3 DEF FlowInv

LEMMA AskKeeps ==
  ASSUME FlowInv, NEW q \in Requests, Ask(q)
  PROVE  FlowInv'
<1>1. request \in [Requests -> Request] /\ HandsFit
  BY DEF FlowInv, HandsFit
<1>2. ASSUME NEW keyed \in BOOLEAN, NEW chosen \in SUBSET Chunks, Check(q, keyed, chosen)
      PROVE  FlowInv'
  <2>1. [pc |-> "checked", keyed |-> keyed, chosen |-> chosen] \in Request
    BY DEF Request
  <2>2. request' \in [Requests -> Request] /\ UNCHANGED <<batches, runs, tasks, ending, worker>>
    BY <1>1, <1>2, <2>1 DEF Check
  <2>3. HandsFit'
    BY <1>1, <2>2, HandsGrow DEF Batches
  <2> QED
    BY <2>2, <2>3, TablesRest
<1>3. CASE Drop(q)
  <2>1. Idle \in Request
    BY DEF Idle, Request
  <2>2. request' \in [Requests -> Request] /\ UNCHANGED <<batches, runs, tasks, ending, worker>>
    BY <1>1, <1>3, <2>1 DEF Drop
  <2>3. HandsFit'
    BY <1>1, <2>2, HandsGrow DEF Batches
  <2> QED
    BY <2>2, <2>3, TablesRest
<1> QED
  BY <1>2, <1>3, CreateKeeps DEF Ask

LEMMA WorkKeeps ==
  ASSUME FlowInv, NEW r \in Runners, Work(r)
  PROVE  FlowInv'
<1>1. ASSUME NEW b \in Batches, Poll(r, b) PROVE FlowInv'
  <2>1. batches[b].done \in Nat /\ Parent \in Parts
    BY NumbersOf DEF FlowInv, Batch, Parts
  <2> QED
    BY <1>1, <2>1, ClaimsKeep DEF Poll
<1>2. ASSUME NEW b \in Batches, NEW c \in Chunks, Begin(r, b, c) PROVE FlowInv'
  BY <1>2, ChildIsNotParent, ClaimsKeep DEF Begin
<1>3. CASE Stale(r) \/ Dies(r)
  <2>1. Stops(r) /\ UNCHANGED <<batches, runs, tasks, ending, request>>
    BY <1>3 DEF Stale, Dies
  <2>2. HandsFit'
    BY <2>1, SlotStops DEF FlowInv
  <2> QED
    BY <2>1, <2>2, TablesRest
<1> QED
  BY <1>1, <1>2, <1>3, PublishKeeps, PollAgainKeeps, FinishBatchKeeps, SettleKeeps DEF Work

LEMMA ManageKeeps ==
  ASSUME FlowInv, NEW b \in Batches, Manage(b)
  PROVE  FlowInv'
BY RetryKeeps, CancelBatchKeeps, CancelChildKeeps, CommitChildKeeps, UnendKeeps, ReapKeeps
DEF Manage

LEMMA InitInv == Init => FlowInv
<1> SUFFICES ASSUME Init PROVE FlowInv
  OBVIOUS
<1>1. Len(batches) = 0 /\ batches \in Seq(Batch) /\ Batches = {} /\ MaxBatches \in Nat
  BY GenerationAssumption DEF Init, Batches, GenerationAssumption
<1>2. /\ Absent \in Task /\ Absent.status = "absent"
  BY StatusTypes DEF Statuses, Absent
<1>3. TablesFit
  BY <1>1, <1>2 DEF Init, TablesFit, RunStatus, Numbers
<1>4. Free \in Worker /\ Free.pc = "idle" /\ Idle \in Request
  BY DEF Free, Worker, Idle, Request
<1>5. HandsFit
  BY <1>4 DEF Init, HandsFit, OneInside
<1>6. ASSUME NEW b \in Numbers PROVE JobsAgree(b)
  <2>1. \A p \in Parts : tasks[b][p].status = "absent"
    BY <1>2 DEF Init, Numbers
  <2>2. \A c \in Chunks : runs[b][c] = "none" /\ ending[b][c] = "no"
    BY DEF Init, Numbers
  <2> QED
    BY <1>1, <2>1, <2>2, ChildIsNotParent DEF JobsAgree, RunOf, Live
<1> QED
  BY <1>1, <1>3, <1>5, <1>6 DEF FlowInv

LEMMA StepInv == FlowInv /\ [Next]_vars => FlowInv'
<1> SUFFICES ASSUME FlowInv, [Next]_vars PROVE FlowInv'
  OBVIOUS
<1>1. CASE UNCHANGED vars
  <2>1. HandsFit'
    BY <1>1, HandsRest DEF vars, FlowInv
  <2> QED
    BY <1>1, <2>1, TablesRest DEF vars
<1>2. CASE Next
  BY <1>2, AskKeeps, WorkKeeps, ManageKeeps DEF Next
<1> QED
  BY <1>1, <1>2

LEMMA FlowInvHolds == Spec => []FlowInv
BY InitInv, StepInv, PTL DEF Spec
-----------------------------------------------------------------------------
(* The variables have their types, and two attempts are never inside the   *)
(* same chunk: an attempt that begins finds nobody working on its row.     *)
THEOREM TypeCorrect == Spec => []TypeOK
<1>1. FlowInv => TypeOK
  BY DEF FlowInv, TablesFit, HandsFit, OneInside, TypeOK, Numbers
<1> QED
  BY <1>1, FlowInvHolds, PTL

(* Only the chunks a batch was asked for succeed in it.                    *)
LEMMA SucceededWereAsked ==
  ASSUME FlowInv, NEW b \in Batches
  PROVE  Succeeded(b) \subseteq batches[b].chunks
<1>1. JobsAgree(b)
  BY NumbersOf DEF FlowInv
<1> QED
  BY <1>1 DEF Succeeded, JobsAgree, RunOf

(* Along a lineage of retries, however long, a chunk is generated          *)
(* successfully at most once: a source is at rest when it is retried and   *)
(* stays so, and its retry asks only for what it lacks.                    *)
THEOREM OncePerChainHolds == Spec => []OncePerChain
<1>1. ASSUME FlowInv PROVE OncePerChain
  <2> SUFFICES ASSUME NEW n \in Batches, NEW b \in Lineage(n) \ {n}
               PROVE  Succeeded(n) \intersect Succeeded(b) = {}
    BY DEF OncePerChain
  <2> DEFINE Lacks(m) == batches[n].chunks \subseteq batches[m].chunks \ Succeeded(m)
             S == {n} \union {m \in Batches : Lacks(m)}
  <2>1. n \in S /\ S \in SUBSET Batches
    OBVIOUS
  <2>2. ASSUME NEW m \in S, Before(m) # 0 PROVE Before(m) \in S
    <3>1. /\ Before(m) \in Batches
          /\ batches[m].chunks \subseteq batches[Before(m)].chunks \ Succeeded(Before(m))
      BY <1>1, <2>1, <2>2 DEF FlowInv, Retried
    <3>2. batches[n].chunks \subseteq batches[m].chunks
      OBVIOUS
    <3> QED
      BY <3>1, <3>2
  <2> HIDE DEF S
  <2>3. b \in S
    BY <2>1, <2>2 DEF Lineage
  <2>4. Lacks(b)
    BY <2>3 DEF S
  <2>5. Succeeded(n) \subseteq batches[n].chunks
    BY <1>1, SucceededWereAsked
  <2> QED
    BY <2>4, <2>5
<1> QED
  BY <1>1, FlowInvHolds, PTL

(* A completed batch has a candidate for every chunk it was asked for, and *)
(* its counter agrees: every publication counted while the batch was open. *)
THEOREM CompletedIsWholeHolds == Spec => []CompletedIsWhole
<1>1. FlowInv => CompletedIsWhole
  BY DEF FlowInv, BatchFits, Counted, Whole, CompletedIsWhole
<1> QED
  BY <1>1, FlowInvHolds, PTL

(* A summary that was written lists exactly the candidates of the batch,   *)
(* for good: no run of the batch is left that could add one.               *)
THEOREM SummaryListsHolds == Spec => []SummaryLists
<1>1. FlowInv => SummaryLists
  BY DEF FlowInv, BatchFits, Summed, SummaryLists
<1> QED
  BY <1>1, FlowInvHolds, PTL
-----------------------------------------------------------------------------
(* Which steps add a success.                                              *)

SuccessesStay == \A a \in Batches : Succeeded(a)' = Succeeded(a)

LEMMA SameRuns ==
  ASSUME runs' = runs
  PROVE  SuccessesStay
BY DEF SuccessesStay, Succeeded

(* A hook never completes a run.                                           *)
LEMMA HookedRun ==
  ASSUME FlowInv, NEW b \in Batches, NEW c \in Chunks, NEW status \in {"failed", "cancelled"},
         runs' = [runs EXCEPT ![b][c] = RunHook(@, status)]
  PROVE  SuccessesStay
<1>1. runs \in [Numbers -> [Chunks -> RunStatus]] /\ b \in Numbers /\ Batches \subseteq Numbers
  BY NumbersOf DEF FlowInv, TablesFit
<1>2. PICK x : x = RunHook(runs[b][c], status) /\ (x = "completed" <=> runs[b][c] = "completed")
  BY DEF RunHook
<1>3. runs' = [runs EXCEPT ![b][c] = x]
  BY <1>2
<1>4. \A a \in Batches, d \in Chunks : runs'[a][d] = "completed" <=> runs[a][d] = "completed"
  BY <1>1, <1>2, <1>3
<1> QED
  BY <1>4 DEF SuccessesStay, Succeeded

LEMMA EndsAddNothing ==
  ASSUME FlowInv, NEW b \in Batches, NEW p \in Parts, NEW own,
         NEW status \in {"failed", "cancelled"}, Ends(b, p, status, own)
  PROVE  SuccessesStay
<1>1. CASE p = Parent
  BY <1>1, SameRuns DEF Ends, ParentEnds
<1>2. CASE p # Parent /\ ChildStartsEnding(b, p, status, own)
  BY <1>2, SameRuns DEF ChildStartsEnding
<1>3. CASE p # Parent /\ ChildEnds(b, p, status, own)
  <2>1. runs' = [runs EXCEPT ![b] = [runs[b] EXCEPT ![p] = RunHook(@, status)]]
    BY <1>3 DEF ChildEnds
  <2>2. runs' = [runs EXCEPT ![b][p] = RunHook(@, status)]
    BY <2>1
  <2>3. p \in Chunks
    BY <1>3 DEF Parts
  <2> QED
    BY <2>2, <2>3, HookedRun
<1> QED
  BY <1>1, <1>2, <1>3 DEF Ends

LEMMA CancelAddsNothing ==
  ASSUME FlowInv, NEW b \in Batches, CancelBatch(b)
  PROVE  SuccessesStay
<1> DEFINE rs == [c \in Chunks |-> IF c \in LiveParts(b) /\ tasks[b][c].status = "queued"
                                   THEN RunHook(runs[b][c], "cancelled") ELSE runs[b][c]]
<1>1. runs \in [Numbers -> [Chunks -> RunStatus]] /\ b \in Numbers /\ Batches \subseteq Numbers
  BY NumbersOf DEF FlowInv, TablesFit
<1>2. runs' = [runs EXCEPT ![b] = rs]
  BY DEF CancelBatch
<1>3. \A c \in Chunks : rs[c] = "completed" <=> runs[b][c] = "completed"
  BY DEF RunHook
<1> HIDE DEF rs
<1>4. \A a \in Batches : runs'[a] = IF a = b THEN rs ELSE runs[a]
  BY <1>1, <1>2
<1> QED
  BY <1>3, <1>4 DEF SuccessesStay, Succeeded

LEMMA NewAddsNothing ==
  ASSUME FlowInv, NEW chosen, NEW source, NewBatch(chosen, source)
  PROVE  SuccessesStay
<1>1. PICK b, rs : runs' = [runs EXCEPT ![b] = rs] /\ b = Len(batches) + 1
  BY DEF NewBatch
<1>2. /\ Len(batches) \in Nat /\ Batches \subseteq Numbers /\ b \notin Batches
      /\ runs \in [Numbers -> [Chunks -> RunStatus]]
  BY <1>1, NumbersOf DEF FlowInv, TablesFit, Batches
<1>3. \A a \in Batches : runs'[a] = runs[a]
  BY <1>1, <1>2
<1> QED
  BY <1>3 DEF SuccessesStay, Succeeded

(* The child that publishes is processing, so that its batch is not        *)
(* cancelled: a cancelled batch has stopped its children.                  *)
LEMMA PublishAddsNothing ==
  ASSUME FlowInv, NEW r \in Runners, Publish(r)
  PROVE  AddsNothing
<1>1. PICK b \in Batches, c \in Chunks : b = worker[r].job[1] /\ c = worker[r].job[2]
  BY JobOf DEF Publish, FlowInv
<1>2. /\ runs' = [runs EXCEPT ![b][c] = "completed"] /\ tasks[b][c].status = "processing"
  BY <1>1 DEF Publish, Owns, StatusOf
<1>3. \A a \in Numbers \ {b} : runs'[a] = runs[a]
  BY <1>2, RunWritten DEF FlowInv, RunStatus, Ended
<1>4. batches[b].status # "cancelled"
  <2>1. BatchFits(b)
    BY DEF FlowInv
  <2> QED
    BY <1>2, <2>1 DEF BatchFits, Stopped, HeadAgrees, Open
<1>5. Batches \subseteq Numbers
  BY NumbersOf DEF FlowInv
<1> QED
  BY <1>3, <1>4, <1>5 DEF AddsNothing, Succeeded

LEMMA OthersAddNothing ==
  ASSUME FlowInv, Next, \A r \in Runners : ~Publish(r)
  PROVE  SuccessesStay
<1>1. ASSUME NEW q \in Requests, Ask(q) PROVE SuccessesStay
  BY <1>1, NewAddsNothing, SameRuns DEF Ask, Check, Create, Drop
<1>2. ASSUME NEW r \in Runners, Work(r) PROVE SuccessesStay
  <2>1. CASE Settle(r)
    <3>1. PICK b \in Batches, p \in Parts : b = worker[r].job[1] /\ p = worker[r].job[2]
      BY <2>1, JobOf DEF Settle, FlowInv
    <3>2. Requeues(b, p) \/ Ends(b, p, "cancelled", {r}) \/ Ends(b, p, "failed", {r})
      BY <2>1, <3>1 DEF Settle
    <3> QED
      BY <3>2, EndsAddNothing, SameRuns DEF Requeues
  <2>2. CASE Work(r) /\ ~Settle(r)
    BY <2>2, SameRuns DEF Work, Poll, Begin, Claims, Stale, Dies, PollAgain, FinishBatch
  <2> QED
    BY <1>2, <2>1, <2>2
<1>3. ASSUME NEW b \in Batches, Manage(b) PROVE SuccessesStay
  <2>1. ASSUME NEW p \in Parts, Reap(b, p) PROVE SuccessesStay
    <3>1. Requeues(b, p) \/ Ends(b, p, "cancelled", {}) \/ Ends(b, p, "failed", {})
      BY <2>1 DEF Reap
    <3> QED
      BY <3>1, EndsAddNothing, SameRuns DEF Requeues
  <2>2. ASSUME NEW c \in Chunks, CancelChild(b, c) PROVE SuccessesStay
    BY <2>2, ChildIsNotParent, EndsAddNothing, SameRuns DEF CancelChild
  <2>3. ASSUME NEW c \in Chunks, CommitChild(b, c) PROVE SuccessesStay
    <3>1. PICK status \in {"failed", "cancelled"} : ending[b][c] = status
      BY <2>3, NumbersOf DEF CommitChild, RowFree, FlowInv, TablesFit
    <3>2. runs' = [runs EXCEPT ![b][c] = RunHook(@, status)]
      BY <2>3, <3>1 DEF CommitChild
    <3> QED
      BY <3>2, HookedRun
  <2>4. ASSUME NEW c \in Chunks, Unend(b, c) PROVE SuccessesStay
    BY <2>4, SameRuns DEF Unend
  <2>5. CASE Retry(b)
    BY <2>5, NewAddsNothing DEF Retry
  <2>6. CASE CancelBatch(b)
    BY <2>6, CancelAddsNothing
  <2> QED
    BY <1>3, <2>1, <2>2, <2>3, <2>4, <2>5, <2>6 DEF Manage
<1> QED
  BY <1>1, <1>2, <1>3 DEF Next

(* Once a batch is cancelled none of its chunks is generated any more: the *)
(* request told every child to stop before the batch could be cancelled.   *)
THEOREM NothingAfterCancelHolds == Spec => NothingAfterCancel
<1>1. ASSUME FlowInv, [Next]_vars PROVE AddsNothing
  <2>1. CASE UNCHANGED vars
    BY <2>1 DEF vars, AddsNothing, Succeeded
  <2>2. CASE Next /\ \A r \in Runners : ~Publish(r)
    BY <1>1, <2>2, OthersAddNothing DEF SuccessesStay, AddsNothing
  <2>3. CASE \E r \in Runners : Publish(r)
    BY <1>1, <2>3, PublishAddsNothing
  <2> QED
    BY <1>1, <2>1, <2>2, <2>3
<1> QED
  BY <1>1, FlowInvHolds, PTL DEF Spec, NothingAfterCancel
=============================================================================
