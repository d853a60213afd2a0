--------------------------- MODULE GenerationFlow ---------------------------
(***************************************************************************)
(* Generation batches of one document: requests that start a batch, the    *)
(* child task of every chunk, the parent task that polls them, the hooks   *)
(* that settle runs and batches when a task fails or is cancelled, and     *)
(* retries that derive a new batch. services/generation_service.py,        *)
(* services/generation_retry_service.py, workers/generate_worker.py and    *)
(* the generation parts of workers/lifecycle.py and of task_service.py.    *)
(*                                                                         *)
(* Of the queue (TaskQueue) there remain the status of a task and the      *)
(* runner its token belongs to: leases are abstracted to a reaper that may *)
(* come at any moment, and whether a failed attempt is repeated is left    *)
(* open. A transaction that waits for rows is one step at its end, where   *)
(* nothing it read before can have changed, and two steps elsewhere.       *)
(***************************************************************************)
EXTENDS Naturals, Sequences, FiniteSets

CONSTANTS Chunks,     \* the chunks of the active chunk set
          Runners,    \* runner slots
          Requests,   \* requests in progress at the same time
          Parent,     \* names the task of a batch that polls the others
          MaxBatches, \* bound: batches, counting retries
          MaxRuns     \* bound: runs of all batches

ASSUME GenerationAssumption ==
  /\ IsFiniteSet(Chunks) /\ Parent \notin Chunks
  /\ MaxBatches \in Nat /\ MaxRuns \in Nat

VARIABLES batches,  \* committed generation batches
          runs,     \* runs[b][c]: the generation run of a chunk in a batch
          tasks,    \* tasks[b][p]: the task of the batch or of one of its chunks
          ending,   \* what a transaction that ends a task has read so far
          worker,   \* what each runner slot does
          request   \* what each request has read

vars == <<batches, runs, tasks, ending, worker, request>>

Parts == Chunks \union {Parent}
Jobs == (1..MaxBatches) \X Parts
Nobody == "nobody"

Live   == {"queued", "processing", "cancelling"}
Ended  == {"completed", "failed", "cancelled"}

(* summary_json is NULL or the list of candidates and a counted number.    *)
Summary == [known : BOOLEAN, listed : SUBSET Chunks, succeeded : Nat]
Batch == [chunks : SUBSET Chunks, retryOf : 0..MaxBatches,
          status : {"pending", "processing"} \union Ended,
          done : Nat, summary : Summary]
NoSummary == [known |-> FALSE, listed |-> {}, succeeded |-> 0]

(* A handler writes "processing" and "generating" in the transaction that  *)
(* ends with "completed" or is rolled back, so that others never see it. A *)
(* candidate is inserted together with the completed run.                  *)
RunStatus == {"none", "queued"} \union Ended
Task == [status : {"absent"} \union Live \union Ended, owner : Runners \union {Nobody}]
Absent == [status |-> "absent", owner |-> Nobody]
Queued == [status |-> "queued", owner |-> Nobody]

Worker == [pc : {"idle", "working", "polled"},
           job : Jobs \union {<<>>}, seen : Nat]
Free == [pc |-> "idle", job |-> <<>>, seen |-> 0]
Request == [pc : {"idle", "checked"}, keyed : BOOLEAN, chosen : SUBSET Chunks]
Idle == [pc |-> "idle", keyed |-> FALSE, chosen |-> {}]

Init == /\ batches = <<>>
        /\ runs = [b \in 1..MaxBatches |-> [c \in Chunks |-> "none"]]
        /\ tasks = [b \in 1..MaxBatches |-> [p \in Parts |-> Absent]]
        /\ ending = [b \in 1..MaxBatches |-> [c \in Chunks |-> "no"]]
        /\ worker = [r \in Runners |-> Free]
        /\ request = [q \in Requests |-> Idle]
-----------------------------------------------------------------------------
Batches == 1..Len(batches)
Open(b) == batches[b].status \in {"pending", "processing"}
Succeeded(b) == {c \in Chunks : runs[b][c] = "completed"}

(* Chunk.status is "generated" after the first success, else "ready".      *)
Ready == {c \in Chunks : \A b \in Batches : runs[b][c] # "completed"}

Runs == {x \in Batches \X Chunks : x[2] \in batches[x[1]].chunks}

(* The batch and its tasks and runs, created in one transaction.           *)
NewBatch(chosen, source) ==
  LET b == Len(batches) + 1
  IN /\ b <= MaxBatches /\ Cardinality(Runs) + Cardinality(chosen) <= MaxRuns
     /\ batches' = Append(batches, [chunks |-> chosen, retryOf |-> source,
                                    status |-> "pending", done |-> 0, summary |-> NoSummary])
     /\ runs' = [runs EXCEPT ![b] = [c \in Chunks |-> IF c \in chosen THEN "queued" ELSE "none"]]
     /\ tasks' = [tasks EXCEPT ![b] = [p \in Parts |-> IF p \in chosen \union {Parent}
                                                       THEN Queued ELSE Absent]]

(* resolve_idempotent_request holds the Document row to the end, which the *)
(* foreign key of every new batch has to wait for.                         *)
DocumentFree(q) ==
  \A p \in Requests \ {q} : ~(request[p].pc = "checked" /\ request[p].keyed)

(* A request with or without an idempotency key: the chunks asked for are  *)
(* ready, and no batch of the document is in progress.                     *)
Check(q, keyed, chosen) ==
  /\ request[q].pc = "idle"
  /\ keyed => DocumentFree(q)
  /\ chosen # {} /\ chosen \subseteq Ready
  /\ \A b \in Batches : ~Open(b)
  /\ request' = [request EXCEPT ![q] = [pc |-> "checked", keyed |-> keyed, chosen |-> chosen]]
  /\ UNCHANGED <<batches, runs, tasks, ending, worker>>

Create(q) ==
  /\ request[q].pc = "checked" /\ DocumentFree(q)
  /\ NewBatch(request[q].chosen, 0)
  /\ request' = [request EXCEPT ![q] = Idle]
  /\ UNCHANGED <<ending, worker>>

(* The request fails or its process dies; nothing was committed.           *)
Drop(q) ==
  /\ request[q].pc = "checked"
  /\ request' = [request EXCEPT ![q] = Idle]
  /\ UNCHANGED <<batches, runs, tasks, ending, worker>>

(* Bug: a batch is retried while some of its tasks are still running.      *)
AnyTasks(b) == b \in Batches

AllTasksEnded(b) == \A p \in Parts : tasks[b][p].status \notin Live

(* plan_retry, under the lock of the source batch: the chunks without a    *)
(* completed run, whatever their status is by now.                         *)
Retry(b) ==
  LET rest == batches[b].chunks \ Succeeded(b)
  IN /\ batches[b].status \in {"failed", "cancelled"}
     /\ AllTasksEnded(b)
     /\ \A n \in Batches : batches[n].retryOf # b
     /\ rest # {}
     /\ NewBatch(rest, b)
     /\ UNCHANGED <<ending, worker, request>>
-----------------------------------------------------------------------------
(* Rows and their locks.                                                   *)
RowFree(b, p) == p \in Chunks => ending[b][p] = "no"
LockedBy(q, b, c) == worker[q].pc = "working" /\ worker[q].job = <<b, c>>
RunFree(b, c, own) == \A q \in Runners \ own : ~LockedBy(q, b, c)

(* Bug: an attempt does not wait for the chunk's row.                      *)
ChunkIsThere(c) == c \in Chunks

ChunkFree(c) == \A r \in Runners : ~(worker[r].pc = "working" /\ worker[r].job[2] = c)

Turns(r, pc) == worker' = [worker EXCEPT ![r].pc = pc]
Stops(r) == worker' = [worker EXCEPT ![r] = Free]
Moved(status) == [status |-> status, owner |-> Nobody]
Moves(b, p, status) == tasks' = [tasks EXCEPT ![b][p] = Moved(status)]

(* The task still carries the run token of r's attempt.                    *)
HasToken(r) == tasks[worker[r].job[1]][worker[r].job[2]].owner = r
StatusOf(r) == tasks[worker[r].job[1]][worker[r].job[2]].status
CancelSeen(r) == HasToken(r) /\ StatusOf(r) = "cancelling"
Owns(r) == HasToken(r) /\ StatusOf(r) = "processing"

Claims(r, b, p, pc, seen) ==
  /\ worker[r].pc = "idle"
  /\ tasks[b][p].status = "queued" /\ RowFree(b, p)
  /\ tasks' = [tasks EXCEPT ![b][p] = [status |-> "processing", owner |-> r]]
  /\ worker' = [worker EXCEPT ![r] = [pc |-> pc, job |-> <<b, p>>, seen |-> seen]]
  /\ UNCHANGED <<batches, runs, ending, request>>

(* run_generate_single_handler up to the call of the model: its first      *)
(* writes lock the run and the chunk until the attempt ends. An attempt    *)
(* that has to wait for an older one is claimed when that one ends.        *)
Begin(r, b, c) ==
  /\ RunFree(b, c, {}) /\ ChunkFree(c) /\ runs[b][c] # "completed"
  /\ Claims(r, b, c, "working", 0)

(* A checkpoint or a CAS finds the token lost: nothing more is written.    *)
Stale(r) ==
  /\ worker[r].pc # "idle"
  /\ ~HasToken(r)
  /\ Stops(r)
  /\ UNCHANGED <<batches, runs, tasks, ending, request>>

Dies(r) ==
  /\ worker[r].pc # "idle"
  /\ Stops(r)
  /\ UNCHANGED <<batches, runs, tasks, ending, request>>

(* _increment_batch_completed.                                             *)
Counts(b) == Open(b) /\ batches[b].done < Cardinality(batches[b].chunks)

(* lock_for_publish, the completed run with its candidate, the chunk, the  *)
(* counter of the batch and the completed task commit together.            *)
Publish(r) ==
  LET b == worker[r].job[1]
      c == worker[r].job[2]
  IN /\ worker[r].pc = "working" /\ Owns(r) /\ RowFree(b, c)
     /\ runs' = [runs EXCEPT ![b][c] = "completed"]
     /\ batches' = [batches EXCEPT ![b].done = IF Counts(b) THEN @ + 1 ELSE @]
     /\ Moves(b, c, "completed")
     /\ Stops(r)
     /\ UNCHANGED <<ending, request>>
-----------------------------------------------------------------------------
(* run_generate_batch_handler: the batch is read before the task's row is  *)
(* locked, and the children are counted after.                             *)
Poll(r, b) == Open(b) /\ Claims(r, b, Parent, "polled", batches[b].done)

Having(b, statuses) == {c \in batches[b].chunks : tasks[b][c].status \in statuses}

(* Bug: a failed child does not keep the batch from being completed.       *)
AllChildrenEnded(b) == Having(b, Ended) = batches[b].chunks

AllCompleted(b) == Having(b, {"completed"}) = batches[b].chunks

(* The next round: back to the queue.                                      *)
PollAgain(r) ==
  LET b == worker[r].job[1]
  IN /\ worker[r].pc = "polled" /\ Owns(r) /\ RowFree(b, Parent)
     /\ Having(b, Ended) # batches[b].chunks
     /\ batches' = [batches EXCEPT ![b].status = "processing"]
     /\ Moves(b, Parent, "queued")
     /\ Stops(r)
     /\ UNCHANGED <<runs, ending, request>>

(* _finalize_batch_completed. The count is the one read by Poll, the list  *)
(* is read now.                                                            *)
FinishBatch(r) ==
  LET b == worker[r].job[1]
  IN /\ worker[r].pc = "polled" /\ Owns(r) /\ RowFree(b, Parent)
     /\ AllCompleted(b)
     /\ batches' = [batches EXCEPT ![b].status = "completed",
                      ![b].summary = [known |-> TRUE, listed |-> Succeeded(b),
                                      succeeded |-> worker[r].seen]]
     /\ Moves(b, Parent, "completed")
     /\ Stops(r)
     /\ UNCHANGED <<runs, ending, request>>
-----------------------------------------------------------------------------
(* Terminal hooks. What the batch hook writes, from the runs rs of batch b *)
(* as its transaction sees them.                                           *)
Done(rs) == {c \in Chunks : rs[c] = "completed"}

(* Bug: the summary is written whether or not the runs have ended.         *)
AlwaysSettled(rs) == DOMAIN rs = Chunks

Settled(rs) == \A c \in Chunks : rs[c] # "queued"

Summarised(batch, status, seen, settled) ==
  [batch EXCEPT !.status = status, !.done = Cardinality(seen),
     !.summary = IF settled THEN [known |-> TRUE, listed |-> seen,
                                  succeeded |-> Cardinality(seen)]
                 ELSE NoSummary]

(* _make_batch_terminal_hook: CAS on pending, processing or the same end.  *)
BatchHook(batch, status, seen, settled) ==
  IF batch.status \in {"pending", "processing", status}
  THEN Summarised(batch, status, seen, settled) ELSE batch

RunHook(run, status) == IF run = "queued" THEN status ELSE run

(* _generation_terminal for a child: its run; and the summary, if the      *)
(* batch is cancelled already, written under the lock of the batch.        *)
ChildEnds(b, c, status, own) ==
  LET rs == [runs[b] EXCEPT ![c] = RunHook(@, status)]
  IN /\ RowFree(b, c) /\ RunFree(b, c, own)
     /\ batches[b].status = "cancelled"
     /\ batches' = [batches EXCEPT ![b] = BatchHook(@, "cancelled", Done(rs), Settled(rs))]
     /\ runs' = [runs EXCEPT ![b] = rs]
     /\ Moves(b, c, status)
     /\ UNCHANGED ending

(* A batch that is not cancelled is left to its own task.                  *)
ChildStartsEnding(b, c, status, own) ==
  /\ RowFree(b, c) /\ RunFree(b, c, own)
  /\ batches[b].status # "cancelled"
  /\ ending' = [ending EXCEPT ![b][c] = status]
  /\ UNCHANGED <<batches, runs, tasks>>

(* The hook of the batch. A child that publishes between its two           *)
(* statements would change nothing but the counter it writes.              *)
ParentEnds(b, status) ==
  /\ batches' = [batches EXCEPT ![b] = BatchHook(@, status, Done(runs[b]), Settled(runs[b]))]
  /\ Moves(b, Parent, status)
  /\ UNCHANGED <<runs, ending>>

Ends(b, p, status, own) ==
  IF p = Parent THEN ParentEnds(b, status)
  ELSE ChildEnds(b, p, status, own) \/ ChildStartsEnding(b, p, status, own)

CommitChild(b, c) ==
  /\ ~RowFree(b, c)
  /\ runs' = [runs EXCEPT ![b][c] = RunHook(@, ending[b][c])]
  /\ Moves(b, c, ending[b][c])
  /\ ending' = [ending EXCEPT ![b][c] = "no"]
  /\ UNCHANGED <<batches, worker, request>>

(* The transaction that was to end a child is rolled back.                 *)
Unend(b, c) ==
  /\ ~RowFree(b, c)
  /\ ending' = [ending EXCEPT ![b][c] = "no"]
  /\ UNCHANGED <<batches, runs, tasks, worker, request>>
-----------------------------------------------------------------------------
Requeues(b, p) == RowFree(b, p) /\ Moves(b, p, "queued") /\ UNCHANGED <<batches, runs, ending>>

(* The handler raises, or a checkpoint tells it of a cancel request. Its   *)
(* writes are rolled back, and _apply_terminal_outcome settles the task in *)
(* a new transaction that keeps the task's row while the hook waits.       *)
Settle(r) ==
  LET b == worker[r].job[1]
      p == worker[r].job[2]
  IN /\ worker[r].pc # "idle"
     /\ \/ CancelSeen(r) /\ Ends(b, p, "cancelled", {r})
        \/ Owns(r) /\ (Requeues(b, p) \/ Ends(b, p, "failed", {r}))
     /\ Stops(r)
     /\ UNCHANGED request

(* reap_expired, for a task whose lease has run out.                       *)
Reap(b, p) ==
  /\ \/ tasks[b][p].status = "cancelling" /\ Ends(b, p, "cancelled", {})
     \/ tasks[b][p].status = "processing" /\ (Requeues(b, p) \/ Ends(b, p, "failed", {}))
  /\ UNCHANGED <<worker, request>>

CancelRow(task) == CASE task.status = "queued"     -> Moved("cancelled")
                     [] task.status = "processing" -> [task EXCEPT !.status = "cancelling"]
                     [] OTHER                      -> task

(* Bug: request_cancel forgets the children.                               *)
ParentOnly(b) == {Parent} \intersect {p \in Parts : tasks[b][p].status \in Live}

LiveParts(b) == {p \in Parts : tasks[b][p].status \in Live}

(* request_cancel of the batch's task: every child first, each with its    *)
(* hook, then the parent, whose hook sees what became of the children.     *)
CancelBatch(b) ==
  LET rs == [c \in Chunks |-> IF c \in LiveParts(b) /\ tasks[b][c].status = "queued"
                              THEN RunHook(runs[b][c], "cancelled") ELSE runs[b][c]]
  IN /\ tasks[b][Parent].status \in Live
     /\ \A p \in LiveParts(b) : RowFree(b, p) /\ (tasks[b][p].status = "queued" => RunFree(b, p, {}))
     /\ tasks' = [tasks EXCEPT ![b] =
                    [p \in Parts |-> IF p \in LiveParts(b) THEN CancelRow(@[p]) ELSE @[p]]]
     /\ runs' = [runs EXCEPT ![b] = rs]
     /\ IF tasks[b][Parent].status = "queued"
        THEN /\ batches' = [batches EXCEPT ![b] = BatchHook(@, "cancelled", Done(rs), Settled(rs))]
        ELSE UNCHANGED <<batches>>
     /\ UNCHANGED <<ending, worker, request>>

(* request_cancel of one child.                                            *)
CancelChild(b, c) ==
  /\ \/ tasks[b][c].status = "queued" /\ Ends(b, c, "cancelled", {})
     \/ /\ tasks[b][c].status = "processing" /\ RowFree(b, c)
        /\ tasks' = [tasks EXCEPT ![b][c] = CancelRow(@)]
        /\ UNCHANGED <<batches, runs, ending>>
  /\ UNCHANGED <<worker, request>>
-----------------------------------------------------------------------------
Ask(q) == \/ \E keyed \in BOOLEAN, chosen \in SUBSET Chunks : Check(q, keyed, chosen)
          \/ Create(q) \/ Drop(q)
Work(r) == \/ \E b \in Batches : Poll(r, b) \/ \E c \in Chunks : Begin(r, b, c)
           \/ Stale(r) \/ Dies(r) \/ Publish(r)
           \/ PollAgain(r) \/ FinishBatch(r) \/ Settle(r)
Manage(b) == \/ Retry(b) \/ CancelBatch(b)
             \/ \E c \in Chunks : CancelChild(b, c) \/ CommitChild(b, c) \/ Unend(b, c)
             \/ \E p \in Parts : Reap(b, p)

Next == \/ \E q \in Requests : Ask(q)
        \/ \E r \in Runners : Work(r)
        \/ \E b \in Batches : Manage(b)

Spec == Init /\ [][Next]_vars
-----------------------------------------------------------------------------
(* The variables have their types, and two attempts are never inside the   *)
(* same chunk.                                                             *)
TypeOK ==
  /\ batches \in Seq(Batch) /\ Len(batches) <= MaxBatches
  /\ runs \in [1..MaxBatches -> [Chunks -> RunStatus]]
  /\ tasks \in [1..MaxBatches -> [Parts -> Task]]
  /\ ending \in [1..MaxBatches -> [Chunks -> {"no", "failed", "cancelled"}]]
  /\ worker \in [Runners -> Worker]
  /\ request \in [Requests -> Request]
  /\ \A q, r \in Runners :
       (worker[q].pc = "working" /\ worker[r].pc = "working"
          /\ worker[q].job[2] = worker[r].job[2]) => q = r

(* Along a lineage of retries, however long, a chunk is generated          *)
(* successfully at most once, however late an old attempt comes back       *)
(* (plan_retry refuses while a task of the source is active and copies     *)
(* only what did not succeed).                                             *)
Before(n) == batches[n].retryOf
Lineage(n) ==
  {b \in Batches : \A S \in SUBSET Batches :
     (n \in S /\ \A m \in S : Before(m) # 0 => Before(m) \in S) => b \in S}
OncePerChain ==
  \A n \in Batches : \A b \in Lineage(n) \ {n} : Succeeded(n) \intersect Succeeded(b) = {}

(* A completed batch has a candidate for every chunk it was asked for, and *)
(* its counter agrees (the parent never completes over a failed child).    *)
CompletedIsWhole ==
  \A b \in Batches : batches[b].status = "completed" =>
    /\ Succeeded(b) = batches[b].chunks
    /\ batches[b].done = Cardinality(batches[b].chunks)

(* A summary that was written lists exactly the candidates of the batch,   *)
(* now and for good: whoever writes it has seen every run end.             *)
SummaryLists ==
  \A b \in Batches : batches[b].summary.known =>
    batches[b].summary.listed = Succeeded(b) /\ Settled(runs[b])

(* Once a batch is cancelled none of its chunks is generated any more,     *)
(* although running children are only asked to stop.                       *)
AddsNothing ==
  \A b \in Batches : batches[b].status = "cancelled" => Succeeded(b)' = Succeeded(b)
NothingAfterCancel == [][AddsNothing]_vars

(* Violated by the code: a cancelled batch whose tasks have all ended has  *)
(* its final summary. The last child looks for a cancelled batch before    *)
(* the parent's hook commits, and the hook reads the runs before the child *)
(* commits.                                                                *)
CancelledIsSummarised ==
  \A b \in Batches : (batches[b].status = "cancelled" /\ AllTasksEnded(b)) =>
                       batches[b].summary.known

(* Violated by the code: the number of successes in the summary of a       *)
(* completed batch is that of its candidates.                              *)
SucceededIsCounted ==
  \A b \in Batches : batches[b].summary.known =>
    batches[b].summary.succeeded = Cardinality(batches[b].summary.listed)

(* Violated by the code: at most one batch of the document is open.        *)
OneBatchOpen == Cardinality({b \in Batches : Open(b)}) <= 1
=============================================================================
