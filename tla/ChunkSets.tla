----------------------------- MODULE ChunkSets -----------------------------
(***************************************************************************)
(* The chunk sets of one document: starting a split, the chunk_document    *)
(* task that computes it, retries, cancellation and the switch of the      *)
(* active set. services/chunk_set_service.py, workers/chunk_worker.py, the *)
(* chunk parts of workers/lifecycle.py and services/task_service.py and    *)
(* the endpoint trigger_chunk of routers/documents.py.                     *)
(*                                                                         *)
(* Of the queue (TaskQueue) only what it does to a task row remains: time  *)
(* and leases are abstracted to a reaper that may come at any moment. The  *)
(* clean versions are the pointer of ActivePointer, which CleanVersions    *)
(* implements. Locks are kept where they are held over several steps: a    *)
(* handler holds its set's row to its end and the Document row from its    *)
(* last check on; a transaction that ends a task holds the task's row      *)
(* while its callback waits for the set's row.                             *)
(***************************************************************************)
EXTENDS Naturals, Sequences, FiniteSets

CONSTANTS Runners,     \* runner slots
          Requests,    \* triggers in progress at the same time
          Keys,        \* idempotency keys of the clients
          Asks,        \* the pairs of key and wanted version that clients send
          MaxAttempts, \* Task.max_attempts
          MaxVersions, \* bound: clean versions ever accepted
          MaxSets,     \* bound: chunk sets
          MaxTasks     \* bound: tasks, counting retries

ASSUME ChunkAssumption ==
  /\ Asks \subseteq Keys \X (0..MaxVersions)
  /\ MaxAttempts \in Nat \ {0}
  /\ MaxVersions \in Nat /\ MaxSets \in Nat /\ MaxTasks \in Nat

VARIABLES clean,     \* the active clean version, 0 for none
          sets,      \* committed chunk sets, by version
          activeSet, \* Document.active_chunk_set_id, 0 for none
          tasks,     \* committed chunk tasks
          closing,   \* closing[t]: the terminal state that a transaction holding the row is about to commit
          run,       \* what each runner slot does
          request    \* what each trigger was asked and has read

vars == <<clean, sets, activeSet, tasks, closing, run, request>>

Wanted == 0..MaxVersions  \* cleaned_version_id, 0 where the client sends none
Active == {"queued", "processing", "cancelling"}
Ended  == {"completed", "failed", "cancelled"}

(* A handler writes "processing" in the transaction that ends with         *)
(* "completed" or is rolled back, so that others never see it.             *)
ChunkSet == [source : 1..MaxVersions, key : Keys \X Wanted,
             status : {"pending", "completed", "failed", "cancelled"}]
Task == [set : 1..MaxSets, retryOf : 0..MaxTasks, attempts : 0..MaxAttempts,
         status : Active \union Ended]
Run  == [pc : {"idle", "claimed", "working", "publishing", "failing"},
         task : 0..MaxTasks, attempt : 0..MaxAttempts]
Trigger == {[pc |-> "idle"]} \union
           [pc : {"free", "unused", "creating"},
            key : Keys, want : Wanted, source : 0..MaxVersions]

Free == [pc |-> "idle", task |-> 0, attempt |-> 0]
Idle == [pc |-> "idle"]

Init == /\ clean = 0
        /\ sets = <<>>
        /\ activeSet = 0
        /\ tasks = <<>>
        /\ closing = [t \in 1..MaxTasks |-> "no"]
        /\ run = [r \in Runners |-> Free]
        /\ request = [q \in Requests |-> Idle]
-----------------------------------------------------------------------------
Sets == 1..Len(sets)
Tasks == 1..Len(tasks)

SetOf(r) == tasks[run[r].task].set
HoldsSet(r) == run[r].pc \in {"working", "publishing"}

SetFree(s) == \A r \in Runners : ~(HoldsSet(r) /\ SetOf(r) = s)
DocumentFree == \A r \in Runners : run[r].pc # "publishing"

Pending == {s \in Sets : sets[s].status = "pending"}

(* uq_chunk_sets_single_active, for a set s that is to become pending.     *)
IndexAllows(s) == Pending \subseteq {s}
-----------------------------------------------------------------------------
(* Final review of a clean version (CleanVersions) locks the Document row. *)
Pointer == INSTANCE ActivePointer WITH Last <- MaxVersions, pointer <- clean

ReviewVersion ==
  /\ DocumentFree
  /\ Pointer!Advance
  /\ UNCHANGED <<sets, activeSet, tasks, closing, run, request>>
-----------------------------------------------------------------------------
(* trigger_chunk. Everything up to the creation is read without a lock.    *)
Goes(q, change) == request' = [request EXCEPT ![q] = change]
Ends(q) == Goes(q, Idle)

(* CHUNK_RUN_IN_PROGRESS if another client key's set is pending.           *)
StartChunk(q, ask) ==
  /\ request[q].pc = "idle"
  /\ \A s \in Pending : sets[s].key[1] = ask[1]
  /\ Goes(q, [pc |-> "free", key |-> ask[1], want |-> ask[2], source |-> 0])
  /\ UNCHANGED <<clean, sets, activeSet, tasks, closing, run>>

(* IDEMPOTENCY_KEY_REUSED if the client key came with another request; with *)
(* several sets of one key scalar_one_or_none raises.                      *)
LookForKey(q) ==
  /\ request[q].pc = "free"
  /\ IF \A s \in Sets : sets[s].key[1] = request[q].key => sets[s].key[2] = request[q].want
     THEN Goes(q, [request[q] EXCEPT !.pc = "unused"])
     ELSE Ends(q)
  /\ UNCHANGED <<clean, sets, activeSet, tasks, closing, run>>

(* resolve_clean_version: the active version, and no other.                *)
ResolveVersion(q) ==
  /\ request[q].pc = "unused"
  /\ IF clean # 0 /\ request[q].want \in {0, clean}
     THEN Goes(q, [request[q] EXCEPT !.pc = "creating", !.source = clean])
     ELSE Ends(q)
  /\ UNCHANGED <<clean, sets, activeSet, tasks, closing, run>>

(* create_chunk_set_task, under the Document row's lock: a set with the    *)
(* same composite key is answered; the index may refuse the new set.       *)
CreateSet(q) ==
  LET key == <<request[q].key, request[q].want>>
      new == Len(sets) + 1
  IN /\ request[q].pc = "creating" /\ DocumentFree
     /\ \/ /\ (\E s \in Sets : sets[s].key = key) \/ ~IndexAllows(new)
           /\ UNCHANGED <<sets, tasks>>
        \/ /\ \A s \in Sets : sets[s].key # key
           /\ IndexAllows(new) /\ Len(sets) < MaxSets /\ Len(tasks) < MaxTasks
           /\ sets' = Append(sets, [source |-> request[q].source, key |-> key,
                                    status |-> "pending"])
           /\ tasks' = Append(tasks, [set |-> new, retryOf |-> 0, attempts |-> 0,
                                      status |-> "queued"])
     /\ Ends(q)
     /\ UNCHANGED <<clean, activeSet, closing, run>>

(* The process that serves a trigger dies; nothing was committed.          *)
Drop(q) ==
  /\ request[q].pc # "idle"
  /\ Ends(q)
  /\ UNCHANGED <<clean, sets, activeSet, tasks, closing, run>>
-----------------------------------------------------------------------------
RowFree(t) == closing[t] = "no"
Turns(r, pc) == run' = [run EXCEPT ![r].pc = pc]
Stops(r) == run' = [run EXCEPT ![r] = Free]
Moves(t, status) == tasks' = [tasks EXCEPT ![t].status = status]

(* The task still carries the run token of r's attempt.                    *)
HasToken(r) == /\ tasks[run[r].task].status \in {"processing", "cancelling"}
               /\ tasks[run[r].task].attempts = run[r].attempt
CancelSeen(r) == HasToken(r) /\ tasks[run[r].task].status = "cancelling"

(* queue.transition to "completed": the compare-and-set on the task row.   *)
Owns(r) == HasToken(r) /\ ~CancelSeen(r)

Claim(r, t) ==
  /\ run[r].pc = "idle" /\ tasks[t].status = "queued" /\ RowFree(t)
  /\ tasks' = [tasks EXCEPT ![t] = [set |-> @.set, retryOf |-> @.retryOf,
                                    attempts |-> @.attempts + 1, status |-> "processing"]]
  /\ run' = [run EXCEPT ![r] = [pc |-> "claimed", task |-> t,
                                attempt |-> tasks[t].attempts + 1]]
  /\ UNCHANGED <<clean, sets, activeSet, closing, request>>

(* What a checkpoint, followed by a test of the handler, leads to.         *)
Checked(r, passes, next) ==
  \/ ~HasToken(r) /\ Stops(r)
  \/ HasToken(r) /\ (CancelSeen(r) \/ ~passes) /\ Turns(r, "failing")
  \/ Owns(r) /\ passes /\ Turns(r, next)

(* run_chunk_handler up to the splitter: the set's row is locked for the   *)
(* whole run, and its source must be the active version.                   *)
Begin(r) ==
  /\ run[r].pc = "claimed" /\ SetFree(SetOf(r))
  /\ Checked(r, sets[SetOf(r)].status # "completed" /\ sets[SetOf(r)].source = clean,
             "working")
  /\ UNCHANGED <<clean, sets, activeSet, tasks, closing, request>>

(* Bug: the Document read at the beginning is trusted.                     *)
SourceKnown(s) == sets[s].source # 0

SourceActive(s) == sets[s].source = clean

(* checkpoint_before_publish, and the active version read once more under  *)
(* the Document row's lock.                                                *)
Recheck(r) ==
  /\ run[r].pc = "working" /\ DocumentFree
  /\ Checked(r, SourceActive(SetOf(r)), "publishing")
  /\ UNCHANGED <<clean, sets, activeSet, tasks, closing, request>>

(* The completed set, the active pointer and the completed task commit     *)
(* together, or not at all.                                                *)
Publish(r) ==
  LET t == run[r].task
  IN /\ run[r].pc = "publishing" /\ RowFree(t)
     /\ \/ /\ Owns(r)
           /\ Moves(t, "completed")
           /\ sets' = [sets EXCEPT ![SetOf(r)].status = "completed"]
           /\ activeSet' = SetOf(r)
           /\ Stops(r)
        \/ /\ ~Owns(r)
           /\ Stops(r) \/ (CancelSeen(r) /\ Turns(r, "failing"))
           /\ UNCHANGED <<sets, activeSet, tasks>>
     /\ UNCHANGED <<clean, closing, request>>

(* The handler raises or times out; its writes are rolled back.            *)
HandlerFails(r) ==
  /\ HoldsSet(r)
  /\ Turns(r, "failing")
  /\ UNCHANGED <<clean, sets, activeSet, tasks, closing, request>>

(* The process dies, or an error outside the handler ends the attempt.     *)
Dies(r) ==
  /\ run[r].pc # "idle"
  /\ Stops(r)
  /\ UNCHANGED <<clean, sets, activeSet, tasks, closing, request>>
-----------------------------------------------------------------------------
Requeues(t) == tasks[t].attempts < MaxAttempts /\ Moves(t, "queued") /\ UNCHANGED closing
Closes(t, status) == closing' = [closing EXCEPT ![t] = status] /\ UNCHANGED tasks

(* _apply_terminal_outcome: a new transaction after the rollback.          *)
Settle(r) ==
  LET t == run[r].task
  IN /\ run[r].pc = "failing" /\ RowFree(t)
     /\ \/ ~HasToken(r) /\ UNCHANGED <<tasks, closing>>
        \/ CancelSeen(r) /\ Closes(t, "cancelled")
        \/ Owns(r) /\ (Requeues(t) \/ Closes(t, "failed"))
     /\ Stops(r)
     /\ UNCHANGED <<clean, sets, activeSet, request>>

(* reap_expired, for a task whose lease has run out.                       *)
Reap(t) ==
  /\ RowFree(t)
  /\ \/ tasks[t].status = "cancelling" /\ Closes(t, "cancelled")
     \/ tasks[t].status = "processing" /\ Requeues(t)
     \/ /\ tasks[t].status = "processing" /\ tasks[t].attempts >= MaxAttempts
        /\ Closes(t, "failed")
  /\ UNCHANGED <<clean, sets, activeSet, run, request>>

Cancel(t) ==
  /\ RowFree(t)
  /\ \/ tasks[t].status = "queued" /\ Closes(t, "cancelled")
     \/ tasks[t].status = "processing" /\ Moves(t, "cancelling") /\ UNCHANGED closing
  /\ UNCHANGED <<clean, sets, activeSet, run, request>>

(* Bug: the end of the task is not passed on to the set.                   *)
NoCallback(s, status) == IF s \in Sets THEN sets ELSE <<status>>

(* _chunk_terminal with its compare-and-set.                               *)
TerminalHook(s, status) ==
  IF sets[s].status = "pending" THEN [sets EXCEPT ![s].status = status] ELSE sets

(* The callback gets the set's row and the transaction commits.            *)
Close(t) ==
  /\ ~RowFree(t) /\ SetFree(tasks[t].set)
  /\ Moves(t, closing[t])
  /\ sets' = TerminalHook(tasks[t].set, closing[t])
  /\ closing' = [closing EXCEPT ![t] = "no"]
  /\ UNCHANGED <<clean, activeSet, run, request>>

(* The transaction is rolled back: its process dies, or the database picks *)
(* it to resolve a deadlock with a handler that is about to publish.       *)
Unclose(t) ==
  /\ ~RowFree(t)
  /\ closing' = [closing EXCEPT ![t] = "no"]
  /\ UNCHANGED <<clean, sets, activeSet, tasks, run, request>>

Retryable(s) == sets[s].status = "failed"

(* retry_task with _prepare_chunk_retry: a failed task without an active   *)
(* successor; the set becomes pending again, if the index lets it.         *)
Retry(t) ==
  /\ tasks[t].status = "failed" /\ RowFree(t)
  /\ \A u \in Tasks : tasks[u].retryOf = t => tasks[u].status \in Ended
  /\ SetFree(tasks[t].set) /\ Retryable(tasks[t].set) /\ IndexAllows(tasks[t].set)
  /\ Len(tasks) < MaxTasks
  /\ tasks' = Append(tasks, [set |-> tasks[t].set, retryOf |-> t, attempts |-> 0,
                             status |-> "queued"])
  /\ sets' = [sets EXCEPT ![tasks[t].set].status = "pending"]
  /\ UNCHANGED <<clean, activeSet, closing, run, request>>
-----------------------------------------------------------------------------
Serve(q) == \/ \E ask \in Asks : StartChunk(q, ask)
            \/ LookForKey(q) \/ ResolveVersion(q) \/ CreateSet(q) \/ Drop(q)
Work(r) == \/ \E t \in Tasks : Claim(r, t)
           \/ Begin(r) \/ Recheck(r) \/ Publish(r) \/ HandlerFails(r) \/ Dies(r) \/ Settle(r)
Manage(t) == Reap(t) \/ Cancel(t) \/ Close(t) \/ Unclose(t) \/ Retry(t)

Next == \/ ReviewVersion
        \/ \E q \in Requests : Serve(q)
        \/ \E r \in Runners : Work(r)
        \/ \E t \in Tasks : Manage(t)

Spec == Init /\ [][Next]_vars
-----------------------------------------------------------------------------
(* The variables have their types; at most one handler is inside a set and *)
(* one is about to publish.                                                *)
TypeOK ==
  /\ clean \in 0..MaxVersions
  /\ sets \in Seq(ChunkSet) /\ Len(sets) <= MaxSets
  /\ activeSet \in 0..Len(sets)
  /\ tasks \in Seq(Task) /\ Len(tasks) <= MaxTasks
  /\ closing \in [1..MaxTasks -> {"no", "failed", "cancelled"}]
  /\ run \in [Runners -> Run]
  /\ request \in [Requests -> Trigger]
  /\ \A q, r \in Runners :
       (HoldsSet(q) /\ HoldsSet(r) /\ SetOf(q) = SetOf(r)) => q = r
  /\ \A q, r \in Runners :
       (run[q].pc = "publishing" /\ run[r].pc = "publishing") => q = r

(* A set and its tasks never disagree: it is pending while exactly one of  *)
(* its tasks is under way, completed when one completed, failed or         *)
(* cancelled when none of them is under way or completed (terminal hook,   *)
(* retry preparation and publication taken together).                      *)
OfSet(s, statuses) == {t \in Tasks : tasks[t].set = s /\ tasks[t].status \in statuses}
TaskAndSetAgree ==
  \A s \in Sets :
    /\ Cardinality(OfSet(s, Active)) = IF sets[s].status = "pending" THEN 1 ELSE 0
    /\ Cardinality(OfSet(s, {"completed"})) = IF sets[s].status = "completed" THEN 1 ELSE 0

(* At most one set of a document is being computed, counting retries of    *)
(* old sets (uq_chunk_sets_single_active).                                 *)
OneSetPending == Cardinality(Pending) <= 1

(* A set becomes the active one only while its source is the active clean  *)
(* version, although a review may accept another one during the split.     *)
PublishesActive ==
  activeSet' # activeSet => sets'[activeSet'].source = clean /\ clean' = clean
PublishedFromActive == [][PublishesActive]_vars

(* A completed set is never changed again, and the active set is           *)
(* completed, whatever is retried or cancelled later.                      *)
KeepsCompleted ==
  /\ \A s \in Sets : sets[s].status = "completed" => sets'[s] = sets[s]
  /\ activeSet' # 0 => sets'[activeSet'].status = "completed"
CompletedStays == [][KeepsCompleted]_vars

(* What happens to a task here is an edge of the graph the queue keeps to, *)
(* with nothing published by an attempt that lost its task (TaskLifecycle, *)
(* which TaskQueue implements).                                            *)
Status(t) == IF t \in Tasks THEN tasks[t].status ELSE "absent"
Life == INSTANCE TaskLifecycle WITH Tasks <- 1..MaxTasks, Pollers <- {},
                                    status <- [t \in 1..MaxTasks |-> Status(t)],
                                    effects <- [t \in 1..MaxTasks |-> {}]
Follows(t) == Status(t)' = Status(t) \/ <<Status(t), Status(t)'>> \in Life!Transitions
FollowsLifecycle == \A t \in 1..MaxTasks : Follows(t)
KeepsLifecycle == [][FollowsLifecycle]_vars
=============================================================================
