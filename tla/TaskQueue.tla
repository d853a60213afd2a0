----------------------------- MODULE TaskQueue -----------------------------
(***************************************************************************)
(* The persistent task queue: the row primitives of workers/queue.py, the  *)
(* runner process of workers/runner.py and the checks of its               *)
(* ExecutionContext, over a PostgreSQL database.                           *)
(*                                                                         *)
(* A step is what one committed transaction or one await-free stretch of a *)
(* runner makes visible to the others. A transaction that other processes  *)
(* can interleave with (the claim) is several steps, with the row locks    *)
(* and advisory locks it holds until it ends.                              *)
(*                                                                         *)
(* Time is relative: a deadline is stored as the ticks left until it, and  *)
(* Tick lets one pass. _now() is read in the client before the statement   *)
(* that uses it runs, so every comparison with the clock uses a reading    *)
(* that is up to MaxLag ticks old.                                         *)
(*                                                                         *)
(* A run token is named by the attempt it was drawn for: uuid4() is fresh  *)
(* at each claim, and each claim has a new attempt number.                 *)
(***************************************************************************)
EXTENDS Integers, Sequences, FiniteSets

CONSTANTS Tasks,            \* task rows that may ever exist
          Runners,          \* runner processes, one execution slot each
          Groups,           \* (project, task_type) pairs with a default TaskPolicy
          GroupOf,          \* the group of a task
          ParentOf,         \* parent_task_id, NoTask for a root
          Pollers,          \* tasks handled by generate_batch
          Unsupported,      \* tasks whose handler/version nobody registered
          NoTask,
          ConcurrencyLimit, \* TaskPolicy.concurrency_limit of a group
          MaxAttempts,      \* max_attempts frozen in a task
          Timeout,          \* timeout_seconds frozen in a task, in ticks
          BeatLease,        \* the lease a heartbeat grants (300 s), in ticks
          Grace,            \* lease_grace_seconds of the reaper, in ticks
          Delay,            \* backoff and requeue delay, in ticks
          MaxLag,           \* bound: age of a clock reading when it is used
          MaxPolls,         \* bound: how often a polling task goes back
          MaxCrashes        \* bound: runner crashes

ASSUME QueueAssumption ==
  /\ NoTask \notin Tasks
  /\ Pollers \subseteq Tasks /\ Unsupported \subseteq Tasks
  /\ GroupOf \in [Tasks -> Groups]
  /\ ParentOf \in [Tasks -> Tasks \union {NoTask}]
  /\ ConcurrencyLimit \in [Groups -> Nat \ {0}]
  /\ MaxAttempts \in [Tasks -> Nat \ {0}]
  /\ Timeout \in [Tasks -> Nat \ {0}]
  /\ BeatLease \in Nat \ {0}
  /\ Grace \in Nat /\ Delay \in Nat /\ MaxLag \in Nat
  /\ MaxPolls \in Nat /\ MaxCrashes \in Nat

(* A child task has no children of its own: generation_service and the     *)
(* retry planner create a batch task and one task per chunk under it.      *)
ASSUME FamilyAssumption ==
  \A t \in Tasks : ParentOf[t] # NoTask => ParentOf[ParentOf[t]] = NoTask

VARIABLES task,      \* the rows of table tasks
          attempts,  \* attempts[t][n]: status of the task_attempts row (t, n)
          committed, \* committed[t]: attempts whose business writes are durable
          runner,    \* what each runner process holds in memory and locks
          crashes    \* runner crashes so far

vars == <<task, attempts, committed, runner, crashes>>

Active    == {"queued", "processing", "cancelling"}
Terminal  == {"completed", "failed", "cancelled"}
Leased    == {"processing", "cancelling"}
NoToken   == 0
Floor     == -(Grace + MaxLag + 1) \* a lease this old is as old as it can look

TaskRow == [status : Active \union Terminal \union {"absent"},
            version : Nat, token : Nat, lease : Int, nextRun : Nat]

AttemptStatus == {"processing", "completed", "failed", "cancelled", "abandoned"}

RunnerState == [pc : {"idle", "claiming", "granted", "claimed", "running",
                      "publishing", "failing"},
                rows : SUBSET Tasks,         \* task rows locked FOR UPDATE
                todo : SUBSET Tasks,         \* candidates not considered yet
                policyLocks : SUBSET Groups, \* pg_try_advisory_xact_lock held
                age : Nat,                   \* age of the claim's clock reading
                task : Tasks \union {NoTask}, token : Nat, version : Nat,
                deadline : Nat,
                outcome : {"none", "completed", "requeued", "cancelled",
                           "retriable", "permanent"}]

AbsentRow == [status |-> "absent", version |-> 0, token |-> NoToken,
              lease |-> 0, nextRun |-> 0]

IdleRunner == [pc |-> "idle", rows |-> {}, todo |-> {}, policyLocks |-> {},
               age |-> 0, task |-> NoTask, token |-> NoToken, version |-> 0,
               deadline |-> 0, outcome |-> "none"]

Init == /\ task = [t \in Tasks |-> AbsentRow]
        /\ attempts = [t \in Tasks |-> <<>>]
        /\ committed = [t \in Tasks |-> {}]
        /\ runner = [r \in Runners |-> IdleRunner]
        /\ crashes = 0
-----------------------------------------------------------------------------
(* Row predicates and row updates.                                         *)

Children(t) == {c \in Tasks : ParentOf[c] = t}

Locked(t) == \E r \in Runners : t \in runner[r].rows

(* lease_expires_at > now, with now read lag ticks ago.                    *)
LiveLease(t, lag) == task[t].lease + lag > 0

(* The count claim_due compares with the policy: leases still running.     *)
LiveInGroup(g, lag) == {t \in Tasks : /\ GroupOf[t] = g
                                      /\ task[t].status \in Leased
                                      /\ LiveLease(t, lag)}

Saturated(g, lag) == Cardinality(LiveInGroup(g, lag)) >= ConcurrencyLimit[g]

(* A CAS update that leaves the leased states clears token and lease.      *)
Moved(row, to) == [row EXCEPT !.status = to, !.version = @ + 1,
                              !.token = NoToken, !.lease = 0, !.nextRun = 0]

Requeued(row) == [Moved(row, "queued") EXCEPT !.nextRun = Delay]

Claimed(row, token, lease) ==
  [row EXCEPT !.status = "processing", !.version = @ + 1, !.token = token,
              !.lease = lease, !.nextRun = 0]

Cancelling(row) == [row EXCEPT !.status = "cancelling", !.version = @ + 1]

(* finish_attempt: only a processing attempt may be closed.                *)
Finish(history, n, to) ==
  IF n \in DOMAIN history /\ history[n] = "processing"
  THEN [history EXCEPT ![n] = to] ELSE history

(* has_retry_budget: a successful poll of generate_batch is not an attempt *)
(* that was spent.                                                         *)
Polls(t) == IF t \in Pollers
            THEN Cardinality({n \in DOMAIN attempts[t] : attempts[t][n] = "completed"})
            ELSE 0

(* Bug: asks whether another attempt was allowed before this one.          *)
HasOneRetryTooMany(t) == Len(attempts[t]) - Polls(t) <= MaxAttempts[t]

HasRetryBudget(t) == Len(attempts[t]) - Polls(t) < MaxAttempts[t]

(* The runner's attempt still owns the row.                                *)
Holds(r) == task[runner[r].task].token = runner[r].token

SetRunner(r, state) == runner' = [runner EXCEPT ![r] = state]
Release(r) == SetRunner(r, IdleRunner)
-----------------------------------------------------------------------------
(* Clients: services create task rows and the API cancels them.            *)

(* create_task for a root and, in the same transaction, for the children   *)
(* under it.                                                               *)
CreateTask(t) ==
  /\ task[t].status = "absent"
  /\ ParentOf[t] = NoTask
  /\ task' = [x \in Tasks |-> IF x \in {t} \union Children(t)
                              THEN [AbsentRow EXCEPT !.status = "queued"]
                              ELSE task[x]]
  /\ UNCHANGED <<attempts, committed, runner, crashes>>

(* What request_cancel does to one row; _mark_cancelling for a running one *)
(* and nothing for a terminal or already cancelling one.                   *)
CancelRow(row) == CASE row.status = "queued"     -> Moved(row, "cancelled")
                    [] row.status = "processing" -> Cancelling(row)
                    [] OTHER                     -> row

Cancels(t) == {t} \union Children(t)

(* request_cancel: children first, then the task, in one transaction that  *)
(* waits for the row locks of a claim in progress and keeps the locks of   *)
(* the rows it changed. A terminal task returns early and its children are *)
(* left alone; if it ends while the children are being cancelled, the call *)
(* amounts to the cancellation of the children.                            *)
RequestCancel(t) ==
  /\ task[t].status \in Active
  /\ \A x \in Cancels(t) : ~Locked(x)
  /\ task' = [x \in Tasks |-> IF x \in Cancels(t)
                              THEN CancelRow(task[x]) ELSE task[x]]
  /\ UNCHANGED <<attempts, committed, runner, crashes>>
-----------------------------------------------------------------------------
(* Claiming: one transaction, several statements.                          *)

(* The candidate query: due queued rows of groups that are not saturated,  *)
(* locked FOR UPDATE SKIP LOCKED. The order by next_run_at only decides    *)
(* which is tried first, and any order is allowed here.                    *)
ClaimSelect(r) ==
  LET candidates == {t \in Tasks : /\ task[t].status = "queued"
                                   /\ task[t].nextRun = 0
                                   /\ ~Saturated(GroupOf[t], 0)
                                   /\ ~Locked(t)}
  IN /\ runner[r].pc = "idle"
     /\ candidates # {}
     /\ SetRunner(r, [IdleRunner EXCEPT !.pc = "claiming", !.rows = candidates,
                                        !.todo = candidates])
     /\ UNCHANGED <<task, attempts, committed, crashes>>

(* Bug: the count is not serialized between runners.                       *)
PolicyLockSkipped(r, g) == r \in Runners /\ g \in Groups

PolicyLockFree(r, g) == \A q \in Runners \ {r} : g \notin runner[q].policyLocks

(* One candidate: try the policy lock, then count again under it. A lock   *)
(* once taken stays until the transaction ends, also when the group turns  *)
(* out to be full.                                                         *)
ClaimConsider(r, t) ==
  LET g    == GroupOf[t]
      free == PolicyLockFree(r, g)
      full == Saturated(g, runner[r].age)
  IN /\ runner[r].pc = "claiming"
     /\ t \in runner[r].todo
     /\ SetRunner(r, [runner[r] EXCEPT
          !.todo = @ \ {t},
          !.policyLocks = IF free THEN @ \union {g} ELSE @,
          !.pc = IF free /\ ~full THEN "granted" ELSE "claiming",
          !.task = IF free /\ ~full THEN t ELSE NoTask])
     /\ UNCHANGED <<task, attempts, committed, crashes>>

(* Every candidate was skipped: commit nothing.                            *)
ClaimNothing(r) ==
  /\ runner[r].pc = "claiming"
  /\ runner[r].todo = {}
  /\ Release(r)
  /\ UNCHANGED <<task, attempts, committed, crashes>>

(* CAS queued -> processing, the Attempt row and the commit that releases  *)
(* every lock.                                                             *)
ClaimCommit(r) ==
  LET t == runner[r].task
      n == Len(attempts[t]) + 1
  IN /\ runner[r].pc = "granted"
     /\ task' = [task EXCEPT ![t] = Claimed(@, n, Timeout[t] - runner[r].age)]
     /\ attempts' = [attempts EXCEPT ![t] = Append(@, "processing")]
     /\ SetRunner(r, [IdleRunner EXCEPT !.pc = "claimed", !.task = t, !.token = n])
     /\ UNCHANGED <<committed, crashes>>
-----------------------------------------------------------------------------
(* Executing a claimed task.                                               *)

(* _execute_one, first transaction: the claim must still be ours. An       *)
(* unknown handler or payload version fails the task for good.             *)
ExecStart(r) ==
  LET t     == runner[r].task
      valid == Holds(r) /\ task[t].status = "processing"
  IN /\ runner[r].pc = "claimed"
     /\ \/ /\ ~valid
           /\ Release(r)
           /\ UNCHANGED <<task, attempts>>
        \/ /\ valid /\ t \in Unsupported
           /\ task' = [task EXCEPT ![t] = Moved(@, "failed")]
           /\ attempts' = [attempts EXCEPT ![t] = Finish(@, runner[r].token, "failed")]
           /\ Release(r)
        \/ /\ valid /\ t \notin Unsupported
           /\ SetRunner(r, [runner[r] EXCEPT !.pc = "running",
                                             !.version = task[t].version,
                                             !.deadline = Timeout[t]])
           /\ UNCHANGED <<task, attempts>>
     /\ UNCHANGED <<committed, crashes>>

(* The heartbeat loop beside the handler, and handlers themselves, extend  *)
(* the lease if the row still carries the token and the lease had not run  *)
(* out lag ticks ago. A beat that misses changes no row. No handler calls  *)
(* refresh_lease.                                                          *)
Heartbeat(r) ==
  LET t == runner[r].task
  IN /\ runner[r].pc = "running"
     /\ Holds(r) /\ task[t].status \in Leased
     /\ \E lag \in 0..MaxLag :
          /\ LiveLease(t, lag)
          /\ task' = [task EXCEPT ![t].lease = BeatLease - lag]
     /\ UNCHANGED <<attempts, committed, runner, crashes>>

(* Bug: a handler runs for as long as it likes.                            *)
DeadlineIgnored(r) == r \notin Runners

DeadlinePassed(r) == runner[r].deadline = 0

CancelSeen(r) == Holds(r) /\ task[runner[r].task].status = "cancelling"

CheckpointPasses(r) == /\ ~DeadlinePassed(r)
                       /\ Holds(r)
                       /\ task[runner[r].task].status = "processing"
                       /\ LiveLease(runner[r].task, 0)

GoTo(r, pc, outcome) ==
  /\ SetRunner(r, [runner[r] EXCEPT !.pc = pc, !.outcome = outcome])
  /\ UNCHANGED <<task, attempts, committed, crashes>>

(* The handler returned and the gate before publication let it through; a  *)
(* polling handler may ask to go back to the queue.                        *)
HandlerReturns(r) ==
  /\ runner[r].pc = "running"
  /\ CheckpointPasses(r)
  /\ \/ GoTo(r, "publishing", "completed")
     \/ /\ runner[r].task \in Pollers
        /\ Polls(runner[r].task) < MaxPolls
        /\ GoTo(r, "publishing", "requeued")

(* A checkpoint inside the handler, or the gate after it, refuses: the     *)
(* deadline is asked first, then the token, the cancel request, the lease. *)
(* A lost token or lease ends the attempt without a write.                 *)
CheckpointStops(r) ==
  /\ runner[r].pc = "running"
  /\ ~CheckpointPasses(r)
  /\ \/ DeadlinePassed(r) /\ GoTo(r, "failing", "retriable")
     \/ ~DeadlinePassed(r) /\ CancelSeen(r) /\ GoTo(r, "failing", "cancelled")
     \/ /\ ~DeadlinePassed(r) /\ ~CancelSeen(r)
        /\ Release(r)
        /\ UNCHANGED <<task, attempts, committed, crashes>>

(* The handler raised and classify_error decided whether to retry.         *)
HandlerRaises(r) ==
  /\ runner[r].pc = "running"
  /\ \E kind \in {"retriable", "permanent"} : GoTo(r, "failing", kind)

(* Bug: the CAS asks for the token only.                                   *)
OwnsToken(r) == Holds(r)

(* The condition of the CAS out of processing.                             *)
Owns(r) == /\ Holds(r)
           /\ task[runner[r].task].status = "processing"
           /\ task[runner[r].task].version = runner[r].version

(* The transaction that holds the business writes: CAS out of processing   *)
(* with the version read at the start, close the attempt, commit; or roll  *)
(* back everything when the CAS misses.                                    *)
Publish(r) ==
  LET t    == runner[r].task
      done == runner[r].outcome = "completed"
  IN /\ runner[r].pc = "publishing"
     /\ \/ /\ Owns(r)
           /\ done => \E lag \in 0..MaxLag : LiveLease(t, lag)
           /\ task' = [task EXCEPT ![t] = IF done THEN Moved(@, "completed")
                                          ELSE Requeued(@)]
           /\ attempts' = [attempts EXCEPT ![t] = Finish(@, runner[r].token, "completed")]
           /\ committed' = [committed EXCEPT ![t] = @ \union {runner[r].token}]
        \/ /\ ~Owns(r) \/ (done /\ ~LiveLease(t, 0))
           /\ UNCHANGED <<task, attempts, committed>>
     /\ Release(r)
     /\ UNCHANGED crashes

Stops(r) == task[runner[r].task].status = "cancelling" \/ runner[r].outcome = "cancelled"

(* After the business writes are rolled back, a fresh transaction locks    *)
(* the row, re-reads it and records the failure or the cancellation. A     *)
(* cancel request wins over the handler's own error.                       *)
ApplyOutcome(r) ==
  LET t     == runner[r].task
      again == runner[r].outcome = "retriable" /\ HasRetryBudget(t)
  IN /\ runner[r].pc = "failing"
     /\ IF ~Holds(r)
        THEN UNCHANGED <<task, attempts>>
        ELSE /\ task' = [task EXCEPT ![t] =
                  IF Stops(r) THEN Moved(IF @.status = "processing" THEN Cancelling(@) ELSE @,
                                     "cancelled")
                  ELSE IF again THEN Requeued(@) ELSE Moved(@, "failed")]
             /\ attempts' = [attempts EXCEPT ![t] =
                  Finish(@, runner[r].token, IF Stops(r) THEN "cancelled" ELSE "failed")]
     /\ Release(r)
     /\ UNCHANGED <<committed, crashes>>

(* The process dies, or an unexpected exception sends _execute_one back to *)
(* the poll loop: uncommitted writes and locks are gone.                   *)
Crash(r) ==
  /\ runner[r].pc # "idle"
  /\ crashes < MaxCrashes
  /\ crashes' = crashes + 1
  /\ Release(r)
  /\ UNCHANGED <<task, attempts, committed>>
-----------------------------------------------------------------------------
(* The reaper loop every runner process runs beside its slot.              *)

(* Bug: a cancelling task is expected to end by itself.                    *)
ExpiredProcessing(lag) == {t \in Tasks : /\ task[t].status = "processing"
                                         /\ task[t].lease + lag < -Grace}

Expired(lag) == {t \in Tasks : /\ task[t].status \in Leased
                               /\ task[t].lease + lag < -Grace}

(* claim_due clears error_code and nothing sets it on a processing row, so *)
(* an expired attempt always counts as a temporary infrastructure error.   *)
Reaped(t) == IF task[t].status = "cancelling" THEN Moved(task[t], "cancelled")
             ELSE IF HasRetryBudget(t) THEN Requeued(task[t])
             ELSE Moved(task[t], "failed")

(* reap_expired: a batch of expired rows, without those locked elsewhere   *)
(* or beyond the LIMIT, in one transaction.                                *)
Reap ==
  \E lag \in 0..MaxLag : \E batch \in SUBSET Expired(lag) :
    /\ batch # {}
    /\ task' = [t \in Tasks |-> IF t \in batch THEN Reaped(t) ELSE task[t]]
    /\ attempts' = [t \in Tasks |-> IF t \in batch
                                    THEN Finish(attempts[t], task[t].token, "abandoned")
                                    ELSE attempts[t]]
    /\ UNCHANGED <<committed, runner, crashes>>

(* One tick passes. A claim transaction lasts at most MaxLag ticks.        *)
Before(n, low) == IF n > low THEN n - 1 ELSE n

Tick ==
  /\ \A r \in Runners : runner[r].pc \in {"claiming", "granted"} => runner[r].age < MaxLag
  /\ task' = [t \in Tasks |-> [task[t] EXCEPT
                !.lease = IF task[t].status \in Leased THEN Before(@, Floor) ELSE @,
                !.nextRun = Before(@, 0)]]
  /\ runner' = [r \in Runners |-> [runner[r] EXCEPT
                  !.deadline = Before(@, 0),
                  !.age = IF runner[r].pc \in {"claiming", "granted"} THEN @ + 1 ELSE @]]
  /\ UNCHANGED <<attempts, committed, crashes>>
-----------------------------------------------------------------------------
Claim(r) == ClaimSelect(r) \/ (\E t \in Tasks : ClaimConsider(r, t))
            \/ ClaimNothing(r) \/ ClaimCommit(r)

Handler(r) == HandlerReturns(r) \/ HandlerRaises(r) \/ Heartbeat(r)

Control(r) == ExecStart(r) \/ CheckpointStops(r) \/ Publish(r) \/ ApplyOutcome(r)

Next == \/ \E t \in Tasks : CreateTask(t) \/ RequestCancel(t)
        \/ \E r \in Runners : Claim(r) \/ Handler(r) \/ Control(r) \/ Crash(r)
        \/ Reap
        \/ Tick

Spec == Init /\ [][Next]_vars

(* The poll loop keeps claiming and finishes what it claimed, wait_for     *)
(* ends a handler at its deadline, the reaper loop keeps running and time  *)
(* passes. A handler is not obliged to return, to raise or to beat before  *)
(* its deadline, and clients and crashes are under no obligation at all.   *)
Fairness == /\ \A r \in Runners : WF_vars(Claim(r)) /\ WF_vars(Control(r))
            /\ WF_vars(Reap)
            /\ WF_vars(Tick)

FairSpec == Spec /\ Fairness
-----------------------------------------------------------------------------
(* Types, with the CHECK constraint ck_tasks_lease_required of the table:  *)
(* a row has a run token exactly while it is processing or cancelling.     *)
TypeOK == /\ task \in [Tasks -> TaskRow]
          /\ attempts \in [Tasks -> Seq(AttemptStatus)]
          /\ committed \in [Tasks -> SUBSET Nat]
          /\ runner \in [Runners -> RunnerState]
          /\ crashes \in Nat
          /\ \A t \in Tasks : task[t].status \in Leased <=> task[t].token # NoToken

(* The audit table never loses track: an attempt row is open exactly while *)
(* the task runs under that attempt's token, whoever closes it (runner,    *)
(* reaper or nobody) and however often the task was handed out.            *)
AuditTrail ==
  \A t \in Tasks :
    /\ task[t].status \in Leased => task[t].token \in DOMAIN attempts[t]
    /\ \A n \in DOMAIN attempts[t] :
         attempts[t][n] = "processing" <=> (task[t].status \in Leased /\ task[t].token = n)

(* What a runner remembers of a task agrees with the rows, however the     *)
(* other runners, clients and the reaper moved them meanwhile: the rows of *)
(* a claim are locked by one runner only and stay queued until it commits; *)
(* an attempt that a runner works on is in the audit table; only a polling *)
(* handler asks to go back to the queue; a runner that saw the cancel      *)
(* request and still holds the row finds it cancelling. The newest attempt *)
(* is the one a leased row belongs to.                                     *)
Working == {"claimed", "running", "publishing", "failing"}

ClaimAgrees(r) ==
  /\ runner[r].todo \subseteq runner[r].rows
  /\ runner[r].pc \notin {"claiming", "granted"} => runner[r].rows = {}
  /\ runner[r].pc = "granted" => runner[r].task \in runner[r].rows
  /\ \A t \in runner[r].rows : task[t].status = "queued"

MemoryAgrees(r) ==
  /\ runner[r].pc \in Working => /\ runner[r].task \in Tasks
                                 /\ runner[r].token \in DOMAIN attempts[runner[r].task]
  /\ runner[r].pc = "publishing" =>
       \/ runner[r].outcome = "completed"
       \/ runner[r].outcome = "requeued" /\ runner[r].task \in Pollers
  /\ (runner[r].pc = "failing" /\ runner[r].outcome = "cancelled" /\ Holds(r)) =>
       task[runner[r].task].status = "cancelling"

RowsExclusive ==
  \A r, q \in Runners : r # q => runner[r].rows \intersect runner[q].rows = {}

BornTogether ==
  \A t \in Tasks : task[t].status = "absent" =>
    \A c \in Children(t) : task[c].status = "absent"

NewestAttempt ==
  \A t \in Tasks : task[t].status \in Leased => task[t].token = Len(attempts[t])

Ownership == /\ \A r \in Runners : ClaimAgrees(r) /\ MemoryAgrees(r)
             /\ RowsExclusive
             /\ BornTogether
             /\ NewestAttempt

(* Business writes are durable for exactly the attempts the audit calls    *)
(* completed; a task that does not poll has them exactly when it is        *)
(* completed, once: nothing is left behind by failure, cancellation or an  *)
(* attempt that lost its lease.                                            *)
EffectsOnCompletion ==
  \A t \in Tasks :
    /\ committed[t] = {n \in DOMAIN attempts[t] : attempts[t][n] = "completed"}
    /\ t \notin Pollers =>
         committed[t] = IF task[t].status = "completed" THEN {Len(attempts[t])} ELSE {}

(* The policy's concurrency limit bounds the live leases of a group, with  *)
(* any number of runners claiming at once.                                 *)
ConcurrencyRespected ==
  \A g \in Groups : Cardinality(LiveInGroup(g, 0)) <= ConcurrencyLimit[g]

(* Crashes, lost leases and failures together never spend more attempts    *)
(* than the frozen policy allows; successful polls are free.               *)
RetryBudgetRespected == \A t \in Tasks : Len(attempts[t]) - Polls(t) <= MaxAttempts[t]

(* Once a batch task's cancellation is recorded no child of it is waiting  *)
(* or running freely, and none becomes so again.                           *)
CancelReachesFamily ==
  \A t \in Tasks : \A c \in Children(t) :
    task[t].status \in {"cancelling", "cancelled"} =>
      task[c].status \notin {"queued", "processing"}

(* After a cancellation was acknowledged, neither the task nor its         *)
(* children make any further business write durable, whatever stage their  *)
(* runners had reached.                                                    *)
CancelStopsEffects ==
  [][\A t \in Tasks : task[t].status \in {"cancelling", "cancelled"} =>
       \A x \in {t} \union Children(t) : committed'[x] = committed[x]]_vars

(* The queue keeps the promises of TaskLifecycle.                          *)
Lifecycle == INSTANCE TaskLifecycle
               WITH status <- [t \in Tasks |-> task[t].status], effects <- committed
LifecycleSpec == Lifecycle!LifeSpec

(* Every task comes to an end: no crash, lost lease, refused publication   *)
(* or cancellation leaves it queued, processing or cancelling forever.     *)
EveryTaskSettles ==
  \A t \in Tasks : task[t].status \in Active ~> task[t].status \in Terminal

(* A runner's slot always comes back, also from a handler that would never *)
(* return and from a claim that found nothing.                             *)
SlotsComeBack == \A r \in Runners : runner[r].pc # "idle" ~> runner[r].pc = "idle"
=============================================================================
