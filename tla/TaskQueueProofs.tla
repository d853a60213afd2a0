-------------------------- MODULE TaskQueueProofs --------------------------
(***************************************************************************)
(* Proofs about TaskQueue for any number of tasks, runners and groups and  *)
(* any bounds. QueueInv is inductive; the theorems at the end follow.      *)
(***************************************************************************)
EXTENDS TaskQueue, FiniteSetTheorems, SequenceTheorems, TLAPS

QueueInv == TypeOK /\ Ownership /\ AuditTrail /\ EffectsOnCompletion

Closed   == {"completed", "failed", "cancelled", "abandoned"}
Settled  == {"queued", "completed", "failed", "cancelled"}
-----------------------------------------------------------------------------
(* Rows.                                                                   *)

Status == Active \union Terminal \union {"absent"}

(* The shapes of row updates the actions use.                              *)
LEMMA WholeRowUpdate ==
  ASSUME NEW row \in TaskRow, NEW s \in Status, NEW v \in Nat, NEW k \in Nat,
         NEW l \in Int, NEW d \in Nat
  PROVE  [row EXCEPT !.status = s, !.version = v, !.token = k, !.lease = l,
                     !.nextRun = d] \in TaskRow
  BY DEF TaskRow, Status

LEMMA StatusUpdate ==
  ASSUME NEW row \in TaskRow, NEW s \in Status, NEW v \in Nat
  PROVE  [row EXCEPT !.status = s, !.version = v] \in TaskRow
  BY DEF TaskRow, Status

LEMMA TimeUpdate ==
  ASSUME NEW row \in TaskRow, NEW l \in Int, NEW d \in Nat
  PROVE  [row EXCEPT !.lease = l, !.nextRun = d] \in TaskRow
  BY DEF TaskRow, Status

LEMMA LeaseUpdate ==
  ASSUME NEW row \in TaskRow, NEW l \in Int
  PROVE  [row EXCEPT !.lease = l] \in TaskRow
  BY DEF TaskRow, Status

LEMMA DelayUpdate ==
  ASSUME NEW row \in TaskRow, NEW d \in Nat
  PROVE  [row EXCEPT !.nextRun = d] \in TaskRow
  BY DEF TaskRow, Status

(* The row of a task that leaves the leased states.                        *)
LEMMA MovedRow ==
  ASSUME NEW row \in TaskRow, NEW to \in Settled
  PROVE  /\ Moved(row, to) \in TaskRow
         /\ Moved(row, to).status = to
         /\ Moved(row, to).token = NoToken
<1>1. /\ row.version + 1 \in Nat /\ NoToken \in Nat /\ 0 \in Nat /\ 0 \in Int
      /\ to \in Status
  BY DEF TaskRow, NoToken, Settled, Status, Active, Terminal
<1>2. Moved(row, to) \in TaskRow
  BY <1>1, WholeRowUpdate DEF Moved
<1>3. Moved(row, to).status = to /\ Moved(row, to).token = NoToken
  BY DEF TaskRow, Moved
<1> QED
  BY <1>2, <1>3

LEMMA RequeuedRow ==
  ASSUME NEW row \in TaskRow
  PROVE  /\ Requeued(row) \in TaskRow
         /\ Requeued(row).status = "queued"
         /\ Requeued(row).token = NoToken
<1>1. /\ Moved(row, "queued") \in TaskRow
      /\ Moved(row, "queued").status = "queued"
      /\ Moved(row, "queued").token = NoToken
  BY MovedRow DEF Settled
<1>2. Delay \in Nat
  BY QueueAssumption DEF QueueAssumption
<1>3. Requeued(row) \in TaskRow
  BY <1>1, <1>2, DelayUpdate DEF Requeued
<1> QED
  BY <1>1, <1>3 DEF Requeued, TaskRow

(* A cancel request marks a row and keeps token and lease.                 *)
LEMMA CancellingRow ==
  ASSUME NEW row \in TaskRow
  PROVE  /\ Cancelling(row) \in TaskRow
         /\ Cancelling(row).status = "cancelling"
         /\ Cancelling(row).token = row.token
<1>1. row.version + 1 \in Nat /\ "cancelling" \in Status
  BY DEF TaskRow, Status, Active
<1>2. Cancelling(row) \in TaskRow
  BY <1>1, StatusUpdate DEF Cancelling
<1> QED
  BY <1>2 DEF TaskRow, Cancelling

(* Closing attempt n touches nothing but attempt n, and only if it is open.*)
LEMMA FinishLemma ==
  ASSUME NEW h \in Seq(AttemptStatus), NEW n \in Nat, NEW to \in Closed
  PROVE  /\ Finish(h, n, to) \in Seq(AttemptStatus)
         /\ Len(Finish(h, n, to)) = Len(h)
         /\ DOMAIN Finish(h, n, to) = DOMAIN h
         /\ \A m \in DOMAIN h : Finish(h, n, to)[m] =
              IF m = n /\ h[m] = "processing" THEN to ELSE h[m]
<1>1. /\ Len(h) \in Nat
      /\ DOMAIN h = 1..Len(h)
      /\ to \in AttemptStatus
  BY LenProperties DEF Closed, AttemptStatus
<1>2. CASE n \in DOMAIN h /\ h[n] = "processing"
  <2>1. Finish(h, n, to) = [h EXCEPT ![n] = to]
    BY <1>2 DEF Finish
  <2>2. /\ [h EXCEPT ![n] = to] \in Seq(AttemptStatus)
        /\ Len([h EXCEPT ![n] = to]) = Len(h)
        /\ \A m \in 1..Len(h) : [h EXCEPT ![n] = to][m] = IF m = n THEN to ELSE h[m]
    BY <1>1, <1>2, ExceptSeq
  <2>3. DOMAIN [h EXCEPT ![n] = to] = DOMAIN h
    OBVIOUS
  <2> QED
    BY <1>1, <1>2, <2>1, <2>2, <2>3
<1>3. CASE ~(n \in DOMAIN h /\ h[n] = "processing")
  BY <1>3 DEF Finish
<1> QED
  BY <1>2, <1>3

(* What a step that closes attempts does to the invariant: it takes a set  *)
(* of leased tasks out of the leased states and closes exactly the attempt *)
(* each of them ran under.                                                 *)
LEMMA ClosingKeepsAudit ==
  ASSUME TypeOK, AuditTrail,
         NEW B \in SUBSET Tasks,
         task' \in [Tasks -> TaskRow],
         \A t \in B : /\ task[t].status \in Leased
                      /\ task'[t].status \notin Leased
                      /\ \E c \in Closed :
                           attempts'[t] = Finish(attempts[t], task[t].token, c),
         \A t \in Tasks \ B : task'[t] = task[t] /\ attempts'[t] = attempts[t]
  PROVE  /\ AuditTrail'
         /\ \A t \in Tasks : /\ attempts'[t] \in Seq(AttemptStatus)
                             /\ DOMAIN attempts'[t] = DOMAIN attempts[t]
                             /\ Len(attempts'[t]) = Len(attempts[t])
<1>1. ASSUME NEW t \in Tasks
      PROVE  /\ attempts'[t] \in Seq(AttemptStatus)
             /\ DOMAIN attempts'[t] = DOMAIN attempts[t]
             /\ Len(attempts'[t]) = Len(attempts[t])
             /\ task'[t].status \in Leased => task'[t].token \in DOMAIN attempts'[t]
             /\ \A n \in DOMAIN attempts'[t] :
                  attempts'[t][n] = "processing"
                    <=> (task'[t].status \in Leased /\ task'[t].token = n)
  <2>1. attempts[t] \in Seq(AttemptStatus) /\ task[t].token \in Nat
    BY DEF TypeOK, TaskRow
  <2>2. CASE t \in B
    <3>1. PICK c \in Closed : attempts'[t] = Finish(attempts[t], task[t].token, c)
      BY <2>2
    <3> DEFINE h == Finish(attempts[t], task[t].token, c)
    <3>2. /\ h \in Seq(AttemptStatus)
          /\ Len(h) = Len(attempts[t])
          /\ DOMAIN h = DOMAIN attempts[t]
          /\ \A n \in DOMAIN attempts[t] : h[n] =
               IF n = task[t].token /\ attempts[t][n] = "processing" THEN c
                                                                    ELSE attempts[t][n]
      BY <2>1, FinishLemma
    <3>3. h = attempts'[t]
      BY <3>1
    <3> HIDE DEF h
    <3>4. \A n \in DOMAIN attempts[t] : h[n] # "processing"
      BY <2>2, <3>2 DEF AuditTrail, Closed
    <3> QED
      BY <2>2, <3>2, <3>3, <3>4
  <2>3. CASE t \notin B
    BY <2>1, <2>3 DEF AuditTrail
  <2> QED
    BY <2>2, <2>3
<1> QED
  BY <1>1 DEF AuditTrail
-----------------------------------------------------------------------------
(* Runners.                                                                *)

LEMMA IdleRunnerType == IdleRunner \in RunnerState
  BY DEF IdleRunner, RunnerState, NoToken

LEMMA IdleAgrees ==
  ASSUME NEW q \in Runners, runner'[q] = IdleRunner
  PROVE  ClaimAgrees(q)' /\ MemoryAgrees(q)'
  BY DEF IdleRunner, ClaimAgrees, MemoryAgrees, Working

(* What a step may do to the rows without a runner having to notice.       *)
Unnoticed(t) ==
  /\ DOMAIN attempts[t] \subseteq DOMAIN attempts'[t]
  /\ \A n \in DOMAIN attempts[t] : task'[t].token = n =>
       /\ task[t].token = n
       /\ task[t].status = "cancelling" => task'[t].status = "cancelling"

SameMemory(q) ==
  /\ runner'[q].pc = runner[q].pc /\ runner'[q].rows = runner[q].rows
  /\ runner'[q].todo = runner[q].todo /\ runner'[q].task = runner[q].task
  /\ runner'[q].token = runner[q].token /\ runner'[q].outcome = runner[q].outcome

LEMMA StaysInAgreement ==
  ASSUME NEW q \in Runners, ClaimAgrees(q), MemoryAgrees(q), SameMemory(q),
         \A t \in runner[q].rows : task'[t].status = "queued",
         \A t \in Tasks : Unnoticed(t)
  PROVE  ClaimAgrees(q)' /\ MemoryAgrees(q)'
<1>1. ClaimAgrees(q)'
  BY DEF ClaimAgrees, SameMemory
<1>2. MemoryAgrees(q)'
  <2>1. runner'[q].pc \in Working => /\ runner'[q].task \in Tasks
                                     /\ runner'[q].token \in DOMAIN attempts'[runner'[q].task]
    BY DEF MemoryAgrees, SameMemory, Unnoticed
  <2>2. ASSUME runner'[q].pc = "failing", runner'[q].outcome = "cancelled",
               task'[runner'[q].task].token = runner'[q].token
        PROVE  task'[runner'[q].task].status = "cancelling"
    BY <2>2 DEF MemoryAgrees, SameMemory, Unnoticed, Working, Holds
  <2> QED
    BY <2>1, <2>2 DEF MemoryAgrees, SameMemory, Holds
<1> QED
  BY <1>1, <1>2

LEMMA RowsStayExclusive ==
  ASSUME RowsExclusive, \A q \in Runners : runner'[q].rows \subseteq runner[q].rows
  PROVE  RowsExclusive'
  BY DEF RowsExclusive

(* Runner r lets go of what it has.                                        *)
LEMMA ReleaseAgrees ==
  ASSUME TypeOK, Ownership, NEW r \in Runners, Release(r),
         \A q \in Runners : \A t \in runner[q].rows : task'[t].status = "queued",
         \A t \in Tasks : Unnoticed(t)
  PROVE  /\ runner' \in [Runners -> RunnerState]
         /\ \A q \in Runners : ClaimAgrees(q)' /\ MemoryAgrees(q)'
         /\ RowsExclusive'
<1>1. runner' = [runner EXCEPT ![r] = IdleRunner] /\ runner \in [Runners -> RunnerState]
  BY DEF Release, SetRunner, TypeOK
<1>2. runner' \in [Runners -> RunnerState]
  BY <1>1, IdleRunnerType
<1>3. ASSUME NEW q \in Runners PROVE ClaimAgrees(q)' /\ MemoryAgrees(q)'
  <2>1. CASE q = r
    BY <1>1, <2>1, IdleAgrees
  <2>2. CASE q # r
    <3>1. runner'[q] = runner[q]
      BY <1>1, <2>2
    <3>2. ClaimAgrees(q) /\ MemoryAgrees(q)
      BY DEF Ownership
    <3> QED
      BY <3>1, <3>2, StaysInAgreement DEF SameMemory
  <2> QED
    BY <2>1, <2>2
<1>4. \A q \in Runners : runner'[q].rows \subseteq runner[q].rows
  BY <1>1 DEF IdleRunner
<1>5. RowsExclusive'
  BY <1>4, RowsStayExclusive DEF Ownership
<1> QED
  BY <1>2, <1>3, <1>5
-----------------------------------------------------------------------------
(* Steps that close attempts: the tasks of B leave the leased states and   *)
(* the attempt each ran under is closed; no other row changes.             *)
Closes(B) ==
  /\ task' \in [Tasks -> TaskRow]
  /\ attempts' = [t \in Tasks |-> attempts'[t]]
  /\ \A t \in B : /\ task[t].status \in Leased
                  /\ task'[t].status \in Settled
                  /\ task'[t].token = NoToken
                  /\ \E c \in Closed : attempts'[t] = Finish(attempts[t], task[t].token, c)
  /\ \A t \in Tasks \ B : task'[t] = task[t] /\ attempts'[t] = attempts[t]

LEMMA ClosingStep ==
  ASSUME TypeOK, Ownership, AuditTrail, NEW B \in SUBSET Tasks, Closes(B)
  PROVE  /\ attempts' \in [Tasks -> Seq(AttemptStatus)]
         /\ \A t \in Tasks : task'[t].status \in Leased <=> task'[t].token # NoToken
         /\ AuditTrail' /\ BornTogether' /\ NewestAttempt'
         /\ \A t \in Tasks : Unnoticed(t)
         /\ \A q \in Runners : \A t \in runner[q].rows : task'[t].status = "queued"
<1>1. \A t \in B : task'[t].status \notin Leased
  BY DEF Closes, Settled, Leased
<1>2. /\ AuditTrail'
      /\ \A t \in Tasks : /\ attempts'[t] \in Seq(AttemptStatus)
                          /\ DOMAIN attempts'[t] = DOMAIN attempts[t]
                          /\ Len(attempts'[t]) = Len(attempts[t])
  BY <1>1, ClosingKeepsAudit DEF Closes
<1>3. attempts' \in [Tasks -> Seq(AttemptStatus)]
  <2>1. attempts' = [t \in Tasks |-> attempts'[t]]
    BY DEF Closes
  <2> QED
    BY <1>2, <2>1
<1>4. \A t \in Tasks : task'[t].status \in Leased <=> task'[t].token # NoToken
  BY <1>1 DEF TypeOK, Closes
<1>5. BornTogether'
  BY DEF BornTogether, Ownership, Closes, Settled, Leased, Children
<1>6. NewestAttempt'
  BY <1>1, <1>2 DEF NewestAttempt, Ownership, Closes
<1>7. ASSUME NEW t \in Tasks PROVE Unnoticed(t)
  <2>1. \A n \in DOMAIN attempts[t] : n # NoToken
    BY LenProperties DEF TypeOK, NoToken
  <2> QED
    BY <1>2, <2>1 DEF Unnoticed, Closes
<1>8. ASSUME NEW q \in Runners, NEW t \in runner[q].rows
      PROVE  task'[t].status = "queued"
  <2>1. task[t].status = "queued" /\ t \in Tasks
    BY DEF Ownership, ClaimAgrees, TypeOK, RunnerState
  <2> QED
    BY <2>1 DEF Closes, Leased
<1> QED
  BY <1>2, <1>3, <1>4, <1>5, <1>6, <1>7, <1>8

(* Without a completion among them the business writes stay as they are.   *)
LEMMA ClosingKeepsEffects ==
  ASSUME TypeOK, AuditTrail, EffectsOnCompletion, NEW B \in SUBSET Tasks, Closes(B),
         committed' = committed,
         \A t \in B : /\ task'[t].status # "completed"
                      /\ \E c \in Closed \ {"completed"} :
                           attempts'[t] = Finish(attempts[t], task[t].token, c)
  PROVE  EffectsOnCompletion'
<1>1. ASSUME NEW t \in Tasks
      PROVE  /\ committed'[t] = {n \in DOMAIN attempts'[t] : attempts'[t][n] = "completed"}
             /\ t \notin Pollers =>
                  committed'[t] = IF task'[t].status = "completed"
                                  THEN {Len(attempts'[t])} ELSE {}
  <2>1. CASE t \in B
    <3>1. PICK c \in Closed \ {"completed"} :
            attempts'[t] = Finish(attempts[t], task[t].token, c)
      BY <2>1
    <3>2. attempts[t] \in Seq(AttemptStatus) /\ task[t].token \in Nat
      BY DEF TypeOK, TaskRow
    <3> DEFINE h == Finish(attempts[t], task[t].token, c)
    <3>3. /\ DOMAIN h = DOMAIN attempts[t]
          /\ \A n \in DOMAIN attempts[t] : h[n] =
               IF n = task[t].token /\ attempts[t][n] = "processing" THEN c
                                                                    ELSE attempts[t][n]
      BY <3>2, FinishLemma
    <3>4. h = attempts'[t]
      BY <3>1
    <3> HIDE DEF h
    <3>5. \A n \in DOMAIN attempts[t] : h[n] = "completed" <=> attempts[t][n] = "completed"
      BY <3>3
    <3>6. task[t].status # "completed"
      BY <2>1 DEF Closes, Leased
    <3> QED
      BY <2>1, <3>3, <3>4, <3>5, <3>6 DEF EffectsOnCompletion
  <2>2. CASE t \notin B
    BY <2>2 DEF EffectsOnCompletion, Closes
  <2> QED
    BY <2>1, <2>2
<1> QED
  BY <1>1 DEF EffectsOnCompletion
-----------------------------------------------------------------------------
(* The initial state and the actions, one lemma each.                      *)

LEMMA InitInv == Init => QueueInv
<1> SUFFICES ASSUME Init PROVE QueueInv
  OBVIOUS
<1>1. AbsentRow \in TaskRow
  BY DEF AbsentRow, TaskRow, NoToken
<1>2. <<>> \in Seq(AttemptStatus) /\ Len(<<>>) = 0 /\ DOMAIN <<>> = {}
  OBVIOUS
<1>3. TypeOK
  BY <1>1, <1>2, IdleRunnerType DEF Init, TypeOK, AbsentRow, Leased, NoToken
<1>4. Ownership
  BY DEF Init, Ownership, ClaimAgrees, MemoryAgrees, RowsExclusive, BornTogether,
         NewestAttempt, AbsentRow, IdleRunner, Working, Leased, Children
<1>5. AuditTrail /\ EffectsOnCompletion
  BY <1>2 DEF Init, AuditTrail, EffectsOnCompletion, AbsentRow, Leased
<1> QED
  BY <1>3, <1>4, <1>5 DEF QueueInv

LEMMA CreateTaskInv ==
  ASSUME QueueInv, NEW t \in Tasks, CreateTask(t)
  PROVE  QueueInv'
<1> DEFINE born == {t} \union Children(t)
           row == [AbsentRow EXCEPT !.status = "queued"]
<1> USE DEF QueueInv
<1>1. /\ task' = [x \in Tasks |-> IF x \in born THEN row ELSE task[x]]
      /\ UNCHANGED <<attempts, committed, runner, crashes>>
  BY DEF CreateTask
<1>2. row \in TaskRow /\ row.status = "queued" /\ row.token = NoToken
  BY DEF AbsentRow, TaskRow, NoToken, Active
<1>3. born \subseteq Tasks /\ \A x \in born : task[x].status = "absent"
  BY DEF CreateTask, Ownership, BornTogether, Children
<1> HIDE DEF row
<1>4. TypeOK'
  <2>1. task' \in [Tasks -> TaskRow]
    BY <1>1, <1>2 DEF TypeOK
  <2>2. \A x \in Tasks : task'[x].status \in Leased <=> task'[x].token # NoToken
    BY <1>1, <1>2 DEF TypeOK, Leased
  <2> QED
    BY <1>1, <2>1, <2>2 DEF TypeOK
<1>5. AuditTrail'
  BY <1>1, <1>2, <1>3 DEF AuditTrail, Leased
<1>6. EffectsOnCompletion'
  BY <1>1, <1>2, <1>3 DEF EffectsOnCompletion
<1>7. ASSUME NEW x \in Tasks PROVE Unnoticed(x)
  <2>1. \A n \in DOMAIN attempts[x] : n # NoToken
    BY LenProperties DEF TypeOK, NoToken
  <2> QED
    BY <1>1, <1>2, <2>1 DEF Unnoticed
<1>8. ASSUME NEW q \in Runners PROVE ClaimAgrees(q)' /\ MemoryAgrees(q)'
  <2>1. ClaimAgrees(q) /\ MemoryAgrees(q)
    BY DEF Ownership
  <2>2. \A x \in runner[q].rows : task'[x].status = "queued"
    BY <1>1, <1>2, <1>3, <2>1 DEF ClaimAgrees, TypeOK, RunnerState
  <2> QED
    BY <1>1, <1>7, <2>1, <2>2, StaysInAgreement DEF SameMemory
<1>9. RowsExclusive' /\ NewestAttempt'
  BY <1>1, <1>2 DEF Ownership, RowsExclusive, NewestAttempt, Leased
<1>10. BornTogether'
  BY <1>1, <1>2, <1>3, QueueAssumption
  DEF Ownership, BornTogether, Children, CreateTask, QueueAssumption
<1> QED
  BY <1>4, <1>5, <1>6, <1>8, <1>9, <1>10 DEF Ownership

LEMMA RequestCancelInv ==
  ASSUME QueueInv, NEW t \in Tasks, RequestCancel(t)
  PROVE  QueueInv'
<1> USE DEF QueueInv
<1>1. /\ task' = [x \in Tasks |-> IF x \in Cancels(t) THEN CancelRow(task[x]) ELSE task[x]]
      /\ UNCHANGED <<attempts, committed, runner, crashes>>
      /\ \A x \in Cancels(t) : ~Locked(x)
  BY DEF RequestCancel
<1>2. ASSUME NEW x \in Tasks
      PROVE  /\ task'[x] \in TaskRow
             /\ \/ task'[x] = task[x]
                \/ /\ task[x].status = "queued"
                   /\ task'[x].status = "cancelled" /\ task'[x].token = NoToken
                \/ /\ task[x].status = "processing"
                   /\ task'[x].status = "cancelling" /\ task'[x].token = task[x].token
             /\ task'[x] # task[x] => ~Locked(x)
  <2>1. task[x] \in TaskRow
    BY DEF TypeOK
  <2>2. CASE x \in Cancels(t) /\ task[x].status = "queued"
    BY <1>1, <2>1, <2>2, MovedRow DEF CancelRow, Settled
  <2>3. CASE x \in Cancels(t) /\ task[x].status = "processing"
    BY <1>1, <2>1, <2>3, CancellingRow DEF CancelRow
  <2>4. CASE ~(x \in Cancels(t) /\ task[x].status \in {"queued", "processing"})
    BY <1>1, <2>1, <2>4 DEF CancelRow
  <2> QED
    BY <2>2, <2>3, <2>4
<1>3. \A x \in Tasks : task'[x].status \in Leased <=> task'[x].token # NoToken
  BY <1>2 DEF TypeOK, Leased
<1>4. TypeOK'
  BY <1>1, <1>2, <1>3 DEF TypeOK
<1>5. AuditTrail'
  BY <1>1, <1>2 DEF AuditTrail, Leased
<1>6. EffectsOnCompletion'
  BY <1>1, <1>2 DEF EffectsOnCompletion
<1>7. ASSUME NEW x \in Tasks PROVE Unnoticed(x)
  <2>1. \A n \in DOMAIN attempts[x] : n # NoToken
    BY LenProperties DEF TypeOK, NoToken
  <2> QED
    BY <1>1, <1>2, <2>1 DEF Unnoticed
<1>8. ASSUME NEW q \in Runners PROVE ClaimAgrees(q)' /\ MemoryAgrees(q)'
  <2>1. ClaimAgrees(q) /\ MemoryAgrees(q)
    BY DEF Ownership
  <2>2. \A x \in runner[q].rows : task'[x].status = "queued"
    BY <1>2, <2>1 DEF ClaimAgrees, TypeOK, RunnerState, Locked
  <2> QED
    BY <1>1, <1>7, <2>1, <2>2, StaysInAgreement DEF SameMemory
<1>9. RowsExclusive' /\ NewestAttempt' /\ BornTogether'
  BY <1>1, <1>2 DEF Ownership, RowsExclusive, NewestAttempt, BornTogether, Leased, Children
<1> QED
  BY <1>4, <1>5, <1>6, <1>8, <1>9 DEF Ownership

(* A step of runner r that writes no row.                                  *)
LEMMA RunnerOnlyStep ==
  ASSUME QueueInv, NEW r \in Runners, NEW state \in RunnerState, SetRunner(r, state),
         UNCHANGED <<task, attempts, committed, crashes>>,
         ClaimAgrees(r)', MemoryAgrees(r)',
         state.rows = runner[r].rows
           \/ \A q \in Runners \ {r} : state.rows \intersect runner[q].rows = {}
  PROVE  QueueInv'
<1> USE DEF QueueInv
<1>1. runner' = [runner EXCEPT ![r] = state] /\ runner \in [Runners -> RunnerState]
  BY DEF SetRunner, TypeOK
<1>2. TypeOK'
  BY <1>1 DEF TypeOK
<1>3. AuditTrail' /\ EffectsOnCompletion' /\ BornTogether' /\ NewestAttempt'
  BY DEF AuditTrail, EffectsOnCompletion, Ownership, BornTogether, NewestAttempt
<1>4. ASSUME NEW q \in Runners PROVE ClaimAgrees(q)' /\ MemoryAgrees(q)'
  <2>1. CASE q = r
    BY <2>1
  <2>2. CASE q # r
    <3>1. runner'[q] = runner[q]
      BY <1>1, <2>2
    <3> QED
      BY <3>1 DEF Ownership, ClaimAgrees, MemoryAgrees, Holds
  <2> QED
    BY <2>1, <2>2
<1>5. RowsExclusive'
  <2> SUFFICES ASSUME NEW p \in Runners, NEW q \in Runners, p # q
               PROVE  runner'[p].rows \intersect runner'[q].rows = {}
    BY DEF RowsExclusive
  <2>1. runner[p].rows \intersect runner[q].rows = {}
    BY DEF Ownership, RowsExclusive
  <2>2. CASE p = r
    BY <1>1, <2>1, <2>2
  <2>3. CASE q = r
    BY <1>1, <2>1, <2>3
  <2>4. CASE p # r /\ q # r
    BY <1>1, <2>1, <2>4
  <2> QED
    BY <2>2, <2>3, <2>4
<1> QED
  BY <1>2, <1>3, <1>4, <1>5 DEF Ownership

LEMMA ClaimSelectInv ==
  ASSUME QueueInv, NEW r \in Runners, ClaimSelect(r)
  PROVE  QueueInv'
<1> DEFINE candidates == {t \in Tasks : /\ task[t].status = "queued"
                                        /\ task[t].nextRun = 0
                                        /\ ~Saturated(GroupOf[t], 0)
                                        /\ ~Locked(t)}
           state == [IdleRunner EXCEPT !.pc = "claiming", !.rows = candidates,
                                       !.todo = candidates]
<1>1. /\ SetRunner(r, state)
      /\ UNCHANGED <<task, attempts, committed, crashes>>
  BY DEF ClaimSelect
<1>2. /\ candidates \in SUBSET Tasks
      /\ \A t \in candidates : task[t].status = "queued" /\ ~Locked(t)
  OBVIOUS
<1> HIDE DEF candidates
<1>3. state \in RunnerState
  BY <1>2, IdleRunnerType DEF RunnerState
<1>4. state.pc = "claiming" /\ state.rows = candidates /\ state.todo = candidates
  BY DEF IdleRunner
<1> HIDE DEF state
<1>5. runner'[r] = state
  BY <1>1 DEF SetRunner, QueueInv, TypeOK
<1>6. ClaimAgrees(r)' /\ MemoryAgrees(r)'
  BY <1>1, <1>2, <1>4, <1>5 DEF ClaimAgrees, MemoryAgrees, Working
<1>7. \A q \in Runners \ {r} : state.rows \intersect runner[q].rows = {}
  BY <1>2, <1>4 DEF Locked
<1> QED
  BY <1>1, <1>3, <1>6, <1>7, RunnerOnlyStep

LEMMA ConsiderState ==
  ASSUME NEW s \in RunnerState, NEW td \in SUBSET Tasks, NEW pl \in SUBSET Groups,
         NEW pc \in {"claiming", "granted"}, NEW tk \in Tasks \union {NoTask}
  PROVE  [s EXCEPT !.todo = td, !.policyLocks = pl, !.pc = pc, !.task = tk] \in RunnerState
  BY DEF RunnerState

LEMMA ClaimConsiderInv ==
  ASSUME QueueInv, NEW r \in Runners, NEW t \in Tasks, ClaimConsider(r, t)
  PROVE  QueueInv'
<1> DEFINE s == runner[r]
           g == GroupOf[t]
           td == s.todo \ {t}
           ok == PolicyLockFree(r, g) /\ ~Saturated(g, s.age)
           pl == IF PolicyLockFree(r, g) THEN s.policyLocks \union {g} ELSE s.policyLocks
           pc == IF ok THEN "granted" ELSE "claiming"
           tk == IF ok THEN t ELSE NoTask
           state == [s EXCEPT !.todo = td, !.policyLocks = pl, !.pc = pc, !.task = tk]
<1>1. /\ s.pc = "claiming" /\ t \in s.todo
      /\ SetRunner(r, state)
      /\ UNCHANGED <<task, attempts, committed, crashes>>
  BY DEF ClaimConsider
<1>2. s \in RunnerState /\ ClaimAgrees(r) /\ g \in Groups
  BY QueueAssumption DEF QueueInv, TypeOK, Ownership, QueueAssumption
<1>3. /\ td \in SUBSET Tasks /\ pl \in SUBSET Groups /\ pc \in {"claiming", "granted"}
      /\ tk \in Tasks \union {NoTask} /\ (pc = "granted" => tk = t)
  BY <1>2 DEF RunnerState
<1>4. td \subseteq s.todo
  OBVIOUS
<1> HIDE DEF td, pl, pc, tk
<1>5. state \in RunnerState
  BY <1>2, <1>3, ConsiderState
<1>6. /\ state.pc = pc /\ state.rows = s.rows /\ state.todo = td
      /\ state.task = tk
  BY <1>2 DEF RunnerState
<1> HIDE DEF state
<1>7. runner'[r] = state
  BY <1>1 DEF SetRunner, QueueInv, TypeOK
<1>8. ClaimAgrees(r)' /\ MemoryAgrees(r)'
  BY <1>1, <1>2, <1>3, <1>4, <1>6, <1>7 DEF ClaimAgrees, MemoryAgrees, Working
<1> QED
  BY <1>1, <1>5, <1>6, <1>8, RunnerOnlyStep

LEMMA GoToInv ==
  ASSUME QueueInv, NEW r \in Runners, runner[r].pc = "running",
         NEW pc \in {"publishing", "failing"},
         NEW outcome \in {"completed", "requeued", "cancelled", "retriable", "permanent"},
         GoTo(r, pc, outcome),
         pc = "publishing" => \/ outcome = "completed"
                              \/ outcome = "requeued" /\ runner[r].task \in Pollers,
         (pc = "failing" /\ outcome = "cancelled") => CancelSeen(r)
  PROVE  QueueInv'
<1> DEFINE s == runner[r]
           state == [s EXCEPT !.pc = pc, !.outcome = outcome]
<1>1. /\ SetRunner(r, state)
      /\ UNCHANGED <<task, attempts, committed, crashes>>
  BY DEF GoTo
<1>2. s \in RunnerState /\ ClaimAgrees(r) /\ MemoryAgrees(r)
  BY DEF QueueInv, TypeOK, Ownership
<1>3. state \in RunnerState
  BY <1>2 DEF RunnerState
<1>4. /\ state.pc = pc /\ state.outcome = outcome /\ state.rows = s.rows
      /\ state.todo = s.todo /\ state.task = s.task /\ state.token = s.token
  BY <1>2 DEF RunnerState
<1> HIDE DEF state
<1>5. runner'[r] = state
  BY <1>1 DEF SetRunner, QueueInv, TypeOK
<1>6. ClaimAgrees(r)'
  BY <1>1, <1>2, <1>4, <1>5 DEF ClaimAgrees
<1>7. MemoryAgrees(r)'
  BY <1>1, <1>2, <1>4, <1>5 DEF MemoryAgrees, Working, Holds, CancelSeen
<1> QED
  BY <1>1, <1>3, <1>4, <1>6, <1>7, RunnerOnlyStep

(* Runner r gives up without writing a row.                                *)
LEMMA ReleaseOnlyStep ==
  ASSUME QueueInv, NEW r \in Runners, Release(r),
         UNCHANGED <<task, attempts, committed>>, crashes' \in Nat
  PROVE  QueueInv'
<1> USE DEF QueueInv
<1>1. \A t \in Tasks : Unnoticed(t)
  BY DEF Unnoticed
<1>2. \A q \in Runners : \A t \in runner[q].rows : task'[t].status = "queued"
  BY DEF Ownership, ClaimAgrees
<1>3. /\ runner' \in [Runners -> RunnerState]
      /\ \A q \in Runners : ClaimAgrees(q)' /\ MemoryAgrees(q)'
      /\ RowsExclusive'
  BY <1>1, <1>2, ReleaseAgrees
<1>4. AuditTrail' /\ EffectsOnCompletion' /\ BornTogether' /\ NewestAttempt'
  BY DEF AuditTrail, EffectsOnCompletion, Ownership, BornTogether, NewestAttempt
<1> QED
  BY <1>3, <1>4 DEF TypeOK, Ownership

(* Runner r closes its attempt without completing it.                      *)
LEMMA CloseAndRelease ==
  ASSUME QueueInv, NEW r \in Runners, runner[r].pc \in Working, Holds(r),
         NEW row \in TaskRow, row.status \in Settled, row.token = NoToken,
         NEW c \in Closed, Release(r),
         task' = [task EXCEPT ![runner[r].task] = row],
         attempts' = [attempts EXCEPT ![runner[r].task] = Finish(@, runner[r].token, c)],
         UNCHANGED crashes
  PROVE  /\ Closes({runner[r].task})
         /\ runner[r].task \in Tasks /\ task[runner[r].task].status \in Leased
         /\ (TypeOK' <=> committed' \in [Tasks -> SUBSET Nat])
         /\ Ownership' /\ AuditTrail'
         /\ (c # "completed" /\ row.status # "completed" /\ committed' = committed)
              => EffectsOnCompletion'
<1> DEFINE t == runner[r].task
<1> USE DEF QueueInv
<1>1. t \in Tasks /\ runner[r].token \in DOMAIN attempts[t]
  BY DEF Ownership, MemoryAgrees
<1>2. runner[r].token # NoToken
  BY <1>1, LenProperties DEF TypeOK, NoToken
<1>3. task[t].status \in Leased /\ task[t].token = runner[r].token
  BY <1>1, <1>2 DEF TypeOK, Holds
<1>4. Closes({t})
  <2>1. task' \in [Tasks -> TaskRow] /\ attempts' = [x \in Tasks |-> attempts'[x]]
    BY <1>1 DEF TypeOK
  <2>2. attempts'[t] = Finish(attempts[t], task[t].token, c)
    BY <1>1, <1>3 DEF TypeOK
  <2>3. task'[t] = row
    BY <1>1 DEF TypeOK
  <2>4. \A x \in Tasks \ {t} : task'[x] = task[x] /\ attempts'[x] = attempts[x]
    BY DEF TypeOK
  <2> QED
    BY <1>1, <1>3, <2>1, <2>2, <2>3, <2>4 DEF Closes
<1>5. /\ attempts' \in [Tasks -> Seq(AttemptStatus)]
      /\ \A x \in Tasks : task'[x].status \in Leased <=> task'[x].token # NoToken
      /\ AuditTrail' /\ BornTogether' /\ NewestAttempt'
      /\ \A x \in Tasks : Unnoticed(x)
      /\ \A q \in Runners : \A x \in runner[q].rows : task'[x].status = "queued"
  <2>1. {t} \in SUBSET Tasks
    BY <1>1
  <2> QED
    BY <1>4, <2>1, ClosingStep
<1>6. /\ runner' \in [Runners -> RunnerState]
      /\ \A q \in Runners : ClaimAgrees(q)' /\ MemoryAgrees(q)'
      /\ RowsExclusive'
  BY <1>5, ReleaseAgrees
<1>7. TypeOK' <=> committed' \in [Tasks -> SUBSET Nat]
  BY <1>4, <1>5, <1>6 DEF TypeOK, Closes
<1>8. Ownership'
  BY <1>5, <1>6 DEF Ownership
<1>9. ASSUME c # "completed", row.status # "completed", committed' = committed
      PROVE  EffectsOnCompletion'
  <2>1. {t} \in SUBSET Tasks
    BY <1>1
  <2>2. \A x \in {t} : /\ task'[x].status # "completed"
                       /\ \E d \in Closed \ {"completed"} :
                            attempts'[x] = Finish(attempts[x], task[x].token, d)
    BY <1>1, <1>3, <1>9 DEF TypeOK
  <2> QED
    BY <1>4, <1>9, <2>1, <2>2, ClosingKeepsEffects
<1> QED
  BY <1>1, <1>3, <1>4, <1>5, <1>7, <1>8, <1>9

LEMMA ClaimCommitInv ==
  ASSUME QueueInv, NEW r \in Runners, ClaimCommit(r)
  PROVE  QueueInv'
<1> DEFINE t == runner[r].task
           n == Len(attempts[t]) + 1
           row == Claimed(task[t], n, Timeout[t] - runner[r].age)
           state == [IdleRunner EXCEPT !.pc = "claimed", !.task = t, !.token = n]
<1> USE DEF QueueInv
<1>1. /\ runner[r].pc = "granted"
      /\ task' = [task EXCEPT ![t] = row]
      /\ attempts' = [attempts EXCEPT ![t] = Append(attempts[t], "processing")]
      /\ SetRunner(r, state)
      /\ UNCHANGED <<committed, crashes>>
  BY DEF ClaimCommit
<1>2. t \in runner[r].rows /\ t \in Tasks /\ task[t].status = "queued"
  BY <1>1 DEF Ownership, ClaimAgrees, TypeOK, RunnerState
<1>3. /\ attempts[t] \in Seq(AttemptStatus) /\ n \in Nat /\ n # NoToken
      /\ DOMAIN attempts[t] = 1..Len(attempts[t]) /\ Len(attempts[t]) \in Nat
  BY <1>2, LenProperties DEF TypeOK, NoToken
<1>4. row \in TaskRow /\ row.status = "processing" /\ row.token = n
  <2>1. task[t] \in TaskRow
    BY <1>2 DEF TypeOK
  <2>2. /\ task[t].version + 1 \in Nat /\ Timeout[t] - runner[r].age \in Int /\ 0 \in Nat
        /\ "processing" \in Status
    BY <1>2, <2>1, QueueAssumption
    DEF QueueAssumption, TypeOK, TaskRow, RunnerState, Status, Active
  <2>3. row \in TaskRow
    BY <1>3, <2>1, <2>2, WholeRowUpdate DEF Claimed
  <2> QED
    BY <2>1, <2>3 DEF TaskRow, Claimed
<1>5. state \in RunnerState
  BY <1>2, <1>3, IdleRunnerType DEF RunnerState
<1>6. /\ state.pc = "claimed" /\ state.rows = {} /\ state.todo = {}
      /\ state.task = t /\ state.token = n
  BY DEF IdleRunner
<1> HIDE DEF row, state
<1>7. /\ runner' = [runner EXCEPT ![r] = state] /\ runner \in [Runners -> RunnerState]
      /\ runner' \in [Runners -> RunnerState]
  BY <1>1, <1>5 DEF SetRunner, TypeOK
<1>8. /\ attempts' \in [Tasks -> Seq(AttemptStatus)]
      /\ Len(attempts'[t]) = n /\ DOMAIN attempts'[t] = 1..n
      /\ attempts'[t][n] = "processing"
      /\ \A m \in DOMAIN attempts[t] : attempts'[t][m] = attempts[t][m]
  <2>1. "processing" \in AttemptStatus
    BY DEF AttemptStatus
  <2>2. attempts'[t] = Append(attempts[t], "processing")
    BY <1>1, <1>2 DEF TypeOK
  <2>3. /\ Append(attempts[t], "processing") \in Seq(AttemptStatus)
        /\ Len(Append(attempts[t], "processing")) = n
        /\ \A m \in 1..Len(attempts[t]) : Append(attempts[t], "processing")[m] = attempts[t][m]
        /\ Append(attempts[t], "processing")[n] = "processing"
    BY <1>3, <2>1, AppendProperties
  <2>4. DOMAIN Append(attempts[t], "processing") = 1..n
    BY <2>3, LenProperties
  <2> QED
    BY <1>1, <1>2, <1>3, <2>2, <2>3, <2>4 DEF TypeOK
<1>9. /\ task'[t] = row
      /\ \A x \in Tasks \ {t} : task'[x] = task[x] /\ attempts'[x] = attempts[x]
  BY <1>1, <1>2 DEF TypeOK
<1>10. TypeOK'
  <2>1. task' \in [Tasks -> TaskRow]
    BY <1>1, <1>4 DEF TypeOK
  <2>2. \A x \in Tasks : task'[x].status \in Leased <=> task'[x].token # NoToken
    BY <1>3, <1>4, <1>9 DEF TypeOK, Leased
  <2> QED
    BY <1>1, <1>7, <1>8, <2>1, <2>2 DEF TypeOK
<1>11. AuditTrail'
  <2> SUFFICES ASSUME NEW x \in Tasks
               PROVE  /\ task'[x].status \in Leased => task'[x].token \in DOMAIN attempts'[x]
                      /\ \A m \in DOMAIN attempts'[x] : attempts'[x][m] = "processing"
                           <=> (task'[x].status \in Leased /\ task'[x].token = m)
    BY DEF AuditTrail
  <2>1. CASE x = t
    <3>1. \A m \in DOMAIN attempts[t] : attempts[t][m] # "processing"
      BY <1>2 DEF AuditTrail, Leased
    <3>2. \A m \in DOMAIN attempts'[t] : m = n \/ (m # n /\ m \in DOMAIN attempts[t])
      BY <1>3, <1>8
    <3>3. task'[t].status \in Leased /\ task'[t].token = n
      BY <1>4, <1>9 DEF Leased
    <3>4. n \in DOMAIN attempts'[t]
      BY <1>3, <1>8
    <3> QED
      BY <1>8, <2>1, <3>1, <3>2, <3>3, <3>4
  <2>2. CASE x # t
    BY <1>9, <2>2 DEF AuditTrail
  <2> QED
    BY <2>1, <2>2
<1>12. EffectsOnCompletion'
  <2> SUFFICES ASSUME NEW x \in Tasks
               PROVE  /\ committed'[x] = {m \in DOMAIN attempts'[x] : attempts'[x][m] = "completed"}
                      /\ x \notin Pollers =>
                           committed'[x] = IF task'[x].status = "completed"
                                           THEN {Len(attempts'[x])} ELSE {}
    BY DEF EffectsOnCompletion
  <2>1. CASE x = t
    <3>1. {m \in DOMAIN attempts'[t] : attempts'[t][m] = "completed"}
            = {m \in DOMAIN attempts[t] : attempts[t][m] = "completed"}
      BY <1>3, <1>8
    <3>2. task'[t].status # "completed" /\ task[t].status # "completed"
      BY <1>2, <1>4, <1>9
    <3> QED
      BY <1>1, <1>2, <2>1, <3>1, <3>2 DEF EffectsOnCompletion
  <2>2. CASE x # t
    BY <1>1, <1>9, <2>2 DEF EffectsOnCompletion
  <2> QED
    BY <2>1, <2>2
<1>13. ASSUME NEW x \in Tasks PROVE Unnoticed(x)
  BY <1>3, <1>4, <1>8, <1>9 DEF Unnoticed
<1>14. ASSUME NEW q \in Runners PROVE ClaimAgrees(q)' /\ MemoryAgrees(q)'
  <2>1. CASE q = r
    <3>1. runner'[q] = state
      BY <1>7, <2>1
    <3>2. n \in DOMAIN attempts'[t]
      BY <1>3, <1>8
    <3> QED
      BY <1>2, <1>6, <3>1, <3>2 DEF ClaimAgrees, MemoryAgrees, Working
  <2>2. CASE q # r
    <3>1. runner'[q] = runner[q] /\ ClaimAgrees(q) /\ MemoryAgrees(q)
      BY <1>7, <2>2 DEF Ownership
    <3>2. \A x \in runner[q].rows : task'[x].status = "queued"
      BY <1>2, <1>9, <2>2 DEF Ownership, RowsExclusive, ClaimAgrees, TypeOK, RunnerState
    <3> QED
      BY <1>13, <3>1, <3>2, StaysInAgreement DEF SameMemory
  <2> QED
    BY <2>1, <2>2
<1>15. RowsExclusive'
  <2>1. \A q \in Runners : runner'[q].rows \subseteq runner[q].rows
    BY <1>6, <1>7
  <2> QED
    BY <2>1, RowsStayExclusive DEF Ownership
<1>16. NewestAttempt'
  BY <1>4, <1>8, <1>9 DEF Ownership, NewestAttempt
<1>17. BornTogether'
  BY <1>2, <1>4, <1>9 DEF Ownership, BornTogether, Children
<1> QED
  BY <1>10, <1>11, <1>12, <1>14, <1>15, <1>16, <1>17 DEF Ownership

LEMMA ExecStartInv ==
  ASSUME QueueInv, NEW r \in Runners, ExecStart(r)
  PROVE  QueueInv'
<1> DEFINE t == runner[r].task
           s == runner[r]
           valid == Holds(r) /\ task[t].status = "processing"
           state == [s EXCEPT !.pc = "running", !.version = task[t].version,
                              !.deadline = Timeout[t]]
<1>1. s.pc = "claimed" /\ s \in RunnerState /\ UNCHANGED <<committed, crashes>>
  BY DEF ExecStart, QueueInv, TypeOK
<1>2. /\ t \in Tasks /\ s.token \in DOMAIN attempts[t]
      /\ ClaimAgrees(r) /\ MemoryAgrees(r) /\ task[t] \in TaskRow
  BY <1>1 DEF QueueInv, Ownership, MemoryAgrees, Working, TypeOK
<1>3. CASE ~valid /\ Release(r) /\ UNCHANGED <<task, attempts>>
  BY <1>1, <1>3, ReleaseOnlyStep DEF QueueInv, TypeOK
<1>4. CASE /\ valid
           /\ task' = [task EXCEPT ![t] = Moved(@, "failed")]
           /\ attempts' = [attempts EXCEPT ![t] = Finish(@, s.token, "failed")]
           /\ Release(r)
  <2> DEFINE row == Moved(task[t], "failed")
  <2>1. /\ row \in TaskRow /\ row.status = "failed" /\ row.token = NoToken
        /\ "failed" \in Settled /\ "failed" \in Closed /\ s.pc \in Working
    BY <1>1, <1>2, MovedRow DEF Settled, Closed, Working
  <2> HIDE DEF row
  <2>2. task' = [task EXCEPT ![t] = row]
    BY <1>4 DEF row
  <2>3. (TypeOK' <=> committed' \in [Tasks -> SUBSET Nat]) /\ Ownership' /\ AuditTrail'
        /\ EffectsOnCompletion'
    BY <1>1, <1>4, <2>1, <2>2, CloseAndRelease
  <2> QED
    BY <1>1, <2>3 DEF QueueInv, TypeOK
<1>5. CASE valid /\ SetRunner(r, state) /\ UNCHANGED <<task, attempts>>
  <2>1. task[t].version \in Nat /\ Timeout[t] \in Nat
    BY <1>2, QueueAssumption DEF QueueAssumption, TaskRow
  <2>2. state \in RunnerState
    BY <1>1, <2>1 DEF RunnerState
  <2>3. /\ state.pc = "running" /\ state.rows = s.rows /\ state.todo = s.todo
        /\ state.task = s.task /\ state.token = s.token
    BY <1>1 DEF RunnerState
  <2> HIDE DEF state
  <2>4. runner'[r] = state
    BY <1>5 DEF SetRunner, QueueInv, TypeOK
  <2>5. ClaimAgrees(r)' /\ MemoryAgrees(r)'
    BY <1>1, <1>2, <1>5, <2>3, <2>4 DEF ClaimAgrees, MemoryAgrees, Working
  <2> QED
    BY <1>1, <1>5, <2>2, <2>3, <2>5, RunnerOnlyStep
<1> QED
  BY <1>3, <1>4, <1>5 DEF ExecStart

(* Only leases and delays change: the audit does not look at them.         *)
LEMMA AuditKeepsOnTime ==
  ASSUME AuditTrail, EffectsOnCompletion, attempts' = attempts, committed' = committed,
         \A x \in Tasks : task'[x].status = task[x].status /\ task'[x].token = task[x].token
  PROVE  AuditTrail' /\ EffectsOnCompletion'
<1>1. AuditTrail'
  BY DEF AuditTrail
<1>2. ASSUME NEW x \in Tasks
      PROVE  /\ committed'[x] = {n \in DOMAIN attempts'[x] : attempts'[x][n] = "completed"}
             /\ x \notin Pollers =>
                  committed'[x] = IF task'[x].status = "completed"
                                  THEN {Len(attempts'[x])} ELSE {}
  BY DEF EffectsOnCompletion
<1>3. EffectsOnCompletion'
  BY <1>2 DEF EffectsOnCompletion
<1> QED
  BY <1>1, <1>3

LEMMA HeartbeatInv ==
  ASSUME QueueInv, NEW r \in Runners, Heartbeat(r)
  PROVE  QueueInv'
<1> DEFINE t == runner[r].task
<1> USE DEF QueueInv
<1>1. PICK lag \in 0..MaxLag : task' = [task EXCEPT ![t].lease = BeatLease - lag]
  BY DEF Heartbeat
<1>2. UNCHANGED <<attempts, committed, runner, crashes>> /\ t \in Tasks
  BY DEF Heartbeat, Ownership, MemoryAgrees, Working
<1>3. BeatLease - lag \in Int
  BY QueueAssumption DEF QueueAssumption
<1>4. task' \in [Tasks -> TaskRow]
  <2>1. [task[t] EXCEPT !.lease = BeatLease - lag] \in TaskRow
    BY <1>2, <1>3, LeaseUpdate DEF TypeOK
  <2>2. task' = [task EXCEPT ![t] = [task[t] EXCEPT !.lease = BeatLease - lag]]
    BY <1>1
  <2> QED
    BY <2>1, <2>2 DEF TypeOK
<1>5. \A x \in Tasks : task'[x].status = task[x].status /\ task'[x].token = task[x].token
  <2>1. \A x \in Tasks \ {t} : task'[x] = task[x]
    BY <1>1 DEF TypeOK
  <2>2. task'[t] = [task[t] EXCEPT !.lease = BeatLease - lag] /\ task[t] \in TaskRow
    BY <1>1, <1>2 DEF TypeOK
  <2>3. task'[t].status = task[t].status /\ task'[t].token = task[t].token
    BY <2>2 DEF TaskRow
  <2> QED
    BY <2>1, <2>3
<1>6. TypeOK'
  BY <1>2, <1>4, <1>5 DEF TypeOK
<1>7. AuditTrail' /\ EffectsOnCompletion'
  BY <1>2, <1>5, AuditKeepsOnTime
<1>8. ASSUME NEW q \in Runners PROVE ClaimAgrees(q)' /\ MemoryAgrees(q)'
  <2>1. ClaimAgrees(q) /\ MemoryAgrees(q) /\ \A x \in Tasks : Unnoticed(x)
    BY <1>2, <1>5 DEF Ownership, Unnoticed
  <2>2. \A x \in runner[q].rows : task'[x].status = "queued"
    BY <1>5, <2>1 DEF ClaimAgrees, TypeOK, RunnerState
  <2> QED
    BY <1>2, <2>1, <2>2, StaysInAgreement DEF SameMemory
<1>9. RowsExclusive' /\ NewestAttempt' /\ BornTogether'
  BY <1>2, <1>5 DEF Ownership, RowsExclusive, NewestAttempt, BornTogether, Children
<1> QED
  BY <1>6, <1>7, <1>8, <1>9 DEF Ownership

LEMMA HandlerReturnsInv ==
  ASSUME QueueInv, NEW r \in Runners, HandlerReturns(r)
  PROVE  QueueInv'
<1>1. CASE GoTo(r, "publishing", "completed")
  BY <1>1, GoToInv DEF HandlerReturns
<1>2. CASE runner[r].task \in Pollers /\ GoTo(r, "publishing", "requeued")
  BY <1>2, GoToInv DEF HandlerReturns
<1> QED
  BY <1>1, <1>2 DEF HandlerReturns

LEMMA HandlerRaisesInv ==
  ASSUME QueueInv, NEW r \in Runners, HandlerRaises(r)
  PROVE  QueueInv'
<1>1. CASE GoTo(r, "failing", "retriable")
  BY <1>1, GoToInv DEF HandlerRaises
<1>2. CASE GoTo(r, "failing", "permanent")
  BY <1>2, GoToInv DEF HandlerRaises
<1> QED
  BY <1>1, <1>2 DEF HandlerRaises

LEMMA CheckpointStopsInv ==
  ASSUME QueueInv, NEW r \in Runners, CheckpointStops(r)
  PROVE  QueueInv'
<1>1. CASE GoTo(r, "failing", "retriable")
  BY <1>1, GoToInv DEF CheckpointStops
<1>2. CASE CancelSeen(r) /\ GoTo(r, "failing", "cancelled")
  BY <1>2, GoToInv DEF CheckpointStops
<1>3. CASE Release(r) /\ UNCHANGED <<task, attempts, committed, crashes>>
  BY <1>3, ReleaseOnlyStep DEF QueueInv, TypeOK
<1> QED
  BY <1>1, <1>2, <1>3 DEF CheckpointStops

LEMMA ApplyOutcomeInv ==
  ASSUME QueueInv, NEW r \in Runners, ApplyOutcome(r)
  PROVE  QueueInv'
<1> DEFINE t == runner[r].task
           base == IF task[t].status = "processing" THEN Cancelling(task[t]) ELSE task[t]
           again == runner[r].outcome = "retriable" /\ HasRetryBudget(t)
           row == IF Stops(r) THEN Moved(base, "cancelled")
                  ELSE IF again THEN Requeued(task[t]) ELSE Moved(task[t], "failed")
           c == IF Stops(r) THEN "cancelled" ELSE "failed"
<1>1. runner[r].pc = "failing" /\ Release(r) /\ UNCHANGED <<committed, crashes>>
  BY DEF ApplyOutcome
<1>2. CASE ~Holds(r)
  BY <1>1, <1>2, ReleaseOnlyStep DEF ApplyOutcome, QueueInv, TypeOK
<1>3. CASE Holds(r)
  <2>1. /\ task' = [task EXCEPT ![t] = row]
        /\ attempts' = [attempts EXCEPT ![t] = Finish(@, runner[r].token, c)]
    BY <1>3 DEF ApplyOutcome
  <2>2. task[t] \in TaskRow
    BY <1>1 DEF QueueInv, TypeOK, Ownership, MemoryAgrees, Working
  <2>3. base \in TaskRow
    BY <2>2, CancellingRow
  <2>4. /\ Moved(base, "cancelled") \in TaskRow
        /\ Moved(base, "cancelled").status = "cancelled"
        /\ Moved(base, "cancelled").token = NoToken
    BY <2>3, MovedRow DEF Settled
  <2>5. /\ Moved(task[t], "failed") \in TaskRow
        /\ Moved(task[t], "failed").status = "failed"
        /\ Moved(task[t], "failed").token = NoToken
    BY <2>2, MovedRow DEF Settled
  <2>6. /\ row \in TaskRow /\ row.token = NoToken
        /\ row.status \in Settled /\ row.status # "completed"
    BY <2>2, <2>4, <2>5, RequeuedRow DEF Settled
  <2>7. c \in Closed /\ c # "completed" /\ runner[r].pc \in Working
    BY <1>1 DEF Closed, Working
  <2> HIDE DEF row, c, t
  <2>8. (TypeOK' <=> committed' \in [Tasks -> SUBSET Nat]) /\ Ownership' /\ AuditTrail'
        /\ EffectsOnCompletion'
    BY <1>1, <1>3, <2>1, <2>6, <2>7, CloseAndRelease DEF t
  <2> QED
    BY <1>1, <2>8 DEF QueueInv, TypeOK
<1> QED
  BY <1>2, <1>3

LEMMA PublishInv ==
  ASSUME QueueInv, NEW r \in Runners, Publish(r)
  PROVE  QueueInv'
<1> DEFINE t == runner[r].task
           n == runner[r].token
           done == runner[r].outcome = "completed"
           row == IF done THEN Moved(task[t], "completed") ELSE Requeued(task[t])
<1>1. runner[r].pc = "publishing" /\ Release(r) /\ UNCHANGED crashes
  BY DEF Publish
<1>2. CASE UNCHANGED <<task, attempts, committed>>
  BY <1>1, <1>2, ReleaseOnlyStep DEF QueueInv, TypeOK
<1>3. CASE /\ Owns(r)
           /\ task' = [task EXCEPT ![t] = row]
           /\ attempts' = [attempts EXCEPT ![t] = Finish(@, n, "completed")]
           /\ committed' = [committed EXCEPT ![t] = @ \union {n}]
  <2>1. t \in Tasks /\ n \in DOMAIN attempts[t] /\ task[t] \in TaskRow
    BY <1>1 DEF QueueInv, TypeOK, Ownership, MemoryAgrees, Working
  <2>2. /\ row \in TaskRow /\ row.token = NoToken /\ row.status \in Settled
        /\ row.status = IF done THEN "completed" ELSE "queued"
    BY <2>1, MovedRow, RequeuedRow DEF Settled
  <2>3. "completed" \in Closed /\ runner[r].pc \in Working /\ Holds(r)
    BY <1>1, <1>3 DEF Closed, Working, Owns
  <2> HIDE DEF row
  <2>4. /\ TypeOK' <=> committed' \in [Tasks -> SUBSET Nat]
        /\ Ownership' /\ AuditTrail' /\ task[t].status \in Leased
    BY <1>1, <1>3, <2>2, <2>3, CloseAndRelease
  <2>5. n \in Nat
    BY DEF QueueInv, TypeOK, RunnerState
  <2>6. committed' \in [Tasks -> SUBSET Nat]
    BY <1>3, <2>5 DEF QueueInv, TypeOK
  <2>7. EffectsOnCompletion'
    <3>1. ASSUME NEW x \in Tasks, x # t
          PROVE  /\ committed'[x] = {m \in DOMAIN attempts'[x] : attempts'[x][m] = "completed"}
                 /\ x \notin Pollers =>
                      committed'[x] = IF task'[x].status = "completed"
                                      THEN {Len(attempts'[x])} ELSE {}
      <4>1. task'[x] = task[x] /\ attempts'[x] = attempts[x] /\ committed'[x] = committed[x]
        BY <1>3, <3>1 DEF QueueInv, TypeOK
      <4> QED
        BY <4>1 DEF QueueInv, EffectsOnCompletion
    <3> DEFINE h == Finish(attempts[t], n, "completed")
    <3>2. /\ task'[t] = row /\ attempts'[t] = h /\ committed'[t] = committed[t] \union {n}
      BY <1>3, <2>1 DEF QueueInv, TypeOK
    <3>3. attempts[t] \in Seq(AttemptStatus)
      BY <2>1 DEF QueueInv, TypeOK
    <3>4. /\ DOMAIN h = DOMAIN attempts[t] /\ Len(h) = Len(attempts[t])
          /\ \A m \in DOMAIN attempts[t] : h[m] =
               IF m = n /\ attempts[t][m] = "processing" THEN "completed" ELSE attempts[t][m]
      BY <2>3, <2>5, <3>3, FinishLemma
    <3> HIDE DEF h
    <3>5. task[t].token = n /\ task[t].status = "processing"
      BY <1>3 DEF Owns, Holds
    <3>6. attempts[t][n] = "processing"
      BY <2>1, <2>4, <3>5 DEF QueueInv, AuditTrail
    <3>7. n = Len(attempts[t])
      BY <2>1, <2>4, <3>5 DEF QueueInv, Ownership, NewestAttempt
    <3>8. {m \in DOMAIN h : h[m] = "completed"}
            = {m \in DOMAIN attempts[t] : attempts[t][m] = "completed"} \union {n}
      BY <2>1, <3>4, <3>6
    <3>9. committed[t] = {m \in DOMAIN attempts[t] : attempts[t][m] = "completed"}
      BY <2>1 DEF QueueInv, EffectsOnCompletion
    <3>10. t \notin Pollers => committed[t] = {} /\ done
      BY <1>1, <2>1, <3>5 DEF QueueInv, EffectsOnCompletion, Ownership, MemoryAgrees
    <3>11. t \notin Pollers =>
             committed'[t] = IF task'[t].status = "completed" THEN {Len(attempts'[t])} ELSE {}
      BY <2>2, <3>2, <3>4, <3>7, <3>10
    <3>12. committed'[t] = {m \in DOMAIN attempts'[t] : attempts'[t][m] = "completed"}
      BY <3>2, <3>8, <3>9
    <3>13. ASSUME NEW x \in Tasks
           PROVE  /\ committed'[x] = {m \in DOMAIN attempts'[x] : attempts'[x][m] = "completed"}
                  /\ x \notin Pollers =>
                       committed'[x] = IF task'[x].status = "completed"
                                       THEN {Len(attempts'[x])} ELSE {}
      <4>1. CASE x = t
        BY <3>11, <3>12, <4>1
      <4>2. CASE x # t
        BY <3>1, <4>2
      <4> QED
        BY <4>1, <4>2
    <3> QED
      BY <3>13 DEF EffectsOnCompletion
  <2> QED
    BY <2>4, <2>6, <2>7 DEF QueueInv
<1> QED
  BY <1>2, <1>3 DEF Publish

LEMMA CrashInv ==
  ASSUME QueueInv, NEW r \in Runners, Crash(r)
  PROVE  QueueInv'
<1>1. crashes' \in Nat
  BY DEF Crash, QueueInv, TypeOK
<1> QED
  BY <1>1, ReleaseOnlyStep DEF Crash

LEMMA ReapInv ==
  ASSUME QueueInv, Reap
  PROVE  QueueInv'
<1> USE DEF QueueInv
<1>0. PICK lag \in 0..MaxLag : \E batch \in SUBSET Expired(lag) :
        /\ task' = [t \in Tasks |-> IF t \in batch THEN Reaped(t) ELSE task[t]]
        /\ attempts' = [t \in Tasks |-> IF t \in batch
                                        THEN Finish(attempts[t], task[t].token, "abandoned")
                                        ELSE attempts[t]]
        /\ UNCHANGED <<committed, runner, crashes>>
  BY DEF Reap
<1>1. PICK batch \in SUBSET Expired(lag) :
        /\ task' = [t \in Tasks |-> IF t \in batch THEN Reaped(t) ELSE task[t]]
        /\ attempts' = [t \in Tasks |-> IF t \in batch
                                        THEN Finish(attempts[t], task[t].token, "abandoned")
                                        ELSE attempts[t]]
        /\ UNCHANGED <<committed, runner, crashes>>
  BY <1>0
<1>2. batch \in SUBSET Tasks /\ \A t \in batch : task[t].status \in Leased
  BY DEF Expired
<1>3. ASSUME NEW t \in batch
      PROVE  /\ Reaped(t) \in TaskRow /\ Reaped(t).token = NoToken
             /\ Reaped(t).status \in Settled /\ Reaped(t).status # "completed"
  <2>1. task[t] \in TaskRow
    BY <1>2 DEF TypeOK
  <2>2. /\ Moved(task[t], "cancelled") \in TaskRow
        /\ Moved(task[t], "cancelled").status = "cancelled"
        /\ Moved(task[t], "cancelled").token = NoToken
    BY <2>1, MovedRow DEF Settled
  <2>3. /\ Moved(task[t], "failed") \in TaskRow
        /\ Moved(task[t], "failed").status = "failed"
        /\ Moved(task[t], "failed").token = NoToken
    BY <2>1, MovedRow DEF Settled
  <2> QED
    BY <2>1, <2>2, <2>3, RequeuedRow DEF Reaped, Settled
<1>4. Closes(batch)
  <2>1. task' \in [Tasks -> TaskRow]
    BY <1>1, <1>3 DEF TypeOK
  <2>2. "abandoned" \in Closed
    BY DEF Closed
  <2>3. \A t \in batch : task'[t] = Reaped(t)
                        /\ attempts'[t] = Finish(attempts[t], task[t].token, "abandoned")
    BY <1>1, <1>2
  <2>4. \A t \in Tasks \ batch : task'[t] = task[t] /\ attempts'[t] = attempts[t]
    BY <1>1
  <2>5. attempts' = [t \in Tasks |-> attempts'[t]]
    BY <1>1
  <2> QED
    BY <1>2, <1>3, <2>1, <2>2, <2>3, <2>4, <2>5 DEF Closes
<1>5. /\ attempts' \in [Tasks -> Seq(AttemptStatus)]
      /\ \A t \in Tasks : task'[t].status \in Leased <=> task'[t].token # NoToken
      /\ AuditTrail' /\ BornTogether' /\ NewestAttempt'
      /\ \A t \in Tasks : Unnoticed(t)
      /\ \A q \in Runners : \A t \in runner[q].rows : task'[t].status = "queued"
  BY <1>2, <1>4, ClosingStep
<1>6. TypeOK'
  BY <1>1, <1>4, <1>5 DEF TypeOK, Closes
<1>7. EffectsOnCompletion'
  <2>1. \A t \in batch : /\ task'[t].status # "completed"
                        /\ \E c \in Closed \ {"completed"} :
                             attempts'[t] = Finish(attempts[t], task[t].token, c)
    BY <1>1, <1>2, <1>3 DEF Closed
  <2> QED
    BY <1>1, <1>2, <1>4, <2>1, ClosingKeepsEffects
<1>8. ASSUME NEW q \in Runners PROVE ClaimAgrees(q)' /\ MemoryAgrees(q)'
  BY <1>1, <1>5, StaysInAgreement DEF Ownership, SameMemory
<1>9. RowsExclusive'
  BY <1>1 DEF Ownership, RowsExclusive
<1> QED
  BY <1>5, <1>6, <1>7, <1>8, <1>9 DEF Ownership

LEMMA TickInv ==
  ASSUME QueueInv, Tick
  PROVE  QueueInv'
<1> USE DEF QueueInv
<1> DEFINE lease(t) == IF task[t].status \in Leased THEN Before(task[t].lease, Floor)
                       ELSE task[t].lease
           age(q) == IF runner[q].pc \in {"claiming", "granted"} THEN runner[q].age + 1
                     ELSE runner[q].age
<1>1. /\ task' = [t \in Tasks |-> [task[t] EXCEPT !.lease = lease(t),
                                                 !.nextRun = Before(task[t].nextRun, 0)]]
      /\ runner' = [q \in Runners |-> [runner[q] EXCEPT
                       !.deadline = Before(runner[q].deadline, 0), !.age = age(q)]]
      /\ UNCHANGED <<attempts, committed, crashes>>
  BY DEF Tick
<1>2. Floor \in Int
  BY QueueAssumption DEF Floor, QueueAssumption
<1>3. ASSUME NEW t \in Tasks
      PROVE  /\ task'[t] \in TaskRow /\ task'[t].status = task[t].status
             /\ task'[t].token = task[t].token
  <2>1. task[t] \in TaskRow
    BY DEF TypeOK
  <2>2. lease(t) \in Int /\ Before(task[t].nextRun, 0) \in Nat
    BY <1>2, <2>1 DEF TaskRow, Before
  <2> HIDE DEF lease
  <2>3. task'[t] = [task[t] EXCEPT !.lease = lease(t), !.nextRun = Before(task[t].nextRun, 0)]
    BY <1>1
  <2>4. task'[t] \in TaskRow
    BY <2>1, <2>2, <2>3, TimeUpdate
  <2> QED
    BY <2>1, <2>3, <2>4 DEF TaskRow
<1>4. ASSUME NEW q \in Runners
      PROVE  runner'[q] \in RunnerState /\ SameMemory(q)
  <2>1. runner[q] \in RunnerState
    BY DEF TypeOK
  <2>2. age(q) \in Nat /\ Before(runner[q].deadline, 0) \in Nat
    BY <2>1 DEF RunnerState, Before
  <2> HIDE DEF age
  <2>3. runner'[q] = [runner[q] EXCEPT !.deadline = Before(runner[q].deadline, 0), !.age = age(q)]
    BY <1>1
  <2>4. runner'[q] \in RunnerState
    BY <2>1, <2>2, <2>3 DEF RunnerState
  <2>5. SameMemory(q)
    BY <2>1, <2>3 DEF RunnerState, SameMemory
  <2> QED
    BY <2>4, <2>5
<1> HIDE DEF lease, age
<1>5. TypeOK'
  <2>1. task' \in [Tasks -> TaskRow]
    BY <1>1, <1>3
  <2>2. runner' \in [Runners -> RunnerState]
    BY <1>1, <1>4
  <2> QED
    BY <1>1, <1>3, <2>1, <2>2 DEF TypeOK
<1>6. AuditTrail' /\ EffectsOnCompletion'
  BY <1>1, <1>3, AuditKeepsOnTime
<1>7. ASSUME NEW q \in Runners PROVE ClaimAgrees(q)' /\ MemoryAgrees(q)'
  <2>1. ClaimAgrees(q) /\ MemoryAgrees(q) /\ \A t \in Tasks : Unnoticed(t)
    BY <1>1, <1>3 DEF Ownership, Unnoticed
  <2>2. \A t \in runner[q].rows : task'[t].status = "queued"
    BY <1>3, <2>1 DEF ClaimAgrees, TypeOK, RunnerState
  <2> QED
    BY <1>4, <2>1, <2>2, StaysInAgreement
<1>8. RowsExclusive'
  <2>1. \A q \in Runners : runner'[q].rows \subseteq runner[q].rows
    BY <1>4 DEF SameMemory
  <2> QED
    BY <2>1, RowsStayExclusive DEF Ownership
<1>9. NewestAttempt' /\ BornTogether'
  BY <1>1, <1>3 DEF Ownership, NewestAttempt, BornTogether, Children
<1> QED
  BY <1>5, <1>6, <1>7, <1>8, <1>9 DEF Ownership
-----------------------------------------------------------------------------
(* The theorems.                                                           *)

LEMMA StepInv == QueueInv /\ [Next]_vars => QueueInv'
<1> SUFFICES ASSUME QueueInv, [Next]_vars PROVE QueueInv'
  OBVIOUS
<1>1. ASSUME NEW t \in Tasks, CreateTask(t) \/ RequestCancel(t) PROVE QueueInv'
  BY <1>1, CreateTaskInv, RequestCancelInv
<1>2. ASSUME NEW r \in Runners, Claim(r) PROVE QueueInv'
  <2>1. CASE ClaimSelect(r)
    BY <2>1, ClaimSelectInv
  <2>2. CASE \E t \in Tasks : ClaimConsider(r, t)
    BY <2>2, ClaimConsiderInv
  <2>3. CASE ClaimNothing(r)
    BY <2>3, ReleaseOnlyStep DEF ClaimNothing, QueueInv, TypeOK
  <2>4. CASE ClaimCommit(r)
    BY <2>4, ClaimCommitInv
  <2> QED
    BY <1>2, <2>1, <2>2, <2>3, <2>4 DEF Claim
<1>3. ASSUME NEW r \in Runners, Handler(r) PROVE QueueInv'
  BY <1>3, HandlerReturnsInv, HandlerRaisesInv, HeartbeatInv DEF Handler
<1>4. ASSUME NEW r \in Runners, Control(r) PROVE QueueInv'
  BY <1>4, ExecStartInv, CheckpointStopsInv, PublishInv, ApplyOutcomeInv DEF Control
<1>5. ASSUME NEW r \in Runners, Crash(r) PROVE QueueInv'
  BY <1>5, CrashInv
<1>6. CASE Reap
  BY <1>6, ReapInv
<1>7. CASE Tick
  BY <1>7, TickInv
<1>8. CASE UNCHANGED vars
  <2>1. /\ task' = task /\ attempts' = attempts /\ committed' = committed
        /\ runner' = runner /\ crashes' = crashes
    BY <1>8 DEF vars
  <2>2. TypeOK' /\ AuditTrail' /\ EffectsOnCompletion'
    BY <2>1 DEF QueueInv, TypeOK, AuditTrail, EffectsOnCompletion
  <2>3. Ownership'
    BY <2>1 DEF QueueInv, Ownership, ClaimAgrees, MemoryAgrees, Holds, RowsExclusive,
                BornTogether, NewestAttempt
  <2> QED
    BY <2>2, <2>3 DEF QueueInv
<1> QED
  BY <1>1, <1>2, <1>3, <1>4, <1>5, <1>6, <1>7, <1>8 DEF Next

THEOREM Invariance == Spec => []QueueInv
<1>1. Init => QueueInv
  BY InitInv
<1>2. QueueInv /\ [Next]_vars => QueueInv'
  BY StepInv
<1> QED
  BY <1>1, <1>2, PTL DEF Spec

(* Rows are well typed in every reachable state and carry a run token      *)
(* exactly while they are leased, which the CHECK constraint of the table  *)
(* demands.                                                                *)
THEOREM TypeCorrect == Spec => []TypeOK
<1>1. QueueInv => TypeOK
  BY DEF QueueInv
<1> QED
  BY <1>1, Invariance, PTL

(* The memory of the runners agrees with the rows.                         *)
THEOREM OwnershipHolds == Spec => []Ownership
<1>1. QueueInv => Ownership
  BY DEF QueueInv
<1> QED
  BY <1>1, Invariance, PTL

(* Every open attempt in task_attempts is the one its task runs under.     *)
THEOREM AuditTrailHolds == Spec => []AuditTrail
<1>1. QueueInv => AuditTrail
  BY DEF QueueInv
<1> QED
  BY <1>1, Invariance, PTL

(* Business writes are durable for completed attempts only, and once.      *)
THEOREM EffectsHold == Spec => []EffectsOnCompletion
<1>1. QueueInv => EffectsOnCompletion
  BY DEF QueueInv
<1> QED
  BY <1>1, Invariance, PTL
-----------------------------------------------------------------------------
(* What runners, reaper and clock do to one row. Only the clients' two     *)
(* operations create rows or start a cancellation.                         *)
Graph == {<<"queued", "processing">>, <<"processing", "queued">>,
          <<"processing", "failed">>, <<"cancelling", "cancelled">>}

RowStep(t) ==
  \/ task'[t].status = task[t].status /\ committed'[t] = committed[t]
  \/ <<task[t].status, task'[t].status>> \in Graph /\ committed'[t] = committed[t]
  \/ /\ task[t].status = "processing"
     /\ \/ task'[t].status = "completed"
        \/ task'[t].status = "queued" /\ t \in Pollers
     /\ \E n \in committed'[t] \ committed[t] : committed'[t] = committed[t] \union {n}

LEMMA ClaimCommitRow ==
  ASSUME QueueInv, NEW r \in Runners, ClaimCommit(r), NEW x \in Tasks
  PROVE  RowStep(x)
<1> DEFINE t == runner[r].task
           row == Claimed(task[t], Len(attempts[t]) + 1, Timeout[t] - runner[r].age)
<1>1. /\ task' = [task EXCEPT ![t] = row] /\ committed' = committed
      /\ runner[r].pc = "granted"
  BY DEF ClaimCommit
<1>2. t \in Tasks /\ task[t].status = "queued" /\ task[t] \in TaskRow
  BY <1>1 DEF QueueInv, Ownership, ClaimAgrees, TypeOK, RunnerState
<1>3. row.status = "processing"
  BY <1>2 DEF Claimed, TaskRow
<1> HIDE DEF row
<1>4. CASE x = t
  <2>1. task'[x].status = "processing"
    BY <1>1, <1>2, <1>3, <1>4 DEF QueueInv, TypeOK
  <2> QED
    BY <1>1, <1>2, <1>4, <2>1 DEF RowStep, Graph
<1>5. CASE x # t
  BY <1>1, <1>5 DEF RowStep, QueueInv, TypeOK
<1> QED
  BY <1>4, <1>5

LEMMA ExecStartRow ==
  ASSUME QueueInv, NEW r \in Runners, ExecStart(r), NEW x \in Tasks
  PROVE  RowStep(x)
<1> DEFINE t == runner[r].task
<1>1. committed' = committed /\ runner[r].pc = "claimed"
  BY DEF ExecStart
<1>2. t \in Tasks /\ task[t] \in TaskRow
  BY <1>1 DEF QueueInv, Ownership, MemoryAgrees, Working, TypeOK
<1>3. CASE task' = task
  BY <1>1, <1>3 DEF RowStep
<1>4. CASE task[t].status = "processing" /\ task' = [task EXCEPT ![t] = Moved(@, "failed")]
  <2>1. Moved(task[t], "failed").status = "failed"
    BY <1>2, MovedRow DEF Settled
  <2>2. CASE x = t
    <3>1. task'[x].status = "failed"
      BY <1>2, <1>4, <2>1, <2>2 DEF QueueInv, TypeOK
    <3> QED
      BY <1>1, <1>4, <2>2, <3>1 DEF RowStep, Graph
  <2>3. CASE x # t
    BY <1>1, <1>4, <2>3 DEF RowStep, QueueInv, TypeOK
  <2> QED
    BY <2>2, <2>3
<1> QED
  BY <1>3, <1>4 DEF ExecStart

LEMMA PublishRow ==
  ASSUME QueueInv, NEW r \in Runners, Publish(r), NEW x \in Tasks
  PROVE  RowStep(x)
<1> DEFINE t == runner[r].task
           n == runner[r].token
           done == runner[r].outcome = "completed"
           row == IF done THEN Moved(task[t], "completed") ELSE Requeued(task[t])
<1>1. CASE UNCHANGED <<task, committed>>
  BY <1>1 DEF RowStep
<1>2. CASE /\ Owns(r)
           /\ task' = [task EXCEPT ![t] = row]
           /\ committed' = [committed EXCEPT ![t] = @ \union {n}]
  <2>1. /\ t \in Tasks /\ task[t] \in TaskRow /\ n \in DOMAIN attempts[t]
        /\ done \/ t \in Pollers
    BY DEF Publish, QueueInv, Ownership, MemoryAgrees, Working, TypeOK
  <2>2. row.status = IF done THEN "completed" ELSE "queued"
    BY <2>1, MovedRow, RequeuedRow DEF Settled
  <2> HIDE DEF row
  <2>3. task[t].token = n /\ task[t].status = "processing"
    BY <1>2 DEF Owns, Holds
  <2>4. attempts[t][n] = "processing"
    BY <2>1, <2>3 DEF QueueInv, AuditTrail, Leased
  <2>5. n \notin committed[t]
    BY <2>1, <2>4 DEF QueueInv, EffectsOnCompletion
  <2>6. CASE x = t
    <3>1. task'[t] = row /\ committed'[t] = committed[t] \union {n}
      BY <1>2, <2>1 DEF QueueInv, TypeOK
    <3>2. \E k \in committed'[t] \ committed[t] : committed'[t] = committed[t] \union {k}
      BY <2>5, <3>1
    <3> QED
      BY <2>1, <2>2, <2>3, <2>6, <3>1, <3>2 DEF RowStep
  <2>7. CASE x # t
    BY <1>2, <2>7 DEF RowStep, QueueInv, TypeOK
  <2> QED
    BY <2>6, <2>7
<1> QED
  BY <1>1, <1>2 DEF Publish

LEMMA ApplyOutcomeRow ==
  ASSUME QueueInv, NEW r \in Runners, ApplyOutcome(r), NEW x \in Tasks
  PROVE  RowStep(x)
<1> DEFINE t == runner[r].task
           again == runner[r].outcome = "retriable" /\ HasRetryBudget(t)
<1>1. committed' = committed /\ runner[r].pc = "failing"
  BY DEF ApplyOutcome
<1>2. /\ t \in Tasks /\ task[t] \in TaskRow
      /\ runner[r].token \in DOMAIN attempts[t] /\ runner[r].token # NoToken
  BY <1>1, LenProperties DEF QueueInv, Ownership, MemoryAgrees, Working, TypeOK, NoToken
<1>3. CASE ~Holds(r)
  BY <1>1, <1>3 DEF ApplyOutcome, RowStep
<1>4. CASE Holds(r) /\ Stops(r)
  <2>1. task[t].status = "cancelling"
    BY <1>1, <1>4 DEF Stops, QueueInv, Ownership, MemoryAgrees
  <2>2. task' = [task EXCEPT ![t] = Moved(task[t], "cancelled")]
    BY <1>4, <2>1 DEF ApplyOutcome
  <2>3. Moved(task[t], "cancelled").status = "cancelled"
    BY <1>2, MovedRow DEF Settled
  <2>4. CASE x = t
    <3>1. task'[x].status = "cancelled"
      BY <1>2, <2>2, <2>3, <2>4 DEF QueueInv, TypeOK
    <3> QED
      BY <1>1, <2>1, <2>4, <3>1 DEF RowStep, Graph
  <2>5. CASE x # t
    BY <1>1, <2>2, <2>5 DEF RowStep, QueueInv, TypeOK
  <2> QED
    BY <2>4, <2>5
<1>5. CASE Holds(r) /\ ~Stops(r)
  <2> DEFINE row == IF again THEN Requeued(task[t]) ELSE Moved(task[t], "failed")
  <2>1. task[t].status = "processing"
    BY <1>2, <1>5 DEF Stops, Holds, QueueInv, TypeOK, Leased
  <2>2. task' = [task EXCEPT ![t] = row]
    BY <1>5 DEF ApplyOutcome
  <2>3. row.status \in {"queued", "failed"}
    BY <1>2, MovedRow, RequeuedRow DEF Settled
  <2> HIDE DEF row
  <2>4. CASE x = t
    <3>1. task'[x] = row
      BY <1>2, <2>2, <2>4 DEF QueueInv, TypeOK
    <3> QED
      BY <1>1, <2>1, <2>3, <2>4, <3>1 DEF RowStep, Graph
  <2>5. CASE x # t
    BY <1>1, <2>2, <2>5 DEF RowStep, QueueInv, TypeOK
  <2> QED
    BY <2>4, <2>5
<1> QED
  BY <1>3, <1>4, <1>5

LEMMA ReapRow ==
  ASSUME QueueInv, Reap, NEW x \in Tasks
  PROVE  RowStep(x)
<1>1. /\ committed' = committed
      /\ \/ task'[x] = task[x]
         \/ task[x].status \in Leased /\ task'[x] = Reaped(x)
  BY DEF Reap, Expired
<1>2. task[x] \in TaskRow
  BY DEF QueueInv, TypeOK
<1>3. /\ Moved(task[x], "cancelled").status = "cancelled"
      /\ Moved(task[x], "failed").status = "failed"
      /\ Requeued(task[x]).status = "queued"
  BY <1>2, MovedRow, RequeuedRow DEF Settled
<1>4. CASE task[x].status \in Leased /\ task'[x] = Reaped(x)
  <2>1. CASE task[x].status = "cancelling"
    BY <1>1, <1>3, <1>4, <2>1 DEF Reaped, RowStep, Graph
  <2>2. CASE task[x].status = "processing"
    BY <1>1, <1>3, <1>4, <2>2 DEF Reaped, RowStep, Graph
  <2> QED
    BY <1>4, <2>1, <2>2 DEF Leased
<1> QED
  BY <1>1, <1>4 DEF RowStep

LEMMA TickRow ==
  ASSUME QueueInv, Tick, NEW x \in Tasks
  PROVE  RowStep(x)
<1> DEFINE lease == IF task[x].status \in Leased THEN Before(task[x].lease, Floor)
                    ELSE task[x].lease
<1>1. /\ task'[x] = [task[x] EXCEPT !.lease = lease, !.nextRun = Before(task[x].nextRun, 0)]
      /\ committed' = committed
  BY DEF Tick
<1> HIDE DEF lease
<1>2. task[x] \in TaskRow
  BY DEF QueueInv, TypeOK
<1>3. task'[x].status = task[x].status
  BY <1>1, <1>2 DEF TaskRow
<1> QED
  BY <1>1, <1>3 DEF RowStep

LEMMA HeartbeatRow ==
  ASSUME QueueInv, NEW r \in Runners, Heartbeat(r), NEW x \in Tasks
  PROVE  RowStep(x)
<1>1. PICK lag \in 0..MaxLag :
        task' = [task EXCEPT ![runner[r].task].lease = BeatLease - lag]
  BY DEF Heartbeat
<1>2. task[x] \in TaskRow /\ committed' = committed
  BY DEF QueueInv, TypeOK, Heartbeat
<1>3. task'[x].status = task[x].status
  BY <1>1, <1>2 DEF TaskRow, QueueInv, TypeOK
<1> QED
  BY <1>2, <1>3 DEF RowStep

(* Every step that is not a client's moves each row along RowStep.         *)
Serving == (\E r \in Runners : Claim(r) \/ Handler(r) \/ Control(r) \/ Crash(r))
           \/ Reap \/ Tick \/ UNCHANGED vars

LEMMA ServingRow ==
  ASSUME QueueInv, Serving, NEW x \in Tasks
  PROVE  RowStep(x)
<1>1. CASE UNCHANGED <<task, committed>>
  BY <1>1 DEF RowStep
<1>2. ASSUME NEW r \in Runners, Claim(r) PROVE RowStep(x)
  BY <1>1, <1>2, ClaimCommitRow DEF Claim, ClaimSelect, ClaimConsider, ClaimNothing
<1>3. ASSUME NEW r \in Runners, Handler(r) PROVE RowStep(x)
  BY <1>1, <1>3, HeartbeatRow DEF Handler, HandlerReturns, HandlerRaises, GoTo
<1>4. ASSUME NEW r \in Runners, Control(r) PROVE RowStep(x)
  BY <1>1, <1>4, ExecStartRow, PublishRow, ApplyOutcomeRow
  DEF Control, CheckpointStops, GoTo
<1>5. ASSUME NEW r \in Runners, Crash(r) PROVE RowStep(x)
  BY <1>1, <1>5 DEF Crash
<1>6. CASE Reap
  BY <1>6, ReapRow
<1>7. CASE Tick
  BY <1>7, TickRow
<1>8. CASE UNCHANGED vars
  BY <1>1, <1>8 DEF vars
<1> QED
  BY <1>2, <1>3, <1>4, <1>5, <1>6, <1>7, <1>8 DEF Serving

(* What the clients' operations do to one row.                             *)
LEMMA CreateTaskRow ==
  ASSUME QueueInv, NEW t \in Tasks, CreateTask(t), NEW x \in Tasks
  PROVE  /\ committed' = committed
         /\ \/ task'[x] = task[x] /\ x \notin {t} \union Children(t)
            \/ /\ x \in {t} \union Children(t)
               /\ task[x].status = "absent" /\ task'[x].status = "queued"
<1>1. /\ committed' = committed
      /\ task'[x] = IF x \in {t} \union Children(t)
                    THEN [AbsentRow EXCEPT !.status = "queued"] ELSE task[x]
  BY DEF CreateTask
<1>2. \A c \in {t} \union Children(t) : task[c].status = "absent"
  BY DEF CreateTask, QueueInv, Ownership, BornTogether, Children
<1>3. [AbsentRow EXCEPT !.status = "queued"].status = "queued"
  BY DEF AbsentRow
<1> QED
  BY <1>1, <1>2, <1>3

LEMMA RequestCancelRow ==
  ASSUME QueueInv, NEW t \in Tasks, RequestCancel(t), NEW x \in Tasks
  PROVE  /\ committed' = committed
         /\ x \notin Cancels(t) => task'[x] = task[x]
         /\ x \in Cancels(t) =>
              task'[x].status = CASE task[x].status = "queued" -> "cancelled"
                                  [] task[x].status = "processing" -> "cancelling"
                                  [] OTHER -> task[x].status
<1>1. /\ committed' = committed
      /\ task'[x] = IF x \in Cancels(t) THEN CancelRow(task[x]) ELSE task[x]
      /\ task[x] \in TaskRow
  BY DEF RequestCancel, QueueInv, TypeOK
<1>2. Moved(task[x], "cancelled").status = "cancelled"
  BY <1>1, MovedRow DEF Settled
<1>3. Cancelling(task[x]).status = "cancelling"
  BY <1>1 DEF Cancelling, TaskRow
<1> QED
  BY <1>1, <1>2, <1>3 DEF CancelRow
-----------------------------------------------------------------------------
(* Refinement of TaskLifecycle.                                            *)

LEMMA NextSplits ==
  ASSUME [Next]_vars
  PROVE  Serving \/ \E t \in Tasks : CreateTask(t) \/ RequestCancel(t)
BY DEF Next, Serving


LEMMA RowStepMoves ==
  ASSUME QueueInv, NEW x \in Tasks, RowStep(x)
  PROVE  Lifecycle!Move(x) \/ Lifecycle!Rest(x)
<1>1. CASE task'[x].status = task[x].status /\ committed'[x] = committed[x]
  BY <1>1 DEF Lifecycle!Rest
<1>2. CASE <<task[x].status, task'[x].status>> \in Graph /\ committed'[x] = committed[x]
  <2>1. task'[x].status # "completed"
    BY <1>2 DEF Graph
  <2>2. <<task[x].status, task'[x].status>> \in Lifecycle!Transitions
    BY <1>2 DEF Graph, Lifecycle!Transitions
  <2> QED
    BY <1>2, <2>1, <2>2 DEF Lifecycle!Move
<1>3. CASE /\ task[x].status = "processing"
           /\ \/ task'[x].status = "completed"
              \/ task'[x].status = "queued" /\ x \in Pollers
           /\ \E n \in committed'[x] \ committed[x] : committed'[x] = committed[x] \union {n}
  <2>1. <<task[x].status, task'[x].status>> \in Lifecycle!Transitions
    BY <1>3 DEF Lifecycle!Transitions
  <2> QED
    BY <1>3, <2>1 DEF Lifecycle!Move
<1> QED
  BY <1>1, <1>2, <1>3 DEF RowStep

LEMMA ClientMoves ==
  ASSUME QueueInv, NEW t \in Tasks, CreateTask(t) \/ RequestCancel(t), NEW x \in Tasks
  PROVE  Lifecycle!Move(x) \/ Lifecycle!Rest(x)
<1>1. CASE task'[x].status = task[x].status /\ committed'[x] = committed[x]
  BY <1>1 DEF Lifecycle!Rest
<1>2. CASE /\ <<task[x].status, task'[x].status>> \in
                {<<"absent", "queued">>, <<"queued", "cancelled">>,
                 <<"processing", "cancelling">>}
           /\ committed'[x] = committed[x]
  <2>1. task'[x].status # "completed"
    BY <1>2
  <2>2. <<task[x].status, task'[x].status>> \in Lifecycle!Transitions
    BY <1>2 DEF Lifecycle!Transitions
  <2> QED
    BY <1>2, <2>1, <2>2 DEF Lifecycle!Move
<1>3. CASE CreateTask(t)
  BY <1>1, <1>2, <1>3, CreateTaskRow
<1>4. CASE RequestCancel(t)
  BY <1>1, <1>2, <1>4, RequestCancelRow
<1> QED
  BY <1>3, <1>4

LEMMA StatusTyped ==
  ASSUME TypeOK
  PROVE  /\ [t \in Tasks |-> task[t].status] \in [Tasks -> Lifecycle!Statuses]
         /\ committed \in [Tasks -> SUBSET Nat]
<1>1. \A t \in Tasks : task[t].status \in Lifecycle!Statuses
  BY DEF TypeOK, TaskRow, Active, Terminal, Lifecycle!Statuses
<1> QED
  BY <1>1 DEF TypeOK

(* The queue implements TaskLifecycle: every step moves every row along    *)
(* _TRANSITIONS or leaves it alone, and business writes become durable     *)
(* with completion or with the return of a poll only.                      *)
THEOREM Refinement == Spec => LifecycleSpec
<1>1. Init => Lifecycle!LifeInit
  <2>1. AbsentRow.status = "absent"
    BY DEF AbsentRow
  <2> QED
    BY <2>1 DEF Init, Lifecycle!LifeInit
<1>2. QueueInv /\ [Next]_vars => [Lifecycle!LifeNext]_(Lifecycle!lifeVars)
  <2> SUFFICES ASSUME QueueInv, [Next]_vars PROVE Lifecycle!LifeNext
    OBVIOUS
  <2>1. QueueInv'
    BY StepInv
  <2>2. /\ [t \in Tasks |-> task'[t].status] \in [Tasks -> Lifecycle!Statuses]
        /\ committed' \in [Tasks -> SUBSET Nat]
    <3>1. \A t \in Tasks : task'[t].status \in Lifecycle!Statuses
      BY <2>1 DEF QueueInv, TypeOK, TaskRow, Active, Terminal, Lifecycle!Statuses
    <3> QED
      BY <2>1, <3>1 DEF QueueInv, TypeOK
  <2>3. ASSUME NEW x \in Tasks PROVE Lifecycle!Move(x) \/ Lifecycle!Rest(x)
    BY NextSplits, ServingRow, RowStepMoves, ClientMoves
  <2> QED
    BY <2>2, <2>3 DEF Lifecycle!LifeNext
<1> QED
  BY <1>1, <1>2, Invariance, PTL DEF Spec, LifecycleSpec, Lifecycle!LifeSpec
-----------------------------------------------------------------------------
(* Cancellation.                                                           *)

(* Once a batch task's cancellation is recorded no child of it waits or    *)
(* runs freely, and none becomes so again.                                 *)
LEMMA FamilyStep ==
  ASSUME QueueInv, CancelReachesFamily, [Next]_vars
  PROVE  CancelReachesFamily'
<1> SUFFICES ASSUME NEW t \in Tasks, NEW c \in Children(t),
                    task'[t].status \in {"cancelling", "cancelled"}
             PROVE  task'[c].status \notin {"queued", "processing"}
  BY DEF CancelReachesFamily, Children
<1>1. c \in Tasks /\ ParentOf[c] = t /\ t # NoTask /\ ParentOf[t] = NoTask
  BY QueueAssumption, FamilyAssumption DEF Children, QueueAssumption, FamilyAssumption
<1>2. task[t].status \in {"cancelling", "cancelled"} =>
        task[c].status \notin {"queued", "processing"}
  BY DEF CancelReachesFamily
<1>3. task[t] \in TaskRow /\ task[c] \in TaskRow
  BY <1>1 DEF QueueInv, TypeOK
<1>4. CASE Serving
  <2>1. RowStep(t) /\ RowStep(c)
    BY <1>1, <1>4, ServingRow
  <2>2. task[t].status \in {"cancelling", "cancelled"}
    BY <2>1 DEF RowStep, Graph
  <2> QED
    BY <1>2, <2>1, <2>2 DEF RowStep, Graph
<1>5. ASSUME NEW p \in Tasks, CreateTask(p) PROVE task'[c].status \notin {"queued", "processing"}
  <2>1. t # p /\ task[t].status \in {"cancelling", "cancelled"}
    BY <1>5, CreateTaskRow
  <2>2. c \notin {p} \union Children(p)
    BY <1>1, <1>5, <2>1 DEF CreateTask, Children
  <2> QED
    BY <1>1, <1>2, <1>5, <2>1, <2>2, CreateTaskRow
<1>6. ASSUME NEW p \in Tasks, RequestCancel(p) PROVE task'[c].status \notin {"queued", "processing"}
  <2>1. CASE task[t].status \in {"cancelling", "cancelled"}
    BY <1>1, <1>2, <1>6, <2>1, RequestCancelRow
  <2>2. CASE task[t].status \notin {"cancelling", "cancelled"}
    <3>1. t \in Cancels(p)
      BY <1>6, <2>2, RequestCancelRow
    <3>2. c \in Cancels(p)
      BY <1>1, <3>1, QueueAssumption DEF Cancels, Children, QueueAssumption
    <3> QED
      BY <1>1, <1>6, <3>2, RequestCancelRow
  <2> QED
    BY <2>1, <2>2
<1> QED
  BY <1>4, <1>5, <1>6, NextSplits

(* Cancelling a batch task reaches all its children and no child escapes.  *)
THEOREM CancelReachesFamilyHolds == Spec => []CancelReachesFamily
<1>1. Init => CancelReachesFamily
  <2>1. AbsentRow.status = "absent"
    BY DEF AbsentRow
  <2> QED
    BY <2>1 DEF Init, CancelReachesFamily, Children
<1> QED
  BY <1>1, FamilyStep, Invariance, PTL DEF Spec

(* After a cancellation was acknowledged, neither the task nor a child of  *)
(* it makes another business write durable.                                *)
THEOREM CancelStopsEffectsHolds == Spec => CancelStopsEffects
<1>1. /\ QueueInv /\ CancelReachesFamily /\ [Next]_vars
      => [\A t \in Tasks : task[t].status \in {"cancelling", "cancelled"} =>
           \A x \in {t} \union Children(t) : committed'[x] = committed[x]]_vars
  <2> SUFFICES ASSUME QueueInv, CancelReachesFamily, [Next]_vars,
                      NEW t \in Tasks, task[t].status \in {"cancelling", "cancelled"},
                      NEW x \in {t} \union Children(t)
               PROVE  committed'[x] = committed[x]
    OBVIOUS
  <2>1. x \in Tasks /\ task[x].status \notin {"queued", "processing"}
    BY DEF CancelReachesFamily, Children
  <2>2. CASE Serving
    BY <2>1, <2>2, ServingRow DEF RowStep
  <2>3. ASSUME NEW p \in Tasks, CreateTask(p) \/ RequestCancel(p)
        PROVE  committed'[x] = committed[x]
    BY <2>3 DEF CreateTask, RequestCancel
  <2> QED
    BY <2>2, <2>3, NextSplits
<1> QED
  BY <1>1, Invariance, CancelReachesFamilyHolds, PTL DEF Spec, CancelStopsEffects
-----------------------------------------------------------------------------
(* The retry budget. An attempt that was not a successful poll is spent; a *)
(* row that waits for its next attempt has one left.                       *)
Unstarted == {"absent", "queued"}

BudgetOf(t) ==
  /\ Len(attempts[t]) - Polls(t) <= MaxAttempts[t]
  /\ task[t].status \in Unstarted => HasRetryBudget(t)

BudgetInv == \A t \in Tasks : BudgetOf(t)

(* What a step may do to the attempts of one task: nothing, open one for a *)
(* queued row, close the open one as spent, or close it as a success.      *)
AttemptStep(t) ==
  \/ /\ attempts'[t] = attempts[t]
     /\ task'[t].status \in Unstarted => task[t].status \in Unstarted
  \/ /\ task[t].status = "queued" /\ task'[t].status = "processing"
     /\ attempts'[t] = Append(attempts[t], "processing")
  \/ /\ \E c \in Closed \ {"completed"} :
          attempts'[t] = Finish(attempts[t], task[t].token, c)
     /\ task'[t].status \in Unstarted => HasRetryBudget(t)
  \/ /\ task[t].status \in Leased
     /\ attempts'[t] = Finish(attempts[t], task[t].token, "completed")
     /\ task'[t].status \in Unstarted => t \in Pollers

Completions(h) == {n \in DOMAIN h : h[n] = "completed"}

LEMMA CompletionsFinite ==
  ASSUME NEW h \in Seq(AttemptStatus)
  PROVE  IsFiniteSet(Completions(h)) /\ Cardinality(Completions(h)) \in Nat
<1>1. Len(h) \in Nat /\ DOMAIN h = 1..Len(h)
  BY LenProperties
<1>2. IsFiniteSet(1..Len(h)) /\ Completions(h) \in SUBSET (1..Len(h))
  BY <1>1, FS_Interval DEF Completions
<1>3. IsFiniteSet(Completions(h))
  BY <1>2, FS_Subset
<1> QED
  BY <1>3, FS_CardinalityType

(* Opening an attempt or closing one as spent completes none.              *)
LEMMA OpeningCompletesNone ==
  ASSUME NEW h \in Seq(AttemptStatus)
  PROVE  /\ Completions(Append(h, "processing")) = Completions(h)
         /\ Len(Append(h, "processing")) = Len(h) + 1
<1> DEFINE g == Append(h, "processing")
<1>1. Len(h) \in Nat /\ DOMAIN h = 1..Len(h) /\ "processing" \in AttemptStatus
  BY LenProperties DEF AttemptStatus
<1>2. /\ g \in Seq(AttemptStatus) /\ Len(g) = Len(h) + 1
      /\ \A i \in 1..Len(h) : g[i] = h[i]
      /\ g[Len(h) + 1] = "processing"
  BY <1>1, AppendProperties
<1>3. DOMAIN g = 1..Len(g)
  BY <1>2, LenProperties
<1> HIDE DEF g
<1>4. \A i \in DOMAIN g : i \in DOMAIN h \/ i = Len(h) + 1
  BY <1>1, <1>2, <1>3
<1>5. DOMAIN h \subseteq DOMAIN g
  BY <1>1, <1>2, <1>3
<1>6. Completions(g) = Completions(h)
  BY <1>1, <1>2, <1>4, <1>5 DEF Completions
<1> QED
  BY <1>2, <1>6 DEF g

LEMMA SpendingCompletesNone ==
  ASSUME NEW h \in Seq(AttemptStatus), NEW n \in Nat, NEW c \in Closed \ {"completed"}
  PROVE  /\ Completions(Finish(h, n, c)) = Completions(h)
         /\ Len(Finish(h, n, c)) = Len(h)
<1>1. /\ Len(Finish(h, n, c)) = Len(h)
      /\ DOMAIN Finish(h, n, c) = DOMAIN h
      /\ \A m \in DOMAIN h : Finish(h, n, c)[m] =
           IF m = n /\ h[m] = "processing" THEN c ELSE h[m]
  BY FinishLemma
<1>2. \A m \in DOMAIN h : Finish(h, n, c)[m] = "completed" <=> h[m] = "completed"
  BY <1>1
<1> QED
  BY <1>1, <1>2 DEF Completions

(* A success is one completion more.                                       *)
LEMMA SuccessCompletesOne ==
  ASSUME NEW h \in Seq(AttemptStatus), NEW n \in DOMAIN h, h[n] = "processing"
  PROVE  /\ Cardinality(Completions(Finish(h, n, "completed")))
              = Cardinality(Completions(h)) + 1
         /\ Len(Finish(h, n, "completed")) = Len(h)
<1> DEFINE g == Finish(h, n, "completed")
<1>1. n \in Nat /\ "completed" \in Closed
  BY LenProperties DEF Closed
<1>2. /\ Len(g) = Len(h)
      /\ DOMAIN g = DOMAIN h
      /\ \A m \in DOMAIN h : g[m] =
           IF m = n /\ h[m] = "processing" THEN "completed" ELSE h[m]
  BY <1>1, FinishLemma
<1> HIDE DEF g
<1>3. Completions(g) = Completions(h) \union {n} /\ n \notin Completions(h)
  BY <1>2 DEF Completions
<1>4. IsFiniteSet(Completions(h))
  BY CompletionsFinite
<1>5. Cardinality(Completions(h) \union {n}) = Cardinality(Completions(h)) + 1
  BY <1>3, <1>4, FS_AddElement
<1> QED
  BY <1>2, <1>3, <1>5 DEF g

(* The number of polls, from the completions of a task.                    *)
LEMMA PollsCounted ==
  ASSUME NEW t \in Tasks, QueueInv
  PROVE  /\ Polls(t) = IF t \in Pollers THEN Cardinality(Completions(attempts[t])) ELSE 0
         /\ Polls(t)' = IF t \in Pollers THEN Cardinality(Completions(attempts'[t])) ELSE 0
         /\ Polls(t) \in Nat /\ Len(attempts[t]) \in Nat
         /\ attempts[t] \in Seq(AttemptStatus) /\ MaxAttempts[t] \in Nat \ {0}
<1>1. attempts[t] \in Seq(AttemptStatus) /\ MaxAttempts[t] \in Nat \ {0}
  BY QueueAssumption DEF QueueInv, TypeOK, QueueAssumption
<1>2. Len(attempts[t]) \in Nat
  BY <1>1, LenProperties
<1>3. Cardinality(Completions(attempts[t])) \in Nat
  BY <1>1, CompletionsFinite
<1> QED
  BY <1>1, <1>2, <1>3 DEF Polls, Completions

LEMMA BudgetKept ==
  ASSUME QueueInv, NEW t \in Tasks, BudgetOf(t), AttemptStep(t)
  PROVE  BudgetOf(t)'
<1> DEFINE h == attempts[t]
           g == attempts'[t]
           done == Cardinality(Completions(h))
           now == Cardinality(Completions(g))
           polls == IF t \in Pollers THEN done ELSE 0
           after == IF t \in Pollers THEN now ELSE 0
           max == MaxAttempts[t]
<1>1. /\ Polls(t) = polls /\ Polls(t)' = after /\ polls \in Nat /\ Len(h) \in Nat
      /\ h \in Seq(AttemptStatus) /\ max \in Nat \ {0}
  BY PollsCounted
<1>2. /\ Len(h) - polls <= max
      /\ task[t].status \in Unstarted => Len(h) - polls < max
      /\ HasRetryBudget(t) <=> Len(h) - polls < max
  BY <1>1 DEF BudgetOf, HasRetryBudget
<1>3. task[t].token \in Nat
  BY DEF QueueInv, TypeOK, TaskRow
<1>4. /\ Len(g) - after <= max
      /\ task'[t].status \in Unstarted => Len(g) - after < max
  <2>1. CASE /\ g = h
             /\ task'[t].status \in Unstarted => task[t].status \in Unstarted
    BY <1>2, <2>1
  <2>2. CASE /\ task[t].status = "queued" /\ task'[t].status = "processing"
             /\ g = Append(h, "processing")
    <3>1. Len(g) = Len(h) + 1 /\ now = done
      BY <1>1, <2>2, OpeningCompletesNone
    <3>2. after = polls
      BY <3>1
    <3>3. Len(h) - polls < max /\ task'[t].status \notin Unstarted
      BY <1>2, <2>2 DEF Unstarted
    <3> HIDE DEF g, h, polls, after, max
    <3> QED
      BY <1>1, <3>1, <3>2, <3>3
  <2>3. CASE /\ \E c \in Closed \ {"completed"} : g = Finish(h, task[t].token, c)
             /\ task'[t].status \in Unstarted => HasRetryBudget(t)
    <3>1. Len(g) = Len(h) /\ now = done
      BY <1>1, <1>3, <2>3, SpendingCompletesNone
    <3>2. after = polls
      BY <3>1
    <3> HIDE DEF g, h, polls, after, max
    <3> QED
      BY <1>2, <2>3, <3>1, <3>2
  <2>4. CASE /\ task[t].status \in Leased
             /\ g = Finish(h, task[t].token, "completed")
             /\ task'[t].status \in Unstarted => t \in Pollers
    <3>1. task[t].token \in DOMAIN h /\ h[task[t].token] = "processing"
      BY <2>4 DEF QueueInv, AuditTrail
    <3>2. Len(g) = Len(h) /\ now = done + 1
      BY <1>1, <2>4, <3>1, SuccessCompletesOne
    <3>3. after = IF t \in Pollers THEN polls + 1 ELSE polls
      BY <3>2
    <3> HIDE DEF g, h, polls, after, max
    <3> QED
      BY <1>1, <1>2, <2>4, <3>2, <3>3
  <2> QED
    BY <2>1, <2>2, <2>3, <2>4 DEF AttemptStep
<1>5. MaxAttempts[t]' = max
  OBVIOUS
<1> HIDE DEF after, max
<1> QED
  BY <1>1, <1>4, <1>5 DEF BudgetOf, HasRetryBudget

(* An update of one row and of its attempts, from the point of view of     *)
(* any row.                                                                *)
LEMMA OneRowStep ==
  ASSUME QueueInv, NEW t \in Tasks, NEW row, NEW history, NEW x \in Tasks,
         task' = [task EXCEPT ![t] = row], attempts' = [attempts EXCEPT ![t] = history],
         t = x => AttemptStep(x)
  PROVE  AttemptStep(x)
<1>1. CASE t # x
  BY <1>1 DEF AttemptStep, QueueInv, TypeOK
<1> QED
  BY <1>1

(* The attempt a runner closes is the one the row names.                   *)
LEMMA ClosingAttempts ==
  ASSUME QueueInv, NEW r \in Runners, NEW t \in Tasks, NEW row, NEW c \in Closed,
         NEW x \in Tasks,
         t = runner[r].task, Holds(r), task[t].status \in Leased,
         task' = [task EXCEPT ![t] = row],
         attempts' = [attempts EXCEPT ![t] = Finish(attempts[t], runner[r].token, c)],
         c = "completed" => (row.status \in Unstarted => t \in Pollers),
         c # "completed" => (row.status \in Unstarted => HasRetryBudget(t))
  PROVE  AttemptStep(x)
<1>1. /\ attempts'[t] = Finish(attempts[t], task[t].token, c)
      /\ task'[t] = row
  BY DEF Holds, QueueInv, TypeOK
<1>2. AttemptStep(t)
  BY <1>1 DEF AttemptStep
<1> QED
  BY <1>2, OneRowStep

LEMMA ClaimCommitAttempts ==
  ASSUME QueueInv, NEW r \in Runners, ClaimCommit(r), NEW x \in Tasks
  PROVE  AttemptStep(x)
<1> DEFINE t == runner[r].task
           row == Claimed(task[t], Len(attempts[t]) + 1, Timeout[t] - runner[r].age)
<1>1. /\ task' = [task EXCEPT ![t] = row]
      /\ attempts' = [attempts EXCEPT ![t] = Append(attempts[t], "processing")]
      /\ runner[r].pc = "granted"
  BY DEF ClaimCommit
<1>2. t \in Tasks /\ task[t].status = "queued" /\ task[t] \in TaskRow
  BY <1>1 DEF QueueInv, Ownership, ClaimAgrees, TypeOK, RunnerState
<1>3. row.status = "processing"
  BY <1>2 DEF Claimed, TaskRow
<1> HIDE DEF row
<1>4. task'[t] = row /\ attempts'[t] = Append(attempts[t], "processing")
  BY <1>1, <1>2 DEF QueueInv, TypeOK
<1>5. AttemptStep(t)
  BY <1>2, <1>3, <1>4 DEF AttemptStep
<1> QED
  BY <1>1, <1>2, <1>5, OneRowStep

LEMMA ExecStartAttempts ==
  ASSUME QueueInv, NEW r \in Runners, ExecStart(r), NEW x \in Tasks
  PROVE  AttemptStep(x)
<1> DEFINE t == runner[r].task
<1>1. t \in Tasks /\ task[t] \in TaskRow
  BY DEF ExecStart, QueueInv, Ownership, MemoryAgrees, Working, TypeOK
<1>2. CASE UNCHANGED <<task, attempts>>
  BY <1>2 DEF AttemptStep
<1>3. CASE /\ Holds(r) /\ task[t].status = "processing"
           /\ task' = [task EXCEPT ![t] = Moved(task[t], "failed")]
           /\ attempts' = [attempts EXCEPT ![t] = Finish(attempts[t], runner[r].token, "failed")]
  <2>1. Moved(task[t], "failed").status = "failed"
    BY <1>1, MovedRow DEF Settled
  <2>2. "failed" \in Closed /\ "failed" \notin Unstarted /\ task[t].status \in Leased
    BY <1>3 DEF Closed, Unstarted, Leased
  <2> QED
    BY <1>1, <1>3, <2>1, <2>2, ClosingAttempts
<1> QED
  BY <1>2, <1>3 DEF ExecStart

LEMMA PublishAttempts ==
  ASSUME QueueInv, NEW r \in Runners, Publish(r), NEW x \in Tasks
  PROVE  AttemptStep(x)
<1> DEFINE t == runner[r].task
           done == runner[r].outcome = "completed"
           row == IF done THEN Moved(task[t], "completed") ELSE Requeued(task[t])
<1>1. CASE UNCHANGED <<task, attempts>>
  BY <1>1 DEF AttemptStep
<1>2. CASE /\ Owns(r)
           /\ task' = [task EXCEPT ![t] = row]
           /\ attempts' = [attempts EXCEPT ![t] = Finish(attempts[t], runner[r].token, "completed")]
  <2>1. t \in Tasks /\ task[t] \in TaskRow /\ (done \/ t \in Pollers)
    BY DEF Publish, QueueInv, Ownership, MemoryAgrees, Working, TypeOK
  <2>2. row.status \in Unstarted => t \in Pollers
    BY <2>1, MovedRow DEF Settled, Unstarted
  <2> HIDE DEF row
  <2>3. Holds(r) /\ task[t].status \in Leased /\ "completed" \in Closed
    BY <1>2 DEF Owns, Leased, Closed
  <2> QED
    BY <1>2, <2>1, <2>2, <2>3, ClosingAttempts
<1> QED
  BY <1>1, <1>2 DEF Publish

LEMMA ApplyOutcomeAttempts ==
  ASSUME QueueInv, NEW r \in Runners, ApplyOutcome(r), NEW x \in Tasks
  PROVE  AttemptStep(x)
<1> DEFINE t == runner[r].task
           again == runner[r].outcome = "retriable" /\ HasRetryBudget(t)
           c == IF Stops(r) THEN "cancelled" ELSE "failed"
           cancelled == Moved(IF task[t].status = "processing" THEN Cancelling(task[t])
                              ELSE task[t], "cancelled")
           row == IF Stops(r) THEN cancelled
                  ELSE IF again THEN Requeued(task[t]) ELSE Moved(task[t], "failed")
<1>1. /\ t \in Tasks /\ task[t] \in TaskRow
      /\ runner[r].token \in DOMAIN attempts[t] /\ runner[r].token # NoToken
  BY LenProperties DEF ApplyOutcome, QueueInv, Ownership, MemoryAgrees, Working, TypeOK, NoToken
<1>2. CASE ~Holds(r)
  BY <1>2 DEF ApplyOutcome, AttemptStep
<1>3. CASE Holds(r)
  <2>1. /\ task' = [task EXCEPT ![t] = row]
        /\ attempts' = [attempts EXCEPT ![t] = Finish(attempts[t], runner[r].token, c)]
    BY <1>3 DEF ApplyOutcome
  <2>2. row.status \in Unstarted => HasRetryBudget(t)
    <3>1. Moved(task[t], "failed").status = "failed"
      BY <1>1, MovedRow DEF Settled
    <3>2. cancelled.status = "cancelled"
      BY <1>1, MovedRow, CancellingRow DEF Settled
    <3> HIDE DEF cancelled
    <3> QED
      BY <3>1, <3>2 DEF Unstarted
  <2> HIDE DEF row
  <2>3. c \in Closed \ {"completed"}
    BY DEF Closed
  <2>4. task[t].status \in Leased
    BY <1>1, <1>3 DEF Holds, QueueInv, TypeOK
  <2> HIDE DEF c
  <2> QED
    BY <1>1, <1>3, <2>1, <2>2, <2>3, <2>4, ClosingAttempts
<1> QED
  BY <1>2, <1>3

LEMMA ReapAttempts ==
  ASSUME QueueInv, Reap, NEW x \in Tasks
  PROVE  AttemptStep(x)
<1>1. \/ task'[x] = task[x] /\ attempts'[x] = attempts[x]
      \/ /\ task[x].status \in Leased /\ task'[x] = Reaped(x)
         /\ attempts'[x] = Finish(attempts[x], task[x].token, "abandoned")
  BY DEF Reap, Expired
<1>2. task[x] \in TaskRow
  BY DEF QueueInv, TypeOK
<1>3. /\ Moved(task[x], "cancelled").status = "cancelled"
      /\ Moved(task[x], "failed").status = "failed"
  BY <1>2, MovedRow DEF Settled
<1>4. Reaped(x).status \in Unstarted => HasRetryBudget(x)
  BY <1>3 DEF Reaped, Unstarted
<1>5. "abandoned" \in Closed \ {"completed"}
  BY DEF Closed
<1> QED
  BY <1>1, <1>4, <1>5 DEF AttemptStep

LEMMA TickAttempts ==
  ASSUME QueueInv, Tick, NEW x \in Tasks
  PROVE  AttemptStep(x)
<1> DEFINE lease == IF task[x].status \in Leased THEN Before(task[x].lease, Floor)
                    ELSE task[x].lease
<1>1. task'[x] = [task[x] EXCEPT !.lease = lease, !.nextRun = Before(task[x].nextRun, 0)]
  BY DEF Tick
<1> HIDE DEF lease
<1>2. task[x] \in TaskRow /\ attempts' = attempts
  BY DEF QueueInv, TypeOK, Tick
<1>3. task'[x].status = task[x].status
  BY <1>1, <1>2 DEF TaskRow
<1> QED
  BY <1>2, <1>3 DEF AttemptStep

LEMMA HeartbeatAttempts ==
  ASSUME QueueInv, NEW r \in Runners, Heartbeat(r), NEW x \in Tasks
  PROVE  AttemptStep(x)
<1>1. PICK lag \in 0..MaxLag :
        task' = [task EXCEPT ![runner[r].task].lease = BeatLease - lag]
  BY DEF Heartbeat
<1>2. task[x] \in TaskRow /\ attempts' = attempts
  BY DEF QueueInv, TypeOK, Heartbeat
<1>3. task'[x].status = task[x].status
  BY <1>1, <1>2 DEF TaskRow, QueueInv, TypeOK
<1> QED
  BY <1>2, <1>3 DEF AttemptStep

LEMMA AttemptsMove ==
  ASSUME QueueInv, [Next]_vars, NEW x \in Tasks
  PROVE  AttemptStep(x)
<1>1. CASE UNCHANGED <<task, attempts>>
  BY <1>1 DEF AttemptStep
<1>2. ASSUME NEW t \in Tasks, CreateTask(t) PROVE AttemptStep(x)
  BY <1>2, CreateTaskRow DEF AttemptStep, Unstarted, CreateTask
<1>3. ASSUME NEW t \in Tasks, RequestCancel(t) PROVE AttemptStep(x)
  <2>1. attempts'[x] = attempts[x]
    BY <1>3 DEF RequestCancel
  <2>2. task'[x].status \in Unstarted => task[x].status \in Unstarted
    BY <1>3, RequestCancelRow DEF Unstarted
  <2> QED
    BY <2>1, <2>2 DEF AttemptStep
<1>4. ASSUME NEW r \in Runners, Claim(r) PROVE AttemptStep(x)
  <2>1. CASE ClaimSelect(r)
    BY <1>1, <2>1 DEF ClaimSelect
  <2>2. CASE \E t \in Tasks : ClaimConsider(r, t)
    BY <1>1, <2>2 DEF ClaimConsider
  <2>3. CASE ClaimNothing(r)
    BY <1>1, <2>3 DEF ClaimNothing
  <2>4. CASE ClaimCommit(r)
    BY <2>4, ClaimCommitAttempts
  <2> QED
    BY <1>4, <2>1, <2>2, <2>3, <2>4 DEF Claim
<1>5. ASSUME NEW r \in Runners, Handler(r) PROVE AttemptStep(x)
  BY <1>1, <1>5, HeartbeatAttempts DEF Handler, HandlerReturns, HandlerRaises, GoTo
<1>6. ASSUME NEW r \in Runners, Control(r) PROVE AttemptStep(x)
  BY <1>1, <1>6, ExecStartAttempts, PublishAttempts, ApplyOutcomeAttempts
  DEF Control, CheckpointStops, GoTo
<1>7. ASSUME NEW r \in Runners, Crash(r) PROVE AttemptStep(x)
  BY <1>1, <1>7 DEF Crash
<1>8. CASE UNCHANGED vars
  BY <1>1, <1>8 DEF vars
<1> QED
  BY <1>2, <1>3, <1>4, <1>5, <1>6, <1>7, <1>8, ReapAttempts, TickAttempts DEF Next

LEMMA BudgetStep == QueueInv /\ BudgetInv /\ [Next]_vars => BudgetInv'
<1> SUFFICES ASSUME QueueInv, BudgetInv, [Next]_vars, NEW t \in Tasks PROVE BudgetOf(t)'
  BY DEF BudgetInv
<1> QED
  BY AttemptsMove, BudgetKept DEF BudgetInv

LEMMA BudgetInit == Init => BudgetInv
<1> SUFFICES ASSUME Init, NEW t \in Tasks PROVE BudgetOf(t)
  BY DEF BudgetInv
<1>1. attempts[t] = <<>> /\ MaxAttempts[t] \in Nat \ {0}
  BY QueueAssumption DEF Init, QueueAssumption
<1>2. Len(<<>>) = 0 /\ Completions(<<>>) = {}
  BY DEF Completions
<1>3. Polls(t) = 0
  BY <1>1, <1>2, FS_EmptySet DEF Polls, Completions
<1> QED
  BY <1>1, <1>2, <1>3 DEF BudgetOf, HasRetryBudget

(* Crashes, lost leases, reaped attempts and failures together never spend *)
(* more attempts than the policy frozen in the task, by whichever of       *)
(* runner and reaper counts them (has_retry_budget, claim_due).            *)
THEOREM RetryBudgetHolds == Spec => []RetryBudgetRespected
<1>1. BudgetInv => RetryBudgetRespected
  BY DEF BudgetInv, BudgetOf, RetryBudgetRespected
<1> QED
  BY <1>1, BudgetInit, BudgetStep, Invariance, PTL DEF Spec
-----------------------------------------------------------------------------
(* The concurrency limit, for exact clock readings (MaxLag = 0): a         *)
(* heartbeat that uses an older reading may revive a lease that was not    *)
(* counted any more. A runner that was granted a group holds its policy    *)
(* lock until it commits, and while it does nobody adds a live lease to    *)
(* the group, so the count it made still leaves room.                      *)
Alive(t) == task[t].status \in Leased /\ LiveLease(t, 0)

Room(g) == Cardinality(LiveInGroup(g, 0)) < ConcurrencyLimit[g]

PolicyLocksExclusive ==
  \A r, q \in Runners : r # q => runner[r].policyLocks \intersect runner[q].policyLocks = {}

GrantLeavesRoom ==
  \A r \in Runners :
    /\ runner[r].age = 0
    /\ \A g \in Groups : (runner[r].pc = "granted" /\ GroupOf[runner[r].task] = g) =>
         g \in runner[r].policyLocks /\ Room(g)

LiveFinite == \A g \in Groups : IsFiniteSet(LiveInGroup(g, 0))

GroupsInv == PolicyLocksExclusive /\ GrantLeavesRoom /\ LiveFinite /\ ConcurrencyRespected

LEMMA LiveIsAlive ==
  ASSUME NEW g \in Groups
  PROVE  /\ LiveInGroup(g, 0) = {t \in Tasks : GroupOf[t] = g /\ Alive(t)}
         /\ LiveInGroup(g, 0)' = {t \in Tasks : GroupOf[t] = g /\ Alive(t)'}
BY DEF LiveInGroup, Alive, LiveLease

(* A group without a new live lease has no more of them than before.       *)
LEMMA GroupShrinks ==
  ASSUME LiveFinite, NEW g \in Groups,
         \A t \in Tasks : (GroupOf[t] = g /\ Alive(t)') => Alive(t)
  PROVE  /\ IsFiniteSet(LiveInGroup(g, 0)')
         /\ Room(g) => Room(g)'
         /\ Cardinality(LiveInGroup(g, 0)) <= ConcurrencyLimit[g]
              => Cardinality(LiveInGroup(g, 0)') <= ConcurrencyLimit[g]
<1> DEFINE S == LiveInGroup(g, 0)
           T == LiveInGroup(g, 0)'
<1>1. T \in SUBSET S /\ IsFiniteSet(S)
  BY LiveIsAlive DEF LiveFinite
<1>2. Room(g)' <=> Cardinality(T) < ConcurrencyLimit[g]
  BY DEF Room
<1>3. Room(g) <=> Cardinality(S) < ConcurrencyLimit[g]
  BY DEF Room
<1>4. ConcurrencyLimit[g] \in Nat
  BY QueueAssumption DEF QueueAssumption
<1> HIDE DEF S, T
<1>5. IsFiniteSet(T) /\ Cardinality(T) <= Cardinality(S)
  BY <1>1, FS_Subset
<1>6. Cardinality(T) \in Nat /\ Cardinality(S) \in Nat
  BY <1>1, <1>5, FS_CardinalityType
<1> QED
  BY <1>2, <1>3, <1>4, <1>5, <1>6 DEF S, T

(* Steps that do not claim: no lease comes to life and no runner gets hold *)
(* of a group.                                                             *)
NoNewLease == \A t \in Tasks : Alive(t)' => Alive(t)

NoNewGrant ==
  \A r \in Runners :
    /\ runner'[r].age = 0
    /\ runner'[r].policyLocks \subseteq runner[r].policyLocks
    /\ runner'[r].pc = "granted" => /\ runner[r].pc = "granted"
                                    /\ runner'[r].task = runner[r].task
                                    /\ runner'[r].policyLocks = runner[r].policyLocks

LEMMA NothingGranted ==
  ASSUME QueueInv, GroupsInv, NoNewLease, NoNewGrant
  PROVE  GroupsInv'
<1>1. \A g \in Groups : /\ IsFiniteSet(LiveInGroup(g, 0)')
                        /\ Room(g) => Room(g)'
                        /\ Cardinality(LiveInGroup(g, 0)') <= ConcurrencyLimit[g]
  BY GroupShrinks DEF GroupsInv, NoNewLease, ConcurrencyRespected
<1>2. LiveFinite' /\ ConcurrencyRespected'
  BY <1>1 DEF LiveFinite, ConcurrencyRespected
<1>3. PolicyLocksExclusive'
  BY DEF GroupsInv, PolicyLocksExclusive, NoNewGrant
<1>4. ASSUME NEW r \in Runners, NEW g \in Groups,
             runner'[r].pc = "granted", GroupOf[runner'[r].task] = g
      PROVE  g \in runner'[r].policyLocks /\ Room(g)'
  <2>1. /\ runner[r].pc = "granted" /\ GroupOf[runner[r].task] = g
        /\ runner'[r].policyLocks = runner[r].policyLocks
    BY <1>4 DEF NoNewGrant
  <2>2. g \in runner[r].policyLocks /\ Room(g)
    BY <2>1 DEF GroupsInv, GrantLeavesRoom
  <2> QED
    BY <1>1, <2>1, <2>2
<1>5. GrantLeavesRoom'
  BY <1>4 DEF GrantLeavesRoom, NoNewGrant
<1> QED
  BY <1>2, <1>3, <1>5 DEF GroupsInv

(* A row that is rewritten to a state without a lease, and a lease that    *)
(* only gets shorter.                                                      *)
LEMMA NotLeased ==
  ASSUME NEW t \in Tasks, task'[t] = task[t] \/ task'[t].status \notin Leased
  PROVE  Alive(t)' => Alive(t)
BY DEF Alive, LiveLease

LEMMA LeaseNotLonger ==
  ASSUME QueueInv, QueueInv', NEW t \in Tasks,
         task'[t].status \in Leased => task[t].status \in Leased,
         task'[t].lease <= task[t].lease
  PROVE  Alive(t)' => Alive(t)
<1>1. task[t].lease \in Int /\ task'[t].lease \in Int
  BY DEF QueueInv, TypeOK, TaskRow
<1> QED
  BY <1>1 DEF Alive, LiveLease

(* The memory of one runner is rewritten, without a grant.                 *)
LEMMA GrantsKept ==
  ASSUME QueueInv, GroupsInv, NEW r \in Runners, NEW state, SetRunner(r, state),
         state.age = 0, state.policyLocks \subseteq runner[r].policyLocks,
         state.pc # "granted"
  PROVE  NoNewGrant
<1>1. ASSUME NEW q \in Runners
      PROVE  /\ runner'[q].age = 0
             /\ runner'[q].policyLocks \subseteq runner[q].policyLocks
             /\ runner'[q].pc = "granted" => /\ runner[q].pc = "granted"
                                             /\ runner'[q].task = runner[q].task
                                             /\ runner'[q].policyLocks = runner[q].policyLocks
  <2>1. CASE q = r
    <3>1. runner'[q] = state
      BY <2>1 DEF SetRunner, QueueInv, TypeOK
    <3> QED
      BY <2>1, <3>1
  <2>2. CASE q # r
    <3>1. runner'[q] = runner[q]
      BY <2>2 DEF SetRunner, QueueInv, TypeOK
    <3> QED
      BY <3>1 DEF GroupsInv, GrantLeavesRoom
  <2> QED
    BY <2>1, <2>2
<1> QED
  BY <1>1 DEF NoNewGrant

LEMMA ReleaseKeepsGrants ==
  ASSUME QueueInv, GroupsInv, NEW r \in Runners, Release(r)
  PROVE  NoNewGrant
<1>1. IdleRunner.age = 0 /\ IdleRunner.policyLocks = {} /\ IdleRunner.pc = "idle"
  BY DEF IdleRunner
<1> QED
  BY <1>1, GrantsKept DEF Release

LEMMA GoToKeepsGrants ==
  ASSUME QueueInv, GroupsInv, NEW r \in Runners, NEW outcome,
         NEW pc \in {"publishing", "failing"}, GoTo(r, pc, outcome)
  PROVE  NoNewGrant /\ NoNewLease
<1> DEFINE state == [runner[r] EXCEPT !.pc = pc, !.outcome = outcome]
<1>1. runner[r] \in RunnerState /\ runner[r].age = 0
  BY DEF QueueInv, TypeOK, GroupsInv, GrantLeavesRoom
<1>2. /\ state.age = 0 /\ state.policyLocks = runner[r].policyLocks
      /\ state.pc # "granted"
  BY <1>1 DEF RunnerState
<1>3. SetRunner(r, state) /\ task' = task
  BY DEF GoTo
<1> HIDE DEF state
<1> QED
  BY <1>2, <1>3, GrantsKept, NotLeased DEF NoNewLease
-----------------------------------------------------------------------------
LEMMA ClaimSelectGroups ==
  ASSUME QueueInv, GroupsInv, NEW r \in Runners, ClaimSelect(r)
  PROVE  GroupsInv'
<1>1. PICK candidates : SetRunner(r, [IdleRunner EXCEPT !.pc = "claiming",
                                        !.rows = candidates, !.todo = candidates])
  BY DEF ClaimSelect
<1> DEFINE state == [IdleRunner EXCEPT !.pc = "claiming", !.rows = candidates,
                                       !.todo = candidates]
<1>2. state.age = 0 /\ state.policyLocks = {} /\ state.pc = "claiming"
  BY DEF IdleRunner
<1> HIDE DEF state
<1>3. SetRunner(r, state) /\ task' = task
  BY <1>1 DEF state, ClaimSelect
<1> QED
  BY <1>2, <1>3, GrantsKept, NotLeased, NothingGranted DEF NoNewLease

(* The grant: the policy lock was free and the count, made with the        *)
(* reading of this moment, leaves room.                                    *)
LEMMA ClaimConsiderGroups ==
  ASSUME QueueInv, GroupsInv, NEW r \in Runners, NEW t \in Tasks, ClaimConsider(r, t)
  PROVE  GroupsInv'
<1> DEFINE g == GroupOf[t]
           free == PolicyLockFree(r, g)
           full == Saturated(g, runner[r].age)
           locks == IF free THEN runner[r].policyLocks \union {g} ELSE runner[r].policyLocks
           to == IF free /\ ~full THEN "granted" ELSE "claiming"
           given == IF free /\ ~full THEN t ELSE NoTask
           state == [runner[r] EXCEPT !.todo = @ \ {t}, !.policyLocks = locks,
                                      !.pc = to, !.task = given]
<1>1. runner' = [runner EXCEPT ![r] = state] /\ task' = task
  BY DEF ClaimConsider, SetRunner
<1>2. runner \in [Runners -> RunnerState] /\ runner[r].age = 0 /\ g \in Groups
  BY QueueAssumption DEF QueueInv, TypeOK, GroupsInv, GrantLeavesRoom, QueueAssumption
<1>3. /\ state.age = 0 /\ state.policyLocks = locks /\ state.pc = to
      /\ state.task = given
  BY <1>2 DEF RunnerState
<1> HIDE DEF state
<1>4. runner'[r] = state /\ \A q \in Runners \ {r} : runner'[q] = runner[q]
  BY <1>1, <1>2
<1>5. \A h \in Groups : Room(h)' <=> Room(h)
  BY <1>1 DEF Room, LiveInGroup, LiveLease
<1>6. LiveFinite' /\ ConcurrencyRespected'
  BY <1>1 DEF GroupsInv, LiveFinite, ConcurrencyRespected, LiveInGroup, LiveLease
<1>7. PolicyLocksExclusive'
  <2>1. ASSUME NEW q \in Runners \ {r} PROVE locks \intersect runner[q].policyLocks = {}
    BY <2>1 DEF GroupsInv, PolicyLocksExclusive, PolicyLockFree
  <2> HIDE DEF locks
  <2> QED
    BY <1>3, <1>4, <2>1 DEF GroupsInv, PolicyLocksExclusive
<1>8. ASSUME free /\ ~full PROVE Room(g)
  <2>1. Cardinality(LiveInGroup(g, 0)) \in Nat /\ ConcurrencyLimit[g] \in Nat
    BY <1>2, QueueAssumption, FS_CardinalityType DEF GroupsInv, LiveFinite, QueueAssumption
  <2> QED
    BY <1>2, <1>8, <2>1 DEF Saturated, Room
<1>9. ASSUME NEW q \in Runners, NEW h \in Groups,
             runner'[q].pc = "granted", GroupOf[runner'[q].task] = h
      PROVE  h \in runner'[q].policyLocks /\ Room(h)'
  <2>1. CASE q = r
    <3>1. free /\ ~full /\ h = g
      BY <1>3, <1>4, <1>9, <2>1
    <3> QED
      BY <1>3, <1>4, <1>5, <1>8, <2>1, <3>1
  <2>2. CASE q # r
    BY <1>4, <1>5, <1>9, <2>2 DEF GroupsInv, GrantLeavesRoom
  <2> QED
    BY <2>1, <2>2
<1>10. GrantLeavesRoom'
  BY <1>3, <1>4, <1>9 DEF GroupsInv, GrantLeavesRoom
<1> QED
  BY <1>6, <1>7, <1>10 DEF GroupsInv

(* The commit uses the room that was granted; the other grants are for     *)
(* other groups.                                                           *)
LEMMA ClaimCommitGroups ==
  ASSUME QueueInv, GroupsInv, NEW r \in Runners, ClaimCommit(r)
  PROVE  GroupsInv'
<1>1. PICK t \in Tasks, g \in Groups : t = runner[r].task /\ g = GroupOf[t]
  BY QueueAssumption DEF ClaimCommit, QueueInv, Ownership, ClaimAgrees, TypeOK, RunnerState,
                         QueueAssumption
<1> DEFINE state == [IdleRunner EXCEPT !.pc = "claimed", !.task = t,
                                       !.token = Len(attempts[t]) + 1]
<1>2. /\ runner[r].pc = "granted" /\ runner' = [runner EXCEPT ![r] = state]
      /\ \A x \in Tasks \ {t} : task'[x] = task[x]
  BY <1>1 DEF ClaimCommit, SetRunner, QueueInv, TypeOK
<1>3. state.age = 0 /\ state.policyLocks = {} /\ state.pc = "claimed"
  BY DEF IdleRunner
<1> HIDE DEF state
<1>4. runner'[r] = state /\ \A q \in Runners \ {r} : runner'[q] = runner[q]
  BY <1>2 DEF QueueInv, TypeOK
<1>5. g \in runner[r].policyLocks /\ Room(g)
  BY <1>2, <1>1 DEF GroupsInv, GrantLeavesRoom
<1>6. \A x \in Tasks \ {t} : Alive(x)' => Alive(x)
  BY <1>2, NotLeased
<1>7. ASSUME NEW h \in Groups, h # g
      PROVE  /\ IsFiniteSet(LiveInGroup(h, 0)')
             /\ Room(h) => Room(h)'
             /\ Cardinality(LiveInGroup(h, 0)') <= ConcurrencyLimit[h]
  <2>1. \A x \in Tasks : (GroupOf[x] = h /\ Alive(x)') => Alive(x)
    BY <1>1, <1>6, <1>7
  <2> QED
    BY <2>1, GroupShrinks DEF GroupsInv, ConcurrencyRespected
<1>8. /\ IsFiniteSet(LiveInGroup(g, 0)')
      /\ Cardinality(LiveInGroup(g, 0)') <= ConcurrencyLimit[g]
  <2> DEFINE S == LiveInGroup(g, 0)
             T == LiveInGroup(g, 0)'
  <2>1. T \subseteq S \union {t}
    BY <1>1, <1>6, LiveIsAlive
  <2>2. IsFiniteSet(S) /\ Cardinality(S) < ConcurrencyLimit[g]
    BY <1>1, <1>5 DEF GroupsInv, LiveFinite, Room
  <2>3. ConcurrencyLimit[g] \in Nat
    BY <1>1, QueueAssumption DEF QueueAssumption
  <2> HIDE DEF S, T
  <2>4. Cardinality(S) \in Nat
    BY <2>2, FS_CardinalityType
  <2>5. /\ IsFiniteSet(S \union {t})
        /\ Cardinality(S \union {t}) =
             IF t \in S THEN Cardinality(S) ELSE Cardinality(S) + 1
    BY <2>2, FS_AddElement
  <2>6. /\ IsFiniteSet(S \union {t}) /\ Cardinality(S) \in Nat
        /\ Cardinality(S \union {t}) <= Cardinality(S) + 1
    BY <2>4, <2>5
  <2>7. IsFiniteSet(T) /\ Cardinality(T) <= Cardinality(S \union {t})
    BY <2>1, <2>6, FS_Subset
  <2>8. Cardinality(T) \in Nat /\ Cardinality(S \union {t}) \in Nat
    BY <2>6, <2>7, FS_CardinalityType
  <2>9. Cardinality(T) <= ConcurrencyLimit[g]
    BY <2>2, <2>3, <2>6, <2>7, <2>8
  <2> QED
    BY <2>7, <2>9 DEF T
<1>9. LiveFinite' /\ ConcurrencyRespected'
  <2>1. \A h \in Groups : /\ IsFiniteSet(LiveInGroup(h, 0)')
                          /\ Cardinality(LiveInGroup(h, 0)') <= ConcurrencyLimit[h]
    BY <1>7, <1>8
  <2> QED
    BY <2>1 DEF LiveFinite, ConcurrencyRespected
<1>10. PolicyLocksExclusive'
  BY <1>3, <1>4 DEF GroupsInv, PolicyLocksExclusive
<1>11. ASSUME NEW q \in Runners, NEW h \in Groups,
              runner'[q].pc = "granted", GroupOf[runner'[q].task] = h
       PROVE  h \in runner'[q].policyLocks /\ Room(h)'
  <2>1. q # r /\ runner'[q] = runner[q]
    BY <1>3, <1>4, <1>11
  <2>2. h \in runner[q].policyLocks /\ Room(h)
    BY <1>11, <2>1 DEF GroupsInv, GrantLeavesRoom
  <2>3. h # g
    BY <1>5, <2>1, <2>2 DEF GroupsInv, PolicyLocksExclusive
  <2> QED
    BY <1>7, <2>1, <2>2, <2>3
<1>12. GrantLeavesRoom'
  BY <1>3, <1>4, <1>11 DEF GroupsInv, GrantLeavesRoom
<1> QED
  BY <1>9, <1>10, <1>12 DEF GroupsInv
-----------------------------------------------------------------------------
(* The other actions: no new lease and no new grant.                       *)

LEMMA CreateTaskLeases ==
  ASSUME QueueInv, NEW t \in Tasks, CreateTask(t)
  PROVE  NoNewLease
<1> SUFFICES ASSUME NEW x \in Tasks PROVE Alive(x)' => Alive(x)
  BY DEF NoNewLease
<1>1. task'[x] = task[x] \/ task'[x].status \notin Leased
  BY CreateTaskRow DEF Leased
<1> QED
  BY <1>1, NotLeased

LEMMA RequestCancelLeases ==
  ASSUME QueueInv, QueueInv', NEW t \in Tasks, RequestCancel(t)
  PROVE  NoNewLease
<1> SUFFICES ASSUME NEW x \in Tasks PROVE Alive(x)' => Alive(x)
  BY DEF NoNewLease
<1>1. task'[x] = task[x] \/ task'[x] = CancelRow(task[x])
  BY DEF RequestCancel
<1>2. task[x] \in TaskRow
  BY DEF QueueInv, TypeOK
<1>3. CASE task[x].status = "queued" /\ task'[x] = CancelRow(task[x])
  <2>1. task'[x].status = "cancelled"
    BY <1>2, <1>3, MovedRow DEF CancelRow, Settled
  <2> QED
    BY <2>1, NotLeased DEF Leased
<1>4. CASE task[x].status = "processing" /\ task'[x] = CancelRow(task[x])
  <2>1. task'[x] = Cancelling(task[x])
    BY <1>4 DEF CancelRow
  <2>2. task'[x].lease = task[x].lease
    BY <1>2, <2>1 DEF Cancelling, TaskRow
  <2> QED
    BY <1>2, <1>4, <2>2, LeaseNotLonger DEF TaskRow, Leased
<1>5. CASE task[x].status \notin {"queued", "processing"} \/ task'[x] = task[x]
  <2>1. task'[x] = task[x]
    BY <1>1, <1>5 DEF CancelRow
  <2> QED
    BY <2>1, NotLeased
<1> QED
  BY <1>1, <1>3, <1>4, <1>5

(* With an exact reading a beat extends a lease that still runs.           *)
LEMMA HeartbeatLeases ==
  ASSUME MaxLag = 0, QueueInv, NEW r \in Runners, Heartbeat(r)
  PROVE  NoNewLease
<1> DEFINE t == runner[r].task
<1>1. PICK lag \in 0..MaxLag : /\ LiveLease(t, lag)
                               /\ task' = [task EXCEPT ![t].lease = BeatLease - lag]
  BY DEF Heartbeat
<1>2. lag = 0 /\ task[t].status \in Leased
  BY <1>1 DEF Heartbeat
<1>3. ASSUME NEW x \in Tasks PROVE Alive(x)' => Alive(x)
  <2>1. CASE x = t
    BY <1>1, <1>2, <2>1 DEF Alive
  <2>2. CASE x # t
    <3>1. task'[x] = task[x]
      BY <1>1, <2>2 DEF QueueInv, TypeOK
    <3> QED
      BY <3>1, NotLeased
  <2> QED
    BY <2>1, <2>2
<1> QED
  BY <1>3 DEF NoNewLease

LEMMA OneRowNotLeased ==
  ASSUME QueueInv, NEW t \in Tasks, NEW row, task' = [task EXCEPT ![t] = row],
         row.status \notin Leased
  PROVE  NoNewLease
<1>1. ASSUME NEW x \in Tasks PROVE task'[x] = task[x] \/ task'[x].status \notin Leased
  BY DEF QueueInv, TypeOK
<1> QED
  BY <1>1, NotLeased DEF NoNewLease

LEMMA RowsKept ==
  ASSUME task' = task
  PROVE  NoNewLease
BY NotLeased DEF NoNewLease

LEMMA ExecStartGroups ==
  ASSUME QueueInv, GroupsInv, NEW r \in Runners, ExecStart(r)
  PROVE  NoNewLease /\ NoNewGrant
<1> DEFINE t == runner[r].task
           state == [runner[r] EXCEPT !.pc = "running", !.version = task[t].version,
                                      !.deadline = Timeout[t]]
<1>1. t \in Tasks /\ task[t] \in TaskRow /\ runner[r] \in RunnerState
  BY DEF ExecStart, QueueInv, Ownership, MemoryAgrees, Working, TypeOK
<1>2. CASE task' = task /\ Release(r)
  BY <1>2, RowsKept, ReleaseKeepsGrants
<1>3. CASE task' = [task EXCEPT ![t] = Moved(task[t], "failed")] /\ Release(r)
  <2>1. Moved(task[t], "failed").status \notin Leased
    BY <1>1, MovedRow DEF Settled, Leased
  <2> QED
    BY <1>1, <1>3, <2>1, OneRowNotLeased, ReleaseKeepsGrants
<1>4. CASE task' = task /\ SetRunner(r, state)
  <2>1. state.age = 0 /\ state.policyLocks = runner[r].policyLocks /\ state.pc = "running"
    BY <1>1 DEF RunnerState, GroupsInv, GrantLeavesRoom
  <2> HIDE DEF state
  <2> QED
    BY <1>4, <2>1, RowsKept, GrantsKept
<1> QED
  BY <1>2, <1>3, <1>4 DEF ExecStart

LEMMA PublishGroups ==
  ASSUME QueueInv, GroupsInv, NEW r \in Runners, Publish(r)
  PROVE  NoNewLease /\ NoNewGrant
<1> DEFINE t == runner[r].task
           row == IF runner[r].outcome = "completed" THEN Moved(task[t], "completed")
                  ELSE Requeued(task[t])
<1>1. t \in Tasks /\ task[t] \in TaskRow /\ Release(r)
  BY DEF Publish, QueueInv, Ownership, MemoryAgrees, Working, TypeOK
<1>2. row.status \notin Leased
  BY <1>1, MovedRow, RequeuedRow DEF Settled, Leased
<1>3. task' = task \/ task' = [task EXCEPT ![t] = row]
  BY DEF Publish
<1> HIDE DEF row
<1> QED
  BY <1>1, <1>2, <1>3, RowsKept, OneRowNotLeased, ReleaseKeepsGrants

LEMMA ApplyOutcomeGroups ==
  ASSUME QueueInv, GroupsInv, NEW r \in Runners, ApplyOutcome(r)
  PROVE  NoNewLease /\ NoNewGrant
<1> DEFINE t == runner[r].task
           again == runner[r].outcome = "retriable" /\ HasRetryBudget(t)
           cancelling == IF task[t].status = "processing" THEN Cancelling(task[t]) ELSE task[t]
           row == IF Stops(r) THEN Moved(cancelling, "cancelled")
                  ELSE IF again THEN Requeued(task[t]) ELSE Moved(task[t], "failed")
<1>1. t \in Tasks /\ task[t] \in TaskRow /\ Release(r)
  BY DEF ApplyOutcome, QueueInv, Ownership, MemoryAgrees, Working, TypeOK
<1>2. row.status \notin Leased
  <2>1. cancelling \in TaskRow
    BY <1>1, CancellingRow
  <2> HIDE DEF cancelling
  <2>2. /\ Moved(cancelling, "cancelled").status = "cancelled"
        /\ Moved(task[t], "failed").status = "failed"
        /\ Requeued(task[t]).status = "queued"
    BY <1>1, <2>1, MovedRow, RequeuedRow DEF Settled
  <2> QED
    BY <2>2 DEF Leased
<1>3. task' = task \/ task' = [task EXCEPT ![t] = row]
  BY DEF ApplyOutcome
<1> HIDE DEF row
<1> QED
  BY <1>1, <1>2, <1>3, RowsKept, OneRowNotLeased, ReleaseKeepsGrants

LEMMA ReapGroups ==
  ASSUME QueueInv, GroupsInv, Reap
  PROVE  NoNewLease /\ NoNewGrant
<1>1. ASSUME NEW x \in Tasks PROVE task'[x] = task[x] \/ task'[x].status \notin Leased
  <2>1. task'[x] = task[x] \/ task'[x] = Reaped(x)
    BY DEF Reap
  <2>2. task[x] \in TaskRow
    BY DEF QueueInv, TypeOK
  <2>3. /\ Moved(task[x], "cancelled").status = "cancelled"
        /\ Moved(task[x], "failed").status = "failed"
        /\ Requeued(task[x]).status = "queued"
    BY <2>2, MovedRow, RequeuedRow DEF Settled
  <2> QED
    BY <2>1, <2>3 DEF Reaped, Leased
<1>2. NoNewLease
  BY <1>1, NotLeased DEF NoNewLease
<1>3. runner' = runner
  BY DEF Reap
<1> QED
  BY <1>2, <1>3 DEF NoNewGrant, GroupsInv, GrantLeavesRoom

(* No tick passes while a claim is in progress: it would age the reading.  *)
LEMMA TickGroups ==
  ASSUME MaxLag = 0, QueueInv, QueueInv', GroupsInv, Tick
  PROVE  NoNewLease /\ NoNewGrant
<1>1. ASSUME NEW x \in Tasks PROVE Alive(x)' => Alive(x)
  <2> DEFINE lease == IF task[x].status \in Leased THEN Before(task[x].lease, Floor)
                      ELSE task[x].lease
  <2>1. task'[x] = [task[x] EXCEPT !.lease = lease, !.nextRun = Before(task[x].nextRun, 0)]
    BY DEF Tick
  <2>2. task[x] \in TaskRow /\ task[x].lease \in Int
    BY DEF QueueInv, TypeOK, TaskRow
  <2>3. lease <= task[x].lease
    BY <2>2, QueueAssumption DEF Before, Floor, QueueAssumption
  <2> HIDE DEF lease
  <2>4. task'[x].status = task[x].status /\ task'[x].lease = lease
    BY <2>1, <2>2 DEF TaskRow
  <2> QED
    BY <2>3, <2>4, LeaseNotLonger
<1>2. ASSUME NEW r \in Runners
      PROVE  /\ runner'[r].age = 0
             /\ runner'[r].policyLocks = runner[r].policyLocks
             /\ runner'[r].pc = runner[r].pc /\ runner'[r].task = runner[r].task
  <2> DEFINE age == IF runner[r].pc \in {"claiming", "granted"} THEN runner[r].age + 1
                    ELSE runner[r].age
  <2>1. runner'[r] = [runner[r] EXCEPT !.deadline = Before(runner[r].deadline, 0), !.age = age]
    BY DEF Tick
  <2>2. runner[r] \in RunnerState /\ runner[r].age = 0
    BY DEF QueueInv, TypeOK, GroupsInv, GrantLeavesRoom
  <2>3. age = 0
    <3>1. runner[r].pc \in {"claiming", "granted"} => runner[r].age < MaxLag
      BY DEF Tick
    <3>2. runner[r].pc \notin {"claiming", "granted"}
      BY <2>2, <3>1
    <3> QED
      BY <2>2, <3>2
  <2> HIDE DEF age
  <2> QED
    BY <2>1, <2>2, <2>3 DEF RunnerState
<1> QED
  BY <1>1, <1>2 DEF NoNewLease, NoNewGrant

LEMMA GroupsStep ==
  ASSUME MaxLag = 0, QueueInv, QueueInv', GroupsInv, [Next]_vars
  PROVE  GroupsInv'
<1>1. CASE runner' = runner /\ NoNewLease
  BY <1>1, NothingGranted DEF NoNewGrant, GroupsInv, GrantLeavesRoom
<1>2. ASSUME NEW t \in Tasks, CreateTask(t) \/ RequestCancel(t) PROVE GroupsInv'
  BY <1>1, <1>2, CreateTaskLeases, RequestCancelLeases DEF CreateTask, RequestCancel
<1>3. ASSUME NEW r \in Runners, Claim(r) PROVE GroupsInv'
  <2>1. CASE ClaimNothing(r)
    BY <2>1, RowsKept, ReleaseKeepsGrants, NothingGranted DEF ClaimNothing
  <2> QED
    BY <1>3, <2>1, ClaimSelectGroups, ClaimConsiderGroups, ClaimCommitGroups DEF Claim
<1>4. ASSUME NEW r \in Runners, Handler(r) PROVE GroupsInv'
  <2>1. CASE Heartbeat(r)
    BY <1>1, <2>1, HeartbeatLeases DEF Heartbeat
  <2>2. CASE HandlerReturns(r)
    BY <2>2, GoToKeepsGrants, NothingGranted DEF HandlerReturns
  <2>3. CASE HandlerRaises(r)
    BY <2>3, GoToKeepsGrants, NothingGranted DEF HandlerRaises
  <2> QED
    BY <1>4, <2>1, <2>2, <2>3 DEF Handler
<1>5. ASSUME NEW r \in Runners, Control(r) PROVE GroupsInv'
  <2>1. CASE CheckpointStops(r)
    <3>1. CASE Release(r) /\ task' = task
      BY <3>1, RowsKept, ReleaseKeepsGrants, NothingGranted
    <3> QED
      BY <2>1, <3>1, GoToKeepsGrants, NothingGranted DEF CheckpointStops
  <2> QED
    BY <1>5, <2>1, ExecStartGroups, PublishGroups, ApplyOutcomeGroups, NothingGranted
    DEF Control
<1>6. ASSUME NEW r \in Runners, Crash(r) PROVE GroupsInv'
  BY <1>6, RowsKept, ReleaseKeepsGrants, NothingGranted DEF Crash
<1>7. CASE Reap \/ Tick
  BY <1>7, ReapGroups, TickGroups, NothingGranted
<1>8. CASE UNCHANGED vars
  BY <1>1, <1>8, RowsKept DEF vars
<1> QED
  BY <1>2, <1>3, <1>4, <1>5, <1>6, <1>7, <1>8 DEF Next

LEMMA GroupsInit == Init => GroupsInv
<1> SUFFICES ASSUME Init PROVE GroupsInv
  OBVIOUS
<1>1. ASSUME NEW g \in Groups PROVE LiveInGroup(g, 0) = {}
  BY DEF Init, AbsentRow, LiveInGroup, Leased
<1>2. \A g \in Groups : 0 <= ConcurrencyLimit[g]
  BY QueueAssumption DEF QueueAssumption
<1>3. LiveFinite /\ ConcurrencyRespected
  <2>1. IsFiniteSet({}) /\ Cardinality({}) = 0
    BY FS_EmptySet
  <2>2. LiveFinite
    BY <1>1, <2>1 DEF LiveFinite
  <2>3. ASSUME NEW g \in Groups
        PROVE  Cardinality(LiveInGroup(g, 0)) <= ConcurrencyLimit[g]
    <3>1. Cardinality(LiveInGroup(g, 0)) = 0
      BY <1>1, <2>1
    <3> QED
      BY <1>2, <3>1
  <2> QED
    BY <2>2, <2>3 DEF ConcurrencyRespected
<1>4. \A r \in Runners : /\ runner[r].age = 0 /\ runner[r].policyLocks = {}
                         /\ runner[r].pc = "idle"
  BY DEF Init, IdleRunner
<1> QED
  BY <1>3, <1>4 DEF GroupsInv, PolicyLocksExclusive, GrantLeavesRoom

(* With exact clock readings the concurrency limit of a policy bounds the  *)
(* live leases of its group, with any number of runners claiming at once   *)
(* (claim_due counts again under pg_try_advisory_xact_lock).               *)
THEOREM ConcurrencyHolds ==
  ASSUME MaxLag = 0
  PROVE  Spec => []ConcurrencyRespected
<1>1. QueueInv /\ GroupsInv /\ [Next]_vars /\ QueueInv' => GroupsInv'
  BY GroupsStep
<1>2. GroupsInv => ConcurrencyRespected
  BY DEF GroupsInv
<1> QED
  BY <1>1, <1>2, GroupsInit, Invariance, PTL DEF Spec
=============================================================================
