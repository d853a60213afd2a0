-------------------------- MODULE ChunkSetsProofs --------------------------
(***************************************************************************)
(* Proofs about ChunkSets for any runners, requests and keys and any       *)
(* bounds. ChunkInv is inductive: RunPart says what the runner slots rely  *)
(* on, RowPart how the rows of sets and tasks fit together.                *)
(***************************************************************************)
EXTENDS ChunkSets, FiniteSetTheorems, SequenceTheorems, TLAPS

OneInSet == \A q, r \in Runners :
              (HoldsSet(q) /\ HoldsSet(r) /\ SetOf(q) = SetOf(r)) => q = r
OnePublishing == \A q, r \in Runners :
                   (run[q].pc = "publishing" /\ run[r].pc = "publishing") => q = r
RunsKnown == \A r \in Runners : run[r].pc # "idle" => run[r].task \in Tasks
SourceStays == \A r \in Runners : run[r].pc = "publishing" => sets[SetOf(r)].source = clean

RunPart == /\ run \in [Runners -> Run]
           /\ OneInSet /\ OnePublishing /\ RunsKnown /\ SourceStays

RowTypes == /\ sets \in Seq(ChunkSet) /\ Len(sets) <= MaxSets
            /\ tasks \in Seq(Task) /\ Len(tasks) <= MaxTasks
            /\ closing \in [1..MaxTasks -> {"no", "failed", "cancelled"}]
ActiveCompleted == /\ activeSet \in 0..Len(sets)
                   /\ activeSet # 0 => sets[activeSet].status = "completed"
TasksKnowSets == \A t \in Tasks : tasks[t].set \in Sets
BudgetLeft == \A t \in Tasks : tasks[t].status = "queued" => tasks[t].attempts < MaxAttempts

(* A row that a transaction is about to end is still in a state from which *)
(* it may end that way.                                                    *)
ClosingFits ==
  \A t \in 1..MaxTasks : closing[t] # "no" =>
    /\ t \in Tasks
    /\ closing[t] = "failed" => tasks[t].status = "processing"
    /\ closing[t] = "cancelled" => tasks[t].status \in {"queued", "cancelling"}

OnePending == \A s, u \in Pending : s = u

(* TaskAndSetAgree without cardinalities.                                  *)
AgreeOn(s, status, statuses) ==
  /\ sets[s].status = status <=> \E t \in Tasks : tasks[t].set = s /\ tasks[t].status \in statuses
  /\ \A t, u \in Tasks : /\ tasks[t].set = s /\ tasks[t].status \in statuses
                         /\ tasks[u].set = s /\ tasks[u].status \in statuses
                         => t = u
Agree == \A s \in Sets : AgreeOn(s, "pending", Active) /\ AgreeOn(s, "completed", {"completed"})

RowPart == /\ RowTypes /\ ActiveCompleted /\ TasksKnowSets /\ BudgetLeft
           /\ ClosingFits /\ OnePending /\ Agree

(* A trigger that goes on to create a set has resolved the clean version.  *)
RequestPart == /\ request \in [Requests -> Trigger]
               /\ \A q \in Requests : request[q].pc = "creating" => request[q].source # 0

ChunkInv == clean \in 0..MaxVersions /\ RequestPart /\ RunPart /\ RowPart
-----------------------------------------------------------------------------
(* Rows only get added, and keep what they were created with.              *)
RowsKept == /\ Tasks \subseteq Tasks' /\ \A t \in Tasks : tasks'[t].set = tasks[t].set
            /\ Sets \subseteq Sets' /\ \A s \in Sets : sets'[s].source = sets[s].source

LEMMA RowsKeptUnchanged == UNCHANGED <<sets, tasks>> => RowsKept
  BY DEF RowsKept, Tasks, Sets

(* No runner moves, and the clean version changes only while no runner is  *)
(* about to publish.                                                       *)
LEMMA RunsStay ==
  ASSUME RunPart, TasksKnowSets, RowsKept, UNCHANGED run, clean' = clean \/ DocumentFree
  PROVE  RunPart'
<1>1. \A r \in Runners : run[r].pc # "idle" =>
        run[r].task \in Tasks' /\ SetOf(r)' = SetOf(r) /\ SetOf(r) \in Sets
  BY DEF RunPart, RunsKnown, RowsKept, SetOf, TasksKnowSets
<1>2. OneInSet'
  BY <1>1 DEF RunPart, OneInSet, HoldsSet
<1>3. SourceStays'
  BY <1>1 DEF RunPart, SourceStays, RowsKept, DocumentFree
<1> QED BY <1>1, <1>2, <1>3 DEF RunPart, OnePublishing, RunsKnown

(* One runner goes on to x.                                                *)
LEMMA RunGoesOn ==
  ASSUME RunPart, TasksKnowSets, RowsKept, UNCHANGED clean,
         NEW r \in Runners, NEW x \in Run, run' = [run EXCEPT ![r] = x],
         x.pc # "idle" => x.task \in Tasks,
         x.pc \in {"working", "publishing"} =>
           \/ HoldsSet(r) /\ x.task = run[r].task
           \/ SetFree(tasks[x.task].set),
         x.pc = "publishing" => DocumentFree /\ sets[tasks[x.task].set].source = clean
  PROVE  RunPart'
<1>1. /\ run' \in [Runners -> Run] /\ run'[r] = x
      /\ \A q \in Runners \ {r} : run'[q] = run[q]
  BY DEF RunPart
<1>2. \A q \in Runners : run'[q].pc # "idle" => run'[q].task \in Tasks
  BY <1>1 DEF RunPart, RunsKnown
<1>3. \A q \in Runners : run'[q].pc # "idle" =>
        SetOf(q)' = tasks[run'[q].task].set /\ tasks[run'[q].task].set \in Sets
  BY <1>2 DEF RowsKept, SetOf, TasksKnowSets
<1>4. OneInSet'
  <2> SUFFICES ASSUME NEW p \in Runners, NEW q \in Runners \ {p}, HoldsSet(p)', HoldsSet(q)',
                      SetOf(p)' = SetOf(q)'
               PROVE  FALSE
    BY DEF OneInSet
  <2>1. tasks[run'[p].task].set = tasks[run'[q].task].set
    BY <1>3 DEF HoldsSet
  <2>2. CASE p # r /\ q # r
    BY <1>1, <2>1, <2>2 DEF RunPart, OneInSet, HoldsSet, SetOf
  <2>3. CASE p = r
    BY <1>1, <2>1, <2>3 DEF RunPart, OneInSet, HoldsSet, SetOf, SetFree
  <2>4. CASE q = r
    BY <1>1, <2>1, <2>4 DEF RunPart, OneInSet, HoldsSet, SetOf, SetFree
  <2> QED BY <2>2, <2>3, <2>4
<1>5. OnePublishing'
  BY <1>1 DEF RunPart, OnePublishing, DocumentFree
<1>6. SourceStays'
  <2> SUFFICES ASSUME NEW q \in Runners, run'[q].pc = "publishing"
               PROVE  sets'[SetOf(q)'].source = clean
    BY DEF SourceStays
  <2>1. sets'[SetOf(q)'].source = sets[tasks[run'[q].task].set].source
    BY <1>3 DEF RowsKept
  <2> QED BY <1>1, <2>1 DEF RunPart, SourceStays, SetOf
<1> QED BY <1>1, <1>2, <1>4, <1>5, <1>6 DEF RunPart, RunsKnown, RowsKept

LEMMA RunStops ==
  ASSUME RunPart, TasksKnowSets, RowsKept, UNCHANGED clean, NEW r \in Runners, Stops(r)
  PROVE  RunPart'
<1>1. Free \in Run /\ Free.pc = "idle"
  BY ChunkAssumption DEF Free, Run
<1> QED BY <1>1, RunGoesOn DEF Stops

(* A runner turns to another part of the same attempt.                     *)
LEMMA RunTurns ==
  ASSUME RunPart, TasksKnowSets, RowsKept, UNCHANGED clean, NEW r \in Runners, run[r].pc # "idle",
         NEW pc \in {"claimed", "working", "publishing", "failing"}, Turns(r, pc),
         pc \in {"working", "publishing"} => HoldsSet(r) \/ SetFree(SetOf(r)),
         pc = "publishing" => DocumentFree /\ sets[SetOf(r)].source = clean
  PROVE  RunPart'
<1> DEFINE old == run[r]
           x == [old EXCEPT !.pc = pc]
<1>1. old \in Run /\ old.task \in Tasks
  BY DEF RunPart, RunsKnown
<1>2. run' = [run EXCEPT ![r] = x]
  BY DEF Turns
<1>3. /\ pc \in {"working", "publishing"} => HoldsSet(r) \/ SetFree(tasks[old.task].set)
      /\ pc = "publishing" => DocumentFree /\ sets[tasks[old.task].set].source = clean
  BY DEF SetOf
<1>4. old = run[r]
  OBVIOUS
<1> HIDE DEF old
<1>5. x \in Run /\ x.pc = pc /\ x.task = old.task
  BY <1>1 DEF Run
<1> HIDE DEF x
<1> QED BY <1>1, <1>2, <1>3, <1>4, <1>5, RunGoesOn
-----------------------------------------------------------------------------
LEMMA RowsStay ==
  ASSUME RowPart, UNCHANGED <<sets, activeSet, tasks, closing>>
  PROVE  RowPart'
BY DEF RowPart, RowTypes, ActiveCompleted, TasksKnowSets, BudgetLeft, ClosingFits, OnePending,
   Pending, Agree, AgreeOn, Tasks, Sets

(* Only the closing mark of one row changes.                               *)
LEMMA MarkChanges ==
  ASSUME RowPart, UNCHANGED <<sets, activeSet, tasks>>, NEW t \in Tasks,
         NEW st \in {"no", "failed", "cancelled"}, closing' = [closing EXCEPT ![t] = st],
         st = "failed" => tasks[t].status = "processing",
         st = "cancelled" => tasks[t].status \in {"queued", "cancelling"}
  PROVE  RowPart'
<1>1. t \in 1..MaxTasks
  BY ChunkAssumption DEF RowPart, RowTypes, Tasks
<1>2. RowTypes'
  BY <1>1 DEF RowPart, RowTypes
<1>3. ClosingFits'
  BY <1>1 DEF RowPart, RowTypes, ClosingFits, Tasks
<1>4. ActiveCompleted' /\ TasksKnowSets' /\ BudgetLeft'
  BY DEF RowPart, ActiveCompleted, TasksKnowSets, BudgetLeft, Tasks, Sets
<1>5. OnePending' /\ Agree'
  BY DEF RowPart, OnePending, Pending, Agree, AgreeOn, Tasks, Sets
<1> QED BY <1>2, <1>3, <1>4, <1>5 DEF RowPart

(* What Moves does to the rows.                                            *)
LEMMA Moved ==
  ASSUME RowTypes, NEW t \in Tasks, NEW st \in Active \union Ended, Moves(t, st)
  PROVE  /\ tasks' \in Seq(Task) /\ Len(tasks') = Len(tasks) /\ Tasks' = Tasks
         /\ tasks'[t].status = st /\ tasks'[t].set = tasks[t].set
         /\ tasks'[t].attempts = tasks[t].attempts
         /\ \A u \in Tasks \ {t} : tasks'[u] = tasks[u]
<1> DEFINE old == tasks[t]
           row == [old EXCEPT !.status = st]
<1>1. old \in Task
  BY DEF RowTypes, Tasks
<1>2. tasks' = [tasks EXCEPT ![t] = row]
  BY DEF Moves
<1>3. old = tasks[t]
  OBVIOUS
<1> HIDE DEF old
<1>4. row \in Task /\ row.status = st /\ row.set = old.set /\ row.attempts = old.attempts
  BY <1>1 DEF Task
<1> HIDE DEF row
<1> QED BY <1>1, <1>2, <1>3, <1>4 DEF RowTypes, Tasks

(* A task that is under way changes its state and remains under way.       *)
LEMMA StillUnderWay ==
  ASSUME RowPart, NEW t \in Tasks, tasks[t].status \in Active, RowFree(t), NEW st \in Active,
         tasks' \in Seq(Task), Len(tasks') = Len(tasks), Tasks' = Tasks,
         tasks'[t].set = tasks[t].set, tasks'[t].status = st,
         st = "queued" => tasks'[t].attempts < MaxAttempts,
         \A u \in Tasks \ {t} : tasks'[u] = tasks[u],
         UNCHANGED <<sets, activeSet, closing>>
  PROVE  RowPart'
<1>1. RowTypes' /\ ActiveCompleted' /\ OnePending'
  BY DEF RowPart, RowTypes, ActiveCompleted, OnePending, Pending, Sets
<1>2. TasksKnowSets' /\ BudgetLeft' /\ ClosingFits'
  BY DEF RowPart, TasksKnowSets, BudgetLeft, ClosingFits, RowFree, Sets
<1>3. Agree'
  <2> SUFFICES ASSUME NEW s \in Sets
               PROVE  AgreeOn(s, "pending", Active)' /\ AgreeOn(s, "completed", {"completed"})'
    BY DEF Agree, Sets
  <2>1. AgreeOn(s, "pending", Active) /\ AgreeOn(s, "completed", {"completed"})
    BY DEF RowPart, Agree
  <2>2. \A u \in Tasks : /\ tasks'[u].set = tasks[u].set
                         /\ tasks'[u].status \in Active <=> tasks[u].status \in Active
                         /\ tasks'[u].status = "completed" <=> tasks[u].status = "completed"
    BY DEF Active
  <2> QED BY <2>1, <2>2 DEF AgreeOn
<1> QED BY <1>1, <1>2, <1>3 DEF RowPart

(* The set of a task that is under way is pending, and none of its other   *)
(* tasks is under way or completed.                                        *)
LEMMA UnderWay ==
  ASSUME RowPart, NEW t \in Tasks, tasks[t].status \in Active
  PROVE  /\ tasks[t].set \in Sets /\ sets[tasks[t].set].status = "pending"
         /\ \A u \in Tasks \ {t} : tasks[u].set = tasks[t].set =>
              tasks[u].status \notin Active /\ tasks[u].status # "completed"
<1>1. tasks[t].set \in Sets
  BY DEF RowPart, TasksKnowSets
<1>2. AgreeOn(tasks[t].set, "pending", Active) /\ AgreeOn(tasks[t].set, "completed", {"completed"})
  BY <1>1 DEF RowPart, Agree
<1> QED BY <1>1, <1>2 DEF AgreeOn

(* What becomes of the sets when the status of one changes.                *)
LEMMA SetMoved ==
  ASSUME RowTypes, NEW s \in Sets, NEW st \in {"pending"} \union Ended,
         sets' = [sets EXCEPT ![s].status = st]
  PROVE  /\ sets' \in Seq(ChunkSet) /\ Len(sets') = Len(sets) /\ Sets' = Sets
         /\ sets'[s].status = st /\ sets'[s].source = sets[s].source
         /\ \A u \in Sets \ {s} : sets'[u] = sets[u]
<1> DEFINE old == sets[s]
           row == [old EXCEPT !.status = st]
<1>1. old \in ChunkSet
  BY DEF RowTypes, Sets
<1>2. sets' = [sets EXCEPT ![s] = row]
  OBVIOUS
<1>3. old = sets[s]
  OBVIOUS
<1> HIDE DEF old
<1>4. row \in ChunkSet /\ row.status = st /\ row.source = old.source
  BY <1>1 DEF ChunkSet, Ended
<1> HIDE DEF row
<1> QED BY <1>1, <1>2, <1>3, <1>4 DEF RowTypes, Sets

(* A task ends, and its set with it.                                       *)
LEMMA TaskEnds ==
  ASSUME RowPart, NEW t \in Tasks, tasks[t].status \in Active, NEW st \in Ended, Moves(t, st),
         sets' = [sets EXCEPT ![tasks[t].set].status = st],
         \/ activeSet' = activeSet
         \/ activeSet' = tasks[t].set /\ st = "completed",
         closing' = [closing EXCEPT ![t] = "no"]
  PROVE  RowPart' /\ RowsKept
<1> DEFINE s == tasks[t].set
<1>1. /\ s \in Sets /\ sets[s].status = "pending"
      /\ \A u \in Tasks \ {t} : tasks[u].set = s =>
           tasks[u].status \notin Active /\ tasks[u].status # "completed"
  BY UnderWay
<1>2. /\ tasks' \in Seq(Task) /\ Len(tasks') = Len(tasks) /\ Tasks' = Tasks
      /\ tasks'[t].status = st /\ tasks'[t].set = s
      /\ \A u \in Tasks \ {t} : tasks'[u] = tasks[u]
  BY Moved DEF RowPart
<1>3. /\ sets' \in Seq(ChunkSet) /\ Len(sets') = Len(sets) /\ Sets' = Sets
      /\ sets'[s].status = st /\ sets'[s].source = sets[s].source
      /\ \A u \in Sets \ {s} : sets'[u] = sets[u]
  BY <1>1, SetMoved DEF RowPart
<1>4. t \in 1..MaxTasks /\ s = tasks[t].set
  BY ChunkAssumption DEF RowPart, RowTypes, Tasks
<1> HIDE DEF s
<1>5. RowsKept
  BY <1>2, <1>3, <1>4 DEF RowsKept
<1>6. RowTypes'
  BY <1>2, <1>3, <1>4 DEF RowPart, RowTypes
<1>7. ActiveCompleted'
  BY <1>1, <1>3, <1>4 DEF RowPart, ActiveCompleted, Sets
<1>8. TasksKnowSets'
  BY <1>1, <1>2, <1>3 DEF RowPart, TasksKnowSets
<1>9. BudgetLeft'
  BY <1>2 DEF RowPart, BudgetLeft, Ended
<1>10. ClosingFits'
  BY <1>2, <1>4 DEF RowPart, RowTypes, ClosingFits
<1>11. OnePending'
  BY <1>3 DEF RowPart, OnePending, Pending, Ended
<1>12. Agree'
  <2> SUFFICES ASSUME NEW u \in Sets
               PROVE  AgreeOn(u, "pending", Active)' /\ AgreeOn(u, "completed", {"completed"})'
    BY <1>3 DEF Agree
  <2>1. AgreeOn(u, "pending", Active) /\ AgreeOn(u, "completed", {"completed"})
    BY DEF RowPart, Agree
  <2>2. CASE u # s
    <3>1. sets'[u] = sets[u]
      BY <1>3, <2>2
    <3>2. \A v \in Tasks : tasks'[v].set = u <=> tasks[v].set = u
      BY <1>2, <1>4, <2>2
    <3>3. \A v \in Tasks : tasks'[v].set = u => tasks'[v].status = tasks[v].status
      BY <1>2, <2>2
    <3> QED BY <1>2, <2>1, <3>1, <3>2, <3>3 DEF AgreeOn
  <2>3. CASE u = s
    <3>1. \A v \in Tasks : tasks'[v].set = s => tasks'[v].status \notin Active
      BY <1>1, <1>2 DEF Ended, Active
    <3>2. \A v \in Tasks : tasks'[v].set = s /\ tasks'[v].status = "completed" =>
            v = t /\ st = "completed"
      BY <1>1, <1>2
    <3>3. AgreeOn(u, "pending", Active)'
      BY <1>2, <1>3, <2>3, <3>1 DEF AgreeOn, Ended
    <3>4. AgreeOn(u, "completed", {"completed"})'
      BY <1>2, <1>3, <2>3, <3>2 DEF AgreeOn
    <3> QED BY <3>3, <3>4
  <2> QED BY <2>2, <2>3
<1> QED BY <1>5, <1>6, <1>7, <1>8, <1>9, <1>10, <1>11, <1>12 DEF RowPart

(* A set agrees with its tasks as before if they are the same as before.   *)
LEMMA AgreeKept ==
  ASSUME NEW u, NEW st, NEW statuses, AgreeOn(u, st, statuses), sets'[u] = sets[u],
         \A t \in Tasks' : tasks'[t].set = u => t \in Tasks /\ tasks'[t] = tasks[t],
         \A t \in Tasks : t \in Tasks' /\ tasks'[t] = tasks[t]
  PROVE  AgreeOn(u, st, statuses)'
<1>1. sets'[u].status = st <=> \E t \in Tasks' : tasks'[t].set = u /\ tasks'[t].status \in statuses
  BY Zenon DEF AgreeOn
<1>2. \A t, v \in Tasks' : /\ tasks'[t].set = u /\ tasks'[t].status \in statuses
                           /\ tasks'[v].set = u /\ tasks'[v].status \in statuses
                           => t = v
  BY DEF AgreeOn
<1> QED BY <1>1, <1>2, Zenon DEF AgreeOn

(* A queued task is appended for a set s that becomes pending: a new set,  *)
(* or one that failed.                                                     *)
LEMMA TaskAdded ==
  ASSUME RowPart, NEW s \in Nat, NEW row \in Task, row.set = s, row.status = "queued",
         row.attempts = 0, tasks' = Append(tasks, row), Len(tasks) < MaxTasks,
         sets' \in Seq(ChunkSet), Len(sets') <= MaxSets, Sets' = Sets \union {s},
         \A u \in Sets \ {s} : sets'[u] = sets[u],
         s \in Sets => sets[s].status = "failed" /\ sets'[s].source = sets[s].source,
         sets'[s].status = "pending", IndexAllows(s), UNCHANGED <<activeSet, closing>>
  PROVE  RowPart' /\ RowsKept
<1> DEFINE new == Len(tasks) + 1
<1>1. tasks \in Seq(Task) /\ Len(tasks) \in Nat /\ Len(sets) \in Nat /\ Len(sets') \in Nat
  BY DEF RowPart, RowTypes
<1>2. /\ tasks' \in Seq(Task) /\ Len(tasks') = new /\ Tasks' = Tasks \union {new}
      /\ new \notin Tasks /\ tasks'[new] = row /\ \A t \in Tasks : tasks'[t] = tasks[t]
  BY <1>1 DEF Tasks
<1>3. new \in Nat /\ new <= MaxTasks
  BY <1>1, ChunkAssumption
<1> HIDE DEF new
<1>4. RowsKept
  BY <1>2 DEF RowsKept
<1>5. RowTypes'
  BY <1>2, <1>3 DEF RowPart, RowTypes
<1>6. ActiveCompleted'
  BY <1>1 DEF RowPart, ActiveCompleted, Sets
<1>7. TasksKnowSets'
  BY <1>2 DEF RowPart, TasksKnowSets
<1>8. BudgetLeft'
  <2> SUFFICES ASSUME NEW t \in Tasks', tasks'[t].status = "queued"
               PROVE  tasks'[t].attempts < MaxAttempts
    BY DEF BudgetLeft
  <2>1. CASE t \in Tasks
    BY <1>2, <2>1 DEF RowPart, BudgetLeft
  <2>2. CASE t = new
    BY <1>2, <2>2, ChunkAssumption
  <2> QED BY <1>2, <2>1, <2>2
<1>9. ClosingFits'
  <2>1. closing' = closing /\ ClosingFits
    BY DEF RowPart
  <2>2. \A t \in Tasks : t \in Tasks' /\ tasks'[t] = tasks[t]
    BY <1>2
  <2> QED BY <2>1, <2>2 DEF ClosingFits
<1>10. OnePending'
  BY DEF OnePending, Pending, IndexAllows
<1>11. Agree'
  <2> SUFFICES ASSUME NEW u \in Sets'
               PROVE  AgreeOn(u, "pending", Active)' /\ AgreeOn(u, "completed", {"completed"})'
    BY DEF Agree
  <2>1. CASE u # s
    <3>1. u \in Sets /\ sets'[u] = sets[u]
      BY <2>1
    <3>2. AgreeOn(u, "pending", Active) /\ AgreeOn(u, "completed", {"completed"})
      BY <3>1 DEF RowPart, Agree
    <3>3. \A t \in Tasks' : tasks'[t].set = u => t \in Tasks /\ tasks'[t] = tasks[t]
      BY <1>2, <2>1
    <3>4. \A t \in Tasks : t \in Tasks' /\ tasks'[t] = tasks[t]
      BY <1>2
    <3>5. AgreeOn(u, "pending", Active)' /\ AgreeOn(u, "completed", {"completed"})'
      BY <3>1, <3>2, <3>3, <3>4, AgreeKept DEF Active
    <3> QED BY <3>5
  <2>2. CASE u = s
    <3>1. \A t \in Tasks : tasks[t].set = s =>
            tasks[t].status \notin Active /\ tasks[t].status # "completed"
      <4>1. CASE s \in Sets
        <5>1. AgreeOn(s, "pending", Active) /\ AgreeOn(s, "completed", {"completed"})
          BY <4>1 DEF RowPart, Agree
        <5> QED BY <4>1, <5>1 DEF AgreeOn
      <4>2. CASE s \notin Sets
        BY <4>2 DEF RowPart, TasksKnowSets
      <4> QED BY <4>1, <4>2
    <3>2. \A t \in Tasks' : tasks'[t].set = s =>
            /\ tasks'[t].status # "completed"
            /\ tasks'[t].status \in Active => t = new
      <4>1. \A t \in Tasks : tasks'[t] = tasks[t]
        BY <1>2
      <4>2. tasks'[new].status = "queued"
        BY <1>2
      <4>3. Tasks' = Tasks \union {new}
        BY <1>2
      <4> HIDE DEF new
      <4> QED BY <3>1, <4>1, <4>2, <4>3
    <3>3. new \in Tasks' /\ tasks'[new].set = s /\ tasks'[new].status \in Active
      BY <1>2 DEF Active
    <3>4. AgreeOn(s, "pending", Active)'
      BY <3>2, <3>3 DEF AgreeOn
    <3>5. AgreeOn(s, "completed", {"completed"})'
      BY <3>2 DEF AgreeOn
    <3> QED BY <2>2, <3>4, <3>5
  <2> QED BY <2>1, <2>2
<1> QED BY <1>4, <1>5, <1>6, <1>7, <1>8, <1>9, <1>10, <1>11 DEF RowPart
-----------------------------------------------------------------------------
(* The steps of a trigger.                                                 *)
LEMMA RequestGoesOn ==
  ASSUME RequestPart, NEW q \in Requests, NEW x \in Trigger, Goes(q, x),
         x.pc = "creating" => x.source # 0
  PROVE  RequestPart'
<1>1. /\ request' \in [Requests -> Trigger] /\ request'[q] = x
      /\ \A p \in Requests \ {q} : request'[p] = request[p]
  BY DEF RequestPart, Goes
<1> QED BY <1>1 DEF RequestPart

LEMMA RequestEnds == ASSUME RequestPart, NEW q \in Requests, Ends(q) PROVE RequestPart'
<1>1. Idle \in Trigger /\ Idle.pc = "idle"
  BY DEF Idle, Trigger
<1> QED BY <1>1, RequestGoesOn DEF Ends

(* What a trigger that is under way remembers.                             *)
LEMMA Remembers ==
  ASSUME RequestPart, NEW q \in Requests, request[q].pc # "idle"
  PROVE  request[q] \in [pc : {"free", "unused", "creating"}, key : Keys, want : Wanted,
                         source : 0..MaxVersions]
BY DEF RequestPart, Trigger

LEMMA OnlyRequests ==
  ASSUME ChunkInv, UNCHANGED <<clean, sets, activeSet, tasks, closing, run>>, RequestPart'
  PROVE  ChunkInv'
<1>1. RowPart'
  BY RowsStay DEF ChunkInv
<1>2. RunPart'
  BY RowsKeptUnchanged, RunsStay DEF ChunkInv, RowPart
<1> QED BY <1>1, <1>2 DEF ChunkInv

LEMMA ReviewVersionKeeps == ChunkInv /\ ReviewVersion => ChunkInv'
<1> SUFFICES ASSUME ChunkInv, ReviewVersion PROVE ChunkInv'
  OBVIOUS
<1>1. RowPart'
  BY RowsStay DEF ChunkInv, ReviewVersion
<1>2. RunPart'
  BY RowsKeptUnchanged, RunsStay DEF ChunkInv, RowPart, ReviewVersion
<1>3. clean' \in 0..MaxVersions
  BY ChunkAssumption DEF ChunkInv, ReviewVersion, Pointer!Advance
<1> QED BY <1>1, <1>2, <1>3 DEF ChunkInv, RequestPart, ReviewVersion

LEMMA StartChunkKeeps ==
  ASSUME ChunkInv, NEW q \in Requests, NEW ask \in Asks, StartChunk(q, ask)
  PROVE  ChunkInv'
<1> DEFINE x == [pc |-> "free", key |-> ask[1], want |-> ask[2], source |-> 0]
<1>1. ask[1] \in Keys /\ ask[2] \in 0..MaxVersions
  BY ChunkAssumption
<1>2. x \in Trigger /\ x.pc = "free" /\ Goes(q, x)
  BY <1>1, ChunkAssumption DEF Trigger, Wanted, StartChunk
<1> HIDE DEF x
<1>3. RequestPart'
  BY <1>2, RequestGoesOn DEF ChunkInv
<1> QED BY <1>3, OnlyRequests DEF StartChunk

LEMMA LookForKeyKeeps ==
  ASSUME ChunkInv, NEW q \in Requests, LookForKey(q) PROVE ChunkInv'
<1> DEFINE old == request[q]
           x == [old EXCEPT !.pc = "unused"]
<1>1. old \in [pc : {"free", "unused", "creating"}, key : Keys, want : Wanted,
               source : 0..MaxVersions]
  BY Remembers DEF ChunkInv, LookForKey
<1>2. Goes(q, x) \/ Ends(q)
  BY DEF LookForKey
<1> HIDE DEF old
<1>3. x \in Trigger /\ x.pc = "unused"
  BY <1>1 DEF Trigger
<1> HIDE DEF x
<1>4. RequestPart'
  BY <1>2, <1>3, RequestGoesOn, RequestEnds DEF ChunkInv
<1> QED BY <1>4, OnlyRequests DEF LookForKey

LEMMA ResolveVersionKeeps ==
  ASSUME ChunkInv, NEW q \in Requests, ResolveVersion(q) PROVE ChunkInv'
<1> DEFINE old == request[q]
           x == [old EXCEPT !.pc = "creating", !.source = clean]
<1>1. old \in [pc : {"free", "unused", "creating"}, key : Keys, want : Wanted,
               source : 0..MaxVersions]
  BY Remembers DEF ChunkInv, ResolveVersion
<1>2. (clean # 0 /\ Goes(q, x)) \/ Ends(q)
  BY DEF ResolveVersion
<1> HIDE DEF old
<1>3. x \in Trigger /\ x.source = clean
  BY <1>1 DEF Trigger, ChunkInv
<1> HIDE DEF x
<1>4. RequestPart'
  BY <1>2, <1>3, RequestGoesOn, RequestEnds DEF ChunkInv
<1> QED BY <1>4, OnlyRequests DEF ResolveVersion

LEMMA DropKeeps == ASSUME ChunkInv, NEW q \in Requests, Drop(q) PROVE ChunkInv'
<1>1. RequestPart'
  BY RequestEnds DEF ChunkInv, Drop
<1> QED BY <1>1, OnlyRequests DEF Drop

LEMMA CreateSetKeeps ==
  ASSUME ChunkInv, NEW q \in Requests, CreateSet(q) PROVE ChunkInv'
<1>1. RequestPart'
  BY RequestEnds DEF ChunkInv, CreateSet
<1>2. CASE UNCHANGED <<sets, tasks>>
  BY <1>1, <1>2, OnlyRequests DEF CreateSet
<1>3. CASE ~UNCHANGED <<sets, tasks>>
  <2> DEFINE new == Len(sets) + 1
             key == <<request[q].key, request[q].want>>
             set == [source |-> request[q].source, key |-> key, status |-> "pending"]
             row == [set |-> new, retryOf |-> 0, attempts |-> 0, status |-> "queued"]
  <2>1. /\ IndexAllows(new) /\ Len(sets) < MaxSets /\ Len(tasks) < MaxTasks
        /\ sets' = Append(sets, set) /\ tasks' = Append(tasks, row)
    BY <1>3 DEF CreateSet
  <2>2. /\ request[q].key \in Keys /\ request[q].want \in Wanted
        /\ request[q].source \in 0..MaxVersions /\ request[q].source # 0
    BY Remembers DEF ChunkInv, RequestPart, CreateSet
  <2>3. sets \in Seq(ChunkSet) /\ new \in 1..MaxSets
    BY <2>1, ChunkAssumption DEF ChunkInv, RowPart, RowTypes
  <2>4. set \in ChunkSet /\ set.status = "pending"
    BY <2>2, ChunkAssumption DEF ChunkSet
  <2>5. row \in Task /\ row.set = new /\ row.status = "queued" /\ row.attempts = 0
    BY <2>3, ChunkAssumption DEF Task, Active
  <2>6. new = Len(sets) + 1
    OBVIOUS
  <2> HIDE DEF set, row, new
  <2>7. /\ sets' \in Seq(ChunkSet) /\ Len(sets') = new /\ Sets' = Sets \union {new}
        /\ new \notin Sets /\ sets'[new] = set /\ \A u \in Sets \ {new} : sets'[u] = sets[u]
    BY <2>1, <2>3, <2>4, <2>6 DEF Sets
  <2>8. UNCHANGED <<clean, activeSet, closing, run>> /\ new \in Nat /\ Len(sets') <= MaxSets
    BY <2>3, <2>7, ChunkAssumption DEF CreateSet
  <2>9. RowPart' /\ RowsKept
    BY <2>1, <2>4, <2>5, <2>7, <2>8, TaskAdded DEF ChunkInv
  <2>10. RunPart'
    BY <2>8, <2>9, RunsStay DEF ChunkInv, RowPart
  <2> QED BY <1>1, <2>8, <2>9, <2>10 DEF ChunkInv
<1> QED BY <1>2, <1>3
-----------------------------------------------------------------------------
(* The steps of a runner slot.                                             *)
LEMMA OnlyRuns ==
  ASSUME ChunkInv, RowPart', RunPart', UNCHANGED <<clean, request>>
  PROVE  ChunkInv'
BY DEF ChunkInv, RequestPart

(* The rows stay, and a runner's attempt ends or turns to another part.    *)
LEMMA OnlyStops ==
  ASSUME ChunkInv, NEW r \in Runners, Stops(r),
         UNCHANGED <<clean, sets, activeSet, tasks, closing, request>>
  PROVE  ChunkInv'
<1>1. RowPart'
  BY RowsStay DEF ChunkInv
<1>2. RunPart'
  BY RowsKeptUnchanged, RunStops DEF ChunkInv, RowPart
<1> QED BY <1>1, <1>2, OnlyRuns

LEMMA OnlyTurns ==
  ASSUME ChunkInv, NEW r \in Runners, run[r].pc # "idle",
         NEW pc \in {"claimed", "working", "publishing", "failing"}, Turns(r, pc),
         pc \in {"working", "publishing"} => HoldsSet(r) \/ SetFree(SetOf(r)),
         pc = "publishing" => DocumentFree /\ sets[SetOf(r)].source = clean,
         UNCHANGED <<clean, sets, activeSet, tasks, closing, request>>
  PROVE  ChunkInv'
<1>1. RowPart'
  BY RowsStay DEF ChunkInv
<1>2. RunPart'
  BY RowsKeptUnchanged, RunTurns DEF ChunkInv, RowPart
<1> QED BY <1>1, <1>2, OnlyRuns

LEMMA RequeueKeeps ==
  ASSUME RowPart, NEW t \in Tasks, tasks[t].status = "processing", RowFree(t), Requeues(t),
         UNCHANGED <<sets, activeSet>>
  PROVE  RowPart' /\ RowsKept
<1>1. /\ tasks' \in Seq(Task) /\ Len(tasks') = Len(tasks) /\ Tasks' = Tasks
      /\ tasks'[t].status = "queued" /\ tasks'[t].set = tasks[t].set
      /\ tasks'[t].attempts = tasks[t].attempts
      /\ \A u \in Tasks \ {t} : tasks'[u] = tasks[u]
  BY Moved DEF RowPart, Requeues, Active
<1>2. RowPart'
  BY <1>1, StillUnderWay DEF Requeues, Active
<1> QED BY <1>1, <1>2 DEF RowsKept, Sets

LEMMA CloseMarked ==
  ASSUME RowPart, NEW t \in Tasks, NEW st \in {"failed", "cancelled"}, Closes(t, st),
         st = "failed" => tasks[t].status = "processing",
         st = "cancelled" => tasks[t].status \in {"queued", "cancelling"},
         UNCHANGED <<sets, activeSet>>
  PROVE  RowPart' /\ RowsKept
<1>1. RowPart'
  BY MarkChanges DEF Closes
<1> QED BY <1>1, RowsKeptUnchanged DEF Closes

LEMMA ClaimKeeps ==
  ASSUME ChunkInv, NEW r \in Runners, NEW t \in Tasks, Claim(r, t) PROVE ChunkInv'
<1> DEFINE old == tasks[t]
           row == [set |-> old.set, retryOf |-> old.retryOf, attempts |-> old.attempts + 1,
                   status |-> "processing"]
           x == [pc |-> "claimed", task |-> t, attempt |-> old.attempts + 1]
<1>1. old \in Task /\ old.status = "queued" /\ old.attempts < MaxAttempts /\ t \in 1..MaxTasks
  BY ChunkAssumption DEF ChunkInv, RowPart, RowTypes, BudgetLeft, Claim, Tasks
<1>2. tasks' = [tasks EXCEPT ![t] = row] /\ run' = [run EXCEPT ![r] = x]
  BY DEF Claim
<1>3. old = tasks[t]
  OBVIOUS
<1>4. old.attempts + 1 \in 0..MaxAttempts
  BY <1>1, ChunkAssumption DEF Task
<1> HIDE DEF old
<1>5. row \in Task /\ row.set = old.set /\ row.status = "processing"
  BY <1>1, <1>4 DEF Task, Active
<1>6. x \in Run /\ x.pc = "claimed" /\ x.task = t
  BY <1>1, <1>4 DEF Run
<1> HIDE DEF row, x
<1>7. /\ tasks' \in Seq(Task) /\ Len(tasks') = Len(tasks) /\ Tasks' = Tasks
      /\ tasks'[t] = row /\ \A u \in Tasks \ {t} : tasks'[u] = tasks[u]
  BY <1>2, <1>5 DEF ChunkInv, RowPart, RowTypes, Tasks
<1>8. UNCHANGED <<clean, sets, activeSet, closing, request>> /\ RowFree(t)
  BY DEF Claim
<1>9. RowPart'
  BY <1>1, <1>3, <1>5, <1>7, <1>8, StillUnderWay DEF ChunkInv, Active
<1>10. RowsKept
  BY <1>3, <1>5, <1>7, <1>8 DEF RowsKept, Sets
<1>11. RunPart'
  BY <1>2, <1>6, <1>8, <1>10, RunGoesOn DEF ChunkInv, RowPart
<1> QED BY <1>8, <1>9, <1>11, OnlyRuns

LEMMA BeginKeeps == ASSUME ChunkInv, NEW r \in Runners, Begin(r) PROVE ChunkInv'
<1>1. CASE Stops(r)
  BY <1>1, OnlyStops DEF Begin
<1>2. CASE Turns(r, "failing")
  BY <1>2, OnlyTurns DEF Begin
<1>3. CASE Turns(r, "working")
  BY <1>3, OnlyTurns DEF Begin
<1> QED BY <1>1, <1>2, <1>3 DEF Begin, Checked

LEMMA RecheckKeeps == ASSUME ChunkInv, NEW r \in Runners, Recheck(r) PROVE ChunkInv'
<1>1. CASE Stops(r)
  BY <1>1, OnlyStops DEF Recheck
<1>2. CASE Turns(r, "failing")
  BY <1>2, OnlyTurns DEF Recheck
<1>3. CASE Turns(r, "publishing") /\ SourceActive(SetOf(r))
  BY <1>3, OnlyTurns DEF Recheck, HoldsSet, SourceActive
<1> QED BY <1>1, <1>2, <1>3 DEF Recheck, Checked

LEMMA HandlerFailsKeeps == ASSUME ChunkInv, NEW r \in Runners, HandlerFails(r) PROVE ChunkInv'
BY OnlyTurns DEF HandlerFails, HoldsSet

LEMMA DiesKeeps == ASSUME ChunkInv, NEW r \in Runners, Dies(r) PROVE ChunkInv'
BY OnlyStops DEF Dies

LEMMA PublishKeeps == ASSUME ChunkInv, NEW r \in Runners, Publish(r) PROVE ChunkInv'
<1>1. CASE Owns(r) /\ Stops(r) /\ Moves(run[r].task, "completed")
           /\ sets' = [sets EXCEPT ![SetOf(r)].status = "completed"] /\ activeSet' = SetOf(r)
  <2> DEFINE t == run[r].task
  <2>1. t \in Tasks /\ t \in 1..MaxTasks
    BY ChunkAssumption DEF ChunkInv, RunPart, RunsKnown, RowPart, RowTypes, Publish, Tasks
  <2>2. /\ tasks[t].status \in Active /\ Moves(t, "completed")
        /\ sets' = [sets EXCEPT ![tasks[t].set].status = "completed"]
        /\ activeSet' = tasks[t].set
    BY <1>1 DEF Owns, HasToken, SetOf, Active
  <2>3. closing' = [closing EXCEPT ![t] = "no"]
    BY <2>1 DEF Publish, RowFree, ChunkInv, RowPart, RowTypes
  <2> HIDE DEF t
  <2>4. RowPart' /\ RowsKept
    BY <2>1, <2>2, <2>3, TaskEnds DEF ChunkInv, Ended
  <2>5. RunPart'
    BY <1>1, <2>4, RunStops DEF ChunkInv, RowPart, Publish
  <2> QED BY <2>4, <2>5, OnlyRuns DEF Publish
<1>2. CASE Stops(r) /\ UNCHANGED <<sets, activeSet, tasks>>
  BY <1>2, OnlyStops DEF Publish
<1>3. CASE Turns(r, "failing") /\ UNCHANGED <<sets, activeSet, tasks>>
  BY <1>3, OnlyTurns DEF Publish
<1> QED BY <1>1, <1>2, <1>3 DEF Publish

LEMMA SettleKeeps == ASSUME ChunkInv, NEW r \in Runners, Settle(r) PROVE ChunkInv'
<1> DEFINE t == run[r].task
<1>1. t \in Tasks /\ RowFree(t) /\ Stops(r) /\ UNCHANGED <<clean, sets, activeSet, request>>
  BY DEF ChunkInv, RunPart, RunsKnown, Settle
<1>2. \/ UNCHANGED <<tasks, closing>>
      \/ tasks[t].status = "cancelling" /\ Closes(t, "cancelled")
      \/ tasks[t].status = "processing" /\ (Requeues(t) \/ Closes(t, "failed"))
  BY DEF Settle, CancelSeen, Owns, HasToken
<1> HIDE DEF t
<1>3. RowPart' /\ RowsKept
  <2>1. CASE UNCHANGED <<tasks, closing>>
    BY <1>1, <2>1, RowsStay, RowsKeptUnchanged DEF ChunkInv
  <2>2. CASE tasks[t].status = "cancelling" /\ Closes(t, "cancelled")
    BY <1>1, <2>2, CloseMarked DEF ChunkInv
  <2>3. CASE tasks[t].status = "processing" /\ Closes(t, "failed")
    BY <1>1, <2>3, CloseMarked DEF ChunkInv
  <2>4. CASE tasks[t].status = "processing" /\ Requeues(t)
    BY <1>1, <2>4, RequeueKeeps DEF ChunkInv
  <2> QED BY <1>2, <2>1, <2>2, <2>3, <2>4
<1>4. RunPart'
  BY <1>1, <1>3, RunStops DEF ChunkInv, RowPart
<1> QED BY <1>1, <1>3, <1>4, OnlyRuns
-----------------------------------------------------------------------------
(* What befalls a task from outside its runner.                            *)
LEMMA OnlyRows ==
  ASSUME ChunkInv, RowPart', RowsKept, UNCHANGED <<clean, run, request>>
  PROVE  ChunkInv'
<1>1. RunPart'
  BY RunsStay DEF ChunkInv, RowPart
<1> QED BY <1>1, OnlyRuns

LEMMA ReapKeeps == ASSUME ChunkInv, NEW t \in Tasks, Reap(t) PROVE ChunkInv'
<1>1. CASE tasks[t].status = "cancelling" /\ Closes(t, "cancelled")
  BY <1>1, CloseMarked, OnlyRows DEF ChunkInv, Reap
<1>2. CASE tasks[t].status = "processing" /\ Requeues(t)
  BY <1>2, RequeueKeeps, OnlyRows DEF ChunkInv, Reap
<1>3. CASE tasks[t].status = "processing" /\ Closes(t, "failed")
  BY <1>3, CloseMarked, OnlyRows DEF ChunkInv, Reap
<1> QED BY <1>1, <1>2, <1>3 DEF Reap

LEMMA CancelKeeps == ASSUME ChunkInv, NEW t \in Tasks, Cancel(t) PROVE ChunkInv'
<1>1. CASE tasks[t].status = "queued" /\ Closes(t, "cancelled")
  BY <1>1, CloseMarked, OnlyRows DEF ChunkInv, Cancel
<1>2. CASE tasks[t].status = "processing" /\ Moves(t, "cancelling") /\ UNCHANGED closing
  <2>1. /\ tasks' \in Seq(Task) /\ Len(tasks') = Len(tasks) /\ Tasks' = Tasks
        /\ tasks'[t].status = "cancelling" /\ tasks'[t].set = tasks[t].set
        /\ \A u \in Tasks \ {t} : tasks'[u] = tasks[u]
    BY <1>2, Moved DEF ChunkInv, RowPart, Active
  <2>2. UNCHANGED <<clean, sets, activeSet, run, request>> /\ RowFree(t)
    BY DEF Cancel
  <2>3. RowPart'
    BY <1>2, <2>1, <2>2, StillUnderWay DEF ChunkInv, Active
  <2>4. RowsKept
    BY <2>1, <2>2 DEF RowsKept, Sets
  <2> QED BY <2>2, <2>3, <2>4, OnlyRows
<1> QED BY <1>1, <1>2 DEF Cancel

LEMMA CloseKeeps == ASSUME ChunkInv, NEW t \in Tasks, Close(t) PROVE ChunkInv'
<1> DEFINE st == closing[t]
<1>1. /\ t \in 1..MaxTasks /\ st \in {"failed", "cancelled"}
      /\ tasks[t].status \in Active
  BY ChunkAssumption DEF ChunkInv, RowPart, RowTypes, ClosingFits, Close, RowFree, Tasks, Active
<1>2. sets[tasks[t].set].status = "pending"
  BY <1>1, UnderWay DEF ChunkInv
<1>3. Moves(t, st) /\ sets' = [sets EXCEPT ![tasks[t].set].status = st]
  BY <1>2 DEF Close, TerminalHook
<1> HIDE DEF st
<1>4. closing' = [closing EXCEPT ![t] = "no"] /\ UNCHANGED <<clean, activeSet, run, request>>
  BY DEF Close
<1>5. RowPart' /\ RowsKept
  BY <1>1, <1>3, <1>4, TaskEnds DEF ChunkInv, Ended
<1> QED BY <1>4, <1>5, OnlyRows

LEMMA UncloseKeeps == ASSUME ChunkInv, NEW t \in Tasks, Unclose(t) PROVE ChunkInv'
<1>1. RowPart'
  BY MarkChanges DEF ChunkInv, Unclose
<1>2. RowsKept
  BY RowsKeptUnchanged DEF Unclose
<1> QED BY <1>1, <1>2, OnlyRows DEF Unclose

LEMMA RetryKeeps == ASSUME ChunkInv, NEW t \in Tasks, Retry(t) PROVE ChunkInv'
<1> DEFINE s == tasks[t].set
           row == [set |-> s, retryOf |-> t, attempts |-> 0, status |-> "queued"]
<1> SUFFICES ASSUME NEW u, u = s PROVE ChunkInv'
  OBVIOUS
<1>1. /\ u \in Sets /\ sets[u].status = "failed" /\ IndexAllows(u) /\ Len(tasks) < MaxTasks
      /\ tasks' = Append(tasks, row) /\ sets' = [sets EXCEPT ![u].status = "pending"]
      /\ UNCHANGED <<clean, activeSet, closing, run, request>>
  BY DEF ChunkInv, RowPart, TasksKnowSets, Retry, Retryable
<1>2. u \in 1..MaxSets /\ u \in Nat /\ t \in 1..MaxTasks
  BY <1>1, ChunkAssumption DEF ChunkInv, RowPart, RowTypes, Sets, Tasks
<1>3. row \in Task /\ row.set = u /\ row.status = "queued" /\ row.attempts = 0
  BY <1>2, ChunkAssumption DEF Task, Active
<1> HIDE DEF s, row
<1>4. /\ sets' \in Seq(ChunkSet) /\ Len(sets') = Len(sets) /\ Sets' = Sets
      /\ sets'[u].status = "pending" /\ sets'[u].source = sets[u].source
      /\ \A v \in Sets \ {u} : sets'[v] = sets[v]
  BY <1>1, SetMoved DEF ChunkInv, RowPart
<1>5. Sets' = Sets \union {u} /\ Len(sets') <= MaxSets
  BY <1>1, <1>4 DEF ChunkInv, RowPart, RowTypes
<1>6. RowPart' /\ RowsKept
  BY <1>1, <1>2, <1>3, <1>4, <1>5, TaskAdded DEF ChunkInv
<1> QED BY <1>1, <1>6, OnlyRows
-----------------------------------------------------------------------------
LEMMA InitInv == Init => ChunkInv
<1> SUFFICES ASSUME Init PROVE ChunkInv
  OBVIOUS
<1>1. Tasks = {} /\ Sets = {} /\ sets = <<>> /\ tasks = <<>>
  BY DEF Init, Tasks, Sets
<1>2. RowTypes /\ ActiveCompleted
  BY <1>1, ChunkAssumption DEF Init, RowTypes, ActiveCompleted
<1>3. TasksKnowSets /\ BudgetLeft /\ ClosingFits /\ OnePending /\ Agree
  BY <1>1 DEF Init, TasksKnowSets, BudgetLeft, ClosingFits, OnePending, Pending, Agree
<1>4. RunPart
  BY ChunkAssumption DEF Init, RunPart, Run, Free, OneInSet, OnePublishing, RunsKnown, SourceStays,
     HoldsSet
<1>5. RequestPart
  BY DEF Init, RequestPart, Idle, Trigger
<1> QED BY <1>2, <1>3, <1>4, <1>5, ChunkAssumption DEF Init, ChunkInv, RowPart

LEMMA NextInv == ChunkInv /\ [Next]_vars => ChunkInv'
<1> SUFFICES ASSUME ChunkInv, [Next]_vars PROVE ChunkInv'
  OBVIOUS
<1>1. CASE UNCHANGED vars
  <2>1. RequestPart' /\ UNCHANGED <<clean, sets, activeSet, tasks, closing, run>>
    BY <1>1 DEF ChunkInv, RequestPart, vars
  <2> QED BY <2>1, OnlyRequests
<1>2. CASE ReviewVersion
  BY <1>2, ReviewVersionKeeps
<1>3. ASSUME NEW q \in Requests, Serve(q) PROVE ChunkInv'
  BY <1>3, StartChunkKeeps, LookForKeyKeeps, ResolveVersionKeeps, CreateSetKeeps, DropKeeps DEF Serve
<1>4. ASSUME NEW r \in Runners, Work(r) PROVE ChunkInv'
  BY <1>4, ClaimKeeps, BeginKeeps, RecheckKeeps, PublishKeeps, HandlerFailsKeeps, DiesKeeps,
     SettleKeeps DEF Work
<1>5. ASSUME NEW t \in Tasks, Manage(t) PROVE ChunkInv'
  BY <1>5, ReapKeeps, CancelKeeps, CloseKeeps, UncloseKeeps, RetryKeeps DEF Manage
<1> QED BY <1>1, <1>2, <1>3, <1>4, <1>5 DEF Next

LEMMA Invariance == Spec => []ChunkInv
BY InitInv, NextInv, PTL DEF Spec
-----------------------------------------------------------------------------
(* The variables have their types; at most one handler is inside a set and *)
(* at most one is about to publish (the row locks of run_chunk_handler).   *)
THEOREM TypeCorrect == Spec => []TypeOK
<1>1. ChunkInv => TypeOK
  BY DEF ChunkInv, RequestPart, RunPart, OneInSet, OnePublishing, RowPart, RowTypes,
     ActiveCompleted, TypeOK
<1> QED BY <1>1, Invariance, PTL

(* At most one chunk set of the document is pending at any time, counting  *)
(* sets that a retry made pending again (uq_chunk_sets_single_active).     *)
THEOREM OneSetPendingHolds == Spec => []OneSetPending
<1>1. ASSUME OnePending PROVE OneSetPending
  <2>1. CASE Pending = {}
    BY <2>1, FS_EmptySet DEF OneSetPending
  <2>2. ASSUME NEW s \in Pending PROVE OneSetPending
    <3>1. Pending = {s}
      BY <1>1, <2>2 DEF OnePending
    <3> QED BY <3>1, FS_Singleton DEF OneSetPending
  <2> QED BY <2>1, <2>2
<1>2. ChunkInv => OnePending
  BY DEF ChunkInv, RowPart
<1> QED BY <1>1, <1>2, Invariance, PTL

(* A pending set has exactly one task under way and a completed one exactly *)
(* one completed task; the other sets have none (create_chunk_set_task,    *)
(* run_chunk_handler, _chunk_terminal and _prepare_chunk_retry together).  *)
THEOREM TaskAndSetAgreeHolds == Spec => []TaskAndSetAgree
<1>1. ASSUME NEW s, NEW st, NEW statuses, AgreeOn(s, st, statuses)
      PROVE  Cardinality(OfSet(s, statuses)) = IF sets[s].status = st THEN 1 ELSE 0
  <2>1. CASE OfSet(s, statuses) = {}
    <3>1. sets[s].status # st
      BY <1>1, <2>1 DEF AgreeOn, OfSet
    <3> QED BY <2>1, <3>1, FS_EmptySet
  <2>2. ASSUME NEW t \in OfSet(s, statuses)
        PROVE  Cardinality(OfSet(s, statuses)) = IF sets[s].status = st THEN 1 ELSE 0
    <3>1. OfSet(s, statuses) = {t} /\ sets[s].status = st
      BY <1>1, <2>2 DEF AgreeOn, OfSet
    <3> QED BY <3>1, FS_Singleton
  <2> QED BY <2>1, <2>2
<1>2. ChunkInv => TaskAndSetAgree
  BY <1>1 DEF ChunkInv, RowPart, Agree, TaskAndSetAgree
<1> QED BY <1>2, Invariance, PTL
-----------------------------------------------------------------------------
(* What a publication does to the set it is about.                         *)
LEMMA Published ==
  ASSUME ChunkInv, NEW r \in Runners, Publish(r), ~UNCHANGED <<sets, activeSet, tasks>>
  PROVE  /\ run[r].task \in Tasks /\ SetOf(r) \in Sets /\ activeSet' = SetOf(r)
         /\ sets' = [sets EXCEPT ![SetOf(r)].status = "completed"]
         /\ sets[SetOf(r)].status = "pending" /\ sets[SetOf(r)].source = clean
         /\ tasks[run[r].task].status = "processing" /\ Moves(run[r].task, "completed")
<1>1. /\ tasks[run[r].task].status = "processing" /\ Moves(run[r].task, "completed")
      /\ sets' = [sets EXCEPT ![SetOf(r)].status = "completed"] /\ activeSet' = SetOf(r)
  BY DEF Publish, Owns, HasToken, CancelSeen
<1>2. run[r].task \in Tasks /\ sets[SetOf(r)].source = clean
  BY DEF ChunkInv, RunPart, RunsKnown, SourceStays, Publish
<1>3. SetOf(r) \in Sets /\ sets[SetOf(r)].status = "pending"
  BY <1>1, <1>2, UnderWay DEF ChunkInv, SetOf, Active
<1> QED BY <1>1, <1>2, <1>3

(* All other steps leave the active set alone.                             *)
LEMMA OnlyPublished ==
  ASSUME [Next]_vars, activeSet' # activeSet
  PROVE  \E r \in Runners : Publish(r)
<1>1. ASSUME NEW q \in Requests, Serve(q) PROVE FALSE
  BY <1>1 DEF Serve, StartChunk, LookForKey, ResolveVersion, CreateSet, Drop
<1>2. ASSUME NEW t \in Tasks, Manage(t) PROVE FALSE
  BY <1>2 DEF Manage, Reap, Cancel, Close, Unclose, Retry
<1>3. ASSUME NEW r \in Runners, Work(r) PROVE Publish(r)
  BY <1>3 DEF Work, Claim, Begin, Recheck, HandlerFails, Dies, Settle
<1> QED BY <1>1, <1>2, <1>3 DEF Next, ReviewVersion, vars

(* The active set is only ever replaced by one computed from the clean     *)
(* version that is active at that moment (the recheck of run_chunk_handler *)
(* under the Document row's lock).                                         *)
THEOREM PublishedFromActiveHolds == Spec => PublishedFromActive
<1>1. ASSUME ChunkInv, [Next]_vars PROVE [PublishesActive]_vars
  <2> SUFFICES ASSUME activeSet' # activeSet
               PROVE  sets'[activeSet'].source = clean /\ clean' = clean
    BY DEF PublishesActive
  <2>1. PICK r \in Runners : Publish(r)
    BY <1>1, OnlyPublished
  <2>2. /\ SetOf(r) \in Sets /\ activeSet' = SetOf(r) /\ sets[SetOf(r)].source = clean
        /\ sets' = [sets EXCEPT ![SetOf(r)].status = "completed"]
    BY <1>1, <2>1, Published
  <2>3. sets'[SetOf(r)].source = sets[SetOf(r)].source
    BY <1>1, <2>2, SetMoved DEF ChunkInv, RowPart, Ended
  <2> QED BY <2>1, <2>2, <2>3 DEF Publish
<1> QED BY <1>1, Invariance, PTL DEF Spec, PublishedFromActive

(* Rows of sets only change where a pending set ends or a failed one is    *)
(* retried.                                                                *)
LEMMA SetsChange ==
  ASSUME ChunkInv, [Next]_vars
  PROVE  \/ sets' = sets
         \/ \E set \in ChunkSet : sets' = Append(sets, set)
         \/ \E s \in Sets, st \in {"pending"} \union Ended :
              sets[s].status # "completed" /\ sets' = [sets EXCEPT ![s].status = st]
<1> DEFINE Goal == \/ sets' = sets
                   \/ \E set \in ChunkSet : sets' = Append(sets, set)
                   \/ \E s \in Sets, st \in {"pending"} \union Ended :
                        sets[s].status # "completed" /\ sets' = [sets EXCEPT ![s].status = st]
<1> SUFFICES Goal
  OBVIOUS
<1>1. ASSUME NEW q \in Requests, CreateSet(q) PROVE Goal
  <2> DEFINE set == [source |-> request[q].source, key |-> <<request[q].key, request[q].want>>,
                     status |-> "pending"]
  <2>1. sets' = sets \/ sets' = Append(sets, set)
    BY <1>1 DEF CreateSet
  <2>2. /\ request[q].key \in Keys /\ request[q].want \in Wanted
        /\ request[q].source \in 0..MaxVersions /\ request[q].source # 0
    BY <1>1, Remembers DEF ChunkInv, RequestPart, CreateSet
  <2>3. set \in ChunkSet
    BY <2>2, ChunkAssumption DEF ChunkSet
  <2> QED BY <2>1, <2>3
<1>2. ASSUME NEW r \in Runners, Publish(r) PROVE Goal
  BY <1>2, Published DEF Ended
<1>3. ASSUME NEW t \in Tasks, Close(t) PROVE Goal
  <2>1. tasks[t].set \in Sets /\ closing[t] \in Ended
    BY <1>3, ChunkAssumption
    DEF ChunkInv, RowPart, RowTypes, TasksKnowSets, Close, RowFree, Tasks, Ended
  <2> QED BY <1>3, <2>1 DEF Close, TerminalHook
<1>4. ASSUME NEW t \in Tasks, Retry(t) PROVE Goal
  <2>1. tasks[t].set \in Sets
    BY DEF ChunkInv, RowPart, TasksKnowSets
  <2> QED BY <1>4, <2>1 DEF Retry, Retryable
<1>5. ASSUME NEW q \in Requests, Serve(q) PROVE Goal
  BY <1>1, <1>5 DEF Serve, StartChunk, LookForKey, ResolveVersion, Drop
<1>6. ASSUME NEW r \in Runners, Work(r) PROVE Goal
  BY <1>2, <1>6 DEF Work, Claim, Begin, Recheck, HandlerFails, Dies, Settle
<1>7. ASSUME NEW t \in Tasks, Manage(t) PROVE Goal
  BY <1>3, <1>4, <1>7 DEF Manage, Reap, Cancel, Unclose
<1> QED BY <1>5, <1>6, <1>7 DEF Next, ReviewVersion, vars

(* A completed set never changes again, and the active set is a completed  *)
(* one, whatever is retried, cancelled or published later.                 *)
THEOREM CompletedStaysHolds == Spec => CompletedStays
<1>1. ASSUME ChunkInv, [Next]_vars PROVE [KeepsCompleted]_vars
  <2>1. activeSet' # 0 => sets'[activeSet'].status = "completed"
    BY <1>1, NextInv DEF ChunkInv, RowPart, ActiveCompleted
  <2>2. ASSUME NEW s \in Sets, sets[s].status = "completed" PROVE sets'[s] = sets[s]
    <3>1. sets \in Seq(ChunkSet)
      BY <1>1 DEF ChunkInv, RowPart, RowTypes
    <3>2. ASSUME NEW set \in ChunkSet, sets' = Append(sets, set) PROVE sets'[s] = sets[s]
      BY <3>1, <3>2 DEF Sets
    <3>3. ASSUME NEW u \in Sets, sets[u].status # "completed",
                 NEW st, sets' = [sets EXCEPT ![u].status = st]
          PROVE  sets'[s] = sets[s]
      BY <2>2, <3>1, <3>3 DEF Sets
    <3> QED BY <1>1, <3>2, <3>3, SetsChange
  <2> QED BY <2>1, <2>2 DEF KeepsCompleted
<1> QED BY <1>1, Invariance, PTL DEF Spec, CompletedStays
-----------------------------------------------------------------------------
(* The state of a task before and after a step.                            *)
LEMMA RestFollows == UNCHANGED tasks => FollowsLifecycle
  BY DEF FollowsLifecycle, Follows, Status, Tasks

LEMMA AddedFollows ==
  ASSUME RowTypes, NEW row, row.status = "queued", tasks' = Append(tasks, row)
  PROVE  FollowsLifecycle
<1> DEFINE new == Len(tasks) + 1
<1>1. /\ Tasks' = Tasks \union {new} /\ new \notin Tasks /\ tasks'[new] = row
      /\ \A t \in Tasks : tasks'[t] = tasks[t]
  BY DEF RowTypes, Tasks
<1> HIDE DEF new
<1> SUFFICES ASSUME NEW t \in 1..MaxTasks PROVE Follows(t)
  BY DEF FollowsLifecycle
<1>2. CASE t = new
  BY <1>1, <1>2 DEF Follows, Status, Life!Transitions
<1>3. CASE t # new
  BY <1>1, <1>3 DEF Follows, Status
<1> QED BY <1>2, <1>3

LEMMA MovedFollows ==
  ASSUME RowTypes, NEW t \in Tasks, Tasks' = Tasks,
         <<tasks[t].status, tasks'[t].status>> \in Life!Transitions,
         \A u \in Tasks \ {t} : tasks'[u] = tasks[u]
  PROVE  FollowsLifecycle
<1> SUFFICES ASSUME NEW u \in 1..MaxTasks PROVE Follows(u)
  BY DEF FollowsLifecycle
<1>1. CASE u = t
  BY <1>1 DEF Follows, Status
<1>2. CASE u # t
  BY <1>2 DEF Follows, Status
<1> QED BY <1>1, <1>2

LEMMA MovesFollow ==
  ASSUME RowTypes, NEW t \in Tasks, NEW st \in Active \union Ended, Moves(t, st),
         <<tasks[t].status, st>> \in Life!Transitions
  PROVE  FollowsLifecycle
<1>1. /\ Tasks' = Tasks /\ tasks'[t].status = st
      /\ \A u \in Tasks \ {t} : tasks'[u] = tasks[u]
  BY Moved
<1> QED BY <1>1, MovedFollows

(* Every change of a task's status is an edge of the state graph of the    *)
(* queue; in particular a task completes only while it is processing and   *)
(* held by the attempt that publishes (queue.transition).                  *)
THEOREM KeepsLifecycleHolds == Spec => KeepsLifecycle
<1>1. ASSUME ChunkInv, [Next]_vars PROVE [FollowsLifecycle]_vars
  <2> USE <1>1
  <2>1. RowTypes
    BY DEF ChunkInv, RowPart
  <2>2. ASSUME NEW q \in Requests, CreateSet(q) PROVE FollowsLifecycle
    <3> DEFINE row == [set |-> Len(sets) + 1, retryOf |-> 0, attempts |-> 0, status |-> "queued"]
    <3>1. row.status = "queued" /\ (UNCHANGED tasks \/ tasks' = Append(tasks, row))
      BY <2>2 DEF CreateSet
    <3> HIDE DEF row
    <3> QED BY <2>1, <3>1, RestFollows, AddedFollows
  <2>3. ASSUME NEW r \in Runners, NEW t \in Tasks, Claim(r, t) PROVE FollowsLifecycle
    <3> DEFINE row == [set |-> tasks[t].set, retryOf |-> tasks[t].retryOf,
                       attempts |-> tasks[t].attempts + 1, status |-> "processing"]
    <3>1. row.status = "processing" /\ tasks' = [tasks EXCEPT ![t] = row]
      BY <2>3 DEF Claim
    <3> HIDE DEF row
    <3>2. /\ Tasks' = Tasks /\ tasks'[t].status = "processing"
          /\ \A u \in Tasks \ {t} : tasks'[u] = tasks[u]
      BY <2>1, <3>1 DEF RowTypes, Tasks
    <3> QED BY <2>1, <2>3, <3>2, MovedFollows DEF Claim, Life!Transitions
  <2>4. ASSUME NEW r \in Runners, Publish(r) PROVE FollowsLifecycle
    BY <2>1, <2>4, Published, RestFollows, MovesFollow DEF Ended, Life!Transitions
  <2>5. ASSUME NEW t \in Tasks, tasks[t].status = "processing", Requeues(t)
        PROVE  FollowsLifecycle
    BY <2>1, <2>5, MovesFollow DEF Requeues, Active, Life!Transitions
  <2>6. ASSUME NEW r \in Runners, Settle(r) PROVE FollowsLifecycle
    <3>1. run[r].task \in Tasks
      BY <2>6 DEF ChunkInv, RunPart, RunsKnown, Settle
    <3> QED BY <2>5, <2>6, <3>1, RestFollows DEF Settle, Closes, Owns, HasToken, CancelSeen
  <2>7. ASSUME NEW t \in Tasks, Reap(t) PROVE FollowsLifecycle
    BY <2>5, <2>7, RestFollows DEF Reap, Closes
  <2>8. ASSUME NEW t \in Tasks, Cancel(t) PROVE FollowsLifecycle
    BY <2>1, <2>8, RestFollows, MovesFollow DEF Cancel, Closes, Active, Life!Transitions
  <2>9. ASSUME NEW t \in Tasks, Close(t) PROVE FollowsLifecycle
    <3> DEFINE st == closing[t]
    <3>1. /\ Moves(t, st) /\ st \in {"failed", "cancelled"}
          /\ st = "failed" => tasks[t].status = "processing"
          /\ st = "cancelled" => tasks[t].status \in {"queued", "cancelling"}
      BY <2>9, ChunkAssumption DEF ChunkInv, RowPart, RowTypes, ClosingFits, Close, RowFree, Tasks
    <3> HIDE DEF st
    <3> QED BY <2>1, <3>1, MovesFollow DEF Ended, Life!Transitions
  <2>10. ASSUME NEW t \in Tasks, Retry(t) PROVE FollowsLifecycle
    <3> DEFINE row == [set |-> tasks[t].set, retryOf |-> t, attempts |-> 0, status |-> "queued"]
    <3>1. row.status = "queued" /\ tasks' = Append(tasks, row)
      BY <2>10 DEF Retry
    <3> HIDE DEF row
    <3> QED BY <2>1, <3>1, AddedFollows
  <2>11. ASSUME NEW q \in Requests, Serve(q) PROVE FollowsLifecycle
    BY <2>2, <2>11, RestFollows DEF Serve, StartChunk, LookForKey, ResolveVersion, Drop
  <2>12. ASSUME NEW r \in Runners, Work(r) PROVE FollowsLifecycle
    BY <2>3, <2>4, <2>6, <2>12, RestFollows DEF Work, Begin, Recheck, HandlerFails, Dies
  <2>13. ASSUME NEW t \in Tasks, Manage(t) PROVE FollowsLifecycle
    BY <2>7, <2>8, <2>9, <2>10, <2>13, RestFollows DEF Manage, Unclose
  <2>14. CASE ReviewVersion
    BY <2>14, RestFollows DEF ReviewVersion
  <2> QED BY <2>11, <2>12, <2>13, <2>14 DEF Next
<1> QED BY <1>1, Invariance, PTL DEF Spec, KeepsLifecycle
=============================================================================
