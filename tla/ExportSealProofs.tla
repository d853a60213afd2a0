-------------------------- MODULE ExportSealProofs --------------------------
(***************************************************************************)
(* Proofs about ExportSeal for any number of runners, retries, states of   *)
(* the source and object versions. The inductive invariant has a part for  *)
(* the rows, one for the store and one for what each attempt remembers,    *)
(* the current one as well as those that were overtaken.                   *)
(***************************************************************************)
EXTENDS ExportSeal, SequenceTheorems, TLAPS

RowsFit == /\ export \in Export
           /\ tasks \in Seq(Task) /\ Len(tasks) \in 1..MaxTasks /\ export.task \in Tasks
           /\ export.status \in {"processing", "completed"} => export.snapshot # None
           /\ export.columns = export.seal
           /\ ExportFollowsTask

StoreFits == source \in Contents /\ store \in Seq(Object) /\ Len(store) <= MaxObjects

(* An attempt that has looked while its task is the current one and the    *)
(* row still queued has the manifest that is frozen, if any is; from its   *)
(* freeze on it has it whatever has become of its task.                    *)
RunnerFits(r) ==
  LET w == worker[r]
  IN /\ w.pc # "idle" => w.task \in Tasks
     /\ w.pc \notin {"idle", "claimed"} => w.manifest \in Contents
     /\ (w.pc = "looked" /\ w.task = export.task /\ export.status = "queued") =>
          export.snapshot \in {None, w.manifest}
     /\ w.pc \in {"frozen", "output", "uploaded"} => w.manifest = export.snapshot
     /\ w.pc \in {"output", "uploaded"} => Stored(w.output, "output", w.manifest)
     /\ w.pc = "uploaded" => Stored(w.object, "manifest", w.manifest)

RunnersFit == worker \in [Runners -> Worker] /\ \A r \in Runners : RunnerFits(r)

SealInv == RowsFit /\ StoreFits /\ RunnersFit /\ CompletedVerifies
-----------------------------------------------------------------------------
(* One slot becomes x, one task becomes x.                                 *)
LEMMA RunnerBecomes ==
  ASSUME RunnersFit, NEW r \in Runners, NEW x \in Worker, worker' = [worker EXCEPT ![r] = x]
  PROVE  /\ worker' \in [Runners -> Worker] /\ worker'[r] = x
         /\ \A q \in Runners \ {r} : worker'[q] = worker[q]
  BY DEF RunnersFit

LEMMA TaskBecomes ==
  ASSUME RowsFit, NEW t \in Tasks, NEW x \in Task, tasks' = [tasks EXCEPT ![t] = x]
  PROVE  /\ tasks' \in Seq(Task) /\ Len(tasks') = Len(tasks) /\ Tasks' = Tasks
         /\ tasks'[t] = x /\ \A u \in Tasks \ {t} : tasks'[u] = tasks[u]
<1>1. tasks \in Seq(Task) /\ t \in 1..Len(tasks)
  BY DEF RowsFit, Tasks
<1>2. tasks' \in Seq(Task) /\ Len(tasks') = Len(tasks)
  BY <1>1, ExceptSeq
<1>3. tasks'[t] = x /\ \A u \in 1..Len(tasks) : u # t => tasks'[u] = tasks[u]
  BY <1>1, ExceptSeq
<1> QED BY <1>2, <1>3 DEF Tasks

LEMMA MovedFits ==
  \A s \in {"queued", "processing", "cancelling", "completed", "failed", "cancelled"} :
    Moved(s) \in Task /\ Moved(s).status = s
  BY DEF Moved, Task, Live

LEMMA FreeFits == Free \in Worker /\ Free.pc = "idle"
  BY ExportAssumption DEF Free, Worker

(* Only the task of the export can be live.                                *)
LEMMA LiveIsCurrent ==
  ASSUME RowsFit, NEW t \in Tasks, tasks[t].status \in Live
  PROVE  t = export.task /\ export.status \in {"queued", "processing"}
  BY DEF RowsFit, ExportFollowsTask, Live

(* A task that is moved among the live states takes nothing with it.       *)
LEMMA StaysLive ==
  ASSUME RowsFit, NEW t \in Tasks, tasks[t].status \in Live, NEW x \in Task, x.status \in Live,
         tasks' = [tasks EXCEPT ![t] = x], export' = export
  PROVE  RowsFit' /\ Tasks' = Tasks
<1>1. t = export.task /\ export.status \in {"queued", "processing"}
  BY LiveIsCurrent
<1>2. /\ tasks' \in Seq(Task) /\ Len(tasks') = Len(tasks) /\ Tasks' = Tasks
      /\ tasks'[t] = x /\ \A u \in Tasks \ {t} : tasks'[u] = tasks[u]
  BY TaskBecomes
<1>3. ExportFollowsTask'
  BY <1>1, <1>2 DEF RowsFit, ExportFollowsTask, Live
<1> QED BY <1>2, <1>3 DEF RowsFit

(* The row of a task that ends otherwise than by its seal fails with it.   *)
LEMMA EndsTogether ==
  ASSUME RowsFit, NEW t \in Tasks, tasks[t].status \in Live,
         NEW s \in {"failed", "cancelled"}, Ends(t, s)
  PROVE  /\ RowsFit' /\ Tasks' = Tasks
         /\ export'.status = "failed" /\ export'.snapshot = export.snapshot
         /\ export'.columns = export.columns
<1>1. t = export.task /\ export.status \in {"queued", "processing"} /\ export \in Export
  BY LiveIsCurrent DEF RowsFit
<1> DEFINE old == export
           new == [old EXCEPT !.status = "failed"]
<1>2. export' = new
  BY <1>1 DEF Ends, Hooked
<1> HIDE DEF old
<1>3. old \in Export
  BY <1>1 DEF old
<1>4. /\ new \in Export /\ new.status = "failed" /\ new.task = old.task
      /\ new.snapshot = old.snapshot /\ new.columns = old.columns /\ new.seal = old.seal
  BY <1>3 DEF Export
<1> HIDE DEF new
<1>5. Moved(s) \in Task /\ Moved(s).status = s
  BY MovedFits
<1>6. /\ tasks' \in Seq(Task) /\ Len(tasks') = Len(tasks) /\ Tasks' = Tasks
      /\ tasks'[t] = Moved(s) /\ \A u \in Tasks \ {t} : tasks'[u] = tasks[u]
  BY <1>5, TaskBecomes DEF Ends
<1>7. ExportFollowsTask'
  BY <1>1, <1>2, <1>4, <1>5, <1>6 DEF RowsFit, ExportFollowsTask, Live, old
<1> QED BY <1>1, <1>2, <1>4, <1>6, <1>7 DEF RowsFit, old

(* Attempts keep what they remember while the store stays, the snapshot    *)
(* stays, and the row is only queued again for a new task.                 *)
LEMMA RunnersRemember ==
  ASSUME SealInv, UNCHANGED store, export'.snapshot = export.snapshot, Tasks \subseteq Tasks',
         export'.status = "queued" =>
           (export.status = "queued" /\ export'.task = export.task) \/ export'.task \notin Tasks
  PROVE  \A q \in Runners : worker'[q] = worker[q] => RunnerFits(q)'
<1> SUFFICES ASSUME NEW q \in Runners, worker'[q] = worker[q]
             PROVE  RunnerFits(q)'
  OBVIOUS
<1>1. RunnerFits(q)
  BY DEF SealInv, RunnersFit
<1>2. \A v, k, h : Stored(v, k, h) => Stored(v, k, h)'
  BY DEF Stored
<1> QED BY <1>1, <1>2 DEF RunnerFits

(* The slots after a step that moves at most one of them.                  *)
LEMMA SlotMoves ==
  ASSUME RunnersFit, NEW r \in Runners, NEW x \in Worker, worker' = [worker EXCEPT ![r] = x],
         RunnerFits(r)', \A q \in Runners : worker'[q] = worker[q] => RunnerFits(q)'
  PROVE  RunnersFit'
  BY RunnerBecomes DEF RunnersFit

LEMMA SlotFreed ==
  ASSUME RunnersFit, NEW r \in Runners, Stops(r),
         \A q \in Runners : worker'[q] = worker[q] => RunnerFits(q)'
  PROVE  RunnersFit'
<1>1. Free \in Worker /\ worker' = [worker EXCEPT ![r] = Free] /\ Free.pc = "idle"
  BY FreeFits DEF Stops
<1>2. worker'[r].pc = "idle"
  BY <1>1, RunnerBecomes
<1>3. RunnerFits(r)'
  BY <1>2 DEF RunnerFits
<1> QED BY <1>1, <1>3, SlotMoves

(* What has been sealed stays in the store.                                *)
LEMMA SealStays ==
  ASSUME CompletedVerifies, UNCHANGED store, export'.snapshot = export.snapshot,
         export'.columns = export.columns, export'.seal = export.seal,
         export'.status = "completed" => export.status = "completed"
  PROVE  CompletedVerifies'
  BY DEF CompletedVerifies, Verified, Stored
-----------------------------------------------------------------------------
LEMMA ClaimKeeps ==
  ASSUME SealInv, NEW r \in Runners, NEW t \in Tasks, Claim(r, t)
  PROVE  SealInv'
<1> DEFINE old == worker[r]
           x == [old EXCEPT !.pc = "claimed", !.task = t]
           y == [status |-> "processing", owner |-> r]
<1>1. /\ worker' = [worker EXCEPT ![r] = x] /\ tasks' = [tasks EXCEPT ![t] = y]
      /\ UNCHANGED <<export, source, store>> /\ tasks[t].status = "queued"
  BY DEF Claim, SealInv, RunnersFit
<1>2. old \in Worker /\ t \in 0..MaxTasks /\ t \in Tasks
  BY ExportAssumption DEF SealInv, RunnersFit, RowsFit, Tasks
<1>3. y \in Task /\ y.status \in Live /\ tasks[t].status \in Live
  BY <1>1 DEF Task, Live
<1> HIDE DEF old, y
<1>4. x \in Worker /\ x.pc = "claimed" /\ x.task = t
  BY <1>2 DEF Worker
<1> HIDE DEF x
<1>5. RowsFit' /\ Tasks' = Tasks
  BY <1>1, <1>3, StaysLive DEF SealInv
<1>6. worker'[r] = x
  BY <1>1, <1>4, RunnerBecomes DEF SealInv
<1>7. RunnerFits(r)'
  BY <1>2, <1>4, <1>5, <1>6 DEF RunnerFits
<1>8. \A q \in Runners : worker'[q] = worker[q] => RunnerFits(q)'
  BY <1>1, <1>5, RunnersRemember
<1>9. RunnersFit'
  BY <1>1, <1>4, <1>7, <1>8, SlotMoves DEF SealInv
<1> QED BY <1>1, <1>5, <1>9, SealStays DEF SealInv, StoreFits

LEMMA LookKeeps ==
  ASSUME SealInv, NEW r \in Runners, Look(r)
  PROVE  SealInv'
<1> DEFINE old == worker[r]
           m == Manifest(export.snapshot)
           pc == IF export.status = "queued" THEN "looked" ELSE "frozen"
           x == [old EXCEPT !.manifest = m, !.pc = pc]
<1>1. /\ worker' = [worker EXCEPT ![r] = x] /\ UNCHANGED <<export, source, tasks, store>>
      /\ old.pc = "claimed" /\ old.task = export.task
      /\ pc = "frozen" => export.snapshot # None
  BY DEF Look, SealInv, RunnersFit
<1>2. /\ m \in Contents /\ export.snapshot \in {None, m} /\ pc \in {"looked", "frozen"}
      /\ export.snapshot # None => m = export.snapshot
  BY DEF Manifest, SealInv, StoreFits, RowsFit, Export
<1>3. old \in Worker /\ old.task \in Tasks
  BY <1>1 DEF SealInv, RunnersFit, RunnerFits
<1> HIDE DEF old, m, pc
<1>4. x \in Worker /\ x.pc = pc /\ x.task = old.task /\ x.manifest = m
  BY <1>2, <1>3 DEF Worker
<1> HIDE DEF x
<1>5. Tasks' = Tasks
  BY <1>1 DEF Tasks
<1>6. worker'[r] = x
  BY <1>1, <1>4, RunnerBecomes DEF SealInv
<1>7. RunnerFits(r)'
  BY <1>1, <1>2, <1>3, <1>4, <1>5, <1>6 DEF RunnerFits
<1>8. \A q \in Runners : worker'[q] = worker[q] => RunnerFits(q)'
  BY <1>1, <1>5, RunnersRemember
<1>9. RunnersFit'
  BY <1>1, <1>4, <1>7, <1>8, SlotMoves DEF SealInv
<1>10. RowsFit'
  BY <1>1 DEF SealInv, RowsFit, ExportFollowsTask, Tasks
<1> QED BY <1>1, <1>9, <1>10, SealStays DEF SealInv, StoreFits

LEMMA FreezeKeeps ==
  ASSUME SealInv, NEW r \in Runners, Freeze(r)
  PROVE  SealInv'
<1> DEFINE old == export
           m == worker[r].manifest
           new == [old EXCEPT !.status = "processing", !.snapshot = m]
           w == worker[r]
           x == [w EXCEPT !.pc = "frozen"]
<1>1. /\ export' = new /\ worker' = [worker EXCEPT ![r] = x] /\ UNCHANGED <<source, tasks, store>>
      /\ old.status = "queued" /\ old.task = w.task /\ w.pc = "looked"
  BY DEF Freeze, Marked, SealInv, RunnersFit
<1>2. /\ m \in Contents /\ old.snapshot \in {None, m} /\ w \in Worker /\ w.task \in Tasks
      /\ old \in Export /\ w.manifest = m
  BY <1>1 DEF SealInv, RunnersFit, RunnerFits, RowsFit
<1>3. m # None
  BY <1>2, ExportAssumption DEF Contents
<1> HIDE DEF old, m, w
<1>4. /\ new \in Export /\ new.status = "processing" /\ new.snapshot = m
      /\ new.task = old.task /\ new.columns = old.columns /\ new.seal = old.seal
  BY <1>2 DEF Export
<1>5. /\ x \in Worker /\ x.pc = "frozen" /\ x.task = w.task /\ x.manifest = m
  BY <1>2 DEF Worker
<1> HIDE DEF new, x
<1>6. Tasks' = Tasks
  BY <1>1 DEF Tasks
<1>7. RowsFit'
  BY <1>1, <1>3, <1>4, <1>6 DEF SealInv, RowsFit, ExportFollowsTask, Live, old
<1>8. \A q \in Runners : worker'[q] = worker[q] => RunnerFits(q)'
  <2> SUFFICES ASSUME NEW q \in Runners, worker'[q] = worker[q]
               PROVE  RunnerFits(q)'
    OBVIOUS
  <2>1. RunnerFits(q)
    BY DEF SealInv, RunnersFit
  <2>2. \A v, k, h : Stored(v, k, h) => Stored(v, k, h)'
    BY <1>1 DEF Stored
  <2>3. worker[q].pc \in {"frozen", "output", "uploaded"} => worker[q].manifest = m
    BY <1>2, <1>3, <2>1, ExportAssumption DEF RunnerFits, old, Contents
  <2> QED BY <1>1, <1>4, <1>6, <2>1, <2>2, <2>3 DEF RunnerFits
<1>9. worker'[r] = x
  BY <1>1, <1>5, RunnerBecomes DEF SealInv
<1>10. RunnerFits(r)'
  BY <1>1, <1>2, <1>4, <1>5, <1>6, <1>9 DEF RunnerFits
<1>11. RunnersFit'
  BY <1>1, <1>5, <1>8, <1>10, SlotMoves DEF SealInv
<1>12. CompletedVerifies'
  BY <1>1, <1>4 DEF CompletedVerifies
<1> QED BY <1>1, <1>7, <1>11, <1>12 DEF SealInv, StoreFits
-----------------------------------------------------------------------------
(* An upload leaves what is there and returns a version with these bytes.  *)
LEMMA PutStores ==
  ASSUME StoreFits, NEW o \in Object, NEW v \in 1..MaxObjects, Puts(o, v)
  PROVE  /\ store' \in Seq(Object) /\ Len(store') <= MaxObjects
         /\ v \in DOMAIN store' /\ store'[v] = o
         /\ \A w \in DOMAIN store : w \in DOMAIN store' /\ store'[w] = store[w]
<1>1. CASE UNCHANGED store /\ LastVersion(o, v)
  BY <1>1 DEF StoreFits, LastVersion
<1>2. CASE Len(store) < MaxObjects /\ v = Len(store) + 1 /\ store' = Append(store, o)
  <2>1. store \in Seq(Object) /\ Len(store) \in Nat /\ MaxObjects \in Nat
    BY LenProperties, ExportAssumption DEF StoreFits
  <2>2. /\ store' \in Seq(Object) /\ Len(store') = Len(store) + 1 /\ store'[v] = o
        /\ \A w \in 1..Len(store) : store'[w] = store[w]
        /\ DOMAIN store = 1..Len(store) /\ DOMAIN store' = 1..(Len(store) + 1)
    BY <1>2, <2>1, AppendProperties, LenProperties
  <2> QED BY <1>2, <2>1, <2>2
<1> QED BY <1>1, <1>2 DEF Puts

LEMMA StoreGrows ==
  ASSUME SealInv, UNCHANGED <<export, source, tasks>>,
         store' \in Seq(Object), Len(store') <= MaxObjects,
         \A w \in DOMAIN store : w \in DOMAIN store' /\ store'[w] = store[w]
  PROVE  /\ RowsFit' /\ StoreFits' /\ CompletedVerifies' /\ Tasks' = Tasks
         /\ \A q \in Runners : worker'[q] = worker[q] => RunnerFits(q)'
         /\ \A a, k, h : Stored(a, k, h) => Stored(a, k, h)'
<1>1. \A a, k, h : Stored(a, k, h) => Stored(a, k, h)'
  BY DEF Stored
<1>2. CompletedVerifies'
  BY <1>1 DEF SealInv, CompletedVerifies, Verified
<1>3. RowsFit' /\ StoreFits' /\ Tasks' = Tasks
  BY DEF SealInv, RowsFit, StoreFits, ExportFollowsTask, Tasks
<1>4. ASSUME NEW q \in Runners, worker'[q] = worker[q]
      PROVE  RunnerFits(q)'
  <2>1. RunnerFits(q)
    BY DEF SealInv, RunnersFit
  <2> QED BY <1>1, <1>3, <1>4, <2>1 DEF RunnerFits
<1> QED BY <1>1, <1>2, <1>3, <1>4

LEMMA UploadOutputKeeps ==
  ASSUME SealInv, NEW r \in Runners, UploadOutput(r)
  PROVE  SealInv'
<1>1. PICK v \in 1..MaxObjects :
        /\ Puts(Rendered(r), v)
        /\ worker' = [worker EXCEPT ![r].pc = "output", ![r].output = v]
  BY DEF UploadOutput
<1> DEFINE old == worker[r]
           x == [old EXCEPT !.pc = "output", !.output = v]
           o == Rendered(r)
<1>2. worker' = [worker EXCEPT ![r] = x] /\ UNCHANGED <<export, source, tasks>>
  BY <1>1 DEF UploadOutput, SealInv, RunnersFit
<1>3. /\ old \in Worker /\ old.task \in Tasks /\ old.manifest \in Contents
      /\ old.manifest = export.snapshot /\ old.pc = "frozen"
  BY DEF UploadOutput, SealInv, RunnersFit, RunnerFits
<1>4. o \in Object /\ o = [kind |-> "output", content |-> old.manifest]
  BY <1>3 DEF Object, Rendered
<1> HIDE DEF o, old
<1>5. /\ store' \in Seq(Object) /\ Len(store') <= MaxObjects
      /\ v \in DOMAIN store' /\ store'[v] = o
      /\ \A w \in DOMAIN store : w \in DOMAIN store' /\ store'[w] = store[w]
  BY <1>1, <1>4, PutStores DEF SealInv, o
<1>6. /\ RowsFit' /\ StoreFits' /\ CompletedVerifies' /\ Tasks' = Tasks
      /\ \A q \in Runners : worker'[q] = worker[q] => RunnerFits(q)'
  BY <1>2, <1>5, StoreGrows
<1>7. v \in 0..MaxObjects
  OBVIOUS
<1>8. x \in Worker /\ x.pc = "output" /\ x.output = v /\ x.task = old.task /\ x.manifest = old.manifest
  BY <1>3, <1>7 DEF Worker
<1> HIDE DEF x
<1>9. worker'[r] = x
  BY <1>2, <1>8, RunnerBecomes DEF SealInv
<1>10. RunnerFits(r)'
  BY <1>2, <1>3, <1>4, <1>5, <1>6, <1>8, <1>9 DEF RunnerFits, Stored
<1> QED BY <1>2, <1>6, <1>8, <1>10, SlotMoves DEF SealInv

LEMMA UploadManifestKeeps ==
  ASSUME SealInv, NEW r \in Runners, UploadManifest(r)
  PROVE  SealInv'
<1> DEFINE old == worker[r]
           o == [kind |-> "manifest", content |-> old.manifest]
<1>1. PICK v \in 1..MaxObjects :
        /\ Puts(o, v)
        /\ worker' = [worker EXCEPT ![r].pc = "uploaded", ![r].object = v]
  BY DEF UploadManifest
<1> DEFINE x == [old EXCEPT !.pc = "uploaded", !.object = v]
<1>2. worker' = [worker EXCEPT ![r] = x] /\ UNCHANGED <<export, source, tasks>>
  BY <1>1 DEF UploadManifest, SealInv, RunnersFit
<1>3. /\ old \in Worker /\ old.task \in Tasks /\ old.manifest \in Contents
      /\ old.manifest = export.snapshot /\ old.pc = "output"
      /\ Stored(old.output, "output", old.manifest)
  BY DEF UploadManifest, SealInv, RunnersFit, RunnerFits
<1>4. o \in Object
  BY <1>3 DEF Object
<1> HIDE DEF old
<1>5. /\ store' \in Seq(Object) /\ Len(store') <= MaxObjects
      /\ v \in DOMAIN store' /\ store'[v] = o
      /\ \A w \in DOMAIN store : w \in DOMAIN store' /\ store'[w] = store[w]
  BY <1>1, <1>4, PutStores DEF SealInv
<1>6. /\ RowsFit' /\ StoreFits' /\ CompletedVerifies' /\ Tasks' = Tasks
      /\ \A q \in Runners : worker'[q] = worker[q] => RunnerFits(q)'
      /\ \A a, k, h : Stored(a, k, h) => Stored(a, k, h)'
  BY <1>2, <1>5, StoreGrows
<1>7. v \in 0..MaxObjects
  OBVIOUS
<1>8. /\ x \in Worker /\ x.pc = "uploaded" /\ x.object = v /\ x.task = old.task
      /\ x.manifest = old.manifest /\ x.output = old.output
  BY <1>3, <1>7 DEF Worker
<1> HIDE DEF x
<1>9. worker'[r] = x
  BY <1>2, <1>8, RunnerBecomes DEF SealInv
<1>10. /\ v \in DOMAIN store' /\ store'[v] = [kind |-> "manifest", content |-> old.manifest]
       /\ old.output \in DOMAIN store'
       /\ store'[old.output] = [kind |-> "output", content |-> old.manifest]
  BY <1>3, <1>5 DEF Stored
<1>11. RunnerFits(r)'
  BY <1>2, <1>3, <1>6, <1>8, <1>9, <1>10 DEF RunnerFits, Stored
<1> QED BY <1>2, <1>6, <1>8, <1>11, SlotMoves DEF SealInv
-----------------------------------------------------------------------------
LEMMA SealKeeps ==
  ASSUME SealInv, NEW r \in Runners, Seal(r)
  PROVE  SealInv'
<1> DEFINE old == export
           w == worker[r]
           t == w.task
           c == [snapshot |-> old.snapshot,
                 outputHash |-> w.manifest, output |-> w.output,
                 manifestHash |-> w.manifest, manifest |-> w.object]
           new == [old EXCEPT !.status = "completed", !.columns = c, !.seal = c]
           y == Moved("completed")
<1>1. /\ export' = new /\ tasks' = [tasks EXCEPT ![t] = y] /\ Stops(r)
      /\ UNCHANGED <<source, store>>
      /\ w.pc = "uploaded" /\ old.status = "processing" /\ old.task = t
  BY DEF Seal, ArtifactsOf
<1>2. /\ old \in Export /\ t \in Tasks /\ w.manifest \in Contents /\ w.manifest = old.snapshot
      /\ Stored(w.output, "output", w.manifest) /\ Stored(w.object, "manifest", w.manifest)
  BY <1>1 DEF SealInv, RowsFit, RunnersFit, RunnerFits
<1>3. w.output \in 1..MaxObjects /\ w.object \in 1..MaxObjects
  <2>1. /\ store \in Seq(Object) /\ Len(store) \in Nat /\ Len(store) <= MaxObjects
        /\ DOMAIN store = 1..Len(store) /\ MaxObjects \in Nat
    BY LenProperties, ExportAssumption DEF SealInv, StoreFits
  <2>2. w.output \in DOMAIN store /\ w.object \in DOMAIN store
    BY <1>2 DEF Stored
  <2> QED BY <2>1, <2>2
<1>4. y \in Task /\ y.status = "completed"
  BY MovedFits
<1>5. c \in Artifacts /\ c # None
  BY <1>2, <1>3, NullAssumption DEF Artifacts
<1> HIDE DEF old, w, y
<1>6. /\ Stored(c.output, "output", c.outputHash) /\ Stored(c.manifest, "manifest", c.manifestHash)
      /\ c.snapshot = old.snapshot /\ c.manifestHash = old.snapshot
  BY <1>2
<1> HIDE DEF c
<1>7. /\ new \in Export /\ new.status = "completed" /\ new.columns = c /\ new.seal = c
      /\ new.task = old.task /\ new.snapshot = old.snapshot
  BY <1>2, <1>5 DEF Export
<1> HIDE DEF new
<1>8. /\ tasks' \in Seq(Task) /\ Len(tasks') = Len(tasks) /\ Tasks' = Tasks
      /\ tasks'[t] = y /\ \A u \in Tasks \ {t} : tasks'[u] = tasks[u]
  BY <1>1, <1>2, <1>4, TaskBecomes DEF SealInv
<1>9. ExportFollowsTask'
  BY <1>1, <1>4, <1>5, <1>7, <1>8 DEF SealInv, RowsFit, ExportFollowsTask, Live, old
<1>10. RowsFit'
  BY <1>1, <1>2, <1>7, <1>8, <1>9 DEF SealInv, RowsFit, old
<1>11. CompletedVerifies'
  BY <1>1, <1>5, <1>6, <1>7 DEF CompletedVerifies, Verified, Stored
<1>12. \A q \in Runners : worker'[q] = worker[q] => RunnerFits(q)'
  BY <1>1, <1>7, <1>8, RunnersRemember DEF old
<1>13. RunnersFit'
  BY <1>1, <1>12, SlotFreed DEF SealInv
<1> QED BY <1>1, <1>10, <1>11, <1>13 DEF SealInv, StoreFits
-----------------------------------------------------------------------------
(* A live task that ends or is queued again, whoever does it.              *)
LEMMA TaskMoves ==
  ASSUME SealInv, NEW t \in Tasks, tasks[t].status \in Live,
         Requeues(t) \/ Ends(t, "failed") \/ Ends(t, "cancelled"), UNCHANGED <<source, store>>
  PROVE  /\ RowsFit' /\ StoreFits' /\ CompletedVerifies'
         /\ export'.snapshot = export.snapshot /\ export'.columns = export.columns
         /\ \A q \in Runners : worker'[q] = worker[q] => RunnerFits(q)'
<1>1. /\ RowsFit' /\ Tasks' = Tasks
      /\ export'.snapshot = export.snapshot /\ export'.columns = export.columns
      /\ export' = export \/ export'.status = "failed"
  <2>1. CASE Requeues(t)
    <3>1. Moved("queued") \in Task /\ Moved("queued").status \in Live
      BY MovedFits DEF Live
    <3> QED BY <2>1, <3>1, StaysLive DEF Requeues, SealInv
  <2>2. ASSUME NEW s \in {"failed", "cancelled"}, Ends(t, s)
        PROVE  /\ RowsFit' /\ Tasks' = Tasks
               /\ export'.snapshot = export.snapshot /\ export'.columns = export.columns
               /\ export'.status = "failed"
    BY <2>2, EndsTogether DEF SealInv
  <2> QED BY <2>1, <2>2
<1>2. export'.seal = export.seal
  BY <1>1 DEF RowsFit, SealInv
<1>3. CompletedVerifies'
  BY <1>1, <1>2, SealStays DEF SealInv
<1>4. \A q \in Runners : worker'[q] = worker[q] => RunnerFits(q)'
  BY <1>1, RunnersRemember
<1> QED BY <1>1, <1>3, <1>4 DEF SealInv, StoreFits

(* The task of a slot that is at work.                                     *)
LEMMA SettleMoves ==
  ASSUME SealInv, NEW r \in Runners, Settle(r)
  PROVE  LET t == worker[r].task
         IN /\ t \in Tasks /\ tasks[t].status \in Live
            /\ Requeues(t) \/ Ends(t, "failed") \/ Ends(t, "cancelled")
  BY DEF Settle, StatusOf, Live, SealInv, RunnersFit, RunnerFits

LEMMA SettleKeeps ==
  ASSUME SealInv, NEW r \in Runners, Settle(r)
  PROVE  SealInv' /\ export'.snapshot = export.snapshot /\ export'.columns = export.columns
<1>1. UNCHANGED <<source, store>> /\ Stops(r)
  BY DEF Settle
<1>2. /\ RowsFit' /\ StoreFits' /\ CompletedVerifies'
      /\ export'.snapshot = export.snapshot /\ export'.columns = export.columns
      /\ \A q \in Runners : worker'[q] = worker[q] => RunnerFits(q)'
  BY <1>1, SettleMoves, TaskMoves
<1>3. RunnersFit'
  BY <1>1, <1>2, SlotFreed DEF SealInv
<1> QED BY <1>2, <1>3 DEF SealInv

LEMMA LeavesKeeps ==
  ASSUME SealInv, NEW r \in Runners, Leaves(r)
  PROVE  SealInv'
<1>1. UNCHANGED <<export, source, tasks, store>> /\ Stops(r)
  BY DEF Leaves
<1>2. Tasks' = Tasks
  BY <1>1 DEF Tasks
<1>3. \A q \in Runners : worker'[q] = worker[q] => RunnerFits(q)'
  BY <1>1, <1>2, RunnersRemember
<1>4. RunnersFit'
  BY <1>1, <1>3, SlotFreed DEF SealInv
<1> QED BY <1>1, <1>4, SealStays DEF SealInv, RowsFit, StoreFits, ExportFollowsTask, Tasks

LEMMA ReapKeeps ==
  ASSUME SealInv, NEW t \in Tasks, Reap(t)
  PROVE  SealInv' /\ export'.snapshot = export.snapshot /\ export'.columns = export.columns
<1>1. /\ UNCHANGED <<source, store, worker>> /\ tasks[t].status \in Live
      /\ Requeues(t) \/ Ends(t, "failed") \/ Ends(t, "cancelled")
  BY DEF Reap, Live
<1>2. /\ RowsFit' /\ StoreFits' /\ CompletedVerifies'
      /\ export'.snapshot = export.snapshot /\ export'.columns = export.columns
      /\ \A q \in Runners : worker'[q] = worker[q] => RunnerFits(q)'
  BY <1>1, TaskMoves
<1> QED BY <1>1, <1>2 DEF SealInv, RunnersFit

LEMMA RequestCancelKeeps ==
  ASSUME SealInv, NEW t \in Tasks, RequestCancel(t)
  PROVE  SealInv' /\ export'.snapshot = export.snapshot /\ export'.columns = export.columns
<1>1. UNCHANGED <<source, store, worker>>
  BY DEF RequestCancel
<1>2. CASE tasks[t].status = "queued" /\ Ends(t, "cancelled")
  <2>1. /\ RowsFit' /\ StoreFits' /\ CompletedVerifies'
        /\ export'.snapshot = export.snapshot /\ export'.columns = export.columns
        /\ \A q \in Runners : worker'[q] = worker[q] => RunnerFits(q)'
    BY <1>1, <1>2, TaskMoves DEF Live
  <2> QED BY <1>1, <2>1 DEF SealInv, RunnersFit
<1>3. CASE /\ tasks[t].status = "processing" /\ UNCHANGED export
           /\ tasks' = [tasks EXCEPT ![t].status = "cancelling"]
  <2> DEFINE old == tasks[t]
             x == [old EXCEPT !.status = "cancelling"]
  <2>1. /\ old \in Task /\ tasks' = [tasks EXCEPT ![t] = x]
    BY <1>3 DEF SealInv, RowsFit, Tasks
  <2> HIDE DEF old
  <2>2. x \in Task /\ x.status \in Live
    BY <2>1 DEF Task, Live
  <2> HIDE DEF x
  <2>3. tasks[t].status \in Live
    BY <1>3 DEF Live
  <2>4. RowsFit' /\ Tasks' = Tasks
    BY <1>3, <2>1, <2>2, <2>3, StaysLive DEF SealInv
  <2>5. CompletedVerifies'
    BY <1>1, <1>3, SealStays DEF SealInv
  <2>6. \A q \in Runners : worker'[q] = worker[q] => RunnerFits(q)'
    BY <1>1, <1>3, <2>4, RunnersRemember
  <2> QED BY <1>1, <1>3, <2>4, <2>5, <2>6 DEF SealInv, RunnersFit, StoreFits
<1> QED BY <1>2, <1>3 DEF RequestCancel

(* A retry adds a task that no attempt knows.                              *)
LEMMA RetryKeeps ==
  ASSUME SealInv, NEW t \in Tasks, Retry(t)
  PROVE  SealInv' /\ export'.snapshot = export.snapshot /\ export'.columns = export.columns
<1> DEFINE old == export
           n == Len(tasks) + 1
           new == [old EXCEPT !.status = "queued", !.task = n]
           y == Moved("queued")
<1>1. /\ export' = new /\ tasks' = Append(tasks, y) /\ UNCHANGED <<source, store, worker>>
      /\ Len(tasks) < MaxTasks /\ tasks[t].status = "failed"
      /\ old.status = "failed" /\ old.task = t
  BY DEF Retry
<1>2. /\ old \in Export /\ tasks \in Seq(Task) /\ y \in Task /\ y.status = "queued"
  BY MovedFits DEF SealInv, RowsFit
<1>3. Len(tasks) \in Nat /\ n \in 1..MaxTasks /\ n \notin Tasks
  BY <1>1, <1>2, LenProperties, ExportAssumption DEF Tasks
<1> HIDE DEF old, y
<1>4. /\ new \in Export /\ new.status = "queued" /\ new.task = n /\ new.snapshot = old.snapshot
      /\ new.columns = old.columns /\ new.seal = old.seal
  BY <1>2, <1>3 DEF Export
<1> HIDE DEF new
<1>5. /\ tasks' \in Seq(Task) /\ Len(tasks') = n /\ tasks'[n] = y
      /\ \A u \in Tasks : tasks'[u] = tasks[u]
  BY <1>1, <1>2, <1>3, AppendProperties DEF Tasks
<1>6. Tasks \subseteq Tasks' /\ Tasks' \ {n} = Tasks /\ n \in Tasks'
  BY <1>3, <1>5 DEF Tasks
<1>7. ExportFollowsTask'
  <2>1. /\ tasks[old.task].status = "failed" /\ old.seal = None
        /\ \A u \in Tasks : tasks[u].status = "failed"
    BY <1>1 DEF SealInv, RowsFit, ExportFollowsTask, old
  <2>2. \A u \in Tasks' \ {n} : tasks'[u].status = "failed"
    BY <1>5, <1>6, <2>1
  <2> QED BY <1>1, <1>2, <1>4, <1>5, <2>1, <2>2 DEF ExportFollowsTask, Live
<1>8. RowsFit'
  BY <1>1, <1>3, <1>4, <1>5, <1>6, <1>7 DEF SealInv, RowsFit, old
<1>9. \A q \in Runners : worker'[q] = worker[q] => RunnerFits(q)'
  BY <1>1, <1>3, <1>4, <1>6, RunnersRemember DEF old
<1>10. CompletedVerifies'
  BY <1>1, <1>4 DEF CompletedVerifies
<1> QED BY <1>1, <1>4, <1>8, <1>9, <1>10 DEF SealInv, RunnersFit, StoreFits, old

LEMMA EditSourceKeeps ==
  ASSUME SealInv, EditSource
  PROVE  SealInv'
<1>1. source' \in Contents /\ UNCHANGED <<export, tasks, store, worker>>
  BY ExportAssumption DEF EditSource, SealInv, StoreFits, Contents
<1>2. RowsFit' /\ CompletedVerifies'
  BY <1>1 DEF SealInv, RowsFit, ExportFollowsTask, Tasks, CompletedVerifies, Verified, Stored
<1>3. RunnersFit'
  BY <1>1 DEF SealInv, RunnersFit, RunnerFits, Tasks, Stored
<1> QED BY <1>1, <1>2, <1>3 DEF SealInv, StoreFits
-----------------------------------------------------------------------------
LEMMA SealInvStarts == Init => SealInv
<1> SUFFICES ASSUME Init PROVE SealInv
  OBVIOUS
<1> DEFINE y == Moved("queued")
<1>1. y \in Task /\ y.status = "queued" /\ tasks = <<y>>
  BY MovedFits DEF Init
<1> HIDE DEF y
<1>2. tasks \in Seq(Task) /\ Len(tasks) = 1 /\ tasks[1] = y /\ Tasks = {1}
  BY <1>1 DEF Tasks
<1>3. export \in Export /\ export.task = 1 /\ export.columns = export.seal
  BY ExportAssumption DEF Init, Export
<1>4. ExportFollowsTask /\ export.status = "queued"
  BY <1>1, <1>2 DEF Init, ExportFollowsTask, Live
<1>5. RowsFit
  BY <1>2, <1>3, <1>4, ExportAssumption DEF RowsFit
<1>6. StoreFits
  BY ExportAssumption DEF Init, StoreFits, Contents
<1>7. RunnersFit
  BY FreeFits DEF Init, RunnersFit, RunnerFits
<1> QED BY <1>4, <1>5, <1>6, <1>7 DEF SealInv, CompletedVerifies

LEMMA SealInvKept == SealInv /\ [Next]_vars => SealInv'
<1> SUFFICES ASSUME SealInv, [Next]_vars PROVE SealInv'
  OBVIOUS
<1>1. ASSUME NEW r \in Runners, Work(r) PROVE SealInv'
  BY <1>1, ClaimKeeps, LookKeeps, FreezeKeeps, UploadOutputKeeps, UploadManifestKeeps,
     SealKeeps, SettleKeeps, LeavesKeeps DEF Work
<1>2. ASSUME NEW t \in Tasks, Reap(t) \/ RequestCancel(t) \/ Retry(t) PROVE SealInv'
  BY <1>2, ReapKeeps, RequestCancelKeeps, RetryKeeps
<1>3. CASE EditSource
  BY <1>3, EditSourceKeeps
<1>4. CASE UNCHANGED vars
  BY <1>4 DEF vars, SealInv, RowsFit, StoreFits, RunnersFit, RunnerFits, ExportFollowsTask,
     CompletedVerifies, Verified, Stored, Tasks
<1> QED BY <1>1, <1>2, <1>3, <1>4 DEF Next

THEOREM SealInvHolds == Spec => []SealInv
  BY SealInvStarts, SealInvKept, PTL DEF Spec

(* The variables have their types, and a processed export has a snapshot.  *)
THEOREM TypeCorrect == Spec => []TypeOK
<1>1. SealInv => TypeOK
  BY DEF SealInv, RowsFit, StoreFits, RunnersFit, TypeOK
<1> QED BY <1>1, SealInvHolds, PTL

(* Every completed export verifies: its row and its seal agree and name    *)
(* object versions that are in the store, rendered from its snapshot.      *)
THEOREM CompletedVerifiesHolds == Spec => []CompletedVerifies
<1>1. SealInv => CompletedVerifies
  BY DEF SealInv
<1> QED BY <1>1, SealInvHolds, PTL

(* The export and its task never disagree, whoever ends the task.          *)
THEOREM ExportFollowsTaskHolds == Spec => []ExportFollowsTask
<1>1. SealInv => ExportFollowsTask
  BY DEF SealInv, RowsFit
<1> QED BY <1>1, SealInvHolds, PTL
-----------------------------------------------------------------------------
(* The two variables of FrozenExport, as FrozenSpec maps them.             *)
Snapshot == export.snapshot
Published == IF export.columns = None THEN None ELSE store[export.columns.output].content

Hidden == Snapshot' = Snapshot /\ Published' = Published

(* What is published is in the store, where versions are only added.       *)
LEMMA PutHides ==
  ASSUME SealInv, NEW o \in Object, NEW v \in 1..MaxObjects, Puts(o, v), export' = export
  PROVE  Hidden
<1>1. \A w \in DOMAIN store : w \in DOMAIN store' /\ store'[w] = store[w]
  BY PutStores DEF SealInv
<1>2. export.columns # None => export.columns.output \in DOMAIN store
  BY DEF SealInv, RowsFit, ExportFollowsTask, CompletedVerifies, Verified, Stored
<1> QED BY <1>1, <1>2 DEF Hidden, Snapshot, Published

LEMMA UploadsHide ==
  ASSUME SealInv, NEW r \in Runners, UploadOutput(r) \/ UploadManifest(r)
  PROVE  Hidden
<1>1. worker[r].manifest \in Contents
  BY DEF UploadOutput, UploadManifest, SealInv, RunnersFit, RunnerFits
<1>2. Rendered(r) \in Object /\ [kind |-> "manifest", content |-> worker[r].manifest] \in Object
  BY <1>1 DEF Rendered, Object
<1> QED BY <1>2, PutHides DEF UploadOutput, UploadManifest

(* The first attempt to freeze maps to Freeze, one that finds a snapshot   *)
(* to a stutter.                                                           *)
LEMMA FreezeFreezes ==
  ASSUME SealInv, NEW r \in Runners, Freeze(r)
  PROVE  \/ Snapshot = None /\ Snapshot' \in Contents /\ Published' = Published
         \/ Hidden
<1> DEFINE m == worker[r].manifest
<1>1. /\ export' = [export EXCEPT !.status = "processing", !.snapshot = m] /\ store' = store
      /\ export.status = "queued" /\ export.task = worker[r].task /\ worker[r].pc = "looked"
  BY DEF Freeze, Marked
<1>2. /\ m \in Contents /\ export.snapshot \in {None, m} /\ export \in Export
  BY <1>1 DEF SealInv, RunnersFit, RunnerFits, RowsFit
<1>3. export'.snapshot = m /\ export'.columns = export.columns
  BY <1>1, <1>2 DEF Export
<1> QED BY <1>1, <1>2, <1>3 DEF Hidden, Snapshot, Published

LEMMA SealPublishes ==
  ASSUME SealInv, NEW r \in Runners, Seal(r)
  PROVE  Snapshot # None /\ Published = None /\ Published' = Snapshot /\ Snapshot' = Snapshot
<1> DEFINE c == ArtifactsOf(r)
<1>1. /\ export' = [export EXCEPT !.status = "completed", !.columns = c, !.seal = c]
      /\ store' = store /\ export.status = "processing" /\ worker[r].pc = "uploaded"
  BY DEF Seal
<1>2. /\ export \in Export /\ export.columns = None /\ export.snapshot # None
      /\ worker[r].manifest = export.snapshot
      /\ Stored(worker[r].output, "output", worker[r].manifest)
  BY <1>1 DEF SealInv, RowsFit, ExportFollowsTask, RunnersFit, RunnerFits
<1>3. SealInv' /\ export'.status = "completed"
  BY <1>1, <1>2, SealKeeps DEF Export
<1>4. export'.columns # None
  BY <1>3 DEF SealInv, CompletedVerifies, Verified
<1>5. c.output = worker[r].output
  BY DEF ArtifactsOf
<1> HIDE DEF c
<1>6. export'.snapshot = export.snapshot /\ export'.columns = c
  BY <1>1, <1>2 DEF Export
<1> QED BY <1>1, <1>2, <1>4, <1>5, <1>6 DEF Snapshot, Published, Stored

LEMMA OthersHide ==
  ASSUME SealInv, store' = store, export'.snapshot = export.snapshot, export'.columns = export.columns
  PROVE  Hidden
  BY DEF Hidden, Snapshot, Published

LEMMA StepsRefine ==
  ASSUME SealInv, [Next]_vars
  PROVE  \/ Snapshot = None /\ Snapshot' \in Contents /\ Published' = Published
         \/ Snapshot # None /\ Published = None /\ Published' = Snapshot /\ Snapshot' = Snapshot
         \/ Hidden
<1>1. CASE EditSource \/ UNCHANGED vars
  BY <1>1, OthersHide DEF EditSource, vars
<1>2. ASSUME NEW r \in Runners, Work(r)
      PROVE  \/ Snapshot = None /\ Snapshot' \in Contents /\ Published' = Published
             \/ Snapshot # None /\ Published = None /\ Published' = Snapshot /\ Snapshot' = Snapshot
             \/ Hidden
  <2>1. CASE (\E t \in Tasks : Claim(r, t)) \/ Look(r) \/ Leaves(r)
    BY <2>1, OthersHide DEF Claim, Look, Leaves
  <2>2. CASE Settle(r)
    BY <2>2, SettleKeeps, OthersHide DEF Settle
  <2> QED BY <1>2, <2>1, <2>2, FreezeFreezes, SealPublishes, UploadsHide DEF Work
<1>3. ASSUME NEW t \in Tasks, Reap(t) \/ RequestCancel(t) \/ Retry(t)
      PROVE  Hidden
  <2>1. store' = store
    BY <1>3 DEF Reap, RequestCancel, Retry
  <2>2. export'.snapshot = export.snapshot /\ export'.columns = export.columns
    BY <1>3, ReapKeeps, RequestCancelKeeps, RetryKeeps
  <2> QED BY <2>1, <2>2, OthersHide
<1> QED BY <1>1, <1>2, <1>3 DEF Next

(* The export implements FrozenExport: its content is frozen once, and     *)
(* what is published is the frozen content, once, whatever attempts fail,  *)
(* overtake each other or are retried in between.                          *)
THEOREM FrozenHolds == Spec => FrozenSpec
<1>1. Init => Frozen!Init
  BY DEF Init, Frozen!Init
<1>2. SealInv /\ [Next]_vars =>
        [Frozen!Freeze \/ Frozen!Publish]_<<export.snapshot,
             IF export.columns = None THEN None ELSE store[export.columns.output].content>>
  BY StepsRefine DEF Snapshot, Published, Hidden, Frozen!Freeze, Frozen!Publish
<1> QED BY <1>1, <1>2, SealInvHolds, PTL DEF Spec, FrozenSpec, Frozen!Spec
=============================================================================
