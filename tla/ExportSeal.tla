----------------------------- MODULE ExportSeal -----------------------------
(***************************************************************************)
(* One export, from the queued row that its request leaves to the sealed   *)
(* objects a user downloads: workers/export_worker.py,                     *)
(* services/export_service.py, _prepare_export_retry and the export hook,  *)
(* the object store they upload to and the verification of a download.     *)
(*                                                                         *)
(* A worker builds the manifest and commits it with the row ("freeze"),    *)
(* renders and uploads outside any transaction, and seals the export in    *)
(* the transaction that completes its task. Of the queue (TaskQueue) there *)
(* remain the status of a task and the runner its token belongs to; leases *)
(* are abstracted to a reaper that may come at any moment.                 *)
(***************************************************************************)
EXTENDS Naturals, Sequences

CONSTANTS Runners,    \* runner slots
          None,       \* NULL
          MaxTasks,   \* bound: tasks of the export, one per retry
          MaxSource,  \* bound: states of the source
          MaxObjects  \* bound: object versions in the store

ASSUME ExportAssumption ==
  /\ MaxTasks \in Nat \ {0} /\ MaxSource \in Nat \ {0} /\ MaxObjects \in Nat
  /\ None \notin Nat /\ None \notin Runners

VARIABLES export,  \* the row, its snapshot and its seal
          source,  \* what the manifest would be built from now
          tasks,   \* the tasks of the export
          store,   \* the versions of its objects
          worker   \* what each runner slot does

vars == <<export, source, tasks, store, worker>>

Contents == 1..MaxSource
Tasks == 1..Len(tasks)

(* An object: the rendered output of a manifest, or the manifest itself.   *)
(* The key of an object is made of its hash: one key for one content.      *)
Object == [kind : {"output", "manifest"}, content : Contents]

(* The columns of a completed export, and the same fields of its seal.     *)
Artifacts == [snapshot : Contents, outputHash : Contents, output : 1..MaxObjects,
              manifestHash : Contents, manifest : 1..MaxObjects]
ASSUME NullAssumption == None \notin Artifacts

Export == [status : {"queued", "processing", "completed", "failed"}, task : 1..MaxTasks,
           snapshot : Contents \union {None},
           columns : Artifacts \union {None}, seal : Artifacts \union {None}]

Live == {"queued", "processing", "cancelling"}
Task == [status : Live \union {"completed", "failed", "cancelled"},
         owner : Runners \union {None}]
Moved(status) == [status |-> status, owner |-> None]

Worker == [pc : {"idle", "claimed", "looked", "frozen", "output", "uploaded"},
           task : 0..MaxTasks, manifest : Contents \union {None},
           output : 0..MaxObjects, object : 0..MaxObjects]
Free == [pc |-> "idle", task |-> 0, manifest |-> None, output |-> 0, object |-> 0]

(* As create_export_trigger leaves it: the row and its task, both queued.  *)
Init == /\ export = [status |-> "queued", task |-> 1, snapshot |-> None,
                     columns |-> None, seal |-> None]
        /\ source = 1
        /\ tasks = <<Moved("queued")>>
        /\ store = <<>>
        /\ worker = [r \in Runners |-> Free]
-----------------------------------------------------------------------------
(* Names, statuses and jobs that a finalized container still refers to are *)
(* edited at any time.                                                     *)
EditSource ==
  /\ source < MaxSource
  /\ source' = source + 1
  /\ UNCHANGED <<export, tasks, store, worker>>

Claim(r, t) ==
  /\ worker[r].pc = "idle" /\ tasks[t].status = "queued"
  /\ tasks' = [tasks EXCEPT ![t] = [status |-> "processing", owner |-> r]]
  /\ worker' = [worker EXCEPT ![r].pc = "claimed", ![r].task = t]
  /\ UNCHANGED <<export, source, store>>

HasToken(r) == tasks[worker[r].task].owner = r
StatusOf(r) == tasks[worker[r].task].status
Owns(r) == HasToken(r) /\ StatusOf(r) = "processing"
Stops(r) == worker' = [worker EXCEPT ![r] = Free]

(* A snapshot that exists is used as it is; else build_export_manifest     *)
(* reads the source as it was at the first statement (REPEATABLE READ).    *)
Manifest(snapshot) == IF snapshot = None THEN source ELSE snapshot

(* The first statement of the handler's transaction.                       *)
Look(r) ==
  /\ worker[r].pc = "claimed"
  /\ export.task = worker[r].task
  /\ \/ export.status = "queued"
     \/ export.status = "processing" /\ export.snapshot # None
  /\ worker' = [worker EXCEPT ![r].manifest = Manifest(export.snapshot),
                  ![r].pc = IF export.status = "queued" THEN "looked" ELSE "frozen"]
  /\ UNCHANGED <<export, source, tasks, store>>

Marked(r) == [export EXCEPT !.status = "processing", !.snapshot = worker[r].manifest]

(* The rest of that transaction, from its UPDATE of the row to its commit. *)
(* The row is the one that was read: had it changed, PostgreSQL would not  *)
(* let this transaction update it. The token is not checked again.         *)
Freeze(r) ==
  /\ worker[r].pc = "looked"
  /\ export.status = "queued" /\ export.task = worker[r].task
  /\ export' = Marked(r)
  /\ worker' = [worker EXCEPT ![r].pc = "frozen"]
  /\ UNCHANGED <<source, tasks, store>>
-----------------------------------------------------------------------------
(* put_object_versioned: the last version of the key is used again if its  *)
(* bytes are the same; an upload that runs beside another, or cannot read  *)
(* the object, adds a version.                                             *)
LastVersion(object, v) ==
  /\ v \in DOMAIN store /\ store[v] = object
  /\ \A w \in DOMAIN store : store[w] = object => w <= v

Puts(object, v) ==
  \/ LastVersion(object, v) /\ UNCHANGED store
  \/ /\ Len(store) < MaxObjects
     /\ v = Len(store) + 1
     /\ store' = Append(store, object)

(* Bug: the payload is rendered from the source as it is by now.           *)
RenderedNow(r) ==
  [kind |-> "output", content |-> IF worker[r].manifest = None THEN None ELSE source]

(* render_payload_from_manifest.                                           *)
Rendered(r) == [kind |-> "output", content |-> worker[r].manifest]

UploadOutput(r) ==
  /\ worker[r].pc = "frozen"
  /\ \E v \in 1..MaxObjects :
       /\ Puts(Rendered(r), v)
       /\ worker' = [worker EXCEPT ![r].pc = "output", ![r].output = v]
  /\ UNCHANGED <<export, source, tasks>>

UploadManifest(r) ==
  /\ worker[r].pc = "output"
  /\ \E v \in 1..MaxObjects :
       /\ Puts([kind |-> "manifest", content |-> worker[r].manifest], v)
       /\ worker' = [worker EXCEPT ![r].pc = "uploaded", ![r].object = v]
  /\ UNCHANGED <<export, source, tasks>>

(* Bug: the version recorded is the newest of the store, not the one that  *)
(* the upload returned.                                                    *)
NewestArtifacts(r) ==
  [snapshot |-> export.snapshot,
   outputHash |-> worker[r].manifest, output |-> Len(store),
   manifestHash |-> worker[r].manifest, manifest |-> worker[r].object]

ArtifactsOf(r) ==
  [snapshot |-> export.snapshot,
   outputHash |-> worker[r].manifest, output |-> worker[r].output,
   manifestHash |-> worker[r].manifest, manifest |-> worker[r].object]

(* insert_artifact_seal, finalize_completed and the completion of the task *)
(* by the runner: one transaction, rolled back if any of them fails.       *)
Seal(r) ==
  LET t == worker[r].task
  IN /\ worker[r].pc = "uploaded"
     /\ export.status = "processing" /\ export.task = t
     /\ Owns(r)
     /\ export' = [export EXCEPT !.status = "completed", !.columns = ArtifactsOf(r),
                                 !.seal = ArtifactsOf(r)]
     /\ tasks' = [tasks EXCEPT ![t] = Moved("completed")]
     /\ Stops(r)
     /\ UNCHANGED <<source, store>>
-----------------------------------------------------------------------------
(* Bug: an export has no terminal callback.                                *)
NoHook(t) == IF t \in Tasks THEN export ELSE [export EXCEPT !.status = "failed"]

(* _make_export_terminal_hook, in the transaction that ends the task.      *)
Hooked(t) ==
  IF export.task = t /\ export.status \in {"queued", "processing"}
  THEN [export EXCEPT !.status = "failed"] ELSE export

Ends(t, status) ==
  /\ tasks' = [tasks EXCEPT ![t] = Moved(status)]
  /\ export' = Hooked(t)

Requeues(t) ==
  /\ tasks' = [tasks EXCEPT ![t] = Moved("queued")]
  /\ UNCHANGED export

(* The handler raises or sees a cancel request; _apply_terminal_outcome.   *)
Settle(r) ==
  /\ worker[r].pc # "idle" /\ HasToken(r)
  /\ \/ StatusOf(r) = "cancelling" /\ Ends(worker[r].task, "cancelled")
     \/ StatusOf(r) = "processing" /\ (Requeues(worker[r].task) \/ Ends(worker[r].task, "failed"))
  /\ Stops(r)
  /\ UNCHANGED <<source, store>>

(* A checkpoint or a CAS finds the token lost, or the process dies.        *)
Leaves(r) ==
  /\ worker[r].pc # "idle"
  /\ Stops(r)
  /\ UNCHANGED <<export, source, tasks, store>>

(* reap_expired.                                                           *)
Reap(t) ==
  /\ \/ tasks[t].status = "cancelling" /\ Ends(t, "cancelled")
     \/ tasks[t].status = "processing" /\ (Requeues(t) \/ Ends(t, "failed"))
  /\ UNCHANGED <<source, store, worker>>

(* request_cancel.                                                         *)
RequestCancel(t) ==
  /\ \/ tasks[t].status = "queued" /\ Ends(t, "cancelled")
     \/ /\ tasks[t].status = "processing"
        /\ tasks' = [tasks EXCEPT ![t].status = "cancelling"]
        /\ UNCHANGED export
  /\ UNCHANGED <<source, store, worker>>

(* create_retry and _prepare_export_retry: the same export, a new task.    *)
Retry(t) ==
  /\ Len(tasks) < MaxTasks
  /\ tasks[t].status = "failed"
  /\ export.status = "failed" /\ export.task = t
  /\ tasks' = Append(tasks, Moved("queued"))
  /\ export' = [export EXCEPT !.status = "queued", !.task = Len(tasks) + 1]
  /\ UNCHANGED <<source, store, worker>>
-----------------------------------------------------------------------------
Work(r) == \/ \E t \in Tasks : Claim(r, t)
           \/ Look(r) \/ Freeze(r) \/ UploadOutput(r) \/ UploadManifest(r)
           \/ Seal(r) \/ Settle(r) \/ Leaves(r)

Next == \/ EditSource
        \/ \E r \in Runners : Work(r)
        \/ \E t \in Tasks : Reap(t) \/ RequestCancel(t) \/ Retry(t)

Spec == Init /\ [][Next]_vars
-----------------------------------------------------------------------------
(* The variables have their types, and an export that was ever processed   *)
(* has a snapshot.                                                         *)
TypeOK ==
  /\ export \in Export
  /\ source \in Contents
  /\ tasks \in Seq(Task) /\ Len(tasks) \in 1..MaxTasks
  /\ store \in Seq(Object) /\ Len(store) <= MaxObjects
  /\ worker \in [Runners -> Worker]
  /\ export.task \in Tasks
  /\ export.status \in {"processing", "completed"} => export.snapshot # None

(* _verify_export with deep, and _prepare_download: the seal and the row   *)
(* agree, and the versions they name are in the store with these hashes.   *)
Stored(v, kind, hash) == v \in DOMAIN store /\ store[v] = [kind |-> kind, content |-> hash]
Verified ==
  /\ export.columns # None /\ export.seal = export.columns
  /\ LET c == export.columns
     IN /\ Stored(c.output, "output", c.outputHash)
        /\ Stored(c.manifest, "manifest", c.manifestHash)
        /\ c.snapshot = export.snapshot /\ c.manifestHash = export.snapshot

(* Every completed export verifies, whichever attempts uploaded before and *)
(* beside the one that sealed it.                                          *)
CompletedVerifies == export.status = "completed" => Verified

(* The row and its task never disagree for a reader: a live task has an    *)
(* export in progress and the other way round, an ended one has settled    *)
(* it, and only a completed export has a seal.                             *)
ExportFollowsTask ==
  LET status == tasks[export.task].status
  IN /\ export.status \in {"queued", "processing"} <=> status \in Live
     /\ export.status = "completed" <=> status = "completed"
     /\ export.status = "completed" <=> export.seal # None
     /\ \A t \in Tasks \ {export.task} : tasks[t].status = "failed"

(* Failures, late attempts and retries are invisible: the snapshot is      *)
(* taken once, and the object that is published was rendered from it.      *)
Frozen == INSTANCE FrozenExport
            WITH frozen <- export.snapshot,
                 published <- IF export.columns = None THEN None
                              ELSE store[export.columns.output].content
FrozenSpec == Frozen!Spec
=============================================================================
