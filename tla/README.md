# A TLA+ model of the dataset generation platform

The platform turns uploaded documents into reviewed question/answer datasets: a
document is parsed, cleaned section by section by people, split into chunks, sent
to a language model, reviewed, curated, composed into datasets and benchmarks and
exported. Every long operation is a row of the table `tasks`, executed by runner
processes that share nothing but PostgreSQL. This directory models the parts of
the back end (`src/apps/api/app`) in which that sharing can go wrong, what the
database guarantees by itself, and the broadcast of task events.

Paths below are relative to `src/apps/api/app` unless they start with `src/`.

## 1. The system and its parts

| Part | Code | State | Operations | What is hard | What makes it correct |
|---|---|---|---|---|---|
| Task queue, runner, reaper | `workers/queue.py`, `runner.py`, `execution.py`, `errors.py`, `models/task.py` | rows of `tasks` and `task_attempts`; the slot of a runner process | create, claim, heartbeat, checkpoint, publish, fail, requeue, cancel, reap | several runners, cancellation at any moment, crashes, leases and clocks | one owner per attempt, writes durable exactly on completion, limits, retries, everything ends |
| Terminal callbacks, retries | `workers/lifecycle.py`, `services/task_service.py` | business rows linked to a task; successor tasks | callback in the terminal transaction, `retry_task`, `create_retry` | order of the ends of parent and children; late attempts beside a retry | a business row ends with its task |
| Documents and jobs | `routers/documents.py`, `services/document_service.py`, `services/parse_freeze_service.py`, `workers/parse_worker.py`, `workers/clean_worker.py` | `documents`, `parse_jobs`, `cleaning_jobs`, their objects | upload, trigger, run, end, retry, delete | a late task beside its successor; a deletion beside a worker | only the task a job is bound to moves it; no row loses its objects |
| Section editing | `services/section_service.py`, `models/section.py` | section rows, leases, revisions | acquire, heartbeat, release, save, submit, review | two tabs, two editors, copies read before a lock | no save is lost, only the leaseholder writes |
| Clean versions | `services/clean_version_service.py` | versions, the active pointer | merge, final review | edits during a merge, two reviews | a version is a consistent cut, the pointer only advances |
| Chunking | `services/chunk_set_service.py`, `workers/chunk_worker.py` | chunk sets, the active pointer | create, publish, retry | the source is replaced while splitting; retries of old sets | the active set comes from the active version |
| Generation | `services/generation_service.py`, `services/generation_retry_service.py`, `workers/generate_worker.py` | batches, runs, candidates | create, poll, run, summarise, cancel, retry a part | children outlive their parent | every chunk is generated once |
| Candidates, curated items | `services/candidate_service.py`, `services/curated_item_service.py` | candidates, items, revisions, approvals | review, edit, promote, approve, withdraw | reads before compare-and-set | an approval covers the revision it was given for |
| Datasets, benchmarks | `services/composition_service.py`, `composition_policy.py` | containers, memberships, composition hash | add, remove, finalise | approvals withdrawn during finalisation | a final container holds what its reviewer confirmed |
| Exports | `services/export_trigger.py`, `services/idempotency.py`, `services/export_service.py`, `workers/export_worker.py` | exports, manifests, seals, stored objects | request, snapshot, upload, seal, verify | equal requests at once; late attempts, crash between upload and seal | frozen once, published once, what is completed verifies |
| Schema migrations | `src/apps/api/migrations` | constraints, triggers, existing rows | upgrade, downgrade | writers of an older release, data written before a constraint | bound facts survive every writer and every migration |
| Task progress | `ws/task_ws.py`, `services/task_service.py` | connections, subscription per project | connect, subscribe, broadcast, disconnect | awaits inside a broadcast | nothing is sent after a removal, the rest get everything in order |
| Authorization, accounts, configuration, monitoring | `authz.py`, `services/auth_service.py`, `services/config_service.py`, ... | single rows | create, read, update | nothing concurrent of their own | not modelled |
| Libraries, local model services | `src/libs/*`, `src/scripts` | none shared | parse, split, prompt, canonicalise, infer | sequential text and network code | not modelled |
| Front end | `src/apps/web` | sessions of browser tabs | | a client | not modelled |

How they interact: an HTTP handler writes its business rows and a `queued` task in
one transaction. Runner processes poll the table, claim a task in a transaction of
their own, run its handler with a heartbeat beside it, and commit the handler's
business writes together with the change of the task's state. The reaper, which
runs in every runner process, collects rows whose lease ran out. Whoever ends a task
otherwise calls the terminal callback of its type in the same transaction. Services
cancel a task and its children in one transaction. Redis only announces changes.

The hazards, each at its line, are listed in `PROJECT.json`; those no property
covers say why.

## 2. Modules

| Module | Contents |
|---|---|
| `TaskLifecycle` | abstract: the state graph of a task and when business writes become durable |
| `TaskQueue` | rows, attempts, claims with locks, runners, clock, cancellation, reaper, crashes; implements `TaskLifecycle` |
| `TaskQueueProofs` | the inductive invariants, the refinement, the cancellation, budget and concurrency theorems |
| `SectionEditing` | one section: leases, optimistic saves, submission, review, assignment, with the copy each session keeps |
| `SectionEditingProofs` | the inductive invariant and its theorems |
| `ActivePointer` | abstract: a pointer to a version that only advances |
| `CleanVersions` | one document: merges of its sections, final reviews, the active version; implements `ActivePointer` |
| `CleanVersionsProofs` | of `CleanVersions` the inductive invariant, its theorems and the refinement; of `DocumentJobs` the inductive invariant and its theorems |
| `ChunkSets` | one document: triggers of a split, chunk sets and their tasks, runners, cancellation, reaper, retries, the active set |
| `ChunkSetsProofs` | the inductive invariant and its theorems |
| `IdempotentRequests` | requests with an Idempotency-Key to the parse, cleaning and export endpoints, and retries of their tasks |
| `GenerationFlow` | one document: batches, child tasks, the polling parent, terminal hooks, cancellation, partial retries |
| `GenerationFlowProofs` | the inductive invariant and its theorems |
| `Curation` | candidates, curated items, approvals and one dataset or benchmark |
| `CurationProofs` | the inductive invariants of `Curation` and of `SchemaMigrations` and their theorems |
| `FrozenExport` | abstract: a content that is frozen once and published once |
| `ExportSeal` | one export: snapshot, rendering, versioned uploads, seal, late attempts and retries; implements `FrozenExport` |
| `ExportSealProofs` | the inductive invariant, its theorems and the refinement |
| `DocumentJobs` | one document from upload to deletion with its parse and cleaning jobs, their tasks and their objects |
| `SchemaMigrations` | the constraints and triggers of t09 to t11 under any writer, and the migrations up and down |
| `TaskBroadcast` | the connections of one project, its Redis subscription and the rounds of a broadcast |
| `TaskBroadcastProofs` | the inductive invariants of `TaskBroadcast` and of `IdempotentRequests` and their theorems |
| `MC_*` | instances for TLC of the module that the name ends with |

A module of proofs extends every module it is about. Three of them are about two, which
therefore name their specifications apart: `DocumentSpec`, `SchemaSpec` and
`RequestSpec` beside the `Spec` of `CleanVersions`, `Curation` and `TaskBroadcast`.

The modules meet where the code does. A handler's part of the queue is `TaskQueue`;
`ChunkSets`, `GenerationFlow`, `ExportSeal` and `DocumentJobs` keep of it the status
of a row and the runner its token belongs to, and let a reaper come at any moment,
which contains every timing of leases `TaskQueue` allows (`KeepsLifecycle`, proved in
`ChunkSetsProofs`, says that these steps are edges of the graph that `TaskQueue`
implements). `IdempotentRequests` ends where a task and its job are committed; what
becomes of a parse or cleaning job is `DocumentJobs`, of an export `ExportSeal`.
`CleanVersions` takes from `SectionEditing` that a section's text is determined by its
revision (`RevisionChain`) and that a save waits for the row lock; `ChunkSets` takes
the clean versions as the pointer of `ActivePointer`. `SchemaMigrations` is the other
half of `Curation` and `ExportSeal`: these say what the present services write, it
says what the database accepts from anybody.

### TaskQueue: state and actions against the code

| TLA+ | Code |
|---|---|
| `task[t]`: `status`, `version`, `token`, `lease`, `nextRun` | `Task.status`, `state_version`, `run_token`, `lease_expires_at`, `next_run_at` |
| `attempts[t][n]` | `TaskAttempt.status` of attempt number `n` |
| `committed[t]` | what the handler's session wrote, once its transaction committed |
| `runner[r]`: `pc`, `rows`, `policyLocks`, `todo`, `age` | one slot of a `TaskRunner`, the row and advisory locks of its open transaction, and how old the clock reading of the claim is |
| `runner[r]`: `task`, `token`, `version`, `deadline`, `outcome` | `ExecutionContext` and `_Outcome` |
| `CreateTask` | `TaskQueue.create_task`, and for a batch its children in the same transaction |
| `RequestCancel` | `TaskQueue.request_cancel` with `_mark_cancelling` |
| `ClaimSelect`, `ClaimConsider`, `ClaimNothing`, `ClaimCommit` | the statements of `claim_due` and the commit of `_claim_and_execute` |
| `ExecStart` | first transaction of `_execute_one` |
| `Heartbeat` | `TaskQueue.heartbeat` by the loop beside the handler, or by a handler |
| `HandlerReturns`, `HandlerRaises`, `CheckpointStops` | the ways out of `wait_for(handler)` and of the gate after it |
| `Publish` | `transition` out of `processing` with the handler's writes, and its rollback when it misses |
| `ApplyOutcome` | `_apply_terminal_outcome` in a fresh transaction |
| `Crash` | death of the process, and an unexpected exception in `_execute_one` |
| `Reap` | `reap_expired` |
| `Tick` | time |

Abstractions, and why they keep what the properties tell apart:

* A run token is named by the attempt it was drawn for. `uuid4()` is fresh at each
  claim, and each claim inserts a new attempt number.
* Deadlines are stored as the ticks left until them. A comparison with the clock
  uses a reading up to `MaxLag` ticks old, because `_now()` is taken in Python
  before the statement runs.
* `ClaimCommit` has no failing branch: the row was selected `FOR UPDATE` in the
  same transaction, so the compare-and-set of `claim_due` cannot miss.
* `RequestCancel` is one step: it waits for the row locks of claims (the guard) and
  keeps the locks of the rows it changed until it commits.
* `CLAIM_BATCH` is 1, as in the runner; the order by `next_run_at` is abstracted to
  any order. The concurrency limit is a constant, although an administrator may
  edit the policy row.
* `error_code` only chooses whether a failed attempt may be retried, which is the
  choice in `HandlerRaises`. `refresh_lease` is not modelled: no handler calls it.
* The business side of a terminal task (`workers/lifecycle.py`) is not in this
  module; it runs in the transaction that ends the task.

### SectionEditing: state and actions against the code

| TLA+ | Code |
|---|---|
| `section` | the row of `sections`: `content_revision`, the text, `status`, `assignment_status`, `assigned_to` |
| `leases` | rows of `section_leases`; `left` is the time until `expires_at` |
| `history` | rows of `section_revisions` |
| `lock` | whose transaction holds the row lock of the section |
| `request[r].seen` | the object in the identity map of the request's session |
| `Receive` | a request arrives and `routers/sections.py` loads the section |
| `Acquire` | `acquire_lease`, one transaction under the row lock |
| `LeaseRead`, `LeaseWrite` | `heartbeat_lease` and `release_lease`: a SELECT without a lock, then an UPDATE |
| `EditLocks`, `EditChecks` | `SELECT ... FOR UPDATE`, `_require_lease` and the comparison of the revision |
| `SaveCommits`, `SubmitCommits` | the rest of `update_section` and `submit_for_review`, up to the commit |
| `Review`, `Assign`, `Complete`, `Return` | `review_section`, `bulk_assign` and `assign_section`, `complete_section`, `return_section` |
| `Abort` | a refusal, a broken connection or a dead process: rollback |

What makes this component hard is the identity map: `populate_existing` decides
whether a request that waited for a lock works on what it finds or on what the router
read before. `LockedCopy` is that decision. `Flush` writes only the columns that
differ from the copy, which is why late reviews and assignments do not roll a save
back. A text is named by the save that wrote it. A heartbeat may write up to `MaxAge`
ticks after it read the clock. Comments, listings and Redis are left out.

### IdempotentRequests: state and actions against the code

| TLA+ | Code |
|---|---|
| `jobs` | rows of `parse_jobs`, `cleaning_jobs` or `exports`; `retries` stands for `task_id`: the task of the last retry |
| `tasks` | rows of `tasks` of the matching type, `key` being the parts of `idempotency_key` between colons, `try` the place in the chain of `retry_of_task_id` |
| `drawn` | identifiers drawn so far, each one new |
| `request` | what a request asked for, how far it is, what it inserted and what it was answered |
| `ParseFind`, `Idempotent` | `idempotent_create_task` with `find_task_by_client_key` and `ensure_idempotency_compatible` |
| `ExportFind` | `_find_export_by_client_key` and the comparison of the fingerprint |
| `CleanLock`, `CleanFind` | the row lock of `start_cleaning` and the search for a live workbench |
| `InsertJob` | `freeze_parse_job`, `CleaningJob(...)`, `create_export_request` and their flush |
| `FindTask`, `InsertTask` | `TaskService.create_task`: its own lookup, then the INSERT under the unique constraint |
| `Commit` | the commit of the endpoint |
| `JobEnds` | the job leaves its live states together with its task |
| `Retry` | `retry_task` of the failed task of a job: `create_retry` with the client's key as it is, `bind_document_job` |

A retry of a cleaning looks for no other workbench and no index forbids one, so that
there may be two: one that failed and is retried, and one created in between
(`workbench_retried.cfg`). A request for an export that is sent again with its key after
the export was retried is refused: `_find_export_by_client_key` joins the current task
only, so a new export is inserted, and its digest differs from that of the first task.
An export's content is what its fingerprint covers (profile, revision and hash of
the source). A digest is the tuple of what is hashed. The checks an endpoint makes
before it looks at the key are preconditions of the request.

### CleanVersions: state and actions against the code

| TLA+ | Code |
|---|---|
| `revision[s]` | `Section.content_revision` of the sections of one cleaning job |
| `versions` | rows of `cleaned_document_versions` by `version`: their text as the vector of revisions, `artifact_key`, `merge_idempotency_key`, `status` |
| `active`, `cleanStatus` | `Document.active_clean_version_id` (as a version number) and `clean_status` |
| `objects` | keys in the object store |
| `locker` | the merge whose transaction holds the Document row across the upload |
| `AskMerge`, `ReadSections` | the lookup of the key and the computation without a lock |
| `LockDocument` | the Document row, the second lookup, the locked sections and the comparison |
| `Upload`, `InsertVersion`, `FlushFails` | the rest of `create_merged_version` to the commit, and its failure with the clean-up |
| `AskReview`, `FinalReview` | the router's query, and `final_review` under its two row locks |
| `AskAssign`, `Assign` | what `bulk_assign_sections` does to the Document |
| `EditSection` | a save (`SectionEditing`) |
| `Crash` | the process dies; the transaction is rolled back, what was uploaded stays |

`FinalReview` is one step because it holds the Document row throughout and does
nothing outside the database. The session keeps the version the router loaded, so
that only `populate_existing` makes `final_review` see the locked row
(`LockedStatus`); the Document is not kept by anybody before it is locked and is
read afresh, since a session refers to its objects weakly.

### ChunkSets: state and actions against the code

| TLA+ | Code |
|---|---|
| `clean`, `activeSet` | `Document.active_clean_version_id`, `active_chunk_set_id` |
| `sets` | rows of `chunk_sets` by `version`: source, composite key, `status` |
| `tasks` | the `chunk_document` rows of `tasks`: their set, `retry_of_task_id`, `attempt_count`, `status` |
| `closing[t]` | a transaction has written the task's end and waits, in the terminal callback, for the set's row |
| `run[r]` | one runner slot: the task, the attempt it was claimed for, how far the handler is |
| `StartChunk`, `LookForKey`, `ResolveVersion` | the reads of `trigger_chunk` and `resolve_clean_version`, none under a lock |
| `CreateSet` | `create_chunk_set_task` and the commit |
| `Claim`, `Settle` | `claim_due`, `_apply_terminal_outcome` |
| `Begin`, `Recheck`, `Publish` | `run_chunk_handler` up to the splitter, to the last check under the Document row, and the commit together with the task |
| `Reap`, `Cancel` | `reap_expired`, `request_cancel` |
| `Close`, `Unclose` | `_chunk_terminal` and the commit; the rollback of that transaction |
| `Retry` | `retry_task` with `create_retry` and `_prepare_chunk_retry` |
| `ReviewVersion` | another clean version is accepted |

Time and leases are abstracted: the reaper may take any task at any moment, so that
an attempt may be lost anywhere between two of its checks (`TaskQueue` has the
conditions). The status `processing` of a set is written in the transaction that
either completes the set or is rolled back, hence never seen by others. A handler
that publishes waits for its task's row while a terminal transaction waits for the
set's row: the database breaks this cycle by rolling one of them back, which is
`Unclose` or `Dies`. `Document.status`, the chunks themselves and the wording of
the answers are left out.

### GenerationFlow: state and actions against the code

| TLA+ | Code |
|---|---|
| `batches[b]`: `chunks`, `retryOf`, `status`, `done`, `summary` | rows of `generation_batches`: `frozen_chunk_ids`, the source of a retry, `status`, `completed_chunks`, `summary_json` |
| `runs[b][c]` | `GenerationRun.status`; a completed run has its candidate, inserted in the same transaction |
| `tasks[b][p]` | the parent task of the batch (`p = Parent`) or the child task of a chunk: status, and whose run token it holds |
| `ending[b][c]` | an open transaction that ends a child: it has looked for a cancelled batch and not committed |
| `worker[r]` | one runner slot: the job, how far the handler is, what a poll counted |
| `request[q]` | what a request concluded before it creates its batch |
| `Check`, `Create`, `Drop` | `trigger_generate_batch` up to the checks, its commit, its failure |
| `Retry` | `plan_retry` and the new batch; the checks hold to the commit because it locks the source |
| `Claims`, `Begin`, `Publish` | `claim_due`; `run_generate_single_handler` to the model call; the commit with the completion of the task |
| `Poll`, `PollAgain`, `FinishBatch` | `run_generate_batch_handler`: what it counts, back to the queue, or the final summary |
| `Stale`, `Dies`, `Settle` | a checkpoint that stops, a dead process, `_apply_terminal_outcome` |
| `ChildStartsEnding`, `CommitChild`, `Unend` | `_generation_terminal` of a child, its commit or rollback |
| `ParentEnds`, `BatchHook` | the hook of the parent |
| `Reap`, `CancelBatch`, `CancelChild` | `reap_expired`, `request_cancel` |

Prompts, model calls, provenance and the content of candidates are abstracted; how
many candidates a chunk yields does not matter to any decision. The single-chunk
request runs through the same `_create_batch`.

### Curation: state and actions against the code

| TLA+ | Code |
|---|---|
| `candidate[c]` | a row of `candidates`: revision, verdict, the revision reviewed; `judged` is a history variable: the revision on the reviewer's screen |
| `item[c]`, `records` | the curated item of a candidate; approve rows of `review_records` |
| `container` | one dataset or benchmark with its memberships; `confirmed` is the revision `finalize` was called with, `valid` a history variable |
| `shown` | history: what each composition revision consisted of |
| `UpdateContent`, `Review`, `Promote` | `CandidateService.update_content`, `review`, `promote_to_curated`; each holds the row |
| `UpdateItem`, `Withdraw`, `BeginApprove`, `Approve` | `CuratedItemService.update` and `review`; an approval reads, inserts its record and then updates under a condition |
| `BeginAdd`, `Add`, `RemoveMember` | `add_membership`, `remove_membership` under the container lock |
| `BeginFinalize`, `CheckMember`, `Finalize` | `finalize`: the lock, one eligibility query per member, the update |
| `Delete`, `Drop` | `delete_dataset`, a rollback |

A content is named by its revision. The hash of a composition is the set it is
computed from. Comments, evidence offsets and the listings are left out.

### ExportSeal and FrozenExport: state and actions against the code

| TLA+ | Code |
|---|---|
| `export` | the row of `exports` with its snapshot (`snapshot_manifests`), the columns of a completed export and its seal (`export_artifact_seals`) |
| `source` | what `build_export_manifest` would read now |
| `store` | object versions, in the order of their upload; a key is made of the hash of the content, so that a second upload is a new version |
| `Look`, `Freeze` | the first transaction of `_export_common`: read or build the manifest (REPEATABLE READ), commit it with `processing` |
| `UploadOutput`, `UploadManifest` | rendering and the two versioned uploads, outside any transaction |
| `Seal` | `insert_artifact_seal` and `finalize_completed` in the transaction that completes the task |
| `Settle`, `Leaves`, `Reap`, `RequestCancel`, `Retry` | the ways an attempt ends, with `_make_export_terminal_hook`, and `_prepare_export_retry` |

`FrozenExport` has two steps. The refinement maps `frozen` to the snapshot and
`published` to the content of the object the sealed columns name.

### DocumentJobs: state and actions against the code

| TLA+ | Code |
|---|---|
| `doc` | `Document.status`, whether an evidence link refers to it, which cleaning jobs were merged |
| `jobs` | rows of `parse_jobs` and `cleaning_jobs`, with the task each is bound to and the frozen profile |
| `tasks`, `worker` | as in `ExportSeal` |
| `closing[t]` | an open terminal callback with what it has read |
| `store` | objects under keys made of job and part; an upload overwrites |
| `deletion` | the deletion each client waits for, with the keys it collected |
| `UploadFile`, `InsertDocument`, `EditProfile` | `DocumentService.upload`, `ConfigService.update` |
| `TriggerParse`, `StartCleaning` | the endpoints, each up to its commit |
| `Claim`, `Start`, `UploadResults`, `Complete` | the handlers of `parse_worker.py` and `clean_worker.py` |
| `Arrives` | an upload of a thread whose handler was cancelled meanwhile |
| `EndsTask`, `CommitEnd`, `AbortEnd` | `_document_job_terminal`: what it reads, what it commits |
| `Retry` | `create_retry` with `bind_document_job` |
| `BeginDelete`, `DeleteParseJob`, `BeginDeleteDocument`, `DeleteDocument`, `GiveUp`, `RemoveObjects` | the two deletions: objects collected, rows deleted, objects removed after the commit |
| `Merge`, `Cite` | what restricts a deletion |

A handler's UPDATE to `processing` is in the transaction that completes the job or is
rolled back: nobody ever sees it, and it locks the row. A deletion and a worker that
wait for each other are resolved by the database, which rolls one back.

### SchemaMigrations: state and actions against the code

| TLA+ | Code |
|---|---|
| `version` | the revision of the schema, t08 to t11 |
| `items`, `revision`, `record`, `containers`, `member`, `export`, `snapshot`, `seal` | the rows these migrations constrain |
| `Write...` | one statement with any values; `Checks` are the CHECK, UNIQUE and FOREIGN KEY constraints of the version, `Triggers` its triggers |
| `Upgrade09` to `Upgrade11`, `Downgrade09` to `Downgrade11` | the migrations with their prechecks, back-fills and stop conditions; each one transaction |

A writer is any release of the services, of the schema's age or older, or an
operator with SQL: this is what the triggers exist for. A hash stands for its
content. Not modelled: t07 and t08 but for what they leave, columns and indexes
without data, the prechecks of t10 that name rows, and the derivation of evidence
in t09 (lines 191 to 266).

A membership may be inserted, updated in any column or deleted. `MembershipGuarded` is
the guard of t10 as it is written: it looks at `COALESCE(NEW.container, OLD.container)`, for
an UPDATE the container a row is moved to, and `Moved` says that the other trigger is
not fired by that column. A member can therefore be moved out of a finalized container,
against the sentence at t10:326 (`schema_move.cfg`); no service does it. The guard reads the status of
the container without a lock. Statements are steps of their own here, so the state keeps
what this lets through: `beside` says that a container was finalized while writes of its
members, which had read `draft`, were not committed. From then on the model lets any
write of its members pass, which is more than the database does, and the properties
except such a container.

### TaskBroadcast: state and actions against the code

| TLA+ | Code |
|---|---|
| `socket[s]` | one connection with its endpoint coroutine: how far it is, whose, whether it is gone, what was written to it |
| `removed[u]` | the number of events published before the membership ended |
| `registry`, `subscription` | `active_connections[project]`, `_subscriptions[project]` and what Redis has handed it |
| `round` | the locals of `_broadcast` |
| `Open`, `Authorize`, `Connect`, `Disconnect` | `task_websocket_endpoint`, `_authorize_ws`, `connect`, `disconnect` |
| `EndpointFails` | the endpoint ends by another exception than `WebSocketDisconnect`, without `disconnect`: a binary frame, or a text after the server's own close |
| `Listen`, `Take` | `_subscribe` |
| `Check`, `Close`, `Send`, `Finish` | the loops of `_broadcast`, one step per await |
| `Publish`, `Leave`, `RemoveUser` | Redis, the clients, an administrator |

One server process. A lost connection to Redis, which ends the subscription of a
project until its last client leaves, is not modelled.

## 3. Runs

| Run | Instance | Checks | Shows |
|---|---|---|---|
| `queue` | two runners of which one may crash; a polling batch task, tried twice, and its child that nobody can handle; one slot for both; fairness | `ConcurrencyRespected`, `RetryBudgetRespected`, `LifecycleSpec`, `CancelStopsEffects`, `EveryTaskSettles`, `SlotsComeBack` | limits, retries and cancellation hold under every interleaving, and nothing stays forever |
| `section_edit` | one request that edits and submits under leases of two ticks, one that saves, reviews, assigns or completes with an old copy; heartbeats a tick late | `RevisionChain`, `NoForeignHolder`, `SubmitHandsOver` | no save is lost, nobody writes while another holds the section |
| `clean_versions` | two requests at a time, three keys, two sections of at most one edit, three objects | `EveryTextStored`, `ActiveAdvances`, `MergedFromCurrent` | what is published is current and stored, and the active version only advances |
| `chunk_sets` | one trigger at a time with three different requests, two runners, two sets, three tasks of two attempts, two clean versions | `TaskAndSetAgree`, `PublishedFromActive` | sets and tasks end together; a set becomes active only from the active clean version |
| `requests` | two requests at a time to each endpoint, one key with two contents or no key, retries with either of two keys, three identifiers | `OneTaskButForExports`, `OneWorkbenchButForRetries` | what equal and different requests with one key, and retries, may do to each other |
| `generation` | two chunks, two runners, one request at a time, a batch and its retry or a later request | `TypeOK`, `OncePerChain`, `CompletedIsWhole`, `SummaryLists`, `NothingAfterCancel` | no chunk is generated twice in a lineage of retries, no completed batch misses one, no summary lists too little |
| `exports` | three runners, a retry, three states of the source, four object versions | `CompletedVerifies`, `ExportFollowsTask`, `FrozenSpec` | late attempts and retries never show in what is published |
| `curation` | two candidates, two requests, two revisions, three approvals, two changes of the composition | `TypeOK`, `PromotedAsReviewed`, `ApprovalsBind`, `FinalizedAsConfirmed`, `FinalizedWereApproved` | promotions, approvals and compositions are of what their reviewer saw |
| `documents` | two runners, two jobs of either kind, three tasks, two profiles, one deletion in flight | `DocumentTypeOK`, `RowsHaveObjects`, `JobFollowsTask`, `CleanedFromCompleted` | no row loses its objects, jobs end with their tasks |
| `schema` | two items, two contents, two revisions, one record; two containers, or one container and one export with one snapshot and seal | `ApprovedIsBound`, `MembersPinned`, `CompletedIsSealed`, `FactsSurvive` | no writer and no migration unbinds a settled fact |
| `broadcast` | three connections of two users, one endpoint that fails, three events | `NothingAfterRemoval`, `InSequence`, `SubscriptionMatches` | a removal takes effect on what is published after it, and disturbs nobody else |
| `export_twice` | two equal export requests at once | `SameRequestOneTask` is violated | the digest contains the identifier drawn for the request, so that both commit; `PROJECT.json`, `findings` |

**Known divergences.** The following configurations are kept beside the runs; each
shows, with `tlc -config <cfg> <module>`, something the code does against a sentence of
its own documentation, or against what a reader of it would expect.

| Configuration | Module | Violated | What happens |
|---|---|---|---|
| `section_submit.cfg` | `MC_SectionEditing` | `SubmitSeesRevision` | A save commits while a submission waits for the row lock; the submission compares the expected revision with the copy read before (`services/section_service.py:292`; `src/docs/DevLog.md:351,354`). |
| `section_assign.cfg` | `MC_SectionEditing` | `AssignKeepsProgress` | An assignment read `assigned`, an editor's first save commits `in_progress`, the assignment writes `assigned` (`services/section_service.py:370`). |
| `parse_orphan.cfg` | `MC_IdempotentRequests` | `EveryJobHasItsTask` | The second of two equal parse requests inserts its job, then finds the first one's task, and commits the job without a task (`services/task_service.py:216`, `routers/documents.py:310`). |
| `generation_summary.cfg` | `MC_GenerationFlow` | `CancelledIsSummarised` | The last child of a cancelled batch looks for the cancellation before the parent's hook commits, and the hook reads the runs before the child commits: the summary stays NULL (`workers/lifecycle.py:125`). |
| `document_restore.cfg` | `MC_DocumentJobs` | `RestoredOnlyIfIdle` | A parse is triggered between the callback's look for live parses and its write; its document is set back while it is live (`workers/lifecycle.py:69`). |
| `workbench_retried.cfg` | `MC_IdempotentRequests` | `OneWorkbench` | A cleaning fails, another is started for the same parse result, the first one's task is retried: two live workbenches (`workers/lifecycle.py:166`; `src/docs/DevLog.md:1210`). |
| `schema_move.cfg` | `MC_SchemaMigrations` | `CompositionFrozen` | An UPDATE of the container column alone moves a member of a finalized container to a draft: the guard looks at the container it is moved to (`t10_dataset_composition.py:364`), the other trigger is not fired by that column (line 316). Line 326 says that a finalized container is immutable, its memberships guarded against UPDATE. |
| `subscription_left.cfg` | `MC_TaskBroadcast` | `SubscriptionEnds` | The last endpoint of a project ends without `disconnect`: the connection stays registered and the project subscribed to, until another client joins and leaves after the next event (`ws/task_ws.py:220`). |

`GenerationFlow` also states `SucceededIsCounted` (a chunk completed between the two
counts of the final poll makes the number in a summary differ from its list) and
`OneBatchOpen` (two requests without a key both find no active batch): neither holds,
and no sentence of the code promises either.

**Bounds.** Two runners are enough for every race in the code, since each condition
compares one row with what one process remembers, and the counting race needs two
claimants; `exports` has three, because two late attempts can meet the current one.

* `queue`: a parent and a child in one group with limit 1 are the least that can
  exceed it; two attempts give a first one, a retry and an exhausted budget. A
  heartbeat lease of two ticks lets a lease be extended, run out and be collected in
  different orders. `Delay = 0`: a backoff shorter than a tick, the case in which a
  retry follows soonest. `MaxPolls`, `MaxCrashes` and the saturation of old leases
  make the state space finite.
* `section_edit`, `requests`: each decision relates what one request remembers to
  what one other has committed since, hence two requests. One operation set per
  request instead of all for both: a save of one beside everything of the other.
  Two lease rows give a lease and its successor. Three identifiers let both requests
  create and one be repeated after a job failed; retries are bounded by the keys, of
  which the second is one that a lookup for the first would find.
* `clean_versions`: three keys and objects let two concurrent merges with one key,
  and a third version, be accepted in every order.
* `chunk_sets`: three tasks are two sets and a retry, or a set retried twice; two
  attempts give one that was lost and works on beside its successor.
* `generation`: two chunks let one child succeed and one fail, end late, or be
  cancelled alone; the second batch with a single run is the retry of the other.
* `curation`: three approvals let one of two pinned approvals be withdrawn and given
  again while a finalisation is between its members.
* `documents`: two jobs are two parses, or a parse and its cleaning; three tasks add
  a retry; two profiles let it change between request and execution.
* `schema`: two items, so that a record or a revision of one can be used for the other;
  two containers, so that a member can be moved; the other tables have one row that may
  be written any number of times. A state constraint (`Apart`) keeps the second container
  and the rows of exports apart: no constraint, trigger or migration relates a member
  to an export, whose source is only required to exist.
* `broadcast`: three connections, so that one is refused, one drops and one joins in
  one round, or one fails while two go on; three events, so that one waits behind
  another and one is missing in between if any ever is.

**Views and symmetry.** Runners, requests, candidates, connections and users are
interchangeable where no liveness is checked. `section_edit`, `documents`, `requests` and
`broadcast` are checked under a VIEW. That of `section_edit` omits of a request's old copy
what its operation never reads, and the age of released leases; that of `documents` omits the status
a document shows (no other step reads it), rows that are deleted, their objects, and
a profile that no later parse can use; that of `requests` what a request was answered,
of which it only forgets it. States with one view have the same steps up to that view and
agree on the properties of the run. That of `broadcast` omits what was sent to a connection
whose endpoint has ended, and its user where no round can reach it. The properties are about
that, but nothing is sent to it any more: the state in which the last event was sent
to it was checked with its endpoint serving, and a removal after that is recorded with a
number at least as large as every event it was sent.

**Deadlock** is checked where the system may always go on: `queue` (time may pass),
the modules of requests (a request can be given up) and `schema`. It is not where
the system may really stop: an export, a batch or a document that has come to its
end within the bounds, a finalized container, a project whose clients have all left.

**Fairness** (`Fairness`, run `queue`). The poll loop of each runner keeps claiming,
what it claimed is carried on outside the handler, the reaper loop runs, time passes:
weak fairness of `Claim(r)`, `Control(r)`, `Reap` and `Tick`, all of them loops without
an exit other than shutdown. Nothing is assumed of handlers, clients and crashes: a
handler may hang until its deadline, which `wait_for` enforces.

**Concurrency limit and slow clocks.** `ConcurrencyRespected` is checked with
prompt clock readings (`MaxLag = 0`). With `MaxLag = 1` it can be exceeded for a
while: a heartbeat whose reading of the clock is older than the moment its UPDATE
runs revives a lease that a claim has already counted as free (`workers/queue.py:239`).
The code makes no promise about a process that stops between the two, so this is
listed as a hazard and not as a finding.

**Mutants.** Each property of a passing run has one: an operator beside the mapped
definition, marked `Bug:`, that changes it as a plausible mistake would. With it in
place TLC finds the property violated in the same instance.

## 4. Proofs

All theorems hold for any values of the constants and rest on the named assumptions
of their module alone. Each inductive invariant was checked by TLC on small instances
before it was proved.

### TaskQueueProofs

`TaskQueueProofs` proves for every number of tasks, runners, groups and every bound,
from `QueueAssumption` and `FamilyAssumption` alone:

| Theorem | States |
|---|---|
| `TypeCorrect` | `Spec => []TypeOK` |
| `OwnershipHolds` | `Spec => []Ownership` |
| `AuditTrailHolds` | `Spec => []AuditTrail` |
| `EffectsHold` | `Spec => []EffectsOnCompletion` |
| `Refinement` | `Spec => LifecycleSpec` |
| `CancelReachesFamilyHolds` | `Spec => []CancelReachesFamily` |
| `CancelStopsEffectsHolds` | `Spec => CancelStopsEffects` |
| `RetryBudgetHolds` | `Spec => []RetryBudgetRespected` |
| `ConcurrencyHolds` | `MaxLag = 0` implies `Spec => []ConcurrencyRespected` |

The argument. `QueueInv == TypeOK /\ Ownership /\ AuditTrail /\ EffectsOnCompletion`
is inductive. `AuditTrail` alone is not: to close an attempt a step must know that
the token a runner holds belongs to an attempt that exists, and that the token of
a leased row is its newest attempt; that is `Ownership`. `EffectsOnCompletion`
needs in turn that a runner publishing a return to the queue works on a polling
task. One lemma per action shows that it preserves the invariant; the actions that
close an attempt share `ClosingStep` and `ClosingKeepsEffects`. The refinement maps
`status` and `committed` and uses one lemma per action on how a row may move; the
cancellation theorems follow from it together with the fact that children are
created with their parent and are never created afterwards.

`RetryBudgetRespected` is not inductive: a claim opens an attempt without looking at
the budget. `BudgetInv` adds that a row that waits in the queue has an attempt left,
which is what every way back to the queue asks for. `AttemptStep` says what a step may
do to the attempts of one task (nothing, open one for a queued row, close the open one
as spent or as a successful poll); every action is shown to be such a step, and the
lemmas `Completions...` count the polls.

For `ConcurrencyRespected` the invariant `GroupsInv` adds what a granted claim relies on:
a group's policy lock has one holder, and while a runner with a grant holds it there is
room for one more live lease (`GrantLeavesRoom`). Only such a runner makes a lease live
again (`NoNewLease` for every other action), and a lease that runs out only makes room.
The hypothesis `MaxLag = 0` is needed, and says what the limit does not survive: with
an older clock reading a heartbeat may renew a lease that a claim no longer counted
(the hazard at `workers/queue.py:239`).

### SectionEditingProofs

For any number of users and requests and any bounds, from `SectionAssumption` alone:

| Theorem | States |
|---|---|
| `TypeCorrect` | `Spec => []TypeOK` |
| `RevisionChainHolds` | `Spec => []RevisionChain` |
| `OnlyNewestUnreleasedHolds` | `Spec => []OnlyNewestUnreleased` |
| `NoForeignHolderHolds` | `Spec => []NoForeignHolder` |
| `SubmitHandsOverHolds` | `Spec => SubmitHandsOver` |

The argument. `EditInv` adds to the checked invariants what the requests remember.
`RevisionChain` is not inductive without `SavesSeeSection`: a save appends the text it
has in its copy, which must be the current row's, and it is because the copy was
refreshed under the lock and nobody else writes until the lock is given up.
`NoForeignHolder` follows from `OnlyNewestUnreleased` and `EditsHoldNewest`: the lease an
edit was let through with is the newest row, and stays the newest because `Acquire`
waits for the lock. Every action ends a request (`AnswerKeepsInv`) or carries it on
(`ProceedKeepsInv`), so these two lemmas hold what all actions share; `FlushKeepsInv`
covers the writes with old copies.

### CleanVersionsProofs

For any number of sections, requests and keys and any bounds, from
`VersionAssumption` alone:

| Theorem | States |
|---|---|
| `TypeCorrect` | `Spec => []TypeOK` |
| `NoRepeatedUploadHolds` | `Spec => []NoRepeatedUpload` |
| `EveryTextStoredHolds` | `Spec => []EveryTextStored` |
| `ActiveIsNewestAcceptedHolds` | `Spec => []ActiveIsNewestAccepted` |
| `MergedFromCurrentHolds` | `Spec => MergedFromCurrent` |
| `DecidedOnceHolds` | `Spec => DecidedOnce` |
| `Refinement` | `Spec => ActiveAdvances` |

The argument. `VersionInv` adds to the checked invariants what a merge knows while it
holds the Document row (`ComparisonHolds`: its revisions are the sections' and its key
has no version) and what makes its object its own (`NamesDiffer`); without the
latter a clean-up could delete the object of another version. Both rest on `TypeOK`,
which says that the row is held by one merge only (`OneLocker`). `RequestGoesOn`
covers the actions that only carry a request on or end it, `UploadedEnds` the two
ends of an upload and `Decided` the decision of a review. For the refinement
`VersionsCounted` bounds the version numbers by the number of keys, since no key has
two versions (`OneVersionPerKey`).

`CleanVersionsProofs` also proves, for any number of runners, clients, jobs, tasks and
profiles, from `DocumentAssumption` alone (the bounds are numbers, and NULL is neither a
number nor a runner):

| Theorem | States |
|---|---|
| `DocumentTypeHolds` | `DocumentSpec => []DocumentTypeOK` |
| `RowsHaveObjectsHolds` | `DocumentSpec => []RowsHaveObjects` |
| `JobFollowsTaskHolds` | `DocumentSpec => []JobFollowsTask` |
| `CleanedFromCompletedHolds` | `DocumentSpec => []CleanedFromCompleted` |

The argument. `DocumentInv` ties the rows to each other (`DocLinks`) and says what three
kinds of actors rely on of what they read. A handler that still has its token works on
the task its job names, and what it finished uploading is in the store as long as the
job is there (`WorkerFits`): an upload that arrives late writes the same key, but with the
profile that was frozen, so that it overwrites an object only by an equal one
(`PutResults`). An open callback has found its job queued and bound to the task, and
nobody but the callback can change either (`ClosingFits`). The keys a deletion removes
after its commit are those of rows that are gone, and identifiers are not used again
(`KeyGone`, `DeletionFits`). `MoveKeeps` covers every step that moves one task and its job,
`StillKeeps` every step that leaves the rows alone, `JobAdded`, `RetryKeeps` and
`RowsDeleted` the rest. `JobFollowsTask` is not inductive without `ClosingFits`: between
the end of a task and the commit of its callback the job must not be retried or deleted.

### ChunkSetsProofs

For any number of runners, triggers and keys and any bounds, from `ChunkAssumption`
alone:

| Theorem | States |
|---|---|
| `TypeCorrect` | `Spec => []TypeOK` |
| `OneSetPendingHolds` | `Spec => []OneSetPending` |
| `TaskAndSetAgreeHolds` | `Spec => []TaskAndSetAgree` |
| `PublishedFromActiveHolds` | `Spec => PublishedFromActive` |
| `CompletedStaysHolds` | `Spec => CompletedStays` |
| `KeepsLifecycleHolds` | `Spec => KeepsLifecycle` |

The argument. `ChunkInv` has a part for the runner slots (`RunPart`) and one for the
rows (`RowPart`). `Agree` states `TaskAndSetAgree` without cardinalities; it survives
the end of a task because the compare-and-set of the callback finds the set pending
(`UnderWay`), and needs `ClosingFits`: between the choice of a terminal state and the
callback that commits it the row stays in a state from which it may end that way.
`SourceStays` is what makes a publication safe against a review: the Document row is
held from the recheck on. `BudgetLeft` bounds the attempts of a queued task. The
lemmas `TaskEnds`, `TaskAdded`, `StillUnderWay` and `MarkChanges` say what the kinds of
row changes preserve, `RunGoesOn` and `RunsStay` what a runner's move and anybody
else's move preserve; the actions combine them.

### TaskBroadcastProofs

For any connections, users and number of events, from `BroadcastAssumption` alone:

| Theorem | States |
|---|---|
| `TypeCorrect` | `Spec => []TypeOK` |
| `NothingAfterRemovalHolds` | `Spec => []NothingAfterRemoval` |
| `InSequenceHolds` | `Spec => []InSequence` |
| `SubscriptionMatchesHolds` | `Spec => []SubscriptionMatches` |

The argument. `TypeInv` says what the parts rely on: a round is for the event taken
last, which is the one before the next in the inbox (`RoundFits` with `Coming`), the
inbox holds the newest events without a gap (`InboxFits`), and a refused connection
has left the registry before anything is written. The three properties are proved
side by side on top of it. `Given`: whoever a round has let through may view the
project or was removed after the event was published, since a round checks after it
has taken the event. `Ordered`: a registered connection that was sent anything was
last sent the event before the one it is due next (`Expected`), which no step skips
because a subscription outlives each of its connections and a connection that was
found dead is never written to again. `Matched`: only a connection that has gone is
taken out by a round (`DeadGone`). An endpoint that fails (`Fails`) leaves a registered
connection that has gone; writing to it fails, so that a round takes it out, while the
subscription stays. This is why `TypeCorrect` and `SubscriptionMatchesHolds` speak of
endpoints that serve or failed. One lemma per kind of write to a connection
(`Becomes` and what follows it) keeps the records out of these arguments.

`TaskBroadcastProofs` also proves of `IdempotentRequests`, for any number of requests,
any client keys and contents, from `RequestAssumption` alone:

| Theorem | States |
|---|---|
| `OneTaskButForExportsHolds` | `RequestSpec => []OneTaskButForExports` |
| `OneWorkbenchButForRetriesHolds` | `RequestSpec => []OneWorkbenchButForRetries` |
| `AnswersMatchHolds` | `RequestSpec => []AnswersMatch` |
| `ParseRefusedOnlyIfReusedHolds` | `RequestSpec => []ParseRefusedOnlyIfReused`, if every key in `Keys` has one part |

The argument. Neither property is inductive, since both are about what is committed and
a step is decided by what is not. `RequestInv` adds `Fits` for every request: the
identifier it drew is in no other row (`IdIsFresh`); a request that is going to commit a
task of its own is the only one with its composite key, which no task has
(`KeyIsFresh`); a cleaning that holds the document is alone, and the job and the key it
looked for are still not there (`LockFits`). Parses follow from the unique key, because
their digest depends on the request only (`DigestInjective`); the digest of a cleaning
contains its job and never repeats, so that only the lock keeps its key unique.
Exports have neither, which is the finding of `export_twice`. `AnswersMatch` needs the
shape of a composite key (`Composite`, `SameTail`): what follows the first colon of a
stored key is a digest only if the client's key has no colon, and a request is accepted
only then; with a colon the comparison can refuse a request that is the same, but
never accept another one. `ParseRefusedOnlyIfReusedHolds` says that it refuses none if
clients send no colons (`RefusedForAnother`); the hypothesis is needed, since TLC finds
the refusal of an equal request with the keys `a` and `a:a` (the hazard at
`services/idempotency.py:71`). A retry adds a task with the key its client sent, which ends in
no digest and is therefore no request's composite key (`RawKey`), and takes its job out
of those the lock is claimed for (`Works`): a job revived beside a workbench is what
`OneWorkbench` would exclude and `OneWorkbenchButForRetries` does not. `RequestMoves` carries
the invariant over every step that commits nothing, `CommitCreates` and `CommitFinds` over
the two kinds of commit, `RetryKeeps` over a retry.

### ExportSealProofs

For any number of runners, retries, states of the source and object versions, from
`ExportAssumption` and `NullAssumption` (NULL is not a set of artifacts) alone:

| Theorem | States |
|---|---|
| `TypeCorrect` | `Spec => []TypeOK` |
| `CompletedVerifiesHolds` | `Spec => []CompletedVerifies` |
| `ExportFollowsTaskHolds` | `Spec => []ExportFollowsTask` |
| `FrozenHolds` | `Spec => FrozenSpec` |

The argument. `SealInv` adds to the two checked invariants what each attempt remembers
(`RunnerFits`), the overtaken ones included, since they go on until a checkpoint stops
them: from its freeze on an attempt has the manifest that is the snapshot, and the
versions it uploaded are in the store with that content. An attempt between its first
statement and its commit has it as well if it may still commit, which is while its
task is the current one and the row is queued. A retry cannot bring such an attempt
back, because the row is queued for a task that no attempt knows (`RunnersRemember`).
The store only grows (`PutStores`, `StoreGrows`), so a seal stays true. `TaskMoves`
covers every way a task ends or is queued again without a seal. For the refinement the
first `Freeze` is the abstract one (`FreezeFreezes`; a second one writes the snapshot
it found), `Seal` is `Publish` (`SealPublishes`) and every other step a stutter.

### CurationProofs

For any candidates, requests and bounds, from `CurationAssumption` and `NullAssumption`
(NULL is not an item) alone:

| Theorem | States |
|---|---|
| `TypeCorrect` | `Spec => []TypeOK` |
| `PromotedAsReviewedHolds` | `Spec => []PromotedAsReviewed` |
| `ApprovalsBindHolds` | `Spec => []ApprovalsBind` |
| `FinalizedAsConfirmedHolds` | `Spec => []FinalizedAsConfirmed` |
| `FinalizedWereApprovedHolds` | `Spec => []FinalizedWereApproved` |

The argument. `CurationInv` has a part for the candidates and their items, one for the
approve records, one for the container, and one for what each request has read before
it took its lock. A verdict is about the revision that was reviewed, for every candidate
and not only the promoted ones: without it a promotion could take a stale verdict. What
an addition has read of its item (`Pinned`) stays true because promoted candidates and
approve records are never touched again (`Keeps`, `PinsStay`). A draft has the members
its composition revision was shown with, and the locks of additions and finalizations
have one holder, so that the revision a finalization compared is still that of its
members when it commits. `FinalizeFits` is the strengthening that
`FinalizedWereApproved` needs: an approval in force that a member pins was in force at
the lock already, since one given meanwhile has a new record.

`CurationProofs` also proves of `SchemaMigrations`, for any containers, exports, contents
and objects and any number of rows, from `SchemaAssumption` alone (the items are
finitely many, which the back-fill of t09 needs to number their revisions, and NULL is
no value of a column):

| Theorem | States |
|---|---|
| `ApprovedIsBoundHolds` | `SchemaSpec => []ApprovedIsBound` |
| `MembersPinnedHolds` | `SchemaSpec => []MembersPinned` |
| `CompletedIsSealedHolds` | `SchemaSpec => []CompletedIsSealed` |
| `FactsSurviveHolds` | `SchemaSpec => FactsSurvive` |

The argument. A statement may write anything that the constraints and the triggers
accept, so every step is a write or a migration that keeps the types (`WriteTypes`,
`MigrateTypes`) and ends in a state with `Checks`. The properties are not consequences
of the constraints alone: they relate rows of tables that are written one at a time.
`SchemaInv` adds `SealsBelong` (a seal names a snapshot of its export), that an export is
complete only under t11 and that only a finalized container has a composition. A member
that was moved is pinned because it was before; none is put into a finalized container
because every row a statement leaves is judged by its container (`NoMemberAdded`). What an
approval, a member or a seal refers to stays as it is because the triggers freeze those
tables (`ReviewsKept`, `OutputKept`, `PrefixKeeps`), and a downgrade either demotes or stops.

### GenerationFlowProofs

For any number of chunks, runners, requests, batches and runs, from
`GenerationAssumption` alone:

| Theorem | States |
|---|---|
| `TypeCorrect` | `Spec => []TypeOK`, with at most one attempt inside a chunk |
| `OncePerChainHolds` | `Spec => []OncePerChain` |
| `CompletedIsWholeHolds` | `Spec => []CompletedIsWhole` |
| `SummaryListsHolds` | `Spec => []SummaryLists` |
| `NothingAfterCancelHolds` | `Spec => NothingAfterCancel` |

The argument. `FlowInv` ties the tables to each other: a run shows the status of its
task and only a live task is being ended (`JobsAgree`), a batch is open exactly while
its own task is live (`HeadAgrees`), its counter is that of its successes while it can
still be completed (`Counted`), and a batch that is told to stop has no child left that
waits or runs freely (`Stopped`). `OncePerChain` is not inductive by itself: it needs
that a batch that was retried is at rest and that its retry has only chunks it lacks
(`Retried`), which stays true because what has ended stays ended (`EndedStay`,
`RestingKeeps`). The theorem is about the whole lineage of a batch, the least set that
contains it and with each batch its source; the proof takes the batches that lack all
of its chunks and shows that they are such a set. `NothingAfterCancel` holds because a
publishing child is `processing`, which `Stopped` excludes, and hooks complete no run
(`HookedRun`). Every action moves the task of one child (`ChildMoves`), the task of a
batch (`ParentMoves`), one batch with all its children (`CancelBatchKeeps`) or adds one
(`NewBatchKeeps`); `Recomposed` carries all other batches along.

### Proved but not run

`TypeOK`, `Ownership`, `AuditTrail`, `EffectsOnCompletion` and `CancelReachesFamily` of
`TaskQueue`, `TypeOK` of `ExportSeal`, `OnlyNewestUnreleased` of `SectionEditing`, `NoRepeatedUpload`,
`ActiveIsNewestAccepted` and `DecidedOnce` of `CleanVersions`, `OneSetPending`,
`CompletedStays` and `KeepsLifecycle` of `ChunkSets`, `AnswersMatch` and
`ParseRefusedOnlyIfReused` of `IdempotentRequests`: they are proved for every
instance, so that no run repeats them.

### What is only model-checked

`ConcurrencyRespected` with clock readings that lag is false and is not claimed. The
liveness properties depend on fairness and ENABLED and are outside what the proof
system handles: `EveryTaskSettles` and `SlotsComeBack` of `TaskQueue`. Every other
property of a passing run is stated by a theorem. `RequestTypeOK` of
`IdempotentRequests` and `SchemaTypeOK` of `SchemaMigrations` are conjuncts of the inductive invariants.

## 5. What else reading the code has shown

These follow from the code directly; no model is about them.

* `services/config_service.py:71`: two updates of a parser profile read one version and
  both write the next; jobs are not affected, since they freeze the content.
* The summary of a failed batch is not written again when its last child ends, only
  that of a cancelled one (`workers/lifecycle.py:125`).
* Orphan objects may remain after failed uploads, cancelled threads and deletions
  that were given up; rows without their objects may not (`RowsHaveObjects`).
* t10 (`t10_dataset_composition.py:212,213`) and t08 (`t08_generation_flow.py:228`) read plain rows by
  column name, which SQLAlchemy 2 refuses, while t09 uses `.mappings()`: t10 stops
  whenever a container exists, t08 whenever a batch or a run does. Nothing is lost,
  since the migrations of one `upgrade head` are one transaction.
* t09 stops when an approve record about a curated item exists, t11 for snapshots and
  exports without a source.
* `models/export.py:166` declares a foreign key that t11 never creates.

## 6. Plan

1. `TaskQueue` with slow clocks: how far the concurrency limit can be exceeded, as a
   bound in `MaxLag`, and its proof.
2. `IdempotentRequests`: an abstract service that gives one answer per key, and where
   the three endpoints depart from it.
3. The sessions of several browser tabs (`src/apps/web`: `auth.ts`, `api.ts`, `ws.ts`): refresh of
   a token in one tab while others use it, reconnection after a refusal.
4. Pure algorithms worth a reference definition: heading hierarchy of the hybrid
   splitter, backoff, retry classification.

## 7. Not modelled, and why

Authorization is a stateless lookup per request; what it means to a connection that
stays open is in `TaskBroadcast`. Accounts, tokens and configuration are single-row
operations, monitoring is read-only. The libraries are sequential text and network
code; a handler of the queue is abstracted to returning, raising or hanging. The
local model services supervise external programs and share no state with the queue.
The optional editing of chunks (`services/chunk_service.py`) writes single rows. The
front end is a client. Properties of recursive definitions over data and liveness
stay with TLC.
