---------------------------- MODULE DocumentJobs ----------------------------
(***************************************************************************)
(* A document from its upload to its deletion, with its parse and cleaning *)
(* jobs: services/document_service.py, the parse and cleaning triggers of  *)
(* routers/documents.py, services/parse_freeze_service.py, the handlers of *)
(* workers/parse_worker.py and clean_worker.py, and the terminal callback  *)
(* and retry binding of both kinds of job in workers/lifecycle.py.         *)
(*                                                                         *)
(* A handler works in one transaction: its UPDATE to "processing" locks    *)
(* the row of the job until it commits with the completion of its task or  *)
(* is rolled back, so "processing" is never seen. The terminal callback is *)
(* two steps, what it reads and what it commits: other transactions commit *)
(* between them. Of the queue (TaskQueue) there remain the status of a     *)
(* task and the runner its token belongs to; leases are abstracted to a    *)
(* reaper that may come at any moment.                                     *)
(***************************************************************************)
EXTENDS Naturals, Sequences, FiniteSets

CONSTANTS Runners,    \* runner slots
          Clients,    \* deletion requests that may be in flight together
          None,       \* NULL
          MaxJobs,    \* bound: jobs of the document, of both kinds
          MaxTasks,   \* bound: tasks of these jobs
          MaxProfile  \* bound: contents of the parser profile

ASSUME DocumentAssumption ==
  /\ MaxJobs \in Nat /\ MaxTasks \in Nat /\ MaxProfile \in Nat \ {0}
  /\ None \notin Nat /\ None \notin Runners

VARIABLES doc,      \* the row of the document and what refers to it
          jobs,     \* the rows of its parse and cleaning jobs, oldest first
          tasks,    \* the tasks of these jobs, oldest first
          profile,  \* the parser profile as it is now
          store,    \* the objects of the document
          worker,   \* what each runner slot does
          closing,  \* the open transaction that ends each task
          deletion  \* the deletion that each client waits for

documentVars == <<doc, jobs, tasks, profile, store, worker, closing, deletion>>

Profiles == 1..MaxProfile
Jobs == 1..Len(jobs)
Tasks == 1..Len(tasks)

(* cited: an evidence link refers to the document. merged: the cleaning    *)
(* jobs that a clean version was merged from.                              *)
Doc == [status : {"absent", "uploaded", "parsing", "parsed", "cleaning", "deleted"},
        cited : BOOLEAN, merged : SUBSET (1..MaxJobs)]
HasDoc == doc.status \notin {"absent", "deleted"}

Ended == {"completed", "failed", "cancelled"}
Job == [kind : {"parse"}, source : {0}, profile : Profiles,
        status : Ended \union {"queued", "deleted"}, task : 1..MaxTasks]
       \union
       [kind : {"clean"}, source : 1..MaxJobs, profile : {None},
        status : Ended \union {"queued", "deleted"}, task : 1..MaxTasks]
Exists(j) == jobs[j].status # "deleted"
IsParse(j) == jobs[j].kind = "parse"

(* The key of an object is its job and its part: an upload overwrites.     *)
Parts == {"raw", "structured"}
PdfKey == [job |-> 0, part |-> "pdf"]
ObjectKeys == {PdfKey} \union [job : 1..MaxJobs, part : Parts]
Object == [key : ObjectKeys, profile : Profiles \union {None}]
Pdf == [key |-> PdfKey, profile |-> None]
Put(objects) ==
  {o \in store : \A n \in objects : o.key # n.key} \union objects

Live == {"queued", "processing", "cancelling"}
Task == [job : 1..MaxJobs, status : Live \union Ended, owner : Runners \union {None}]
Moved(t, status) == [tasks[t] EXCEPT !.status = status, !.owner = None]

Worker == [pc : {"idle", "claimed", "started", "ready"},
           task : 0..MaxTasks, seen : {"-", "uploaded", "parsing", "parsed", "cleaning"}]
Free == [pc |-> "idle", task |-> 0, seen |-> "-"]

DocumentInit ==
  /\ doc = [status |-> "absent", cited |-> FALSE, merged |-> {}]
  /\ jobs = <<>> /\ tasks = <<>>
  /\ profile = 1
  /\ store = {}
  /\ worker = [r \in Runners |-> Free]
  /\ closing = [t \in 1..MaxTasks |-> None]
  /\ deletion = [c \in Clients |-> None]

JobOf(r) == tasks[worker[r].task].job
Executes(r) == worker[r].pc \in {"started", "ready"}

(* The row of the job is locked by the handler that updated it or by the   *)
(* open terminal callback that did.                                        *)
Locked(j) == \/ \E r \in Runners : Executes(r) /\ JobOf(r) = j
             \/ \E t \in Tasks : closing[t] # None /\ tasks[t].job = j
-----------------------------------------------------------------------------
(* The upload: the object first, the row after it. A request that stops    *)
(* between the two leaves an object that no row names.                     *)
UploadFile ==
  /\ doc.status = "absent" /\ Pdf \notin store
  /\ store' = Put({Pdf})
  /\ UNCHANGED <<doc, jobs, tasks, profile, worker, closing, deletion>>

InsertDocument ==
  /\ doc.status = "absent" /\ Pdf \in store
  /\ doc' = [doc EXCEPT !.status = "uploaded"]
  /\ UNCHANGED <<jobs, tasks, profile, store, worker, closing, deletion>>

(* ParserProfileService.update.                                            *)
EditProfile ==
  /\ profile < MaxProfile
  /\ profile' = profile + 1
  /\ UNCHANGED <<doc, jobs, tasks, store, worker, closing, deletion>>

(* create_task with bind_document_job: the job and its task, together.     *)
AddJob(kind, source, snapshot) ==
  /\ Len(jobs) < MaxJobs /\ Len(tasks) < MaxTasks
  /\ jobs' = Append(jobs, [kind |-> kind, source |-> source, profile |-> snapshot,
                           status |-> "queued", task |-> Len(tasks) + 1])
  /\ tasks' = Append(tasks, [job |-> Len(jobs) + 1, status |-> "queued", owner |-> None])

(* freeze_profile_policy: what the job keeps of the profile and its policy.*)
(* (A profile that may not be used stops the request.)                     *)
Snapshot == profile

TriggerParse ==
  /\ HasDoc
  /\ AddJob("parse", 0, Snapshot)
  /\ doc' = [doc EXCEPT !.status = "parsing"]
  /\ UNCHANGED <<profile, store, worker, closing, deletion>>

(* The workbench that start_cleaning gives out again.                      *)
Workbench(j, source) ==
  /\ jobs[j].source = source
  /\ \/ jobs[j].status = "completed"
     \/ jobs[j].status = "queued" /\ tasks[jobs[j].task].status \in {"queued", "processing"}

StartCleaning(source) ==
  /\ HasDoc
  /\ IsParse(source) /\ jobs[source].status = "completed"
  /\ \A j \in Jobs : ~Workbench(j, source)
  /\ AddJob("clean", source, None)
  /\ UNCHANGED <<doc, profile, store, worker, closing, deletion>>

(* A clean version is merged from the sections of a cleaning job, evidence *)
(* cites a chunk of the document.                                          *)
Merge(j) ==
  /\ jobs[j].kind = "clean" /\ jobs[j].status = "completed"
  /\ doc' = [doc EXCEPT !.merged = @ \union {j}]
  /\ UNCHANGED <<jobs, tasks, profile, store, worker, closing, deletion>>

Cite ==
  /\ HasDoc /\ doc.merged # {}
  /\ doc' = [doc EXCEPT !.cited = TRUE]
  /\ UNCHANGED <<jobs, tasks, profile, store, worker, closing, deletion>>
-----------------------------------------------------------------------------
Claim(r, t) ==
  /\ worker[r].pc = "idle"
  /\ tasks[t].status = "queued" /\ closing[t] = None
  /\ tasks' = [tasks EXCEPT ![t].status = "processing", ![t].owner = r]
  /\ worker' = [worker EXCEPT ![r] = [pc |-> "claimed", task |-> t, seen |-> "-"]]
  /\ UNCHANGED <<doc, jobs, profile, store, closing, deletion>>

HasToken(r) == tasks[worker[r].task].owner = r /\ closing[worker[r].task] = None
StatusOf(r) == tasks[worker[r].task].status
Owns(r) == HasToken(r) /\ StatusOf(r) = "processing"

(* verify_project_chain: both rows are still there (they never change      *)
(* their project).                                                         *)
Chained(j) == HasDoc /\ Exists(j)

(* The handler works on the job of its own task only.                      *)
Takes(r) == Chained(JobOf(r)) /\ jobs[JobOf(r)].task = worker[r].task

(* The handler up to the flush of "processing". It keeps the document as   *)
(* it read it here.                                                        *)
Start(r) ==
  /\ worker[r].pc = "claimed"
  /\ Takes(r)
  /\ ~Locked(JobOf(r))
  /\ worker' = [worker EXCEPT ![r].pc = "started", ![r].seen = doc.status]
  /\ UNCHANGED <<doc, jobs, tasks, profile, store, closing, deletion>>

(* The parse with the options of the frozen snapshot.                      *)
Parsed(j) == jobs[j].profile

Output(j, part) == [key |-> [job |-> j, part |-> part], profile |-> Parsed(j)]

Results(j) == {Output(j, part) : part \in Parts}

UploadResults(r) ==
  /\ worker[r].pc = "started" /\ IsParse(JobOf(r))
  /\ Pdf \in store
  /\ store' = Put(Results(JobOf(r)))
  /\ worker' = [worker EXCEPT ![r].pc = "ready"]
  /\ UNCHANGED <<doc, jobs, tasks, profile, closing, deletion>>

(* The handler has what it publishes: run_clean_handler downloads both     *)
(* results of the parse and splits them, nothing is uploaded.              *)
HasOutput(r) ==
  \/ worker[r].pc = "ready"
  \/ /\ worker[r].pc = "started" /\ ~IsParse(JobOf(r))
     /\ \A part \in Parts :
          \E o \in store : o.key = [job |-> jobs[JobOf(r)].source, part |-> part]

(* The ORM writes the status only if it is not what it read at the start.  *)
StatusAfter(r) == LET new == IF IsParse(JobOf(r)) THEN "parsed" ELSE "cleaning"
                  IN IF worker[r].seen = new THEN doc.status ELSE new

(* The end of the handler and the runner's completion of the task: one     *)
(* transaction.                                                            *)
Complete(r) ==
  /\ HasOutput(r)
  /\ Owns(r)
  /\ jobs' = [jobs EXCEPT ![JobOf(r)].status = "completed"]
  /\ doc' = [doc EXCEPT !.status = StatusAfter(r)]
  /\ tasks' = [tasks EXCEPT ![worker[r].task] = Moved(worker[r].task, "completed")]
  /\ worker' = [worker EXCEPT ![r] = Free]
  /\ UNCHANGED <<profile, store, closing, deletion>>
-----------------------------------------------------------------------------
(* Bug: the callback leaves alone a job that no handler has begun.         *)
SettlesBegun(t) ==
  LET j == tasks[t].job
  IN jobs[j].task = t /\ jobs[j].status = "queued" /\ tasks[t].status # "queued"

(* The compare-and-set of _document_job_terminal.                          *)
Settles(t) == LET j == tasks[t].job IN jobs[j].task = t /\ jobs[j].status = "queued"

(* What the callback reads of the other parse jobs of the document.        *)
Restored(j) ==
  LET others == {i \in Jobs \ {j} : IsParse(i)}
  IN IF \E i \in others : jobs[i].status = "queued" THEN None
     ELSE IF \E i \in others : jobs[i].status = "completed" THEN "parsed" ELSE "uploaded"

(* A transaction that ends a task and settles its job, whose row nobody    *)
(* else has locked. That of a parse job reads the others before it writes  *)
(* the document: it stays open in between.                                 *)
EndsTask(t, status, mine) ==
  LET j == tasks[t].job
  IN /\ closing[t] = None
     /\ Settles(t) => /\ \A r \in Runners \ mine : ~(Executes(r) /\ JobOf(r) = j)
                      /\ \A u \in Tasks : closing[u] # None => tasks[u].job # j
     /\ IF Settles(t) /\ IsParse(j)
        THEN /\ closing' = [closing EXCEPT ![t] = [status |-> status, restores |-> Restored(j)]]
             /\ UNCHANGED <<tasks, jobs>>
        ELSE /\ tasks' = [tasks EXCEPT ![t] = Moved(t, status)]
             /\ jobs' = IF Settles(t) THEN [jobs EXCEPT ![j].status = status] ELSE jobs
             /\ UNCHANGED closing
     /\ UNCHANGED doc

Requeues(t) ==
  /\ closing[t] = None
  /\ tasks' = [tasks EXCEPT ![t] = Moved(t, "queued")]
  /\ UNCHANGED <<doc, jobs, closing>>

(* Its commit.                                                             *)
CommitEnd(t) ==
  LET c == closing[t]
  IN /\ c # None
     /\ tasks' = [tasks EXCEPT ![t] = Moved(t, c.status)]
     /\ jobs' = [jobs EXCEPT ![tasks[t].job].status = c.status]
     /\ doc' = IF c.restores # None /\ doc.status = "parsing"
               THEN [doc EXCEPT !.status = c.restores] ELSE doc
     /\ closing' = [closing EXCEPT ![t] = None]
     /\ UNCHANGED <<profile, store, worker, deletion>>

(* Its process dies before the commit.                                     *)
AbortEnd(t) ==
  /\ closing[t] # None
  /\ closing' = [closing EXCEPT ![t] = None]
  /\ UNCHANGED <<doc, jobs, tasks, profile, store, worker, deletion>>

(* A handler that stops while it uploads has uploaded some of its results, *)
(* and a cancelled one leaves the upload running in its thread: the object *)
(* may arrive long after the attempt was given up, whatever became of the  *)
(* job. (Any task that did not complete counts as such an attempt.)        *)
GivenUp(j) == \E t \in Tasks : tasks[t].job = j /\ tasks[t].status \in {"failed", "cancelled"}

Arrives(j) ==
  /\ IsParse(j)
  /\ GivenUp(j)
  /\ \E part \in Parts : store' = Put({Output(j, part)})
  /\ UNCHANGED <<doc, jobs, tasks, profile, worker, closing, deletion>>

Stops(r) == worker' = [worker EXCEPT ![r] = Free]

(* The handler raises, times out or sees a cancel request: its transaction *)
(* is rolled back and _apply_terminal_outcome ends or requeues the task.   *)
Settle(r) ==
  /\ worker[r].pc # "idle" /\ HasToken(r)
  /\ \/ StatusOf(r) = "cancelling" /\ EndsTask(worker[r].task, "cancelled", {r})
     \/ StatusOf(r) = "processing" /\ EndsTask(worker[r].task, "failed", {r})
     \/ StatusOf(r) = "processing" /\ Requeues(worker[r].task)
  /\ Stops(r)
  /\ UNCHANGED <<profile, store, deletion>>

(* A checkpoint or the completion finds the token lost, or the process     *)
(* dies.                                                                   *)
Leaves(r) ==
  /\ worker[r].pc # "idle"
  /\ Stops(r)
  /\ UNCHANGED <<doc, jobs, tasks, profile, store, closing, deletion>>

(* reap_expired.                                                           *)
Reap(t) ==
  /\ \/ tasks[t].status = "cancelling" /\ EndsTask(t, "cancelled", {})
     \/ tasks[t].status = "processing" /\ (Requeues(t) \/ EndsTask(t, "failed", {}))
  /\ UNCHANGED <<profile, store, worker, deletion>>

(* request_cancel.                                                         *)
RequestCancel(t) ==
  /\ \/ tasks[t].status = "queued" /\ EndsTask(t, "cancelled", {})
     \/ /\ tasks[t].status = "processing" /\ closing[t] = None
        /\ tasks' = [tasks EXCEPT ![t].status = "cancelling"]
        /\ UNCHANGED <<doc, jobs, closing>>
  /\ UNCHANGED <<profile, store, worker, deletion>>

(* The compare-and-set of bind_document_job for a retry.                   *)
RetryOf(j, t) == jobs[j].task = t /\ jobs[j].status = "failed"

(* create_retry: the same job, a new task.                                 *)
Retry(t) ==
  LET j == tasks[t].job
  IN /\ Len(tasks) < MaxTasks
     /\ tasks[t].status = "failed"
     /\ RetryOf(j, t)
     /\ tasks' = Append(tasks, [job |-> j, status |-> "queued", owner |-> None])
     /\ jobs' = [jobs EXCEPT ![j].status = "queued", ![j].task = Len(tasks) + 1]
     /\ UNCHANGED <<doc, profile, store, worker, closing, deletion>>
-----------------------------------------------------------------------------
(* The keys in the columns of a row: those of a completed parse job.       *)
KeysOf(j) == IF IsParse(j) /\ jobs[j].status = "completed"
             THEN [job : {j}, part : Parts] ELSE {}
CleaningOf(j) == {c \in Jobs : jobs[c].source = j /\ Exists(c)}

(* What a deletion reads before it asks the database: the keys, and the    *)
(* rows it is going to delete.                                             *)
BeginDelete(c, j) ==
  /\ deletion[c] = None
  /\ Exists(j) /\ IsParse(j)
  /\ deletion' = [deletion EXCEPT ![c] = [pc |-> "read", keys |-> KeysOf(j),
                                          rows |-> {j} \union CleaningOf(j)]]
  /\ UNCHANGED <<doc, jobs, tasks, profile, store, worker, closing>>

BeginDeleteDocument(c) ==
  /\ deletion[c] = None
  /\ HasDoc
  /\ deletion' = [deletion EXCEPT ![c] =
       [pc |-> "document", rows |-> {}, keys |-> {PdfKey} \union UNION {KeysOf(j) : j \in Jobs}]]
  /\ UNCHANGED <<doc, jobs, tasks, profile, store, worker, closing>>

Without(rows) == [j \in Jobs |-> IF j \in rows THEN [jobs[j] EXCEPT !.status = "deleted"]
                                 ELSE jobs[j]]

(* Bug: every cleaning job goes with its parse job, merged or not, and one *)
(* that was started meanwhile stays.                                       *)
Cascades(rows) == rows \subseteq Jobs

(* The foreign keys without ON DELETE CASCADE: of cleaning jobs to their   *)
(* parse job and of clean versions to their cleaning job.                  *)
Deletable(rows) == /\ \A j \in rows : CleaningOf(j) \subseteq rows
                   /\ rows \intersect doc.merged = {}

(* Without its last parse job the document is an uploaded one again.       *)
StatusWithout(rows) ==
  IF (\A j \in Jobs \ rows : IsParse(j) => ~Exists(j)) /\ doc.status \in {"parsed", "parsing"}
  THEN "uploaded" ELSE doc.status

(* delete_parse_job, up to its commit.                                     *)
DeleteParseJob(c) ==
  /\ deletion[c] # None /\ deletion[c].pc = "read"
  /\ HasDoc
  /\ LET rows == deletion[c].rows
     IN /\ \A j \in rows : ~Locked(j)
        /\ Deletable(rows)
        /\ jobs' = Without(rows)
        /\ doc' = [doc EXCEPT !.status = StatusWithout(rows)]
  /\ deletion' = [deletion EXCEPT ![c].pc = "committed", ![c].rows = {}]
  /\ UNCHANGED <<tasks, profile, store, worker, closing>>

(* delete_document, up to its commit: the cascades take every job with it, *)
(* an evidence link forbids it.                                            *)
DeleteDocument(c) ==
  /\ deletion[c] # None /\ deletion[c].pc = "document"
  /\ HasDoc /\ ~doc.cited
  /\ \A j \in Jobs : ~Locked(j)
  /\ jobs' = Without(Jobs)
  /\ doc' = [doc EXCEPT !.status = "deleted", !.merged = {}]
  /\ deletion' = [deletion EXCEPT ![c].pc = "committed"]
  /\ UNCHANGED <<tasks, profile, store, worker, closing>>

(* The request ends without a commit: DOCUMENT_IN_USE, 404 or an error.    *)
GiveUp(c) ==
  /\ deletion[c] # None
  /\ deletion' = [deletion EXCEPT ![c] = None]
  /\ UNCHANGED <<doc, jobs, tasks, profile, store, worker, closing>>

(* Bug: objects are removed before the database has decided.               *)
RemovesEarly(c) == deletion[c] # None

Removes(c) == deletion[c] # None /\ deletion[c].pc = "committed"

(* The objects are deleted after the commit, one failing without the next. *)
RemoveObjects(c) ==
  /\ Removes(c)
  /\ \E failed \in SUBSET deletion[c].keys :
       store' = {o \in store : o.key \notin deletion[c].keys \ failed}
  /\ deletion' = [deletion EXCEPT ![c] = None]
  /\ UNCHANGED <<doc, jobs, tasks, profile, worker, closing>>
-----------------------------------------------------------------------------
Work(r) == \/ \E t \in Tasks : Claim(r, t)
           \/ Start(r) \/ UploadResults(r)
           \/ Complete(r) \/ Settle(r) \/ Leaves(r)

Deletion(c) == \/ \E j \in Jobs : BeginDelete(c, j)
               \/ BeginDeleteDocument(c)
               \/ DeleteParseJob(c) \/ DeleteDocument(c) \/ GiveUp(c) \/ RemoveObjects(c)

DocumentNext ==
  \/ UploadFile \/ InsertDocument \/ EditProfile \/ TriggerParse \/ Cite
  \/ \E j \in Jobs : StartCleaning(j) \/ Merge(j) \/ Arrives(j)
  \/ \E r \in Runners : Work(r)
  \/ \E t \in Tasks : Reap(t) \/ RequestCancel(t) \/ Retry(t) \/ CommitEnd(t) \/ AbortEnd(t)
  \/ \E c \in Clients : Deletion(c)

DocumentSpec == DocumentInit /\ [][DocumentNext]_documentVars
-----------------------------------------------------------------------------
(* The variables have their types, a job names a task that names it, and a *)
(* clean version a cleaning job that exists and is complete.               *)
DocumentTypeOK ==
  /\ doc \in Doc
  /\ jobs \in Seq(Job) /\ Len(jobs) <= MaxJobs
  /\ tasks \in Seq(Task) /\ Len(tasks) <= MaxTasks
  /\ profile \in Profiles
  /\ store \subseteq Object
  /\ worker \in [Runners -> Worker]
  /\ \A j \in Jobs : jobs[j].task \in Tasks /\ tasks[jobs[j].task].job = j
  /\ \A j \in doc.merged : jobs[j].kind = "clean" /\ jobs[j].status = "completed"

(* The results of a parse as its request asked for them.                   *)
Stored(j) == {[key |-> [job |-> j, part |-> p], profile |-> jobs[j].profile] : p \in Parts}

(* A row that exists never dangles: the file of a document and the results *)
(* of a completed parse are in the store, and these results were made with *)
(* the profile as it was when the parse was asked for, whatever attempts,  *)
(* late uploads, profile edits and deletions came in between.              *)
RowsHaveObjects ==
  /\ HasDoc => Pdf \in store
  /\ \A j \in Jobs : IsParse(j) /\ jobs[j].status = "completed" => Stored(j) \subseteq store

(* A job that exists and its task never disagree for a reader, and every   *)
(* other task of the job has failed: an attempt that was overtaken by a    *)
(* retry settles and publishes nothing.                                    *)
JobFollowsTask ==
  \A j \in Jobs : Exists(j) =>
    /\ jobs[j].status = "queued" <=> tasks[jobs[j].task].status \in Live
    /\ jobs[j].status \in Ended => tasks[jobs[j].task].status = jobs[j].status
    /\ \A t \in Tasks \ {jobs[j].task} : tasks[t].job = j => tasks[t].status = "failed"

(* A cleaning job belongs to a parse job that exists and is complete, also *)
(* while either is deleted, retried or claimed.                            *)
CleanedFromCompleted ==
  \A j \in Jobs : ~IsParse(j) /\ Exists(j) => jobs[jobs[j].source].status = "completed"

(* lifecycle.py: "Only restore a parsing document when no other live parse *)
(* can still publish". The callback reads before it writes: a parse that   *)
(* is asked for in between is live and its document no longer parsing.     *)
RestoredOnlyIfIdle ==
  [][\A t \in Tasks :
       /\ closing[t] # None /\ CommitEnd(t)
       /\ doc.status = "parsing" /\ doc'.status # "parsing"
       => \A j \in Jobs : IsParse(j) => jobs'[j].status # "queued"]_documentVars
=============================================================================
