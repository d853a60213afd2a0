------------------------- MODULE IdempotentRequests -------------------------
(***************************************************************************)
(* Requests with an Idempotency-Key that create a business row (a job) and *)
(* a task for it: starting a parse, starting a cleaning and requesting an  *)
(* export; and the retry of such a task once it failed.                    *)
(* services/idempotency.py, services/export_trigger.py, the create and     *)
(* retry parts of services/task_service.py and the endpoints of            *)
(* routers/documents.py and routers/tasks.py.                              *)
(*                                                                         *)
(* The endpoints create tasks of different types, which never meet, so a   *)
(* behaviour has requests to one of them. Transactions are READ COMMITTED: *)
(* a query sees what is committed when it runs, and the rows a request     *)
(* inserted are invisible until it commits. A retry touches only committed *)
(* rows, which it locks, and is one step. A task carries its job's         *)
(* identifier and says which retry it is, 0 for the task the job was       *)
(* created with; the job's task_id is the task of its last retry.          *)
(***************************************************************************)
EXTENDS Naturals, SequencesExt

CONSTANTS Endpoints, \* among "parse", "clean", "export"
          Requests, \* requests in progress at the same time
          Parts,    \* what stands between the colons of a client key
          Keys,     \* client keys: non-empty sequences of parts, none a digest
          Contents, \* what a request asks for: the profile, the parse job, the source
          Asks,     \* the pairs of key and content that clients send
          MaxJobs   \* bound: identifiers drawn

NoKey == <<>>  \* a request without the header

ASSUME RequestAssumption ==
  /\ Endpoints \subseteq {"parse", "clean", "export"}
  /\ Keys \subseteq Seq(Parts) \ {<<>>}
  /\ \A part \in Parts : part \notin Seq(Contents \union Nat)
  /\ Contents # {}
  /\ Asks \subseteq (Keys \union {NoKey}) \X Contents
  /\ MaxJobs \in Nat

VARIABLES endpoint, \* what the requests ask for
          jobs,    \* committed parse jobs, cleaning jobs or exports
          tasks,   \* committed tasks of this type
          drawn,   \* identifiers drawn with uuid4()
          request  \* what each request asked for and has done so far

stored == <<jobs, tasks, drawn>>
requestVars == <<endpoint, stored, request>>

(* live: the job is queued or processing and so is its task; cancelled:    *)
(* its task is at least asked to stop.                                     *)
JobRow  == [id : Nat, content : Contents, retries : Nat,
            status : {"live", "completed", "failed", "cancelled"}]
TaskRow == [job : Nat, try : Nat, key : Seq(Parts \union Seq(Contents \union Nat)),
            content : Contents]

RequestState == [pc : {"idle", "asked", "locked", "creating", "inserting",
                       "committing", "answered"},
                 key : Keys \union {NoKey}, content : Contents,
                 job : Nat,              \* the job inserted, 0 for none
                 task : Nat,             \* the job of the task to answer with
                 reply : {"none", "accepted", "conflict", "error"}]

Idle == [pc |-> "idle", key |-> NoKey, content |-> CHOOSE c \in Contents : TRUE,
         job |-> 0, task |-> 0, reply |-> "none"]

RequestInit ==
  /\ endpoint \in Endpoints
  /\ jobs = {}
  /\ tasks = {}
  /\ drawn = 0
  /\ request = [r \in Requests |-> Idle]
-----------------------------------------------------------------------------
Step(r, change) == request' = [request EXCEPT ![r] = change]

Accept(r, job) == Step(r, [request[r] EXCEPT !.pc = "answered", !.task = job,
                                             !.reply = "accepted"])
Refuse(r, why) == Step(r, [request[r] EXCEPT !.pc = "answered", !.reply = why])

(* request_digest of the payload each endpoint passes: those of a cleaning *)
(* and of an export contain the identifier of the row just inserted.       *)
Digest(content, job) == IF endpoint = "parse" THEN <<content>> ELSE <<content, job>>

(* build_idempotency_key: "key:digest", NULL without a client key.         *)
CompositeKey(key, content, job) ==
  IF key = NoKey THEN NoKey ELSE Append(key, Digest(content, job))

(* retry_of_task_id IS NULL: the task was created with its job.            *)
Originals == {t \in tasks : t.try = 0}

(* The task that the job's task_id names.                                  *)
IsCurrent(t, j) == t.job = j.id /\ t.try = j.retries

(* ensure_idempotency_compatible: what follows the first colon of the      *)
(* stored key is the digest of the request.                                *)
SameDigest(t, content, job) == Tail(t.key) = <<Digest(content, job)>>

(* find_task_by_client_key: the stored key begins with "key:", which the   *)
(* raw key of a retry may, too.                                            *)
FoundBy(key) == {t \in tasks : key # NoKey /\ IsStrictPrefix(key, t.key)}

(* idempotent_create_task up to the call of create: no row leads on, one   *)
(* row is compared, and with several scalar_one_or_none raises.            *)
Idempotent(r, job, create) ==
  LET found == FoundBy(request[r].key)
  IN \/ found = {} /\ create
     \/ \E t \in found :
          /\ found = {t}
          /\ IF SameDigest(t, request[r].content, job)
             THEN Accept(r, t.job) ELSE Refuse(r, "conflict")
     \/ Cardinality(found) > 1 /\ Refuse(r, "error")

OwnKey(r) == CompositeKey(request[r].key, request[r].content, request[r].job)

(* _find_by_idempotency: the committed task with the same composite key.   *)
Twins(r) == {t \in tasks : t.key # NoKey /\ t.key = OwnKey(r)}

InsertedByAnother(r) ==
  \E q \in Requests \ {r} :
    /\ request[q].pc = "committing" /\ request[q].job = request[q].task
    /\ OwnKey(r) # NoKey /\ OwnKey(q) = OwnKey(r)
-----------------------------------------------------------------------------
(* A client sends a request, or sends it again.                            *)
Ask(r) ==
  /\ request[r].pc = "idle"
  /\ \E ask \in Asks : Step(r, [Idle EXCEPT !.pc = "asked", !.key = ask[1],
                                            !.content = ask[2]])
  /\ UNCHANGED <<endpoint, stored>>

Proceed(r) == Step(r, [request[r] EXCEPT !.pc = "creating"])

(* trigger_parse: the key is looked up before anything is inserted.        *)
ParseFind(r) ==
  /\ endpoint = "parse" /\ request[r].pc = "asked"
  /\ Idempotent(r, 0, Proceed(r))
  /\ UNCHANGED <<endpoint, stored>>

SameFingerprint(job, content) == job.content = content

(* create_export_trigger: the exports whose current task has the key; one  *)
(* of them is compared with the fingerprint of the request. created_at is  *)
(* the start of the inserting transaction, so any of them may be the first. *)
ExportFind(r) ==
  LET found == {j \in jobs : \E t \in FoundBy(request[r].key) : IsCurrent(t, j)}
  IN /\ endpoint = "export" /\ request[r].pc = "asked"
     /\ \/ found = {} /\ Proceed(r)
        \/ \E j \in found : IF SameFingerprint(j, request[r].content)
                            THEN Accept(r, j.id) ELSE Refuse(r, "conflict")
     /\ UNCHANGED <<endpoint, stored>>

InTransaction == {"locked", "creating", "inserting", "committing"}

(* Bug: the document is read without FOR UPDATE.                           *)
NobodyWaits == InTransaction # {}

DocumentFree == \A r \in Requests : request[r].pc \notin InTransaction

(* start_cleaning: waits for the document's row lock.                      *)
CleanLock(r) ==
  /\ endpoint = "clean" /\ request[r].pc = "asked"
  /\ DocumentFree
  /\ Step(r, [request[r] EXCEPT !.pc = "locked"])
  /\ UNCHANGED <<endpoint, stored>>

(* A live or completed job of the same parse result is answered with,      *)
(* whatever the key.                                                       *)
Reusable(content) ==
  {j \in jobs : j.content = content /\ j.status \in {"live", "completed"}}

CleanFind(r) ==
  /\ request[r].pc = "locked"
  /\ \/ \E j \in Reusable(request[r].content) : Accept(r, j.id)
     \/ Reusable(request[r].content) = {} /\ Proceed(r)
  /\ UNCHANGED <<endpoint, stored>>
-----------------------------------------------------------------------------
(* The job is inserted with a fresh identifier.                            *)
InsertJob(r) ==
  /\ request[r].pc = "creating" /\ request[r].job = 0
  /\ drawn < MaxJobs
  /\ drawn' = drawn + 1
  /\ Step(r, [request[r] EXCEPT !.job = drawn + 1])
  /\ UNCHANGED <<endpoint, jobs, tasks>>

(* The last lookup before the task is inserted: create_task looks for the  *)
(* composite key; a cleaning and an export look for the client's key only  *)
(* now.                                                                    *)
FindTask(r) ==
  LET insert == Step(r, [request[r] EXCEPT !.pc = "inserting"])
  IN /\ request[r].pc = "creating" /\ request[r].job # 0
     /\ IF endpoint = "parse"
        THEN \/ Twins(r) = {} /\ insert
             \/ \E t \in Twins(r) :
                  Step(r, [request[r] EXCEPT !.pc = "committing", !.task = t.job])
        ELSE Idempotent(r, request[r].job, insert)
     /\ UNCHANGED <<endpoint, stored>>

(* INSERT of the task: the unique constraint waits for a transaction that  *)
(* inserted the same key and refuses a committed one.                      *)
InsertTask(r) ==
  /\ request[r].pc = "inserting"
  /\ ~InsertedByAnother(r)
  /\ IF Twins(r) = {}
     THEN Step(r, [request[r] EXCEPT !.pc = "committing", !.task = request[r].job])
     ELSE Refuse(r, "error")
  /\ UNCHANGED <<endpoint, stored>>

Commit(r) ==
  LET me == request[r]
  IN /\ me.pc = "committing"
     /\ jobs' = jobs \union {[id |-> me.job, content |-> me.content, retries |-> 0,
                               status |-> "live"]}
     /\ tasks' = IF me.task = me.job
                 THEN tasks \union {[job |-> me.job, try |-> 0, key |-> OwnKey(r),
                                     content |-> me.content]}
                 ELSE tasks
     /\ Accept(r, me.task)
     /\ UNCHANGED <<endpoint, drawn>>

(* The client has its answer, or the connection or the process broke.      *)
Forget(r) == /\ request[r].pc # "idle"
             /\ Step(r, Idle)
             /\ UNCHANGED <<endpoint, stored>>

(* The task of a job ends, or is asked to stop.                            *)
JobEnds ==
  /\ \E j \in jobs, outcome \in {"completed", "failed", "cancelled"} :
       /\ j.status = "live"
       /\ \E t \in tasks : IsCurrent(t, j)
       /\ jobs' = (jobs \ {j}) \union {[j EXCEPT !.status = outcome]}
  /\ UNCHANGED <<endpoint, tasks, drawn, request>>

(* POST /tasks/{tid}/retry of the failed task of a job: a new task with    *)
(* the client's key as it is, and the job queued again with it, whatever   *)
(* jobs were created since. The unique key refuses a key that is taken; a  *)
(* job whose task_id names another task by now is a conflict.              *)
Retry(j, key) ==
  /\ j.status = "failed" /\ \E t \in tasks : IsCurrent(t, j)
  /\ \A t \in tasks : t.key # key
  /\ tasks' = tasks \union {[job |-> j.id, try |-> j.retries + 1, key |-> key,
                              content |-> j.content]}
  /\ jobs' = (jobs \ {j}) \union {[j EXCEPT !.status = "live", !.retries = @ + 1]}
  /\ UNCHANGED <<endpoint, drawn, request>>

RequestNext ==
  \/ \E r \in Requests :
       \/ Ask(r) \/ Forget(r)
       \/ ParseFind(r) \/ ExportFind(r) \/ CleanLock(r) \/ CleanFind(r)
       \/ InsertJob(r) \/ FindTask(r) \/ InsertTask(r) \/ Commit(r)
  \/ JobEnds
  \/ \E j \in jobs, key \in Keys : Retry(j, key)

RequestSpec == RequestInit /\ [][RequestNext]_requestVars
-----------------------------------------------------------------------------
RequestTypeOK ==
  /\ endpoint \in Endpoints
  /\ jobs \subseteq JobRow
  /\ tasks \subseteq TaskRow
  /\ drawn \in Nat
  /\ request \in [Requests -> RequestState]
  /\ \A t \in tasks : \E j \in jobs : j.id = t.job /\ j.content = t.content

(* However many equal requests with one key run at the same time or are    *)
(* sent again after an answer was lost, they create one task; the tasks of *)
(* retries are not theirs. Stated at services/idempotency.py:3 and         *)
(* services/export_trigger.py:86.                                          *)
SameRequestOneTask ==
  \A t, u \in Originals :
    (t.key # NoKey /\ u.key # NoKey /\ Front(t.key) = Front(u.key)
       /\ t.content = u.content) => t = u

(* The same of parse requests, for which the unique key decides, and of    *)
(* cleaning requests, which the lock on the document puts in a row.        *)
OneTaskButForExports == endpoint # "export" => SameRequestOneTask

(* A request is refused because of its key only if that key was used for   *)
(* another request (services/idempotency.py:3).                            *)
RefusedOnlyIfReused ==
  \A r \in Requests : request[r].reply = "conflict" =>
    \E t \in Originals : t.key # NoKey /\ Front(t.key) = request[r].key
                           /\ t.content # request[r].content

(* The same of parse requests, whose digest contains nothing drawn for them. *)
ParseRefusedOnlyIfReused == endpoint = "parse" => RefusedOnlyIfReused

(* An accepted request is answered with a task that does what was asked.   *)
AnswersMatch ==
  \A r \in Requests : request[r].reply = "accepted" =>
    \E t \in tasks : t.job = request[r].task /\ t.content = request[r].content

(* Double clicks share one live workbench (routers/documents.py:457): of   *)
(* the cleaning jobs of a parse result that no retry revived, one is live  *)
(* or completed, with or without keys.                                     *)
OneWorkbenchButForRetries ==
  endpoint = "clean" =>
    \A c \in Contents : Cardinality({j \in Reusable(c) : j.retries = 0}) <= 1

(* The same of all of them, as docs/DevLog.md:1210 has it. A retry revives *)
(* a failed job without a look at the others (workers/lifecycle.py:166).   *)
OneWorkbench ==
  endpoint = "clean" => \A c \in Contents : Cardinality(Reusable(c)) <= 1

(* A job and its task are committed together (routers/documents.py:310):   *)
(* no job is left that nothing will ever run.                              *)
EveryJobHasItsTask == \A j \in jobs : \E t \in tasks : t.job = j.id
=============================================================================
