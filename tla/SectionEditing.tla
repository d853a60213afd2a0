--------------------------- MODULE SectionEditing ---------------------------
(***************************************************************************)
(* Editing, submitting, reviewing and assigning one section of a document: *)
(* services/section_service.py behind routers/sections.py. Sections share  *)
(* nothing, so one is modelled.                                            *)
(*                                                                         *)
(* Every request has a database session of its own (database.get_db) and   *)
(* commits when it is answered. The router reads the section before the    *)
(* service is called, and the session keeps that copy (its identity map):  *)
(* a later SELECT ... FOR UPDATE waits for the row lock but returns the    *)
(* copy, unless it is told to populate the existing object. A flush writes *)
(* only the columns that differ from the copy.                             *)
(*                                                                         *)
(* Redis is a cache nobody reads for a decision and is left out.           *)
(***************************************************************************)
EXTENDS Integers, Sequences, FiniteSets

CONSTANTS Users, NoUser,
          Admins,      \* users who may complete a section assigned to another
          Requests,    \* requests in progress at the same time
          NoRequest,
          Ops,         \* the operations asked for in each
          TTL,         \* LEASE_TTL_SECONDS, in ticks
          MaxRevision, \* bound: saves
          MaxLeases,   \* bound: lease rows
          MaxAge       \* bound: ticks between a heartbeat's read and its write

Editing    == {"save", "submit"}
LeaseCalls == {"heartbeat", "release"}
Plain      == {"acquire", "accept", "reject", "assign", "complete", "return"}

ASSUME SectionAssumption ==
  /\ NoUser \notin Users /\ NoRequest \notin Requests
  /\ Admins \subseteq Users
  /\ Ops \in [Requests -> SUBSET (Editing \union LeaseCalls \union Plain)]
  /\ TTL \in Nat \ {0}
  /\ MaxRevision \in Nat /\ MaxLeases \in Nat /\ MaxAge \in Nat

VARIABLES section, \* the row of table sections
          leases,  \* rows of section_leases, by insertion; the index is the id
          history, \* rows of section_revisions
          lock,    \* the request that holds the row lock of the section
          request  \* what each request in progress asked for and remembers

vars == <<section, leases, history, lock, request>>

Status     == {"draft", "in_cleaning", "review_pending", "accepted", "rejected"}
Assignment == {"unassigned", "assigned", "in_progress", "completed", "returned"}

(* text names a content by the save that wrote it; 0 is the parsed text.   *)
SectionRow == [revision : Nat, text : Nat, status : Status,
               assignment : Assignment, assignee : Users \union {NoUser}]

(* left: ticks until expires_at.                                           *)
LeaseRow == [user : Users, left : Nat, released : BOOLEAN]

RevisionRow == [by : Users, from : Nat, text : Nat]

Request == [pc : {"idle", "loaded", "locked", "checked"},
            op : Editing \union LeaseCalls \union Plain,
            user : Users \union {NoUser},
            lease : Nat, expected : Nat, \* lease_id and expected_revision sent
            seen : SectionRow,           \* the session's copy of the section
            age : Nat]                   \* of the clock reading it works with

NewSection == [revision |-> 0, text |-> 0, status |-> "draft",
               assignment |-> "unassigned", assignee |-> NoUser]

IdleRequest == [pc |-> "idle", op |-> "acquire", user |-> NoUser, lease |-> 0,
                expected |-> 0, seen |-> NewSection, age |-> 0]

Init == /\ section = NewSection
        /\ leases = <<>>
        /\ history = <<>>
        /\ lock = NoRequest
        /\ request = [r \in Requests |-> IdleRequest]
-----------------------------------------------------------------------------
Live(l) == ~leases[l].released /\ leases[l].left > 0

(* What the WHERE clauses of the lease queries ask of the lease sent.      *)
OwnUnreleased(r) == /\ request[r].lease \in DOMAIN leases
                    /\ leases[request[r].lease].user = request[r].user
                    /\ ~leases[request[r].lease].released

OwnLive(r) == OwnUnreleased(r) /\ Live(request[r].lease)

Holders == {l \in DOMAIN leases : Live(l)}

(* Bug: nobody waits for the row lock.                                     *)
NeverWaits == lock \in Requests \union {NoRequest}

SectionFree == lock = NoRequest

Unlocked == NoRequest

(* expires_at of a lease granted by a clock reading of that age.           *)
Granted(age) == IF age < TTL THEN TTL - age ELSE 0

(* Bug: an UPDATE writes the whole row.                                    *)
WholeRow(seen, new, stored) == new

(* One column of an UPDATE: written only if it differs from the copy.      *)
Column(seen, new, stored) == IF new # seen THEN new ELSE stored

Flush(seen, new) ==
  [revision   |-> Column(seen.revision, new.revision, section.revision),
   text       |-> Column(seen.text, new.text, section.text),
   status     |-> Column(seen.status, new.status, section.status),
   assignment |-> Column(seen.assignment, new.assignment, section.assignment),
   assignee   |-> Column(seen.assignee, new.assignee, section.assignee)]

SetRequest(r, state) == request' = [request EXCEPT ![r] = state]
Answer(r) == SetRequest(r, IdleRequest)
-----------------------------------------------------------------------------
(* A request arrives and the router reads the section.                     *)
Arrives(r, op, user, lease, expected) ==
  /\ request[r].pc = "idle"
  /\ SetRequest(r, [pc |-> "loaded", op |-> op, user |-> user, lease |-> lease,
                    expected |-> expected, seen |-> section, age |-> 0])
  /\ UNCHANGED <<section, leases, history, lock>>

(* A client sends a lease it was once given and a revision it has seen.    *)
Receive(r) ==
  \E user \in Users :
    \/ \E op \in Ops[r] \intersect Editing, l \in DOMAIN leases,
          n \in 0..section.revision : Arrives(r, op, user, l, n)
    \/ \E op \in Ops[r] \intersect LeaseCalls, l \in DOMAIN leases :
          Arrives(r, op, user, l, 0)
    \/ \E op \in Ops[r] \intersect Plain : Arrives(r, op, user, 0, 0)

(* acquire_lease, a transaction under the row lock: release what ran out,  *)
(* then renew the caller's lease, refuse, or insert a new one.             *)
Expire(lease) == [lease EXCEPT !.released = @ \/ lease.left = 0]

Swept == [l \in DOMAIN leases |-> Expire(leases[l])]

Acquire(r) ==
  LET me == request[r].user
  IN /\ request[r].pc = "loaded" /\ request[r].op = "acquire"
     /\ SectionFree
     /\ \/ /\ Holders = {}
           /\ Len(leases) < MaxLeases
           /\ leases' = Append(Swept, [user |-> me, left |-> Granted(0), released |-> FALSE])
        \/ \E l \in Holders :
             leases' = IF leases[l].user = me
                       THEN [Swept EXCEPT ![l] = [@ EXCEPT !.left = Granted(0)]] ELSE leases
     /\ Answer(r)
     /\ UNCHANGED <<section, history, lock>>

(* heartbeat_lease and release_lease read the lease and write it later,    *)
(* without the section's lock. The clock is read before the first.         *)
LeaseRead(r) ==
  /\ request[r].pc = "loaded" /\ request[r].op \in LeaseCalls
  /\ IF (IF request[r].op = "heartbeat" THEN OwnLive(r) ELSE OwnUnreleased(r))
     THEN SetRequest(r, [request[r] EXCEPT !.pc = "checked"])
     ELSE Answer(r)
  /\ UNCHANGED <<section, leases, history, lock>>

LeaseWrite(r) ==
  LET l == request[r].lease
  IN /\ request[r].pc = "checked" /\ request[r].op \in LeaseCalls
     /\ leases' = [leases EXCEPT ![l] =
          IF request[r].op = "heartbeat"
          THEN [@ EXCEPT !.left = Granted(request[r].age)]
          ELSE [@ EXCEPT !.released = TRUE]]
     /\ Answer(r)
     /\ UNCHANGED <<section, history, lock>>
-----------------------------------------------------------------------------
(* update_section and submit_for_review.                                   *)

(* What the session holds once it has the row lock: update_section asks    *)
(* for populate_existing, submit_for_review does not.                      *)
LockedCopy(r) == IF request[r].op = "save" THEN section ELSE request[r].seen

EditLocks(r) ==
  /\ request[r].pc = "loaded" /\ request[r].op \in Editing
  /\ SectionFree
  /\ lock' = r
  /\ SetRequest(r, [request[r] EXCEPT !.pc = "locked", !.seen = LockedCopy(r)])
  /\ UNCHANGED <<section, leases, history>>

MayEdit(r) == OwnLive(r) /\ request[r].seen.revision = request[r].expected

(* The lease is asked for in the database, the revision in the copy.       *)
EditChecks(r) ==
  /\ request[r].pc = "locked"
  /\ \/ /\ MayEdit(r)
        /\ SetRequest(r, [request[r] EXCEPT !.pc = "checked"])
        /\ UNCHANGED lock
     \/ /\ ~MayEdit(r)
        /\ lock' = Unlocked
        /\ Answer(r)
  /\ UNCHANGED <<section, leases, history>>

(* The section as the session leaves it after a save, before the flush.    *)
Saved(r) ==
  [request[r].seen EXCEPT
     !.revision = request[r].expected + 1,
     !.text = Len(history) + 1,
     !.status = "in_cleaning",
     !.assignment = IF @ \in {"assigned", "returned"} THEN "in_progress" ELSE @]

SaveCommits(r) ==
  LET seen == request[r].seen
  IN /\ request[r].pc = "checked" /\ request[r].op = "save"
     /\ request[r].expected < MaxRevision
     /\ history' = Append(history, [by |-> request[r].user,
                                    from |-> request[r].expected,
                                    text |-> seen.text])
     /\ section' = Flush(seen, Saved(r))
     /\ lock' = Unlocked
     /\ Answer(r)
     /\ UNCHANGED leases

(* Bug: the submitter goes on holding the section.                         *)
KeptLease(r) == IF r \in Requests THEN leases ELSE <<>>

(* release_lease inside the submission: the lease, unless already released.*)
ReleasedLease(r) == IF OwnUnreleased(r)
                    THEN [leases EXCEPT ![request[r].lease] = [@ EXCEPT !.released = TRUE]]
                    ELSE leases

SubmitCommits(r) ==
  LET seen == request[r].seen
  IN /\ request[r].pc = "checked" /\ request[r].op = "submit"
     /\ section' = Flush(seen, [seen EXCEPT !.status = "review_pending"])
     /\ leases' = ReleasedLease(r)
     /\ lock' = Unlocked
     /\ Answer(r)
     /\ UNCHANGED history
-----------------------------------------------------------------------------
(* Operations that read, then write without a lock of their own; the       *)
(* UPDATE waits for the row lock.                                          *)
Writes(r, new) ==
  /\ request[r].pc = "loaded"
  /\ SectionFree
  /\ section' = Flush(request[r].seen, new)
  /\ Answer(r)
  /\ UNCHANGED <<leases, history, lock>>

Review(r) ==
  \/ request[r].op = "accept" /\ Writes(r, [request[r].seen EXCEPT !.status = "accepted"])
  \/ request[r].op = "reject" /\ Writes(r, [request[r].seen EXCEPT !.status = "rejected"])

(* assign_section gives the section to any user of the project.            *)
Assign(r) ==
  /\ request[r].op = "assign"
  /\ \E assignee \in Users :
       Writes(r, [request[r].seen EXCEPT
                    !.assignee = assignee,
                    !.assignment = IF @ = "in_progress" THEN @ ELSE "assigned"])

Complete(r) ==
  /\ request[r].op = "complete"
  /\ IF request[r].user \in Admins
        \/ request[r].seen.assignee \in {NoUser, request[r].user}
     THEN Writes(r, [request[r].seen EXCEPT !.assignment = "completed"])
     ELSE Writes(r, request[r].seen)

Return(r) == /\ request[r].op = "return"
             /\ Writes(r, [request[r].seen EXCEPT !.assignment = "returned"])

(* The connection breaks or the process dies: the transaction is undone.   *)
Abort(r) ==
  /\ request[r].pc # "idle"
  /\ lock' = IF lock = r THEN Unlocked ELSE lock
  /\ Answer(r)
  /\ UNCHANGED <<section, leases, history>>

(* One tick passes; a heartbeat writes at most MaxAge ticks after its read.*)
Tick ==
  /\ \A r \in Requests :
       (request[r].pc = "checked" /\ request[r].op = "heartbeat") => request[r].age < MaxAge
  /\ leases' = [l \in DOMAIN leases |->
                  [leases[l] EXCEPT !.left = IF @ > 0 THEN @ - 1 ELSE @]]
  /\ request' = [r \in Requests |->
       [request[r] EXCEPT !.age = IF /\ request[r].pc = "checked"
                                     /\ request[r].op = "heartbeat" THEN @ + 1 ELSE @]]
  /\ UNCHANGED <<section, history, lock>>
-----------------------------------------------------------------------------
Edit(r) == EditLocks(r) \/ EditChecks(r) \/ SaveCommits(r) \/ SubmitCommits(r)

Next == \/ \E r \in Requests :
             \/ Receive(r) \/ Abort(r)
             \/ Acquire(r) \/ LeaseRead(r) \/ LeaseWrite(r)
             \/ Edit(r)
             \/ Review(r) \/ Assign(r) \/ Complete(r) \/ Return(r)
        \/ Tick

Spec == Init /\ [][Next]_vars
-----------------------------------------------------------------------------
(* Types, and the row lock is held by the request that is between its      *)
(* SELECT ... FOR UPDATE and the end of its transaction, and by no other.  *)
TypeOK == /\ section \in SectionRow
          /\ leases \in Seq(LeaseRow)
          /\ history \in Seq(RevisionRow)
          /\ lock \in Requests \union {NoRequest}
          /\ request \in [Requests -> Request]
          /\ \A r \in Requests : lock = r <=>
               \/ request[r].pc = "locked"
               \/ request[r].pc = "checked" /\ request[r].op \in Editing

(* No save is lost and none is applied twice: the revisions are numbered   *)
(* without a gap, revision k + 1 kept the text that save k had written,    *)
(* and the section shows the text of the last one, however many tabs and   *)
(* editors save at the same time with whatever revision they expect.       *)
RevisionChain ==
  /\ section.revision = Len(history)
  /\ section.text = Len(history)
  /\ \A k \in DOMAIN history : history[k].from = k - 1 /\ history[k].text = k - 1

(* The partial unique index on unreleased leases never has to refuse an    *)
(* INSERT, and a heartbeat that writes late never brings back a lease that *)
(* was replaced: every lease but the newest is released.                   *)
OnlyNewestUnreleased ==
  \A l \in DOMAIN leases : l < Len(leases) => leases[l].released

(* From the moment a save or a submission was let through until it         *)
(* commits, nobody else holds the section, although leases run out, are    *)
(* released and are acquired meanwhile.                                    *)
NoForeignHolder ==
  \A r \in Requests :
    (request[r].pc = "checked" /\ request[r].op \in Editing) =>
      \A l \in Holders : leases[l].user = request[r].user

(* A submission that changes the section leaves it without a holder.       *)
SubmitHandsOver ==
  [][\A r \in Requests :
       /\ request[r].pc = "checked" /\ request[r].op = "submit"
       /\ request'[r].pc = "idle" /\ section' # section
       => Holders' = {}]_vars

(* services/section_service.py:217 and docs/DevLog.md:351 promise that a   *)
(* submission is checked against the revision the client expected, as a    *)
(* save is. What is let through is then the current revision.              *)
SubmitSeesRevision ==
  \A r \in Requests :
    (request[r].pc = "checked" /\ request[r].op = "submit") =>
      section.revision = request[r].expected

(* services/section_service.py:370: an assignment preserves in_progress if *)
(* an editor had already started.                                          *)
AssignKeepsProgress ==
  [][section.assignment = "in_progress" => section'.assignment # "assigned"]_vars
=============================================================================
