------------------------------ MODULE Curation ------------------------------
(***************************************************************************)
(* From generated candidates to a finalized dataset or benchmark: reviews  *)
(* and edits of candidates, their promotion to curated items, revisions    *)
(* and approvals of items, and the composition of one container.           *)
(* services/candidate_service.py, curated_item_service.py,                 *)
(* composition_service.py, composition_policy.py.                          *)
(*                                                                         *)
(* A content is named by its revision number. A request that holds the row *)
(* it decides about, or decides by a conditional UPDATE, is one step; an   *)
(* approval, an addition and a finalization read rows that they do not     *)
(* lock, and take several.                                                 *)
(***************************************************************************)
EXTENDS Naturals, Sequences

CONSTANTS Candidates,
          Requests,       \* requests in progress at the same time
          None,           \* NULL
          MaxRevision,    \* bound: revisions of a candidate and of an item
          MaxRecords,     \* bound: approvals
          MaxCompositions \* bound: changes of the container

ASSUME CurationAssumption ==
  /\ MaxRevision \in Nat \ {0} /\ MaxRecords \in Nat /\ MaxCompositions \in Nat
  /\ None \notin Nat

VARIABLES candidate, \* rows of candidates
          item,      \* the curated item of a candidate, if it was promoted
          records,   \* approve records
          container, \* the dataset or benchmark and its memberships
          shown,     \* history: the members at each composition revision
          request    \* what each request has read

vars == <<candidate, item, records, container, shown, request>>

Revisions == 1..MaxRevision
Supporting == {"supported", "partially_supported"}
Verdicts == Supporting \union {"rejected"} \* unsupported or out_of_scope

(* The status is that of the verdict: without one, generated or edited.    *)
(* judged, a history: the revision that the reviewer had on the screen.    *)
Candidate == [revision : Revisions, verdict : Verdicts \union {None},
              reviewed : Revisions \union {None}, judged : Revisions \union {None}]

(* from: the revision of the candidate whose content was promoted.         *)
Item == [status : {"draft", "approved"}, current : Revisions, from : Revisions,
         approved : Revisions \union {None}, record : 1..MaxRecords \union {None}]
ASSUME NullAssumption == None \notin Item

Record == [item : Candidates, revision : Revisions]
Member == [item : Candidates, revision : Revisions, record : 1..MaxRecords]

(* confirmed: the revision that finalize was called with.                  *)
Container == [benchmark : BOOLEAN, status : {"draft", "finalized", "deleted"},
              members : SUBSET Member, revision : 0..MaxCompositions,
              confirmed : 0..MaxCompositions \union {None}, valid : SUBSET Member]

(* valid, a history: the members whose approval was current at the lock.   *)
Request == [pc : {"idle", "approving", "adding", "finalizing"},
            item : Candidates \union {None}, revision : Revisions \union {None},
            record : 1..MaxRecords \union {None},
            confirmed : 0..MaxCompositions \union {None},
            checked : SUBSET Member, valid : SUBSET Member]
Idle == [pc |-> "idle", item |-> None, revision |-> None, record |-> None,
         confirmed |-> None, checked |-> {}, valid |-> {}]

Init == /\ candidate = [c \in Candidates |-> [revision |-> 1, verdict |-> None,
                                              reviewed |-> None, judged |-> None]]
        /\ item = [c \in Candidates |-> None]
        /\ records = <<>>
        /\ container \in [benchmark : BOOLEAN, status : {"draft"}, members : {{}},
                          revision : {0}, confirmed : {None}, valid : {{}}]
        /\ shown = [n \in 0..MaxCompositions |-> {}]
        /\ request = [q \in Requests |-> Idle]
-----------------------------------------------------------------------------
(* Candidates. Every operation holds the row.                              *)
Promoted(c) == item[c] # None
Approved(c) == candidate[c].verdict \in Supporting

(* Bug: the expected revision of the request is ignored.                   *)
AnyRevision(c, seen) == seen \in 1..candidate[c].revision

(* _require_revision: the client saw the content that is there.            *)
Expected(c, seen) == seen = candidate[c].revision

Edited(c) == [revision |-> candidate[c].revision + 1, verdict |-> None,
              reviewed |-> None, judged |-> None]

UpdateContent(c, seen) ==
  /\ Expected(c, seen) /\ ~Promoted(c)
  /\ candidate[c].revision < MaxRevision
  /\ candidate' = [candidate EXCEPT ![c] = Edited(c)]
  /\ UNCHANGED <<item, records, container, shown, request>>

Review(c, seen, verdict) ==
  /\ Expected(c, seen) /\ ~Promoted(c)
  /\ candidate' = [candidate EXCEPT ![c].verdict = verdict,
                     ![c].reviewed = candidate[c].revision, ![c].judged = seen]
  /\ UNCHANGED <<item, records, container, shown, request>>

(* promote_to_curated: the item with its first revision.                   *)
Promote(c, seen) ==
  /\ Expected(c, seen) /\ ~Promoted(c)
  /\ Approved(c) /\ candidate[c].reviewed = candidate[c].revision
  /\ item' = [item EXCEPT ![c] = [status |-> "draft", current |-> 1,
                                  from |-> candidate[c].revision,
                                  approved |-> None, record |-> None]]
  /\ UNCHANGED <<candidate, records, container, shown, request>>
-----------------------------------------------------------------------------
(* Items. An edit and a withdrawal are conditional UPDATEs.                *)
Drafted(c) == Promoted(c) /\ item[c].status = "draft"
Accepted(c) == Promoted(c) /\ item[c].status = "approved"

UpdateItem(c, expected) ==
  /\ Drafted(c) /\ item[c].current = expected
  /\ expected < MaxRevision
  /\ item' = [item EXCEPT ![c].current = expected + 1]
  /\ UNCHANGED <<candidate, records, container, shown, request>>

(* review with needs_revision: the approval is withdrawn.                  *)
Withdraw(c, expected) ==
  /\ Accepted(c) /\ item[c].current = expected
  /\ item' = [item EXCEPT ![c].status = "draft", ![c].approved = None, ![c].record = None]
  /\ UNCHANGED <<candidate, records, container, shown, request>>

Becomes(q, state) == request' = [request EXCEPT ![q] = state]

(* review with approve, first the gates, on rows that are not locked.      *)
BeginApprove(q, c, expected) ==
  /\ request[q].pc = "idle"
  /\ Drafted(c) /\ item[c].current = expected /\ Approved(c)
  /\ Becomes(q, [Idle EXCEPT !.pc = "approving", !.item = c, !.revision = expected])
  /\ UNCHANGED <<candidate, item, records, container, shown>>

(* Bug: the approval does not look at the revision again.                  *)
StillDraft(q) == Drafted(request[q].item)

StillThatDraft(q) == Drafted(request[q].item) /\ item[request[q].item].current = request[q].revision

(* Then the record and the conditional UPDATE, which decides.              *)
Approve(q) ==
  LET c == request[q].item
  IN /\ request[q].pc = "approving" /\ StillThatDraft(q)
     /\ Len(records) < MaxRecords
     /\ records' = Append(records, [item |-> c, revision |-> request[q].revision])
     /\ item' = [item EXCEPT ![c].status = "approved", ![c].approved = request[q].revision,
                             ![c].record = Len(records) + 1]
     /\ Becomes(q, Idle)
     /\ UNCHANGED <<candidate, container, shown>>
-----------------------------------------------------------------------------
(* The container. FOR UPDATE on its row until the request ends.            *)
ContainerFree(q) == \A p \in Requests \ {q} : request[p].pc \notin {"adding", "finalizing"}

(* assert_item_eligible.                                                   *)
Eligible(c) ==
  Accepted(c) /\ (container.benchmark => candidate[c].verdict = "supported")

(* Bug: an item may be added again after a new approval.                   *)
AddedAgain(c) == Eligible(c)

Addable(c) == Eligible(c) /\ c \notin {m.item : m \in container.members}

(* A new membership, or one less: the revision and the hash of the members.*)
Recomposes(members) ==
  /\ container.revision < MaxCompositions
  /\ container' = [container EXCEPT !.members = members, !.revision = @ + 1]
  /\ shown' = [shown EXCEPT ![container.revision + 1] = members]

(* add_membership: the item is read under the lock of the container only.  *)
BeginAdd(q, c) ==
  /\ request[q].pc = "idle" /\ ContainerFree(q)
  /\ container.status = "draft"
  /\ Addable(c)
  /\ Becomes(q, [Idle EXCEPT !.pc = "adding", !.item = c,
                   !.revision = item[c].approved, !.record = item[c].record])
  /\ UNCHANGED <<candidate, item, records, container, shown>>

Add(q) ==
  /\ request[q].pc = "adding"
  /\ Recomposes(container.members \union
                  {[item |-> request[q].item, revision |-> request[q].revision,
                    record |-> request[q].record]})
  /\ Becomes(q, Idle)
  /\ UNCHANGED <<candidate, item, records>>

(* remove_membership.                                                      *)
RemoveMember(q, m) ==
  /\ request[q].pc = "idle" /\ ContainerFree(q)
  /\ container.status = "draft" /\ m \in container.members
  /\ Recomposes(container.members \ {m})
  /\ UNCHANGED <<candidate, item, records, request>>

(* Bug: any current approval will do, not only the one that was pinned.    *)
ApprovedSomehow(m) == Eligible(m.item)

(* finalize accepts a member: eligible, with the pointers that it pinned.  *)
PinIsCurrent(m) ==
  Eligible(m.item) /\ item[m.item].approved = m.revision /\ item[m.item].record = m.record

CurrentMembers == {m \in container.members : item[m.item].record = m.record}

(* Bug: finalize does not compare with what the reviewer confirms.         *)
AnyComposition(seen) == seen \in 0..container.revision

Confirmed(seen) == seen = container.revision

(* finalize: under the lock, the expected revision and hash.               *)
BeginFinalize(q, seen) ==
  /\ request[q].pc = "idle" /\ ContainerFree(q)
  /\ container.status = "draft" /\ Confirmed(seen)
  /\ Becomes(q, [Idle EXCEPT !.pc = "finalizing", !.confirmed = seen, !.valid = CurrentMembers])
  /\ UNCHANGED <<candidate, item, records, container, shown>>

(* The members one after the other, each by reads of their own.            *)
CheckMember(q, m) ==
  /\ request[q].pc = "finalizing"
  /\ m \in container.members \ request[q].checked
  /\ PinIsCurrent(m)
  /\ request' = [request EXCEPT ![q].checked = @ \union {m}]
  /\ UNCHANGED <<candidate, item, records, container, shown>>

Finalize(q) ==
  /\ request[q].pc = "finalizing"
  /\ request[q].checked = container.members
  /\ container' = [container EXCEPT !.status = "finalized",
                     !.confirmed = request[q].confirmed, !.valid = request[q].valid]
  /\ Becomes(q, Idle)
  /\ UNCHANGED <<candidate, item, records, shown>>

(* delete_dataset, delete_benchmark: the memberships go with it.           *)
Delete(q) ==
  /\ request[q].pc = "idle" /\ ContainerFree(q)
  /\ container.status # "deleted"
  /\ container' = [container EXCEPT !.status = "deleted", !.members = {}, !.valid = {}]
  /\ UNCHANGED <<candidate, item, records, shown, request>>

(* A gate refuses the request, or its process dies: rolled back.           *)
Drop(q) ==
  /\ request[q].pc # "idle"
  /\ Becomes(q, Idle)
  /\ UNCHANGED <<candidate, item, records, container, shown>>
-----------------------------------------------------------------------------
OfCandidate(c) ==
  \E seen \in Revisions : \/ UpdateContent(c, seen) \/ Promote(c, seen)
                          \/ \E verdict \in Verdicts : Review(c, seen, verdict)
                          \/ UpdateItem(c, seen) \/ Withdraw(c, seen)
Serve(q) == \/ \E c \in Candidates : BeginAdd(q, c) \/ \E n \in Revisions : BeginApprove(q, c, n)
            \/ Approve(q) \/ Add(q)
            \/ \E m \in container.members : RemoveMember(q, m) \/ CheckMember(q, m)
            \/ \E seen \in 0..MaxCompositions : BeginFinalize(q, seen)
            \/ Finalize(q) \/ Delete(q) \/ Drop(q)

Next == \/ \E c \in Candidates : OfCandidate(c)
        \/ \E q \in Requests : Serve(q)

Spec == Init /\ [][Next]_vars
-----------------------------------------------------------------------------
(* The variables have their types, and no item is twice in the container.  *)
TypeOK ==
  /\ candidate \in [Candidates -> Candidate]
  /\ item \in [Candidates -> Item \union {None}]
  /\ records \in Seq(Record) /\ Len(records) <= MaxRecords
  /\ container \in Container
  /\ shown \in [0..MaxCompositions -> SUBSET Member]
  /\ request \in [Requests -> Request]
  /\ \A m, n \in container.members : m.item = n.item => m = n

(* An item was promoted from the content that its reviewer had seen and    *)
(* supported, and its candidate has not changed since.                     *)
PromotedAsReviewed ==
  \A c \in Candidates : Promoted(c) =>
    /\ candidate[c].revision = item[c].from
    /\ candidate[c].reviewed = item[c].from /\ candidate[c].judged = item[c].from
    /\ Approved(c)

(* An approved item is approved for the content it has, by a record of its *)
(* own for that very revision; a member pins such a pair, whatever has     *)
(* become of its item, and a benchmark's comes from a supported candidate. *)
Binds(c, revision, record) ==
  record \in DOMAIN records /\ records[record] = [item |-> c, revision |-> revision]
ApprovalsBind ==
  /\ \A c \in Candidates : Accepted(c) =>
       item[c].approved = item[c].current /\ Binds(c, item[c].approved, item[c].record)
  /\ \A m \in container.members :
       /\ Binds(m.item, m.revision, m.record)
       /\ container.benchmark => candidate[m.item].verdict = "supported"

(* A finalized container holds, for good, exactly the members that the     *)
(* reviewer confirmed: a composition revision names one set of members.    *)
FinalizedAsConfirmed ==
  container.status = "finalized" => container.members = shown[container.confirmed]

(* finalize reads the members one by one while approvals are withdrawn and *)
(* given again: still there was a moment, its lock, at which the pinned    *)
(* approval of every member was in force.                                  *)
FinalizedWereApproved ==
  container.status = "finalized" => container.valid = container.members
=============================================================================
