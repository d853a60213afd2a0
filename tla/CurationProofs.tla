--------------------------- MODULE CurationProofs ---------------------------
(***************************************************************************)
(* Proofs about Curation for any candidates, requests and bounds, and, in  *)
(* the second half, about SchemaMigrations for any rows, writers and       *)
(* migrations: what the services do for approvals and compositions, and    *)
(* what the database guarantees of them whoever writes.                    *)
(*                                                                         *)
(* The inductive invariant of Curation, CurationInv, has a part for the    *)
(* candidates and their items, one for the approve records, one for the    *)
(* container and one for what each request has read. That of               *)
(* SchemaMigrations, SchemaInv, has the types of the rows, the constraints *)
(* of the schema and what the triggers keep.                               *)
(***************************************************************************)
EXTENDS Curation, SchemaMigrations, FiniteSetTheorems, SequenceTheorems, TLAPS

ItemsFit == /\ candidate \in [Candidates -> Candidate]
            /\ item \in [Candidates -> Item \union {None}]
            /\ \A c \in Candidates : candidate[c].judged = candidate[c].reviewed
            /\ PromotedAsReviewed

RecordsFit ==
  /\ records \in Seq(Record) /\ Len(records) <= MaxRecords
  /\ \A n \in DOMAIN records : Promoted(records[n].item)
  /\ \A c \in Candidates : Accepted(c) =>
       item[c].approved = item[c].current /\ Binds(c, item[c].approved, item[c].record)

(* What a member pins, and what a request that adds one has read.          *)
PinnedBy(c, v, n) ==
  /\ c \in Candidates /\ Promoted(c) /\ Binds(c, v, n)
  /\ container.benchmark => candidate[c].verdict = "supported"

ContainerFits ==
  /\ container \in Container /\ shown \in [0..MaxCompositions -> SUBSET Member]
  /\ \A m, n \in container.members : m.item = n.item => m = n
  /\ \A m \in container.members : PinnedBy(m.item, m.revision, m.record)
  /\ container.status = "draft" => container.members = shown[container.revision]
  /\ FinalizedAsConfirmed /\ FinalizedWereApproved

Locks(q) == request[q].pc \in {"adding", "finalizing"}

ApproveFits(q) ==
  request[q].pc = "approving" => request[q].item \in Candidates /\ request[q].revision \in Revisions

AddFits(q) ==
  request[q].pc = "adding" =>
    /\ PinnedBy(request[q].item, request[q].revision, request[q].record)
    /\ \A m \in container.members : m.item # request[q].item

(* An approval that a member pins is in force only if it was so at the     *)
(* lock: one that is given meanwhile has a record of its own.              *)
FinalizeFits(q) ==
  request[q].pc = "finalizing" =>
    /\ request[q].confirmed = container.revision
    /\ request[q].valid \subseteq container.members /\ request[q].checked \subseteq request[q].valid
    /\ \A m \in container.members : item[m.item].record = m.record => m \in request[q].valid

RequestFits(q) == /\ ApproveFits(q) /\ AddFits(q) /\ FinalizeFits(q)
                  /\ Locks(q) => container.status = "draft"

RequestsFit == /\ request \in [Requests -> Request]
               /\ \A q \in Requests : RequestFits(q)
               /\ \A p, q \in Requests : (Locks(p) /\ Locks(q)) => p = q

CurationInv == ItemsFit /\ RecordsFit /\ ContainerFits /\ RequestsFit
-----------------------------------------------------------------------------
(* Promoted candidates and approve records are never touched again.        *)
Keeps ==
  /\ \A c \in Candidates : Promoted(c) => Promoted(c)' /\ candidate'[c] = candidate[c]
  /\ \A n \in DOMAIN records : n \in DOMAIN records' /\ records'[n] = records[n]

LEMMA PinsStay ==
  ASSUME Keeps, container'.benchmark = container.benchmark
  PROVE  \A c, v, n : PinnedBy(c, v, n) => PinnedBy(c, v, n)'
  BY DEF Keeps, PinnedBy, Binds

(* The record of an approval is a number that exists.                      *)
LEMMA BoundTypes ==
  ASSUME RecordsFit, NEW c, NEW v, NEW n, Binds(c, v, n)
  PROVE  c \in Candidates /\ v \in Revisions /\ n \in 1..MaxRecords /\ n \in 1..Len(records)
<1>1. n \in 1..Len(records) /\ records[n] \in Record /\ records[n] = [item |-> c, revision |-> v]
  BY DEF RecordsFit, Binds
<1>2. Len(records) \in Nat /\ Len(records) <= MaxRecords /\ MaxRecords \in Nat
  BY LenProperties, CurationAssumption DEF RecordsFit
<1> QED BY <1>1, <1>2 DEF Record

(* The container and the other requests after a step that leaves it alone. *)
LEMMA ContainerStays ==
  ASSUME CurationInv, Keeps, UNCHANGED <<container, shown>>,
         \A m \in container.members : item'[m.item].record = m.record => item[m.item].record = m.record
  PROVE  /\ ContainerFits'
         /\ \A q \in Requests : request'[q] = request[q] => RequestFits(q)'
<1>1. \A c, v, n : PinnedBy(c, v, n) => PinnedBy(c, v, n)'
  BY PinsStay
<1>2. ContainerFits'
  BY <1>1 DEF CurationInv, ContainerFits, FinalizedAsConfirmed, FinalizedWereApproved
<1>3. ASSUME NEW q \in Requests, request'[q] = request[q]
      PROVE  RequestFits(q)'
  <2>1. RequestFits(q)
    BY DEF CurationInv, RequestsFit
  <2> QED BY <1>1, <1>3, <2>1 DEF RequestFits, ApproveFits, AddFits, FinalizeFits, Locks
<1> QED BY <1>2, <1>3

(* The slots after a step that moves one of them.                          *)
LEMMA SlotMoves ==
  ASSUME RequestsFit, NEW q \in Requests, NEW x \in Request, Becomes(q, x),
         x.pc \in {"adding", "finalizing"} => (ContainerFree(q) \/ Locks(q)),
         RequestFits(q)', \A p \in Requests : request'[p] = request[p] => RequestFits(p)'
  PROVE  RequestsFit'
<1>1. /\ request' \in [Requests -> Request] /\ request'[q] = x
      /\ \A p \in Requests \ {q} : request'[p] = request[p]
  BY DEF RequestsFit, Becomes
<1>2. \A p \in Requests : RequestFits(p)'
  BY <1>1
<1>3. \A p \in Requests \ {q} : Locks(p)' => (Locks(p) /\ ~Locks(q)') 
  BY <1>1 DEF Locks, ContainerFree, RequestsFit
<1>4. \A p, r \in Requests : (Locks(p) /\ Locks(r))' => p = r
  BY <1>1, <1>3 DEF RequestsFit, Locks
<1> QED BY <1>1, <1>2, <1>4 DEF RequestsFit

LEMMA IdleFits == Idle \in Request /\ Idle.pc = "idle"
  BY DEF Idle, Request

LEMMA SlotFreed ==
  ASSUME RequestsFit, NEW q \in Requests, Becomes(q, Idle),
         \A p \in Requests : request'[p] = request[p] => RequestFits(p)'
  PROVE  RequestsFit'
<1>1. Idle \in Request /\ Idle.pc = "idle" /\ request'[q] = Idle
  BY IdleFits DEF RequestsFit, Becomes
<1>2. RequestFits(q)'
  BY <1>1 DEF RequestFits, ApproveFits, AddFits, FinalizeFits, Locks
<1> QED BY <1>1, <1>2, SlotMoves
-----------------------------------------------------------------------------
(* An operation of a candidate that has not been promoted.                 *)
LEMMA CandidateMoves ==
  ASSUME CurationInv, NEW c \in Candidates, ~Promoted(c), NEW x \in Candidate, x.judged = x.reviewed,
         candidate' = [candidate EXCEPT ![c] = x],
         UNCHANGED <<item, records, container, shown, request>>
  PROVE  CurationInv'
<1>1. /\ candidate' \in [Candidates -> Candidate]
      /\ \A d \in Candidates : Promoted(d) => candidate'[d] = candidate[d]
      /\ \A d \in Candidates : candidate'[d].judged = candidate'[d].reviewed
  BY DEF CurationInv, ItemsFit
<1>2. ItemsFit'
  BY <1>1 DEF CurationInv, ItemsFit, PromotedAsReviewed, Promoted, Approved
<1>3. RecordsFit'
  BY DEF CurationInv, RecordsFit, Promoted, Accepted, Binds
<1>4. Keeps
  BY <1>1 DEF Keeps, Promoted
<1>5. /\ ContainerFits' /\ \A q \in Requests : RequestFits(q)'
  BY <1>4, ContainerStays
<1>6. RequestsFit'
  BY <1>5 DEF CurationInv, RequestsFit, Locks
<1> QED BY <1>2, <1>3, <1>5, <1>6 DEF CurationInv

LEMMA UpdateContentKeeps ==
  ASSUME CurationInv, NEW c \in Candidates, NEW seen \in Revisions, UpdateContent(c, seen)
  PROVE  CurationInv'
<1>1. candidate[c] \in Candidate
  BY DEF CurationInv, ItemsFit
<1>2. Edited(c) \in Candidate /\ Edited(c).judged = Edited(c).reviewed
  BY <1>1, CurationAssumption DEF UpdateContent, Edited, Candidate, Revisions
<1> QED BY <1>2, CandidateMoves DEF UpdateContent

LEMMA ReviewKeeps ==
  ASSUME CurationInv, NEW c \in Candidates, NEW seen \in Revisions, NEW verdict \in Verdicts,
         Review(c, seen, verdict)
  PROVE  CurationInv'
<1> DEFINE old == candidate[c]
           x == [old EXCEPT !.verdict = verdict, !.reviewed = old.revision, !.judged = seen]
<1>1. candidate' = [candidate EXCEPT ![c] = x] /\ old \in Candidate
  BY DEF Review, CurationInv, ItemsFit
<1>2. x \in Candidate /\ x.judged = x.reviewed
  BY <1>1 DEF Candidate, Review, Expected
<1> QED BY <1>1, <1>2, CandidateMoves DEF Review

(* The row of an item is written; a pinned approval may be withdrawn by it *)
(* and is not put back.                                                    *)
LEMMA ItemMoves ==
  ASSUME CurationInv, NEW c \in Candidates, NEW x \in Item, item' = [item EXCEPT ![c] = x],
         UNCHANGED <<candidate, container, shown>>, RecordsFit', PromotedAsReviewed',
         \A n \in DOMAIN records : n \in DOMAIN records' /\ records'[n] = records[n],
         \A n \in DOMAIN records : x.record = n => Promoted(c) /\ item[c].record = n
  PROVE  /\ ItemsFit' /\ ContainerFits'
         /\ \A q \in Requests : request'[q] = request[q] => RequestFits(q)'
<1>1. /\ item' \in [Candidates -> Item \union {None}] /\ item'[c] = x
      /\ \A d \in Candidates \ {c} : item'[d] = item[d]
  BY DEF CurationInv, ItemsFit
<1>2. ItemsFit'
  BY <1>1 DEF CurationInv, ItemsFit
<1>3. Keeps
  BY <1>1, NullAssumption DEF Keeps, Promoted
<1>4. ASSUME NEW m \in container.members, item'[m.item].record = m.record
      PROVE  item[m.item].record = m.record
  <2>1. m.item \in Candidates /\ m.record \in DOMAIN records
    BY DEF CurationInv, ContainerFits, PinnedBy, Binds
  <2> QED BY <1>1, <1>4, <2>1
<1> QED BY <1>2, <1>3, <1>4, ContainerStays

LEMMA PromoteKeeps ==
  ASSUME CurationInv, NEW c \in Candidates, NEW seen \in Revisions, Promote(c, seen)
  PROVE  CurationInv'
<1> DEFINE x == [status |-> "draft", current |-> 1, from |-> candidate[c].revision,
                 approved |-> None, record |-> None]
<1>1. /\ item' = [item EXCEPT ![c] = x] /\ UNCHANGED <<candidate, records, container, shown, request>>
      /\ ~Promoted(c) /\ Approved(c) /\ candidate[c].reviewed = candidate[c].revision
  BY DEF Promote
<1>2. x \in Item /\ x.status = "draft" /\ x.from = candidate[c].revision /\ x.record = None
  BY CurationAssumption DEF Item, Revisions, CurationInv, ItemsFit, Candidate
<1> HIDE DEF x
<1>3. item'[c] = x /\ \A d \in Candidates \ {c} : item'[d] = item[d]
  BY <1>1 DEF CurationInv, ItemsFit
<1>4. PromotedAsReviewed'
  BY <1>1, <1>2, <1>3 DEF CurationInv, ItemsFit, PromotedAsReviewed, Promoted, Approved
<1>5. RecordsFit'
  BY <1>1, <1>2, <1>3, NullAssumption DEF CurationInv, RecordsFit, Promoted, Accepted, Binds
<1>6. \A n \in DOMAIN records : n # None
  BY LenProperties, CurationAssumption DEF CurationInv, RecordsFit
<1>7. /\ ItemsFit' /\ ContainerFits'
      /\ \A q \in Requests : request'[q] = request[q] => RequestFits(q)'
  BY <1>1, <1>2, <1>4, <1>5, <1>6, ItemMoves
<1>8. RequestsFit'
  BY <1>1, <1>7 DEF CurationInv, RequestsFit, Locks
<1> QED BY <1>5, <1>7, <1>8 DEF CurationInv

LEMMA UpdateItemKeeps ==
  ASSUME CurationInv, NEW c \in Candidates, NEW n \in Revisions, UpdateItem(c, n)
  PROVE  CurationInv'
<1> DEFINE old == item[c]
           x == [old EXCEPT !.current = n + 1]
<1>1. /\ item' = [item EXCEPT ![c] = x] /\ UNCHANGED <<candidate, records, container, shown, request>>
      /\ old.status = "draft" /\ old # None /\ n < MaxRevision
  BY DEF UpdateItem, Drafted, Promoted, CurationInv, ItemsFit
<1>2. old \in Item /\ n + 1 \in Revisions
  BY <1>1, CurationAssumption DEF CurationInv, ItemsFit, Revisions
<1> HIDE DEF old
<1>3. x \in Item /\ x.status = "draft" /\ x.from = old.from /\ x.record = old.record
  BY <1>1, <1>2 DEF Item
<1> HIDE DEF x
<1>4. item'[c] = x /\ \A d \in Candidates \ {c} : item'[d] = item[d]
  BY <1>1 DEF CurationInv, ItemsFit
<1>5. PromotedAsReviewed'
  BY <1>1, <1>3, <1>4 DEF CurationInv, ItemsFit, PromotedAsReviewed, Promoted, Approved, old
<1>6. RecordsFit'
  BY <1>1, <1>3, <1>4, NullAssumption DEF CurationInv, RecordsFit, Promoted, Accepted, Binds
<1>7. /\ ItemsFit' /\ ContainerFits'
      /\ \A q \in Requests : request'[q] = request[q] => RequestFits(q)'
  BY <1>1, <1>3, <1>5, <1>6, ItemMoves DEF Promoted, old
<1>8. RequestsFit'
  BY <1>1, <1>7 DEF CurationInv, RequestsFit, Locks
<1> QED BY <1>6, <1>7, <1>8 DEF CurationInv

LEMMA WithdrawKeeps ==
  ASSUME CurationInv, NEW c \in Candidates, NEW n \in Revisions, Withdraw(c, n)
  PROVE  CurationInv'
<1> DEFINE old == item[c]
           x == [old EXCEPT !.status = "draft", !.approved = None, !.record = None]
<1>1. /\ item' = [item EXCEPT ![c] = x] /\ UNCHANGED <<candidate, records, container, shown, request>>
      /\ old # None
  BY DEF Withdraw, Accepted, Promoted, CurationInv, ItemsFit
<1>2. old \in Item
  BY <1>1 DEF CurationInv, ItemsFit
<1> HIDE DEF old
<1>3. x \in Item /\ x.status = "draft" /\ x.from = old.from /\ x.record = None
  BY <1>1, <1>2 DEF Item
<1> HIDE DEF x
<1>4. item'[c] = x /\ \A d \in Candidates \ {c} : item'[d] = item[d]
  BY <1>1 DEF CurationInv, ItemsFit
<1>5. PromotedAsReviewed'
  BY <1>1, <1>3, <1>4 DEF CurationInv, ItemsFit, PromotedAsReviewed, Promoted, Approved, old
<1>6. RecordsFit'
  BY <1>1, <1>3, <1>4, NullAssumption DEF CurationInv, RecordsFit, Promoted, Accepted, Binds
<1>7. \A k \in DOMAIN records : k # None
  BY LenProperties, CurationAssumption DEF CurationInv, RecordsFit
<1>8. /\ ItemsFit' /\ ContainerFits'
      /\ \A q \in Requests : request'[q] = request[q] => RequestFits(q)'
  BY <1>1, <1>3, <1>5, <1>6, <1>7, ItemMoves
<1>9. RequestsFit'
  BY <1>1, <1>8 DEF CurationInv, RequestsFit, Locks
<1> QED BY <1>6, <1>8, <1>9 DEF CurationInv
-----------------------------------------------------------------------------
(* A step of a request that changes nothing but its slot.                  *)
LEMMA OnlySlot ==
  ASSUME CurationInv, UNCHANGED <<candidate, item, records, container, shown>>
  PROVE  /\ ItemsFit' /\ RecordsFit' /\ ContainerFits'
         /\ \A q \in Requests : request'[q] = request[q] => RequestFits(q)'
<1>1. Keeps
  BY DEF Keeps, Promoted
<1>2. /\ ContainerFits' /\ \A q \in Requests : request'[q] = request[q] => RequestFits(q)'
  BY <1>1, ContainerStays
<1>3. ItemsFit' /\ RecordsFit'
  BY DEF CurationInv, ItemsFit, RecordsFit, PromotedAsReviewed, Promoted, Approved, Accepted, Binds
<1> QED BY <1>2, <1>3

LEMMA BeginApproveKeeps ==
  ASSUME CurationInv, NEW q \in Requests, NEW c \in Candidates, NEW n \in Revisions,
         BeginApprove(q, c, n)
  PROVE  CurationInv'
<1> DEFINE x == [Idle EXCEPT !.pc = "approving", !.item = c, !.revision = n]
<1>1. Becomes(q, x) /\ UNCHANGED <<candidate, item, records, container, shown>>
  BY DEF BeginApprove
<1>2. x \in Request /\ x.pc = "approving" /\ x.item = c /\ x.revision = n
  BY DEF Idle, Request
<1> HIDE DEF x
<1>3. request'[q] = x
  BY <1>1 DEF Becomes, CurationInv, RequestsFit
<1>4. RequestFits(q)'
  BY <1>2, <1>3 DEF RequestFits, ApproveFits, AddFits, FinalizeFits, Locks
<1> QED BY <1>1, <1>2, <1>4, OnlySlot, SlotMoves DEF CurationInv

LEMMA ApproveKeeps ==
  ASSUME CurationInv, NEW q \in Requests, Approve(q)
  PROVE  CurationInv'
<1> DEFINE c == request[q].item
           v == request[q].revision
           n == Len(records) + 1
           old == item[c]
           e == [item |-> c, revision |-> v]
           x == [old EXCEPT !.status = "approved", !.approved = v, !.record = n]
<1>1. /\ item' = [item EXCEPT ![c] = x] /\ records' = Append(records, e) /\ Becomes(q, Idle)
      /\ UNCHANGED <<candidate, container, shown>>
      /\ old # None /\ old.current = v /\ Len(records) < MaxRecords
  BY DEF Approve, StillThatDraft, Drafted, Promoted, CurationInv, ItemsFit
<1>2. c \in Candidates /\ v \in Revisions
  BY DEF Approve, CurationInv, RequestsFit, RequestFits, ApproveFits
<1>3. old \in Item /\ e \in Record
  BY <1>1, <1>2 DEF CurationInv, ItemsFit, Record
<1> HIDE DEF c, v
<1>4. /\ records \in Seq(Record) /\ Len(records) \in Nat /\ n \in 1..MaxRecords
      /\ DOMAIN records = 1..Len(records)
  BY <1>1, LenProperties, CurationAssumption DEF CurationInv, RecordsFit
<1>5. /\ records' \in Seq(Record) /\ Len(records') = n /\ records'[n] = e
      /\ DOMAIN records' = 1..n /\ \A k \in DOMAIN records : k \in DOMAIN records' /\ records'[k] = records[k]
      /\ \A k \in DOMAIN records' \ {n} : k \in DOMAIN records
  BY <1>1, <1>3, <1>4, AppendProperties, LenProperties
<1> HIDE DEF old
<1>6. /\ x \in Item /\ x.status = "approved" /\ x.from = old.from /\ x.record = n
      /\ x.current = v /\ x.approved = v /\ x # None
  BY <1>1, <1>2, <1>3, <1>4, NullAssumption DEF Item
<1> HIDE DEF x
<1>7. item'[c] = x /\ \A d \in Candidates \ {c} : item'[d] = item[d]
  BY <1>1, <1>2 DEF CurationInv, ItemsFit
<1>8. PromotedAsReviewed'
  BY <1>1, <1>2, <1>6, <1>7 DEF CurationInv, ItemsFit, PromotedAsReviewed, Promoted, Approved, old
<1>9. RecordsFit'
  <2>1. \A k \in DOMAIN records' : item'[records'[k].item] # None
    <3>1. \A k \in DOMAIN records : records[k] \in Record /\ Promoted(records[k].item)
      BY <1>4, ElementOfSeq DEF CurationInv, RecordsFit
    <3>2. \A k \in DOMAIN records : item'[records[k].item] # None
      BY <1>6, <1>7, <3>1 DEF Promoted, Record
    <3> QED BY <1>5, <1>6, <1>7, <3>2
  <2>2. ASSUME NEW d \in Candidates, Accepted(d)'
        PROVE  item'[d].approved = item'[d].current /\ Binds(d, item[d].approved, item[d].record)'
    <3>1. CASE d = c
      BY <1>4, <1>5, <1>6, <1>7, <3>1 DEF Binds
    <3>2. CASE d # c
      BY <1>5, <1>7, <2>2, <3>2 DEF CurationInv, RecordsFit, Accepted, Promoted, Binds
    <3> QED BY <3>1, <3>2
  <2> QED BY <1>4, <1>5, <2>1, <2>2 DEF RecordsFit, Promoted
<1>10. /\ \A k \in DOMAIN records : x.record = k => Promoted(c) /\ item[c].record = k
       /\ \A k \in DOMAIN records : k \in DOMAIN records' /\ records'[k] = records[k]
       /\ item' = [item EXCEPT ![c] = x] /\ UNCHANGED <<candidate, container, shown>>
       /\ x \in Item
  BY <1>1, <1>4, <1>5, <1>6
<1>11. /\ ItemsFit' /\ ContainerFits'
       /\ \A p \in Requests : request'[p] = request[p] => RequestFits(p)'
  BY <1>2, <1>8, <1>9, <1>10, ItemMoves
<1>12. RequestsFit'
  BY <1>1, <1>11, SlotFreed DEF CurationInv
<1> QED BY <1>9, <1>11, <1>12 DEF CurationInv

LEMMA BeginAddKeeps ==
  ASSUME CurationInv, NEW q \in Requests, NEW c \in Candidates, BeginAdd(q, c)
  PROVE  CurationInv'
<1> DEFINE v == item[c].approved
           n == item[c].record
           x == [Idle EXCEPT !.pc = "adding", !.item = c, !.revision = v, !.record = n]
<1>1. /\ Becomes(q, x) /\ UNCHANGED <<candidate, item, records, container, shown>>
      /\ Accepted(c) /\ Promoted(c) /\ (container.benchmark => candidate[c].verdict = "supported")
      /\ container.status = "draft" /\ \A m \in container.members : m.item # c
      /\ ContainerFree(q)
  BY DEF BeginAdd, Addable, Eligible, Accepted
<1>2. Binds(c, v, n)
  BY <1>1 DEF CurationInv, RecordsFit
<1>3. v \in Revisions /\ n \in 1..MaxRecords
  BY <1>2, BoundTypes DEF CurationInv
<1> HIDE DEF v, n
<1>4. x \in Request /\ x.pc = "adding" /\ x.item = c /\ x.revision = v /\ x.record = n
  BY <1>3 DEF Idle, Request
<1> HIDE DEF x
<1>5. request'[q] = x
  BY <1>1 DEF Becomes, CurationInv, RequestsFit
<1>6. AddFits(q)'
  BY <1>1, <1>2, <1>4, <1>5 DEF AddFits, PinnedBy, Promoted, Binds
<1>7. RequestFits(q)'
  BY <1>1, <1>4, <1>5, <1>6 DEF RequestFits, ApproveFits, FinalizeFits
<1> QED BY <1>1, <1>4, <1>7, OnlySlot, SlotMoves DEF CurationInv

LEMMA BeginFinalizeKeeps ==
  ASSUME CurationInv, NEW q \in Requests, NEW seen \in 0..MaxCompositions, BeginFinalize(q, seen)
  PROVE  CurationInv'
<1> DEFINE valid == CurrentMembers
           x == [Idle EXCEPT !.pc = "finalizing", !.confirmed = seen, !.valid = valid]
<1>1. /\ Becomes(q, x) /\ UNCHANGED <<candidate, item, records, container, shown>>
      /\ container.status = "draft" /\ seen = container.revision /\ ContainerFree(q)
  BY DEF BeginFinalize, Confirmed
<1>2. /\ valid \subseteq container.members /\ valid \subseteq Member
      /\ \A m \in container.members : item[m.item].record = m.record => m \in valid
  BY DEF CurrentMembers, CurationInv, ContainerFits, Container
<1> HIDE DEF valid
<1>3. /\ x \in Request /\ x.pc = "finalizing" /\ x.confirmed = seen /\ x.valid = valid
      /\ x.checked = {}
  BY <1>2 DEF Idle, Request
<1> HIDE DEF x
<1>4. request'[q] = x
  BY <1>1 DEF Becomes, CurationInv, RequestsFit
<1>5. RequestFits(q)'
  BY <1>1, <1>2, <1>3, <1>4 DEF RequestFits, ApproveFits, AddFits, FinalizeFits
<1> QED BY <1>1, <1>3, <1>5, OnlySlot, SlotMoves DEF CurationInv

LEMMA CheckMemberKeeps ==
  ASSUME CurationInv, NEW q \in Requests, NEW m \in container.members, CheckMember(q, m)
  PROVE  CurationInv'
<1> DEFINE old == request[q]
           x == [old EXCEPT !.checked = @ \union {m}]
<1>1. /\ request' = [request EXCEPT ![q] = x]
      /\ UNCHANGED <<candidate, item, records, container, shown>>
      /\ old.pc = "finalizing" /\ item[m.item].record = m.record
  BY DEF CheckMember, PinIsCurrent, CurationInv, RequestsFit
<1>2. /\ old \in Request /\ FinalizeFits(q) /\ container.status = "draft" /\ m \in Member
  BY <1>1 DEF CurationInv, RequestsFit, RequestFits, Locks, ContainerFits, Container
<1>3. Locks(q)
  BY <1>1 DEF Locks
<1> HIDE DEF old
<1>4. /\ x \in Request /\ x.pc = "finalizing" /\ x.confirmed = old.confirmed /\ x.valid = old.valid
      /\ x.checked = old.checked \union {m}
  BY <1>1, <1>2 DEF Request
<1> HIDE DEF x
<1>5. request'[q] = x
  BY <1>1 DEF CurationInv, RequestsFit
<1>6. RequestFits(q)'
  BY <1>1, <1>2, <1>4, <1>5 DEF RequestFits, ApproveFits, AddFits, FinalizeFits, old
<1> QED BY <1>1, <1>3, <1>4, <1>6, OnlySlot, SlotMoves DEF CurationInv, Becomes

LEMMA DropKeeps ==
  ASSUME CurationInv, NEW q \in Requests, Drop(q)
  PROVE  CurationInv'
  BY OnlySlot, SlotFreed DEF Drop, CurationInv
-----------------------------------------------------------------------------
(* A step that changes the container while nobody else holds its row.      *)
LEMMA OthersUnlocked ==
  ASSUME CurationInv, NEW q \in Requests, ContainerFree(q) \/ Locks(q),
         UNCHANGED <<candidate, item, records>>
  PROVE  /\ ItemsFit' /\ RecordsFit'
         /\ \A p \in Requests : request'[p] = request[p] /\ ~(p = q /\ Locks(q)) => RequestFits(p)'
<1>1. ItemsFit' /\ RecordsFit'
  BY DEF CurationInv, ItemsFit, RecordsFit, PromotedAsReviewed, Promoted, Approved, Accepted, Binds
<1>2. ASSUME NEW p \in Requests, request'[p] = request[p], ~(p = q /\ Locks(q))
      PROVE  RequestFits(p)'
  <2>1. ~Locks(p) /\ ApproveFits(p)
    BY <1>2 DEF CurationInv, RequestsFit, RequestFits, ContainerFree, Locks
  <2> QED BY <1>2, <2>1 DEF RequestFits, ApproveFits, AddFits, FinalizeFits, Locks
<1> QED BY <1>1, <1>2

(* The members, the revision and its history after an addition or a        *)
(* removal.                                                                *)
LEMMA Recomposed ==
  ASSUME CurationInv, NEW members \in SUBSET Member, Recomposes(members),
         UNCHANGED <<candidate, item, records>>, container.status = "draft",
         \A m, n \in members : m.item = n.item => m = n,
         \A m \in members : PinnedBy(m.item, m.revision, m.record)
  PROVE  ContainerFits'
<1> DEFINE old == container
           new == [old EXCEPT !.members = members, !.revision = @ + 1]
           n == old.revision + 1
<1>1. /\ container' = new /\ shown' = [shown EXCEPT ![n] = members] /\ old.revision < MaxCompositions
  BY DEF Recomposes
<1>2. old \in Container /\ old.status = "draft" /\ n \in 0..MaxCompositions
  BY <1>1, CurationAssumption DEF CurationInv, ContainerFits, Container
<1> HIDE DEF old
<1>3. /\ new \in Container /\ new.status = "draft" /\ new.benchmark = old.benchmark
      /\ new.members = members /\ new.revision = n
  BY <1>2 DEF Container
<1> HIDE DEF new
<1>4. shown' \in [0..MaxCompositions -> SUBSET Member] /\ shown'[n] = members
  BY <1>1, <1>2 DEF CurationInv, ContainerFits
<1>5. \A m \in members : PinnedBy(m.item, m.revision, m.record)'
  BY <1>1, <1>3 DEF PinnedBy, Promoted, Binds, old
<1> QED BY <1>1, <1>3, <1>4, <1>5
        DEF ContainerFits, FinalizedAsConfirmed, FinalizedWereApproved

LEMMA AddKeeps ==
  ASSUME CurationInv, NEW q \in Requests, Add(q)
  PROVE  CurationInv'
<1> DEFINE c == request[q].item
           v == request[q].revision
           n == request[q].record
           new == [item |-> c, revision |-> v, record |-> n]
           members == container.members \union {new}
<1>1. /\ Recomposes(members) /\ Becomes(q, Idle) /\ UNCHANGED <<candidate, item, records>>
      /\ request[q].pc = "adding"
  BY DEF Add
<1>2. /\ Locks(q) /\ container.status = "draft" /\ PinnedBy(c, v, n)
      /\ \A m \in container.members : m.item # c
  BY <1>1 DEF CurationInv, RequestsFit, RequestFits, AddFits, Locks
<1> HIDE DEF c, v, n
<1>3. c \in Candidates /\ v \in Revisions /\ n \in 1..MaxRecords
  BY <1>2, BoundTypes DEF PinnedBy, CurationInv
<1>4. new \in Member /\ new.item = c /\ new.revision = v /\ new.record = n
  BY <1>3 DEF Member
<1> HIDE DEF new
<1>5. /\ members \in SUBSET Member
      /\ \A m, k \in members : m.item = k.item => m = k
      /\ \A m \in members : PinnedBy(m.item, m.revision, m.record)
  BY <1>2, <1>4 DEF CurationInv, ContainerFits, Container
<1> HIDE DEF members
<1>6. ContainerFits'
  BY <1>1, <1>2, <1>5, Recomposed
<1>7. /\ ItemsFit' /\ RecordsFit'
      /\ \A p \in Requests : request'[p] = request[p] /\ ~(p = q /\ Locks(q)) => RequestFits(p)'
  BY <1>1, <1>2, OthersUnlocked
<1>8. request'[q] # request[q]
  BY <1>1, IdleFits DEF Becomes, CurationInv, RequestsFit
<1>9. RequestsFit'
  BY <1>1, <1>7, <1>8, SlotFreed DEF CurationInv
<1> QED BY <1>6, <1>7, <1>9 DEF CurationInv

LEMMA RemoveKeeps ==
  ASSUME CurationInv, NEW q \in Requests, NEW m \in container.members, RemoveMember(q, m)
  PROVE  CurationInv'
<1> DEFINE members == container.members \ {m}
<1>1. /\ Recomposes(members) /\ UNCHANGED <<candidate, item, records, request>>
      /\ container.status = "draft" /\ ContainerFree(q) /\ ~Locks(q)
  BY DEF RemoveMember, Locks
<1>2. /\ members \in SUBSET Member
      /\ \A k, n \in members : k.item = n.item => k = n
      /\ \A k \in members : PinnedBy(k.item, k.revision, k.record)
  BY DEF CurationInv, ContainerFits, Container
<1> HIDE DEF members
<1>3. ContainerFits'
  BY <1>1, <1>2, Recomposed
<1>4. ItemsFit' /\ RecordsFit' /\ \A p \in Requests : RequestFits(p)'
  BY <1>1, OthersUnlocked
<1>5. RequestsFit'
  BY <1>1, <1>4 DEF CurationInv, RequestsFit, Locks
<1> QED BY <1>3, <1>4, <1>5 DEF CurationInv

LEMMA FinalizeKeeps ==
  ASSUME CurationInv, NEW q \in Requests, Finalize(q)
  PROVE  CurationInv'
<1> DEFINE old == container
           r == request[q]
           new == [old EXCEPT !.status = "finalized", !.confirmed = r.confirmed, !.valid = r.valid]
<1>1. /\ container' = new /\ Becomes(q, Idle) /\ UNCHANGED <<candidate, item, records, shown>>
      /\ r.pc = "finalizing" /\ r.checked = old.members
  BY DEF Finalize
<1>2. /\ Locks(q) /\ FinalizeFits(q) /\ old.status = "draft" /\ old \in Container /\ r \in Request
  BY <1>1 DEF CurationInv, RequestsFit, RequestFits, ContainerFits, Locks
<1>3. /\ r.confirmed = old.revision /\ r.valid = old.members
      /\ old.members = shown[old.revision]
  BY <1>1, <1>2 DEF FinalizeFits, CurationInv, ContainerFits
<1> HIDE DEF old, r
<1>4. /\ new \in Container /\ new.status = "finalized" /\ new.confirmed = old.revision
      /\ new.valid = old.members /\ new.members = old.members /\ new.benchmark = old.benchmark
  BY <1>2, <1>3 DEF Container, Request
<1> HIDE DEF new
<1>5. \A c, v, n : PinnedBy(c, v, n) => PinnedBy(c, v, n)'
  BY <1>1, <1>4 DEF PinnedBy, Promoted, Binds, old
<1>6. ContainerFits'
  BY <1>1, <1>3, <1>4, <1>5
     DEF CurationInv, ContainerFits, FinalizedAsConfirmed, FinalizedWereApproved, old
<1>7. /\ ItemsFit' /\ RecordsFit'
      /\ \A p \in Requests : request'[p] = request[p] /\ ~(p = q /\ Locks(q)) => RequestFits(p)'
  BY <1>1, <1>2, OthersUnlocked
<1>8. request'[q] # request[q]
  BY <1>1, IdleFits DEF Becomes, CurationInv, RequestsFit, r
<1>9. RequestsFit'
  BY <1>1, <1>7, <1>8, SlotFreed DEF CurationInv
<1> QED BY <1>6, <1>7, <1>9 DEF CurationInv

LEMMA DeleteKeeps ==
  ASSUME CurationInv, NEW q \in Requests, Delete(q)
  PROVE  CurationInv'
<1> DEFINE old == container
           new == [old EXCEPT !.status = "deleted", !.members = {}, !.valid = {}]
<1>1. /\ container' = new /\ UNCHANGED <<candidate, item, records, shown, request>>
      /\ ContainerFree(q) /\ ~Locks(q)
  BY DEF Delete, Locks
<1>2. old \in Container
  BY DEF CurationInv, ContainerFits
<1> HIDE DEF old
<1>3. new \in Container /\ new.status = "deleted" /\ new.members = {}
  BY <1>2 DEF Container
<1> HIDE DEF new
<1>4. ContainerFits'
  BY <1>1, <1>3 DEF CurationInv, ContainerFits, FinalizedAsConfirmed, FinalizedWereApproved
<1>5. ItemsFit' /\ RecordsFit' /\ \A p \in Requests : RequestFits(p)'
  BY <1>1, OthersUnlocked
<1>6. RequestsFit'
  BY <1>1, <1>5 DEF CurationInv, RequestsFit, Locks
<1> QED BY <1>4, <1>5, <1>6 DEF CurationInv
-----------------------------------------------------------------------------
LEMMA CurationInvStarts == Init => CurationInv
<1> SUFFICES ASSUME Init PROVE CurationInv
  OBVIOUS
<1>1. ItemsFit
  BY CurationAssumption DEF Init, ItemsFit, Candidate, Revisions, PromotedAsReviewed, Promoted
<1>2. RecordsFit
  BY CurationAssumption DEF Init, RecordsFit, Accepted, Promoted
<1>3. ContainerFits
  <2>1. container \in Container /\ container.members = {} /\ container.status = "draft" /\ container.revision = 0
    BY CurationAssumption DEF Init, Container
  <2>2. shown \in [0..MaxCompositions -> SUBSET Member] /\ shown[0] = {}
    BY CurationAssumption DEF Init
  <2> QED BY <2>1, <2>2 DEF ContainerFits, FinalizedAsConfirmed, FinalizedWereApproved
<1>4. RequestsFit
  BY IdleFits DEF Init, RequestsFit, RequestFits, ApproveFits, AddFits, FinalizeFits, Locks
<1> QED BY <1>1, <1>2, <1>3, <1>4 DEF CurationInv

LEMMA CurationInvKept == CurationInv /\ [Next]_vars => CurationInv'
<1> SUFFICES ASSUME CurationInv, [Next]_vars PROVE CurationInv'
  OBVIOUS
<1>1. ASSUME NEW c \in Candidates, OfCandidate(c) PROVE CurationInv'
  BY <1>1, UpdateContentKeeps, ReviewKeeps, PromoteKeeps, UpdateItemKeeps, WithdrawKeeps
     DEF OfCandidate
<1>2. ASSUME NEW q \in Requests, Serve(q) PROVE CurationInv'
  BY <1>2, BeginApproveKeeps, ApproveKeeps, BeginAddKeeps, AddKeeps, RemoveKeeps,
     BeginFinalizeKeeps, CheckMemberKeeps, FinalizeKeeps, DeleteKeeps, DropKeeps DEF Serve
<1>3. CASE UNCHANGED vars
  <2>1. ItemsFit' /\ RecordsFit' /\ \A q \in Requests : RequestFits(q)'
    BY <1>3, OnlySlot DEF vars
  <2>2. ContainerFits' /\ RequestsFit'
    BY <1>3, <2>1, OnlySlot DEF vars, CurationInv, RequestsFit, Locks
  <2> QED BY <2>1, <2>2 DEF CurationInv
<1> QED BY <1>1, <1>2, <1>3 DEF Next

THEOREM CurationInvHolds == Spec => []CurationInv
  BY CurationInvStarts, CurationInvKept, PTL DEF Spec

(* The variables have their types, and no item is twice in the container.  *)
THEOREM TypeCorrect == Spec => []TypeOK
<1>1. CurationInv => TypeOK
  BY DEF CurationInv, ItemsFit, RecordsFit, ContainerFits, RequestsFit, TypeOK
<1> QED BY <1>1, CurationInvHolds, PTL

(* An item was promoted from what its reviewer saw and supported: promote   *)
(* compares the judged revision under the lock of the candidate.           *)
THEOREM PromotedAsReviewedHolds == Spec => []PromotedAsReviewed
<1>1. CurationInv => PromotedAsReviewed
  BY DEF CurationInv, ItemsFit
<1> QED BY <1>1, CurationInvHolds, PTL

(* Approvals bind the content they were given for, in an item and in a     *)
(* member that pins them.                                                  *)
THEOREM ApprovalsBindHolds == Spec => []ApprovalsBind
<1>1. CurationInv => ApprovalsBind
  BY DEF CurationInv, RecordsFit, ContainerFits, PinnedBy, ApprovalsBind
<1> QED BY <1>1, CurationInvHolds, PTL

(* A finalized container has the members that were confirmed: one request   *)
(* at a time changes a composition, and each change has its own revision.  *)
THEOREM FinalizedAsConfirmedHolds == Spec => []FinalizedAsConfirmed
<1>1. CurationInv => FinalizedAsConfirmed
  BY DEF CurationInv, ContainerFits
<1> QED BY <1>1, CurationInvHolds, PTL

(* At the lock of the finalization every pinned approval was in force: one  *)
(* that is given while the members are checked has a record of its own.    *)
THEOREM FinalizedWereApprovedHolds == Spec => []FinalizedWereApproved
<1>1. CurationInv => FinalizedWereApproved
  BY DEF CurationInv, ContainerFits
<1> QED BY <1>1, CurationInvHolds, PTL
-----------------------------------------------------------------------------
(* The rows have their types and meet the constraints; only a finalized     *)
(* container keeps a composition, and t11 is the first to know of           *)
(* completions.                                                            *)
TypesFit ==
  /\ SchemaTypeOK
  /\ \A c \in Containers : containers[c].status # "finalized" => containers[c].final = {}
  /\ version < 11 => \A e \in Exports : export[e].status \in {"absent", "old"}

(* Every seal names a snapshot of its export.                              *)
SealsBelong ==
  version = 11 => \A k \in DOMAIN seal :
    /\ seal[k].snapshot \in DOMAIN snapshot
    /\ snapshot[seal[k].snapshot].export = seal[k].export

SchemaInv == /\ TypesFit /\ Checks /\ SealsBelong
             /\ ApprovedIsBound /\ MembersPinned /\ CompletedIsSealed
-----------------------------------------------------------------------------
(* What a frozen table keeps.                                              *)
LEMMA PrefixKeeps ==
  ASSUME NEW S, NEW s \in Seq(S), NEW t \in Seq(S), IsPrefix(s, t)
  PROVE  /\ DOMAIN s \subseteq DOMAIN t
         /\ \A k \in DOMAIN s : t[k] = s[k]
<1>1. Len(s) \in Nat /\ Len(t) \in Nat /\ Len(s) <= Len(t)
  BY DEF IsPrefix
<1>2. ASSUME NEW k \in DOMAIN s
      PROVE  t[k] = s[k]
  <2>1. k \in 1..Len(s)
    OBVIOUS
  <2>2. \A i \in 1..Len(s) : s[i] \in S /\ t[i] \in S
    BY <1>1
  <2>3. SubSeq(s, 1, Len(s))[k] = s[k] /\ SubSeq(t, 1, Len(s))[k] = t[k]
    BY <1>1, <2>1, <2>2
  <2> QED BY <2>3 DEF IsPrefix
<1> QED BY <1>1, <1>2

LEMMA AppendRow ==
  ASSUME NEW S, NEW s \in Seq(S), NEW row \in S
  PROVE  Append(s, row) \in Seq(S)
OBVIOUS

LEMMA PutRow ==
  ASSUME NEW S, NEW s \in Seq(S), NEW k \in DOMAIN s, NEW row \in S
  PROVE  [s EXCEPT ![k] = row] \in Seq(S)
BY ExceptSeq

(* Every table is a sequence after t09 gave every item a revision.          *)
LEMMA BackfillTypes ==
  ASSUME revision \in Seq(RevisionRow), Upgrade09
  PROVE  revision' \in Seq(RevisionRow)
<1> DEFINE Unrevised == {i \in Items : \A k \in DOMAIN revision : revision[k].item # i}
<1>1. PICK c \in Contents, order \in SetToSeqs(Unrevised) :
        revision' = Numbered \o FirstRevisions(order, c)
  BY DEF Upgrade09
<1>2. ASSUME NEW k \in DOMAIN revision
      PROVE  Cardinality({j \in 1..k : revision[j].item = revision[k].item}) \in Nat
  <2>1. IsFiniteSet(1..k)
    BY FS_Interval
  <2>2. {j \in 1..k : revision[j].item = revision[k].item} \in SUBSET (1..k)
    OBVIOUS
  <2> QED BY <2>1, <2>2, FS_Subset, FS_CardinalityType
<1>3. Numbered \in Seq(RevisionRow)
  <2>1. ASSUME NEW row \in RevisionRow, NEW n \in Nat
        PROVE  [row EXCEPT !.number = n] \in RevisionRow
    BY DEF RevisionRow
  <2>2. ASSUME NEW k \in DOMAIN revision
        PROVE  revision[k] \in RevisionRow
    OBVIOUS
  <2>3. Numbered \in [DOMAIN revision -> RevisionRow]
    BY <1>2, <2>1, <2>2 DEF Numbered
  <2>4. DOMAIN revision = 1..Len(revision) /\ Len(revision) \in Nat
    OBVIOUS
  <2> QED BY <2>3, <2>4
<1>4. FirstRevisions(order, c) \in Seq(RevisionRow)
  <2>1. IsFiniteSet(Unrevised)
    BY SchemaAssumption, FS_Subset
  <2>2. PICK n \in Nat : n = Cardinality(Unrevised)
    BY <2>1, FS_CardinalityType
  <2>3. order \in [1..n -> Unrevised]
    BY <2>2 DEF SetToSeqs
  <2>4. FirstRevisions(order, c) \in [1..n -> RevisionRow]
    BY <2>3 DEF FirstRevisions, RevisionRow
  <2> QED BY <2>4
<1> QED BY <1>1, <1>3, <1>4, ConcatProperties
-----------------------------------------------------------------------------
(* Types of the rows after each statement.                                 *)
LEMMA WriteRevisionTypes ==
  ASSUME TypesFit, WriteRevision, UNCHANGED version
  PROVE  TypesFit'
<1> USE DEF TypesFit, SchemaTypeOK, WriteRevision, compose, output
<1>1. revision' \in Seq(RevisionRow)
  <2>1. CASE \E row \in [item : Items, content : Contents,
                       number : IF version >= 9 THEN 1..MaxRevisions ELSE {0}] :
               revision' = Append(revision, row)
    <3>1. [item : Items, content : Contents,
           number : IF version >= 9 THEN 1..MaxRevisions ELSE {0}] \subseteq RevisionRow
      BY SchemaAssumption DEF RevisionRow
    <3> QED BY <2>1, <3>1
  <2>2. CASE \E k \in DOMAIN revision, c \in Contents :
               revision' = [revision EXCEPT ![k].content = c]
    <3>1. PICK k \in DOMAIN revision, c \in Contents :
            revision' = [revision EXCEPT ![k].content = c]
      BY <2>2
    <3>2. revision[k] \in RevisionRow
      OBVIOUS
    <3>3. [revision[k] EXCEPT !.content = c] \in RevisionRow
      BY <3>2 DEF RevisionRow
    <3>4. revision' = [revision EXCEPT ![k] = [revision[k] EXCEPT !.content = c]]
      BY <3>1
    <3> QED BY <3>3, <3>4, PutRow
  <2> QED BY <2>1, <2>2
<1> QED BY <1>1

LEMMA IdsTypes ==
  ASSUME NEW n \in Nat, version \in 8..11, NEW k \in Ids(n)
  PROVE  k \in Nat /\ (version < 9 => k = 0)
<1>1. CASE version >= 9
  BY <1>1 DEF Ids
<1>2. CASE ~(version >= 9)
  BY <1>2 DEF Ids
<1> QED BY <1>1, <1>2

(* A row that is added or changed is the only one that differs.            *)
LEMMA RowWritten ==
  ASSUME NEW S, NEW s \in Seq(S), NEW t, NEW row \in S,
         t = Append(s, row) \/ \E k \in DOMAIN s : t = [s EXCEPT ![k] = row]
  PROVE  /\ t \in Seq(S)
         /\ \A k \in DOMAIN t : t[k] = row \/ (k \in DOMAIN s /\ t[k] = s[k])
<1>1. CASE t = Append(s, row)
  BY <1>1
<1>2. CASE \E k \in DOMAIN s : t = [s EXCEPT ![k] = row]
  <2>1. PICK k \in DOMAIN s : t = [s EXCEPT ![k] = row]
    BY <1>2
  <2>2. t \in Seq(S) /\ Len(t) = Len(s) /\ \A j \in 1..Len(s) : t[j] = IF j = k THEN row ELSE s[j]
    BY <2>1, ExceptSeq
  <2> QED BY <2>2
<1> QED BY <1>1, <1>2

LEMMA WriteRecordTypes ==
  ASSUME TypesFit, WriteRecord, UNCHANGED version
  PROVE  TypesFit'
<1> USE DEF TypesFit, SchemaTypeOK, WriteRecord, compose, output
<1>1. PICK row \in [item : Items, approves : BOOLEAN, of : Ids(Len(revision)),
                    content : IF version >= 9 THEN Contents \union {Null} ELSE {Null}] :
        \/ record' = Append(record, row)
        \/ \E k \in DOMAIN record : record' = [record EXCEPT ![k] = row]
  OBVIOUS
<1>2. row \in RecordRow /\ (version < 9 => row.of = 0)
  <2>1. row.of \in Nat /\ (version < 9 => row.of = 0)
    BY IdsTypes
  <2>2. row.content \in Contents \union {Null}
    OBVIOUS
  <2> QED BY <2>1, <2>2 DEF RecordRow
<1>3. /\ record' \in Seq(RecordRow)
      /\ \A k \in DOMAIN record' : record'[k] = row \/ (k \in DOMAIN record /\ record'[k] = record[k])
  <2> HIDE DEF TypesFit, SchemaTypeOK, WriteRecord
  <2>1. record \in Seq(RecordRow)
    BY DEF TypesFit, SchemaTypeOK
  <2> QED BY <1>1, <1>2, <2>1, RowWritten
<1>4. version < 9 => \A k \in DOMAIN record' : record'[k].of = 0
  <2> SUFFICES ASSUME version < 9, NEW k \in DOMAIN record'
               PROVE  record'[k].of = 0
    OBVIOUS
  <2>1. \A j \in DOMAIN record : record[j].of = 0
    OBVIOUS
  <2> HIDE DEF TypesFit, SchemaTypeOK, WriteRecord
  <2> QED BY <1>2, <1>3, <2>1
<1> QED BY <1>3, <1>4

LEMMA WriteItemTypes ==
  ASSUME TypesFit, WriteItem, UNCHANGED version
  PROVE  TypesFit'
<1> USE DEF TypesFit, SchemaTypeOK, WriteItem, compose, output
<1>1. PICK i \in Items :
        \/ \E s \in {"draft", "approved"},
              k \in Ids(Len(revision)), r \in Ids(Len(record)) :
             items' = [items EXCEPT ![i].status = s, ![i].approved = k, ![i].record = r]
        \/ items' = [items EXCEPT ![i].judged = TRUE]
  OBVIOUS
<1>2. items[i] \in ItemRow
  OBVIOUS
<1>3. PICK row \in ItemRow :
        /\ items' = [items EXCEPT ![i] = row]
        /\ version < 9 => row.approved = 0 /\ row.record = 0
  <2>1. CASE \E s \in {"draft", "approved"},
              k \in Ids(Len(revision)), r \in Ids(Len(record)) :
             items' = [items EXCEPT ![i].status = s, ![i].approved = k, ![i].record = r]
    <3>1. PICK s \in {"draft", "approved"}, k \in Ids(Len(revision)), r \in Ids(Len(record)) :
             items' = [items EXCEPT ![i].status = s, ![i].approved = k, ![i].record = r]
      BY <2>1
    <3>2. k \in Nat /\ r \in Nat /\ (version < 9 => k = 0 /\ r = 0)
      <4> HIDE DEF TypesFit, SchemaTypeOK, WriteItem
      <4>1. Len(revision) \in Nat /\ Len(record) \in Nat /\ version \in 8..11
        BY DEF TypesFit, SchemaTypeOK
      <4> QED BY <4>1, IdsTypes
    <3> DEFINE row == [items[i] EXCEPT !.status = s, !.approved = k, !.record = r]
    <3>3. row \in ItemRow /\ row.approved = k /\ row.record = r
      BY <1>2, <3>2 DEF ItemRow
    <3>4. items' = [items EXCEPT ![i] = row]
      BY <3>1
    <3> HIDE DEF row
    <3> QED BY <3>2, <3>3, <3>4
  <2>2. CASE items' = [items EXCEPT ![i].judged = TRUE]
    <3> DEFINE row == [items[i] EXCEPT !.judged = TRUE]
    <3>3. row \in ItemRow /\ row.approved = items[i].approved /\ row.record = items[i].record
      BY <1>2 DEF ItemRow
    <3>4. items' = [items EXCEPT ![i] = row]
      BY <2>2
    <3> HIDE DEF row
    <3> QED BY <3>3, <3>4
  <2> QED BY <1>1, <2>1, <2>2
<1>4. items' \in [Items -> ItemRow] /\ \A x \in Items : items'[x] = IF x = i THEN row ELSE items[x]
  BY <1>3
<1> QED BY <1>3, <1>4

LEMMA WriteMemberTypes ==
  ASSUME TypesFit, WriteMember, UNCHANGED version
  PROVE  TypesFit'
<1> DEFINE rows == [container : Containers, item : Items,
                    of : IF version >= 10 THEN DOMAIN revision ELSE {0},
                    record : IF version >= 10 THEN DOMAIN record ELSE {0},
                    content : IF version >= 10 THEN Contents ELSE {Null}]
<1>0. /\ version \in 8..11 /\ revision \in Seq(RevisionRow) /\ record \in Seq(RecordRow)
      /\ member \subseteq MemberRow /\ (version < 10 => \A m \in member : m.of = 0)
  BY DEF TypesFit, SchemaTypeOK
<1>1. ASSUME NEW row \in rows
      PROVE  row \in MemberRow /\ (version < 10 => row.of = 0)
  <2>1. DOMAIN revision \subseteq Nat /\ DOMAIN record \subseteq Nat
    BY <1>0
  <2>2. CASE version >= 10
    BY <1>0, <1>1, <2>1, <2>2 DEF MemberRow
  <2>3. CASE version < 10
    <3>1. row \in [container : Containers, item : Items, of : {0}, record : {0}, content : {Null}]
      BY <1>0, <1>1, <2>3
    <3> QED BY <3>1 DEF MemberRow
  <2> QED BY <1>0, <2>2, <2>3
<1>2. \/ \E row \in rows : member' \subseteq member \union {row}
      \/ member' \subseteq member
  BY DEF WriteMember
<1> HIDE DEF rows
<1>3. member' \subseteq MemberRow /\ (version < 10 => \A m \in member' : m.of = 0)
  BY <1>0, <1>1, <1>2
<1> QED BY <1>3 DEF TypesFit, SchemaTypeOK, WriteMember, review, output

LEMMA WriteContainerTypes ==
  ASSUME TypesFit, WriteContainer, UNCHANGED version, version >= 10 => FinalizedFrozen
  PROVE  TypesFit'
<1>0. /\ version \in 8..11 /\ member \subseteq MemberRow
      /\ containers \in [Containers -> ContainerRow]
      /\ \A c \in Containers : containers[c].status # "finalized" => containers[c].final = {}
      /\ version < 10 => \A c \in Containers : containers[c].final = {}
  BY DEF TypesFit, SchemaTypeOK
<1>1. member' \subseteq member
  BY DEF WriteContainer
<1>2. PICK c \in Containers, row \in ContainerRow :
        /\ containers' = [containers EXCEPT ![c] = row]
        /\ row.status # "finalized" => row.final = {}
        /\ version < 10 => row.final = {}
  <2>1. PICK c \in Containers :
       \/ containers' = [containers EXCEPT ![c].status = "draft"]
       \/ containers' = [containers EXCEPT ![c] = NoContainer]
       \/ \E beside \in BOOLEAN :
            containers' = [containers EXCEPT ![c] =
              [status |-> "finalized", beside |-> beside,
               final |-> IF version >= 10 THEN MembersOf(c) ELSE {}]]
    BY DEF WriteContainer
  <2>2. MembersOf(c) \in SUBSET MemberRow
    BY <1>0 DEF MembersOf
  <2>3. containers[c] \in ContainerRow
    BY <1>0
  <2>4. CASE containers' = [containers EXCEPT ![c].status = "draft"]
    <3>1. [containers[c] EXCEPT !.status = "draft"] \in ContainerRow
      BY <2>3 DEF ContainerRow
    <3>2. [containers[c] EXCEPT !.status = "draft"].final = containers[c].final
      BY <2>3 DEF ContainerRow
    <3>3. containers'[c].status = "draft"
      BY <1>0, <2>3, <2>4 DEF ContainerRow
    <3>4. version >= 10 => containers[c].status # "finalized"
      BY <3>3 DEF FinalizedFrozen, NoContainer
    <3>5. containers[c].final = {}
      BY <1>0, <3>4
    <3> QED BY <2>4, <3>1, <3>2, <3>5
  <2>5. CASE containers' = [containers EXCEPT ![c] = NoContainer]
    <3>1. NoContainer \in ContainerRow /\ NoContainer.final = {}
      BY DEF NoContainer, ContainerRow
    <3> QED BY <2>5, <3>1
  <2>6. CASE \E beside \in BOOLEAN :
               containers' = [containers EXCEPT ![c] =
                 [status |-> "finalized", beside |-> beside,
                  final |-> IF version >= 10 THEN MembersOf(c) ELSE {}]]
    <3>1. PICK beside \in BOOLEAN :
            containers' = [containers EXCEPT ![c] =
              [status |-> "finalized", beside |-> beside,
               final |-> IF version >= 10 THEN MembersOf(c) ELSE {}]]
      BY <2>6
    <3> DEFINE final == IF version >= 10 THEN MembersOf(c) ELSE {}
    <3>2. final \in SUBSET MemberRow /\ (version < 10 => final = {})
      BY <1>0, <2>2
    <3> HIDE DEF final
    <3> DEFINE row == [status |-> "finalized", beside |-> beside, final |-> final]
    <3>3. row \in ContainerRow
      BY <3>2 DEF ContainerRow
    <3>4. row.status = "finalized" /\ row.final = final
      OBVIOUS
    <3>5. containers' = [containers EXCEPT ![c] = row]
      BY <3>1 DEF final
    <3> HIDE DEF row
    <3> QED BY <3>2, <3>3, <3>4, <3>5
  <2> QED BY <2>1, <2>4, <2>5, <2>6
<1>3. /\ containers' \in [Containers -> ContainerRow]
      /\ \A d \in Containers : containers'[d].status # "finalized" => containers'[d].final = {}
      /\ version < 10 => \A d \in Containers : containers'[d].final = {}
  BY <1>0, <1>2
<1> QED BY <1>1, <1>3 DEF TypesFit, SchemaTypeOK, WriteContainer, review, output

LEMMA WriteExportTypes ==
  ASSUME TypesFit, WriteExport, UNCHANGED version
  PROVE  TypesFit'
<1> USE DEF TypesFit, SchemaTypeOK, WriteExport, review, compose
<1>1. PICK e \in Exports : InsertExport(e) \/ UpdateExport(e)
  OBVIOUS
<1>2. PICK row \in ExportRow :
        /\ export' = [export EXCEPT ![e] = row]
        /\ version < 11 => row.status = "old"
  <2>1. CASE InsertExport(e) /\ version < 11
    <3>1. PICK source \in Containers \union {Null}, k \in DOMAIN snapshot, o \in Objects :
            export' = [export EXCEPT ![e] = [NoExport EXCEPT
              !.status = "old", !.source = source, !.snapshot = k, !.object = o]]
      BY <2>1 DEF InsertExport
    <3> DEFINE row == [NoExport EXCEPT
              !.status = "old", !.source = source, !.snapshot = k, !.object = o]
    <3>2. k \in Nat
      OBVIOUS
    <3>3. row \in ExportRow /\ row.status = "old"
      BY <3>2 DEF NoExport, ExportRow
    <3>4. export' = [export EXCEPT ![e] = row]
      BY <3>1
    <3> HIDE DEF row
    <3> QED BY <3>3, <3>4
  <2>2. CASE InsertExport(e) /\ ~(version < 11)
    <3>1. PICK source \in Containers :
            export' = [export EXCEPT ![e] = [NoExport EXCEPT
              !.status = "queued", !.source = source]]
      BY <2>2 DEF InsertExport
    <3> DEFINE row == [NoExport EXCEPT !.status = "queued", !.source = source]
    <3>3. row \in ExportRow
      BY DEF NoExport, ExportRow
    <3>4. export' = [export EXCEPT ![e] = row]
      BY <3>1
    <3> HIDE DEF row
    <3> QED BY <2>2, <3>3, <3>4
  <2>3. CASE UpdateExport(e)
    <3>1. PICK s \in {"queued", "completed"}, k \in 0..Len(snapshot), l \in 0..Len(seal),
               o \in Objects \union {Null} :
            export' = [export EXCEPT ![e] = [@ EXCEPT
              !.status = s, !.snapshot = k, !.seal = l, !.object = o]]
      BY <2>3 DEF UpdateExport
    <3> DEFINE row == [export[e] EXCEPT
              !.status = s, !.snapshot = k, !.seal = l, !.object = o]
    <3>2. k \in Nat /\ l \in Nat
      OBVIOUS
    <3>3. row \in ExportRow
      <4>1. export[e] \in ExportRow
        OBVIOUS
      <4> QED BY <3>2, <4>1 DEF ExportRow
    <3>4. export' = [export EXCEPT ![e] = row]
      BY <3>1
    <3>5. ~(version < 11)
      BY <2>3 DEF UpdateExport
    <3> HIDE DEF row
    <3> QED BY <3>3, <3>4, <3>5
  <2> QED BY <1>1, <2>1, <2>2, <2>3
<1>3. /\ export' \in [Exports -> ExportRow]
      /\ \A x \in Exports : export'[x] = IF x = e THEN row ELSE export[x]
  <2> HIDE DEF TypesFit, SchemaTypeOK, WriteExport
  <2>1. export \in [Exports -> ExportRow]
    BY DEF TypesFit, SchemaTypeOK
  <2> QED BY <1>2, <2>1
<1>4. version < 11 => \A x \in Exports : export'[x].status \in {"absent", "old"}
  BY <1>2, <1>3
<1> QED BY <1>3, <1>4

LEMMA WriteSnapshotTypes ==
  ASSUME TypesFit, WriteSnapshot, UNCHANGED version
  PROVE  TypesFit'
<1>1. snapshot' \in Seq(SnapshotRow)
  <2>1. snapshot \in Seq(SnapshotRow)
    BY DEF TypesFit, SchemaTypeOK
  <2>2. PICK owner \in Exports \union {Null} :
          \/ snapshot' = Append(snapshot, [export |-> owner, legacy |-> FALSE])
          \/ \E k \in DOMAIN snapshot : snapshot' = [snapshot EXCEPT ![k].export = owner]
    BY DEF WriteSnapshot
  <2>3. CASE snapshot' = Append(snapshot, [export |-> owner, legacy |-> FALSE])
    <3>1. [export |-> owner, legacy |-> FALSE] \in SnapshotRow
      BY DEF SnapshotRow
    <3> QED BY <2>1, <2>3, <3>1, AppendRow
  <2>4. CASE \E k \in DOMAIN snapshot : snapshot' = [snapshot EXCEPT ![k].export = owner]
    <3>1. PICK k \in DOMAIN snapshot : snapshot' = [snapshot EXCEPT ![k].export = owner]
      BY <2>4
    <3>2. snapshot[k] \in SnapshotRow
      BY <2>1
    <3>3. [snapshot[k] EXCEPT !.export = owner] \in SnapshotRow
      BY <3>2 DEF SnapshotRow
    <3>4. snapshot' = [snapshot EXCEPT ![k] = [snapshot[k] EXCEPT !.export = owner]]
      BY <3>1
    <3> QED BY <2>1, <3>3, <3>4, PutRow
  <2> QED BY <2>2, <2>3, <2>4
<1> QED BY <1>1 DEF TypesFit, SchemaTypeOK, WriteSnapshot, review, compose

LEMMA WriteSealTypes ==
  ASSUME TypesFit, WriteSeal, UNCHANGED version
  PROVE  TypesFit'
<1>1. seal' \in Seq(SealRow)
  <2>1. seal \in Seq(SealRow)
    BY DEF TypesFit, SchemaTypeOK
  <2>2. PICK row \in [export : Exports, snapshot : DOMAIN snapshot, object : Objects] :
          \/ seal' = Append(seal, row)
          \/ \E k \in DOMAIN seal : seal' = [seal EXCEPT ![k] = row]
    BY DEF WriteSeal
  <2>3. row \in SealRow
    <3>1. DOMAIN snapshot \subseteq Nat
      BY DEF TypesFit, SchemaTypeOK
    <3> QED BY <3>1 DEF SealRow
  <2> QED BY <2>1, <2>2, <2>3, AppendRow, PutRow
<1> QED BY <1>1 DEF TypesFit, SchemaTypeOK, WriteSeal, review, compose

LEMMA WriteTypes ==
  ASSUME TypesFit, Write
  PROVE  TypesFit'
BY WriteRevisionTypes, WriteRecordTypes, WriteItemTypes, WriteMemberTypes,
   WriteContainerTypes, WriteExportTypes, WriteSnapshotTypes, WriteSealTypes DEF Write, Triggers
-----------------------------------------------------------------------------
(* Types of the rows after each migration.                                 *)
LEMMA Upgrade09Types ==
  ASSUME TypesFit, Upgrade09
  PROVE  TypesFit'
<1>1. revision' \in Seq(RevisionRow)
  BY BackfillTypes DEF TypesFit, SchemaTypeOK
<1>2. items' \in [Items -> ItemRow]
  <2>1. ASSUME NEW row \in ItemRow
        PROVE  [row EXCEPT !.status = "draft"] \in ItemRow
    BY DEF ItemRow
  <2>2. \A i \in Items : items[i] \in ItemRow
    BY DEF TypesFit, SchemaTypeOK
  <2>3. items' = [i \in Items |-> [items[i] EXCEPT !.status = "draft"]]
    BY DEF Upgrade09, Demoted
  <2> QED BY <2>1, <2>2, <2>3
<1> QED BY <1>1, <1>2 DEF TypesFit, SchemaTypeOK, Upgrade09, compose, output

LEMMA Downgrade09Types ==
  ASSUME TypesFit, Downgrade09
  PROVE  TypesFit'
<1>1. revision' \in Seq(RevisionRow)
  <2>1. revision \in Seq(RevisionRow)
    BY DEF TypesFit, SchemaTypeOK
  <2>2. ASSUME NEW row \in RevisionRow
        PROVE  [row EXCEPT !.number = 0] \in RevisionRow
    BY DEF RevisionRow
  <2>3. revision' = [k \in DOMAIN revision |-> [revision[k] EXCEPT !.number = 0]]
    BY DEF Downgrade09
  <2>4. /\ Len(revision) \in Nat /\ DOMAIN revision = 1..Len(revision)
        /\ \A k \in 1..Len(revision) : revision[k] \in RevisionRow
    BY <2>1
  <2>5. revision' \in [1..Len(revision) -> RevisionRow]
    BY <2>2, <2>3, <2>4
  <2> QED BY <2>4, <2>5
<1>2. record' \in Seq(RecordRow) /\ \A k \in DOMAIN record' : record'[k].of = 0
  <2>1. record \in Seq(RecordRow)
    BY DEF TypesFit, SchemaTypeOK
  <2>2. ASSUME NEW row \in RecordRow
        PROVE  /\ [row EXCEPT !.of = 0, !.content = Null] \in RecordRow
               /\ [row EXCEPT !.of = 0, !.content = Null].of = 0
    BY DEF RecordRow
  <2>3. record' = [k \in DOMAIN record |-> [record[k] EXCEPT !.of = 0, !.content = Null]]
    BY DEF Downgrade09
  <2>4. /\ Len(record) \in Nat /\ DOMAIN record = 1..Len(record)
        /\ \A k \in 1..Len(record) : record[k] \in RecordRow
    BY <2>1
  <2>5. /\ record' \in [1..Len(record) -> RecordRow]
        /\ \A k \in 1..Len(record) : record'[k].of = 0
    BY <2>2, <2>3, <2>4
  <2> QED BY <2>4, <2>5
<1>3. /\ version = 9 /\ version' = 8 /\ items' = items
      /\ containers' = containers /\ member' = member
      /\ export' = export /\ snapshot' = snapshot /\ seal' = seal
      /\ \A i \in Items : items[i].approved = 0 /\ items[i].record = 0
  BY DEF Downgrade09, NothingApproved, compose, output
<1>4. SchemaTypeOK'
  BY <1>1, <1>2, <1>3 DEF TypesFit, SchemaTypeOK
<1> QED BY <1>3, <1>4 DEF TypesFit

LEMMA Upgrade10Types ==
  ASSUME TypesFit, Upgrade10
  PROVE  TypesFit'
BY DEF TypesFit, SchemaTypeOK, Upgrade10, review, compose, output

LEMMA Downgrade10Types ==
  ASSUME TypesFit, Downgrade10
  PROVE  TypesFit'
BY DEF TypesFit, SchemaTypeOK, Downgrade10, NothingComposed, review, compose, output

LEMMA Upgrade11Types ==
  ASSUME TypesFit, Upgrade11
  PROVE  TypesFit'
<1>1. export' \in [Exports -> ExportRow]
  <2>1. ASSUME NEW row \in ExportRow
        PROVE  [row EXCEPT !.status = "completed", !.legacy = TRUE] \in ExportRow
    BY DEF ExportRow
  <2>2. \A e \in Exports : export[e] \in ExportRow
    BY DEF TypesFit, SchemaTypeOK
  <2>3. NoExport \in ExportRow
    BY DEF NoExport, ExportRow
  <2>4. export' = [e \in Exports |->
          IF export[e].status = "absent" THEN NoExport
          ELSE [export[e] EXCEPT !.status = "completed", !.legacy = TRUE]]
    BY DEF Upgrade11
  <2> QED BY <2>1, <2>2, <2>3, <2>4
<1>2. snapshot' \in Seq(SnapshotRow)
  <2>1. Len(snapshot) \in Nat /\ DOMAIN snapshot = 1..Len(snapshot)
    BY DEF TypesFit, SchemaTypeOK
  <2>2. snapshot' \in [1..Len(snapshot) -> [export : Exports \union {Null}, legacy : {TRUE}]]
    BY <2>1 DEF Upgrade11
  <2>3. [export : Exports \union {Null}, legacy : {TRUE}] \subseteq SnapshotRow
    BY DEF SnapshotRow
  <2>4. snapshot' \in [1..Len(snapshot) -> SnapshotRow]
    BY <2>2, <2>3
  <2> QED BY <2>1, <2>4
<1>3. /\ version' = 11
      /\ items' = items /\ revision' = revision /\ record' = record
      /\ containers' = containers /\ member' = member /\ seal' = seal
  BY DEF Upgrade11, review, compose
<1>4. SchemaTypeOK'
  BY <1>1, <1>2, <1>3 DEF TypesFit, SchemaTypeOK
<1> QED BY <1>3, <1>4 DEF TypesFit

LEMMA Downgrade11Types ==
  ASSUME TypesFit, Downgrade11
  PROVE  TypesFit'
<1>1. /\ export' \in [Exports -> ExportRow]
      /\ \A e \in Exports : export'[e].status \in {"absent", "old"}
  <2>1. ASSUME NEW row \in ExportRow
        PROVE  /\ [row EXCEPT !.status = "old", !.legacy = FALSE, !.seal = 0] \in ExportRow
               /\ [row EXCEPT !.status = "old", !.legacy = FALSE, !.seal = 0].status = "old"
    BY DEF ExportRow
  <2>2. \A e \in Exports : export[e] \in ExportRow
    BY DEF TypesFit, SchemaTypeOK
  <2>3. NoExport \in ExportRow /\ NoExport.status = "absent"
    BY DEF NoExport, ExportRow
  <2>4. export' = [e \in Exports |->
          IF export[e].status = "absent" THEN NoExport
          ELSE [export[e] EXCEPT !.status = "old", !.legacy = FALSE, !.seal = 0]]
    BY DEF Downgrade11
  <2> QED BY <2>1, <2>2, <2>3, <2>4
<1>2. snapshot' \in Seq(SnapshotRow)
  <2>1. Len(snapshot) \in Nat /\ DOMAIN snapshot = 1..Len(snapshot)
    BY DEF TypesFit, SchemaTypeOK
  <2>2. snapshot' = [k \in 1..Len(snapshot) |-> [export |-> Null, legacy |-> FALSE]]
    BY <2>1 DEF Downgrade11
  <2>3. [export |-> Null, legacy |-> FALSE] \in SnapshotRow
    BY DEF SnapshotRow
  <2> QED BY <2>1, <2>2, <2>3
<1>3. /\ version' = 10 /\ version = 11
      /\ items' = items /\ revision' = revision /\ record' = record
      /\ containers' = containers /\ member' = member /\ seal' = <<>>
  BY DEF Downgrade11, review, compose
<1>4. SchemaTypeOK'
  BY <1>1, <1>2, <1>3 DEF TypesFit, SchemaTypeOK
<1> QED BY <1>1, <1>3, <1>4 DEF TypesFit

LEMMA MigrateTypes ==
  ASSUME TypesFit, Migrate
  PROVE  TypesFit'
BY Upgrade09Types, Upgrade10Types, Upgrade11Types,
   Downgrade09Types, Downgrade10Types, Downgrade11Types DEF Migrate
-----------------------------------------------------------------------------
(* What the triggers keep of the rows that were there, t09 on.             *)
LEMMA ReviewsKept ==
  ASSUME TypesFit, TypesFit', Write, version >= 9
  PROVE  /\ DOMAIN revision \subseteq DOMAIN revision'
         /\ \A k \in DOMAIN revision : revision'[k] = revision[k]
         /\ DOMAIN record \subseteq DOMAIN record'
         /\ \A k \in DOMAIN record : record'[k] = record[k]
<1>1. IsPrefix(revision, revision') /\ IsPrefix(record, record')
  BY DEF Write, Triggers, RevisionsFrozen, RecordsFrozen
<1>2. /\ revision \in Seq(RevisionRow) /\ revision' \in Seq(RevisionRow)
      /\ record \in Seq(RecordRow) /\ record' \in Seq(RecordRow)
  BY DEF TypesFit, SchemaTypeOK
<1>3. /\ DOMAIN revision \subseteq DOMAIN revision'
      /\ \A k \in DOMAIN revision : revision'[k] = revision[k]
  BY <1>1, <1>2, PrefixKeeps
<1>4. /\ DOMAIN record \subseteq DOMAIN record'
      /\ \A k \in DOMAIN record : record'[k] = record[k]
  BY <1>1, <1>2, PrefixKeeps
<1> QED BY <1>3, <1>4

(* The same of the tables of t11.                                          *)
LEMMA OutputKept ==
  ASSUME TypesFit, TypesFit', Write, version >= 11
  PROVE  /\ DOMAIN snapshot \subseteq DOMAIN snapshot'
         /\ \A k \in DOMAIN snapshot : snapshot'[k] = snapshot[k]
         /\ DOMAIN seal \subseteq DOMAIN seal'
         /\ \A k \in DOMAIN seal : seal'[k] = seal[k]
<1>1. IsPrefix(snapshot, snapshot') /\ IsPrefix(seal, seal')
  BY DEF Write, Triggers, SnapshotsFrozen, SealsFrozen
<1>2. /\ snapshot \in Seq(SnapshotRow) /\ snapshot' \in Seq(SnapshotRow)
      /\ seal \in Seq(SealRow) /\ seal' \in Seq(SealRow)
  BY DEF TypesFit, SchemaTypeOK
<1>3. /\ DOMAIN snapshot \subseteq DOMAIN snapshot'
      /\ \A k \in DOMAIN snapshot : snapshot'[k] = snapshot[k]
  BY <1>1, <1>2, PrefixKeeps
<1>4. /\ DOMAIN seal \subseteq DOMAIN seal'
      /\ \A k \in DOMAIN seal : seal'[k] = seal[k]
  BY <1>1, <1>2, PrefixKeeps
<1> QED BY <1>3, <1>4

LEMMA ChecksHold ==
  ASSUME SchemaNext
  PROVE  Checks'
BY DEF SchemaNext, Write, Migrate

LEMMA TypesHold ==
  ASSUME TypesFit, SchemaNext
  PROVE  TypesFit'
BY WriteTypes, MigrateTypes DEF SchemaNext

(* An approved item that a statement leaves alone still points to the rows *)
(* it was bound to; a migration demotes every item or changes no review.   *)
LEMMA ApprovalKept ==
  ASSUME SchemaInv, SchemaNext
  PROVE  ApprovedIsBound'
<1> SUFFICES ASSUME version' >= 9, NEW i \in Items, items'[i].status = "approved"
             PROVE  Bound(i)'
  BY DEF ApprovedIsBound
<1>1. TypesFit /\ TypesFit' /\ Checks /\ version \in 8..11
  BY TypesHold DEF SchemaInv, TypesFit, SchemaTypeOK
<1>2. CASE Write
  <2>1. version' = version /\ version >= 9
    BY <1>2 DEF Write
  <2>2. CASE items'[i] # items[i]
    BY <1>2, <2>1, <2>2 DEF Write, Triggers, ApprovalBinds
  <2>3. CASE items'[i] = items[i]
    <3>1. items[i].status = "approved" /\ Bound(i)
      BY <2>1, <2>3 DEF SchemaInv, ApprovedIsBound
    <3>2. items[i].approved \in DOMAIN revision /\ items[i].record \in DOMAIN record
      BY <1>1, <2>1, <3>1 DEF Checks, ItemChecks
    <3>3. /\ revision'[items[i].approved] = revision[items[i].approved]
          /\ record'[items[i].record] = record[items[i].record]
      BY <1>1, <1>2, <2>1, <3>2, ReviewsKept
    <3> QED BY <2>3, <3>1, <3>3 DEF Bound
  <2> QED BY <2>2, <2>3
<1>3. CASE Upgrade09
  <2>1. items'[i] = [items[i] EXCEPT !.status = "draft"]
    BY <1>3 DEF Upgrade09, Demoted
  <2>2. items[i] \in ItemRow
    BY <1>1 DEF TypesFit, SchemaTypeOK
  <2>3. items'[i].status = "draft"
    BY <2>1, <2>2 DEF ItemRow
  <2> QED BY <2>3
<1>4. CASE Downgrade09
  <2>1. version' = 8
    BY <1>4 DEF Downgrade09
  <2> QED BY <2>1
<1>5. CASE Upgrade10 \/ Upgrade11 \/ Downgrade10 \/ Downgrade11
  <2>0. version \in {9, 10, 11}
    BY <1>5 DEF Upgrade10, Upgrade11, Downgrade10, Downgrade11
  <2>1. items' = items /\ revision' = revision /\ record' = record
    BY <1>5 DEF Upgrade10, Upgrade11, Downgrade10, Downgrade11, review
  <2>2. version >= 9
    BY <2>0
  <2> QED BY <2>1, <2>2 DEF SchemaInv, ApprovedIsBound, Bound
<1> QED BY <1>2, <1>3, <1>4, <1>5 DEF SchemaNext, Migrate

(* A row put into a finalized container is refused, and a row taken from   *)
(* one that stays too, or moved away.                                      *)
LEMMA NoMemberAdded ==
  ASSUME Write, version >= 10, NEW c \in Containers, ~Open(c),
         containers'[c] # NoContainer
  PROVE  MembersOf(c)' \subseteq MembersOf(c)
<1>1. MembershipGuarded
  BY DEF Write, Triggers
<1>2. ASSUME NEW m \in member', m.container = c
      PROVE  m \in member
  BY <1>1, <1>2 DEF MembershipGuarded
<1> QED BY <1>2 DEF MembersOf

(* Only a finalization makes a container finalized, with the members there *)
(* are; the triggers let none be added afterwards.                         *)
LEMMA CompositionKept ==
  ASSUME SchemaInv, Write, version >= 10, NEW c \in Containers
  PROVE  Open(c)' \/ MembersOf(c)' \subseteq containers'[c].final
<1> SUFFICES ASSUME containers'[c].status = "finalized", ~containers'[c].beside
             PROVE  MembersOf(c)' \subseteq containers'[c].final
  BY DEF Open
<1>1. CASE containers[c].status = "finalized"
  <2>1. containers'[c] = containers[c]
    BY <1>1 DEF Write, Triggers, FinalizedFrozen, NoContainer
  <2>2. ~Open(c) /\ containers'[c] # NoContainer
    BY <1>1, <2>1 DEF Open, NoContainer
  <2>3. MembersOf(c) \subseteq containers[c].final
    BY <2>2 DEF SchemaInv, MembersPinned
  <2>4. MembersOf(c)' \subseteq MembersOf(c)
    BY <2>2, NoMemberAdded
  <2> QED BY <2>1, <2>3, <2>4
<1>2. CASE containers[c].status # "finalized"
  <2>1. WriteContainer
    BY <1>2 DEF Write, WriteRevision, WriteRecord, WriteItem, WriteMember, WriteExport,
                WriteSnapshot, WriteSeal, compose
  <2>2. containers \in [Containers -> ContainerRow]
    BY DEF SchemaInv, TypesFit, SchemaTypeOK
  <2>3. PICK d \in Containers :
       \/ containers' = [containers EXCEPT ![d].status = "draft"]
       \/ containers' = [containers EXCEPT ![d] = NoContainer]
       \/ /\ \E beside \in BOOLEAN :
               containers' = [containers EXCEPT ![d] =
                 [status |-> "finalized", beside |-> beside,
                  final |-> IF version >= 10 THEN MembersOf(d) ELSE {}]]
          /\ UNCHANGED member
    BY <2>1 DEF WriteContainer
  <2>4. CASE containers' = [containers EXCEPT ![d].status = "draft"]
    BY <1>2, <2>2, <2>4 DEF ContainerRow
  <2>5. CASE containers' = [containers EXCEPT ![d] = NoContainer]
    BY <1>2, <2>2, <2>5 DEF NoContainer
  <2>6. CASE /\ \E beside \in BOOLEAN :
                  containers' = [containers EXCEPT ![d] =
                    [status |-> "finalized", beside |-> beside,
                     final |-> IF version >= 10 THEN MembersOf(d) ELSE {}]]
             /\ UNCHANGED member
    BY <1>2, <2>2, <2>6 DEF MembersOf
  <2> QED BY <2>3, <2>4, <2>5, <2>6
<1> QED BY <1>1, <1>2

LEMMA PinsKept ==
  ASSUME SchemaInv, SchemaNext
  PROVE  MembersPinned'
<1>1. TypesFit /\ TypesFit' /\ Checks /\ version \in 8..11
  BY TypesHold DEF SchemaInv, TypesFit, SchemaTypeOK
<1>2. CASE Write
  <2> SUFFICES ASSUME version' >= 10
               PROVE  MembersPinned'
    BY DEF MembersPinned
  <2>0. version' = version
    BY <1>2 DEF Write
  <2>1. version' = version /\ version >= 10 /\ version >= 9
    BY <1>1, <2>0
  <2>2. ASSUME NEW m \in member'
        PROVE  Pinned(m)'
    <3>1. CASE m \notin member /\ ~Moved(m)
      BY <1>2, <2>1, <3>1 DEF Write, Triggers, MembershipBinds
    <3>3. CASE Moved(m)
      <4>1. PICK old \in member : m = [old EXCEPT !.container = m.container]
        BY <3>3 DEF Moved
      <4>2. old \in MemberRow
        BY <1>1 DEF TypesFit, SchemaTypeOK
      <4>3. /\ m.item = old.item /\ m.of = old.of
            /\ m.record = old.record /\ m.content = old.content
        BY <4>1, <4>2 DEF MemberRow
      <4>4. old.of \in DOMAIN revision /\ old.record \in DOMAIN record
        BY <1>1, <2>1 DEF Checks, CompositionChecks
      <4>5. revision'[old.of] = revision[old.of] /\ record'[old.record] = record[old.record]
        BY <1>1, <1>2, <2>1, <4>4, ReviewsKept
      <4>6. Pinned(old)
        BY <2>1 DEF SchemaInv, MembersPinned
      <4> QED BY <4>3, <4>5, <4>6 DEF Pinned
    <3>2. CASE m \in member
      <4>1. m.of \in DOMAIN revision /\ m.record \in DOMAIN record
        BY <1>1, <2>1, <3>2 DEF Checks, CompositionChecks
      <4>2. revision'[m.of] = revision[m.of] /\ record'[m.record] = record[m.record]
        BY <1>1, <1>2, <2>1, <4>1, ReviewsKept
      <4>3. Pinned(m)
        BY <2>1, <3>2 DEF SchemaInv, MembersPinned
      <4> QED BY <4>2, <4>3 DEF Pinned
    <3> QED BY <3>1, <3>2, <3>3
  <2>3. \A c \in Containers : Open(c)' \/ MembersOf(c)' \subseteq containers'[c].final
    BY <1>2, <2>1, CompositionKept
  <2> QED BY <2>2, <2>3 DEF MembersPinned
<1>3. CASE Upgrade10
  <2>1. \A m \in member : m.container \in Containers
    BY <1>1 DEF TypesFit, SchemaTypeOK, MemberRow
  <2>2. member = {}
    BY <1>1, <1>3, <2>1 DEF Upgrade10, NothingToBackfill, Checks, References
  <2>3. member' = {} /\ \A c \in Containers : containers'[c].status # "finalized"
    BY <1>3, <2>2 DEF Upgrade10, NothingToBackfill, compose
  <2> QED BY <2>3 DEF MembersPinned, Open
<1>4. CASE Upgrade09 \/ Downgrade09 \/ Downgrade10
  <2>1. version' \in {8, 9}
    BY <1>4 DEF Upgrade09, Downgrade09, Downgrade10
  <2> QED BY <2>1 DEF MembersPinned
<1>5. CASE Upgrade11 \/ Downgrade11
  <2>1. /\ revision' = revision /\ record' = record
        /\ containers' = containers /\ member' = member
    BY <1>5 DEF Upgrade11, Downgrade11, review, compose
  <2>2. version \in {10, 11}
    BY <1>5 DEF Upgrade11, Downgrade11
  <2>3. version >= 10
    BY <2>2
  <2> QED BY <2>1, <2>3 DEF SchemaInv, MembersPinned, Pinned, MembersOf, Open
<1> QED BY <1>2, <1>3, <1>4, <1>5 DEF SchemaNext, Migrate

(* A seal that a statement adds names a snapshot of its export, and the    *)
(* snapshots of earlier seals are frozen; t11 begins and ends without seals.*)
LEMMA SealsKept ==
  ASSUME SchemaInv, SchemaNext
  PROVE  SealsBelong'
<1>1. TypesFit /\ TypesFit' /\ Checks /\ version \in 8..11
  BY TypesHold DEF SchemaInv, TypesFit, SchemaTypeOK
<1>2. CASE Write
  <2> SUFFICES ASSUME version' = 11, NEW k \in DOMAIN seal'
               PROVE  /\ seal'[k].snapshot \in DOMAIN snapshot'
                      /\ snapshot'[seal'[k].snapshot].export = seal'[k].export
    BY DEF SealsBelong
  <2>0. version' = version
    BY <1>2 DEF Write
  <2>1. version = 11 /\ version >= 11
    BY <2>0
  <2>2. CASE k \notin DOMAIN seal
    BY <1>2, <2>1, <2>2 DEF Write, Triggers, SealBelongs
  <2>3. CASE k \in DOMAIN seal
    <3>1. seal'[k] = seal[k]
      BY <1>1, <1>2, <2>1, <2>3, OutputKept
    <3>2. seal[k].snapshot \in DOMAIN snapshot /\ snapshot[seal[k].snapshot].export = seal[k].export
      BY <2>1, <2>3 DEF SchemaInv, SealsBelong
    <3>3. /\ seal[k].snapshot \in DOMAIN snapshot'
          /\ snapshot'[seal[k].snapshot] = snapshot[seal[k].snapshot]
      BY <1>1, <1>2, <2>1, <3>2, OutputKept
    <3> QED BY <3>1, <3>2, <3>3
  <2> QED BY <2>2, <2>3
<1>3. CASE Upgrade11
  <2>1. version = 10 /\ seal' = seal
    BY <1>3 DEF Upgrade11
  <2>2. seal = <<>>
    BY <1>1, <2>1 DEF TypesFit, SchemaTypeOK
  <2> QED BY <2>1, <2>2 DEF SealsBelong
<1>4. CASE Upgrade09 \/ Upgrade10 \/ Downgrade09 \/ Downgrade10 \/ Downgrade11
  <2>1. version' \in {8, 9, 10}
    BY <1>4 DEF Upgrade09, Upgrade10, Downgrade09, Downgrade10, Downgrade11
  <2> QED BY <2>1 DEF SealsBelong
<1> QED BY <1>2, <1>3, <1>4 DEF SchemaNext, Migrate

(* A completed export points to a seal that is there.                      *)
LEMMA DeliveredHasSeal ==
  ASSUME Checks, version >= 11, NEW e \in Exports, Delivered(e)
  PROVE  export[e].seal \in DOMAIN seal
BY DEF Checks, ExportChecks, Delivered

LEMMA CompletionKept ==
  ASSUME SchemaInv, SchemaNext
  PROVE  CompletedIsSealed'
<1>1. TypesFit /\ TypesFit' /\ Checks /\ Checks' /\ version \in 8..11 /\ SealsBelong'
  BY TypesHold, ChecksHold, SealsKept DEF SchemaInv, TypesFit, SchemaTypeOK
<1> SUFFICES ASSUME version' = 11, NEW e \in Exports, Delivered(e)'
             PROVE  /\ SealOf(e)'.export = e /\ SealOf(e)'.object = export'[e].object
                    /\ snapshot'[SealOf(e)'.snapshot].export = e
  BY DEF CompletedIsSealed
<1>2. export'[e].seal \in DOMAIN seal'
  BY <1>1 DEF Checks, ExportChecks, Delivered
<1>3. CASE Write
  <2>0. version' = version
    BY <1>3 DEF Write
  <2>1. version = 11 /\ version >= 11
    BY <2>0
  <2>2. CASE export'[e] # export[e]
    <3>1. seal'[export'[e].seal] = [export |-> e, snapshot |-> export'[e].snapshot,
                                    object |-> export'[e].object]
      BY <1>3, <2>1, <2>2 DEF Write, Triggers, CompletedSealed, Sealed
    <3> QED BY <1>1, <1>2, <3>1 DEF SealOf, SealsBelong
  <2>3. CASE export'[e] = export[e]
    <3>1. Delivered(e)
      BY <2>3 DEF Delivered
    <3>2. SealOf(e).export = e /\ SealOf(e).object = export[e].object
      BY <2>1, <3>1 DEF SchemaInv, CompletedIsSealed
    <3>3. export[e].seal \in DOMAIN seal
      BY <1>1, <2>1, <3>1, DeliveredHasSeal
    <3>4. seal'[export'[e].seal] = SealOf(e)
      BY <1>1, <1>3, <2>1, <2>3, <3>3, OutputKept DEF SealOf
    <3> QED BY <1>1, <1>2, <2>3, <3>2, <3>4 DEF SealOf, SealsBelong
  <2> QED BY <2>2, <2>3
<1>4. CASE Upgrade11
  <2>1. export' = [x \in Exports |->
          IF export[x].status = "absent" THEN NoExport
          ELSE [export[x] EXCEPT !.status = "completed", !.legacy = TRUE]]
    BY <1>4 DEF Upgrade11
  <2>2. export[e] \in ExportRow
    BY <1>1 DEF TypesFit, SchemaTypeOK
  <2>3. export'[e].status = "absent" \/ export'[e].legacy
    BY <2>1, <2>2 DEF ExportRow, NoExport
  <2> QED BY <2>3 DEF Delivered
<1>5. CASE Upgrade09 \/ Upgrade10 \/ Downgrade09 \/ Downgrade10 \/ Downgrade11
  <2>1. version' \in {8, 9, 10}
    BY <1>5 DEF Upgrade09, Upgrade10, Downgrade09, Downgrade10, Downgrade11
  <2> QED BY <2>1
<1> QED BY <1>3, <1>4, <1>5 DEF SchemaNext, Migrate
-----------------------------------------------------------------------------
LEMMA SchemaInvInit == SchemaInit => SchemaInv
<1> SUFFICES ASSUME SchemaInit
             PROVE  SchemaInv
  OBVIOUS
<1>1. version = 8
  BY DEF SchemaInit
<1>2. revision = <<>> /\ record = <<>> /\ snapshot = <<>> /\ seal = <<>> /\ member = {}
  BY DEF SchemaInit
<1>3. items \in [Items -> ItemRow] /\ \A i \in Items : items[i].approved = 0 /\ items[i].record = 0
  <2>1. items \in [Items -> [status : {"draft"}, candidate : Items,
                            judged : {FALSE}, approved : {0}, record : {0}]]
    BY DEF SchemaInit
  <2>2. ASSUME NEW i \in Items
        PROVE  items[i] \in ItemRow
    <3>1. PICK j \in Items : items[i] = [status |-> "draft", candidate |-> j, judged |-> FALSE,
                                         approved |-> 0, record |-> 0]
      BY <2>1
    <3> QED BY <3>1 DEF ItemRow
  <2>3. \A i \in Items : items[i].approved = 0 /\ items[i].record = 0
    BY <2>1
  <2> QED BY <2>1, <2>2, <2>3
<1>4. /\ containers \in [Containers -> ContainerRow]
      /\ \A c \in Containers : containers[c].final = {}
  BY DEF SchemaInit, NoContainer, ContainerRow
<1>5. /\ export \in [Exports -> ExportRow]
      /\ \A e \in Exports : export[e] = NoExport
  BY DEF SchemaInit, NoExport, ExportRow
<1>6. TypesFit
  BY <1>1, <1>2, <1>3, <1>4, <1>5 DEF TypesFit, SchemaTypeOK, NoExport
<1>7. References
  BY <1>2, <1>5 DEF References, NoExport
<1>8. Checks
  BY <1>1, <1>7 DEF Checks
<1>9. SealsBelong /\ ApprovedIsBound /\ MembersPinned /\ CompletedIsSealed
  BY <1>1 DEF SealsBelong, ApprovedIsBound, MembersPinned, CompletedIsSealed
<1> QED BY <1>6, <1>8, <1>9 DEF SchemaInv

LEMMA SchemaInvStep == SchemaInv /\ [SchemaNext]_schemaVars => SchemaInv'
<1>1. ASSUME SchemaInv, SchemaNext
      PROVE  SchemaInv'
  BY <1>1, TypesHold, ChecksHold, SealsKept, ApprovalKept, PinsKept, CompletionKept DEF SchemaInv
<1>2. ASSUME SchemaInv, UNCHANGED schemaVars
      PROVE  SchemaInv'
  <2>1. /\ version' = version /\ items' = items /\ revision' = revision /\ record' = record
        /\ containers' = containers /\ member' = member
        /\ export' = export /\ snapshot' = snapshot /\ seal' = seal
    BY <1>2 DEF schemaVars, review, compose, output
  <2>2. TypesFit'
    BY <1>2, <2>1 DEF SchemaInv, TypesFit, SchemaTypeOK
  <2>3. Checks'
    BY <1>2, <2>1 DEF SchemaInv, Checks, References, ItemChecks, RevisionChecks, RecordChecks,
       CompositionChecks, SealChecks, ExportChecks, SnapshotChecks, Distinct
  <2>4. SealsBelong' /\ ApprovedIsBound'
    BY <1>2, <2>1 DEF SchemaInv, SealsBelong, ApprovedIsBound, Bound
  <2>5. MembersPinned'
    BY <1>2, <2>1 DEF SchemaInv, MembersPinned, Pinned, MembersOf, Open
  <2>6. CompletedIsSealed'
    BY <1>2, <2>1 DEF SchemaInv, CompletedIsSealed, Delivered, SealOf
  <2> QED BY <2>2, <2>3, <2>4, <2>5, <2>6 DEF SchemaInv
<1> QED BY <1>1, <1>2

LEMMA SchemaInvHolds == SchemaSpec => []SchemaInv
BY SchemaInvInit, SchemaInvStep, PTL DEF SchemaSpec

(* t09: no writer and no migration leaves an item approved that is not     *)
(* bound to the revision, the record and the content of its approval.      *)
THEOREM ApprovedIsBoundHolds == SchemaSpec => []ApprovedIsBound
<1>1. SchemaInv => ApprovedIsBound
  BY DEF SchemaInv
<1> QED BY <1>1, SchemaInvHolds, PTL

(* t10: every member stays pinned to an approval of its item, wherever it  *)
(* is moved, and a finalized container has no member it was not finalized  *)
(* with, unless it was written beside the finalisation.                    *)
THEOREM MembersPinnedHolds == SchemaSpec => []MembersPinned
<1>1. SchemaInv => MembersPinned
  BY DEF SchemaInv
<1> QED BY <1>1, SchemaInvHolds, PTL

(* t11: an export is completed only with a seal of its own snapshot and    *)
(* object.                                                                 *)
THEOREM CompletedIsSealedHolds == SchemaSpec => []CompletedIsSealed
<1>1. SchemaInv => CompletedIsSealed
  BY DEF SchemaInv
<1> QED BY <1>1, SchemaInvHolds, PTL

(* A review that is bound was given under t09, whose trigger freezes both   *)
(* tables, and stops the way back to t08.                                  *)
LEMMA BoundReviewKept ==
  ASSUME SchemaInv, SchemaNext, NEW k \in DOMAIN record, record[k].of # 0
  PROVE  record'[k] = record[k] /\ revision'[record[k].of] = revision[record[k].of]
<1>1. TypesFit /\ TypesFit' /\ Checks /\ version \in 8..11
  BY TypesHold DEF SchemaInv, TypesFit, SchemaTypeOK
<1>2. version >= 9
  BY <1>1 DEF TypesFit, SchemaTypeOK
<1>3. record[k].of \in DOMAIN revision
  BY <1>1, <1>2 DEF Checks, RecordChecks
<1>4. CASE Write
  BY <1>1, <1>2, <1>3, <1>4, ReviewsKept
<1>5. CASE Upgrade09
  <2>1. version = 8
    BY <1>5 DEF Upgrade09
  <2> QED BY <1>2, <2>1
<1>6. CASE Downgrade09
  BY <1>6 DEF Downgrade09, NothingApproved
<1>7. CASE Upgrade10 \/ Upgrade11 \/ Downgrade10 \/ Downgrade11
  BY <1>7 DEF Upgrade10, Upgrade11, Downgrade10, Downgrade11, review
<1> QED BY <1>4, <1>5, <1>6, <1>7 DEF SchemaNext, Migrate

LEMMA FinalKept ==
  ASSUME SchemaInv, SchemaNext, NEW c \in Containers, version >= 10,
         containers[c].status = "finalized"
  PROVE  /\ containers'[c] \in {NoContainer, containers[c]}
         /\ Open(c) \/ MembersOf(c)' \subseteq MembersOf(c)
<1>1. CASE Write
  <2>1. containers'[c] \in {NoContainer, containers[c]}
    BY <1>1 DEF Write, Triggers, FinalizedFrozen
  <2>2. CASE containers'[c] # NoContainer
    BY <1>1, <2>1, <2>2, NoMemberAdded
  <2>3. CASE containers'[c] = NoContainer
    <3>1. References'
      BY <1>1 DEF Write, Checks
    <3>2. MembersOf(c)' = {}
      BY <2>3, <3>1 DEF References, MembersOf, NoContainer
    <3> QED BY <2>1, <3>2
  <2> QED BY <2>1, <2>2, <2>3
<1>2. CASE Upgrade09 \/ Downgrade09 \/ Upgrade10
  <2>1. version \in {8, 9}
    BY <1>2 DEF Upgrade09, Downgrade09, Upgrade10
  <2> QED BY <2>1
<1>3. CASE Downgrade10
  BY <1>3 DEF Downgrade10, NothingComposed
<1>4. CASE Upgrade11 \/ Downgrade11
  BY <1>4 DEF Upgrade11, Downgrade11, compose, MembersOf
<1> QED BY <1>1, <1>2, <1>3, <1>4 DEF SchemaNext, Migrate

LEMMA DeliveryKept ==
  ASSUME SchemaInv, SchemaNext, NEW e \in Exports, Delivered(e)
  PROVE  export'[e] = export[e] /\ SealOf(e)' = SealOf(e)
<1>1. TypesFit /\ TypesFit' /\ Checks /\ version \in 8..11
  BY TypesHold DEF SchemaInv, TypesFit, SchemaTypeOK
<1>2. version = 11
  <2>1. ~(version < 11)
    BY <1>1 DEF TypesFit, Delivered
  <2> QED BY <1>1, <2>1
<1>3. CASE Write
  <2>0. version >= 11
    BY <1>2
  <2>1. export'[e] = export[e]
    BY <1>3, <2>0 DEF Write, Triggers, CompletedFrozen
  <2>2. export[e].seal \in DOMAIN seal
    BY <1>1, <2>0, DeliveredHasSeal
  <2>3. seal'[export[e].seal] = seal[export[e].seal]
    BY <1>1, <1>3, <2>0, <2>2, OutputKept
  <2> QED BY <2>1, <2>3 DEF SealOf
<1>4. CASE Downgrade11
  BY <1>4 DEF Downgrade11, OnlyLegacy, Delivered
<1>5. CASE Upgrade09 \/ Upgrade10 \/ Upgrade11 \/ Downgrade09 \/ Downgrade10
  <2>1. version \in {8, 9, 10}
    BY <1>5 DEF Upgrade09, Upgrade10, Upgrade11, Downgrade09, Downgrade10
  <2> QED BY <1>2, <2>1
<1> QED BY <1>3, <1>4, <1>5 DEF SchemaNext, Migrate

(* No writer and no migration changes a bound review, the row of a         *)
(* finalized container or a completed export, or puts a member into a      *)
(* finalized container, but for one written beside the finalisation.       *)
THEOREM FactsSurviveHolds == SchemaSpec => FactsSurvive
<1>1. SchemaInv /\ [SchemaNext]_schemaVars =>
        [/\ \A k \in DOMAIN record : record[k].of # 0 =>
              /\ record'[k] = record[k]
              /\ revision'[record[k].of] = revision[record[k].of]
         /\ \A c \in Containers :
              (version >= 10 /\ containers[c].status = "finalized") =>
                /\ containers'[c] \in {NoContainer, containers[c]}
                /\ Open(c) \/ MembersOf(c)' \subseteq MembersOf(c)
         /\ \A e \in Exports : Delivered(e) => export'[e] = export[e] /\ SealOf(e)' = SealOf(e)
        ]_schemaVars
  BY BoundReviewKept, FinalKept, DeliveryKept
<1> QED BY <1>1, SchemaInvHolds, PTL DEF SchemaSpec, FactsSurvive
=============================================================================
