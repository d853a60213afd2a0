------------------------ MODULE SectionEditingProofs ------------------------
(***************************************************************************)
(* Proofs about SectionEditing for any number of users and requests, any   *)
(* lease duration and any bounds. EditInv is inductive; the theorems at    *)
(* the end follow.                                                         *)
(***************************************************************************)
EXTENDS SectionEditing, SequenceTheorems, TLAPS

AllOps == Editing \union LeaseCalls \union Plain

InEdit(r)      == request[r].pc = "checked" /\ request[r].op \in Editing
InLeaseCall(r) == request[r].pc = "checked" /\ request[r].op \in LeaseCalls

(* A save that has the row lock works on the current row.                  *)
SavesSeeSection ==
  \A r \in Requests : (lock = r /\ request[r].op = "save") => request[r].seen = section

(* An edit that was let through was let through by the newest lease, which *)
(* is its user's, whatever has happened to it since.                       *)
EditsHoldNewest ==
  \A r \in Requests : InEdit(r) =>
    /\ request[r].seen.revision = request[r].expected
    /\ request[r].lease \in DOMAIN leases
    /\ request[r].lease = Len(leases)
    /\ leases[request[r].lease].user = request[r].user

CallsKnowTheirLease ==
  \A r \in Requests : InLeaseCall(r) => request[r].lease \in DOMAIN leases

AskedByUsers == \A r \in Requests : request[r].pc # "idle" => request[r].user \in Users

LockedByEdits == \A r \in Requests : request[r].pc = "locked" => request[r].op \in Editing

EditInv == /\ TypeOK /\ RevisionChain /\ OnlyNewestUnreleased
           /\ SavesSeeSection /\ EditsHoldNewest /\ CallsKnowTheirLease
           /\ AskedByUsers /\ LockedByEdits
-----------------------------------------------------------------------------
(* Rows.                                                                   *)

LEMMA NewSectionType == NewSection \in SectionRow
  BY DEF NewSection, SectionRow, Status, Assignment

LEMMA IdleType ==
  IdleRequest \in Request /\ IdleRequest.pc = "idle"
  BY NewSectionType DEF IdleRequest, Request, Plain

LEMMA Remember ==
  ASSUME NEW q \in Request, NEW p \in {"idle", "loaded", "locked", "checked"},
         NEW s \in SectionRow
  PROVE  /\ [q EXCEPT !.pc = p] \in Request
         /\ [q EXCEPT !.pc = p, !.seen = s] \in Request
  BY DEF Request

LEMMA Older ==
  ASSUME NEW q \in Request, NEW n \in Nat
  PROVE  [q EXCEPT !.age = n] \in Request
  BY DEF Request

LEMMA GrantedType ==
  ASSUME NEW age \in Nat
  PROVE  Granted(age) \in Nat
  BY SectionAssumption DEF SectionAssumption, Granted

(* A flush writes a column or leaves it alone.                             *)
LEMMA FlushType ==
  ASSUME TypeOK, NEW seen \in SectionRow, NEW new \in SectionRow
  PROVE  Flush(seen, new) \in SectionRow
  BY DEF TypeOK, Flush, Column, SectionRow

LEMMA FlushKeepsText ==
  ASSUME TypeOK, NEW seen \in SectionRow, NEW new \in SectionRow,
         new.revision = seen.revision, new.text = seen.text
  PROVE  /\ Flush(seen, new).revision = section.revision
         /\ Flush(seen, new).text = section.text
  BY DEF Flush, Column

LEMMA RowUpdates ==
  ASSUME NEW s \in SectionRow, NEW st \in Status, NEW a \in Assignment,
         NEW u \in Users \union {NoUser}
  PROVE  /\ [s EXCEPT !.status = st] \in SectionRow
         /\ [s EXCEPT !.assignment = a] \in SectionRow
         /\ [s EXCEPT !.assignee = u, !.assignment = a] \in SectionRow
  BY DEF SectionRow

(* A sequence of the same length with members of the same set.             *)
LEMMA SameLength ==
  ASSUME NEW S, NEW s \in Seq(S), NEW t \in [DOMAIN s -> S]
  PROVE  t \in Seq(S) /\ Len(t) = Len(s) /\ DOMAIN t = DOMAIN s
<1>1. Len(s) \in Nat /\ DOMAIN s = 1..Len(s)
  BY LenProperties
<1>2. t \in [1..Len(s) -> S]
  BY <1>1
<1>3. t \in Seq(S)
  BY <1>1, <1>2, SeqDef
<1>4. Len(t) \in Nat /\ DOMAIN t = 1..Len(t) /\ DOMAIN t = 1..Len(s)
  BY <1>2, <1>3, LenProperties
<1>5. Len(t) = Len(s)
  BY <1>1, <1>4
<1> QED
  BY <1>1, <1>3, <1>4, <1>5

LEMMA ExpireRow ==
  ASSUME NEW x \in LeaseRow
  PROVE  /\ Expire(x) \in LeaseRow
         /\ Expire(x).user = x.user
         /\ x.left = 0 => Expire(x).released
         /\ x.released => Expire(x).released
  BY DEF LeaseRow, Expire

LEMMA LeaseUpdates ==
  ASSUME NEW x \in LeaseRow, NEW n \in Nat
  PROVE  /\ [x EXCEPT !.left = n] \in LeaseRow
         /\ [x EXCEPT !.left = n].user = x.user
         /\ [x EXCEPT !.left = n].released = x.released
         /\ [x EXCEPT !.released = TRUE] \in LeaseRow
         /\ [x EXCEPT !.released = TRUE].user = x.user
         /\ [x EXCEPT !.released = TRUE].released
  BY DEF LeaseRow

LEMMA SweptType ==
  ASSUME leases \in Seq(LeaseRow)
  PROVE  /\ Swept \in Seq(LeaseRow) /\ Len(Swept) = Len(leases)
         /\ DOMAIN Swept = DOMAIN leases
         /\ \A l \in DOMAIN leases : Swept[l] = Expire(leases[l])
<1>1. \A l \in DOMAIN leases : leases[l] \in LeaseRow
  BY ElementOfSeq, LenProperties
<1>2. Swept \in [DOMAIN leases -> LeaseRow]
  BY <1>1, ExpireRow DEF Swept
<1> QED
  BY <1>2, SameLength DEF Swept
-----------------------------------------------------------------------------
(* Steps.                                                                  *)

LEMMA TypesOf ==
  ASSUME TypeOK, NEW r \in Requests
  PROVE  /\ request[r] \in Request
         /\ request[r].seen \in SectionRow
         /\ request[r].user \in Users \union {NoUser}
         /\ request[r].lease \in Nat /\ request[r].expected \in Nat
         /\ request[r].age \in Nat
         /\ section \in SectionRow
         /\ Len(leases) \in Nat /\ DOMAIN leases = 1..Len(leases)
         /\ \A l \in DOMAIN leases : leases[l] \in LeaseRow
         /\ Len(history) \in Nat /\ DOMAIN history = 1..Len(history)
         /\ \A k \in DOMAIN history : history[k] \in RevisionRow
<1>1. /\ Len(leases) \in Nat /\ DOMAIN leases = 1..Len(leases)
      /\ \A l \in DOMAIN leases : leases[l] \in LeaseRow
  BY LenProperties, ElementOfSeq DEF TypeOK
<1>2. /\ Len(history) \in Nat /\ DOMAIN history = 1..Len(history)
      /\ \A k \in DOMAIN history : history[k] \in RevisionRow
  BY LenProperties, ElementOfSeq DEF TypeOK
<1>3. request[r] \in Request /\ section \in SectionRow
  BY DEF TypeOK
<1> QED
  BY <1>1, <1>2, <1>3 DEF Request

(* A request that is between its row lock and its end holds the lock.      *)
LEMMA LockHolder ==
  ASSUME TypeOK, NEW r \in Requests
  PROVE  /\ lock = r <=> (request[r].pc = "locked" \/ InEdit(r))
         /\ r # NoRequest
  BY SectionAssumption DEF TypeOK, SectionAssumption, InEdit

(* The end of a request, answered or aborted: what it must leave as it is  *)
(* so that the other requests can go on.                                   *)
LEMMA AnswerKeepsInv ==
  ASSUME EditInv, NEW r \in Requests, Answer(r),
         lock' = (IF lock = r THEN NoRequest ELSE lock),
         section' \in SectionRow, leases' \in Seq(LeaseRow), history' \in Seq(RevisionRow),
         RevisionChain', OnlyNewestUnreleased',
         lock \in {r, NoRequest} \/ section' = section,
         lock \in {r, NoRequest} \/ Len(leases') = Len(leases),
         \A l \in DOMAIN leases : l \in DOMAIN leases' /\ leases'[l].user = leases[l].user
  PROVE  EditInv'
<1>1. request' = [request EXCEPT ![r] = IdleRequest]
  BY DEF Answer, SetRequest
<1>2. /\ request'[r] = IdleRequest
      /\ \A q \in Requests : q # r => request'[q] = request[q]
      /\ request' \in [Requests -> Request]
  BY <1>1, IdleType DEF EditInv, TypeOK
<1>3. lock' \in Requests \union {NoRequest}
  BY DEF EditInv, TypeOK
<1>4. \A q \in Requests : lock' = q <=> (request'[q].pc = "locked" \/ InEdit(q)')
  <2> SUFFICES ASSUME NEW q \in Requests
               PROVE  lock' = q <=> (request'[q].pc = "locked" \/ InEdit(q)')
    OBVIOUS
  <2>1. CASE q = r
    BY <2>1, <1>2, IdleType, SectionAssumption DEF SectionAssumption, InEdit
  <2>2. CASE q # r
    BY <2>2, <1>2, LockHolder, SectionAssumption DEF SectionAssumption, InEdit, EditInv
  <2> QED
    BY <2>1, <2>2
<1>5. TypeOK'
  BY <1>2, <1>3, <1>4 DEF TypeOK, InEdit
<1>6. SavesSeeSection'
  <2> SUFFICES ASSUME NEW q \in Requests, lock' = q, request'[q].op = "save"
               PROVE  request'[q].seen = section'
    BY DEF SavesSeeSection
  <2>1. q # r /\ lock = q /\ q # NoRequest
    BY SectionAssumption DEF SectionAssumption
  <2> QED
    BY <2>1, <1>2 DEF EditInv, SavesSeeSection
<1>7. EditsHoldNewest'
  <2> SUFFICES ASSUME NEW q \in Requests, InEdit(q)'
               PROVE  /\ request'[q].seen.revision = request'[q].expected
                      /\ request'[q].lease \in DOMAIN leases'
                      /\ request'[q].lease = Len(leases')
                      /\ leases'[request'[q].lease].user = request'[q].user
    BY DEF EditsHoldNewest
  <2>1. q # r
    BY <1>2, IdleType DEF InEdit
  <2>2. request'[q] = request[q] /\ InEdit(q)
    BY <2>1, <1>2 DEF InEdit
  <2>3. lock = q /\ q # NoRequest
    BY <2>2, LockHolder DEF EditInv
  <2>4. Len(leases') = Len(leases)
    BY <2>1, <2>3
  <2> QED
    BY <2>2, <2>4 DEF EditInv, EditsHoldNewest
<1>8. CallsKnowTheirLease'
  <2> SUFFICES ASSUME NEW q \in Requests, InLeaseCall(q)'
               PROVE  request'[q].lease \in DOMAIN leases'
    BY DEF CallsKnowTheirLease
  <2>1. q # r
    BY <1>2, IdleType DEF InLeaseCall
  <2> QED
    BY <2>1, <1>2 DEF EditInv, CallsKnowTheirLease, InLeaseCall
<1>9. AskedByUsers'
  BY <1>2, IdleType DEF EditInv, AskedByUsers
<1>10. LockedByEdits'
  BY <1>2, IdleType DEF EditInv, LockedByEdits
<1> QED
  BY <1>5, <1>6, <1>7, <1>8, <1>9, <1>10 DEF EditInv

(* A request that goes on with a new state while the rows stay.            *)
LEMMA ProceedKeepsInv ==
  ASSUME EditInv, NEW r \in Requests, NEW q \in Request, SetRequest(r, q),
         UNCHANGED <<section, leases, history>>,
         lock' \in {lock, r}, lock' = r => lock \in {r, NoRequest},
         lock' = r <=> (q.pc = "locked" \/ (q.pc = "checked" /\ q.op \in Editing)),
         (lock' = r /\ q.op = "save") => q.seen = section,
         (q.pc = "checked" /\ q.op \in Editing) =>
           /\ q.seen.revision = q.expected
           /\ q.lease \in DOMAIN leases /\ q.lease = Len(leases)
           /\ leases[q.lease].user = q.user,
         (q.pc = "checked" /\ q.op \in LeaseCalls) => q.lease \in DOMAIN leases,
         q.user \in Users,
         q.pc = "locked" => q.op \in Editing
  PROVE  EditInv'
<1>1. /\ request'[r] = q
      /\ \A p \in Requests : p # r => request'[p] = request[p]
      /\ request' \in [Requests -> Request]
  BY DEF EditInv, TypeOK, SetRequest
<1>2. \A p \in Requests : p # r => (lock' = p <=> lock = p)
  BY SectionAssumption DEF SectionAssumption
<1>3. TypeOK'
  <2>1. \A p \in Requests : lock' = p <=> (request'[p].pc = "locked" \/ InEdit(p)')
    <3> SUFFICES ASSUME NEW p \in Requests
                 PROVE  lock' = p <=> (request'[p].pc = "locked" \/ InEdit(p)')
      OBVIOUS
    <3>1. CASE p = r
      <4>1. request'[p] = q
        BY <3>1, <1>1
      <4>2. InEdit(p)' <=> (q.pc = "checked" /\ q.op \in Editing)
        BY <4>1 DEF InEdit
      <4> QED
        BY <3>1, <4>1, <4>2
    <3>2. CASE p # r
      BY <3>2, <1>1, <1>2, LockHolder DEF InEdit, EditInv
    <3> QED
      BY <3>1, <3>2
  <2> QED
    BY <1>1, <2>1 DEF TypeOK, EditInv, InEdit
<1>4. RevisionChain' /\ OnlyNewestUnreleased'
  BY DEF EditInv, RevisionChain, OnlyNewestUnreleased
<1>5. SavesSeeSection'
  BY <1>1, <1>2 DEF EditInv, SavesSeeSection
<1>6. EditsHoldNewest'
  BY <1>1 DEF EditInv, EditsHoldNewest, InEdit
<1>7. CallsKnowTheirLease'
  BY <1>1 DEF EditInv, CallsKnowTheirLease, InLeaseCall
<1>8. AskedByUsers'
  BY <1>1 DEF EditInv, AskedByUsers
<1>9. LockedByEdits'
  BY <1>1 DEF EditInv, LockedByEdits
<1> QED
  BY <1>3, <1>4, <1>5, <1>6, <1>7, <1>8, <1>9 DEF EditInv

LEMMA AskerIsUser ==
  ASSUME EditInv, NEW r \in Requests, request[r].pc # "idle"
  PROVE  request[r].user \in Users
  BY DEF EditInv, AskedByUsers

LEMMA ReceiveKeepsInv ==
  ASSUME EditInv, NEW r \in Requests, Receive(r)
  PROVE  EditInv'
<1>1. PICK user \in Users, op \in AllOps, l \in Nat, n \in Nat : Arrives(r, op, user, l, n)
  BY TypesOf DEF Receive, EditInv, AllOps, SectionRow
<1> DEFINE q == [pc |-> "loaded", op |-> op, user |-> user, lease |-> l,
                 expected |-> n, seen |-> section, age |-> 0]
<1>2. q \in Request
  BY TypesOf DEF EditInv, Request, AllOps
<1>3. q.pc = "loaded" /\ q.user \in Users
  OBVIOUS
<1>4. SetRequest(r, q) /\ UNCHANGED <<section, leases, history, lock>>
      /\ request[r].pc = "idle"
  BY <1>1 DEF Arrives
<1>5. lock # r
  BY <1>4, LockHolder DEF EditInv, InEdit
<1> HIDE DEF q
<1> QED
  BY <1>2, <1>3, <1>4, <1>5, ProceedKeepsInv

LEMMA AbortKeepsInv ==
  ASSUME EditInv, NEW r \in Requests, Abort(r)
  PROVE  EditInv'
<1>1. /\ Answer(r) /\ UNCHANGED <<section, leases, history>>
      /\ lock' = (IF lock = r THEN NoRequest ELSE lock)
  BY DEF Abort, Unlocked
<1>2. section' \in SectionRow /\ leases' \in Seq(LeaseRow) /\ history' \in Seq(RevisionRow)
  BY <1>1 DEF EditInv, TypeOK
<1>3. RevisionChain' /\ OnlyNewestUnreleased'
  BY <1>1 DEF EditInv, RevisionChain, OnlyNewestUnreleased
<1> QED
  BY <1>1, <1>2, <1>3, AnswerKeepsInv

(* Nobody holds the section: the new lease is the only unreleased one.     *)
LEMMA GrantKeepsNewest ==
  ASSUME EditInv, Holders = {}, NEW x \in LeaseRow, leases' = Append(Swept, x)
  PROVE  /\ leases' \in Seq(LeaseRow)
         /\ \A l \in DOMAIN leases : l \in DOMAIN leases' /\ leases'[l].user = leases[l].user
         /\ OnlyNewestUnreleased'
<1>1. /\ leases \in Seq(LeaseRow) /\ Len(leases) \in Nat
      /\ DOMAIN leases = 1..Len(leases)
      /\ \A l \in DOMAIN leases : leases[l] \in LeaseRow
  BY LenProperties, ElementOfSeq DEF EditInv, TypeOK
<1>2. /\ Swept \in Seq(LeaseRow) /\ Len(Swept) = Len(leases)
      /\ \A l \in DOMAIN leases : Swept[l] = Expire(leases[l])
  BY <1>1, SweptType
<1>3. /\ leases' \in Seq(LeaseRow) /\ Len(leases') = Len(leases) + 1
      /\ DOMAIN leases' = 1..(Len(leases) + 1)
      /\ \A l \in 1..Len(leases) : leases'[l] = Swept[l]
  BY <1>1, <1>2, AppendProperties, LenProperties
<1>4. \A l \in DOMAIN leases : leases[l].released \/ leases[l].left = 0
  BY <1>1 DEF Holders, Live, LeaseRow
<1>5. \A l \in DOMAIN leases : leases'[l].released /\ leases'[l].user = leases[l].user
  BY <1>1, <1>2, <1>3, <1>4, ExpireRow
<1> QED
  BY <1>1, <1>3, <1>5 DEF OnlyNewestUnreleased

(* One lease changes and keeps its user; no lease is brought back.         *)
LEMMA UpdateKeepsNewest ==
  ASSUME EditInv, NEW old \in Seq(LeaseRow), Len(old) = Len(leases),
         \A l \in DOMAIN leases : /\ old[l].user = leases[l].user
                                  /\ leases[l].released => old[l].released,
         NEW l \in DOMAIN leases, NEW x \in LeaseRow, x.user = leases[l].user,
         leases[l].released => x.released,
         leases' = [old EXCEPT ![l] = x]
  PROVE  /\ leases' \in Seq(LeaseRow)
         /\ Len(leases') = Len(leases) /\ DOMAIN leases' = DOMAIN leases
         /\ \A k \in DOMAIN leases : leases'[k].user = leases[k].user
         /\ OnlyNewestUnreleased'
<1>1. /\ Len(leases) \in Nat /\ DOMAIN leases = 1..Len(leases)
      /\ DOMAIN old = 1..Len(leases)
  BY LenProperties DEF EditInv, TypeOK
<1>2. /\ leases' \in Seq(LeaseRow) /\ Len(leases') = Len(leases)
      /\ \A k \in 1..Len(leases) : leases'[k] = IF k = l THEN x ELSE old[k]
  BY <1>1, ExceptSeq
<1>3. DOMAIN leases' = 1..Len(leases)
  BY <1>2, LenProperties
<1>4. \A k \in DOMAIN leases : /\ leases'[k].user = leases[k].user
                               /\ leases[k].released => leases'[k].released
  BY <1>1, <1>2
<1> QED
  BY <1>1, <1>2, <1>3, <1>4 DEF OnlyNewestUnreleased, EditInv

LEMMA AcquireKeepsInv ==
  ASSUME EditInv, NEW r \in Requests, Acquire(r)
  PROVE  EditInv'
<1> DEFINE me == request[r].user
<1>1. /\ request[r].pc = "loaded" /\ lock = NoRequest /\ Answer(r)
      /\ UNCHANGED <<section, history, lock>>
  BY DEF Acquire, SectionFree
<1>2. me \in Users
  BY <1>1, AskerIsUser
<1>3. /\ section' \in SectionRow /\ history' \in Seq(RevisionRow) /\ RevisionChain'
      /\ leases \in Seq(LeaseRow)
      /\ \A l \in DOMAIN leases : leases[l] \in LeaseRow
  BY <1>1, TypesOf DEF EditInv, TypeOK, RevisionChain
<1>4. /\ leases' \in Seq(LeaseRow) /\ OnlyNewestUnreleased'
      /\ \A l \in DOMAIN leases : l \in DOMAIN leases' /\ leases'[l].user = leases[l].user
  <2> DEFINE new == [user |-> me, left |-> Granted(0), released |-> FALSE]
  <2>1. CASE Holders = {} /\ leases' = Append(Swept, new)
    <3>1. new \in LeaseRow
      BY <1>2, GrantedType DEF LeaseRow
    <3> HIDE DEF new
    <3> QED
      BY <2>1, <3>1, GrantKeepsNewest
  <2>2. CASE \E l \in Holders :
               leases' = IF leases[l].user = me
                         THEN [Swept EXCEPT ![l] = [@ EXCEPT !.left = Granted(0)]] ELSE leases
    <3>1. PICK l \in Holders :
             leases' = IF leases[l].user = me
                       THEN [Swept EXCEPT ![l] = [@ EXCEPT !.left = Granted(0)]] ELSE leases
      BY <2>2
    <3>2. l \in DOMAIN leases
      BY DEF Holders
    <3>3. CASE leases[l].user # me
      BY <1>3, <3>1, <3>3 DEF EditInv, OnlyNewestUnreleased
    <3>4. CASE leases[l].user = me
      <4> DEFINE x == [Swept[l] EXCEPT !.left = Granted(0)]
      <4>1. /\ Swept \in Seq(LeaseRow) /\ Len(Swept) = Len(leases)
            /\ DOMAIN Swept = DOMAIN leases
            /\ \A k \in DOMAIN leases : Swept[k] = Expire(leases[k])
        BY <1>3, SweptType
      <4>2. \A k \in DOMAIN leases : /\ Swept[k] \in LeaseRow
                                     /\ Swept[k].user = leases[k].user
                                     /\ leases[k].released => Swept[k].released
        BY <1>3, <4>1, ExpireRow
      <4>3. /\ x \in LeaseRow /\ x.user = leases[l].user
            /\ leases[l].released => x.released
        BY <3>2, <4>2, GrantedType, LeaseUpdates
      <4>4. leases' = [Swept EXCEPT ![l] = x]
        BY <3>1, <3>4
      <4> HIDE DEF x
      <4> QED
        BY <3>2, <4>1, <4>2, <4>3, <4>4, UpdateKeepsNewest
    <3> QED
      BY <3>3, <3>4
  <2> QED
    BY <2>1, <2>2 DEF Acquire
<1>5. lock' = (IF lock = r THEN NoRequest ELSE lock)
  BY <1>1
<1> QED
  BY <1>1, <1>3, <1>4, <1>5, AnswerKeepsInv

LEMMA LeaseReadKeepsInv ==
  ASSUME EditInv, NEW r \in Requests, LeaseRead(r)
  PROVE  EditInv'
<1>1. /\ request[r].pc = "loaded" /\ request[r].op \in LeaseCalls
      /\ UNCHANGED <<section, leases, history, lock>>
  BY DEF LeaseRead
<1>2. lock # r
  BY <1>1, LockHolder DEF EditInv, InEdit
<1>3. request[r] \in Request /\ request[r].user \in Users
  BY <1>1, AskerIsUser, TypesOf DEF EditInv
<1>4. CASE SetRequest(r, [request[r] EXCEPT !.pc = "checked"]) /\ OwnUnreleased(r)
  <2> DEFINE q == [request[r] EXCEPT !.pc = "checked"]
  <2>1. q \in Request /\ q.user \in Users /\ q.op \notin Editing /\ q.pc = "checked"
        /\ q.lease \in DOMAIN leases
    BY <1>1, <1>3, <1>4 DEF Request, Editing, LeaseCalls, OwnUnreleased
  <2>2. SetRequest(r, q)
    BY <1>4
  <2> HIDE DEF q
  <2> QED
    BY <1>1, <1>2, <2>1, <2>2, ProceedKeepsInv
<1>5. CASE Answer(r)
  <2>1. section' \in SectionRow /\ leases' \in Seq(LeaseRow) /\ history' \in Seq(RevisionRow)
    BY <1>1 DEF EditInv, TypeOK
  <2>2. RevisionChain' /\ OnlyNewestUnreleased'
    BY <1>1 DEF EditInv, RevisionChain, OnlyNewestUnreleased
  <2> QED
    BY <1>1, <1>2, <1>5, <2>1, <2>2, AnswerKeepsInv
<1> QED
  BY <1>4, <1>5 DEF LeaseRead, OwnLive

LEMMA LeaseWriteKeepsInv ==
  ASSUME EditInv, NEW r \in Requests, LeaseWrite(r)
  PROVE  EditInv'
<1> DEFINE l == request[r].lease
           x == IF request[r].op = "heartbeat"
                THEN [leases[l] EXCEPT !.left = Granted(request[r].age)]
                ELSE [leases[l] EXCEPT !.released = TRUE]
<1>1. /\ InLeaseCall(r) /\ Answer(r) /\ UNCHANGED <<section, history, lock>>
  BY DEF LeaseWrite, InLeaseCall
<1>2. l \in DOMAIN leases /\ leases \in Seq(LeaseRow) /\ leases[l] \in LeaseRow
  BY <1>1, TypesOf DEF EditInv, TypeOK, CallsKnowTheirLease
<1>3. x \in LeaseRow /\ x.user = leases[l].user /\ (leases[l].released => x.released)
  BY <1>2, GrantedType, TypesOf, LeaseUpdates DEF EditInv
<1>4. leases' = [leases EXCEPT ![l] = x]
  BY DEF LeaseWrite
<1>5. lock # r
  BY <1>1, LockHolder DEF EditInv, InEdit, InLeaseCall, Editing, LeaseCalls
<1> HIDE DEF x
<1>6. /\ leases' \in Seq(LeaseRow) /\ Len(leases') = Len(leases)
      /\ OnlyNewestUnreleased' /\ DOMAIN leases' = DOMAIN leases
      /\ \A k \in DOMAIN leases : leases'[k].user = leases[k].user
  BY <1>2, <1>3, <1>4, UpdateKeepsNewest
<1>7. section' \in SectionRow /\ history' \in Seq(RevisionRow) /\ RevisionChain'
  BY <1>1 DEF EditInv, TypeOK, RevisionChain
<1> QED
  BY <1>1, <1>5, <1>6, <1>7, AnswerKeepsInv

LEMMA EditLocksKeepsInv ==
  ASSUME EditInv, NEW r \in Requests, EditLocks(r)
  PROVE  EditInv'
<1> DEFINE q == [request[r] EXCEPT !.pc = "locked", !.seen = LockedCopy(r)]
<1>1. /\ request[r].pc = "loaded" /\ request[r].op \in Editing
      /\ lock = NoRequest /\ lock' = r /\ SetRequest(r, q)
      /\ UNCHANGED <<section, leases, history>>
  BY DEF EditLocks, SectionFree
<1>2. request[r] \in Request /\ request[r].user \in Users
  BY <1>1, AskerIsUser, TypesOf DEF EditInv
<1>3. LockedCopy(r) \in SectionRow
  BY TypesOf DEF LockedCopy, EditInv
<1>4. q \in Request
  BY <1>2, <1>3, Remember
<1>5. /\ q.pc = "locked" /\ q.op = request[r].op /\ q.user \in Users
      /\ q.op = "save" => q.seen = section
  BY <1>2 DEF Request, LockedCopy
<1> HIDE DEF q
<1> QED
  BY <1>1, <1>4, <1>5, ProceedKeepsInv

LEMMA EditChecksKeepsInv ==
  ASSUME EditInv, NEW r \in Requests, EditChecks(r)
  PROVE  EditInv'
<1>1. request[r].pc = "locked" /\ UNCHANGED <<section, leases, history>>
  BY DEF EditChecks
<1>2. lock = r
  BY <1>1, LockHolder DEF EditInv
<1>3. request[r] \in Request /\ request[r].user \in Users
  BY <1>1, AskerIsUser, TypesOf DEF EditInv
<1>4. CASE SetRequest(r, [request[r] EXCEPT !.pc = "checked"]) /\ MayEdit(r) /\ lock' = lock
           /\ request[r].op \in Editing
  <2> DEFINE q == [request[r] EXCEPT !.pc = "checked"]
  <2>1. /\ q \in Request /\ q.user = request[r].user /\ q.op = request[r].op
        /\ q.pc = "checked" /\ q.lease = request[r].lease /\ q.seen = request[r].seen
        /\ q.expected = request[r].expected
    BY <1>3 DEF Request
  <2>2. SetRequest(r, q)
    BY <1>4
  <2>3. /\ request[r].lease \in DOMAIN leases
        /\ leases[request[r].lease].user = request[r].user
        /\ ~leases[request[r].lease].released
        /\ request[r].seen.revision = request[r].expected
    BY <1>4 DEF MayEdit, OwnLive, OwnUnreleased
  <2>4. Len(leases) \in Nat /\ DOMAIN leases = 1..Len(leases)
    BY TypesOf DEF EditInv
  <2>5. request[r].lease = Len(leases)
    BY <2>3, <2>4 DEF EditInv, OnlyNewestUnreleased
  <2>6. request[r].op = "save" => request[r].seen = section
    BY <1>2 DEF EditInv, SavesSeeSection
  <2>7. request[r].op \notin LeaseCalls
    BY <1>4 DEF Editing, LeaseCalls
  <2> HIDE DEF q
  <2> QED
    BY <1>1, <1>2, <1>3, <1>4, <2>1, <2>2, <2>3, <2>5, <2>6, <2>7, ProceedKeepsInv
<1>5. CASE Answer(r) /\ lock' = NoRequest
  <2>1. section' \in SectionRow /\ leases' \in Seq(LeaseRow) /\ history' \in Seq(RevisionRow)
    BY <1>1 DEF EditInv, TypeOK
  <2>2. RevisionChain' /\ OnlyNewestUnreleased'
    BY <1>1 DEF EditInv, RevisionChain, OnlyNewestUnreleased
  <2> QED
    BY <1>1, <1>2, <1>5, <2>1, <2>2, AnswerKeepsInv
<1> QED
  BY <1>1, <1>4, <1>5 DEF EditChecks, Unlocked, EditInv, LockedByEdits

LEMMA SaveCommitsKeepsInv ==
  ASSUME EditInv, NEW r \in Requests, SaveCommits(r)
  PROVE  EditInv'
<1> DEFINE x == [by |-> request[r].user, from |-> request[r].expected,
                 text |-> request[r].seen.text]
<1>1. /\ InEdit(r) /\ request[r].op = "save" /\ Answer(r) /\ UNCHANGED leases
      /\ lock' = NoRequest /\ history' = Append(history, x)
      /\ section' = Flush(request[r].seen, Saved(r))
  BY DEF SaveCommits, InEdit, Editing, Unlocked
<1>2. lock = r /\ request[r].seen = section /\ section.revision = request[r].expected
  BY <1>1, LockHolder DEF EditInv, SavesSeeSection, EditsHoldNewest
<1>3. /\ request[r].user \in Users /\ section \in SectionRow
      /\ history \in Seq(RevisionRow) /\ Len(history) \in Nat
      /\ DOMAIN history = 1..Len(history)
      /\ section.revision = Len(history) /\ section.text = Len(history)
  BY <1>1, AskerIsUser, TypesOf DEF EditInv, InEdit, TypeOK, RevisionChain
<1>4. /\ x \in RevisionRow /\ x.from = Len(history) /\ x.text = Len(history)
  BY <1>2, <1>3 DEF RevisionRow
<1> HIDE DEF x
<1>5. /\ history' \in Seq(RevisionRow) /\ Len(history') = Len(history) + 1
      /\ DOMAIN history' = 1..(Len(history) + 1)
      /\ \A k \in 1..Len(history) : history'[k] = history[k]
      /\ history'[Len(history) + 1] = x
  BY <1>1, <1>3, <1>4, AppendProperties, LenProperties
<1>6. /\ Saved(r) \in SectionRow
      /\ Saved(r).revision = Len(history) + 1 /\ Saved(r).text = Len(history) + 1
  <2> DEFINE a  == IF section.assignment \in {"assigned", "returned"} THEN "in_progress"
                   ELSE section.assignment
             st == "in_cleaning"
             n  == Len(history) + 1
             row == [section EXCEPT !.revision = n, !.text = n, !.status = st,
                                    !.assignment = a]
  <2>1. a \in Assignment /\ st \in Status /\ n \in Nat
    BY <1>3 DEF SectionRow, Assignment, Status
  <2>2. Saved(r) = row
    BY <1>2, <1>3 DEF Saved
  <2> HIDE DEF a, st, n
  <2>3. row \in SectionRow /\ row.revision = n /\ row.text = n
    BY <1>3, <2>1 DEF SectionRow
  <2> QED
    BY <2>2, <2>3 DEF n
<1>7. /\ section' \in SectionRow
      /\ section'.revision = Len(history) + 1 /\ section'.text = Len(history) + 1
  <2>1. section' \in SectionRow
    BY <1>1, <1>2, <1>3, <1>6, FlushType DEF EditInv
  <2>2. /\ section'.revision = Saved(r).revision /\ section'.text = Saved(r).text
    BY <1>1, <1>2 DEF Flush, Column
  <2> QED
    BY <1>6, <2>1, <2>2
<1>8. RevisionChain'
  <2>1. \A k \in DOMAIN history' : history'[k].from = k - 1 /\ history'[k].text = k - 1
    <3> SUFFICES ASSUME NEW k \in 1..(Len(history) + 1)
                 PROVE  history'[k].from = k - 1 /\ history'[k].text = k - 1
      BY <1>5
    <3>1. CASE k = Len(history) + 1
      BY <3>1, <1>3, <1>4, <1>5
    <3>2. CASE k \in 1..Len(history)
      BY <3>2, <1>3, <1>5 DEF EditInv, RevisionChain
    <3> QED
      BY <1>3, <3>1, <3>2
  <2> QED
    BY <1>5, <1>7, <2>1 DEF RevisionChain
<1>9. leases' \in Seq(LeaseRow) /\ OnlyNewestUnreleased'
  BY <1>1 DEF EditInv, TypeOK, OnlyNewestUnreleased
<1> QED
  BY <1>1, <1>2, <1>5, <1>7, <1>8, <1>9, AnswerKeepsInv

(* An UPDATE of columns other than text and revision, by a request that    *)
(* may have read the section long ago.                                     *)
LEMMA FlushKeepsInv ==
  ASSUME EditInv, NEW r \in Requests, NEW new \in SectionRow,
         new.revision = request[r].seen.revision, new.text = request[r].seen.text,
         section' = Flush(request[r].seen, new), UNCHANGED <<leases, history>>,
         lock \in {r, NoRequest}, lock' = NoRequest, Answer(r)
  PROVE  EditInv'
<1>1. /\ section' \in SectionRow /\ section'.revision = section.revision
      /\ section'.text = section.text
  BY TypesOf, FlushType, FlushKeepsText DEF EditInv
<1>2. leases' \in Seq(LeaseRow) /\ history' \in Seq(RevisionRow)
  BY DEF EditInv, TypeOK
<1>3. RevisionChain' /\ OnlyNewestUnreleased'
  BY <1>1 DEF EditInv, RevisionChain, OnlyNewestUnreleased
<1>4. lock' = (IF lock = r THEN NoRequest ELSE lock)
  OBVIOUS
<1> QED
  BY <1>1, <1>2, <1>3, <1>4, AnswerKeepsInv

LEMMA SubmitCommitsKeepsInv ==
  ASSUME EditInv, NEW r \in Requests, SubmitCommits(r)
  PROVE  EditInv'
<1> DEFINE new == [request[r].seen EXCEPT !.status = "review_pending"]
           l   == request[r].lease
<1>1. /\ InEdit(r) /\ Answer(r) /\ UNCHANGED history
      /\ lock' = NoRequest /\ leases' = ReleasedLease(r)
      /\ section' = Flush(request[r].seen, new)
  BY DEF SubmitCommits, InEdit, Editing, Unlocked
<1>2. lock = r
  BY <1>1, LockHolder DEF EditInv
<1>3. /\ new \in SectionRow
      /\ new.revision = request[r].seen.revision /\ new.text = request[r].seen.text
  BY TypesOf DEF EditInv, SectionRow, Status
<1> HIDE DEF new
<1>4. /\ section' \in SectionRow /\ section'.revision = section.revision
      /\ section'.text = section.text
  BY <1>1, <1>3, TypesOf, FlushType, FlushKeepsText DEF EditInv
<1>5. /\ leases' \in Seq(LeaseRow) /\ OnlyNewestUnreleased'
      /\ \A k \in DOMAIN leases : k \in DOMAIN leases' /\ leases'[k].user = leases[k].user
  <2>1. CASE OwnUnreleased(r)
    <3> DEFINE x == [leases[l] EXCEPT !.released = TRUE]
    <3>1. l \in DOMAIN leases /\ leases \in Seq(LeaseRow) /\ leases[l] \in LeaseRow
      BY <2>1, TypesOf DEF OwnUnreleased, EditInv, TypeOK
    <3>2. x \in LeaseRow /\ x.user = leases[l].user /\ x.released
      BY <3>1, LeaseUpdates
    <3>3. leases' = [leases EXCEPT ![l] = x]
      BY <1>1, <2>1 DEF ReleasedLease
    <3> HIDE DEF x
    <3> QED
      BY <3>1, <3>2, <3>3, UpdateKeepsNewest
  <2>2. CASE ~OwnUnreleased(r)
    BY <1>1, <2>2 DEF ReleasedLease, EditInv, TypeOK, OnlyNewestUnreleased
  <2> QED
    BY <2>1, <2>2
<1>6. history' \in Seq(RevisionRow) /\ RevisionChain'
  BY <1>1, <1>4 DEF EditInv, TypeOK, RevisionChain
<1> QED
  BY <1>1, <1>2, <1>4, <1>5, <1>6, AnswerKeepsInv

(* What is left is a request that writes without a lock of its own.        *)
LEMMA WritesKeepsInv ==
  ASSUME EditInv, NEW r \in Requests, NEW new \in SectionRow,
         new.revision = request[r].seen.revision, new.text = request[r].seen.text,
         Writes(r, new)
  PROVE  EditInv'
  BY FlushKeepsInv DEF Writes, SectionFree

LEMMA ReviewKeepsInv ==
  ASSUME EditInv, NEW r \in Requests, Review(r)
  PROVE  EditInv'
<1> DEFINE seen == request[r].seen
<1>1. seen \in SectionRow
  BY TypesOf DEF EditInv
<1>2. PICK st \in Status : Writes(r, [seen EXCEPT !.status = st])
  BY DEF Review, Status
<1>3. /\ [seen EXCEPT !.status = st] \in SectionRow
      /\ [seen EXCEPT !.status = st].revision = seen.revision
      /\ [seen EXCEPT !.status = st].text = seen.text
  BY <1>1 DEF SectionRow
<1> QED
  BY <1>2, <1>3, WritesKeepsInv

LEMMA AssignKeepsInv ==
  ASSUME EditInv, NEW r \in Requests, Assign(r)
  PROVE  EditInv'
<1> DEFINE seen == request[r].seen
           a    == IF seen.assignment = "in_progress" THEN seen.assignment ELSE "assigned"
<1>1. seen \in SectionRow
  BY TypesOf DEF EditInv
<1>2. a \in Assignment
  BY <1>1 DEF SectionRow, Assignment
<1>3. PICK u \in Users : Writes(r, [seen EXCEPT !.assignee = u, !.assignment = a])
  BY DEF Assign
<1> HIDE DEF a
<1>4. /\ [seen EXCEPT !.assignee = u, !.assignment = a] \in SectionRow
      /\ [seen EXCEPT !.assignee = u, !.assignment = a].revision = seen.revision
      /\ [seen EXCEPT !.assignee = u, !.assignment = a].text = seen.text
  BY <1>1, <1>2 DEF SectionRow
<1> QED
  BY <1>3, <1>4, WritesKeepsInv

LEMMA CompleteOrReturnKeepsInv ==
  ASSUME EditInv, NEW r \in Requests, Complete(r) \/ Return(r)
  PROVE  EditInv'
<1> DEFINE seen == request[r].seen
<1>1. seen \in SectionRow
  BY TypesOf DEF EditInv
<1>2. CASE Writes(r, seen)
  BY <1>1, <1>2, WritesKeepsInv
<1>3. CASE \E a \in Assignment : Writes(r, [seen EXCEPT !.assignment = a])
  <2>1. PICK a \in Assignment : Writes(r, [seen EXCEPT !.assignment = a])
    BY <1>3
  <2>2. /\ [seen EXCEPT !.assignment = a] \in SectionRow
        /\ [seen EXCEPT !.assignment = a].revision = seen.revision
        /\ [seen EXCEPT !.assignment = a].text = seen.text
    BY <1>1 DEF SectionRow
  <2> QED
    BY <2>1, <2>2, WritesKeepsInv
<1> QED
  BY <1>2, <1>3 DEF Complete, Return, Assignment

(* Time changes neither what a lease or a request is about nor its kind.   *)
LEMMA TickKeepsInv ==
  ASSUME EditInv, Tick
  PROVE  EditInv'
<1>1. UNCHANGED <<section, history, lock>>
  BY DEF Tick
<1>2. /\ Len(leases) \in Nat /\ DOMAIN leases = 1..Len(leases) /\ leases \in Seq(LeaseRow)
      /\ \A l \in DOMAIN leases : leases[l] \in LeaseRow
  BY LenProperties, ElementOfSeq DEF EditInv, TypeOK
<1>3. \A l \in DOMAIN leases : /\ leases'[l] \in LeaseRow
                               /\ leases'[l].user = leases[l].user
                               /\ leases'[l].released = leases[l].released
  <2> SUFFICES ASSUME NEW l \in DOMAIN leases
               PROVE  /\ leases'[l] \in LeaseRow
                      /\ leases'[l].user = leases[l].user
                      /\ leases'[l].released = leases[l].released
    OBVIOUS
  <2>1. leases[l] \in LeaseRow
    BY <1>2
  <2> DEFINE n == IF leases[l].left > 0 THEN leases[l].left - 1 ELSE leases[l].left
  <2>2. n \in Nat
    BY <2>1 DEF LeaseRow
  <2>3. leases'[l] = [leases[l] EXCEPT !.left = n]
    BY DEF Tick
  <2> HIDE DEF n
  <2> QED
    BY <2>1, <2>2, <2>3 DEF LeaseRow
<1>4. leases' \in [DOMAIN leases -> LeaseRow]
  BY <1>3 DEF Tick
<1>5. /\ leases' \in Seq(LeaseRow) /\ Len(leases') = Len(leases)
      /\ DOMAIN leases' = DOMAIN leases
  BY <1>2, <1>4, SameLength
<1>6. \A r \in Requests : /\ request'[r] \in Request
                          /\ request'[r].pc = request[r].pc /\ request'[r].op = request[r].op
                          /\ request'[r].user = request[r].user
                          /\ request'[r].lease = request[r].lease
                          /\ request'[r].expected = request[r].expected
                          /\ request'[r].seen = request[r].seen
  <2> SUFFICES ASSUME NEW r \in Requests
               PROVE  /\ request'[r] \in Request
                      /\ request'[r].pc = request[r].pc /\ request'[r].op = request[r].op
                      /\ request'[r].user = request[r].user
                      /\ request'[r].lease = request[r].lease
                      /\ request'[r].expected = request[r].expected
                      /\ request'[r].seen = request[r].seen
    OBVIOUS
  <2>1. request[r] \in Request /\ request[r].age \in Nat
    BY TypesOf DEF EditInv
  <2>2. PICK n \in Nat : request'[r] = [request[r] EXCEPT !.age = n]
    <3>1. request'[r] = [request[r] EXCEPT !.age =
             IF request[r].pc = "checked" /\ request[r].op = "heartbeat"
             THEN request[r].age + 1 ELSE request[r].age]
      BY DEF Tick
    <3> QED
      BY <2>1, <3>1
  <2>3. [request[r] EXCEPT !.age = n] \in Request
    BY <2>1, Older
  <2> QED
    BY <2>1, <2>2, <2>3 DEF Request
<1>7. request' \in [Requests -> Request]
  BY <1>6 DEF Tick
<1>8. TypeOK'
  <2>1. \A r \in Requests : lock' = r <=> (request'[r].pc = "locked" \/ InEdit(r)')
    BY <1>1, <1>6, LockHolder DEF EditInv, InEdit
  <2> QED
    BY <1>1, <1>5, <1>7, <2>1 DEF EditInv, TypeOK, InEdit
<1>9. RevisionChain'
  BY <1>1 DEF EditInv, RevisionChain
<1>10. OnlyNewestUnreleased'
  BY <1>3, <1>5 DEF EditInv, OnlyNewestUnreleased
<1>11. SavesSeeSection' /\ LockedByEdits' /\ AskedByUsers'
  BY <1>1, <1>6 DEF EditInv, SavesSeeSection, LockedByEdits, AskedByUsers
<1>12. EditsHoldNewest'
  BY <1>3, <1>5, <1>6 DEF EditInv, EditsHoldNewest, InEdit
<1>13. CallsKnowTheirLease'
  BY <1>5, <1>6 DEF EditInv, CallsKnowTheirLease, InLeaseCall
<1> QED
  BY <1>8, <1>9, <1>10, <1>11, <1>12, <1>13 DEF EditInv
-----------------------------------------------------------------------------
(* The theorems.                                                           *)

LEMMA InitEstablishes == Init => EditInv
<1> SUFFICES ASSUME Init PROVE EditInv
  OBVIOUS
<1>1. \A r \in Requests : request[r] = IdleRequest
  BY DEF Init
<1>2. request \in [Requests -> Request]
  BY IdleType DEF Init
<1>3. <<>> \in Seq(LeaseRow) /\ <<>> \in Seq(RevisionRow) /\ Len(<<>>) = 0
  BY EmptySeq
<1>4. TypeOK
  BY <1>1, <1>2, <1>3, NewSectionType, IdleType, SectionAssumption
    DEF Init, TypeOK, SectionAssumption
<1>5. RevisionChain /\ OnlyNewestUnreleased
  BY <1>3 DEF Init, RevisionChain, OnlyNewestUnreleased, NewSection
<1>6. /\ SavesSeeSection /\ EditsHoldNewest /\ CallsKnowTheirLease
      /\ AskedByUsers /\ LockedByEdits
  BY <1>1, IdleType, SectionAssumption
    DEF Init, SectionAssumption, SavesSeeSection, EditsHoldNewest, CallsKnowTheirLease,
        AskedByUsers, LockedByEdits, InEdit, InLeaseCall
<1> QED
  BY <1>4, <1>5, <1>6 DEF EditInv

LEMMA NextKeepsInv == EditInv /\ [Next]_vars => EditInv'
<1> SUFFICES ASSUME EditInv, [Next]_vars PROVE EditInv'
  OBVIOUS
<1>1. CASE Tick
  BY <1>1, TickKeepsInv
<1>2. CASE UNCHANGED vars
  BY <1>2 DEF vars, EditInv, TypeOK, RevisionChain, OnlyNewestUnreleased, SavesSeeSection,
     EditsHoldNewest, CallsKnowTheirLease, AskedByUsers, LockedByEdits, InEdit, InLeaseCall
<1>3. ASSUME NEW r \in Requests, Receive(r) PROVE EditInv'
  BY <1>3, ReceiveKeepsInv
<1>4. ASSUME NEW r \in Requests, Abort(r) PROVE EditInv'
  BY <1>4, AbortKeepsInv
<1>5. ASSUME NEW r \in Requests, Acquire(r) PROVE EditInv'
  BY <1>5, AcquireKeepsInv
<1>6. ASSUME NEW r \in Requests, LeaseRead(r) \/ LeaseWrite(r) PROVE EditInv'
  BY <1>6, LeaseReadKeepsInv, LeaseWriteKeepsInv
<1>7. ASSUME NEW r \in Requests, Edit(r) PROVE EditInv'
  BY <1>7, EditLocksKeepsInv, EditChecksKeepsInv, SaveCommitsKeepsInv, SubmitCommitsKeepsInv
    DEF Edit
<1>8. ASSUME NEW r \in Requests, Review(r) \/ Assign(r) \/ Complete(r) \/ Return(r)
      PROVE  EditInv'
  BY <1>8, ReviewKeepsInv, AssignKeepsInv, CompleteOrReturnKeepsInv
<1> QED
  BY <1>1, <1>2, <1>3, <1>4, <1>5, <1>6, <1>7, <1>8 DEF Next

(* EditInv holds in every reachable state.                                 *)
THEOREM Invariance == Spec => []EditInv
<1> QED
  BY InitEstablishes, NextKeepsInv, PTL DEF Spec

(* Every row and every request keeps its type, and the row lock is held by *)
(* exactly the request that took it and has not ended.                     *)
THEOREM TypeCorrect == Spec => []TypeOK
<1>1. EditInv => TypeOK
  BY DEF EditInv
<1> QED
  BY <1>1, Invariance, PTL

(* No save is lost or applied twice, whatever copies the sessions of any   *)
(* number of concurrent requests hold.                                     *)
THEOREM RevisionChainHolds == Spec => []RevisionChain
<1>1. EditInv => RevisionChain
  BY DEF EditInv
<1> QED
  BY <1>1, Invariance, PTL

(* The unique index on unreleased leases never refuses an INSERT.          *)
THEOREM OnlyNewestUnreleasedHolds == Spec => []OnlyNewestUnreleased
<1>1. EditInv => OnlyNewestUnreleased
  BY DEF EditInv
<1> QED
  BY <1>1, Invariance, PTL

(* While an edit that was let through commits, nobody else holds the       *)
(* section: its lease is the newest, and only the newest is unreleased.    *)
THEOREM NoForeignHolderHolds == Spec => []NoForeignHolder
<1>1. EditInv => NoForeignHolder
  <2> SUFFICES ASSUME EditInv, NEW r \in Requests, InEdit(r), NEW l \in Holders
               PROVE  leases[l].user = request[r].user
    BY DEF NoForeignHolder, InEdit
  <2>1. l \in 1..Len(leases) /\ Len(leases) \in Nat /\ ~leases[l].released
    BY TypesOf DEF EditInv, Holders, Live
  <2>2. l = Len(leases)
    BY <2>1, TypesOf DEF EditInv, OnlyNewestUnreleased
  <2> QED
    BY <2>2 DEF EditInv, EditsHoldNewest
<1> QED
  BY <1>1, Invariance, PTL

(* A submission releases the lease it was made with, which is the newest,  *)
(* and all older ones are released: nobody holds what is under review.     *)
LEMMA SubmitReleases ==
  ASSUME EditInv, NEW r \in Requests, SubmitCommits(r)
  PROVE  Holders' = {}
<1> DEFINE l == request[r].lease
<1>1. InEdit(r) /\ leases' = ReleasedLease(r)
  BY DEF SubmitCommits, InEdit, Editing
<1>2. /\ Len(leases) \in Nat /\ DOMAIN leases = 1..Len(leases)
      /\ \A k \in DOMAIN leases : leases[k] \in LeaseRow
  BY TypesOf DEF EditInv
<1>3. l \in DOMAIN leases /\ l = Len(leases) /\ leases[l].user = request[r].user
  BY <1>1 DEF EditInv, EditsHoldNewest
<1>4. \A k \in DOMAIN leases : k # l => leases[k].released
  BY <1>2, <1>3 DEF EditInv, OnlyNewestUnreleased
<1>5. CASE OwnUnreleased(r)
  <2>1. leases' = [leases EXCEPT ![l] = [leases[l] EXCEPT !.released = TRUE]]
    BY <1>1, <1>5 DEF ReleasedLease
  <2>2. leases'[l].released /\ DOMAIN leases' = DOMAIN leases
    BY <1>2, <1>3, <2>1, LeaseUpdates
  <2>3. \A k \in DOMAIN leases' : leases'[k].released
    BY <1>3, <1>4, <2>1, <2>2
  <2> QED
    BY <2>3 DEF Holders, Live
<1>6. CASE ~OwnUnreleased(r)
  <2>1. leases' = leases /\ leases[l].released
    BY <1>1, <1>3, <1>6 DEF ReleasedLease, OwnUnreleased
  <2> QED
    BY <1>4, <2>1 DEF Holders, Live
<1> QED
  BY <1>5, <1>6

(* A step that changes the section answers the request it belongs to.      *)
LEMMA WhoWrites ==
  ASSUME EditInv, [Next]_vars, section' # section
  PROVE  \E q \in Requests :
           /\ Answer(q)
           /\ \/ SubmitCommits(q)
              \/ request[q].op = "save"
              \/ request[q].pc = "loaded"
<1>1. PICK q \in Requests :
        SaveCommits(q) \/ SubmitCommits(q) \/ Review(q) \/ Assign(q) \/ Complete(q) \/ Return(q)
  BY DEF Next, vars, Tick, Receive, Arrives, Abort, Acquire, LeaseRead, LeaseWrite, Edit,
     EditLocks, EditChecks
<1>2. CASE SaveCommits(q) \/ SubmitCommits(q)
  BY <1>2 DEF SaveCommits, SubmitCommits
<1>3. CASE Review(q) \/ Assign(q) \/ Complete(q) \/ Return(q)
  BY <1>3 DEF Review, Assign, Complete, Return, Writes
<1> QED
  BY <1>1, <1>2, <1>3

(* A submission that changes the section leaves it without a holder.       *)
THEOREM SubmitHandsOverHolds == Spec => SubmitHandsOver
<1> DEFINE HandsOver == \A r \in Requests :
             /\ request[r].pc = "checked" /\ request[r].op = "submit"
             /\ request'[r].pc = "idle" /\ section' # section
             => Holders' = {}
<1>1. EditInv /\ [Next]_vars => [HandsOver]_vars
  <2> SUFFICES ASSUME EditInv, [Next]_vars, NEW r \in Requests,
                      request[r].pc = "checked", request[r].op = "submit",
                      request'[r].pc = "idle", section' # section
               PROVE  Holders' = {}
    BY DEF vars
  <2>1. PICK q \in Requests : /\ Answer(q)
                             /\ \/ SubmitCommits(q)
                                \/ request[q].op = "save"
                                \/ request[q].pc = "loaded"
    BY WhoWrites
  <2>2. q = r
    <3>1. q # r => request'[r] = request[r]
      BY <2>1 DEF Answer, SetRequest, EditInv, TypeOK
    <3> QED
      BY <3>1
  <2>3. SubmitCommits(r)
    BY <2>1, <2>2
  <2> QED
    BY <2>3, SubmitReleases
<1> QED
  BY <1>1, Invariance, PTL DEF Spec, SubmitHandsOver
=============================================================================
