------------------------ MODULE CleanVersionsProofs ------------------------
(***************************************************************************)
(* Proofs about CleanVersions for any sections, requests and keys and any  *)
(* bounds, and, in the second half, about DocumentJobs for any runners,    *)
(* requests and bounds: the document of a clean version, with its jobs.    *)
(* VersionInv is inductive for the first and DocumentInv for the second;   *)
(* the theorems follow each.                                               *)
(***************************************************************************)
EXTENDS CleanVersions, DocumentJobs, FiniteSetTheorems, FunctionTheorems, SequenceTheorems, TLAPS

InMerge(r) == request[r] \in Merging
Locking(r) == At(r, "compared") \/ At(r, "uploaded")

(* The text of no other version or merge is stored under a merge's name.   *)
OwnName(r, artifact) ==
  /\ \A n \in Numbers : versions[n].artifact # artifact
  /\ \A q \in Requests : q # r /\ InMerge(q) => request[q].artifact # artifact
NamesDiffer == \A r \in Requests : InMerge(r) => OwnName(r, request[r].artifact)

UploadsStored == \A r \in Requests : At(r, "uploaded") => request[r].artifact \in objects

(* What a merge compared is still true while it holds the Document row.    *)
ComparisonHolds ==
  \A r \in Requests : Locking(r) =>
    request[r].revisions = revision /\ WithKey(request[r].key) = {}

OneVersionPerKey == \A m, n \in Numbers : versions[m].key = versions[n].key => m = n

TargetsExist == \A r \in Requests : At(r, "judging") => request[r].target \in Numbers

(* ActiveIsNewestAccepted without a maximum.                               *)
ActiveIsTop == /\ active \in Accepted \union {0}
               /\ \A n \in Accepted : n <= active

VersionInv == /\ TypeOK /\ EveryTextStored
              /\ NamesDiffer /\ UploadsStored /\ ComparisonHolds
              /\ TargetsExist /\ OneVersionPerKey /\ ActiveIsTop
-----------------------------------------------------------------------------
(* What a request is doing follows from its pc.                            *)

LEMMA Doing ==
  ASSUME NEW state \in RequestState
  PROVE  /\ state \in Merging <=> state.pc \in {"asked", "read", "compared", "uploaded"}
         /\ state.pc = "judging" => state \in Judging
         /\ state.pc = "assigning" => state \in Planning
  BY DEF RequestState, Idle, Merging, Judging, Planning

LEMMA IdleDoing == Idle \in RequestState /\ Idle \notin Merging /\ Idle.pc = "idle"
  BY DEF RequestState, Idle, Merging

LEMMA MergeOn ==
  ASSUME NEW state \in Merging, NEW p \in {"asked", "read", "compared", "uploaded"}
  PROVE  /\ [state EXCEPT !.pc = p] \in Merging
         /\ [state EXCEPT !.pc = p] \in RequestState
         /\ [state EXCEPT !.pc = p].pc = p
         /\ [state EXCEPT !.pc = p].key = state.key
         /\ [state EXCEPT !.pc = p].revisions = state.revisions
         /\ [state EXCEPT !.pc = p].artifact = state.artifact
  BY DEF Merging, RequestState

(* A request goes on to x, or ends, and nothing that others rely on        *)
(* changes; in particular it takes the Document row only if it was free.   *)
LEMMA RequestGoesOn ==
  ASSUME VersionInv, NEW r \in Requests, NEW x \in RequestState, Becomes(r, x),
         UNCHANGED <<revision, versions, active>>, cleanStatus' \in CleanStatuses,
         objects' \subseteq Artifacts, objects \subseteq objects',
         x \in Merging => OwnName(r, x.artifact),
         x.pc \in {"compared", "uploaded"} =>
           /\ x.revisions = revision /\ WithKey(x.key) = {}
           /\ locker \in {r, NoRequest} /\ locker' = r,
         x.pc \notin {"compared", "uploaded"} => locker' = Released(r),
         x.pc = "uploaded" => x.artifact \in objects',
         x.pc = "judging" => x.target \in Numbers
  PROVE  VersionInv'
<1> USE DEF VersionInv
<1>1. /\ request' \in [Requests -> RequestState] /\ request'[r] = x
      /\ \A q \in Requests : q # r => request'[q] = request[q]
  BY DEF TypeOK, Becomes
<1>2. NoRequest \notin Requests
  BY VersionAssumption
<1>3. TypeOK'
  <2>1. locker' \in Requests \union {NoRequest}
    BY DEF TypeOK, Released
  <2>2. \A q \in Requests : (locker = q <=> Locking(q))
    BY DEF TypeOK, Locking
  <2>3. \A q \in Requests : (locker' = q <=> Locking(q)')
    <3> SUFFICES ASSUME NEW q \in Requests PROVE locker' = q <=> Locking(q)'
      OBVIOUS
    <3>1. CASE q = r
      BY <1>1, <1>2, <2>2, <3>1 DEF Locking, At, Released
    <3>2. CASE q # r
      BY <1>1, <1>2, <2>2, <3>2 DEF Locking, At, Released
    <3> QED BY <3>1, <3>2
  <2> QED BY <1>1, <2>1, <2>3 DEF TypeOK, Locking
<1>4. EveryTextStored'
  BY DEF EveryTextStored, Numbers
<1>5. NamesDiffer'
  <2> SUFFICES ASSUME NEW q \in Requests, InMerge(q)' PROVE OwnName(q, request[q].artifact)'
    BY DEF NamesDiffer
  <2>1. CASE q = r
    BY <1>1, <2>1 DEF OwnName, InMerge, Numbers
  <2>2. CASE q # r
    BY <1>1, <2>2 DEF OwnName, InMerge, Numbers, NamesDiffer
  <2> QED BY <2>1, <2>2
<1>6. UploadsStored'
  BY <1>1 DEF UploadsStored, At
<1>7. ComparisonHolds'
  BY <1>1 DEF ComparisonHolds, Locking, At, WithKey, Numbers
<1>8. OneVersionPerKey' /\ ActiveIsTop'
  BY DEF OneVersionPerKey, ActiveIsTop, Accepted, Numbers
<1>9. TargetsExist'
  BY <1>1 DEF TargetsExist, At, Numbers
<1> QED BY <1>3, <1>4, <1>5, <1>6, <1>7, <1>8, <1>9

(* A request ends and leaves the rest as it is.                            *)
LEMMA RequestEnds ==
  ASSUME VersionInv, NEW r \in Requests, Becomes(r, Idle), locker' = Released(r),
         UNCHANGED <<revision, versions, active, objects>>, cleanStatus' \in CleanStatuses
  PROVE  VersionInv'
<1>1. objects' \subseteq Artifacts
  BY DEF VersionInv, TypeOK
<1> QED BY <1>1, IdleDoing, RequestGoesOn

(* A request that does not hold the Document row does not release it.      *)
LEMMA NothingReleased ==
  ASSUME VersionInv, NEW r \in Requests, ~Locking(r)
  PROVE  Released(r) = locker
  BY DEF VersionInv, TypeOK, Locking, Released
-----------------------------------------------------------------------------
(* One lemma per action.                                                   *)

LEMMA InitInv == Init => VersionInv
<1> SUFFICES ASSUME Init PROVE VersionInv
  OBVIOUS
<1>1. Numbers = {} /\ Accepted = {}
  BY DEF Init, Numbers, Accepted
<1>2. TypeOK
  BY IdleDoing, VersionAssumption DEF Init, TypeOK, Revisions, CleanStatuses, At
<1> QED BY <1>1, <1>2, IdleDoing
    DEF VersionInv, Init, EveryTextStored, NamesDiffer, InMerge, UploadsStored,
        ComparisonHolds, Locking, At, TargetsExist, OneVersionPerKey, ActiveIsTop

LEMMA EditSectionInv ==
  ASSUME VersionInv, NEW s \in Sections, EditSection(s)
  PROVE  VersionInv'
<1>1. revision' \in Revisions
  BY VersionAssumption DEF VersionInv, TypeOK, EditSection, Revisions
<1>2. TypeOK'
  BY <1>1 DEF VersionInv, TypeOK, EditSection, At
<1>3. ComparisonHolds'
  BY DEF ComparisonHolds, Locking, At, EditSection, SectionsLocked
<1> QED BY <1>2, <1>3
    DEF VersionInv, EditSection, EveryTextStored, NamesDiffer, OwnName, InMerge, UploadsStored,
        At, TargetsExist, OneVersionPerKey, ActiveIsTop, Numbers, Accepted

LEMMA AskMergeInv ==
  ASSUME VersionInv, NEW r \in Requests, NEW key \in Keys, AskMerge(r, key)
  PROVE  VersionInv'
<1>0. ~Locking(r) /\ locker' = Released(r) /\ objects \subseteq Artifacts
      /\ UNCHANGED <<revision, versions, active, objects>> /\ cleanStatus' \in CleanStatuses
  BY NothingReleased DEF AskMerge, At, Locking, VersionInv, TypeOK
<1>1. CASE WithKey(key) # {}
  BY <1>0, <1>1, RequestEnds DEF AskMerge, Ends
<1>2. CASE WithKey(key) = {}
  <2> DEFINE name == NewArtifact(Artifacts \ InUse)
             x == [pc |-> "asked", key |-> key, revisions |-> [s \in Sections |-> 0],
                   artifact |-> name]
  <2>1. name \in Artifacts \ InUse
    BY <1>2 DEF AskMerge, NewArtifact
  <2>2. x \in Merging /\ x \in RequestState
    BY <2>1, VersionAssumption DEF Merging, RequestState, Revisions
  <2>3. OwnName(r, name)
    BY <2>1 DEF OwnName, InUse, InMerge
  <2>4. Becomes(r, x)
    BY <1>2 DEF AskMerge
  <2>5. x.pc = "asked" /\ x.artifact = name
    OBVIOUS
  <2> HIDE DEF x, name
  <2> QED BY <1>0, <2>2, <2>3, <2>4, <2>5, RequestGoesOn
<1> QED BY <1>1, <1>2

LEMMA ReadSectionsInv ==
  ASSUME VersionInv, NEW r \in Requests, ReadSections(r)
  PROVE  VersionInv'
<1> DEFINE old == request[r]
           x == [old EXCEPT !.pc = "read", !.revisions = revision]
<1>1. old \in Merging /\ old.pc = "asked" /\ revision \in Revisions
  BY Doing DEF VersionInv, TypeOK, ReadSections, At
<1>2. Becomes(r, x)
  BY DEF ReadSections
<1> HIDE DEF old
<1>3. x \in Merging /\ x.pc = "read" /\ x.artifact = old.artifact
  BY <1>1 DEF Merging
<1>4. x \in RequestState
  BY <1>3 DEF RequestState
<1>5. ~Locking(r)
  BY <1>1 DEF Locking, At, old
<1>6. OwnName(r, old.artifact)
  BY <1>1 DEF VersionInv, NamesDiffer, InMerge, old
<1> HIDE DEF x
<1>7. locker' = Released(r) /\ objects' \subseteq Artifacts /\ objects \subseteq objects'
      /\ UNCHANGED <<revision, versions, active>> /\ cleanStatus' \in CleanStatuses
  BY <1>5, NothingReleased DEF ReadSections, VersionInv, TypeOK
<1> QED BY <1>2, <1>3, <1>4, <1>6, <1>7, RequestGoesOn

LEMMA LockDocumentInv ==
  ASSUME VersionInv, NEW r \in Requests, LockDocument(r)
  PROVE  VersionInv'
<1> DEFINE old == request[r]
           x == [old EXCEPT !.pc = "compared"]
<1>1. old \in Merging /\ old.pc = "read"
  BY Doing DEF VersionInv, TypeOK, LockDocument, At
<1>2. ~Locking(r) /\ Released(r) = locker
  BY <1>1, NothingReleased DEF Locking, At
<1>3. /\ UNCHANGED <<revision, versions, active, objects>> /\ cleanStatus' \in CleanStatuses
      /\ objects' \subseteq Artifacts /\ objects \subseteq objects'
  BY DEF LockDocument, VersionInv, TypeOK
<1>4. CASE Becomes(r, Idle) /\ UNCHANGED locker
  BY <1>2, <1>3, <1>4, RequestEnds
<1>5. CASE /\ LockedLookup(old.key) = {} /\ Unchanged(old.revisions)
           /\ Becomes(r, x) /\ locker' = r
  <2>1. OwnName(r, old.artifact) /\ WithKey(old.key) = {} /\ old.revisions = revision
    BY <1>1, <1>5 DEF VersionInv, NamesDiffer, InMerge, LockedLookup, Unchanged
  <2>2. locker = NoRequest /\ Becomes(r, x) /\ locker' = r
    BY <1>5 DEF LockDocument
  <2> HIDE DEF old
  <2>3. x \in Merging /\ x \in RequestState /\ x.pc = "compared"
        /\ x.key = old.key /\ x.revisions = old.revisions /\ x.artifact = old.artifact
    BY <1>1, MergeOn
  <2> HIDE DEF x
  <2> QED BY <1>3, <2>1, <2>2, <2>3, RequestGoesOn
<1> QED BY <1>4, <1>5 DEF LockDocument, Ends

LEMMA UploadInv ==
  ASSUME VersionInv, NEW r \in Requests, Upload(r)
  PROVE  VersionInv'
<1> DEFINE old == request[r]
           x == [old EXCEPT !.pc = "uploaded"]
<1>1. old \in Merging /\ old.pc = "compared" /\ old.artifact \in Artifacts
  <2>1. old \in Merging /\ old.pc = "compared"
    BY Doing DEF VersionInv, TypeOK, Upload, At
  <2> QED BY <2>1 DEF Merging
<1>2. locker = r /\ locker' = r
  BY DEF VersionInv, TypeOK, Upload, At
<1>3. /\ UNCHANGED <<revision, versions, active>> /\ cleanStatus' \in CleanStatuses
      /\ objects' \subseteq Artifacts /\ objects \subseteq objects'
      /\ old.artifact \in objects'
  BY <1>1 DEF Upload, VersionInv, TypeOK
<1>4. OwnName(r, old.artifact) /\ WithKey(old.key) = {} /\ old.revisions = revision
  BY <1>1 DEF VersionInv, NamesDiffer, InMerge, ComparisonHolds, Locking, At
<1>5. Becomes(r, x)
  BY DEF Upload
<1> HIDE DEF old
<1>6. x \in Merging /\ x \in RequestState /\ x.pc = "uploaded"
      /\ x.key = old.key /\ x.revisions = old.revisions /\ x.artifact = old.artifact
  BY <1>1, MergeOn
<1> HIDE DEF x
<1> QED BY <1>2, <1>3, <1>4, <1>5, <1>6, RequestGoesOn

(* Whoever holds the Document row holds it alone.                          *)
LEMMA OneLocker ==
  ASSUME VersionInv, NEW q \in Requests, NEW r \in Requests, Locking(q), Locking(r)
  PROVE  q = r
  BY DEF VersionInv, TypeOK, Locking

(* A merge that uploaded ends: no request but it was about to commit.      *)
LEMMA UploadedEnds ==
  ASSUME VersionInv, NEW r \in Requests, At(r, "uploaded"), locker' = Released(r), Becomes(r, Idle)
  PROVE  /\ locker' = NoRequest /\ \A q \in Requests : ~Locking(q)'
         /\ request' \in [Requests -> RequestState] /\ ~InMerge(r)' /\ At(r, "idle")'
         /\ \A q \in Requests : q # r => request'[q] = request[q]
<1>1. request' \in [Requests -> RequestState] /\ request'[r] = Idle
      /\ \A q \in Requests : q # r => request'[q] = request[q]
  BY IdleDoing DEF VersionInv, TypeOK, Becomes
<1>2. Locking(r) /\ \A q \in Requests : Locking(q) => q = r
  BY OneLocker DEF Locking
<1>3. locker = r
  BY <1>2 DEF VersionInv, TypeOK, Locking
<1> QED BY <1>1, <1>2, <1>3, IdleDoing DEF Locking, At, InMerge, Released

LEMMA FlushFailsInv ==
  ASSUME VersionInv, NEW r \in Requests, FlushFails(r)
  PROVE  VersionInv'
<1>1. At(r, "uploaded") /\ locker' = Released(r) /\ Becomes(r, Idle)
      /\ UNCHANGED <<revision, versions, active, cleanStatus>>
      /\ objects \ {request[r].artifact} \subseteq objects' /\ objects' \subseteq objects
  BY DEF FlushFails, Ends
<1>2. request[r] \in Merging
  BY <1>1, Doing DEF VersionInv, TypeOK, At
<1>3. /\ locker' = NoRequest /\ \A q \in Requests : ~Locking(q)'
      /\ request' \in [Requests -> RequestState] /\ ~InMerge(r)' /\ At(r, "idle")'
      /\ \A q \in Requests : q # r => request'[q] = request[q]
  BY <1>1, UploadedEnds
<1>4. TypeOK'
  BY <1>1, <1>3, VersionAssumption DEF VersionInv, TypeOK, Locking
<1>5. EveryTextStored'
  BY <1>1, <1>2 DEF VersionInv, EveryTextStored, Numbers, NamesDiffer, OwnName, InMerge
<1>6. NamesDiffer'
  BY <1>1, <1>3 DEF VersionInv, NamesDiffer, OwnName, InMerge, Numbers
<1>7. UploadsStored' /\ ComparisonHolds'
  BY <1>3 DEF UploadsStored, ComparisonHolds, Locking
<1>8. TargetsExist'
  BY <1>1, <1>3 DEF VersionInv, TargetsExist, At, Numbers
<1> QED BY <1>1, <1>4, <1>5, <1>6, <1>7, <1>8
    DEF VersionInv, OneVersionPerKey, ActiveIsTop, Accepted, Numbers

LEMMA InsertVersionInv ==
  ASSUME VersionInv, NEW r \in Requests, InsertVersion(r)
  PROVE  VersionInv'
<1> DEFINE old == request[r]
           row == [revisions |-> old.revisions, status |-> "review_pending",
                   artifact |-> old.artifact, key |-> old.key]
           new == Len(versions) + 1
<1>1. At(r, "uploaded") /\ locker' = Released(r) /\ Becomes(r, Idle) /\ WithKey(old.key) = {}
      /\ UNCHANGED <<revision, active, objects>> /\ cleanStatus' \in CleanStatuses
      /\ versions' = Append(versions, row)
  BY DEF InsertVersion, Ends, CleanStatuses
<1>2. old \in Merging
  BY <1>1, Doing DEF VersionInv, TypeOK, At
<1>3. row \in Version
  BY <1>2 DEF Merging, Version
<1>4. /\ locker' = NoRequest /\ \A q \in Requests : ~Locking(q)'
      /\ request' \in [Requests -> RequestState] /\ ~InMerge(r)' /\ At(r, "idle")'
      /\ \A q \in Requests : q # r => request'[q] = request[q]
  BY <1>1, UploadedEnds
<1>5. OwnName(r, old.artifact) /\ old.artifact \in objects
  BY <1>1, <1>2 DEF VersionInv, NamesDiffer, InMerge, UploadsStored
<1>6. row.artifact = old.artifact /\ row.key = old.key /\ row.status = "review_pending"
  OBVIOUS
<1>7. versions \in Seq(Version) /\ Len(versions) \in Nat
  BY DEF VersionInv, TypeOK
<1> HIDE DEF row, old
<1>8. /\ versions' \in Seq(Version) /\ Len(versions') = new /\ Numbers' = Numbers \union {new}
      /\ versions'[new] = row /\ \A n \in Numbers : versions'[n] = versions[n]
  BY <1>1, <1>3, <1>7 DEF Numbers
<1>9. TypeOK'
  BY <1>1, <1>4, <1>7, <1>8, VersionAssumption DEF VersionInv, TypeOK, Locking
<1>10. EveryTextStored'
  <2> HIDE DEF new
  <2>1. \A n \in Numbers' : versions'[n].artifact \in objects'
    BY <1>1, <1>5, <1>6, <1>8 DEF VersionInv, EveryTextStored
  <2>2. ASSUME NEW m \in Numbers', NEW n \in Numbers', versions'[m].artifact = versions'[n].artifact
        PROVE  m = n
    <3>1. CASE m \in Numbers /\ n \in Numbers
      BY <1>8, <2>2, <3>1 DEF VersionInv, EveryTextStored
    <3>2. CASE m = new \/ n = new
      BY <1>5, <1>6, <1>8, <2>2, <3>2 DEF OwnName
    <3> QED BY <1>8, <3>1, <3>2
  <2> QED BY <2>1, <2>2 DEF EveryTextStored
<1>11. NamesDiffer'
  <2> SUFFICES ASSUME NEW q \in Requests, InMerge(q)' PROVE OwnName(q, request[q].artifact)'
    BY DEF NamesDiffer
  <2>1. q # r /\ InMerge(q) /\ request'[q] = request[q]
    BY <1>4 DEF InMerge
  <2>2. OwnName(q, request[q].artifact) /\ request[q].artifact # old.artifact
    BY <1>5, <2>1 DEF VersionInv, NamesDiffer, OwnName
  <2>3. \A n \in Numbers' : versions'[n].artifact # request'[q].artifact
    BY <1>6, <1>8, <2>1, <2>2 DEF OwnName
  <2>4. \A p \in Requests : p # q /\ InMerge(p)' => request'[p].artifact # request'[q].artifact
    BY <1>4, <2>1, <2>2 DEF OwnName, InMerge
  <2> QED BY <2>3, <2>4 DEF OwnName
<1>12. UploadsStored' /\ ComparisonHolds'
  BY <1>4 DEF UploadsStored, ComparisonHolds, Locking
<1>13. OneVersionPerKey'
  <2> HIDE DEF new
  <2>1. \A n \in Numbers : versions[n].key # row.key
    BY <1>1, <1>6 DEF WithKey
  <2>2. ASSUME NEW m \in Numbers', NEW n \in Numbers', versions'[m].key = versions'[n].key
        PROVE  m = n
    <3>1. CASE m \in Numbers /\ n \in Numbers
      BY <1>8, <2>2, <3>1 DEF VersionInv, OneVersionPerKey
    <3>2. CASE m = new \/ n = new
      BY <1>8, <2>1, <2>2, <3>2
    <3> QED BY <1>8, <3>1, <3>2
  <2> QED BY <2>2 DEF OneVersionPerKey
<1>14. ActiveIsTop'
  <2>1. Accepted' = Accepted
    BY <1>6, <1>7, <1>8 DEF Accepted, Numbers
  <2> QED BY <1>1, <2>1 DEF VersionInv, ActiveIsTop
<1>15. TargetsExist'
  BY <1>4, <1>8 DEF VersionInv, TargetsExist, At
<1> QED BY <1>9, <1>10, <1>11, <1>12, <1>13, <1>14, <1>15 DEF VersionInv

LEMMA AskReviewInv ==
  ASSUME VersionInv, NEW r \in Requests, NEW n \in Numbers, NEW decision \in Decisions,
         AskReview(r, n, decision)
  PROVE  VersionInv'
<1> DEFINE x == [pc |-> "judging", target |-> n, decision |-> decision,
                 seen |-> versions[n].status]
<1>1. n \in Nat /\ versions[n] \in Version
  BY DEF Numbers, VersionInv, TypeOK
<1>2. x \in RequestState /\ x \notin Merging /\ x.pc = "judging" /\ x.target \in Numbers
  BY <1>1 DEF RequestState, Judging, Merging, Version
<1>3. Becomes(r, x)
  BY DEF AskReview
<1> HIDE DEF x
<1>4. ~Locking(r) /\ locker' = Released(r) /\ objects' \subseteq Artifacts /\ objects \subseteq objects'
      /\ UNCHANGED <<revision, versions, active>> /\ cleanStatus' \in CleanStatuses
  BY NothingReleased DEF AskReview, At, Locking, VersionInv, TypeOK
<1> QED BY <1>2, <1>3, <1>4, RequestGoesOn

LEMMA AskAssignInv ==
  ASSUME VersionInv, NEW r \in Requests, AskAssign(r)
  PROVE  VersionInv'
<1> DEFINE x == [pc |-> "assigning", seen |-> cleanStatus]
<1>1. x \in RequestState /\ x \notin Merging /\ x.pc = "assigning"
  BY DEF RequestState, Planning, Merging, VersionInv, TypeOK
<1>2. Becomes(r, x)
  BY DEF AskAssign
<1> HIDE DEF x
<1>3. ~Locking(r) /\ locker' = Released(r) /\ objects' \subseteq Artifacts /\ objects \subseteq objects'
      /\ UNCHANGED <<revision, versions, active>> /\ cleanStatus' \in CleanStatuses
  BY NothingReleased DEF AskAssign, At, Locking, VersionInv, TypeOK
<1> QED BY <1>1, <1>2, <1>3, RequestGoesOn

LEMMA AssignInv ==
  ASSUME VersionInv, NEW r \in Requests, Assign(r)
  PROVE  VersionInv'
<1>1. ~Locking(r) /\ locker' = Released(r) /\ Becomes(r, Idle)
      /\ UNCHANGED <<revision, versions, active, objects>>
  BY NothingReleased DEF Assign, Ends, At, Locking
<1>2. cleanStatus' \in CleanStatuses
  BY DEF Assign, VersionInv, TypeOK, CleanStatuses
<1> QED BY <1>1, <1>2, RequestEnds

LEMMA CrashInv ==
  ASSUME VersionInv, NEW r \in Requests, Crash(r)
  PROVE  VersionInv'
<1>1. cleanStatus' \in CleanStatuses
  BY DEF Crash, VersionInv, TypeOK
<1> QED BY <1>1, RequestEnds DEF Crash

(* A decision that commits turns one version that waits for its review     *)
(* into an accepted or rejected one, and accepts only what is newer than   *)
(* the active version.                                                     *)
Decides(n, decision) ==
  /\ n \in Numbers /\ decision \in Decisions
  /\ versions[n].status = "review_pending"
  /\ ~(decision = "accepted" /\ OlderThanActive(n))
  /\ versions' = [versions EXCEPT ![n].status = decision]
  /\ active' = IF decision = "accepted" THEN n ELSE active

LEMMA Decided ==
  ASSUME VersionInv, NEW n, NEW decision, Decides(n, decision)
  PROVE  /\ versions' \in Seq(Version) /\ Numbers' = Numbers
         /\ versions'[n] = [versions[n] EXCEPT !.status = decision]
         /\ versions'[n].status = decision
         /\ \A m \in Numbers \ {n} : versions'[m] = versions[m]
         /\ \A m \in Numbers : /\ versions'[m].artifact = versions[m].artifact
                               /\ versions'[m].key = versions[m].key
<1> DEFINE row == [versions[n] EXCEPT !.status = decision]
<1>1. versions \in Seq(Version) /\ n \in 1..Len(versions) /\ versions[n] \in Version
  BY DEF VersionInv, TypeOK, Decides, Numbers
<1>2. row \in Version /\ row.status = decision /\ row.artifact = versions[n].artifact
      /\ row.key = versions[n].key
  BY <1>1 DEF Version, Decides
<1>3. versions' = [versions EXCEPT ![n] = row]
  BY DEF Decides
<1> HIDE DEF row
<1>4. versions' \in Seq(Version) /\ Len(versions') = Len(versions)
      /\ \A m \in 1..Len(versions) : versions'[m] = IF m = n THEN row ELSE versions[m]
  BY <1>1, <1>2, <1>3
<1> QED BY <1>1, <1>2, <1>4 DEF Numbers, row

LEMMA DecidesTop ==
  ASSUME VersionInv, NEW n, NEW decision, Decides(n, decision)
  PROVE  ActiveIsTop' /\ active' \in 0..Len(versions') /\ (active' = active \/ active' > active)
<1>1. /\ Numbers' = Numbers /\ versions'[n].status = decision
      /\ \A m \in Numbers \ {n} : versions'[m] = versions[m]
  BY Decided
<1>2. Numbers = 1..Len(versions) /\ Len(versions) \in Nat /\ Len(versions') \in Nat
      /\ Numbers' = 1..Len(versions')
  BY Decided DEF Numbers, VersionInv, TypeOK
<1>3. n \in Numbers /\ n \notin Accepted /\ active \in 0..Len(versions)
  BY DEF Decides, Accepted, VersionInv, TypeOK
<1>4. active \in Accepted \union {0} /\ \A m \in Accepted : m <= active
  BY DEF VersionInv, ActiveIsTop
<1>5. CASE decision = "accepted"
  <2>1. active' = n /\ Accepted' = Accepted \union {n}
    BY <1>1, <1>3, <1>5 DEF Accepted, Decides
  <2>2. n > active
    BY <1>2, <1>3, <1>4, <1>5 DEF Decides, OlderThanActive
  <2>3. \A m \in Accepted : m \in Nat
    BY <1>2 DEF Accepted
  <2> QED BY <1>1, <1>2, <1>3, <1>4, <2>1, <2>2, <2>3 DEF ActiveIsTop
<1>6. CASE decision # "accepted"
  <2>1. active' = active /\ Accepted' = Accepted
    BY <1>1, <1>3, <1>6 DEF Accepted, Decides
  <2> QED BY <1>1, <1>2, <1>3, <1>4, <2>1 DEF ActiveIsTop
<1> QED BY <1>5, <1>6

(* What a final review does beside ending the request.                     *)
LEMMA ReviewCases ==
  ASSUME VersionInv, NEW r \in Requests, FinalReview(r)
  PROVE  /\ Becomes(r, Idle) /\ UNCHANGED <<revision, objects, locker>>
         /\ cleanStatus' \in CleanStatuses
         /\ \/ UNCHANGED <<versions, active>>
            \/ Decides(request[r].target, request[r].decision)
<1>1. request[r] \in Judging /\ request[r].target \in Numbers
  BY Doing DEF VersionInv, TypeOK, TargetsExist, FinalReview, At
<1>2. request[r].decision \in Decisions
  BY <1>1 DEF Judging
<1>3. cleanStatus \in CleanStatuses /\ "completed" \in CleanStatuses
  BY DEF VersionInv, TypeOK, CleanStatuses
<1> QED BY <1>1, <1>2, <1>3 DEF FinalReview, Ends, LockedStatus, Decides

LEMMA FinalReviewInv ==
  ASSUME VersionInv, NEW r \in Requests, FinalReview(r)
  PROVE  VersionInv'
<1>1. /\ Becomes(r, Idle) /\ UNCHANGED <<revision, objects, locker>>
      /\ cleanStatus' \in CleanStatuses /\ ~Locking(r) /\ locker' = Released(r)
  BY ReviewCases, NothingReleased DEF FinalReview, At, Locking
<1>2. CASE UNCHANGED <<versions, active>>
  BY <1>1, <1>2, RequestEnds
<1>3. ASSUME NEW n, NEW decision, Decides(n, decision)
      PROVE  VersionInv'
  <2>1. /\ versions' \in Seq(Version) /\ Numbers' = Numbers
        /\ \A m \in Numbers : /\ versions'[m].artifact = versions[m].artifact
                              /\ versions'[m].key = versions[m].key
    BY <1>3, Decided
  <2>2. request' \in [Requests -> RequestState] /\ request'[r] = Idle
        /\ \A q \in Requests : q # r => request'[q] = request[q]
    BY <1>1, IdleDoing DEF VersionInv, TypeOK, Becomes
  <2>3. \A q \in Requests : Locking(q)' <=> Locking(q)
    BY <1>1, <2>2, IdleDoing DEF Locking, At
  <2>4. TypeOK'
    BY <1>1, <1>3, <2>1, <2>2, <2>3, DecidesTop DEF VersionInv, TypeOK, Locking
  <2>5. EveryTextStored'
    BY <1>1, <2>1 DEF VersionInv, EveryTextStored
  <2>6. NamesDiffer'
    BY <2>1, <2>2, IdleDoing DEF VersionInv, NamesDiffer, OwnName, InMerge
  <2>7. UploadsStored'
    BY <1>1, <2>2, IdleDoing DEF VersionInv, UploadsStored, At
  <2>8. ComparisonHolds'
    BY <1>1, <2>1, <2>2, <2>3 DEF VersionInv, ComparisonHolds, WithKey, Locking, At
  <2>9. TargetsExist' /\ OneVersionPerKey'
    BY <2>1, <2>2, IdleDoing DEF VersionInv, TargetsExist, OneVersionPerKey, At
  <2> QED BY <1>3, <2>4, <2>5, <2>6, <2>7, <2>8, <2>9, DecidesTop DEF VersionInv
<1> QED BY <1>2, <1>3, ReviewCases
-----------------------------------------------------------------------------
LEMMA NextInv == VersionInv /\ [Next]_vars => VersionInv'
<1> SUFFICES ASSUME VersionInv, [Next]_vars PROVE VersionInv'
  OBVIOUS
<1>1. CASE UNCHANGED vars
  BY <1>1 DEF vars, VersionInv, TypeOK, EveryTextStored, NamesDiffer, OwnName, InMerge,
     UploadsStored, ComparisonHolds, Locking, At, WithKey, TargetsExist, OneVersionPerKey,
     ActiveIsTop, Accepted, Numbers
<1>2. CASE \E s \in Sections : EditSection(s)
  BY <1>2, EditSectionInv
<1>3. ASSUME NEW r \in Requests, Handle(r) PROVE VersionInv'
  BY <1>3, AskMergeInv, ReadSectionsInv, LockDocumentInv, UploadInv, InsertVersionInv,
     FlushFailsInv, AskReviewInv, FinalReviewInv, AskAssignInv, AssignInv, CrashInv DEF Handle
<1> QED BY <1>1, <1>2, <1>3 DEF Next

(* VersionInv holds in every reachable state.                              *)
LEMMA Invariance == Spec => []VersionInv
  BY InitInv, NextInv, PTL DEF Spec
-----------------------------------------------------------------------------
(* The variables keep their types, and the Document row is held by merges  *)
(* between their comparison and their commit only (TypeOK).                *)
THEOREM TypeCorrect == Spec => []TypeOK
<1>1. VersionInv => TypeOK
  BY DEF VersionInv
<1> QED BY <1>1, Invariance, PTL

(* No merge uploads a text for a key that already has a version            *)
(* (create_merged_version).                                                *)
THEOREM NoRepeatedUploadHolds == Spec => []NoRepeatedUpload
<1>1. VersionInv => NoRepeatedUpload
  BY DEF VersionInv, ComparisonHolds, Locking, NoRepeatedUpload
<1> QED BY <1>1, Invariance, PTL

(* The object of every committed version exists and is its own, whatever   *)
(* other merges upload or clean up (create_merged_version).                *)
THEOREM EveryTextStoredHolds == Spec => []EveryTextStored
<1>1. VersionInv => EveryTextStored
  BY DEF VersionInv
<1> QED BY <1>1, Invariance, PTL

(* The active version is the newest accepted one (final_review).           *)
THEOREM ActiveIsNewestAcceptedHolds == Spec => []ActiveIsNewestAccepted
<1>1. ASSUME VersionInv PROVE ActiveIsNewestAccepted
  <2> DEFINE S == Accepted \union {0}
  <2>1. S \subseteq Nat /\ active \in S /\ \A n \in S : active >= n
    BY <1>1 DEF VersionInv, TypeOK, ActiveIsTop, Accepted, Numbers
  <2>2. \A m \in S : (\A n \in S : m >= n) => m = active
    BY <2>1
  <2> HIDE DEF S
  <2>3. active = Max(S)
    BY <2>1, <2>2 DEF Max
  <2> QED BY <2>3 DEF S, ActiveIsNewestAccepted
<1> QED BY <1>1, Invariance, PTL

(* A version is published with the text its sections have at that moment   *)
(* (create_merged_version).                                                *)
THEOREM MergedFromCurrentHolds == Spec => MergedFromCurrent
<1>1. ASSUME VersionInv, [Next]_vars PROVE [NewestMatchesSections]_vars
  <2>1. CASE UNCHANGED <<versions>>
    BY <2>1 DEF NewestMatchesSections, VersionInv, TypeOK
  <2>2. ASSUME NEW r \in Requests, InsertVersion(r) PROVE NewestMatchesSections
    <3>1. request[r].revisions = revision /\ UNCHANGED revision
      BY <1>1, <2>2 DEF VersionInv, ComparisonHolds, Locking, InsertVersion
    <3>2. versions'[Len(versions')].revisions = request[r].revisions
      BY <1>1, <2>2 DEF InsertVersion, VersionInv, TypeOK
    <3> QED BY <3>1, <3>2 DEF NewestMatchesSections
  <2>3. ASSUME NEW r \in Requests, FinalReview(r) PROVE NewestMatchesSections
    <3>1. Len(versions') = Len(versions) /\ Len(versions) \in Nat
      BY <1>1, <2>3 DEF FinalReview, VersionInv, TypeOK
    <3> QED BY <3>1 DEF NewestMatchesSections
  <2> QED BY <1>1, <2>1, <2>2, <2>3 DEF Next, Handle, vars, EditSection, AskMerge, ReadSections,
        LockDocument, Upload, FlushFails, AskReview, AskAssign, Assign, Crash
<1> QED BY <1>1, Invariance, PTL DEF Spec, MergedFromCurrent

(* What may happen to the versions in a step.                              *)
LEMMA VersionSteps ==
  ASSUME VersionInv, [Next]_vars
  PROVE  \/ UNCHANGED <<versions, active>>
         \/ UNCHANGED active /\ \E row \in Version : versions' = Append(versions, row)
         \/ \E n, decision : Decides(n, decision)
<1>1. ASSUME NEW r \in Requests, InsertVersion(r)
      PROVE  UNCHANGED active /\ \E row \in Version : versions' = Append(versions, row)
  <2>1. request[r] \in Merging
    BY <1>1, Doing DEF VersionInv, TypeOK, At, InsertVersion
  <2> QED BY <1>1, <2>1 DEF InsertVersion, Merging, Version
<1>2. ASSUME NEW r \in Requests, FinalReview(r)
      PROVE  UNCHANGED <<versions, active>> \/ \E n, decision : Decides(n, decision)
  BY <1>2, ReviewCases
<1> QED BY <1>1, <1>2 DEF Next, Handle, vars, EditSection, AskMerge, ReadSections,
      LockDocument, Upload, FlushFails, AskReview, AskAssign, Assign, Crash

(* A version row never changes but for one final decision (final_review).  *)
THEOREM DecidedOnceHolds == Spec => DecidedOnce
<1>1. ASSUME VersionInv, [Next]_vars PROVE KeepsVersions
  <2>1. versions \in Seq(Version)
    BY <1>1 DEF VersionInv, TypeOK
  <2>2. CASE UNCHANGED <<versions, active>>
    BY <2>1, <2>2 DEF KeepsVersions, KeepsVersion
  <2>3. ASSUME NEW row \in Version, versions' = Append(versions, row) PROVE KeepsVersions
    BY <2>1, <2>3 DEF KeepsVersions, KeepsVersion, Numbers
  <2>4. ASSUME NEW n, NEW decision, Decides(n, decision) PROVE KeepsVersions
    <3>1. /\ versions' \in Seq(Version) /\ Numbers' = Numbers
          /\ versions'[n] = [versions[n] EXCEPT !.status = decision]
          /\ versions'[n].status = decision
          /\ \A m \in Numbers \ {n} : versions'[m] = versions[m]
      BY <1>1, <2>4, Decided
    <3>2. versions[n].status = "review_pending"
      BY <2>4 DEF Decides
    <3>3. Len(versions') >= Len(versions)
      BY <2>1, <3>1 DEF Numbers
    <3> QED BY <3>1, <3>2, <3>3 DEF KeepsVersions, KeepsVersion
  <2> QED BY <1>1, <2>2, <2>3, <2>4, VersionSteps
<1>2. VersionInv /\ [Next]_vars => [KeepsVersions]_vars
  BY <1>1
<1> QED BY <1>2, Invariance, PTL DEF Spec, DecidedOnce

(* There are no more versions than keys, since no key has two.             *)
LEMMA VersionsCounted ==
  ASSUME VersionInv
  PROVE  Len(versions) <= Cardinality(Keys)
<1> DEFINE keyOf == [n \in Numbers |-> versions[n].key]
<1>1. \A n \in Numbers : versions[n].key \in Keys
  <2>1. \A n \in Numbers : versions[n] \in Version
    BY DEF VersionInv, TypeOK, Numbers
  <2> QED BY <2>1 DEF Version
<1>2. keyOf \in Injection(Numbers, Keys)
  BY <1>1 DEF VersionInv, OneVersionPerKey, Injection, IsInjective
<1>3. Cardinality(Numbers) <= Cardinality(Keys)
  BY <1>2, FS_Injection, VersionAssumption
<1>4. Len(versions) \in Nat
  BY DEF VersionInv, TypeOK
<1>5. Cardinality(Numbers) = Len(versions)
  <2> DEFINE last == Len(versions)
  <2>1. last \in Int /\ 1 \in Int /\ last >= 0 /\ Numbers = 1..last
    BY <1>4 DEF Numbers
  <2> HIDE DEF last
  <2>2. Cardinality(1..last) = IF 1 > last THEN 0 ELSE last - 1 + 1
    BY <2>1, FS_Interval
  <2>3. Cardinality(1..last) = last
    BY <2>1, <2>2
  <2> QED BY <2>1, <2>3 DEF last
<1> QED BY <1>3, <1>5

(* CleanVersions implements the pointer that only advances.                *)
THEOREM Refinement == Spec => ActiveAdvances
<1>1. Init => Pointer!PointerInit
  BY DEF Init, Pointer!PointerInit
<1>2. VersionInv /\ [Next]_vars => [Pointer!Advance]_active
  <2> SUFFICES ASSUME VersionInv, [Next]_vars, active' # active PROVE Pointer!Advance
    OBVIOUS
  <2>1. PICK n, decision : Decides(n, decision)
    BY VersionSteps
  <2>2. active' > active /\ active' = n
    BY <2>1, DecidesTop DEF Decides
  <2>3. n \in Numbers /\ Len(versions) <= Cardinality(Keys) /\ Len(versions) \in Nat
    BY <2>1, VersionsCounted DEF Decides, VersionInv, TypeOK
  <2>4. Cardinality(Keys) \in Nat
    BY VersionAssumption, FS_CardinalityType
  <2>5. n \in 1..Cardinality(Keys)
    BY <2>3, <2>4 DEF Numbers
  <2> QED BY <2>2, <2>5 DEF Pointer!Advance
<1> QED BY <1>1, <1>2, Invariance, PTL DEF Spec, ActiveAdvances, Pointer!PointerSpec
-----------------------------------------------------------------------------
(* DocumentInv, for a document and its jobs: the types of the rows, what   *)
(* they refer to, the three invariants, and for each worker, open callback *)
(* and deletion what it still relies on of what it read.                   *)

DocTypes ==
  /\ doc \in Doc
  /\ jobs \in Seq(Job) /\ Len(jobs) <= MaxJobs
  /\ tasks \in Seq(Task) /\ Len(tasks) <= MaxTasks
  /\ profile \in Profiles
  /\ store \subseteq Object
  /\ worker \in [Runners -> Worker]
  /\ closing \in [1..MaxTasks -> {None} \union [status : {"failed", "cancelled"},
                                              restores : {"parsed", "uploaded", None}]]
  /\ DOMAIN deletion = Clients

(* The rows refer to rows that there are, and only a task in progress has  *)
(* an owner.                                                               *)
DocLinks ==
  /\ \A j \in Jobs : jobs[j].task \in Tasks /\ tasks[jobs[j].task].job = j
  /\ \A j \in Jobs : ~IsParse(j) => jobs[j].source \in Jobs
  /\ \A j \in Jobs : Exists(j) => HasDoc
  /\ \A j \in doc.merged : j \in Jobs /\ ~IsParse(j) /\ jobs[j].status = "completed"
  /\ \A t \in Tasks : tasks[t].job \in Jobs
  /\ \A t \in Tasks : tasks[t].owner # None => tasks[t].status \in {"processing", "cancelling"}

(* A handler that still has its token works on the task its job names;     *)
(* nothing overwrites what a finished upload has stored with anything else.*)
WorkerFits(r) ==
  LET t == worker[r].task  j == tasks[t].job
  IN worker[r].pc # "idle" =>
       /\ t \in Tasks
       /\ (worker[r].pc # "claimed" /\ tasks[t].owner = r) => (Exists(j) /\ jobs[j].task = t)
       /\ worker[r].pc = "ready" => (IsParse(j) /\ (Exists(j) => Stored(j) \subseteq store))

(* An open callback holds the row of a queued job.                         *)
ClosingFits(t) ==
  closing[t] # None =>
    /\ t \in Tasks /\ IsParse(tasks[t].job)
    /\ jobs[tasks[t].job].task = t /\ jobs[tasks[t].job].status = "queued"

(* A deletion has read rows and keys of rows; the keys that it removes are *)
(* of rows that are gone.                                                  *)
KeyGone(k) == IF k = PdfKey THEN doc.status = "deleted" ELSE k.job \in Jobs /\ ~Exists(k.job)

DeletionFits(c) ==
  deletion[c] # None =>
    /\ deletion[c] \in [pc : {"read", "document", "committed"}, keys : SUBSET ObjectKeys,
                        rows : SUBSET Jobs]
    /\ deletion[c].pc = "read" =>
         \E j \in deletion[c].rows : deletion[c].keys \subseteq [job : {j}, part : Parts]
    /\ deletion[c].pc = "document" =>
         \A k \in deletion[c].keys : k = PdfKey \/ k.job \in Jobs
    /\ deletion[c].pc = "committed" => \A k \in deletion[c].keys : KeyGone(k)

DocumentInv ==
  /\ DocTypes /\ DocLinks
  /\ RowsHaveObjects /\ JobFollowsTask /\ CleanedFromCompleted
  /\ \A r \in Runners : WorkerFits(r)
  /\ \A t \in 1..MaxTasks : ClosingFits(t)
  /\ \A c \in Clients : DeletionFits(c)
-----------------------------------------------------------------------------
(* The rows and their types.                                               *)

LEMMA RowTypes ==
  ASSUME DocTypes
  PROVE  /\ Len(jobs) \in Nat /\ Len(jobs) <= MaxJobs
         /\ Len(tasks) \in Nat /\ Len(tasks) <= MaxTasks
         /\ \A j \in Jobs : jobs[j] \in Job /\ j \in 1..MaxJobs
         /\ \A t \in Tasks : tasks[t] \in Task /\ t \in 1..MaxTasks
<1>1. jobs \in Seq(Job) /\ Len(jobs) <= MaxJobs /\ tasks \in Seq(Task) /\ Len(tasks) <= MaxTasks
  BY DEF DocTypes
<1>2. Len(jobs) \in Nat /\ Len(tasks) \in Nat
  BY <1>1
<1>3. \A j \in Jobs : jobs[j] \in Job
  BY <1>1 DEF Jobs
<1>4. \A t \in Tasks : tasks[t] \in Task
  BY <1>1 DEF Tasks
<1>5. MaxJobs \in Nat /\ MaxTasks \in Nat
  BY DocumentAssumption
<1>6. \A j \in Jobs : j \in 1..MaxJobs
  BY <1>1, <1>2, <1>5 DEF Jobs
<1>7. \A t \in Tasks : t \in 1..MaxTasks
  BY <1>1, <1>2, <1>5 DEF Tasks
<1> QED BY <1>1, <1>2, <1>3, <1>4, <1>6, <1>7

LEMMA JobTypes ==
  ASSUME NEW job \in Job
  PROVE  /\ job.kind \in {"parse", "clean"} /\ job.task \in 1..MaxTasks
         /\ job.status \in {"completed", "failed", "cancelled", "queued", "deleted"}
         /\ job.kind # "parse" => job.source \in 1..MaxJobs
         /\ job.kind = "parse" => job.profile \in Profiles
  BY DEF Job, Ended

LEMMA JobRow ==
  ASSUME NEW job \in Job, NEW s \in Ended \union {"queued", "deleted"}
  PROVE  /\ [job EXCEPT !.status = s] \in Job
         /\ [job EXCEPT !.status = s].status = s
         /\ [job EXCEPT !.status = s].kind = job.kind
         /\ [job EXCEPT !.status = s].source = job.source
         /\ [job EXCEPT !.status = s].profile = job.profile
         /\ [job EXCEPT !.status = s].task = job.task
<1>1. CASE job \in [kind : {"parse"}, source : {0}, profile : Profiles,
        status : Ended \union {"queued", "deleted"}, task : 1..MaxTasks]
  BY <1>1 DEF Job
<1>2. CASE job \in [kind : {"clean"}, source : 1..MaxJobs, profile : {None},
        status : Ended \union {"queued", "deleted"}, task : 1..MaxTasks]
  BY <1>2 DEF Job
<1> QED BY <1>1, <1>2 DEF Job

(* What a job is for never changes, a job that is gone stays gone, and a   *)
(* task stays with its job.                                                *)
SameJob(old, new) == /\ new.kind = old.kind /\ new.source = old.source
                     /\ new.profile = old.profile
                     /\ old.status = "deleted" => new.status = "deleted"

RowsKept ==
  /\ Len(jobs') \in Nat /\ Len(jobs') >= Len(jobs)
  /\ Len(tasks') \in Nat /\ Len(tasks') >= Len(tasks)
  /\ \A j \in Jobs : SameJob(jobs[j], jobs'[j])
  /\ \A t \in Tasks : tasks'[t].job = tasks[t].job

LEMMA RowsKeptIn ==
  ASSUME DocTypes, RowsKept
  PROVE  /\ \A j \in Jobs : j \in Jobs' /\ IsParse(j)' = IsParse(j) /\ Stored(j)' = Stored(j)
         /\ \A j \in Jobs : Exists(j)' => Exists(j)
         /\ \A t \in Tasks : t \in Tasks'
<1>1. Len(jobs) \in Nat /\ Len(tasks) \in Nat
  BY RowTypes
<1>2. \A j \in Jobs : j \in Jobs'
  BY <1>1 DEF RowsKept, Jobs
<1>3. \A t \in Tasks : t \in Tasks'
  BY <1>1 DEF RowsKept, Tasks
<1> QED BY <1>2, <1>3 DEF RowsKept, SameJob, IsParse, Exists, Stored

LEMMA RowsUnchanged ==
  ASSUME DocTypes, jobs' = jobs, tasks' = tasks
  PROVE  RowsKept
  BY RowTypes DEF RowsKept, SameJob

(* One task is written in place.                                           *)
LEMMA TaskWritten ==
  ASSUME DocTypes, NEW t \in Tasks, NEW row \in Task, tasks' = [tasks EXCEPT ![t] = row]
  PROVE  /\ tasks' \in Seq(Task) /\ Len(tasks') = Len(tasks) /\ Tasks' = Tasks
         /\ \A u \in Tasks : tasks'[u] = IF u = t THEN row ELSE tasks[u]
<1>1. tasks \in Seq(Task)
  BY DEF DocTypes
<1>2. /\ tasks' \in Seq(Task) /\ Len(tasks') = Len(tasks)
      /\ \A u \in 1..Len(tasks) : tasks'[u] = IF u = t THEN row ELSE tasks[u]
  BY <1>1, ExceptSeq DEF Tasks
<1> QED BY <1>2 DEF Tasks

LEMMA JobWritten ==
  ASSUME DocTypes, NEW j \in Jobs, NEW row \in Job, jobs' = [jobs EXCEPT ![j] = row]
  PROVE  /\ jobs' \in Seq(Job) /\ Len(jobs') = Len(jobs) /\ Jobs' = Jobs
         /\ \A i \in Jobs : jobs'[i] = IF i = j THEN row ELSE jobs[i]
<1>1. jobs \in Seq(Job)
  BY DEF DocTypes
<1>2. /\ jobs' \in Seq(Job) /\ Len(jobs') = Len(jobs)
      /\ \A i \in 1..Len(jobs) : jobs'[i] = IF i = j THEN row ELSE jobs[i]
  BY <1>1, ExceptSeq DEF Jobs
<1> QED BY <1>2 DEF Jobs

LEMMA MovedRow ==
  ASSUME DocTypes, NEW t \in Tasks, NEW s \in Live \union Ended
  PROVE  /\ Moved(t, s) \in Task /\ Moved(t, s).job = tasks[t].job
         /\ Moved(t, s).status = s /\ Moved(t, s).owner = None
<1>1. tasks[t] \in Task
  BY RowTypes
<1> QED BY <1>1 DEF Moved, Task
-----------------------------------------------------------------------------
(* What a step that leaves some of the state alone preserves.              *)

(* The results of a job that still exists stay in the store.               *)
ObjectsStay ==
  /\ HasDoc' /\ Pdf \in store => Pdf \in store'
  /\ \A j \in Jobs : IsParse(j) /\ Exists(j)' /\ Stored(j) \subseteq store => Stored(j) \subseteq store'

LEMMA WorkerStays ==
  ASSUME DocTypes, RowsKept, ObjectsStay, NEW r \in Runners, WorkerFits(r), worker'[r] = worker[r],
         \A t \in Tasks : tasks'[t].owner = r /\ worker[r].task = t /\ Executes(r) =>
           /\ tasks[t].owner = r
           /\ Exists(tasks[t].job) /\ jobs[tasks[t].job].task = t =>
                jobs'[tasks[t].job].status # "deleted" /\ jobs'[tasks[t].job].task = t,
         \A t \in Tasks : tasks[t].job \in Jobs
  PROVE  WorkerFits(r)'
<1> SUFFICES ASSUME worker[r].pc # "idle" PROVE WorkerFits(r)'
  BY DEF WorkerFits
<1>1. PICK t \in Tasks : t = worker[r].task
  BY DEF WorkerFits
<1>2. PICK j \in Jobs : j = tasks[t].job
  BY <1>1
<1>3. t \in Tasks' /\ tasks'[t].job = j
  BY <1>2, RowsKeptIn DEF RowsKept
<1>4. IsParse(j)' = IsParse(j) /\ Stored(j)' = Stored(j) /\ (Exists(j)' => Exists(j))
  BY RowsKeptIn
<1>5. worker[r].pc # "claimed" => Executes(r)
  <2>1. worker[r] \in Worker
    BY DEF DocTypes
  <2> QED BY <2>1 DEF Executes, Worker
<1>6. worker[r].pc # "claimed" /\ tasks[t].owner = r => Exists(j) /\ jobs[j].task = t
  BY <1>1, <1>2 DEF WorkerFits
<1>7. worker[r].pc # "claimed" /\ tasks'[t].owner = r => Exists(j)' /\ jobs'[j].task = t
  BY <1>1, <1>2, <1>5, <1>6 DEF Exists
<1>8. worker[r].pc = "ready" => IsParse(j) /\ (Exists(j) => Stored(j) \subseteq store)
  BY <1>1, <1>2 DEF WorkerFits
<1>9. worker[r].pc = "ready" => IsParse(j)' /\ (Exists(j)' => Stored(j)' \subseteq store')
  <2> SUFFICES ASSUME worker[r].pc = "ready", Exists(j)'
               PROVE  Stored(j)' \subseteq store'
    BY <1>4, <1>8
  <2>1. IsParse(j) /\ Stored(j) \subseteq store
    BY <1>4, <1>8
  <2>2. Stored(j) \subseteq store'
    BY <2>1 DEF ObjectsStay
  <2> QED BY <1>4, <2>2
<1> QED BY <1>1, <1>3, <1>7, <1>9 DEF WorkerFits

LEMMA ClosingStays ==
  ASSUME DocTypes, RowsKept, NEW t \in 1..MaxTasks, ClosingFits(t), closing'[t] \in {closing[t], None},
         \A u \in Tasks : tasks[u].job \in Jobs,
         closing'[t] # None => /\ jobs'[tasks[t].job].task = jobs[tasks[t].job].task
                               /\ jobs'[tasks[t].job].status = jobs[tasks[t].job].status
  PROVE  ClosingFits(t)'
<1> SUFFICES ASSUME closing'[t] # None PROVE ClosingFits(t)'
  BY DEF ClosingFits
<1>1. /\ t \in Tasks /\ IsParse(tasks[t].job) /\ tasks[t].job \in Jobs
      /\ jobs[tasks[t].job].task = t /\ jobs[tasks[t].job].status = "queued"
  BY DEF ClosingFits
<1>2. t \in Tasks' /\ tasks'[t].job = tasks[t].job
  BY <1>1, RowsKeptIn DEF RowsKept
<1>3. IsParse(tasks[t].job)' = IsParse(tasks[t].job)
  BY <1>1, <1>2, RowsKeptIn DEF IsParse
<1> QED BY <1>1, <1>2, <1>3 DEF ClosingFits

LEMMA KeyStaysGone ==
  ASSUME DocTypes, RowsKept, NEW k, KeyGone(k), doc.status = "deleted" => doc'.status = "deleted"
  PROVE  KeyGone(k)'
<1>1. CASE k = PdfKey
  BY <1>1 DEF KeyGone, PdfKey
<1>2. CASE k # PdfKey
  <2>1. k.job \in Jobs /\ ~Exists(k.job)
    BY <1>2 DEF KeyGone
  <2>2. k.job \in Jobs' /\ ~Exists(k.job)'
    BY <2>1, RowsKeptIn
  <2> QED BY <1>2, <2>2 DEF KeyGone
<1> QED BY <1>1, <1>2

LEMMA DeletionStays ==
  ASSUME DocTypes, RowsKept, NEW c \in Clients, DeletionFits(c), deletion'[c] \in {deletion[c], None},
         doc.status = "deleted" => doc'.status = "deleted"
  PROVE  DeletionFits(c)'
<1> SUFFICES ASSUME deletion'[c] # None PROVE DeletionFits(c)'
  BY DEF DeletionFits
<1>1. deletion'[c] = deletion[c] /\ deletion[c] # None
  OBVIOUS
<1>2. \A j \in Jobs : j \in Jobs'
  BY RowsKeptIn
<1>3. deletion'[c] \in [pc : {"read", "document", "committed"}, keys : SUBSET ObjectKeys,
                        rows : SUBSET Jobs']
  BY <1>1, <1>2 DEF DeletionFits
<1>4. deletion[c].pc = "committed" => \A k \in deletion[c].keys : KeyGone(k)'
  BY <1>1, KeyStaysGone DEF DeletionFits
<1>5. deletion[c].pc = "document" => \A k \in deletion[c].keys : k = PdfKey \/ k.job \in Jobs'
  BY <1>1, <1>2 DEF DeletionFits
<1>6. deletion[c].pc = "read" =>
         \E j \in deletion[c].rows : deletion[c].keys \subseteq [job : {j}, part : Parts]
  BY <1>1 DEF DeletionFits
<1>7. PdfKey' = PdfKey /\ ObjectKeys' = ObjectKeys
  BY DEF PdfKey, ObjectKeys, Parts
<1> QED BY <1>1, <1>3, <1>4, <1>5, <1>6, <1>7 DEF DeletionFits, Parts
-----------------------------------------------------------------------------
(* A task in progress, or its job with it, goes on or ends.                *)

(* A job that exists and has a task in progress is waiting for it.         *)
LEMMA LiveSettles ==
  ASSUME DocumentInv, NEW t \in Tasks, tasks[t].status \in Live, Exists(tasks[t].job)
  PROVE  Settles(t)
<1>1. PICK j \in Jobs : j = tasks[t].job
  BY DEF DocumentInv, DocLinks
<1>2. /\ jobs[j].status = "queued" <=> tasks[jobs[j].task].status \in Live
      /\ t # jobs[j].task => tasks[t].status = "failed"
  BY <1>1 DEF DocumentInv, JobFollowsTask
<1>3. tasks[t].status # "failed"
  BY DEF Live
<1>4. jobs[j].task = t
  BY <1>2, <1>3
<1> QED BY <1>1, <1>2, <1>4 DEF Settles

(* What such a step leaves: only the job that waits for the task changes.  *)
JobsMoved(t) ==
  /\ Jobs' = Jobs /\ Tasks' = Tasks
  /\ \A j \in Jobs : /\ SameJob(jobs[j], jobs'[j]) /\ jobs'[j].task = jobs[j].task
                     /\ jobs'[j].status = "deleted" => jobs[j].status = "deleted"
                     /\ jobs'[j].status # jobs[j].status => j = tasks[t].job /\ Settles(t)

TaskMoves(t, row) ==
  /\ tasks[t].status \in Live
  /\ row \in Task /\ row.job = tasks[t].job
  /\ row.owner # None => row.status \in {"processing", "cancelling"}
  /\ tasks' = [tasks EXCEPT ![t] = row]
  /\ jobs' = IF Settles(t) /\ row.status \in Ended
             THEN [jobs EXCEPT ![tasks[t].job].status = row.status] ELSE jobs

LEMMA MovedTables ==
  ASSUME DocumentInv, NEW t \in Tasks, NEW row, TaskMoves(t, row)
  PROVE  /\ tasks' \in Seq(Task) /\ Len(tasks') = Len(tasks) /\ Tasks' = Tasks
         /\ \A u \in Tasks : tasks'[u] = IF u = t THEN row ELSE tasks[u]
         /\ jobs' \in Seq(Job) /\ Len(jobs') = Len(jobs) /\ Jobs' = Jobs
         /\ \A j \in Jobs :
              /\ jobs'[j].kind = jobs[j].kind /\ jobs'[j].source = jobs[j].source
              /\ jobs'[j].profile = jobs[j].profile /\ jobs'[j].task = jobs[j].task
              /\ jobs'[j].status = IF j = tasks[t].job /\ Settles(t) /\ row.status \in Ended
                                   THEN row.status ELSE jobs[j].status
<1>1. DocTypes /\ tasks[t].job \in Jobs
  BY DEF DocumentInv, DocLinks
<1>2. /\ tasks' \in Seq(Task) /\ Len(tasks') = Len(tasks) /\ Tasks' = Tasks
      /\ \A u \in Tasks : tasks'[u] = IF u = t THEN row ELSE tasks[u]
  BY <1>1, TaskWritten DEF TaskMoves
<1>3. CASE Settles(t) /\ row.status \in Ended
  <2>1. PICK j \in Jobs : j = tasks[t].job
    BY <1>1
  <2>2. jobs[j] \in Job
    BY <1>1, RowTypes
  <2> DEFINE written == [jobs[j] EXCEPT !.status = row.status]
  <2>4. /\ written \in Job /\ written.status = row.status
        /\ written.kind = jobs[j].kind /\ written.source = jobs[j].source
        /\ written.profile = jobs[j].profile /\ written.task = jobs[j].task
    BY <1>3, <2>2, JobRow
  <2>5. jobs' = [jobs EXCEPT ![j] = written]
    BY <1>3, <2>1 DEF TaskMoves
  <2> HIDE DEF written
  <2>6. /\ jobs' \in Seq(Job) /\ Len(jobs') = Len(jobs) /\ Jobs' = Jobs
        /\ \A i \in Jobs : jobs'[i] = IF i = j THEN written ELSE jobs[i]
    BY <1>1, <2>4, <2>5, JobWritten
  <2>8. \A i \in Jobs : /\ jobs'[i].kind = jobs[i].kind /\ jobs'[i].source = jobs[i].source
                       /\ jobs'[i].profile = jobs[i].profile /\ jobs'[i].task = jobs[i].task
    BY <2>4, <2>6
  <2>9. \A i \in Jobs : jobs'[i].status = IF i = j THEN row.status ELSE jobs[i].status
    BY <2>4, <2>6
  <2> QED BY <1>2, <1>3, <2>1, <2>6, <2>8, <2>9
<1>4. CASE ~(Settles(t) /\ row.status \in Ended)
  <2>1. jobs' = jobs
    BY <1>4 DEF TaskMoves
  <2>2. jobs \in Seq(Job)
    BY <1>1 DEF DocTypes
  <2> QED BY <1>2, <1>4, <2>1, <2>2 DEF Jobs
<1> QED BY <1>3, <1>4

LEMMA MovedRows ==
  ASSUME DocumentInv, NEW t \in Tasks, NEW row, TaskMoves(t, row)
  PROVE  /\ RowsKept /\ JobsMoved(t)
         /\ \A j \in Jobs : jobs[j].status \in {"completed", "deleted"} => jobs'[j].status = jobs[j].status
         /\ \A u \in Tasks : u # t => tasks'[u] = tasks[u]
         /\ tasks'[t] = row
<1>1. DocTypes /\ Len(jobs) \in Nat /\ Len(tasks) \in Nat
  BY RowTypes DEF DocumentInv
<1> DEFINE j == tasks[t].job
<1>2. /\ Len(tasks') = Len(tasks) /\ Tasks' = Tasks /\ Len(jobs') = Len(jobs) /\ Jobs' = Jobs
      /\ \A u \in Tasks : tasks'[u] = IF u = t THEN row ELSE tasks[u]
      /\ \A i \in Jobs : /\ jobs'[i].kind = jobs[i].kind /\ jobs'[i].source = jobs[i].source
                         /\ jobs'[i].profile = jobs[i].profile /\ jobs'[i].task = jobs[i].task
                         /\ jobs'[i].status = IF i = tasks[t].job /\ Settles(t) /\ row.status \in Ended
                                              THEN row.status ELSE jobs[i].status
  BY MovedTables
<1>3. Settles(t) => jobs[tasks[t].job].status = "queued"
  BY DEF Settles
<1>4. row.status \in Ended => row.status # "deleted"
  BY DEF Ended
<1>5. row.job = tasks[t].job
  BY DEF TaskMoves
<1>6. RowsKept
  BY <1>1, <1>2, <1>3, <1>5 DEF RowsKept, SameJob
<1>7. JobsMoved(t)
  BY <1>2, <1>3, <1>4 DEF JobsMoved, SameJob
<1> QED BY <1>2, <1>3, <1>6, <1>7

LEMMA MovedFollows ==
  ASSUME DocumentInv, NEW t \in Tasks, NEW row, TaskMoves(t, row)
  PROVE  JobFollowsTask'
<1>1. /\ Tasks' = Tasks /\ Jobs' = Jobs
      /\ \A u \in Tasks : tasks'[u] = IF u = t THEN row ELSE tasks[u]
      /\ \A i \in Jobs : /\ jobs'[i].task = jobs[i].task
                         /\ jobs'[i].status = IF i = tasks[t].job /\ Settles(t) /\ row.status \in Ended
                                              THEN row.status ELSE jobs[i].status
  BY MovedTables
<1>2. row.job = tasks[t].job /\ tasks[t].status \in Live /\ row.status \in Live \union Ended
  BY DEF TaskMoves, Task
<1> SUFFICES ASSUME NEW j \in Jobs, Exists(j)'
             PROVE  /\ jobs'[j].status = "queued" <=> tasks'[jobs'[j].task].status \in Live
                    /\ jobs'[j].status \in Ended => tasks'[jobs'[j].task].status = jobs'[j].status
                    /\ \A u \in Tasks \ {jobs'[j].task} : tasks'[u].job = j => tasks'[u].status = "failed"
  BY <1>1 DEF JobFollowsTask, Live, Ended
<1>3. Exists(j) /\ jobs[j].task \in Tasks
  BY MovedRows DEF JobsMoved, Exists, DocumentInv, DocLinks
<1>4. /\ jobs[j].status = "queued" <=> tasks[jobs[j].task].status \in Live
      /\ jobs[j].status \in Ended => tasks[jobs[j].task].status = jobs[j].status
      /\ \A u \in Tasks \ {jobs[j].task} : tasks[u].job = j => tasks[u].status = "failed"
  BY <1>3 DEF DocumentInv, JobFollowsTask
<1>5. CASE j = tasks[t].job
  <2>1. Settles(t)
    BY <1>2, <1>3, <1>5, LiveSettles
  <2>2. jobs[j].task = t /\ jobs[j].status = "queued"
    BY <1>5, <2>1 DEF Settles
  <2>3. CASE row.status \in Ended
    BY <1>1, <1>4, <1>5, <2>1, <2>2, <2>3 DEF Ended, Live
  <2>4. CASE row.status \notin Ended
    BY <1>1, <1>2, <1>4, <1>5, <2>2, <2>4 DEF Ended
  <2> QED BY <2>3, <2>4
<1>6. CASE j # tasks[t].job
  <2>1. jobs[j].task # t
    BY <1>6 DEF DocumentInv, DocLinks
  <2> QED BY <1>1, <1>2, <1>3, <1>4, <1>6, <2>1
<1> QED BY <1>5, <1>6

LEMMA MovedCleaning ==
  ASSUME DocumentInv, NEW t \in Tasks, NEW row, TaskMoves(t, row)
  PROVE  CleanedFromCompleted'
<1> SUFFICES ASSUME NEW j \in Jobs, ~IsParse(j), Exists(j)
             PROVE  jobs'[jobs'[j].source].status = "completed"
  <2>1. RowsKept /\ Jobs' = Jobs /\ DocTypes
    BY MovedRows DEF JobsMoved, DocumentInv
  <2> QED BY <2>1, RowsKeptIn DEF CleanedFromCompleted
<1>1. jobs[j].source \in Jobs /\ jobs[jobs[j].source].status = "completed"
  BY DEF DocumentInv, DocLinks, CleanedFromCompleted
<1>2. jobs'[jobs[j].source].status = "completed" /\ jobs'[j].source = jobs[j].source
  BY <1>1, MovedRows DEF RowsKept, SameJob
<1> QED BY <1>2

(* The links of the rows after such a step, when the document is there.    *)
LEMMA MovedLinks ==
  ASSUME DocumentInv, NEW t \in Tasks, NEW row, TaskMoves(t, row),
         doc'.merged = doc.merged, HasDoc => HasDoc'
  PROVE  DocLinks'
<1>1. /\ Tasks' = Tasks /\ Jobs' = Jobs
      /\ \A u \in Tasks : tasks'[u] = IF u = t THEN row ELSE tasks[u]
      /\ \A i \in Jobs : /\ jobs'[i].task = jobs[i].task /\ jobs'[i].source = jobs[i].source
                         /\ jobs'[i].kind = jobs[i].kind
  BY MovedTables
<1>2. /\ row.job = tasks[t].job
      /\ row.owner # None => row.status \in {"processing", "cancelling"}
  BY DEF TaskMoves
<1>3. \A j \in Jobs : Exists(j)' => Exists(j)
  BY MovedRows, RowsKeptIn DEF DocumentInv
<1>4. \A j \in Jobs : jobs[j].status = "completed" => jobs'[j].status = "completed"
  BY MovedRows
<1>5. DocLinks
  BY DEF DocumentInv
<1>6. \A j \in Jobs : jobs'[j].task \in Tasks /\ tasks'[jobs'[j].task].job = j
  BY <1>1, <1>2, <1>5 DEF DocLinks
<1>7. \A u \in Tasks : /\ tasks'[u].job \in Jobs
                       /\ tasks'[u].owner # None => tasks'[u].status \in {"processing", "cancelling"}
  BY <1>1, <1>2, <1>5 DEF DocLinks
<1>8. \A j \in Jobs : ~IsParse(j)' => jobs'[j].source \in Jobs
  BY <1>1, <1>5 DEF DocLinks, IsParse
<1>9. \A j \in Jobs : Exists(j)' => HasDoc'
  BY <1>3, <1>5 DEF DocLinks
<1>10. \A j \in doc'.merged : j \in Jobs /\ ~IsParse(j)' /\ jobs'[j].status = "completed"
  BY <1>1, <1>4, <1>5 DEF DocLinks, IsParse
<1> QED BY <1>1, <1>6, <1>7, <1>8, <1>9, <1>10 DEF DocLinks

LEMMA MovedWorker ==
  ASSUME DocumentInv, NEW t \in Tasks, NEW row, TaskMoves(t, row), ObjectsStay,
         NEW q \in Runners, worker'[q] = worker[q], row.owner = q => tasks[t].owner = q
  PROVE  WorkerFits(q)'
<1>1. DocTypes /\ WorkerFits(q) /\ RowsKept
  BY MovedRows DEF DocumentInv
<1>2. \A u \in Tasks : tasks[u].job \in Jobs
  BY DEF DocumentInv, DocLinks
<1>3. ASSUME NEW u \in Tasks, tasks'[u].owner = q
      PROVE  /\ tasks[u].owner = q
             /\ (Exists(tasks[u].job) /\ jobs[tasks[u].job].task = u) =>
                  jobs'[tasks[u].job].status # "deleted" /\ jobs'[tasks[u].job].task = u
  <2>1. tasks[u].owner = q
    BY <1>3, MovedRows
  <2>2. /\ jobs'[tasks[u].job].task = jobs[tasks[u].job].task
        /\ jobs'[tasks[u].job].status = "deleted" => jobs[tasks[u].job].status = "deleted"
    BY <1>2, MovedRows DEF JobsMoved
  <2> QED BY <2>1, <2>2 DEF Exists
<1> QED BY <1>1, <1>2, <1>3, WorkerStays

LEMMA MovedClosing ==
  ASSUME DocumentInv, NEW t \in Tasks, NEW row, TaskMoves(t, row),
         NEW u \in 1..MaxTasks, u # t, closing'[u] = closing[u]
  PROVE  ClosingFits(u)'
<1>1. DocTypes /\ ClosingFits(u) /\ RowsKept
  BY MovedRows DEF DocumentInv
<1>2. \A v \in Tasks : tasks[v].job \in Jobs
  BY DEF DocumentInv, DocLinks
<1>3. ASSUME closing[u] # None
      PROVE  /\ jobs'[tasks[u].job].task = jobs[tasks[u].job].task
             /\ jobs'[tasks[u].job].status = jobs[tasks[u].job].status
  <2>1. u \in Tasks /\ jobs[tasks[u].job].task = u
    BY <1>1, <1>3 DEF ClosingFits
  <2>2. tasks[u].job # tasks[t].job \/ ~Settles(t)
    BY <2>1 DEF Settles
  <2> QED BY <1>2, <2>1, <2>2, MovedRows DEF JobsMoved
<1> QED BY <1>1, <1>2, <1>3, ClosingStays

LEMMA MovedStored ==
  ASSUME DocumentInv, NEW t \in Tasks, NEW row, TaskMoves(t, row), store' = store, HasDoc' => HasDoc,
         row.status = "completed" /\ IsParse(tasks[t].job) => Stored(tasks[t].job) \subseteq store
  PROVE  RowsHaveObjects' /\ ObjectsStay
<1>1. ObjectsStay
  BY DEF ObjectsStay
<1>2. RowsHaveObjects /\ DocTypes /\ RowsKept /\ Jobs' = Jobs /\ Pdf' = Pdf
  BY MovedRows DEF DocumentInv, JobsMoved, Pdf, PdfKey
<1>3. ASSUME NEW j \in Jobs, IsParse(j)', jobs'[j].status = "completed"
      PROVE  Stored(j)' \subseteq store'
  <2>1. IsParse(j) /\ Stored(j)' = Stored(j)
    BY <1>2, <1>3, RowsKeptIn
  <2>2. CASE jobs[j].status = "completed"
    BY <1>2, <2>1, <2>2 DEF RowsHaveObjects
  <2>3. CASE jobs[j].status # "completed"
    <3>1. j = tasks[t].job /\ row.status = "completed"
      BY <1>3, <2>3, MovedTables
    <3> QED BY <2>1, <3>1
  <2> QED BY <2>2, <2>3
<1> QED BY <1>1, <1>2, <1>3 DEF RowsHaveObjects

LEMMA MoveKeeps ==
  ASSUME DocumentInv, NEW t \in Tasks, NEW row, TaskMoves(t, row),
         UNCHANGED <<profile, store, deletion>>,
         doc' \in Doc, doc'.merged = doc.merged, HasDoc' <=> HasDoc,
         doc.status = "deleted" => doc'.status = "deleted",
         closing' \in {closing, [closing EXCEPT ![t] = None]}, closing'[t] = None,
         worker' \in [Runners -> Worker],
         \A q \in Runners : \/ worker'[q] = worker[q] /\ (row.owner = q => tasks[t].owner = q)
                            \/ WorkerFits(q)',
         row.status = "completed" /\ IsParse(tasks[t].job) => Stored(tasks[t].job) \subseteq store
  PROVE  DocumentInv'
<1>1. DocTypes /\ RowsKept /\ Len(tasks') = Len(tasks) /\ Len(jobs') = Len(jobs)
      /\ tasks' \in Seq(Task) /\ jobs' \in Seq(Job)
  BY MovedRows, MovedTables DEF DocumentInv
<1>2. RowsHaveObjects' /\ ObjectsStay
  BY MovedStored
<1>3. DocLinks' /\ JobFollowsTask' /\ CleanedFromCompleted'
  BY MovedLinks, MovedFollows, MovedCleaning
<1>4. DocTypes'
  BY <1>1 DEF DocTypes, Profiles, Object, ObjectKeys, PdfKey, Parts
<1>5. \A q \in Runners : WorkerFits(q)'
  BY <1>2, MovedWorker
<1>6. \A u \in 1..MaxTasks : ClosingFits(u)'
  <2> SUFFICES ASSUME NEW u \in 1..MaxTasks PROVE ClosingFits(u)'
    OBVIOUS
  <2>1. CASE u = t
    BY <2>1 DEF ClosingFits
  <2>2. CASE u # t
    <3>1. closing'[u] = closing[u]
      BY <1>1, <2>2 DEF DocTypes
    <3> QED BY <2>2, <3>1, MovedClosing
  <2> QED BY <2>1, <2>2
<1>7. \A c \in Clients : DeletionFits(c)'
  BY <1>1, DeletionStays DEF DocumentInv
<1> QED BY <1>2, <1>3, <1>4, <1>5, <1>6, <1>7 DEF DocumentInv
-----------------------------------------------------------------------------
(* A step that changes no row of a job or of a task.                       *)
Closings == {None} \union [status : {"failed", "cancelled"}, restores : {"parsed", "uploaded", None}]

LEMMA StillKeeps ==
  ASSUME DocumentInv, jobs' = jobs, tasks' = tasks, profile' \in Profiles,
         doc' \in Doc, HasDoc => HasDoc', doc.status = "deleted" => doc'.status = "deleted",
         \A j \in doc'.merged :
           j \in doc.merged \/ (j \in Jobs /\ ~IsParse(j) /\ jobs[j].status = "completed"),
         store' \subseteq Object, ObjectsStay, HasDoc' => Pdf \in store',
         worker' \in [Runners -> Worker],
         \A q \in Runners : worker'[q] = worker[q] \/ WorkerFits(q)',
         closing' \in [1..MaxTasks -> Closings], DOMAIN deletion' = Clients,
         \A u \in 1..MaxTasks : closing'[u] \in {closing[u], None} \/ ClosingFits(u)',
         \A c \in Clients : deletion'[c] \in {deletion[c], None} \/ DeletionFits(c)'
  PROVE  DocumentInv'
<1>1. jobs' = jobs /\ tasks' = tasks /\ Jobs' = Jobs /\ Tasks' = Tasks
  BY DEF Jobs, Tasks
<1>2. DocTypes /\ RowsKept
  BY <1>1, RowsUnchanged DEF DocumentInv
<1>3. DocTypes'
  BY <1>1, <1>2 DEF DocTypes, Closings, Profiles, Object, ObjectKeys, PdfKey, Parts
<1>4. DocLinks'
  BY <1>1 DEF DocumentInv, DocLinks, IsParse, Exists
<1>5. RowsHaveObjects'
  <2>1. RowsHaveObjects /\ Pdf' = Pdf
    BY DEF DocumentInv, Pdf, PdfKey
  <2>2. ASSUME NEW j \in Jobs, IsParse(j)', jobs[j].status = "completed"
        PROVE  Stored(j)' \subseteq store'
    <3>1. IsParse(j) /\ Stored(j)' = Stored(j) /\ Exists(j)'
      BY <1>1, <2>2 DEF IsParse, Stored, Exists
    <3>2. Stored(j) \subseteq store
      BY <2>1, <2>2, <3>1 DEF RowsHaveObjects
    <3> QED BY <3>1, <3>2 DEF ObjectsStay
  <2> QED BY <1>1, <2>1, <2>2 DEF RowsHaveObjects
<1>6. JobFollowsTask' /\ CleanedFromCompleted'
  BY <1>1 DEF DocumentInv, JobFollowsTask, CleanedFromCompleted, IsParse, Exists
<1>7. \A q \in Runners : WorkerFits(q)'
  <2>1. \A u \in Tasks : tasks[u].job \in Jobs
    BY DEF DocumentInv, DocLinks
  <2>2. ASSUME NEW q \in Runners, worker'[q] = worker[q]
        PROVE  WorkerFits(q)'
    <3>1. WorkerFits(q)
      BY DEF DocumentInv
    <3>2. \A u \in Tasks :
            /\ tasks'[u].owner = q => tasks[u].owner = q
            /\ (Exists(tasks[u].job) /\ jobs[tasks[u].job].task = u) =>
                 jobs'[tasks[u].job].status # "deleted" /\ jobs'[tasks[u].job].task = u
      BY <1>1 DEF Exists
    <3> QED BY <1>2, <2>1, <2>2, <3>1, <3>2, WorkerStays
  <2> QED BY <2>2
<1>8. \A u \in 1..MaxTasks : ClosingFits(u)'
  BY <1>1, <1>2, ClosingStays DEF DocumentInv, DocLinks
<1>9. \A c \in Clients : DeletionFits(c)'
  BY <1>2, DeletionStays DEF DocumentInv
<1> QED BY <1>3, <1>4, <1>5, <1>6, <1>7, <1>8, <1>9 DEF DocumentInv

(* Objects are only overwritten with themselves: the profile is frozen.    *)
LEMMA PutResults ==
  ASSUME DocTypes, NEW j \in Jobs, IsParse(j), NEW new, new \subseteq Results(j)
  PROVE  /\ Put(new) \subseteq Object
         /\ Pdf \in store => Pdf \in Put(new)
         /\ \A i \in Jobs : Stored(i) \subseteq store => Stored(i) \subseteq Put(new)
<1>1. j \in 1..MaxJobs /\ jobs[j].profile \in Profiles
  BY RowTypes, JobTypes DEF IsParse
<1>2. \A n \in new : \E p \in Parts :
        n = [key |-> [job |-> j, part |-> p], profile |-> jobs[j].profile]
  BY DEF Results, Output, Parsed
<1>3. new \subseteq Object
  BY <1>1, <1>2 DEF Object, ObjectKeys
<1>4. Put(new) \subseteq Object
  BY <1>3 DEF Put, DocTypes
<1>5. Pdf \in store => Pdf \in Put(new)
  <2>1. \A n \in new : n.key # Pdf.key
    BY <1>1, <1>2 DEF Pdf, PdfKey
  <2> QED BY <2>1 DEF Put
<1>6. ASSUME NEW i \in Jobs, Stored(i) \subseteq store, NEW o \in Stored(i)
      PROVE  o \in Put(new)
  <2>1. PICK p \in Parts : o = [key |-> [job |-> i, part |-> p], profile |-> jobs[i].profile]
    BY DEF Stored
  <2>2. ASSUME NEW n \in new, o.key = n.key
        PROVE  o = n
    <3>1. PICK q \in Parts : n = [key |-> [job |-> j, part |-> q], profile |-> jobs[j].profile]
      BY <1>2
    <3>2. o.key.job = i /\ o.key.part = p /\ n.key.job = j /\ n.key.part = q
      BY <2>1, <3>1
    <3>3. i = j /\ p = q
      BY <2>2, <3>2
    <3> QED BY <2>1, <3>1, <3>3
  <2> QED BY <1>6, <2>2 DEF Put
<1> QED BY <1>4, <1>5, <1>6

LEMMA PutPdf ==
  ASSUME DocTypes, store' = Put({Pdf})
  PROVE  /\ store' \subseteq Object /\ Pdf \in store'
         /\ \A j \in Jobs : Stored(j) \subseteq store => Stored(j) \subseteq store'
<1>1. Pdf \in Object
  BY DEF Pdf, Object, ObjectKeys
<1>2. store' \subseteq Object /\ Pdf \in store'
  BY <1>1 DEF Put, DocTypes
<1>3. ASSUME NEW j \in Jobs, Stored(j) \subseteq store, NEW o \in Stored(j)
      PROVE  o \in store'
  <2>1. PICK p \in Parts : o = [key |-> [job |-> j, part |-> p], profile |-> jobs[j].profile]
    BY DEF Stored
  <2>2. o.key = [job |-> j, part |-> p] /\ j # 0
    BY <2>1, RowTypes
  <2>3. o.key # Pdf.key
    BY <2>2 DEF Pdf, PdfKey
  <2> QED BY <1>3, <2>3 DEF Put
<1> QED BY <1>2, <1>3

LEMMA StoreSame ==
  ASSUME DocumentInv, store' = store
  PROVE  ObjectsStay /\ (HasDoc => Pdf \in store) /\ store' \subseteq Object
  BY DEF DocumentInv, ObjectsStay, RowsHaveObjects, DocTypes

LEMMA StillTypes ==
  ASSUME DocumentInv
  PROVE  /\ DocTypes /\ DocLinks /\ doc \in Doc /\ profile \in Profiles
         /\ worker \in [Runners -> Worker] /\ closing \in [1..MaxTasks -> Closings]
         /\ DOMAIN deletion = Clients
         /\ \A r \in Runners : WorkerFits(r)
         /\ \A t \in 1..MaxTasks : ClosingFits(t)
         /\ \A c \in Clients : DeletionFits(c)
  BY DEF DocumentInv, DocTypes, Closings

LEMMA RequestsKeep ==
  ASSUME DocumentInv, UploadFile \/ InsertDocument \/ EditProfile \/ Cite \/ (\E j \in Jobs : Merge(j))
  PROVE  DocumentInv'
<1>1. DocTypes /\ DocLinks /\ closing \in [1..MaxTasks -> Closings] /\ DOMAIN deletion = Clients
  BY StillTypes
<1>2. doc \in Doc /\ profile \in Profiles /\ worker \in [Runners -> Worker] /\ store \subseteq Object
  BY <1>1 DEF DocTypes
<1>3. CASE UploadFile
  <2>1. store' = Put({Pdf}) /\ doc' = doc /\ jobs' = jobs /\ tasks' = tasks /\ profile' = profile /\ worker' = worker /\ closing' = closing /\ deletion' = deletion
    BY <1>3 DEF UploadFile
  <2>2. ObjectsStay /\ store' \subseteq Object /\ Pdf \in store'
    BY <1>1, <2>1, PutPdf DEF ObjectsStay
  <2> QED BY <1>1, <1>2, <2>1, <2>2, StillKeeps DEF HasDoc
<1>4. CASE InsertDocument
  <2>1. /\ doc.status = "absent" /\ Pdf \in store /\ doc' = [doc EXCEPT !.status = "uploaded"]
        /\ jobs' = jobs /\ tasks' = tasks /\ profile' = profile /\ store' = store /\ worker' = worker /\ closing' = closing /\ deletion' = deletion
    BY <1>4 DEF InsertDocument
  <2>2. doc' \in Doc /\ HasDoc' /\ doc'.merged = doc.merged
    BY <1>2, <2>1 DEF Doc, HasDoc
  <2>3. ObjectsStay
    BY <2>1, StoreSame
  <2> QED BY <1>1, <1>2, <2>1, <2>2, <2>3, StillKeeps
<1>5. CASE EditProfile
  <2>1. /\ profile < MaxProfile /\ profile' = profile + 1
        /\ doc' = doc /\ jobs' = jobs /\ tasks' = tasks /\ store' = store /\ worker' = worker /\ closing' = closing /\ deletion' = deletion
    BY <1>5 DEF EditProfile
  <2>2. profile' \in Profiles
    BY <1>2, <2>1, DocumentAssumption DEF Profiles
  <2>3. ObjectsStay /\ (HasDoc' => Pdf \in store') /\ (HasDoc => HasDoc')
    BY <2>1, StoreSame DEF HasDoc
  <2> QED BY <1>1, <1>2, <2>1, <2>2, <2>3, StillKeeps
<1>6. CASE Cite
  <2>1. /\ HasDoc /\ doc' = [doc EXCEPT !.cited = TRUE]
        /\ jobs' = jobs /\ tasks' = tasks /\ profile' = profile /\ store' = store /\ worker' = worker /\ closing' = closing /\ deletion' = deletion
    BY <1>6 DEF Cite
  <2>2. doc' \in Doc /\ HasDoc' /\ doc'.merged = doc.merged /\ doc'.status = doc.status
    BY <1>2, <2>1 DEF Doc, HasDoc
  <2>3. ObjectsStay /\ Pdf \in store
    BY <2>1, StoreSame
  <2> QED BY <1>1, <1>2, <2>1, <2>2, <2>3, StillKeeps
<1>7. CASE \E j \in Jobs : Merge(j)
  <2>1. PICK j \in Jobs : Merge(j)
    BY <1>7
  <2>2. /\ jobs[j].kind = "clean" /\ jobs[j].status = "completed"
        /\ doc' = [doc EXCEPT !.merged = @ \union {j}]
        /\ jobs' = jobs /\ tasks' = tasks /\ profile' = profile /\ store' = store /\ worker' = worker /\ closing' = closing /\ deletion' = deletion
    BY <2>1 DEF Merge
  <2>3. j \in 1..MaxJobs
    BY <1>1, RowTypes
  <2>4. doc' \in Doc /\ doc'.merged = doc.merged \union {j} /\ doc'.status = doc.status
    BY <1>2, <2>2, <2>3 DEF Doc
  <2>5. ObjectsStay /\ (HasDoc => HasDoc') /\ (HasDoc' => Pdf \in store')
    BY <2>2, <2>4, StoreSame DEF HasDoc
  <2>6. ~IsParse(j)
    BY <2>2 DEF IsParse
  <2> QED BY <1>1, <1>2, <2>2, <2>4, <2>5, <2>6, StillKeeps
<1> QED BY <1>3, <1>4, <1>5, <1>6, <1>7

LEMMA StartKeeps ==
  ASSUME DocumentInv, NEW r \in Runners, Start(r)
  PROVE  DocumentInv'
<1>1. /\ DocTypes /\ closing \in [1..MaxTasks -> Closings] /\ doc \in Doc /\ profile \in Profiles
      /\ worker \in [Runners -> Worker] /\ WorkerFits(r) /\ DOMAIN deletion = Clients
  BY StillTypes
<1>2. /\ worker[r].pc = "claimed" /\ HasDoc /\ Exists(JobOf(r)) /\ jobs[JobOf(r)].task = worker[r].task
      /\ worker' = [worker EXCEPT ![r].pc = "started", ![r].seen = doc.status]
      /\ doc' = doc /\ jobs' = jobs /\ tasks' = tasks /\ profile' = profile /\ store' = store /\ closing' = closing /\ deletion' = deletion
  BY DEF Start, Takes, Chained
<1>3. doc.status \in {"uploaded", "parsing", "parsed", "cleaning"}
  BY <1>1, <1>2 DEF HasDoc, Doc
<1>4. /\ worker' \in [Runners -> Worker] /\ worker'[r].pc = "started" /\ worker'[r].task = worker[r].task
      /\ \A q \in Runners : q # r => worker'[q] = worker[q]
  BY <1>1, <1>2, <1>3 DEF Worker
<1>5. PICK t \in Tasks : t = worker[r].task
  BY <1>1, <1>2 DEF WorkerFits
<1>6. PICK j : j = tasks[t].job
  OBVIOUS
<1>7. Exists(j) /\ jobs[j].task = t
  BY <1>2, <1>5, <1>6 DEF JobOf
<1>8. WorkerFits(r)'
  BY <1>2, <1>4, <1>5, <1>6, <1>7 DEF WorkerFits, Exists, Tasks
<1>9. ObjectsStay /\ (HasDoc => HasDoc') /\ (HasDoc' => Pdf \in store') /\ store' \subseteq Object
  BY <1>2, StoreSame DEF HasDoc
<1> QED BY <1>1, <1>2, <1>4, <1>8, <1>9, StillKeeps

LEMMA UploadKeeps ==
  ASSUME DocumentInv, NEW r \in Runners, UploadResults(r)
  PROVE  DocumentInv'
<1>1. /\ worker[r].pc = "started" /\ IsParse(JobOf(r)) /\ store' = Put(Results(JobOf(r)))
      /\ worker' = [worker EXCEPT ![r].pc = "ready"]
      /\ doc' = doc /\ jobs' = jobs /\ tasks' = tasks /\ profile' = profile
      /\ closing' = closing /\ deletion' = deletion /\ Pdf \in store
  BY DEF UploadResults
<1>2. PICK t \in Tasks : t = worker[r].task
  BY <1>1, StillTypes DEF WorkerFits
<1>3. PICK j \in Jobs : j = tasks[t].job /\ j = JobOf(r)
  BY <1>2 DEF JobOf, DocumentInv, DocLinks
<1>4. (worker[r].pc # "claimed" /\ tasks[t].owner = r) => (Exists(j) /\ jobs[j].task = t)
  BY <1>1, <1>2, <1>3, StillTypes DEF WorkerFits
<1>5. /\ store' \subseteq Object /\ Pdf \in store'
      /\ \A i \in Jobs : Stored(i) \subseteq store => Stored(i) \subseteq store'
  BY <1>1, <1>3, PutResults, StillTypes
<1>6. ObjectsStay
  BY <1>5 DEF ObjectsStay
<1>7. Stored(j) \subseteq store'
  BY <1>1, <1>3 DEF Put, Results, Output, Parsed, Stored
<1>8. Stored(j)' = Stored(j) /\ IsParse(j)' /\ Exists(j)' = Exists(j) /\ Tasks' = Tasks
  BY <1>1, <1>3 DEF Stored, IsParse, Exists, Tasks
<1>9. /\ worker' \in [Runners -> Worker] /\ worker'[r].pc = "ready" /\ worker'[r].task = t
      /\ \A q \in Runners : q # r => worker'[q] = worker[q]
  BY <1>1, <1>2, StillTypes DEF Worker
<1>10. WorkerFits(r)'
  BY <1>1, <1>3, <1>4, <1>7, <1>8, <1>9 DEF WorkerFits
<1> QED BY <1>1, <1>5, <1>6, <1>9, <1>10, StillTypes, StillKeeps DEF HasDoc

LEMMA ArrivesKeeps ==
  ASSUME DocumentInv, NEW j \in Jobs, Arrives(j)
  PROVE  DocumentInv'
<1>1. /\ IsParse(j)
      /\ doc' = doc /\ jobs' = jobs /\ tasks' = tasks /\ profile' = profile
      /\ worker' = worker /\ closing' = closing /\ deletion' = deletion
  BY DEF Arrives
<1>2. PICK part \in Parts : store' = Put({Output(j, part)})
  BY DEF Arrives
<1>3. {Output(j, part)} \subseteq Results(j)
  BY DEF Results
<1>4. /\ store' \subseteq Object /\ (Pdf \in store => Pdf \in store')
      /\ \A i \in Jobs : Stored(i) \subseteq store => Stored(i) \subseteq store'
  BY <1>1, <1>2, <1>3, PutResults, StillTypes
<1>5. ObjectsStay
  BY <1>4 DEF ObjectsStay
<1>6. HasDoc => Pdf \in store
  BY DEF DocumentInv, RowsHaveObjects
<1> QED BY <1>1, <1>4, <1>5, <1>6, StillTypes, StillKeeps DEF HasDoc

LEMMA FreeFits ==
  ASSUME DocumentInv, NEW r \in Runners, Stops(r)
  PROVE  /\ worker' \in [Runners -> Worker] /\ WorkerFits(r)'
         /\ \A q \in Runners : q # r => worker'[q] = worker[q]
<1>1. worker' = [worker EXCEPT ![r] = Free]
  BY DEF Stops
<1>2. Free \in Worker /\ Free.pc = "idle"
  BY DocumentAssumption DEF Free, Worker
<1>3. worker' \in [Runners -> Worker] /\ worker'[r] = Free /\ \A q \in Runners : q # r => worker'[q] = worker[q]
  BY <1>1, <1>2, StillTypes
<1> QED BY <1>2, <1>3 DEF WorkerFits

LEMMA LeavesKeeps ==
  ASSUME DocumentInv, NEW r \in Runners, Leaves(r)
  PROVE  DocumentInv'
<1>1. /\ Stops(r)
      /\ doc' = doc /\ jobs' = jobs /\ tasks' = tasks /\ profile' = profile /\ store' = store
      /\ closing' = closing /\ deletion' = deletion
  BY DEF Leaves
<1>2. ObjectsStay /\ (HasDoc => Pdf \in store) /\ store' \subseteq Object
  BY <1>1, StoreSame
<1> QED BY <1>1, <1>2, FreeFits, StillTypes, StillKeeps DEF HasDoc

LEMMA AbortKeeps ==
  ASSUME DocumentInv, NEW t \in Tasks, AbortEnd(t)
  PROVE  DocumentInv'
<1>1. /\ closing' = [closing EXCEPT ![t] = None]
      /\ doc' = doc /\ jobs' = jobs /\ tasks' = tasks /\ profile' = profile /\ store' = store
      /\ worker' = worker /\ deletion' = deletion
  BY DEF AbortEnd
<1>2. None \in Closings
  BY DEF Closings
<1>3. /\ closing' \in [1..MaxTasks -> Closings]
      /\ \A u \in 1..MaxTasks : closing'[u] \in {closing[u], None}
  BY <1>1, <1>2, StillTypes
<1>4. ObjectsStay /\ (HasDoc => Pdf \in store) /\ store' \subseteq Object
  BY <1>1, StoreSame
<1> QED BY <1>1, <1>3, <1>4, StillTypes, StillKeeps DEF HasDoc

(* The callback of a parse job opens.                                      *)
LEMMA OpensKeeps ==
  ASSUME DocumentInv, NEW t \in Tasks, NEW status \in {"failed", "cancelled"},
         Settles(t), IsParse(tasks[t].job),
         closing' = [closing EXCEPT ![t] = [status |-> status, restores |-> Restored(tasks[t].job)]],
         doc' = doc, jobs' = jobs, tasks' = tasks, profile' = profile, store' = store,
         worker' \in [Runners -> Worker],
         \A q \in Runners : worker'[q] = worker[q] \/ WorkerFits(q)',
         deletion' = deletion
  PROVE  DocumentInv'
<1>1. Restored(tasks[t].job) \in {"parsed", "uploaded", None}
  BY DEF Restored
<1> DEFINE open == [status |-> status, restores |-> Restored(tasks[t].job)]
<1>2. open \in Closings
  BY <1>1 DEF Closings
<1>3. closing' = [closing EXCEPT ![t] = open]
  OBVIOUS
<1> HIDE DEF open
<1>4. t \in 1..MaxTasks
  BY StillTypes, RowTypes
<1>5. /\ closing' \in [1..MaxTasks -> Closings]
      /\ \A u \in 1..MaxTasks : u # t => closing'[u] = closing[u]
  BY <1>2, <1>3, StillTypes
<1>6. ClosingFits(t)'
  BY DEF ClosingFits, Settles, Tasks, IsParse
<1>7. ObjectsStay /\ (HasDoc => Pdf \in store) /\ store' \subseteq Object
  BY StoreSame
<1> QED BY <1>5, <1>6, <1>7, StillTypes, StillKeeps DEF HasDoc

LEMMA KeyTypes ==
  ASSUME DocTypes, NEW j \in Jobs
  PROVE  /\ KeysOf(j) \subseteq [job : {j}, part : Parts] /\ KeysOf(j) \subseteq ObjectKeys
         /\ \A k \in [job : {j}, part : Parts] : k.job = j /\ k # PdfKey
<1>1. j \in 1..MaxJobs /\ j # 0
  BY RowTypes
<1>2. \A k \in [job : {j}, part : Parts] : k.job = j
  OBVIOUS
<1>3. PdfKey.job = 0
  BY DEF PdfKey
<1>4. \A k \in [job : {j}, part : Parts] : k.job = j /\ k # PdfKey
  BY <1>1, <1>2, <1>3
<1>5. \A k \in KeysOf(j) : k \in [job : {j}, part : Parts] /\ k \in ObjectKeys
  BY <1>1 DEF KeysOf, ObjectKeys
<1> QED BY <1>4, <1>5

(* A client's deletion, the only one that a step changes.                  *)
LEMMA DeletionKeeps ==
  ASSUME DocumentInv, NEW c \in Clients, NEW d, deletion' = [deletion EXCEPT ![c] = d],
         deletion'[c] = d => DeletionFits(c)',
         doc' = doc, jobs' = jobs, tasks' = tasks, profile' = profile, worker' = worker, closing' = closing,
         store' \subseteq Object, ObjectsStay, HasDoc => Pdf \in store'
  PROVE  DocumentInv'
<1>1. DOMAIN deletion' = Clients /\ deletion'[c] = d /\ \A b \in Clients : b # c => deletion'[b] = deletion[b]
  BY StillTypes
<1>2. \A b \in Clients : deletion'[b] \in {deletion[b], None} \/ DeletionFits(b)'
  BY <1>1
<1> QED BY <1>1, <1>2, StillTypes, StillKeeps DEF HasDoc

LEMMA BeginDeleteKeeps ==
  ASSUME DocumentInv, NEW c \in Clients, NEW j \in Jobs, BeginDelete(c, j)
  PROVE  DocumentInv'
<1> DEFINE d == [pc |-> "read", keys |-> KeysOf(j), rows |-> {j} \union CleaningOf(j)]
<1>1. /\ deletion' = [deletion EXCEPT ![c] = d]
      /\ doc' = doc /\ jobs' = jobs /\ tasks' = tasks /\ profile' = profile /\ store' = store
      /\ worker' = worker /\ closing' = closing
  BY DEF BeginDelete
<1>2. Jobs' = Jobs /\ CleaningOf(j) \subseteq Jobs
  BY <1>1 DEF Jobs, CleaningOf
<1>3. KeysOf(j) \subseteq [job : {j}, part : Parts] /\ KeysOf(j) \subseteq ObjectKeys
  BY StillTypes, KeyTypes
<1>4. /\ d.pc = "read" /\ j \in d.rows /\ d.keys \subseteq [job : {j}, part : Parts]
      /\ d \in [pc : {"read", "document", "committed"}, keys : SUBSET ObjectKeys, rows : SUBSET Jobs]
  BY <1>2, <1>3
<1> HIDE DEF d
<1>5. deletion'[c] = d => DeletionFits(c)'
  BY <1>2, <1>4 DEF DeletionFits, ObjectKeys, PdfKey, Parts
<1>6. ObjectsStay /\ (HasDoc => Pdf \in store) /\ store' \subseteq Object
  BY <1>1, StoreSame
<1> QED BY <1>1, <1>5, <1>6, DeletionKeeps

LEMMA BeginDocumentKeeps ==
  ASSUME DocumentInv, NEW c \in Clients, BeginDeleteDocument(c)
  PROVE  DocumentInv'
<1> DEFINE d == [pc |-> "document", rows |-> {}, keys |-> {PdfKey} \union UNION {KeysOf(j) : j \in Jobs}]
<1>1. /\ deletion' = [deletion EXCEPT ![c] = d]
      /\ doc' = doc /\ jobs' = jobs /\ tasks' = tasks /\ profile' = profile /\ store' = store
      /\ worker' = worker /\ closing' = closing
  BY DEF BeginDeleteDocument
<1>2. Jobs' = Jobs
  BY <1>1 DEF Jobs
<1>3. \A k \in d.keys : k \in ObjectKeys /\ (k = PdfKey \/ k.job \in Jobs)
  <2> SUFFICES ASSUME NEW k \in UNION {KeysOf(j) : j \in Jobs}
               PROVE  k \in ObjectKeys /\ k.job \in Jobs
    BY DEF ObjectKeys
  <2>1. PICK j \in Jobs : k \in KeysOf(j)
    OBVIOUS
  <2>2. k \in [job : {j}, part : Parts] /\ k \in ObjectKeys
    BY <2>1, StillTypes, KeyTypes
  <2> QED BY <2>2
<1>4. /\ d.pc = "document"
      /\ d \in [pc : {"read", "document", "committed"}, keys : SUBSET ObjectKeys, rows : SUBSET Jobs]
  BY <1>3
<1> HIDE DEF d
<1>5. deletion'[c] = d => DeletionFits(c)'
  BY <1>2, <1>3, <1>4 DEF DeletionFits, ObjectKeys, PdfKey, Parts
<1>6. ObjectsStay /\ (HasDoc => Pdf \in store) /\ store' \subseteq Object
  BY <1>1, StoreSame
<1> QED BY <1>1, <1>5, <1>6, DeletionKeeps

LEMMA GiveUpKeeps ==
  ASSUME DocumentInv, NEW c \in Clients, GiveUp(c)
  PROVE  DocumentInv'
<1>1. /\ deletion' = [deletion EXCEPT ![c] = None]
      /\ doc' = doc /\ jobs' = jobs /\ tasks' = tasks /\ profile' = profile /\ store' = store
      /\ worker' = worker /\ closing' = closing
  BY DEF GiveUp
<1>2. ObjectsStay /\ (HasDoc => Pdf \in store) /\ store' \subseteq Object
  BY <1>1, StoreSame
<1>3. deletion'[c] = None => DeletionFits(c)'
  BY DEF DeletionFits
<1> QED BY <1>1, <1>2, <1>3, DeletionKeeps

(* What is removed belongs to no row that exists.                          *)
LEMMA RemoveKeeps ==
  ASSUME DocumentInv, NEW c \in Clients, RemoveObjects(c)
  PROVE  DocumentInv'
<1>1. /\ deletion[c] # None /\ deletion[c].pc = "committed"
      /\ deletion' = [deletion EXCEPT ![c] = None]
      /\ doc' = doc /\ jobs' = jobs /\ tasks' = tasks /\ profile' = profile
      /\ worker' = worker /\ closing' = closing
  BY DEF RemoveObjects, Removes
<1>2. PICK failed : store' = {o \in store : o.key \notin deletion[c].keys \ failed}
  BY DEF RemoveObjects
<1>3. \A k \in deletion[c].keys : KeyGone(k)
  BY <1>1, StillTypes DEF DeletionFits
<1>4. HasDoc /\ Pdf \in store => Pdf \in store'
  <2>1. Pdf.key = PdfKey
    BY DEF Pdf
  <2> QED BY <1>2, <1>3, <2>1 DEF KeyGone, HasDoc
<1>5. ASSUME NEW j \in Jobs, Exists(j), Stored(j) \subseteq store, NEW o \in Stored(j)
      PROVE  o \in store'
  <2>1. o.key \in [job : {j}, part : Parts]
    BY DEF Stored
  <2>2. o.key.job = j /\ o.key # PdfKey
    BY <2>1, KeyTypes, StillTypes
  <2>3. ~KeyGone(o.key)
    BY <1>5, <2>2 DEF KeyGone
  <2> QED BY <1>2, <1>3, <1>5, <2>3
<1>6. ObjectsStay
  BY <1>1, <1>4, <1>5 DEF ObjectsStay, HasDoc, Exists
<1>7. (HasDoc => Pdf \in store') /\ store' \subseteq Object
  BY <1>2, <1>4 DEF DocumentInv, RowsHaveObjects, DocTypes
<1>8. deletion'[c] = None => DeletionFits(c)'
  BY DEF DeletionFits
<1> QED BY <1>1, <1>6, <1>7, <1>8, DeletionKeeps
-----------------------------------------------------------------------------
(* The steps of a task in progress.                                        *)

LEMMA LiveEnded ==
  /\ \A s \in Live : s \notin Ended
  /\ {"failed", "cancelled", "completed"} \subseteq Ended
  /\ {"queued", "processing", "cancelling"} \subseteq Live
  BY DEF Live, Ended

(* Its task moves, and its job with it if it waits for it.                 *)
LEMMA Moves ==
  ASSUME DocumentInv, NEW t \in Tasks, tasks[t].status \in Live, NEW s \in Live \union Ended,
         tasks' = [tasks EXCEPT ![t] = Moved(t, s)],
         jobs' = IF Settles(t) /\ s \in Ended THEN [jobs EXCEPT ![tasks[t].job].status = s] ELSE jobs
  PROVE  /\ TaskMoves(t, Moved(t, s)) /\ Moved(t, s).status = s
         /\ \A q \in Runners : Moved(t, s).owner # q
<1>1. /\ Moved(t, s) \in Task /\ Moved(t, s).job = tasks[t].job
      /\ Moved(t, s).status = s /\ Moved(t, s).owner = None
  BY MovedRow, StillTypes
<1> QED BY <1>1, DocumentAssumption DEF TaskMoves

LEMMA EndsKeeps ==
  ASSUME DocumentInv, NEW t \in Tasks, tasks[t].status \in Live,
         NEW status \in {"failed", "cancelled"}, NEW mine, EndsTask(t, status, mine),
         profile' = profile, store' = store, deletion' = deletion,
         worker' \in [Runners -> Worker],
         \A q \in Runners : worker'[q] = worker[q] \/ WorkerFits(q)'
  PROVE  DocumentInv'
<1>1. closing[t] = None /\ doc' = doc
  BY DEF EndsTask
<1>2. CASE Settles(t) /\ IsParse(tasks[t].job)
  <2>1. /\ closing' = [closing EXCEPT ![t] = [status |-> status, restores |-> Restored(tasks[t].job)]]
        /\ tasks' = tasks /\ jobs' = jobs
    BY <1>2 DEF EndsTask
  <2> QED BY <1>1, <1>2, <2>1, OpensKeeps
<1>3. CASE ~(Settles(t) /\ IsParse(tasks[t].job))
  <2>1. /\ tasks' = [tasks EXCEPT ![t] = Moved(t, status)]
        /\ jobs' = IF Settles(t) THEN [jobs EXCEPT ![tasks[t].job].status = status] ELSE jobs
        /\ closing' = closing
    BY <1>3 DEF EndsTask
  <2>2. status \in Ended /\ status # "completed"
    BY LiveEnded
  <2>3. /\ TaskMoves(t, Moved(t, status)) /\ Moved(t, status).status = status
        /\ \A q \in Runners : Moved(t, status).owner # q
    BY <2>1, <2>2, Moves
  <2> QED BY <1>1, <2>1, <2>2, <2>3, StillTypes, MoveKeeps DEF HasDoc
<1> QED BY <1>2, <1>3

LEMMA RequeuesKeeps ==
  ASSUME DocumentInv, NEW t \in Tasks, tasks[t].status \in Live, Requeues(t),
         profile' = profile, store' = store, deletion' = deletion,
         worker' \in [Runners -> Worker],
         \A q \in Runners : worker'[q] = worker[q] \/ WorkerFits(q)'
  PROVE  DocumentInv'
<1>1. /\ closing[t] = None /\ doc' = doc /\ jobs' = jobs /\ closing' = closing
      /\ tasks' = [tasks EXCEPT ![t] = Moved(t, "queued")]
  BY DEF Requeues
<1>2. "queued" \in Live /\ "queued" \notin Ended
  BY LiveEnded
<1>3. /\ TaskMoves(t, Moved(t, "queued")) /\ Moved(t, "queued").status = "queued"
      /\ \A q \in Runners : Moved(t, "queued").owner # q
  BY <1>1, <1>2, Moves
<1> QED BY <1>1, <1>3, StillTypes, MoveKeeps DEF HasDoc

LEMMA SettleKeeps ==
  ASSUME DocumentInv, NEW r \in Runners, Settle(r)
  PROVE  DocumentInv'
<1>1. /\ worker[r].pc # "idle" /\ Stops(r)
      /\ profile' = profile /\ store' = store /\ deletion' = deletion
  BY DEF Settle
<1>2. PICK t \in Tasks : t = worker[r].task
  BY <1>1, StillTypes DEF WorkerFits
<1>3. /\ worker' \in [Runners -> Worker]
      /\ \A q \in Runners : worker'[q] = worker[q] \/ WorkerFits(q)'
  BY <1>1, FreeFits
<1>4. \/ tasks[t].status = "cancelling" /\ EndsTask(t, "cancelled", {r})
      \/ tasks[t].status = "processing" /\ EndsTask(t, "failed", {r})
      \/ tasks[t].status = "processing" /\ Requeues(t)
  BY <1>2 DEF Settle, StatusOf
<1>5. tasks[t].status \in Live
  BY <1>4, LiveEnded
<1> QED BY <1>1, <1>3, <1>4, <1>5, EndsKeeps, RequeuesKeeps

LEMMA ReapKeeps ==
  ASSUME DocumentInv, NEW t \in Tasks, Reap(t)
  PROVE  DocumentInv'
<1>1. profile' = profile /\ store' = store /\ deletion' = deletion /\ worker' = worker
  BY DEF Reap
<1>2. \/ tasks[t].status = "cancelling" /\ EndsTask(t, "cancelled", {})
      \/ tasks[t].status = "processing" /\ EndsTask(t, "failed", {})
      \/ tasks[t].status = "processing" /\ Requeues(t)
  BY DEF Reap
<1>3. tasks[t].status \in Live
  BY <1>2, LiveEnded
<1> QED BY <1>1, <1>2, <1>3, EndsKeeps, RequeuesKeeps, StillTypes

LEMMA CancelKeeps ==
  ASSUME DocumentInv, NEW t \in Tasks, RequestCancel(t)
  PROVE  DocumentInv'
<1>1. profile' = profile /\ store' = store /\ deletion' = deletion /\ worker' = worker
  BY DEF RequestCancel
<1>2. CASE tasks[t].status = "queued" /\ EndsTask(t, "cancelled", {})
  BY <1>1, <1>2, EndsKeeps, LiveEnded, StillTypes
<1>3. CASE /\ tasks[t].status = "processing" /\ closing[t] = None
           /\ tasks' = [tasks EXCEPT ![t].status = "cancelling"]
           /\ UNCHANGED <<doc, jobs, closing>>
  <2>1. /\ doc' = doc /\ jobs' = jobs /\ closing' = closing /\ closing[t] = None
        /\ tasks[t].status = "processing"
    BY <1>3
  <2> DEFINE row == [tasks[t] EXCEPT !.status = "cancelling"]
  <2>2. tasks' = [tasks EXCEPT ![t] = row]
    BY <1>3
  <2>3. tasks[t] \in Task
    BY StillTypes, RowTypes
  <2>4. /\ row \in Task /\ row.job = tasks[t].job /\ row.status = "cancelling"
        /\ row.owner = tasks[t].owner
    BY <2>3 DEF Task, Live
  <2> HIDE DEF row
  <2>5. TaskMoves(t, row)
    BY <2>1, <2>2, <2>4, LiveEnded DEF TaskMoves
  <2> QED BY <1>1, <2>1, <2>4, <2>5, StillTypes, MoveKeeps DEF HasDoc
<1> QED BY <1>2, <1>3 DEF RequestCancel

LEMMA ClaimKeeps ==
  ASSUME DocumentInv, NEW r \in Runners, NEW t \in Tasks, Claim(r, t)
  PROVE  DocumentInv'
<1>1. /\ worker[r].pc = "idle" /\ tasks[t].status = "queued" /\ closing[t] = None
      /\ tasks' = [tasks EXCEPT ![t].status = "processing", ![t].owner = r]
      /\ worker' = [worker EXCEPT ![r] = [pc |-> "claimed", task |-> t, seen |-> "-"]]
      /\ doc' = doc /\ jobs' = jobs /\ profile' = profile /\ store' = store
      /\ closing' = closing /\ deletion' = deletion
  BY DEF Claim
<1> DEFINE row == [tasks[t] EXCEPT !.status = "processing", !.owner = r]
<1>2. tasks[t] \in Task /\ t \in 1..MaxTasks /\ tasks \in Seq(Task)
  BY StillTypes, RowTypes DEF DocTypes
<1>3. /\ row \in Task /\ row.job = tasks[t].job /\ row.status = "processing" /\ row.owner = r
  BY <1>2 DEF Task, Live
<1>4. tasks' = [tasks EXCEPT ![t] = row]
  BY <1>1, <1>2 DEF Tasks
<1> HIDE DEF row
<1>5. TaskMoves(t, row)
  BY <1>1, <1>3, <1>4, LiveEnded DEF TaskMoves
<1>6. t \in 0..MaxTasks
  BY <1>2, DocumentAssumption
<1>7. /\ worker' \in [Runners -> Worker] /\ worker'[r].pc = "claimed" /\ worker'[r].task = t
      /\ \A q \in Runners : q # r => worker'[q] = worker[q]
  BY <1>1, <1>6, StillTypes DEF Worker
<1>8. t \in Tasks'
  BY <1>5, MovedTables
<1>9. WorkerFits(r)'
  BY <1>7, <1>8 DEF WorkerFits
<1> QED BY <1>1, <1>3, <1>5, <1>7, <1>9, StillTypes, MoveKeeps DEF HasDoc

(* A completed attempt had its token: the job exists and waits for it.     *)
LEMMA CompleteKeeps ==
  ASSUME DocumentInv, NEW r \in Runners, Complete(r)
  PROVE  DocumentInv'
<1>1. /\ HasOutput(r) /\ Owns(r) /\ Stops(r)
      /\ doc' = [doc EXCEPT !.status = StatusAfter(r)]
      /\ profile' = profile /\ store' = store /\ closing' = closing /\ deletion' = deletion
  BY DEF Complete, Stops
<1>2. worker[r].pc \in {"started", "ready"}
  BY <1>1 DEF HasOutput
<1>3. PICK t \in Tasks : t = worker[r].task
  BY <1>2, StillTypes DEF WorkerFits
<1>4. PICK j \in Jobs : j = tasks[t].job /\ j = JobOf(r)
  BY <1>3, StillTypes DEF JobOf, DocLinks
<1>5. tasks[t].owner = r /\ closing[t] = None /\ tasks[t].status = "processing"
  BY <1>1, <1>3 DEF Owns, HasToken, StatusOf
<1>6. Exists(j) /\ jobs[j].task = t
  BY <1>2, <1>3, <1>4, <1>5, StillTypes DEF WorkerFits
<1>7. tasks[t].status \in Live /\ "completed" \in Ended
  BY <1>5, LiveEnded
<1>8. Settles(t)
  BY <1>4, <1>6, <1>7, LiveSettles
<1>9. /\ tasks' = [tasks EXCEPT ![t] = Moved(t, "completed")]
      /\ jobs' = [jobs EXCEPT ![j].status = "completed"]
  BY <1>3, <1>4 DEF Complete
<1>10. /\ TaskMoves(t, Moved(t, "completed")) /\ Moved(t, "completed").status = "completed"
       /\ \A q \in Runners : Moved(t, "completed").owner # q
  BY <1>4, <1>7, <1>8, <1>9, Moves
<1>11. HasDoc
  BY <1>6, StillTypes DEF DocLinks
<1>12. StatusAfter(r) \in {"uploaded", "parsing", "parsed", "cleaning"}
  BY <1>11, StillTypes DEF StatusAfter, HasDoc, Doc
<1>13. doc' \in Doc /\ HasDoc' /\ doc'.merged = doc.merged
  BY <1>1, <1>12, StillTypes DEF Doc, HasDoc
<1>14. IsParse(j) => Stored(j) \subseteq store
  <2> SUFFICES ASSUME IsParse(j) PROVE Stored(j) \subseteq store
    OBVIOUS
  <2>1. worker[r].pc = "ready"
    BY <1>1, <1>4 DEF HasOutput
  <2> QED BY <1>3, <1>4, <1>6, <2>1, StillTypes DEF WorkerFits
<1>15. doc.status # "deleted"
  BY <1>11 DEF HasDoc
<1>16. /\ worker' \in [Runners -> Worker]
       /\ \A q \in Runners : worker'[q] = worker[q] \/ WorkerFits(q)'
  BY <1>1, FreeFits
<1>17. IsParse(tasks[t].job) => Stored(tasks[t].job) \subseteq store
  BY <1>4, <1>14
<1>18. closing' = closing /\ closing'[t] = None /\ profile' = profile /\ store' = store /\ deletion' = deletion
  BY <1>1, <1>5
<1> QED BY <1>10, <1>11, <1>13, <1>15, <1>16, <1>17, <1>18, MoveKeeps

LEMMA CommitKeeps ==
  ASSUME DocumentInv, NEW t \in Tasks, CommitEnd(t)
  PROVE  DocumentInv'
<1>1. PICK c : c = closing[t]
  OBVIOUS
<1>2. /\ c # None
      /\ tasks' = [tasks EXCEPT ![t] = Moved(t, c.status)]
      /\ jobs' = [jobs EXCEPT ![tasks[t].job].status = c.status]
      /\ doc' = IF c.restores # None /\ doc.status = "parsing"
                THEN [doc EXCEPT !.status = c.restores] ELSE doc
      /\ closing' = [closing EXCEPT ![t] = None]
      /\ profile' = profile /\ store' = store /\ worker' = worker /\ deletion' = deletion
  BY <1>1 DEF CommitEnd
<1>3. t \in 1..MaxTasks
  BY StillTypes, RowTypes
<1>4. c \in [status : {"failed", "cancelled"}, restores : {"parsed", "uploaded", None}]
  BY <1>1, <1>2, <1>3, StillTypes DEF Closings
<1>5. jobs[tasks[t].job].task = t /\ jobs[tasks[t].job].status = "queued" /\ tasks[t].job \in Jobs
  BY <1>1, <1>2, <1>3, StillTypes DEF ClosingFits, DocLinks
<1>6. Settles(t) /\ Exists(tasks[t].job)
  BY <1>5 DEF Settles, Exists
<1>7. tasks[t].status \in Live
  BY <1>5, <1>6 DEF DocumentInv, JobFollowsTask
<1>8. c.status \in Ended /\ c.status # "completed"
  BY <1>4, LiveEnded
<1>9. /\ TaskMoves(t, Moved(t, c.status)) /\ Moved(t, c.status).status = c.status
      /\ \A q \in Runners : Moved(t, c.status).owner # q
  BY <1>2, <1>6, <1>7, <1>8, Moves
<1>10. HasDoc
  BY <1>5, <1>6, StillTypes DEF DocLinks
<1>11. doc' \in Doc /\ HasDoc' /\ doc'.merged = doc.merged
  <2>1. CASE c.restores # None /\ doc.status = "parsing"
    BY <1>2, <1>4, <2>1, StillTypes DEF Doc, HasDoc
  <2>2. CASE ~(c.restores # None /\ doc.status = "parsing")
    BY <1>2, <1>10, <2>2, StillTypes DEF HasDoc
  <2> QED BY <2>1, <2>2
<1>12. doc.status # "deleted"
  BY <1>10 DEF HasDoc
<1>13. closing'[t] = None
  BY <1>2, <1>3, StillTypes
<1> QED BY <1>2, <1>8, <1>9, <1>10, <1>11, <1>12, <1>13, StillTypes, MoveKeeps
-----------------------------------------------------------------------------
(* A job is added with its task, or a failed one gets a new task.          *)

LEMMA Appended ==
  ASSUME NEW S, NEW s \in Seq(S), NEW e \in S
  PROVE  /\ Append(s, e) \in Seq(S) /\ Len(Append(s, e)) = Len(s) + 1 /\ Len(s) \in Nat
         /\ Append(s, e)[Len(s) + 1] = e
         /\ \A i \in 1..Len(s) : Append(s, e)[i] = s[i]
  OBVIOUS

LEMMA TaskAdded ==
  ASSUME DocTypes, Len(tasks) < MaxTasks, NEW j \in 1..MaxJobs,
         tasks' = Append(tasks, [job |-> j, status |-> "queued", owner |-> None])
  PROVE  /\ tasks' \in Seq(Task) /\ Len(tasks') = Len(tasks) + 1 /\ Len(tasks') <= MaxTasks
         /\ Tasks' = Tasks \union {Len(tasks) + 1} /\ Len(tasks) + 1 \notin Tasks
         /\ Len(tasks) + 1 \in 1..MaxTasks
         /\ tasks'[Len(tasks) + 1].job = j /\ tasks'[Len(tasks) + 1].status = "queued"
         /\ tasks'[Len(tasks) + 1].owner = None
         /\ \A u \in Tasks : tasks'[u] = tasks[u]
<1> DEFINE row == [job |-> j, status |-> "queued", owner |-> None]
<1>1. row \in Task
  BY DEF Task, Live
<1>2. row.job = j /\ row.status = "queued" /\ row.owner = None
  OBVIOUS
<1>3. tasks \in Seq(Task) /\ MaxTasks \in Nat
  BY DocumentAssumption DEF DocTypes
<1> HIDE DEF row
<1>4. tasks' = Append(tasks, row)
  BY DEF row
<1>5. /\ tasks' \in Seq(Task) /\ Len(tasks') = Len(tasks) + 1 /\ Len(tasks) \in Nat
      /\ tasks'[Len(tasks) + 1] = row /\ \A u \in 1..Len(tasks) : tasks'[u] = tasks[u]
  BY <1>1, <1>3, <1>4, Appended
<1> QED BY <1>2, <1>3, <1>5 DEF Tasks

LEMMA JobAdded ==
  ASSUME DocTypes, NEW row \in Job, jobs' = Append(jobs, row), Len(jobs) < MaxJobs
  PROVE  /\ jobs' \in Seq(Job) /\ Len(jobs') = Len(jobs) + 1 /\ Len(jobs') <= MaxJobs
         /\ Jobs' = Jobs \union {Len(jobs) + 1} /\ Len(jobs) + 1 \notin Jobs
         /\ jobs'[Len(jobs) + 1] = row
         /\ \A i \in Jobs : jobs'[i] = jobs[i]
<1>1. jobs \in Seq(Job) /\ MaxJobs \in Nat
  BY DocumentAssumption DEF DocTypes
<1>2. /\ jobs' \in Seq(Job) /\ Len(jobs') = Len(jobs) + 1 /\ Len(jobs) \in Nat
      /\ jobs'[Len(jobs) + 1] = row /\ \A u \in 1..Len(jobs) : jobs'[u] = jobs[u]
  BY <1>1, Appended
<1> QED BY <1>1, <1>2 DEF Jobs

LEMMA AddKeeps ==
  ASSUME DocumentInv, NEW kind, NEW source, NEW snapshot, AddJob(kind, source, snapshot),
         \/ kind = "parse" /\ source = 0 /\ snapshot \in Profiles
         \/ kind = "clean" /\ source \in Jobs /\ jobs[source].status = "completed" /\ snapshot = None,
         HasDoc, HasDoc', doc' \in Doc, doc'.merged = doc.merged,
         profile' = profile, store' = store, worker' = worker, closing' = closing, deletion' = deletion
  PROVE  DocumentInv'
<1>1. PICK n \in Nat : n = Len(jobs) + 1
  BY StillTypes, RowTypes
<1>2. PICK m \in Nat : m = Len(tasks) + 1
  BY StillTypes, RowTypes
<1> DEFINE row == [kind |-> kind, source |-> source, profile |-> snapshot, status |-> "queued", task |-> m]
<1>3. /\ Len(jobs) < MaxJobs /\ Len(tasks) < MaxTasks
      /\ jobs' = Append(jobs, row)
      /\ tasks' = Append(tasks, [job |-> n, status |-> "queued", owner |-> None])
  BY <1>1, <1>2 DEF AddJob
<1>4. n \in 1..MaxJobs
  BY <1>1, <1>3, StillTypes, RowTypes, DocumentAssumption
<1>5. /\ tasks' \in Seq(Task) /\ Len(tasks') = Len(tasks) + 1 /\ Len(tasks') <= MaxTasks
      /\ Tasks' = Tasks \union {m} /\ m \notin Tasks /\ m \in 1..MaxTasks
      /\ tasks'[m].job = n /\ tasks'[m].status = "queued" /\ tasks'[m].owner = None
      /\ \A u \in Tasks : tasks'[u] = tasks[u]
  BY <1>2, <1>3, <1>4, StillTypes, TaskAdded
<1>6. row \in Job
  <2>1. CASE kind = "parse" /\ source = 0 /\ snapshot \in Profiles
    BY <1>5, <2>1 DEF Job
  <2>2. CASE kind = "clean" /\ source \in Jobs /\ snapshot = None
    <3>1. source \in 1..MaxJobs
      BY <2>2, StillTypes, RowTypes
    <3> QED BY <1>5, <2>2, <3>1 DEF Job
  <2> QED BY <2>1, <2>2
<1>7. row.kind = kind /\ row.source = source /\ row.status = "queued" /\ row.task = m
  OBVIOUS
<1> HIDE DEF row
<1>8. /\ jobs' \in Seq(Job) /\ Len(jobs') = Len(jobs) + 1 /\ Len(jobs') <= MaxJobs
      /\ Jobs' = Jobs \union {n} /\ n \notin Jobs /\ jobs'[n] = row
      /\ \A i \in Jobs : jobs'[i] = jobs[i]
  BY <1>1, <1>3, <1>6, StillTypes, JobAdded
<1>9. RowsKept
  BY <1>5, <1>8, StillTypes, RowTypes DEF RowsKept, SameJob
<1>10. DocTypes'
  BY <1>5, <1>8, StillTypes DEF DocTypes, Profiles, Object, ObjectKeys, PdfKey, Parts
<1>11. DocLinks
  BY DEF DocumentInv
<1>12. \A t \in Tasks : tasks[t].job # n
  BY <1>8, <1>11 DEF DocLinks
<1>13. DocLinks'
  <2>1. \A j \in Jobs' : jobs'[j].task \in Tasks' /\ tasks'[jobs'[j].task].job = j
    BY <1>5, <1>7, <1>8, <1>11 DEF DocLinks
  <2>2. \A j \in Jobs' : ~IsParse(j)' => jobs'[j].source \in Jobs'
    BY <1>7, <1>8, <1>11 DEF DocLinks, IsParse
  <2>3. \A j \in doc'.merged : j \in Jobs' /\ ~IsParse(j)' /\ jobs'[j].status = "completed"
    BY <1>8, <1>11 DEF DocLinks, IsParse
  <2>4. \A t \in Tasks' : tasks'[t].job \in Jobs'
    BY <1>5, <1>8, <1>11 DEF DocLinks
  <2>5. \A t \in Tasks' : tasks'[t].owner # None => tasks'[t].status \in {"processing", "cancelling"}
    BY <1>5, <1>11 DEF DocLinks
  <2> QED BY <2>1, <2>2, <2>3, <2>4, <2>5 DEF DocLinks
<1>14. RowsHaveObjects'
  <2>1. RowsHaveObjects /\ Pdf' = Pdf
    BY DEF DocumentInv, Pdf, PdfKey
  <2>2. ASSUME NEW j \in Jobs', IsParse(j)', jobs'[j].status = "completed"
        PROVE  Stored(j)' \subseteq store'
    <3>1. j \in Jobs /\ jobs[j].status = "completed"
      BY <1>7, <1>8, <2>2
    <3>2. IsParse(j) /\ Stored(j)' = Stored(j)
      BY <1>9, <2>2, <3>1, RowsKeptIn, StillTypes
    <3> QED BY <2>1, <3>1, <3>2 DEF RowsHaveObjects
  <2> QED BY <2>1, <2>2 DEF RowsHaveObjects
<1>15. JobFollowsTask'
  <2> SUFFICES ASSUME NEW j \in Jobs', Exists(j)'
               PROVE  /\ jobs'[j].status = "queued" <=> tasks'[jobs'[j].task].status \in Live
                      /\ jobs'[j].status \in Ended => tasks'[jobs'[j].task].status = jobs'[j].status
                      /\ \A u \in Tasks' \ {jobs'[j].task} : tasks'[u].job = j => tasks'[u].status = "failed"
    BY DEF JobFollowsTask, Live, Ended
  <2>1. CASE j = n
    <3>1. \A u \in Tasks' \ {m} : tasks'[u].job # n
      BY <1>5, <1>12
    <3> QED BY <1>5, <1>7, <1>8, <2>1, <3>1, LiveEnded
  <2>2. CASE j \in Jobs
    <3>1. Exists(j) /\ jobs'[j] = jobs[j] /\ jobs[j].task \in Tasks
      BY <1>8, <1>11, <2>2 DEF Exists, DocLinks
    <3>2. /\ jobs[j].status = "queued" <=> tasks[jobs[j].task].status \in Live
          /\ jobs[j].status \in Ended => tasks[jobs[j].task].status = jobs[j].status
          /\ \A u \in Tasks \ {jobs[j].task} : tasks[u].job = j => tasks[u].status = "failed"
      BY <2>2, <3>1 DEF DocumentInv, JobFollowsTask
    <3>3. \A u \in Tasks' : tasks'[u].job = j => u \in Tasks
      BY <1>5, <1>8, <2>2
    <3> QED BY <1>5, <3>1, <3>2, <3>3
  <2> QED BY <1>8, <2>1, <2>2
<1>16. CleanedFromCompleted'
  <2> SUFFICES ASSUME NEW j \in Jobs', ~IsParse(j)', Exists(j)'
               PROVE  jobs'[jobs'[j].source].status = "completed"
    BY DEF CleanedFromCompleted
  <2>1. CASE j = n
    BY <1>7, <1>8, <2>1 DEF IsParse
  <2>2. CASE j \in Jobs
    <3>1. ~IsParse(j) /\ Exists(j) /\ jobs'[j] = jobs[j]
      BY <1>8, <2>2 DEF IsParse, Exists
    <3>2. jobs[j].source \in Jobs /\ jobs[jobs[j].source].status = "completed"
      BY <2>2, <3>1 DEF DocumentInv, CleanedFromCompleted, DocLinks
    <3> QED BY <1>8, <3>1, <3>2
  <2> QED BY <1>8, <2>1, <2>2
<1>17. ObjectsStay
  BY StoreSame
<1>18. \A q \in Runners : WorkerFits(q)'
  <2> SUFFICES ASSUME NEW q \in Runners PROVE WorkerFits(q)'
    OBVIOUS
  <2>1. \A u \in Tasks :
          /\ tasks'[u].owner = q => tasks[u].owner = q
          /\ (Exists(tasks[u].job) /\ jobs[tasks[u].job].task = u) =>
               jobs'[tasks[u].job].status # "deleted" /\ jobs'[tasks[u].job].task = u
    BY <1>5, <1>8, <1>11 DEF DocLinks, Exists
  <2>2. worker'[q] = worker[q] /\ WorkerFits(q) /\ \A u \in Tasks : tasks[u].job \in Jobs
    BY <1>11, StillTypes DEF DocLinks
  <2> QED BY <1>9, <1>17, <2>1, <2>2, WorkerStays, StillTypes
<1>19. \A t \in 1..MaxTasks : ClosingFits(t)'
  <2> SUFFICES ASSUME NEW t \in 1..MaxTasks PROVE ClosingFits(t)'
    OBVIOUS
  <2>1. closing[t] # None => tasks[t].job \in Jobs
    BY <1>11, StillTypes DEF DocLinks, ClosingFits
  <2>2. \A u \in Tasks : tasks[u].job \in Jobs
    BY <1>11 DEF DocLinks
  <2> QED BY <1>8, <1>9, <2>1, <2>2, ClosingStays, StillTypes
<1>20. \A c \in Clients : DeletionFits(c)'
  <2>1. doc.status # "deleted"
    BY DEF HasDoc
  <2> QED BY <1>9, <2>1, DeletionStays, StillTypes
<1> QED BY <1>10, <1>13, <1>14, <1>15, <1>16, <1>18, <1>19, <1>20 DEF DocumentInv

LEMMA TriggersKeep ==
  ASSUME DocumentInv, TriggerParse \/ \E source \in Jobs : StartCleaning(source)
  PROVE  DocumentInv'
<1>1. CASE TriggerParse
  <2>1. /\ HasDoc /\ AddJob("parse", 0, Snapshot) /\ doc' = [doc EXCEPT !.status = "parsing"]
        /\ profile' = profile /\ store' = store /\ worker' = worker
        /\ closing' = closing /\ deletion' = deletion
    BY <1>1 DEF TriggerParse
  <2>2. Snapshot \in Profiles
    BY StillTypes DEF Snapshot
  <2>3. doc' \in Doc /\ doc'.merged = doc.merged /\ HasDoc'
    BY <2>1, StillTypes DEF Doc, HasDoc
  <2> QED BY <2>1, <2>2, <2>3, AddKeeps
<1>2. CASE \E source \in Jobs : StartCleaning(source)
  <2>1. PICK source \in Jobs : StartCleaning(source)
    BY <1>2
  <2>2. /\ HasDoc /\ AddJob("clean", source, None) /\ doc' = doc /\ jobs[source].status = "completed"
        /\ profile' = profile /\ store' = store /\ worker' = worker
        /\ closing' = closing /\ deletion' = deletion
    BY <2>1 DEF StartCleaning
  <2>3. doc' \in Doc /\ HasDoc'
    BY <2>2, StillTypes DEF HasDoc
  <2> QED BY <2>2, <2>3, AddKeeps
<1> QED BY <1>1, <1>2

LEMMA RetriedRow ==
  ASSUME NEW job \in Job, NEW m \in 1..MaxTasks
  PROVE  /\ [job EXCEPT !.status = "queued", !.task = m] \in Job
         /\ [job EXCEPT !.status = "queued", !.task = m].status = "queued"
         /\ [job EXCEPT !.status = "queued", !.task = m].task = m
         /\ [job EXCEPT !.status = "queued", !.task = m].kind = job.kind
         /\ [job EXCEPT !.status = "queued", !.task = m].source = job.source
         /\ [job EXCEPT !.status = "queued", !.task = m].profile = job.profile
<1>1. CASE job \in [kind : {"parse"}, source : {0}, profile : Profiles,
        status : Ended \union {"queued", "deleted"}, task : 1..MaxTasks]
  BY <1>1 DEF Job
<1>2. CASE job \in [kind : {"clean"}, source : 1..MaxJobs, profile : {None},
        status : Ended \union {"queued", "deleted"}, task : 1..MaxTasks]
  BY <1>2 DEF Job
<1> QED BY <1>1, <1>2 DEF Job

(* A retry takes over a failed job; nothing else can be about it.          *)
LEMMA RetryKeeps ==
  ASSUME DocumentInv, NEW t \in Tasks, Retry(t)
  PROVE  DocumentInv'
<1>1. PICK j \in Jobs : j = tasks[t].job
  BY StillTypes DEF DocLinks
<1>2. PICK m \in Nat : m = Len(tasks) + 1
  BY StillTypes, RowTypes
<1>3. /\ Len(tasks) < MaxTasks /\ tasks[t].status = "failed"
      /\ jobs[j].task = t /\ jobs[j].status = "failed"
      /\ tasks' = Append(tasks, [job |-> j, status |-> "queued", owner |-> None])
      /\ jobs' = [jobs EXCEPT ![j].status = "queued", ![j].task = m]
      /\ doc' = doc /\ profile' = profile /\ store' = store /\ worker' = worker
      /\ closing' = closing /\ deletion' = deletion
  BY <1>1, <1>2 DEF Retry, RetryOf
<1>4. jobs[j] \in Job /\ j \in 1..MaxJobs /\ jobs \in Seq(Job)
  BY StillTypes, RowTypes DEF DocTypes
<1>5. /\ tasks' \in Seq(Task) /\ Len(tasks') = Len(tasks) + 1 /\ Len(tasks') <= MaxTasks
      /\ Tasks' = Tasks \union {m} /\ m \notin Tasks /\ m \in 1..MaxTasks
      /\ tasks'[m].job = j /\ tasks'[m].status = "queued" /\ tasks'[m].owner = None
      /\ \A u \in Tasks : tasks'[u] = tasks[u]
  BY <1>2, <1>3, <1>4, StillTypes, TaskAdded
<1> DEFINE row == [jobs[j] EXCEPT !.status = "queued", !.task = m]
<1>6. /\ row \in Job /\ row.status = "queued" /\ row.task = m
      /\ row.kind = jobs[j].kind /\ row.source = jobs[j].source /\ row.profile = jobs[j].profile
  BY <1>4, <1>5, RetriedRow
<1>7. jobs' = [jobs EXCEPT ![j] = row]
  BY <1>3, <1>4 DEF Jobs
<1> HIDE DEF row
<1>8. /\ jobs' \in Seq(Job) /\ Len(jobs') = Len(jobs) /\ Jobs' = Jobs
      /\ \A i \in Jobs : jobs'[i] = IF i = j THEN row ELSE jobs[i]
  BY <1>6, <1>7, StillTypes, JobWritten
<1>9. RowsKept
  <2>1. Len(jobs) \in Nat /\ Len(tasks) \in Nat
    BY StillTypes, RowTypes
  <2>2. ASSUME NEW i \in Jobs
        PROVE  SameJob(jobs[i], jobs'[i])
    <3>1. jobs[j].status # "deleted"
      BY <1>3
    <3>2. CASE i = j
      BY <1>6, <1>8, <3>1, <3>2 DEF SameJob
    <3>3. CASE i # j
      BY <1>8, <3>3 DEF SameJob
    <3> QED BY <3>2, <3>3
  <2>3. \A u \in Tasks : tasks'[u].job = tasks[u].job
    BY <1>5
  <2>4. Len(jobs') = Len(jobs) /\ Len(tasks') = Len(tasks) + 1
    BY <1>5, <1>8
  <2> QED BY <2>1, <2>2, <2>3, <2>4 DEF RowsKept
<1>10. DocTypes'
  BY <1>3, <1>5, <1>8, StillTypes DEF DocTypes, Profiles, Object, ObjectKeys, PdfKey, Parts
<1>11. DocLinks
  BY DEF DocumentInv
<1>12. Exists(j)
  BY <1>3 DEF Exists
<1>13. DocLinks'
  <2>1. \A i \in Jobs' : jobs'[i].task \in Tasks' /\ tasks'[jobs'[i].task].job = i
    BY <1>5, <1>6, <1>8, <1>11 DEF DocLinks
  <2>2. \A i \in Jobs' : ~IsParse(i)' => jobs'[i].source \in Jobs'
    BY <1>6, <1>8, <1>11 DEF DocLinks, IsParse
  <2>3. \A i \in doc'.merged : i \in Jobs' /\ ~IsParse(i)' /\ jobs'[i].status = "completed"
    <3>1. doc' = doc /\ jobs[j].status # "completed"
      BY <1>3
    <3>2. \A i \in doc.merged : i \in Jobs /\ ~IsParse(i) /\ jobs'[i] = jobs[i] /\ jobs[i].status = "completed"
      BY <1>8, <1>11, <3>1 DEF DocLinks
    <3> QED BY <1>8, <3>1, <3>2 DEF IsParse
  <2>4. \A u \in Tasks' : tasks'[u].job \in Jobs'
    BY <1>5, <1>8, <1>11 DEF DocLinks
  <2>5. \A u \in Tasks' : tasks'[u].owner # None => tasks'[u].status \in {"processing", "cancelling"}
    BY <1>5, <1>11 DEF DocLinks
  <2>6. \A i \in Jobs' : Exists(i)' => HasDoc'
    BY <1>3, <1>8, <1>11, <1>12 DEF DocLinks, Exists, HasDoc
  <2> QED BY <2>1, <2>2, <2>3, <2>4, <2>5, <2>6 DEF DocLinks
<1>14. RowsHaveObjects'
  <2>1. RowsHaveObjects /\ Pdf' = Pdf /\ HasDoc' = HasDoc
    BY <1>3 DEF DocumentInv, Pdf, PdfKey, HasDoc
  <2>2. ASSUME NEW i \in Jobs', IsParse(i)', jobs'[i].status = "completed"
        PROVE  Stored(i)' \subseteq store'
    <3>1. i \in Jobs /\ jobs[i].status = "completed"
      BY <1>6, <1>8, <2>2
    <3>2. IsParse(i) /\ Stored(i)' = Stored(i)
      BY <1>9, <2>2, <3>1, RowsKeptIn, StillTypes
    <3> QED BY <1>3, <2>1, <3>1, <3>2 DEF RowsHaveObjects
  <2> QED BY <1>3, <2>1, <2>2 DEF RowsHaveObjects
<1>15. JobFollowsTask'
  <2> SUFFICES ASSUME NEW i \in Jobs, Exists(i)'
               PROVE  /\ jobs'[i].status = "queued" <=> tasks'[jobs'[i].task].status \in Live
                      /\ jobs'[i].status \in Ended => tasks'[jobs'[i].task].status = jobs'[i].status
                      /\ \A u \in Tasks' \ {jobs'[i].task} : tasks'[u].job = i => tasks'[u].status = "failed"
    BY <1>8 DEF JobFollowsTask, Live, Ended
  <2>1. Exists(i) /\ jobs[i].task \in Tasks
    BY <1>8, <1>11, <1>12 DEF Exists, DocLinks
  <2>2. /\ jobs[i].status = "queued" <=> tasks[jobs[i].task].status \in Live
        /\ jobs[i].status \in Ended => tasks[jobs[i].task].status = jobs[i].status
        /\ \A u \in Tasks \ {jobs[i].task} : tasks[u].job = i => tasks[u].status = "failed"
    BY <2>1 DEF DocumentInv, JobFollowsTask
  <2>3. CASE i = j
    <3>1. \A u \in Tasks : tasks[u].job = j => tasks[u].status = "failed"
      BY <1>3, <2>2, <2>3
    <3> QED BY <1>5, <1>6, <1>8, <2>3, <3>1, LiveEnded
  <2>4. CASE i # j
    <3>1. \A u \in Tasks' : tasks'[u].job = i => u \in Tasks
      BY <1>5, <2>4
    <3> QED BY <1>5, <1>8, <2>1, <2>2, <2>4, <3>1
  <2> QED BY <2>3, <2>4
<1>16. CleanedFromCompleted'
  <2> SUFFICES ASSUME NEW i \in Jobs, ~IsParse(i), Exists(i)
               PROVE  jobs'[jobs'[i].source].status = "completed"
    BY <1>8, <1>9, RowsKeptIn, StillTypes DEF CleanedFromCompleted
  <2>1. jobs[i].source \in Jobs /\ jobs[jobs[i].source].status = "completed"
    BY DEF DocumentInv, CleanedFromCompleted, DocLinks
  <2>2. jobs'[i].source = jobs[i].source
    BY <1>6, <1>8
  <2> QED BY <1>3, <1>8, <2>1, <2>2
<1>17. ObjectsStay
  BY <1>3, StoreSame
<1>18. \A q \in Runners : WorkerFits(q)'
  <2> SUFFICES ASSUME NEW q \in Runners PROVE WorkerFits(q)'
    OBVIOUS
  <2>1. ASSUME NEW u \in Tasks, tasks'[u].owner = q
        PROVE  /\ tasks[u].owner = q
               /\ (Exists(tasks[u].job) /\ jobs[tasks[u].job].task = u) =>
                    jobs'[tasks[u].job].status # "deleted" /\ jobs'[tasks[u].job].task = u
    <3>1. tasks[u].owner = q
      BY <1>5, <2>1
    <3>2. tasks[u].status # "failed"
      BY <1>11, <3>1, DocumentAssumption DEF DocLinks
    <3>3. jobs[tasks[u].job].task = u => tasks[u].job # j
      BY <1>3, <3>2
    <3> QED BY <1>8, <1>11, <3>1, <3>3 DEF DocLinks, Exists
  <2>2. worker'[q] = worker[q] /\ WorkerFits(q) /\ \A u \in Tasks : tasks[u].job \in Jobs
    BY <1>3, <1>11, StillTypes DEF DocLinks
  <2> QED BY <1>9, <1>17, <2>1, <2>2, WorkerStays, StillTypes
<1>19. \A u \in 1..MaxTasks : ClosingFits(u)'
  <2> SUFFICES ASSUME NEW u \in 1..MaxTasks PROVE ClosingFits(u)'
    OBVIOUS
  <2>1. closing[u] # None => tasks[u].job \in Jobs /\ tasks[u].job # j
    BY <1>3, <1>11, StillTypes DEF DocLinks, ClosingFits
  <2>2. \A v \in Tasks : tasks[v].job \in Jobs
    BY <1>11 DEF DocLinks
  <2> QED BY <1>3, <1>8, <1>9, <2>1, <2>2, ClosingStays, StillTypes
<1>20. \A c \in Clients : DeletionFits(c)'
  BY <1>3, <1>9, DeletionStays, StillTypes
<1> QED BY <1>10, <1>13, <1>14, <1>15, <1>16, <1>18, <1>19, <1>20 DEF DocumentInv
-----------------------------------------------------------------------------
(* Rows are deleted that nobody has locked, and all that refer to them.    *)
LEMMA DeletedRow ==
  ASSUME NEW job \in Job
  PROVE  /\ [job EXCEPT !.status = "deleted"] \in Job /\ [job EXCEPT !.status = "deleted"].status = "deleted"
         /\ [job EXCEPT !.status = "deleted"].kind = job.kind
         /\ [job EXCEPT !.status = "deleted"].source = job.source
         /\ [job EXCEPT !.status = "deleted"].profile = job.profile
         /\ [job EXCEPT !.status = "deleted"].task = job.task
  BY JobRow

LEMMA WithoutTable ==
  ASSUME DocTypes, NEW rows, jobs' = Without(rows)
  PROVE  /\ jobs' \in Seq(Job) /\ Len(jobs') = Len(jobs) /\ Jobs' = Jobs
         /\ \A j \in Jobs :
              /\ jobs'[j].kind = jobs[j].kind /\ jobs'[j].source = jobs[j].source
              /\ jobs'[j].profile = jobs[j].profile /\ jobs'[j].task = jobs[j].task
              /\ jobs'[j].status = IF j \in rows THEN "deleted" ELSE jobs[j].status
<1>1. Len(jobs) \in Nat /\ \A j \in Jobs : jobs[j] \in Job
  BY RowTypes
<1>2. \A j \in Jobs : jobs'[j] = IF j \in rows THEN [jobs[j] EXCEPT !.status = "deleted"] ELSE jobs[j]
  BY DEF Without
<1>3. \A j \in Jobs : jobs'[j] \in Job
  BY <1>1, <1>2, DeletedRow
<1>4. jobs' \in [1..Len(jobs) -> Job]
  <2>1. DOMAIN jobs' = 1..Len(jobs) /\ jobs' = [j \in 1..Len(jobs) |-> jobs'[j]]
    BY DEF Without, Jobs
  <2> QED BY <1>3, <2>1 DEF Jobs
<1>5. jobs' \in Seq(Job) /\ Len(jobs') = Len(jobs)
  BY <1>1, <1>4
<1>6. ASSUME NEW j \in Jobs
      PROVE  /\ jobs'[j].kind = jobs[j].kind /\ jobs'[j].source = jobs[j].source
             /\ jobs'[j].profile = jobs[j].profile /\ jobs'[j].task = jobs[j].task
             /\ jobs'[j].status = IF j \in rows THEN "deleted" ELSE jobs[j].status
  <2>1. CASE j \in rows
    <3>1. jobs[j] \in Job /\ jobs'[j] = [jobs[j] EXCEPT !.status = "deleted"]
      BY <1>1, <1>2, <2>1
    <3> QED BY <2>1, <3>1, DeletedRow
  <2>2. CASE j \notin rows
    BY <1>2, <2>2
  <2> QED BY <2>1, <2>2
<1> QED BY <1>5, <1>6 DEF Jobs

LEMMA WithoutKept ==
  ASSUME DocTypes, NEW rows, jobs' = Without(rows), tasks' = tasks
  PROVE  RowsKept
<1>1. Len(jobs) \in Nat /\ Len(tasks) \in Nat /\ Len(jobs') = Len(jobs)
  BY RowTypes, WithoutTable
<1>2. \A j \in Jobs : SameJob(jobs[j], jobs'[j])
  BY WithoutTable DEF SameJob
<1> QED BY <1>1, <1>2 DEF RowsKept

LEMMA RowsDeleted ==
  ASSUME DocumentInv, NEW rows, rows \subseteq Jobs, jobs' = Without(rows),
         \A j \in rows : ~Locked(j), \A j \in rows : CleaningOf(j) \subseteq rows,
         doc' \in Doc, \A j \in doc'.merged : j \in doc.merged /\ j \notin rows,
         HasDoc' => HasDoc, HasDoc => HasDoc' \/ rows = Jobs, doc.status # "deleted",
         tasks' = tasks, profile' = profile, store' = store, worker' = worker, closing' = closing,
         NEW c \in Clients, NEW d, deletion' = [deletion EXCEPT ![c] = d],
         deletion'[c] = d => DeletionFits(c)'
  PROVE  DocumentInv'
<1>1. /\ jobs' \in Seq(Job) /\ Len(jobs') = Len(jobs) /\ Jobs' = Jobs
      /\ \A j \in Jobs :
           /\ jobs'[j].kind = jobs[j].kind /\ jobs'[j].source = jobs[j].source
           /\ jobs'[j].profile = jobs[j].profile /\ jobs'[j].task = jobs[j].task
           /\ jobs'[j].status = IF j \in rows THEN "deleted" ELSE jobs[j].status
  BY StillTypes, WithoutTable
<1>2. RowsKept
  BY StillTypes, WithoutKept
<1>3. Tasks' = Tasks /\ DocLinks
  BY DEF Tasks, DocumentInv
<1>4. DOMAIN deletion' = Clients /\ deletion'[c] = d /\ \A b \in Clients : b # c => deletion'[b] = deletion[b]
  BY StillTypes
<1>5. DocTypes'
  BY <1>1, <1>4, StillTypes DEF DocTypes, Profiles, Object, ObjectKeys, PdfKey, Parts
<1>6. \A j \in Jobs : IsParse(j)' = IsParse(j) /\ (Exists(j)' <=> Exists(j) /\ j \notin rows)
  BY <1>1 DEF IsParse, Exists
<1>7. DocLinks'
  <2>1. \A j \in Jobs : jobs'[j].task \in Tasks /\ tasks[jobs'[j].task].job = j
    BY <1>1, <1>3 DEF DocLinks
  <2>2. \A j \in Jobs : ~IsParse(j)' => jobs'[j].source \in Jobs
    BY <1>1, <1>3, <1>6 DEF DocLinks
  <2>3. \A j \in Jobs : Exists(j)' => HasDoc'
    BY <1>3, <1>6 DEF DocLinks
  <2>4. \A j \in doc'.merged : j \in Jobs /\ ~IsParse(j)' /\ jobs'[j].status = "completed"
    BY <1>1, <1>3, <1>6 DEF DocLinks
  <2>5. /\ \A t \in Tasks : tasks[t].job \in Jobs
        /\ \A t \in Tasks : tasks[t].owner # None => tasks[t].status \in {"processing", "cancelling"}
    BY <1>3 DEF DocLinks
  <2> QED BY <1>1, <1>3, <2>1, <2>2, <2>3, <2>4, <2>5 DEF DocLinks
<1>8. ObjectsStay
  BY StoreSame
<1>9. RowsHaveObjects'
  <2>1. RowsHaveObjects /\ Pdf' = Pdf
    BY DEF DocumentInv, Pdf, PdfKey
  <2>2. ASSUME NEW j \in Jobs, IsParse(j)', jobs'[j].status = "completed"
        PROVE  Stored(j)' \subseteq store'
    <3>1. jobs[j].status = "completed"
      BY <1>1, <2>2
    <3>2. IsParse(j) /\ Stored(j)' = Stored(j)
      BY <1>2, <2>2, RowsKeptIn, StillTypes
    <3> QED BY <2>1, <3>1, <3>2 DEF RowsHaveObjects
  <2> QED BY <1>1, <2>1, <2>2 DEF RowsHaveObjects
<1>10. JobFollowsTask'
  <2> SUFFICES ASSUME NEW j \in Jobs, Exists(j)'
               PROVE  /\ jobs'[j].status = "queued" <=> tasks[jobs'[j].task].status \in Live
                      /\ jobs'[j].status \in Ended => tasks[jobs'[j].task].status = jobs'[j].status
                      /\ \A u \in Tasks \ {jobs'[j].task} : tasks[u].job = j => tasks[u].status = "failed"
    BY <1>1, <1>3 DEF JobFollowsTask, Live, Ended
  <2>1. Exists(j) /\ jobs'[j].status = jobs[j].status /\ jobs'[j].task = jobs[j].task
    BY <1>1, <1>6
  <2> QED BY <2>1 DEF DocumentInv, JobFollowsTask
<1>11. CleanedFromCompleted'
  <2> SUFFICES ASSUME NEW j \in Jobs, ~IsParse(j)', Exists(j)'
               PROVE  jobs'[jobs'[j].source].status = "completed"
    BY <1>1 DEF CleanedFromCompleted
  <2>1. ~IsParse(j) /\ Exists(j) /\ j \notin rows /\ jobs'[j].source = jobs[j].source
    BY <1>1, <1>6
  <2>2. jobs[j].source \in Jobs /\ jobs[jobs[j].source].status = "completed"
    BY <2>1 DEF DocumentInv, CleanedFromCompleted, DocLinks
  <2>3. jobs[j].source \notin rows
    BY <2>1, <2>2 DEF CleaningOf
  <2> QED BY <1>1, <2>1, <2>2, <2>3
<1>12. \A q \in Runners : WorkerFits(q)'
  <2> SUFFICES ASSUME NEW q \in Runners PROVE WorkerFits(q)'
    OBVIOUS
  <2>1. ASSUME NEW u \in Tasks, worker[q].task = u, Executes(q)
        PROVE  (Exists(tasks[u].job) /\ jobs[tasks[u].job].task = u) =>
                 jobs'[tasks[u].job].status # "deleted" /\ jobs'[tasks[u].job].task = u
    <3>1. Locked(tasks[u].job)
      BY <2>1 DEF Locked, JobOf
    <3>2. tasks[u].job \in Jobs /\ tasks[u].job \notin rows
      BY <1>3, <3>1 DEF DocLinks
    <3> QED BY <1>1, <3>2 DEF Exists
  <2>2. WorkerFits(q) /\ \A u \in Tasks : tasks[u].job \in Jobs
    BY <1>3, StillTypes DEF DocLinks
  <2> QED BY <1>2, <1>8, <2>1, <2>2, WorkerStays, StillTypes
<1>13. \A t \in 1..MaxTasks : ClosingFits(t)'
  <2> SUFFICES ASSUME NEW t \in 1..MaxTasks PROVE ClosingFits(t)'
    OBVIOUS
  <2>1. ASSUME closing[t] # None
        PROVE  tasks[t].job \in Jobs /\ tasks[t].job \notin rows
    <3>1. t \in Tasks /\ tasks[t].job \in Jobs
      BY <1>3, <2>1, StillTypes DEF ClosingFits, DocLinks
    <3>2. Locked(tasks[t].job)
      BY <2>1, <3>1 DEF Locked
    <3> QED BY <3>1, <3>2
  <2>2. \A v \in Tasks : tasks[v].job \in Jobs
    BY <1>3 DEF DocLinks
  <2> QED BY <1>1, <1>2, <2>1, <2>2, ClosingStays, StillTypes
<1>14. \A b \in Clients : DeletionFits(b)'
  BY <1>2, <1>4, DeletionStays, StillTypes
<1> QED BY <1>5, <1>7, <1>9, <1>10, <1>11, <1>12, <1>13, <1>14 DEF DocumentInv

(* The keys that a deletion has read are of rows that are gone by then.    *)
LEMMA DeleteParseKeeps ==
  ASSUME DocumentInv, NEW c \in Clients, DeleteParseJob(c)
  PROVE  DocumentInv'
<1>1. PICK rows : rows = deletion[c].rows
  OBVIOUS
<1> DEFINE d == [deletion[c] EXCEPT !.pc = "committed", !.rows = {}]
<1>2. /\ deletion[c] # None /\ deletion[c].pc = "read" /\ HasDoc
      /\ \A j \in rows : ~Locked(j)
      /\ \A j \in rows : CleaningOf(j) \subseteq rows
      /\ rows \intersect doc.merged = {}
      /\ jobs' = Without(rows)
      /\ doc' = [doc EXCEPT !.status = StatusWithout(rows)]
      /\ tasks' = tasks /\ profile' = profile /\ store' = store /\ worker' = worker /\ closing' = closing
  BY <1>1 DEF DeleteParseJob, Deletable
<1>3. deletion' = [deletion EXCEPT ![c] = d]
  BY DEF DeleteParseJob
<1>4. /\ deletion[c] \in [pc : {"read", "document", "committed"}, keys : SUBSET ObjectKeys, rows : SUBSET Jobs]
      /\ \E j \in rows : deletion[c].keys \subseteq [job : {j}, part : Parts]
  BY <1>1, <1>2, StillTypes DEF DeletionFits
<1>5. rows \subseteq Jobs
  BY <1>1, <1>4
<1>6. PICK j \in rows : deletion[c].keys \subseteq [job : {j}, part : Parts]
  BY <1>4
<1>7. /\ d.pc = "committed" /\ d.keys = deletion[c].keys
      /\ d \in [pc : {"read", "document", "committed"}, keys : SUBSET ObjectKeys, rows : SUBSET Jobs]
  BY <1>4
<1> HIDE DEF d
<1>8. Jobs' = Jobs /\ ~Exists(j)'
  BY <1>2, <1>5, WithoutTable, StillTypes DEF Exists
<1>9. \A k \in d.keys : KeyGone(k)'
  <2> SUFFICES ASSUME NEW k \in d.keys PROVE KeyGone(k)'
    OBVIOUS
  <2>1. k \in [job : {j}, part : Parts]
    BY <1>6, <1>7
  <2>2. k.job = j /\ k # PdfKey
    BY <1>5, <2>1, KeyTypes, StillTypes
  <2> QED BY <1>5, <1>8, <2>2 DEF KeyGone, PdfKey
<1>10. deletion'[c] = d => DeletionFits(c)'
  BY <1>7, <1>8, <1>9 DEF DeletionFits, ObjectKeys, PdfKey, Parts
<1>11. doc' \in Doc /\ doc'.merged = doc.merged /\ HasDoc'
  BY <1>2, StillTypes DEF Doc, HasDoc, StatusWithout
<1>12. doc.status # "deleted" /\ \A k \in doc'.merged : k \in doc.merged /\ k \notin rows
  BY <1>2, <1>11 DEF HasDoc
<1> QED BY <1>2, <1>3, <1>5, <1>10, <1>11, <1>12, RowsDeleted

LEMMA DeleteDocumentKeeps ==
  ASSUME DocumentInv, NEW c \in Clients, DeleteDocument(c)
  PROVE  DocumentInv'
<1> DEFINE d == [deletion[c] EXCEPT !.pc = "committed"]
<1>1. /\ deletion[c] # None /\ deletion[c].pc = "document" /\ HasDoc
      /\ \A j \in Jobs : ~Locked(j)
      /\ jobs' = Without(Jobs)
      /\ doc' = [doc EXCEPT !.status = "deleted", !.merged = {}]
      /\ tasks' = tasks /\ profile' = profile /\ store' = store /\ worker' = worker /\ closing' = closing
  BY DEF DeleteDocument
<1>2. deletion' = [deletion EXCEPT ![c] = d]
  BY DEF DeleteDocument
<1>3. /\ deletion[c] \in [pc : {"read", "document", "committed"}, keys : SUBSET ObjectKeys, rows : SUBSET Jobs]
      /\ \A k \in deletion[c].keys : k = PdfKey \/ k.job \in Jobs
  BY <1>1, StillTypes DEF DeletionFits
<1>4. /\ d.pc = "committed" /\ d.keys = deletion[c].keys
      /\ d \in [pc : {"read", "document", "committed"}, keys : SUBSET ObjectKeys, rows : SUBSET Jobs]
  BY <1>3
<1> HIDE DEF d
<1>5. Jobs' = Jobs /\ \A j \in Jobs : ~Exists(j)'
  BY <1>1, WithoutTable, StillTypes DEF Exists
<1>6. doc' \in Doc /\ doc'.status = "deleted" /\ doc'.merged = {} /\ ~HasDoc'
  BY <1>1, StillTypes DEF Doc, HasDoc
<1>7. \A k \in d.keys : KeyGone(k)'
  BY <1>3, <1>4, <1>5, <1>6 DEF KeyGone, PdfKey
<1>8. deletion'[c] = d => DeletionFits(c)'
  BY <1>4, <1>5, <1>7 DEF DeletionFits, ObjectKeys, PdfKey, Parts
<1>9. \A j \in Jobs : CleaningOf(j) \subseteq Jobs
  BY DEF CleaningOf
<1>10. doc.status # "deleted"
  BY <1>1 DEF HasDoc
<1> QED BY <1>1, <1>2, <1>6, <1>8, <1>9, <1>10, RowsDeleted
-----------------------------------------------------------------------------

LEMMA DocumentInitInv == DocumentInit => DocumentInv
<1> SUFFICES ASSUME DocumentInit PROVE DocumentInv
  OBVIOUS
<1>1. /\ doc = [status |-> "absent", cited |-> FALSE, merged |-> {}]
      /\ jobs = <<>> /\ tasks = <<>> /\ profile = 1 /\ store = {}
      /\ worker = [r \in Runners |-> Free] /\ closing = [t \in 1..MaxTasks |-> None]
      /\ deletion = [c \in Clients |-> None]
  BY DEF DocumentInit
<1>2. Len(jobs) = 0 /\ Len(tasks) = 0 /\ Jobs = {} /\ Tasks = {}
  BY <1>1 DEF Jobs, Tasks
<1>3. doc \in Doc /\ ~HasDoc /\ doc.merged = {}
  BY <1>1 DEF Doc, HasDoc
<1>4. Free \in Worker /\ Free.pc = "idle"
  BY DocumentAssumption DEF Free, Worker
<1>5. profile \in Profiles
  BY <1>1, DocumentAssumption DEF Profiles
<1>6. jobs \in Seq(Job) /\ tasks \in Seq(Task) /\ Len(jobs) <= MaxJobs /\ Len(tasks) <= MaxTasks
  BY <1>1, <1>2, DocumentAssumption
<1>7. DocTypes
  BY <1>1, <1>3, <1>4, <1>5, <1>6 DEF DocTypes
<1>8. DocLinks
  BY <1>2, <1>3 DEF DocLinks
<1>9. RowsHaveObjects /\ JobFollowsTask /\ CleanedFromCompleted
  BY <1>2, <1>3 DEF RowsHaveObjects, JobFollowsTask, CleanedFromCompleted
<1>10. \A r \in Runners : WorkerFits(r)
  BY <1>1, <1>4 DEF WorkerFits
<1>11. \A t \in 1..MaxTasks : ClosingFits(t)
  BY <1>1 DEF ClosingFits
<1>12. \A c \in Clients : DeletionFits(c)
  BY <1>1 DEF DeletionFits
<1> QED BY <1>7, <1>8, <1>9, <1>10, <1>11, <1>12 DEF DocumentInv

LEMMA DocumentStep == DocumentInv /\ [DocumentNext]_documentVars => DocumentInv'
<1> SUFFICES ASSUME DocumentInv, [DocumentNext]_documentVars PROVE DocumentInv'
  OBVIOUS
<1>1. CASE UploadFile \/ InsertDocument \/ EditProfile \/ Cite
  BY <1>1, RequestsKeep
<1>2. CASE TriggerParse
  BY <1>2, TriggersKeep
<1>3. CASE \E j \in Jobs : StartCleaning(j) \/ Merge(j) \/ Arrives(j)
  BY <1>3, TriggersKeep, RequestsKeep, ArrivesKeeps
<1>4. ASSUME NEW r \in Runners, Work(r)
      PROVE  DocumentInv'
  BY <1>4, ClaimKeeps, StartKeeps, UploadKeeps, CompleteKeeps, SettleKeeps, LeavesKeeps DEF Work
<1>5. ASSUME NEW t \in Tasks, Reap(t) \/ RequestCancel(t) \/ Retry(t) \/ CommitEnd(t) \/ AbortEnd(t)
      PROVE  DocumentInv'
  BY <1>5, ReapKeeps, CancelKeeps, RetryKeeps, CommitKeeps, AbortKeeps
<1>6. ASSUME NEW c \in Clients, Deletion(c)
      PROVE  DocumentInv'
  BY <1>6, BeginDeleteKeeps, BeginDocumentKeeps, DeleteParseKeeps, DeleteDocumentKeeps,
     GiveUpKeeps, RemoveKeeps DEF Deletion
<1>7. CASE UNCHANGED documentVars
  <2>1. /\ doc' = doc /\ jobs' = jobs /\ tasks' = tasks /\ profile' = profile /\ store' = store
        /\ worker' = worker /\ closing' = closing /\ deletion' = deletion
    BY <1>7 DEF documentVars
  <2> QED BY <2>1, StoreSame, StillTypes, StillKeeps DEF HasDoc
<1> QED BY <1>1, <1>2, <1>3, <1>4, <1>5, <1>6, <1>7 DEF DocumentNext

LEMMA DocumentInvariant == DocumentSpec => []DocumentInv
  BY DocumentInitInv, DocumentStep, PTL DEF DocumentSpec

(* Every row has its type and names rows that there are, whatever requests,*)
(* attempts, retries, cancels and deletions run together.                  *)
THEOREM DocumentTypeHolds == DocumentSpec => []DocumentTypeOK
<1>1. ASSUME DocumentInv PROVE DocumentTypeOK
  <2>1. \A j \in doc.merged : j \in Jobs /\ ~IsParse(j) /\ jobs[j].status = "completed"
    BY <1>1 DEF DocumentInv, DocLinks
  <2>2. \A j \in Jobs : jobs[j].kind \in {"parse", "clean"}
    BY <1>1, RowTypes, JobTypes DEF DocumentInv
  <2>3. \A j \in doc.merged : jobs[j].kind = "clean" /\ jobs[j].status = "completed"
    BY <2>1, <2>2 DEF IsParse
  <2>4. \A j \in Jobs : jobs[j].task \in Tasks /\ tasks[jobs[j].task].job = j
    BY <1>1 DEF DocumentInv, DocLinks
  <2> QED BY <1>1, <2>3, <2>4 DEF DocumentInv, DocTypes, DocumentTypeOK
<1> QED BY <1>1, DocumentInvariant, PTL

(* routers/documents.py and workers/parse_worker.py: the file of a         *)
(* document and the results of a completed parse are in the store, made    *)
(* with the profile that was frozen when the parse was asked for.          *)
THEOREM RowsHaveObjectsHolds == DocumentSpec => []RowsHaveObjects
  BY DocumentInvariant, PTL DEF DocumentInv

(* workers/lifecycle.py: the compare-and-set of the terminal callback and  *)
(* of the retry keep a job and its task in agreement.                      *)
THEOREM JobFollowsTaskHolds == DocumentSpec => []JobFollowsTask
  BY DocumentInvariant, PTL DEF DocumentInv

(* A cleaning job that exists has the completed parse that it reads.       *)
THEOREM CleanedFromCompletedHolds == DocumentSpec => []CleanedFromCompleted
  BY DocumentInvariant, PTL DEF DocumentInv
=============================================================================
