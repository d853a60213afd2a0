--------------------------- MODULE CleanVersions ---------------------------
(***************************************************************************)
(* The merged clean versions of one document and their final review:       *)
(* services/clean_version_service.py and the endpoints of                  *)
(* routers/documents.py that call it.                                      *)
(*                                                                         *)
(* A merge reads the sections without a lock, and then takes the Document  *)
(* row, compares, uploads the text and inserts the version. Rows are read  *)
(* READ COMMITTED. The text of a section is determined by its revision     *)
(* (RevisionChain of SectionEditing), so a merged text is the vector of    *)
(* the revisions it was made of. The sections of one cleaning job are      *)
(* modelled; their set does not change once the job has ended.             *)
(***************************************************************************)
EXTENDS Naturals, Sequences, FiniteSets, FiniteSetsExt

CONSTANTS Sections,    \* sections of the cleaning job
          Requests,    \* requests in progress at the same time
          NoRequest,
          Keys,        \* idempotency keys that clients send with a merge
          MaxRevision, \* bound: edits of one section
          MaxObjects   \* bound: objects stored or about to be

ASSUME VersionAssumption ==
  /\ IsFiniteSet(Sections) /\ Sections # {}
  /\ IsFiniteSet(Keys)
  /\ NoRequest \notin Requests
  /\ MaxRevision \in Nat /\ MaxObjects \in Nat

VARIABLES revision,    \* revision[s]: the committed content revision of a section
          versions,    \* committed version rows, by number
          active,      \* the number of the active version, 0 for none
          cleanStatus, \* Document.clean_status
          objects,     \* artifact keys in the object store
          locker,      \* the request whose transaction holds the Document row
          request      \* what each request was asked and has done so far

vars == <<revision, versions, active, cleanStatus, objects, locker, request>>

Decisions == {"accepted", "rejected"}
Artifacts == 1..MaxObjects

Revisions == [Sections -> 0..MaxRevision]
Version == [revisions : Revisions, artifact : Artifacts, key : Keys,
            status : {"review_pending"} \union Decisions]
CleanStatuses == {"not_started", "section_planned", "review_pending", "completed"}

(* plan holds what the request has read and still trusts.                  *)
Merging  == [pc : {"asked", "read", "compared", "uploaded"}, key : Keys,
             revisions : Revisions, artifact : Artifacts]
Judging  == [pc : {"judging"}, target : Nat, decision : Decisions,
             seen : {"review_pending"} \union Decisions]
Planning == [pc : {"assigning"}, seen : CleanStatuses]
Idle == [pc |-> "idle"]
RequestState == {Idle} \union Merging \union Judging \union Planning

Init == /\ revision = [s \in Sections |-> 0]
        /\ versions = <<>>
        /\ active = 0
        /\ cleanStatus = "not_started"
        /\ objects = {}
        /\ locker = NoRequest
        /\ request = [r \in Requests |-> Idle]
-----------------------------------------------------------------------------
Becomes(r, state) == request' = [request EXCEPT ![r] = state]

(* A request is answered, and whatever it held is forgotten. The kind of   *)
(* the answer is named for the reader.                                     *)
Answers == {"ok", "changed", "conflict", "stale", "error"}
Ends(r, answer) == answer \in Answers /\ Becomes(r, Idle)

At(r, pc) == request[r].pc = pc
Numbers == 1..Len(versions)
Accepted == {n \in Numbers : versions[n].status = "accepted"}

(* _find_by_idempotency. The key is unique within the document.            *)
WithKey(key) == {n \in Numbers : versions[n].key = key}

(* uuid4() returns an identifier that is in use nowhere.                   *)
InUse == objects \union {versions[n].artifact : n \in Numbers}
         \union {request[r].artifact : r \in {q \in Requests : request[q] \in Merging}}

(* Bug: the object is named after the next version number, as it once was. *)
ByNumber(free) == IF free = {} THEN 0 ELSE Len(versions) + 1

NewArtifact(free) == CHOOSE artifact \in free : TRUE

(* The Document row after r's transaction has ended.                       *)
Released(r) == IF locker = r THEN NoRequest ELSE locker

(* A save of a section (SectionEditing) locks its row, which waits for a   *)
(* merge that has locked the sections.                                     *)
SectionsLocked == \E r \in Requests : At(r, "compared") \/ At(r, "uploaded")

EditSection(s) ==
  /\ ~SectionsLocked /\ revision[s] < MaxRevision
  /\ revision' = [revision EXCEPT ![s] = @ + 1]
  /\ UNCHANGED <<versions, active, cleanStatus, objects, locker, request>>
-----------------------------------------------------------------------------
(* merge_clean_version: a known key is answered at once; otherwise the     *)
(* sections are read in one statement and the version UUID is drawn.       *)
AskMerge(r, key) ==
  /\ At(r, "idle")
  /\ IF WithKey(key) # {} THEN Ends(r, "ok")
     ELSE /\ Artifacts \ InUse # {}
          /\ Becomes(r, [pc |-> "asked", key |-> key, revisions |-> [s \in Sections |-> 0],
                         artifact |-> NewArtifact(Artifacts \ InUse)])
  /\ UNCHANGED <<revision, versions, active, cleanStatus, objects, locker>>

ReadSections(r) ==
  /\ At(r, "asked")
  /\ Becomes(r, [request[r] EXCEPT !.pc = "read", !.revisions = revision])
  /\ UNCHANGED <<revision, versions, active, cleanStatus, objects, locker>>

(* Bug: the sections are not compared again under the lock.                *)
NeverChanged(revisions) == revisions \in Revisions

Unchanged(revisions) == revisions = revision

LockedLookup(key) == WithKey(key)

(* The Document row is locked, the key looked up again, the sections       *)
(* locked and compared. A transaction that ends here releases the row.     *)
LockDocument(r) ==
  /\ At(r, "read") /\ locker = NoRequest
  /\ \/ /\ LockedLookup(request[r].key) # {}
        /\ Ends(r, "ok")
        /\ UNCHANGED locker
     \/ /\ LockedLookup(request[r].key) = {} /\ ~Unchanged(request[r].revisions)
        /\ Ends(r, "changed")
        /\ UNCHANGED locker
     \/ /\ LockedLookup(request[r].key) = {} /\ Unchanged(request[r].revisions)
        /\ Becomes(r, [request[r] EXCEPT !.pc = "compared"])
        /\ locker' = r
  /\ UNCHANGED <<revision, versions, active, cleanStatus, objects>>

Upload(r) ==
  /\ At(r, "compared")
  /\ objects' = objects \union {request[r].artifact}
  /\ Becomes(r, [request[r] EXCEPT !.pc = "uploaded"])
  /\ UNCHANGED <<revision, versions, active, cleanStatus, locker>>

(* The flush fails: the object is deleted, unless that fails too.          *)
FlushFails(r) ==
  /\ At(r, "uploaded")
  /\ objects' \in {objects, objects \ {request[r].artifact}}
  /\ locker' = Released(r)
  /\ Ends(r, "error")
  /\ UNCHANGED <<revision, versions, active, cleanStatus>>

(* MAX(version) + 1 under the lock; uq_cleaned_doc_ver_doc_idem.           *)
InsertVersion(r) ==
  /\ At(r, "uploaded") /\ WithKey(request[r].key) = {}
  /\ versions' = Append(versions, [revisions |-> request[r].revisions, status |-> "review_pending",
                                   artifact |-> request[r].artifact, key |-> request[r].key])
  /\ cleanStatus' = "review_pending"
  /\ locker' = Released(r)
  /\ Ends(r, "ok")
  /\ UNCHANGED <<revision, active, objects>>
-----------------------------------------------------------------------------
(* final_review_clean_version: the router's query puts a copy of the       *)
(* version into the session.                                               *)
AskReview(r, n, decision) ==
  /\ At(r, "idle") /\ n \in Numbers
  /\ Becomes(r, [pc |-> "judging", target |-> n, decision |-> decision,
                 seen |-> versions[n].status])
  /\ UNCHANGED <<revision, versions, active, cleanStatus, objects, locker>>

LockedStatus(judging) == versions[judging.target].status

(* Bug: the gate is missing.                                               *)
NeverOlder(n) == n = 0

OlderThanActive(n) == active # 0 /\ n < active

(* final_review: Document and version are locked, and the whole decision   *)
(* is taken and committed under these locks.                               *)
FinalReview(r) ==
  /\ At(r, "judging") /\ locker = NoRequest
  /\ LET n == request[r].target
         decision == request[r].decision
     IN \/ /\ LockedStatus(request[r]) # "review_pending"
           /\ Ends(r, "conflict")
           /\ UNCHANGED <<versions, active, cleanStatus>>
        \/ /\ LockedStatus(request[r]) = "review_pending"
           /\ decision = "accepted" /\ OlderThanActive(n)
           /\ Ends(r, "stale")
           /\ UNCHANGED <<versions, active, cleanStatus>>
        \/ /\ LockedStatus(request[r]) = "review_pending"
           /\ ~(decision = "accepted" /\ OlderThanActive(n))
           /\ versions' = [versions EXCEPT ![n].status = decision]
           /\ active' = IF decision = "accepted" THEN n ELSE active
           /\ cleanStatus' = IF decision = "accepted" THEN "completed" ELSE cleanStatus
           /\ Ends(r, "ok")
  /\ UNCHANGED <<revision, objects, locker>>
-----------------------------------------------------------------------------
(* bulk_assign_sections writes the status it concludes from the copy of    *)
(* the Document it read without a lock. What it does to the sections is in *)
(* SectionEditing.                                                         *)
AskAssign(r) ==
  /\ At(r, "idle")
  /\ Becomes(r, [pc |-> "assigning", seen |-> cleanStatus])
  /\ UNCHANGED <<revision, versions, active, cleanStatus, objects, locker>>

Assign(r) ==
  /\ At(r, "assigning")
  /\ IF request[r].seen = "not_started"
     THEN locker = NoRequest /\ cleanStatus' = "section_planned"
     ELSE UNCHANGED cleanStatus
  /\ Ends(r, "ok")
  /\ UNCHANGED <<revision, versions, active, objects, locker>>

(* The process that serves a request dies: its transaction is rolled back  *)
(* and what it uploaded stays.                                             *)
Crash(r) ==
  /\ ~At(r, "idle")
  /\ locker' = Released(r)
  /\ Becomes(r, Idle)
  /\ UNCHANGED <<revision, versions, active, cleanStatus, objects>>

Handle(r) ==
  \/ \E key \in Keys : AskMerge(r, key)
  \/ ReadSections(r) \/ LockDocument(r) \/ Upload(r) \/ InsertVersion(r) \/ FlushFails(r)
  \/ \E n \in Numbers, decision \in Decisions : AskReview(r, n, decision)
  \/ FinalReview(r) \/ AskAssign(r) \/ Assign(r) \/ Crash(r)

Next == (\E s \in Sections : EditSection(s)) \/ (\E r \in Requests : Handle(r))

Spec == Init /\ [][Next]_vars
-----------------------------------------------------------------------------
(* The variables have their types, and the transaction that holds the      *)
(* Document row is a merge between its comparison and its commit.          *)
TypeOK ==
  /\ revision \in Revisions
  /\ versions \in Seq(Version)
  /\ active \in 0..Len(versions)
  /\ cleanStatus \in CleanStatuses
  /\ objects \subseteq Artifacts
  /\ request \in [Requests -> RequestState]
  /\ \A r \in Requests : locker = r <=> (At(r, "compared") \/ At(r, "uploaded"))
  /\ locker \in Requests \union {NoRequest}

(* A version is published with the text its sections have at that very     *)
(* moment, although the text was put together before the lock was taken    *)
(* (create_merged_version).                                                *)
NewestMatchesSections ==
  Len(versions') > Len(versions) => versions'[Len(versions')].revisions = revision'
MergedFromCurrent == [][NewestMatchesSections]_vars

(* No merge stores a text for a key that already has a version: repeated   *)
(* requests are replayed and not uploaded again, and the unique key is     *)
(* never hit (create_merged_version, lock-protected lookup).               *)
NoRepeatedUpload == \A r \in Requests : At(r, "uploaded") => WithKey(request[r].key) = {}

(* The object a committed version points at exists and is its own, also    *)
(* when merges fail and clean up, or die (artifact_key).                   *)
EveryTextStored ==
  /\ \A n \in Numbers : versions[n].artifact \in objects
  /\ \A m, n \in Numbers : versions[m].artifact = versions[n].artifact => m = n

(* The active version is the newest accepted one, whatever the order in    *)
(* which versions are reviewed (final_review).                             *)
ActiveIsNewestAccepted == active = Max(Accepted \union {0})

(* A version row never changes but for one decision, which is final: of    *)
(* concurrent reviews of a version exactly one succeeds (final_review).    *)
KeepsVersion(n) ==
  LET old == versions[n]  new == versions'[n]
  IN new = old \/ (old.status = "review_pending" /\ new = [old EXCEPT !.status = new.status])
KeepsVersions == Len(versions') >= Len(versions) /\ \A n \in Numbers : KeepsVersion(n)
DecidedOnce == [][KeepsVersions]_vars

(* The active version implements the pointer that only advances.           *)
Pointer == INSTANCE ActivePointer WITH Last <- Cardinality(Keys), pointer <- active
ActiveAdvances == Pointer!PointerSpec
=============================================================================
