-------------------------- MODULE SchemaMigrations --------------------------
(***************************************************************************)
(* What the database guarantees about approvals, compositions and exports  *)
(* by itself: the constraints and triggers that migrations t09, t10 and    *)
(* t11 create, under any writer, and the migrations up and down between    *)
(* writes, each one transaction with its stop conditions.                  *)
(*                                                                         *)
(* A writer is any release of the services, of the schema's age or older,  *)
(* or an operator with SQL: a transaction is one statement with any values,*)
(* which the database accepts or refuses. Where the order of two commits   *)
(* and of the statements in them may differ and a trigger reads without a  *)
(* lock, the state remembers it (beside). What the present services write  *)
(* is in Curation and ExportSeal. A step of several migrations is a        *)
(* sequence of these without a writer between them. NULL is 0 for a        *)
(* reference to a row and Null elsewhere; a hash stands for its content.   *)
(***************************************************************************)
EXTENDS Integers, Sequences, FiniteSets, SequencesExt

CONSTANTS Items, Containers, Exports,
          Contents,     \* contents of revisions
          Objects,      \* stored artifacts, with key, version and hash
          Null,
          MaxRevisions, \* bounds: rows written to each table
          MaxReviews, MaxSnapshots, MaxSeals

ASSUME SchemaAssumption ==
  /\ IsFiniteSet(Items)
  /\ Null \notin Containers \union Exports \union Contents \union Objects
  /\ {MaxRevisions, MaxReviews, MaxSnapshots, MaxSeals} \subseteq Nat

VARIABLES version,    \* 8 for t08 to 11 for t11
          items,      \* curated_items with their candidates
          revision,   \* rows of curated_revisions; the index is the id
          record,     \* rows of review_records about curated items
          containers, \* datasets and benchmarks
          member,     \* rows of dataset_items and benchmark_cases
          export, snapshot, seal

review  == <<items, revision, record>>
compose == <<containers, member>>
output  == <<export, snapshot, seal>>
schemaVars == <<version, review, compose, output>>

(* judged: candidates.review_status differs from 'pending'.                *)
ItemRow == [status : {"draft", "approved"}, candidate : Items,
            judged : BOOLEAN, approved : Nat, record : Nat]

RevisionRow == [item : Items, content : Contents, number : Nat]

(* of and content: what an approval was given to.                          *)
RecordRow == [item : Items, approves : BOOLEAN,
              of : Nat, content : Contents \union {Null}]

(* of, record and content: the approval pinned when the item was added.    *)
MemberRow == [container : Containers, item : Items,
              of : Nat, record : Nat, content : Contents \union {Null}]

(* final: the composition that finalized_sha256 stands for. beside: writes *)
(* of members were not committed yet when the container was finalized. The *)
(* guard of a membership has read its status without a lock by then, and   *)
(* the foreign key does not conflict with an UPDATE of the status.         *)
ContainerRow == [status : {"absent", "draft", "finalized"}, final : SUBSET MemberRow,
                 beside : BOOLEAN]

ExportRow == [status : {"absent", "old", "queued", "completed"}, legacy : BOOLEAN,
              source : Containers \union {Null}, snapshot : Nat, seal : Nat,
              object : Objects \union {Null}]

SnapshotRow == [export : Exports \union {Null}, legacy : BOOLEAN]

SealRow == [export : Exports, snapshot : Nat, object : Objects]

NoContainer == [status |-> "absent", final |-> {}, beside |-> FALSE]
NoExport == [status |-> "absent", legacy |-> FALSE, source |-> Null,
             snapshot |-> 0, seal |-> 0, object |-> Null]

SchemaInit ==
  /\ version = 8
  /\ items \in [Items -> [status : {"draft"}, candidate : Items,
                         judged : {FALSE}, approved : {0}, record : {0}]]
  /\ revision = <<>> /\ record = <<>>
  /\ containers = [c \in Containers |-> NoContainer] /\ member = {}
  /\ export = [e \in Exports |-> NoExport]
  /\ snapshot = <<>> /\ seal = <<>>
-----------------------------------------------------------------------------
(* Constraints, about the rows there are.                                  *)
Distinct(S, Key(_)) == \A x, y \in S : Key(x) = Key(y) => x = y

MembersOf(c) == {m \in member : m.container = c}

ItemChecks ==
  /\ LET Candidate(i) == items[i].candidate IN Distinct(Items, Candidate)
  /\ \A i \in Items :
       /\ items[i].approved \in {0} \union DOMAIN revision
       /\ items[i].record \in {0} \union DOMAIN record
       /\ items[i].status = "approved" => 0 \notin {items[i].approved, items[i].record}
       /\ items[i].status = "draft" => {items[i].approved, items[i].record} = {0}

RevisionChecks ==
  /\ \A k \in DOMAIN revision : revision[k].number >= 1
  /\ LET Numbered(k) == <<revision[k].item, revision[k].number>>
     IN Distinct(DOMAIN revision, Numbered)

RecordChecks ==
  \A k \in DOMAIN record :
    /\ record[k].of \in {0} \union DOMAIN revision
    /\ IF record[k].approves THEN record[k].of # 0 /\ record[k].content # Null
                             ELSE record[k].of = 0 /\ record[k].content = Null

CompositionChecks ==
  /\ \A m \in member : m.of \in DOMAIN revision /\ m.record \in DOMAIN record
  /\ LET Entry(m) == <<m.container, m.item>> IN Distinct(member, Entry)

SealChecks ==
  LET Object(k) == seal[k].object IN Distinct(DOMAIN seal, Object)

ExportChecks ==
  /\ \A e \in Exports :
       (export[e].status = "completed" /\ ~export[e].legacy) =>
         export[e].object # Null /\ export[e].seal \in DOMAIN seal
  /\ LET Sealed == {e \in Exports : export[e].seal # 0}
         Seal(e) == export[e].seal
     IN Distinct(Sealed, Seal)

SnapshotChecks ==
  /\ \A k \in DOMAIN snapshot : snapshot[k].export # Null
  /\ LET Owner(k) == snapshot[k].export IN Distinct(DOMAIN snapshot, Owner)
  /\ \A e \in Exports : export[e].status # "absent" => export[e].source # Null

(* References that the first schema has already.                           *)
References ==
  /\ \A m \in member : containers[m.container].status # "absent"
  /\ \A e \in Exports :
       /\ export[e].source # Null => containers[export[e].source].status # "absent"
       /\ export[e].snapshot \in {0} \union DOMAIN snapshot
       /\ export[e].status = "old" => export[e].snapshot # 0

Checks ==
  /\ References
  /\ version >= 9 => ItemChecks /\ RevisionChecks /\ RecordChecks
  /\ version >= 10 => CompositionChecks
  /\ version >= 11 => SealChecks /\ ExportChecks /\ SnapshotChecks
-----------------------------------------------------------------------------
(* Triggers: what a statement may do to rows that are there, and what must *)
(* hold of the rows it leaves.                                             *)
Bound(i) ==
  LET k == items[i].approved  r == record[items[i].record]
  IN revision[k].item = i /\ r = [item |-> i, approves |-> TRUE, of |-> k,
                                  content |-> revision[k].content]

ApprovalBinds ==
  \A i \in Items : (items'[i] # items[i] /\ items'[i].status = "approved") => Bound(i)'

RevisionsFrozen == IsPrefix(revision, revision')

(* Bug: a review can be corrected afterwards.                              *)
RecordsGrow == Len(record) <= Len(record')

RecordsFrozen == IsPrefix(record, record')

Pinned(m) ==
  /\ revision[m.of].item = m.item /\ revision[m.of].content = m.content
  /\ record[m.record].item = m.item /\ record[m.record].approves
  /\ record[m.record].of = m.of

(* Bug: the pinned approval is only required to be one of the item.        *)
MembershipApproved ==
  \A m \in member' \ member :
    record'[m.record].item = m.item /\ record'[m.record].approves

(* An UPDATE of the container column alone does not fire the trigger.      *)
Moved(m) == \E old \in member \ member' : m = [old EXCEPT !.container = m.container]

MembershipBinds == \A m \in member' \ member : Moved(m) \/ Pinned(m)'

FinalizedFrozen ==
  \A c \in Containers : containers[c].status = "finalized" =>
    containers'[c] \in {NoContainer, containers[c]}

(* What the guard of a membership may read of a container.                 *)
Open(c) == containers[c].status # "finalized" \/ containers[c].beside

(* COALESCE(NEW.container, OLD.container): an INSERT and an UPDATE are     *)
(* judged by the container of the row they leave, a DELETE by that of the  *)
(* row it takes, which is gone already when its container is deleted.      *)
MembershipGuarded ==
  LET left == member' \ member
      taken == member \ member'
  IN IF left # {} THEN \A m \in left : Open(m.container)
     ELSE \A m \in taken : Open(m.container) \/ containers'[m.container] = NoContainer

SnapshotsFrozen == IsPrefix(snapshot, snapshot')

(* Bug: seals may be corrected.                                            *)
SealsGrow == Len(seal) <= Len(seal')

SealsFrozen == IsPrefix(seal, seal')

SealBelongs ==
  \A k \in DOMAIN seal' \ DOMAIN seal :
    LET s == seal'[k]
    IN s.snapshot \in DOMAIN snapshot' /\ snapshot'[s.snapshot].export = s.export

Sealed(e) ==
  /\ seal[export[e].seal] = [export |-> e, snapshot |-> export[e].snapshot,
                             object |-> export[e].object]
  /\ Cardinality({k \in DOMAIN seal : seal[k].export = e}) = 1

Delivered(e) == export[e].status = "completed" /\ ~export[e].legacy

CompletedSealed ==
  \A e \in Exports : (export'[e] # export[e] /\ Delivered(e)') => Sealed(e)'

CompletedFrozen == \A e \in Exports : Delivered(e) => export'[e] = export[e]

Triggers ==
  /\ version >= 9 => RevisionsFrozen /\ RecordsFrozen /\ ApprovalBinds
  /\ version >= 10 => MembershipBinds /\ FinalizedFrozen /\ MembershipGuarded
  /\ version >= 11 => /\ SnapshotsFrozen /\ SealsFrozen /\ SealBelongs
                      /\ CompletedSealed /\ CompletedFrozen
-----------------------------------------------------------------------------
(* Statements. Columns a schema does not have yet are left at NULL.        *)
Ids(n) == IF version >= 9 THEN 0..n ELSE {0}

WriteRevision ==
  /\ \/ /\ Len(revision) < MaxRevisions
        /\ \E row \in [item : Items, content : Contents,
                       number : IF version >= 9 THEN 1..MaxRevisions ELSE {0}] :
             revision' = Append(revision, row)
     \/ \E k \in DOMAIN revision, c \in Contents :
          revision' = [revision EXCEPT ![k].content = c]
  /\ UNCHANGED <<items, record, compose, output>>

WriteRecord ==
  /\ \E row \in [item : Items, approves : BOOLEAN, of : Ids(Len(revision)),
                 content : IF version >= 9 THEN Contents \union {Null} ELSE {Null}] :
       \/ Len(record) < MaxReviews /\ record' = Append(record, row)
       \/ \E k \in DOMAIN record : record' = [record EXCEPT ![k] = row]
  /\ UNCHANGED <<items, revision, compose, output>>

WriteItem ==
  /\ \E i \in Items :
       \/ \E s \in {"draft", "approved"},
             k \in Ids(Len(revision)), r \in Ids(Len(record)) :
            items' = [items EXCEPT ![i].status = s, ![i].approved = k, ![i].record = r]
       \/ version = 8 /\ items' = [items EXCEPT ![i].judged = TRUE]
  /\ UNCHANGED <<revision, record, compose, output>>

WriteMember ==
  /\ \/ \E row \in [container : Containers, item : Items,
                    of : IF version >= 10 THEN DOMAIN revision ELSE {0},
                    record : IF version >= 10 THEN DOMAIN record ELSE {0},
                    content : IF version >= 10 THEN Contents ELSE {Null}] :
          \/ member' = member \union {row}
          \/ \E m \in member : member' = (member \ {m}) \union {row}
     \/ \E m \in member : member' = member \ {m}
  /\ UNCHANGED <<review, containers, output>>

(* A finalisation writes the hash of the composition as it stands; the     *)
(* members of a deleted container go with it.                              *)
WriteContainer ==
  /\ \E c \in Containers :
       \/ /\ containers[c].status = "absent"
          /\ containers' = [containers EXCEPT ![c].status = "draft"]
          /\ UNCHANGED member
       \/ /\ containers[c].status # "absent"
          /\ containers' = [containers EXCEPT ![c] = NoContainer]
          /\ member' = member \ MembersOf(c)
       \/ /\ containers[c].status # "absent"
          /\ containers' = [containers EXCEPT ![c].status = "draft"]
          /\ UNCHANGED member
       \/ /\ containers[c].status # "absent"
          /\ \E beside \in (IF version >= 10 THEN BOOLEAN ELSE {FALSE}) :
               containers' = [containers EXCEPT ![c] =
                 [status |-> "finalized", beside |-> beside,
                  final |-> IF version >= 10 THEN MembersOf(c) ELSE {}]]
          /\ UNCHANGED member
  /\ UNCHANGED <<review, output>>

InsertExport(e) ==
  /\ export[e].status = "absent"
  /\ IF version < 11
     THEN \E source \in Containers \union {Null}, k \in DOMAIN snapshot, o \in Objects :
            export' = [export EXCEPT ![e] = [NoExport EXCEPT
              !.status = "old", !.source = source, !.snapshot = k, !.object = o]]
     ELSE \E source \in Containers :
            export' = [export EXCEPT ![e] = [NoExport EXCEPT
              !.status = "queued", !.source = source]]

UpdateExport(e) ==
  /\ export[e].status \in {"queued", "completed"} /\ ~export[e].legacy
  /\ \E s \in {"queued", "completed"}, k \in 0..Len(snapshot), l \in 0..Len(seal),
        o \in Objects \union {Null} :
       export' = [export EXCEPT ![e] = [@ EXCEPT
         !.status = s, !.snapshot = k, !.seal = l, !.object = o]]

WriteExport == /\ \E e \in Exports : InsertExport(e) \/ UpdateExport(e)
               /\ UNCHANGED <<review, compose, snapshot, seal>>

WriteSnapshot ==
  /\ \E owner \in (IF version >= 11 THEN {e \in Exports : export[e].status # "absent"}
                                    ELSE {Null}) :
       \/ /\ Len(snapshot) < MaxSnapshots
          /\ snapshot' = Append(snapshot, [export |-> owner, legacy |-> FALSE])
       \/ \E k \in DOMAIN snapshot : snapshot' = [snapshot EXCEPT ![k].export = owner]
  /\ UNCHANGED <<review, compose, export, seal>>

WriteSeal ==
  /\ version >= 11
  /\ \E row \in [export : Exports, snapshot : DOMAIN snapshot, object : Objects] :
       \/ Len(seal) < MaxSeals /\ seal' = Append(seal, row)
       \/ \E k \in DOMAIN seal : seal' = [seal EXCEPT ![k] = row]
  /\ UNCHANGED <<review, compose, export, snapshot>>

Write == /\ \/ WriteRevision \/ WriteRecord \/ WriteItem
            \/ WriteMember \/ WriteContainer
            \/ WriteExport \/ WriteSnapshot \/ WriteSeal
         /\ UNCHANGED version
         /\ Checks' /\ Triggers
-----------------------------------------------------------------------------
(* t09. Judgements and duplicates stop it; old approvals become drafts and *)
(* every item gets a numbered revision.                                    *)
Unjudged == \A i \in Items : ~items[i].judged

Demoted == [i \in Items |-> [items[i] EXCEPT !.status = "draft"]]

Numbered == [k \in DOMAIN revision |-> [revision[k] EXCEPT
  !.number = Cardinality({j \in 1..k : revision[j].item = revision[k].item})]]

FirstRevisions(order, c) ==
  [k \in DOMAIN order |-> [item |-> order[k], content |-> c, number |-> 1]]

Upgrade09 ==
  LET Unrevised == {i \in Items : \A k \in DOMAIN revision : revision[k].item # i}
  IN /\ version = 8 /\ version' = 9
     /\ Unjudged
     /\ items' = Demoted
     /\ \E c \in Contents, order \in SetToSeqs(Unrevised) :
          revision' = Numbered \o FirstRevisions(order, c)
     /\ UNCHANGED <<record, compose, output>>

(* Bug: only the pointers of the items are looked at.                      *)
NoPointers == \A i \in Items : items[i].approved = 0 /\ items[i].record = 0

NothingApproved == /\ \A i \in Items : items[i].approved = 0 /\ items[i].record = 0
                   /\ \A k \in DOMAIN record : record[k].of = 0

Downgrade09 ==
  /\ version = 9 /\ version' = 8
  /\ NothingApproved
  /\ revision' = [k \in DOMAIN revision |-> [revision[k] EXCEPT !.number = 0]]
  /\ record' = [k \in DOMAIN record |-> [record[k] EXCEPT !.of = 0, !.content = Null]]
  /\ UNCHANGED <<items, compose, output>>

(* t10. The back-fill of the compositions reads plain rows by the name of  *)
(* the column, which SQLAlchemy 2 refuses: with any container there is,    *)
(* the migration ends with an error, whatever its audit found.             *)
NothingToBackfill == \A c \in Containers : containers[c].status = "absent"

Upgrade10 ==
  /\ version = 9 /\ version' = 10
  /\ NothingToBackfill
  /\ UNCHANGED <<review, compose, output>>

NothingComposed == /\ member = {}
                   /\ \A c \in Containers : containers[c].status # "finalized"

Downgrade10 == /\ version = 10 /\ version' = 9
               /\ NothingComposed
               /\ UNCHANGED <<review, compose, output>>

(* t11. Exports there are become legacy, without a seal; a snapshot gets   *)
(* one of the exports that point to it.                                    *)
Upgrade11 ==
  /\ version = 10 /\ version' = 11
  /\ export' = [e \in Exports |->
       IF export[e].status = "absent" THEN NoExport
       ELSE [export[e] EXCEPT !.status = "completed", !.legacy = TRUE]]
  /\ snapshot' \in [DOMAIN snapshot -> [export : Exports \union {Null}, legacy : {TRUE}]]
  /\ \A k \in DOMAIN snapshot :
       LET users == {e \in Exports : export[e].status = "old" /\ export[e].snapshot = k}
       IN snapshot'[k].export \in (IF users = {} THEN {Null} ELSE users)
  /\ UNCHANGED <<review, compose, seal>>

OnlyLegacy == /\ \A e \in Exports : export[e].status = "absent" \/ export[e].legacy
              /\ \A k \in DOMAIN snapshot : snapshot[k].legacy

Downgrade11 ==
  /\ version = 11 /\ version' = 10
  /\ OnlyLegacy
  /\ export' = [e \in Exports |->
       IF export[e].status = "absent" THEN NoExport
       ELSE [export[e] EXCEPT !.status = "old", !.legacy = FALSE, !.seal = 0]]
  /\ snapshot' = [k \in DOMAIN snapshot |-> [export |-> Null, legacy |-> FALSE]]
  /\ seal' = <<>>
  /\ UNCHANGED <<review, compose>>

(* A migration whose constraints the rows do not meet is rolled back.      *)
Migrate == /\ \/ Upgrade09 \/ Upgrade10 \/ Upgrade11
              \/ Downgrade09 \/ Downgrade10 \/ Downgrade11
           /\ Checks'

SchemaNext == Write \/ Migrate

SchemaSpec == SchemaInit /\ [][SchemaNext]_schemaVars
-----------------------------------------------------------------------------
(* Types, and a schema has no values in columns it does not have.          *)
SchemaTypeOK ==
  /\ version \in 8..11
  /\ items \in [Items -> ItemRow] /\ revision \in Seq(RevisionRow) /\ record \in Seq(RecordRow)
  /\ containers \in [Containers -> ContainerRow] /\ member \subseteq MemberRow
  /\ export \in [Exports -> ExportRow] /\ snapshot \in Seq(SnapshotRow) /\ seal \in Seq(SealRow)
  /\ version < 9 => /\ \A i \in Items : items[i].approved = 0 /\ items[i].record = 0
                    /\ \A k \in DOMAIN record : record[k].of = 0
  /\ version < 10 => /\ \A c \in Containers : containers[c].final = {}
                     /\ \A m \in member : m.of = 0
  /\ version < 11 => seal = <<>>

(* t09: from its migration on, an item is approved only by a record that   *)
(* approved this item in the revision the item points to, with the content *)
(* that revision has, whatever was written to the three tables, in which   *)
(* order, before and after. Only the item is looked at when it is written. *)
ApprovedIsBound ==
  version >= 9 => \A i \in Items : items[i].status = "approved" => Bound(i)

(* t10: every member, also long after its approval was withdrawn and       *)
(* whatever container it was moved to, carries a revision of its item and  *)
(* an approval given to exactly that; and a finalized container has no     *)
(* member it was not finalized with, unless one was being written beside   *)
(* the finalisation.                                                       *)
MembersPinned ==
  version >= 10 => /\ \A m \in member : Pinned(m)
                   /\ \A c \in Containers : Open(c) \/ MembersOf(c) \subseteq containers[c].final

(* t10:326: a finalized container is immutable. This does not hold, also   *)
(* with nothing written beside the finalisation: the guard does not look   *)
(* at the container a member is moved from (t10:364).                      *)
CompositionFrozen ==
  version >= 10 => \A c \in Containers : Open(c) \/ MembersOf(c) = containers[c].final

(* t11: an export is completed only with a seal for its snapshot and its   *)
(* object; exports older than the seals are marked as such.                *)
SealOf(e) == seal[export[e].seal]

CompletedIsSealed ==
  version = 11 => \A e \in Exports : Delivered(e) =>
    /\ SealOf(e).export = e /\ SealOf(e).object = export[e].object
    /\ snapshot[SealOf(e).snapshot].export = e

(* No writer and no migration, up or down, changes a review that is bound, *)
(* the revision it is bound to, the row of a finalized container while it  *)
(* is there, or a completed export with its seal; and none adds a member   *)
(* to a finalized container or rewrites one of its members, unless it was  *)
(* written beside the finalisation.                                        *)
FactsSurvive ==
  [][/\ \A k \in DOMAIN record : record[k].of # 0 =>
          /\ record'[k] = record[k]
          /\ revision'[record[k].of] = revision[record[k].of]
     /\ \A c \in Containers :
          (version >= 10 /\ containers[c].status = "finalized") =>
            /\ containers'[c] \in {NoContainer, containers[c]}
            /\ Open(c) \/ MembersOf(c)' \subseteq MembersOf(c)
     /\ \A e \in Exports : Delivered(e) => export'[e] = export[e] /\ SealOf(e)' = SealOf(e)
    ]_schemaVars
=============================================================================
