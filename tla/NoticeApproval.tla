--------------------------- MODULE NoticeApproval ---------------------------
(* Drafting, approving and exporting one contractual notice:                  *)
(* apps/web/src/server/services/notices.ts and the snapshot that starts its   *)
(* dispatch (notice-delivery.ts), with the triggers that make an approved     *)
(* revision immutable (the slice 6 migration).                                *)
(*                                                                            *)
(* A handler is one READ COMMITTED transaction.  What it read may be stale    *)
(* when it writes, so a handler whose write depends on a read is two or three *)
(* steps; one whose write is unconditional, or is protected by a unique       *)
(* index, is a single step.  The writes of a handler are one step: row locks  *)
(* are held to the commit and every handler locks revision before package.    *)
(*                                                                            *)
(* A draft's sections are one text.  The actor checks (capability, project,   *)
(* segregation of duties) refuse without a state change and are left out.     *)
EXTENDS Naturals, FiniteSets

CONSTANTS Handlers,          \* requests being served at the same time
          MaxRevisions,      \* bound: draft revisions of the notice
          MaxSnapshots,      \* bound: dispatch snapshots of the notice
          Texts,             \* what a draft may say
          Unfit,             \* the texts validateNoticeDraft refuses
          Formats,           \* export formats in use
          DispatchStatuses,  \* what the dispatch handlers write to the package
          None

Revisions == 1 .. MaxRevisions

PackageStatuses ==
  {"DRAFT", "EVIDENCE_INCOMPLETE", "READY_FOR_DRAFT", "DRAFTING", "IN_REVIEW",
   "CHANGES_REQUESTED", "APPROVED", "SUPERSEDED", "WITHDRAWN", "EXPORTED",
   "AUTHORIZATION_PENDING", "AUTHORIZED_FOR_DISPATCH", "DISPATCH_IN_PROGRESS", "DISPATCHED",
   "DELIVERY_PENDING", "DELIVERY_PARTIAL", "DELIVERY_CONFIRMED", "RECEIPT_UNCONFIRMED",
   "RECEIPT_CONFIRMED", "DELIVERY_FAILED", "ARCHIVED", "SENT"}
DISPATCH_PREP_STATUSES ==
  {"APPROVED", "EXPORTED", "AUTHORIZATION_PENDING", "AUTHORIZED_FOR_DISPATCH", "DISPATCHED",
   "DELIVERY_PENDING", "DELIVERY_PARTIAL", "DELIVERY_CONFIRMED", "RECEIPT_UNCONFIRMED",
   "RECEIPT_CONFIRMED", "DELIVERY_FAILED"}
RevisionStatuses ==
  {"DRAFT", "IN_REVIEW", "CHANGES_REQUESTED", "APPROVED", "SUPERSEDED", "WITHDRAWN"}
BundleFormats == {"ATTACHMENT_ZIP", "PDF", "DOCX", "JSON_MANIFEST", "PLAIN_TEXT"}
Ops == {"idle", "edit", "submit", "approve", "approve-checked", "export", "snapshot"}

ASSUME NoticeAssumption ==
  /\ MaxRevisions \in Nat /\ MaxSnapshots \in Nat
  /\ Unfit \subseteq Texts /\ None \notin Texts
  /\ Formats \subseteq BundleFormats
  /\ DispatchStatuses \subseteq PackageStatuses \ {"DRAFT"}

VARIABLES
  package,    \* notice_package.status
  active,     \* notice_package.activeApprovedRevisionId, 0 for null
  revision,   \* notice_draft_revision.status, "ABSENT" before it is generated
  text,       \* what its sections say
  bundle,     \* text of its newest export bundle in each format
  snapshots,  \* notice_dispatch_package_snapshot rows
  local,      \* what each handler has read so far
  validated,  \* history: the texts an approval looked at before it approved
  raced       \* history: two handlers have overlapped

vars == <<package, active, revision, text, bundle, snapshots, local, validated, raced>>

Maybe     == Texts \cup {None}
Local     == [op : Ops, revision : 0 .. MaxRevisions, active : 0 .. MaxRevisions,
              text : Maybe, bundle : Maybe]
Snapshots == [revision : Revisions, text : Texts, bundle : Texts]
Work(o, r, a, t, b) == [op |-> o, revision |-> r, active |-> a, text |-> t, bundle |-> b]
NoWork    == Work("idle", 0, 0, None, None)

TypeOK ==
  /\ package \in PackageStatuses
  /\ active \in 0 .. MaxRevisions
  /\ revision \in [Revisions -> RevisionStatuses \cup {"ABSENT"}]
  /\ text \in [Revisions -> Maybe]
  /\ bundle \in [Revisions -> [Formats -> Maybe]]
  /\ snapshots \subseteq Snapshots
  /\ local \in [Handlers -> Local]
  /\ validated \subseteq [revision : Revisions, text : Texts]
  /\ raced \in BOOLEAN

Init ==
  /\ package = "DRAFT" /\ active = 0
  /\ revision = [r \in Revisions |-> "ABSENT"]
  /\ text = [r \in Revisions |-> None]
  /\ bundle = [r \in Revisions |-> [f \in Formats |-> None]]
  /\ snapshots = {}
  /\ local = [h \in Handlers |-> NoWork]
  /\ validated = {} /\ raced = FALSE

-----------------------------------------------------------------------------
(* Handlers.                                                                  *)

Busy(h)   == local[h].op # "idle"
Exists(r) == revision[r] # "ABSENT"
Notes(h)  == raced' = (raced \/ \E g \in Handlers \ {h} : Busy(g))

(* A handler that has read and will write later. *)
Begin(h, seen) == ~Busy(h) /\ local' = [local EXCEPT ![h] = seen] /\ Notes(h)
Continue(h, op, seen) == local[h].op = op /\ local' = [local EXCEPT ![h] = seen] /\ UNCHANGED raced
Commit(h, op) == local[h].op = op /\ local' = [local EXCEPT ![h] = NoWork] /\ UNCHANGED raced

(* A handler that is one step. *)
Once(h) == ~Busy(h) /\ UNCHANGED local /\ Notes(h)

(* prevent_approved_notice_draft_mutation lets an APPROVED revision go to     *)
(* SUPERSEDED only and raises otherwise.                                      *)
SetRevision(r, status) ==
  /\ Exists(r) /\ (revision[r] = "APPROVED" => status = "SUPERSEDED")
  /\ revision' = [revision EXCEPT ![r] = status]

(* Any transaction may roll back: a conflict, a trigger, a lost connection. *)
Abort(h) ==
  /\ Busy(h) /\ local' = [local EXCEPT ![h] = NoWork]
  /\ UNCHANGED <<package, active, revision, text, bundle, snapshots, validated, raced>>

-----------------------------------------------------------------------------
(* Drafting.                                                                  *)

(* assessEvidenceCompletenessForPackage moves the package whatever its status. *)
Assess(h) ==
  /\ Once(h)
  /\ package' \in {"EVIDENCE_INCOMPLETE", "READY_FOR_DRAFT"}
  /\ UNCHANGED <<active, revision, text, bundle, snapshots, validated>>

(* generateDeterministicDraft and generateAiAssistedDraft: the next number is *)
(* max + 1, and the unique index rolls back whoever comes second.             *)
GenerateDraft(h) ==
  \E r \in Revisions, t \in Texts :
    /\ Once(h)
    /\ ~Exists(r) /\ \A q \in 1 .. r - 1 : Exists(q)
    /\ revision' = [revision EXCEPT ![r] = "DRAFT"]
    /\ text' = [text EXCEPT ![r] = t]
    /\ package' = "DRAFTING"
    /\ UNCHANGED <<active, bundle, snapshots, validated>>

(* Mutant: neither the check nor the trigger. *)
EditStartUnguarded(h) ==
  \E r \in Revisions, t \in Texts :
    /\ Begin(h, Work("edit", r, 0, t, None))
    /\ Exists(r)
    /\ \A g \in Handlers : ~(local[g].op = "edit" /\ local[g].revision = r)
    /\ UNCHANGED <<package, active, revision, text, bundle, snapshots, validated>>

(* editDraftSection: the status check and the section's trigger, which reads  *)
(* the revision's status without locking it; the row lock on the section      *)
(* keeps a second edit waiting until this one commits.                        *)
EditStart(h) ==
  \E r \in Revisions, t \in Texts :
    /\ Begin(h, Work("edit", r, 0, t, None))
    /\ Exists(r) /\ revision[r] # "APPROVED"
    /\ \A g \in Handlers : ~(local[g].op = "edit" /\ local[g].revision = r)
    /\ UNCHANGED <<package, active, revision, text, bundle, snapshots, validated>>

EditCommit(h) ==
  /\ Commit(h, "edit")
  /\ text' = [text EXCEPT ![local[h].revision] = local[h].text]
  /\ UNCHANGED <<package, active, revision, bundle, snapshots, validated>>

-----------------------------------------------------------------------------
(* Review.  The caller names the revision, or the newest one is taken.        *)

(* submitDraftForReview: status check and validation, then the writes. *)
SubmitRead(h) ==
  \E r \in Revisions :
    /\ Begin(h, Work("submit", r, 0, None, None))
    /\ Exists(r) /\ revision[r] # "APPROVED" /\ text[r] \notin Unfit
    /\ UNCHANGED <<package, active, revision, text, bundle, snapshots, validated>>

SubmitWrite(h) ==
  /\ Commit(h, "submit")
  /\ SetRevision(local[h].revision, "IN_REVIEW")
  /\ package' = "IN_REVIEW"
  /\ UNCHANGED <<active, text, bundle, snapshots, validated>>

(* requestDraftChanges checks nothing itself. *)
RequestChanges(h) ==
  \E r \in Revisions :
    /\ Once(h)
    /\ SetRevision(r, "CHANGES_REQUESTED")
    /\ package' = "CHANGES_REQUESTED"
    /\ UNCHANGED <<active, text, bundle, snapshots, validated>>

(* rejectDraft checks nothing itself either. *)
RejectDraft(h) ==
  \E r \in Revisions :
    /\ Once(h)
    /\ SetRevision(r, "WITHDRAWN")
    /\ package' = "DRAFTING"
    /\ UNCHANGED <<active, text, bundle, snapshots, validated>>

(* approveDraft: the package row is read first ... *)
ApproveRead(h) ==
  /\ Begin(h, Work("approve", 0, active, None, None))
  /\ UNCHANGED <<package, active, revision, text, bundle, snapshots, validated>>

(* ... then the revision and what validation looks at ... *)
ApproveCheck(h) ==
  \E r \in Revisions :
    /\ Continue(h, "approve", Work("approve-checked", r, local[h].active, text[r], None))
    /\ Exists(r) /\ revision[r] # "APPROVED" /\ text[r] \notin Unfit
    /\ UNCHANGED <<package, active, revision, text, bundle, snapshots, validated>>

(* ... and the revision that was active when the package was read is          *)
(* superseded, whatever is active by now.                                     *)
Superseded(a) == IF a = 0 THEN revision ELSE [revision EXCEPT ![a] = "SUPERSEDED"]

(* Mutant: the revision approved before keeps its status. *)
ApproveWriteKeepsOld(h) ==
  LET r == local[h].revision IN
    /\ Commit(h, "approve-checked")
    /\ revision[r] # "APPROVED"
    /\ revision' = [revision EXCEPT ![r] = "APPROVED"]
    /\ active' = r /\ package' = "APPROVED"
    /\ validated' = validated \cup {[revision |-> r, text |-> local[h].text]}
    /\ UNCHANGED <<text, bundle, snapshots>>

ApproveWrite(h) ==
  LET r == local[h].revision  others == Superseded(local[h].active) IN
    /\ Commit(h, "approve-checked")
    /\ others[r] # "APPROVED"
    /\ revision' = [others EXCEPT ![r] = "APPROVED"]
    /\ active' = r /\ package' = "APPROVED"
    /\ validated' = validated \cup {[revision |-> r, text |-> local[h].text]}
    /\ UNCHANGED <<text, bundle, snapshots>>

(* withdrawNoticePackage: the revisions and the active one stay as they are. *)
WithdrawPackage(h) ==
  /\ Once(h)
  /\ package \notin {"WITHDRAWN", "SENT"}
  /\ package' = "WITHDRAWN"
  /\ UNCHANGED <<active, revision, text, bundle, snapshots, validated>>

-----------------------------------------------------------------------------
(* Export and dispatch snapshot.                                              *)

(* generateExport reads the package with its active revision and sections ... *)
ExportRead(h) ==
  /\ active # 0 /\ package \in {"APPROVED", "EXPORTED"}
  /\ Begin(h, Work("export", active, 0, text[active], None))
  /\ UNCHANGED <<package, active, revision, text, bundle, snapshots, validated>>

(* ... and inserts a bundle per format, or only the one asked for. *)
ExportWrite(h) ==
  \E fs \in {{f} : f \in Formats} \cup {Formats} :
    /\ Commit(h, "export")
    /\ bundle' = [bundle EXCEPT ![local[h].revision] =
                    [f \in Formats |-> IF f \in fs THEN local[h].text ELSE @[f]]]
    /\ package' = "EXPORTED"
    /\ UNCHANGED <<active, revision, text, snapshots, validated>>

(* selectExportBundle over bundles ordered newest first: the newest ZIP, else *)
(* the newest PDF, else the newest of any format.                             *)
SelectExportBundle(r) ==
  LET has(f) == f \in Formats /\ bundle[r][f] # None IN
    IF has("ATTACHMENT_ZIP") THEN {bundle[r]["ATTACHMENT_ZIP"]}
    ELSE IF has("PDF") THEN {bundle[r]["PDF"]}
    ELSE {bundle[r][f] : f \in {g \in Formats : has(g)}}

(* createDispatchPackageSnapshot pins the active revision's checksum and the  *)
(* bundle it selected.                                                        *)
SnapshotRead(h) ==
  /\ active # 0 /\ package \in DISPATCH_PREP_STATUSES
  /\ revision[active] = "APPROVED"
  /\ Cardinality(snapshots) < MaxSnapshots
  /\ \E b \in SelectExportBundle(active) :
       Begin(h, Work("snapshot", active, 0, text[active], b))
  /\ UNCHANGED <<package, active, revision, text, bundle, snapshots, validated>>

SnapshotWrite(h) ==
  /\ Commit(h, "snapshot")
  /\ snapshots' = snapshots \cup {[revision |-> local[h].revision, text |-> local[h].text,
                                   bundle |-> local[h].bundle]}
  /\ package' = "AUTHORIZATION_PENDING"
  /\ UNCHANGED <<active, revision, text, bundle, validated>>

(* The dispatch handlers (NoticeDispatch) write the package's status once     *)
(* there is a snapshot, without reading it.                                   *)
DispatchMoves ==
  /\ snapshots # {} /\ package' \in DispatchStatuses
  /\ UNCHANGED <<active, revision, text, bundle, snapshots, local, validated, raced>>

-----------------------------------------------------------------------------
Next ==
  \/ \E h \in Handlers :
       \/ Assess(h) \/ GenerateDraft(h) \/ EditStart(h) \/ EditCommit(h)
       \/ SubmitRead(h) \/ SubmitWrite(h) \/ RequestChanges(h) \/ RejectDraft(h)
       \/ ApproveRead(h) \/ ApproveCheck(h) \/ ApproveWrite(h) \/ WithdrawPackage(h)
       \/ ExportRead(h) \/ ExportWrite(h) \/ SnapshotRead(h) \/ SnapshotWrite(h)
       \/ Abort(h)
  \/ DispatchMoves

Spec == Init /\ [][Next]_vars

-----------------------------------------------------------------------------
(* The active revision is an approved one, however review handlers, which     *)
(* check nothing themselves, and stale approvals interleave: export and       *)
(* snapshot follow this pointer.                                              *)
ActiveIsApproved == active # 0 => revision[active] = "APPROVED"

(* As long as no two handlers overlapped, the active revision is the only     *)
(* approved one.  (Two overlapping approvals both stay approved.)             *)
OneApproved ==
  ~raced => \A r \in Revisions : revision[r] = "APPROVED" => r = active

(* As long as no two handlers overlapped, every text that left the drafting   *)
(* area, in a bundle or pinned by a dispatch snapshot, is one that an         *)
(* approval of that revision validated, however often revisions are           *)
(* superseded, edited and approved again.                                     *)
NothingUnapprovedLeaves ==
  LET Approved(r) == {v.text : v \in {w \in validated : w.revision = r}} IN
  ~raced =>
    /\ \A r \in Revisions, f \in Formats : bundle[r][f] \in Approved(r) \cup {None}
    /\ \A s \in snapshots : {s.text, s.bundle} \subseteq Approved(s.revision)

(* There is one revision that a package stands for, and it was approved.      *)
ApprovalIsUnique == ActiveIsApproved /\ OneApproved
============================================================================
