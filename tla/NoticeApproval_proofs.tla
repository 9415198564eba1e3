------------------------ MODULE NoticeApproval_proofs ------------------------
(* What export and dispatch follow is approved, and without races validated,  *)
(* for every number of revisions, texts, formats and handlers.                *)
EXTENDS NoticeApproval, TLAPS

(* A generated revision has a text. *)
Drafted == \A r \in Revisions : Exists(r) => text[r] \in Texts

(* What a handler carries names a revision that exists, and a text. *)
Shaped(h) ==
  /\ local[h].op \in Ops \ {"idle", "approve"} =>
       local[h].revision \in Revisions /\ Exists(local[h].revision)
  /\ local[h].op \in {"edit", "approve-checked", "export", "snapshot"} => local[h].text \in Texts
  /\ local[h].op = "snapshot" => local[h].bundle \in Texts
  /\ local[h].active # 0 => local[h].active \in Revisions /\ Exists(local[h].active)
WorkIsShaped == \A h \in Handlers : Shaped(h)

(* Without races one handler works at a time ... *)
OneBusy == ~raced => \A g, h \in Handlers : Busy(g) /\ Busy(h) => g = h

(* ... on values that are still current ... *)
Fresh(h) ==
  /\ local[h].op \in {"approve", "approve-checked"} => local[h].active = active
  /\ local[h].op = "approve-checked" => local[h].text = text[local[h].revision]
  /\ local[h].op = "edit" => revision[local[h].revision] # "APPROVED"
  /\ local[h].op \in {"export", "snapshot"} =>
       [revision |-> local[h].revision, text |-> local[h].text] \in validated
  /\ local[h].op = "snapshot" =>
       [revision |-> local[h].revision, text |-> local[h].bundle] \in validated
WorkIsFresh == ~raced => \A h \in Handlers : Fresh(h)

(* ... so the approved text is the validated one, and so is what was made     *)
(* from it.                                                                   *)
ActiveIsValidated ==
  ~raced /\ active # 0 => [revision |-> active, text |-> text[active]] \in validated

OutputIsValidated ==
  ~raced =>
    /\ \A r \in Revisions, f \in Formats :
         bundle[r][f] # None => [revision |-> r, text |-> bundle[r][f]] \in validated
    /\ \A s \in snapshots : /\ [revision |-> s.revision, text |-> s.text] \in validated
                            /\ [revision |-> s.revision, text |-> s.bundle] \in validated

Base == TypeOK /\ ActiveIsApproved /\ Drafted /\ WorkIsShaped
Calm == OneBusy /\ WorkIsFresh /\ OneApproved /\ ActiveIsValidated /\ OutputIsValidated
IInv == Base /\ Calm

-----------------------------------------------------------------------------
(* What handlers carry has the shape of a local record.                       *)

LEMMA CarriesTyped ==
  ASSUME NEW o \in Ops, NEW r \in 0 .. MaxRevisions, NEW a \in 0 .. MaxRevisions,
         NEW t \in Maybe, NEW b \in Maybe
  PROVE  Work(o, r, a, t, b) \in Local /\ Work(o, r, a, t, b).op = o
  BY DEF Local, Work

LEMMA NoWorkTyped == NoWork \in Local
  BY NoticeAssumption DEF NoWork, Work, Local, Ops, Maybe

LEMMA HandlerMoves ==
  ASSUME local \in [Handlers -> Local], NEW h \in Handlers, NEW s \in Local,
         local' = [local EXCEPT ![h] = s]
  PROVE  /\ local' \in [Handlers -> Local] /\ local'[h] = s
         /\ \A g \in Handlers : g # h => local'[g] = local[g]
  OBVIOUS

(* The rows and the snapshots. *)
rows == <<active, revision, text, bundle, snapshots, validated>>

(* A step that leaves the rows alone, and lets one handler go idle or carry   *)
(* something of the right shape, keeps the base invariant.                    *)
LEMMA ReadKeepsBase ==
  ASSUME Base, NEW h \in Handlers, NEW s \in Local, local' = [local EXCEPT ![h] = s],
         package' \in PackageStatuses, raced' \in BOOLEAN, UNCHANGED rows,
         s.op \in Ops \ {"idle", "approve"} => s.revision \in Revisions /\ Exists(s.revision),
         s.op \in {"edit", "approve-checked", "export", "snapshot"} => s.text \in Texts,
         s.op = "snapshot" => s.bundle \in Texts,
         s.active # 0 => s.active \in Revisions /\ Exists(s.active)
  PROVE  Base'
<1>1. /\ local' \in [Handlers -> Local] /\ local'[h] = s
      /\ \A g \in Handlers : g # h => local'[g] = local[g]
  BY HandlerMoves DEF Base, TypeOK
<1>2. TypeOK'
  BY <1>1 DEF Base, TypeOK, rows
<1>3. ActiveIsApproved' /\ Drafted'
  BY DEF Base, ActiveIsApproved, Drafted, Exists, rows
<1>4. WorkIsShaped'
  BY <1>1 DEF Base, WorkIsShaped, Shaped, Exists, rows
<1> QED BY <1>2, <1>3, <1>4 DEF Base

LEMMA RacedTyped ==
  ASSUME Base, NEW h \in Handlers, Notes(h)
  PROVE  raced' \in BOOLEAN
  BY DEF Notes, Base, TypeOK

(* An update of a revision that the trigger lets through, of any but the      *)
(* active revision.                                                           *)
LEMMA SetRevisionKeepsBase ==
  ASSUME Base, NEW r \in Revisions, NEW st \in RevisionStatuses \ {"SUPERSEDED"},
         SetRevision(r, st), UNCHANGED <<active, text>>
  PROVE  /\ revision' \in [Revisions -> RevisionStatuses \cup {"ABSENT"}]
         /\ ActiveIsApproved' /\ Drafted'
         /\ \A q \in Revisions : Exists(q) => Exists(q)'
<1>1. /\ revision[r] \notin {"APPROVED", "ABSENT"} /\ revision' = [revision EXCEPT ![r] = st]
      /\ revision \in [Revisions -> RevisionStatuses \cup {"ABSENT"}]
  BY DEF SetRevision, Exists, Base, TypeOK
<1>2. "ABSENT" \notin RevisionStatuses
  BY DEF RevisionStatuses
<1>3. \A q \in Revisions : q # r => revision'[q] = revision[q]
  BY <1>1
<1>4. revision'[r] = st
  BY <1>1
<1>5. ActiveIsApproved'
  BY <1>1, <1>3, NoticeAssumption DEF Base, ActiveIsApproved, TypeOK, Revisions
<1>6. Drafted'
  BY <1>1, <1>3 DEF Base, Drafted, Exists
<1> QED BY <1>1, <1>2, <1>3, <1>4, <1>5, <1>6 DEF Exists

LEMMA ShapeCarries ==
  ASSUME Base, NEW h \in Handlers, local' \in {local, [local EXCEPT ![h] = NoWork]},
         \A q \in Revisions : Exists(q) => Exists(q)'
  PROVE  /\ local' \in [Handlers -> Local] /\ WorkIsShaped'
<1>1. CASE local' = local
  BY <1>1 DEF Base, TypeOK, WorkIsShaped, Shaped
<1>2. CASE local' = [local EXCEPT ![h] = NoWork]
  <2>1. /\ local' \in [Handlers -> Local] /\ local'[h] = NoWork
        /\ \A g \in Handlers : g # h => local'[g] = local[g]
    BY <1>2, HandlerMoves, NoWorkTyped DEF Base, TypeOK
  <2>2. NoWork.op = "idle" /\ NoWork.active = 0
    BY DEF NoWork, Work
  <2>3. ASSUME NEW g \in Handlers
        PROVE  Shaped(g)'
    <3>1. CASE g = h
      BY <3>1, <2>1, <2>2 DEF Shaped
    <3>2. CASE g # h
      <4>1. Shaped(g) /\ local'[g] = local[g]
        BY <3>2, <2>1 DEF Base, WorkIsShaped
      <4> QED BY <4>1 DEF Shaped
    <3> QED BY <3>1, <3>2
  <2> QED BY <2>1, <2>3 DEF WorkIsShaped
<1> QED BY <1>1, <1>2

LEMMA NotesTyped ==
  ASSUME Base, NEW h \in Handlers, Once(h)
  PROVE  raced' \in BOOLEAN /\ local' = local
  BY DEF Once, Notes, Base, TypeOK

-----------------------------------------------------------------------------
(* The base invariant.                                                        *)

LEMMA ActiveExists ==
  ASSUME Base, active # 0
  PROVE  active \in Revisions /\ Exists(active)
  BY NoticeAssumption DEF Base, TypeOK, ActiveIsApproved, Revisions, Exists

(* Steps that read, and steps that only move the package. *)
LEMMA ReadingKeepsBase ==
  ASSUME Base, NEW h \in Handlers,
         \/ EditStart(h) \/ SubmitRead(h) \/ ApproveRead(h) \/ ApproveCheck(h)
         \/ ExportRead(h) \/ SnapshotRead(h) \/ Abort(h)
  PROVE  Base'
<1> USE NoticeAssumption
<1>0. /\ package' \in PackageStatuses /\ UNCHANGED rows /\ raced' \in BOOLEAN
  <2>1. UNCHANGED <<package, active, revision, text, bundle, snapshots, validated>>
    BY DEF EditStart, SubmitRead, ApproveRead, ApproveCheck, ExportRead, SnapshotRead, Abort
  <2>2. raced' \in BOOLEAN
    BY DEF EditStart, SubmitRead, ApproveRead, ApproveCheck, ExportRead, SnapshotRead, Abort,
           Begin, Continue, Notes, Base, TypeOK
  <2> QED BY <2>1, <2>2 DEF rows, Base, TypeOK
<1>1. None \in Maybe /\ Texts \subseteq Maybe /\ 0 \in 0 .. MaxRevisions
      /\ Revisions \subseteq 0 .. MaxRevisions
  BY DEF Maybe, Revisions
<1>2. CASE EditStart(h)
  <2>1. PICK r \in Revisions, t \in Texts : Begin(h, Work("edit", r, 0, t, None)) /\ Exists(r)
    BY <1>2 DEF EditStart
  <2> DEFINE w == Work("edit", r, 0, t, None)
  <2>2. w \in Local /\ w.op = "edit" /\ w.revision = r /\ w.text = t
        /\ w.active = 0
    BY <1>1, CarriesTyped DEF Ops, Work
  <2> HIDE DEF w
  <2>3. local' = [local EXCEPT ![h] = w]
    BY <2>1 DEF Begin, w
  <2> QED BY <2>1, <2>2, <2>3, <1>0, ReadKeepsBase
<1>3. CASE SubmitRead(h)
  <2>1. PICK r \in Revisions : Begin(h, Work("submit", r, 0, None, None)) /\ Exists(r)
    BY <1>3 DEF SubmitRead
  <2> DEFINE w == Work("submit", r, 0, None, None)
  <2>2. w \in Local /\ w.op = "submit" /\ w.revision = r /\ w.active = 0
    BY <1>1, CarriesTyped DEF Ops, Work
  <2> HIDE DEF w
  <2>3. local' = [local EXCEPT ![h] = w]
    BY <2>1 DEF Begin, w
  <2> QED BY <2>1, <2>2, <2>3, <1>0, ReadKeepsBase
<1>4. CASE ApproveRead(h)
  <2> DEFINE w == Work("approve", 0, active, None, None)
  <2>2. w \in Local /\ w.op = "approve" /\ w.active = active
    BY <1>1, CarriesTyped DEF Ops, Base, TypeOK, Work
  <2> HIDE DEF w
  <2>3. local' = [local EXCEPT ![h] = w]
    BY <1>4 DEF ApproveRead, Begin, w
  <2> QED BY <2>2, <2>3, <1>0, ActiveExists, ReadKeepsBase
<1>5. CASE ApproveCheck(h)
  <2>1. PICK r \in Revisions :
          /\ Continue(h, "approve", Work("approve-checked", r, local[h].active, text[r], None))
          /\ Exists(r)
    BY <1>5 DEF ApproveCheck
  <2> DEFINE w == Work("approve-checked", r, local[h].active, text[r], None)
  <2>2. text[r] \in Texts /\ local[h].active \in 0 .. MaxRevisions
    BY <2>1 DEF Base, Drafted, TypeOK, Local
  <2>3. w \in Local /\ w.op = "approve-checked" /\ w.revision = r /\ w.text = text[r]
        /\ w.active = local[h].active /\ (w.active # 0 => w.active \in Revisions /\ Exists(w.active))
    BY <1>1, <2>2, CarriesTyped DEF Ops, Work, Base, WorkIsShaped, Shaped
  <2> HIDE DEF w
  <2>4. local' = [local EXCEPT ![h] = w]
    BY <2>1 DEF Continue, w
  <2> QED BY <2>1, <2>2, <2>3, <2>4, <1>0, ReadKeepsBase
<1>6. CASE ExportRead(h)
  <2> DEFINE w == Work("export", active, 0, text[active], None)
  <2>1. active \in Revisions /\ Exists(active)
    BY <1>6, ActiveExists DEF ExportRead
  <2>2. text[active] \in Texts
    BY <2>1 DEF Base, Drafted
  <2>3. w \in Local /\ w.op = "export" /\ w.revision = active /\ w.text = text[active]
        /\ w.active = 0
    BY <1>1, <2>1, <2>2, CarriesTyped DEF Ops, Work
  <2> HIDE DEF w
  <2>4. local' = [local EXCEPT ![h] = w]
    BY <1>6 DEF ExportRead, Begin, w
  <2> QED BY <2>1, <2>2, <2>3, <2>4, <1>0, ReadKeepsBase
<1>7. CASE SnapshotRead(h)
  <2>0. PICK b \in SelectExportBundle(active) :
          active # 0 /\ Begin(h, Work("snapshot", active, 0, text[active], b))
    BY <1>7 DEF SnapshotRead
  <2>1. active \in Revisions /\ Exists(active)
    BY <2>0, ActiveExists
  <2>2. \E f \in Formats : b = bundle[active][f] /\ b # None
    BY DEF SelectExportBundle
  <2>3. b \in Texts /\ text[active] \in Texts
    BY <2>1, <2>2 DEF Base, TypeOK, Maybe, Drafted
  <2> DEFINE w == Work("snapshot", active, 0, text[active], b)
  <2>4. w \in Local /\ w.op = "snapshot" /\ w.revision = active /\ w.text = text[active]
        /\ w.bundle = b /\ w.active = 0
    BY <1>1, <2>1, <2>3, CarriesTyped DEF Ops, Work
  <2> HIDE DEF w
  <2>5. local' = [local EXCEPT ![h] = w]
    BY <2>0 DEF Begin, w
  <2> QED BY <2>1, <2>3, <2>4, <2>5, <1>0, ReadKeepsBase
<1>8. CASE Abort(h)
  <2>1. local' = [local EXCEPT ![h] = NoWork] /\ NoWork.op = "idle" /\ NoWork.active = 0
    BY <1>8 DEF Abort, NoWork, Work
  <2> QED BY <2>1, <1>0, NoWorkTyped, ReadKeepsBase
<1> QED BY <1>2, <1>3, <1>4, <1>5, <1>6, <1>7, <1>8

(* Steps that write. *)
LEMMA WritingKeepsBase ==
  ASSUME Base, NEW h \in Handlers,
         \/ Assess(h) \/ WithdrawPackage(h) \/ GenerateDraft(h) \/ EditCommit(h) \/ SubmitWrite(h)
         \/ RequestChanges(h) \/ RejectDraft(h) \/ ApproveWrite(h) \/ ExportWrite(h)
         \/ SnapshotWrite(h)
  PROVE  Base'
<1> USE NoticeAssumption
<1>0. /\ raced' \in BOOLEAN /\ local' \in {local, [local EXCEPT ![h] = NoWork]}
      /\ package' \in PackageStatuses
  BY DEF Assess, WithdrawPackage, GenerateDraft, EditCommit, SubmitWrite, RequestChanges,
         RejectDraft, ApproveWrite, ExportWrite, SnapshotWrite, Once, Commit, Notes, Base, TypeOK,
         PackageStatuses
<1>1. /\ TypeOK /\ ActiveIsApproved /\ Drafted /\ WorkIsShaped
      /\ "ABSENT" \notin RevisionStatuses
      /\ Shaped(h) /\ local[h] \in Local
  BY DEF Base, RevisionStatuses, WorkIsShaped, TypeOK
<1>2. CASE Assess(h) \/ WithdrawPackage(h)
  <2>1. UNCHANGED rows /\ local' = local
    BY <1>2 DEF Assess, WithdrawPackage, Once, rows
  <2>2. TypeOK' /\ ActiveIsApproved' /\ Drafted'
    BY <1>0, <1>1, <2>1 DEF TypeOK, ActiveIsApproved, Drafted, Exists, rows
  <2>3. WorkIsShaped'
    BY <1>1, <2>1 DEF WorkIsShaped, Shaped, Exists, rows
  <2> QED BY <2>2, <2>3 DEF Base
<1>3. CASE GenerateDraft(h)
  <2>1. PICK r \in Revisions, t \in Texts :
          /\ revision[r] = "ABSENT"
          /\ revision' = [revision EXCEPT ![r] = "DRAFT"] /\ text' = [text EXCEPT ![r] = t]
          /\ UNCHANGED <<active, bundle, snapshots, validated>>
    BY <1>3 DEF GenerateDraft, Exists
  <2>2. \A q \in Revisions : Exists(q) => Exists(q)'
    BY <1>1, <2>1 DEF Exists, TypeOK
  <2>3. local' \in [Handlers -> Local] /\ WorkIsShaped'
    BY <1>0, <2>2, ShapeCarries
  <2>4. revision' \in [Revisions -> RevisionStatuses \cup {"ABSENT"}]
        /\ text' \in [Revisions -> Maybe]
    BY <1>1, <2>1 DEF TypeOK, RevisionStatuses, Maybe
  <2>5. TypeOK'
    BY <1>0, <1>1, <2>1, <2>3, <2>4 DEF TypeOK
  <2>6. ActiveIsApproved'
    BY <1>1, <2>1 DEF ActiveIsApproved, TypeOK
  <2>7. Drafted'
    BY <1>1, <2>1 DEF Drafted, Exists, TypeOK
  <2> QED BY <2>3, <2>5, <2>6, <2>7 DEF Base
<1>4. CASE EditCommit(h)
  <2>1. /\ local[h].revision \in Revisions /\ local[h].text \in Texts
        /\ text' = [text EXCEPT ![local[h].revision] = local[h].text]
        /\ UNCHANGED <<active, revision, bundle, snapshots, validated>>
    BY <1>1, <1>4 DEF EditCommit, Commit, Shaped, Ops
  <2>2. local' \in [Handlers -> Local] /\ WorkIsShaped'
    BY <1>0, <2>1, ShapeCarries DEF Exists
  <2>3. TypeOK'
    BY <1>0, <1>1, <2>1, <2>2 DEF TypeOK, Maybe
  <2>4. ActiveIsApproved' /\ Drafted'
    BY <1>1, <2>1 DEF ActiveIsApproved, Drafted, Exists, TypeOK
  <2> QED BY <2>2, <2>3, <2>4 DEF Base
<1>5. CASE SubmitWrite(h) \/ RequestChanges(h) \/ RejectDraft(h)
  <2>1. PICK r \in Revisions, st \in {"IN_REVIEW", "CHANGES_REQUESTED", "WITHDRAWN"} :
          SetRevision(r, st) /\ UNCHANGED <<active, text, bundle, snapshots, validated>>
    <3>1. CASE SubmitWrite(h)
      <4>1. local[h].revision \in Revisions
        BY <1>1, <3>1 DEF SubmitWrite, Commit, Shaped, Ops
      <4> QED BY <3>1, <4>1 DEF SubmitWrite
    <3>2. CASE RequestChanges(h)
      BY <3>2 DEF RequestChanges
    <3>3. CASE RejectDraft(h)
      BY <3>3 DEF RejectDraft
    <3> QED BY <1>5, <3>1, <3>2, <3>3
  <2>2. st \in RevisionStatuses \ {"SUPERSEDED"}
    BY DEF RevisionStatuses
  <2>3. /\ revision' \in [Revisions -> RevisionStatuses \cup {"ABSENT"}]
        /\ ActiveIsApproved' /\ Drafted'
        /\ \A q \in Revisions : Exists(q) => Exists(q)'
    BY <2>1, <2>2, SetRevisionKeepsBase
  <2>4. local' \in [Handlers -> Local] /\ WorkIsShaped'
    BY <1>0, <2>3, ShapeCarries
  <2>5. TypeOK'
    BY <1>0, <1>1, <2>1, <2>3, <2>4 DEF TypeOK
  <2> QED BY <2>3, <2>4, <2>5 DEF Base
<1>6. CASE ApproveWrite(h)
  <2> DEFINE r == local[h].revision
             a == local[h].active
  <2>1. /\ r \in Revisions /\ Exists(r) /\ local[h].text \in Texts
        /\ a # 0 => a \in Revisions /\ Exists(a)
        /\ revision' = [Superseded(a) EXCEPT ![r] = "APPROVED"] /\ active' = r
        /\ validated' = validated \cup {[revision |-> r, text |-> local[h].text]}
        /\ UNCHANGED <<text, bundle, snapshots>>
    BY <1>1, <1>6 DEF ApproveWrite, Commit, Shaped, Ops
  <2> HIDE DEF r, a
  <2>2. /\ Superseded(a) \in [Revisions -> RevisionStatuses \cup {"ABSENT"}]
        /\ \A q \in Revisions : Superseded(a)[q] = "ABSENT" <=> revision[q] = "ABSENT"
    <3>1. CASE a = 0
      BY <1>1, <3>1 DEF Superseded, TypeOK
    <3>2. CASE a # 0
      BY <1>1, <2>1, <3>2 DEF Superseded, TypeOK, RevisionStatuses, Exists
    <3> QED BY <3>1, <3>2
  <2>3. /\ revision' \in [Revisions -> RevisionStatuses \cup {"ABSENT"}]
        /\ revision'[r] = "APPROVED"
        /\ \A q \in Revisions : revision'[q] = "ABSENT" <=> revision[q] = "ABSENT"
    BY <2>1, <2>2 DEF RevisionStatuses, Exists
  <2>4. local' \in [Handlers -> Local] /\ WorkIsShaped'
    BY <1>0, <2>3, ShapeCarries DEF Exists
  <2>5. active' \in 0 .. MaxRevisions /\ ActiveIsApproved'
    BY <2>1, <2>3 DEF ActiveIsApproved, Revisions
  <2>6. validated' \subseteq [revision : Revisions, text : Texts]
    BY <1>1, <2>1 DEF TypeOK
  <2>7. TypeOK'
    BY <1>0, <1>1, <2>1, <2>3, <2>4, <2>5, <2>6 DEF TypeOK
  <2>8. Drafted'
    BY <1>1, <2>1, <2>3 DEF Drafted, Exists
  <2> QED BY <2>4, <2>5, <2>7, <2>8 DEF Base
<1>7. CASE ExportWrite(h)
  <2> DEFINE r == local[h].revision
             t == local[h].text
  <2>1. PICK fs \in {{f} : f \in Formats} \cup {Formats} :
          bundle' = [bundle EXCEPT ![r] = [f \in Formats |-> IF f \in fs THEN t ELSE @[f]]]
    BY <1>7 DEF ExportWrite
  <2>2. r \in Revisions /\ t \in Texts
        /\ UNCHANGED <<active, revision, text, snapshots, validated>>
    BY <1>1, <1>7 DEF ExportWrite, Commit, Shaped, Ops
  <2> HIDE DEF r, t
  <2>3. bundle' \in [Revisions -> [Formats -> Maybe]]
    <3>1. [f \in Formats |-> IF f \in fs THEN t ELSE bundle[r][f]] \in [Formats -> Maybe]
      BY <1>1, <2>2 DEF TypeOK, Maybe
    <3> QED BY <1>1, <2>1, <2>2, <3>1 DEF TypeOK
  <2>4. local' \in [Handlers -> Local] /\ WorkIsShaped'
    BY <1>0, <2>2, ShapeCarries DEF Exists
  <2>5. TypeOK' /\ ActiveIsApproved' /\ Drafted'
    BY <1>0, <1>1, <2>2, <2>3, <2>4 DEF TypeOK, ActiveIsApproved, Drafted, Exists
  <2> QED BY <2>4, <2>5 DEF Base
<1>8. CASE SnapshotWrite(h)
  <2> DEFINE s == [revision |-> local[h].revision, text |-> local[h].text,
                   bundle |-> local[h].bundle]
  <2>1. /\ local[h].revision \in Revisions /\ local[h].text \in Texts /\ local[h].bundle \in Texts
        /\ snapshots' = snapshots \cup {s}
        /\ UNCHANGED <<active, revision, text, bundle, validated>>
    BY <1>1, <1>8 DEF SnapshotWrite, Commit, Shaped, Ops
  <2>2. s \in Snapshots
    BY <2>1 DEF Snapshots
  <2> HIDE DEF s
  <2>3. local' \in [Handlers -> Local] /\ WorkIsShaped'
    BY <1>0, <2>1, ShapeCarries DEF Exists
  <2>4. TypeOK' /\ ActiveIsApproved' /\ Drafted'
    BY <1>0, <1>1, <2>1, <2>2, <2>3 DEF TypeOK, ActiveIsApproved, Drafted, Exists
  <2> QED BY <2>3, <2>4 DEF Base
<1> QED BY <1>2, <1>3, <1>4, <1>5, <1>6, <1>7, <1>8

LEMMA DispatchKeepsBase ==
  ASSUME Base, DispatchMoves
  PROVE  Base'
<1>1. UNCHANGED <<rows, local, raced>> /\ package' \in PackageStatuses
  BY NoticeAssumption DEF DispatchMoves, rows
<1>2. TypeOK' /\ ActiveIsApproved' /\ Drafted' /\ WorkIsShaped'
  BY <1>1 DEF Base, TypeOK, ActiveIsApproved, Drafted, WorkIsShaped, Shaped, Exists, rows
<1> QED BY <1>2 DEF Base

LEMMA InitBase == Init => Base
<1> SUFFICES ASSUME Init PROVE Base
  OBVIOUS
<1> USE NoticeAssumption
<1>1. TypeOK
  <2>1. local \in [Handlers -> Local] /\ package \in PackageStatuses
    BY NoWorkTyped DEF Init, PackageStatuses
  <2>2. bundle \in [Revisions -> [Formats -> Maybe]] /\ text \in [Revisions -> Maybe]
    BY DEF Init, Maybe
  <2>3. revision \in [Revisions -> RevisionStatuses \cup {"ABSENT"}] /\ active \in 0 .. MaxRevisions
    BY DEF Init
  <2> QED BY <2>1, <2>2, <2>3 DEF Init, TypeOK
<1>2. ActiveIsApproved /\ Drafted
  BY DEF Init, ActiveIsApproved, Drafted, Exists
<1>3. WorkIsShaped
  BY DEF Init, WorkIsShaped, Shaped, NoWork, Work
<1> QED BY <1>1, <1>2, <1>3 DEF Base

LEMMA NextKeepsBase == Base /\ [Next]_vars => Base'
<1> SUFFICES ASSUME Base, [Next]_vars PROVE Base'
  OBVIOUS
<1>1. CASE DispatchMoves
  BY <1>1, DispatchKeepsBase
<1>2. CASE UNCHANGED vars
  BY <1>2 DEF Base, TypeOK, ActiveIsApproved, Drafted, WorkIsShaped, Shaped, Exists, vars
<1>3. ASSUME NEW h \in Handlers,
             \/ EditStart(h) \/ SubmitRead(h) \/ ApproveRead(h) \/ ApproveCheck(h)
             \/ ExportRead(h) \/ SnapshotRead(h) \/ Abort(h)
      PROVE  Base'
  BY <1>3, ReadingKeepsBase
<1>4. ASSUME NEW h \in Handlers,
             \/ Assess(h) \/ WithdrawPackage(h) \/ GenerateDraft(h) \/ EditCommit(h)
             \/ SubmitWrite(h) \/ RequestChanges(h) \/ RejectDraft(h) \/ ApproveWrite(h)
             \/ ExportWrite(h) \/ SnapshotWrite(h)
      PROVE  Base'
  BY <1>4, WritingKeepsBase
<1> QED BY <1>1, <1>2, <1>3, <1>4 DEF Next

(* Every variable keeps its type. *)
THEOREM TypeCorrect == Spec => []TypeOK
<1>1. Base => TypeOK
  BY DEF Base
<1> QED BY <1>1, InitBase, NextKeepsBase, PTL DEF Spec

(* The revision that export and snapshot follow is an approved one, for every *)
(* number of racing handlers: approveDraft writes both in one transaction and *)
(* the trigger stops every other handler.                                     *)
THEOREM ActiveAlwaysApproved == Spec => []ActiveIsApproved
<1>1. Base => ActiveIsApproved
  BY DEF Base
<1> QED BY <1>1, InitBase, NextKeepsBase, PTL DEF Spec

-----------------------------------------------------------------------------
(* Without races.                                                             *)

(* While nobody has raced, a step of h leaves everybody else idle. *)
LEMMA Alone ==
  ASSUME IInv, NEW h \in Handlers, ~raced', NEW s, local' = [local EXCEPT ![h] = s],
         Begin(h, s) \/ (Busy(h) /\ UNCHANGED raced)
  PROVE  /\ ~raced /\ local'[h] = s /\ OneBusy'
         /\ \A g \in Handlers : g # h => local'[g] = local[g] /\ ~Busy(g) /\ ~Busy(g)'
<1>1. ~raced /\ OneBusy /\ local \in [Handlers -> Local]
  BY DEF Begin, Notes, IInv, Base, Calm, TypeOK
<1>2. local'[h] = s /\ \A g \in Handlers : g # h => local'[g] = local[g]
  BY <1>1
<1>3. \A g \in Handlers : g # h => ~Busy(g)
  BY <1>1 DEF Begin, Notes, OneBusy
<1>4. \A g \in Handlers : g # h => ~Busy(g)'
  BY <1>2, <1>3 DEF Busy
<1>5. OneBusy'
  BY <1>4 DEF OneBusy
<1> QED BY <1>1, <1>2, <1>3, <1>4, <1>5

(* Idle handlers carry nothing. *)
LEMMA IdleIsFresh ==
  ASSUME NEW g \in Handlers, ~Busy(g)'
  PROVE  Fresh(g)'
  BY DEF Busy, Fresh

(* A step that only reads is calm when what it carries is fresh. *)
LEMMA ReadKeepsCalm ==
  ASSUME IInv, NEW h \in Handlers, NEW s, local' = [local EXCEPT ![h] = s],
         UNCHANGED rows, Begin(h, s) \/ (Busy(h) /\ UNCHANGED raced),
         ~raced' => Fresh(h)'
  PROVE  Calm'
<1>1. CASE raced'
  BY <1>1 DEF Calm, OneBusy, WorkIsFresh, OneApproved, ActiveIsValidated, OutputIsValidated
<1>2. CASE ~raced'
  <2>1. ~raced /\ OneBusy' /\ \A g \in Handlers : g # h => ~Busy(g)'
    BY <1>2, Alone
  <2>2. WorkIsFresh'
    BY <1>2, <2>1, IdleIsFresh DEF WorkIsFresh
  <2>3. OneApproved' /\ ActiveIsValidated' /\ OutputIsValidated'
    BY <2>1 DEF IInv, Calm, OneApproved, ActiveIsValidated, OutputIsValidated, rows
  <2> QED BY <2>1, <2>2, <2>3 DEF Calm
<1> QED BY <1>1, <1>2

LEMMA ReadingKeepsCalm ==
  ASSUME IInv, NEW h \in Handlers,
         \/ EditStart(h) \/ SubmitRead(h) \/ ApproveRead(h) \/ ApproveCheck(h)
         \/ ExportRead(h) \/ SnapshotRead(h) \/ Abort(h)
  PROVE  Calm'
<1>0. UNCHANGED rows
  BY DEF EditStart, SubmitRead, ApproveRead, ApproveCheck, ExportRead, SnapshotRead, Abort, rows
<1>1. local \in [Handlers -> Local]
  BY DEF IInv, Base, TypeOK
<1>2. CASE EditStart(h)
  <2>1. PICK r \in Revisions, t \in Texts :
          Begin(h, Work("edit", r, 0, t, None)) /\ revision[r] # "APPROVED"
    BY <1>2 DEF EditStart
  <2>2. local' = [local EXCEPT ![h] = Work("edit", r, 0, t, None)]
    BY <2>1 DEF Begin
  <2>3. local'[h].op = "edit" /\ local'[h].revision = r
    BY <1>1, <2>2 DEF Work
  <2>4. Fresh(h)'
    BY <1>0, <2>1, <2>3 DEF Fresh, rows
  <2> QED BY <1>0, <2>1, <2>2, <2>4, ReadKeepsCalm
<1>3. CASE SubmitRead(h)
  <2>1. PICK r \in Revisions : Begin(h, Work("submit", r, 0, None, None))
    BY <1>3 DEF SubmitRead
  <2>2. local' = [local EXCEPT ![h] = Work("submit", r, 0, None, None)]
    BY <2>1 DEF Begin
  <2>3. local'[h].op = "submit"
    BY <1>1, <2>2 DEF Work
  <2>4. Fresh(h)'
    BY <2>3 DEF Fresh
  <2> QED BY <1>0, <2>1, <2>2, <2>4, ReadKeepsCalm
<1>4. CASE ApproveRead(h)
  <2>1. Begin(h, Work("approve", 0, active, None, None))
    BY <1>4 DEF ApproveRead
  <2>2. local' = [local EXCEPT ![h] = Work("approve", 0, active, None, None)]
    BY <2>1 DEF Begin
  <2>3. local'[h].op = "approve" /\ local'[h].active = active
    BY <1>1, <2>2 DEF Work
  <2>4. Fresh(h)'
    BY <1>0, <2>3 DEF Fresh, rows
  <2> QED BY <1>0, <2>1, <2>2, <2>4, ReadKeepsCalm
<1>5. CASE ApproveCheck(h)
  <2>1. PICK r \in Revisions :
          Continue(h, "approve", Work("approve-checked", r, local[h].active, text[r], None))
    BY <1>5 DEF ApproveCheck
  <2> DEFINE w == Work("approve-checked", r, local[h].active, text[r], None)
  <2>2. local' = [local EXCEPT ![h] = w] /\ UNCHANGED raced /\ local[h].op = "approve"
    BY <2>1 DEF Continue
  <2>3. /\ local'[h].op = "approve-checked" /\ local'[h].active = local[h].active
        /\ local'[h].text = text[r] /\ local'[h].revision = r
    BY <1>1, <2>2 DEF Work
  <2>4. ~raced' => Fresh(h)'
    <3>1. ~raced => local[h].active = active
      BY <2>2 DEF IInv, Calm, WorkIsFresh, Fresh
    <3> QED BY <1>0, <2>2, <2>3, <3>1 DEF Fresh, rows
  <2>5. Busy(h)
    BY <2>2 DEF Busy
  <2> HIDE DEF w
  <2> QED BY <1>0, <2>2, <2>4, <2>5, ReadKeepsCalm
<1>6. CASE ExportRead(h)
  <2>1. Begin(h, Work("export", active, 0, text[active], None)) /\ active # 0
    BY <1>6 DEF ExportRead
  <2>2. local' = [local EXCEPT ![h] = Work("export", active, 0, text[active], None)]
    BY <2>1 DEF Begin
  <2>3. local'[h].op = "export" /\ local'[h].revision = active /\ local'[h].text = text[active]
    BY <1>1, <2>2 DEF Work
  <2>4. ~raced' => Fresh(h)'
    <3>1. ~raced' => ~raced
      BY <2>1 DEF Begin, Notes, IInv, Base, TypeOK
    <3> QED BY <1>0, <2>1, <2>3, <3>1 DEF Fresh, rows, IInv, Calm, ActiveIsValidated
  <2> QED BY <1>0, <2>1, <2>2, <2>4, ReadKeepsCalm
<1>7. CASE SnapshotRead(h)
  <2>1. PICK b \in SelectExportBundle(active) :
          active # 0 /\ Begin(h, Work("snapshot", active, 0, text[active], b))
    BY <1>7 DEF SnapshotRead
  <2>2. local' = [local EXCEPT ![h] = Work("snapshot", active, 0, text[active], b)]
    BY <2>1 DEF Begin
  <2>3. /\ local'[h].op = "snapshot" /\ local'[h].revision = active
        /\ local'[h].text = text[active] /\ local'[h].bundle = b
    BY <1>1, <2>2 DEF Work
  <2>4. PICK f \in Formats : b = bundle[active][f] /\ b # None
    BY DEF SelectExportBundle
  <2>5. active \in Revisions
    BY <2>1, ActiveExists DEF IInv
  <2>6. ~raced' => Fresh(h)'
    <3>1. ~raced' => ~raced
      BY <2>1 DEF Begin, Notes, IInv, Base, TypeOK
    <3>2. ~raced => [revision |-> active, text |-> text[active]] \in validated
      BY <2>1 DEF IInv, Calm, ActiveIsValidated
    <3>3. ~raced => [revision |-> active, text |-> b] \in validated
      BY <2>4, <2>5 DEF IInv, Calm, OutputIsValidated
    <3> QED BY <1>0, <2>3, <3>1, <3>2, <3>3 DEF Fresh, rows
  <2> QED BY <1>0, <2>1, <2>2, <2>6, ReadKeepsCalm
<1>8. CASE Abort(h)
  <2>1. local' = [local EXCEPT ![h] = NoWork] /\ Busy(h) /\ UNCHANGED raced
    BY <1>8 DEF Abort
  <2>2. local'[h].op = "idle"
    BY <1>1, <2>1 DEF NoWork, Work
  <2>3. Fresh(h)'
    BY <2>2 DEF Fresh
  <2> QED BY <1>0, <2>1, <2>3, ReadKeepsCalm
<1> QED BY <1>2, <1>3, <1>4, <1>5, <1>6, <1>7, <1>8

(* A handler that writes leaves everybody idle, unless somebody raced. *)
LEMMA WriterLeavesIdle ==
  ASSUME IInv, NEW h \in Handlers, ~raced',
         Once(h) \/ \E o \in Ops \ {"idle"} : Commit(h, o)
  PROVE  ~raced /\ OneBusy' /\ WorkIsFresh'
<1>1. local \in [Handlers -> Local]
  BY DEF IInv, Base, TypeOK
<1>2. ~raced /\ \A g \in Handlers : ~Busy(g)'
  <2>1. CASE Once(h)
    BY <2>1 DEF Once, Notes, IInv, Base, TypeOK, Busy
  <2>2. CASE \E o \in Ops \ {"idle"} : Commit(h, o)
    <3>1. Busy(h) /\ UNCHANGED raced /\ local' = [local EXCEPT ![h] = NoWork]
      BY <2>2 DEF Commit, Busy
    <3>2. ~raced /\ local'[h] = NoWork /\ \A g \in Handlers : g # h => ~Busy(g)'
      BY <3>1, Alone
    <3>3. ~Busy(h)'
      BY <3>2 DEF Busy, NoWork, Work
    <3> QED BY <3>2, <3>3
  <2> QED BY <2>1, <2>2
<1>3. OneBusy' /\ WorkIsFresh'
  BY <1>2, IdleIsFresh DEF OneBusy, WorkIsFresh
<1> QED BY <1>2, <1>3

(* What a calm writer has to preserve itself. *)
Validated == OneApproved /\ ActiveIsValidated /\ OutputIsValidated

LEMMA WritingKeepsValidated ==
  ASSUME IInv, NEW h \in Handlers, ~raced, ~raced',
         \/ Assess(h) \/ WithdrawPackage(h) \/ GenerateDraft(h) \/ EditCommit(h) \/ SubmitWrite(h)
         \/ RequestChanges(h) \/ RejectDraft(h) \/ ApproveWrite(h) \/ ExportWrite(h)
         \/ SnapshotWrite(h)
  PROVE  Validated'
<1>1. /\ \A r \in Revisions : revision[r] = "APPROVED" => r = active
      /\ active # 0 => /\ [revision |-> active, text |-> text[active]] \in validated
                       /\ active \in Revisions /\ revision[active] = "APPROVED"
      /\ OutputIsValidated /\ Fresh(h) /\ Shaped(h)
      /\ revision \in [Revisions -> RevisionStatuses \cup {"ABSENT"}]
      /\ text \in [Revisions -> Maybe] /\ bundle \in [Revisions -> [Formats -> Maybe]]
  <2>1. active # 0 => active \in Revisions
    BY ActiveExists DEF IInv
  <2> QED BY <2>1 DEF IInv, Calm, Base, TypeOK, ActiveIsApproved, OneApproved, ActiveIsValidated,
                      WorkIsFresh, WorkIsShaped
<1>2. CASE Assess(h) \/ WithdrawPackage(h)
  <2>1. UNCHANGED rows
    BY <1>2 DEF Assess, WithdrawPackage, rows
  <2> QED BY <1>1, <2>1 DEF Validated, OneApproved, ActiveIsValidated, OutputIsValidated, rows
<1>3. CASE GenerateDraft(h)
  <2>1. PICK r \in Revisions, t \in Texts :
          /\ revision[r] = "ABSENT"
          /\ revision' = [revision EXCEPT ![r] = "DRAFT"] /\ text' = [text EXCEPT ![r] = t]
          /\ UNCHANGED <<active, bundle, snapshots, validated>>
    BY <1>3 DEF GenerateDraft, Exists
  <2>2. OneApproved'
    BY <1>1, <2>1 DEF OneApproved
  <2>3. ActiveIsValidated'
    BY <1>1, <2>1 DEF ActiveIsValidated
  <2>4. OutputIsValidated'
    BY <1>1, <2>1 DEF OutputIsValidated
  <2> QED BY <2>2, <2>3, <2>4 DEF Validated
<1>4. CASE EditCommit(h)
  <2> DEFINE r == local[h].revision
  <2>1. /\ r \in Revisions /\ revision[r] # "APPROVED"
        /\ text' = [text EXCEPT ![r] = local[h].text]
        /\ UNCHANGED <<active, revision, bundle, snapshots, validated>>
    BY <1>1, <1>4 DEF EditCommit, Commit, Shaped, Fresh, Ops
  <2> HIDE DEF r
  <2>2. OneApproved'
    BY <1>1, <2>1 DEF OneApproved
  <2>3. ActiveIsValidated'
    BY <1>1, <2>1 DEF ActiveIsValidated
  <2>4. OutputIsValidated'
    BY <1>1, <2>1 DEF OutputIsValidated
  <2> QED BY <2>2, <2>3, <2>4 DEF Validated
<1>5. CASE SubmitWrite(h) \/ RequestChanges(h) \/ RejectDraft(h)
  <2>1. PICK r \in Revisions, st \in {"IN_REVIEW", "CHANGES_REQUESTED", "WITHDRAWN"} :
          SetRevision(r, st) /\ UNCHANGED <<active, text, bundle, snapshots, validated>>
    <3>1. CASE SubmitWrite(h)
      <4>1. local[h].revision \in Revisions
        BY <1>1, <3>1 DEF SubmitWrite, Commit, Shaped, Ops
      <4> QED BY <3>1, <4>1 DEF SubmitWrite
    <3>2. CASE RequestChanges(h)
      BY <3>2 DEF RequestChanges
    <3>3. CASE RejectDraft(h)
      BY <3>3 DEF RejectDraft
    <3> QED BY <1>5, <3>1, <3>2, <3>3
  <2>2. \A q \in Revisions : revision'[q] = "APPROVED" => revision[q] = "APPROVED"
    BY <1>1, <2>1 DEF SetRevision
  <2>3. OneApproved'
    BY <1>1, <2>1, <2>2 DEF OneApproved
  <2>4. ActiveIsValidated' /\ OutputIsValidated'
    BY <1>1, <2>1 DEF ActiveIsValidated, OutputIsValidated
  <2> QED BY <2>3, <2>4 DEF Validated
<1>6. CASE ApproveWrite(h)
  <2> DEFINE r == local[h].revision
  <2>1. /\ r \in Revisions /\ local[h].active = active /\ local[h].text = text[r]
        /\ revision' = [Superseded(active) EXCEPT ![r] = "APPROVED"] /\ active' = r
        /\ validated' = validated \cup {[revision |-> r, text |-> text[r]]}
        /\ UNCHANGED <<text, bundle, snapshots>>
    BY <1>1, <1>6 DEF ApproveWrite, Commit, Shaped, Fresh, Ops
  <2> HIDE DEF r
  <2>2. \A q \in Revisions : revision'[q] = "APPROVED" => q = r
    <3>1. CASE active = 0
      BY <1>1, <2>1, <3>1, NoticeAssumption DEF Superseded, Revisions
    <3>2. CASE active # 0
      BY <1>1, <2>1, <3>2 DEF Superseded
    <3> QED BY <3>1, <3>2
  <2>3. OneApproved'
    BY <2>1, <2>2 DEF OneApproved
  <2>4. ActiveIsValidated'
    BY <2>1 DEF ActiveIsValidated
  <2>5. OutputIsValidated'
    BY <1>1, <2>1 DEF OutputIsValidated
  <2> QED BY <2>3, <2>4, <2>5 DEF Validated
<1>7. CASE ExportWrite(h)
  <2> DEFINE r == local[h].revision
             t == local[h].text
  <2>1. PICK fs \in {{f} : f \in Formats} \cup {Formats} :
          bundle' = [bundle EXCEPT ![r] = [f \in Formats |-> IF f \in fs THEN t ELSE @[f]]]
    BY <1>7 DEF ExportWrite
  <2>2. /\ r \in Revisions /\ [revision |-> r, text |-> t] \in validated
        /\ UNCHANGED <<active, revision, text, snapshots, validated>>
    BY <1>1, <1>7 DEF ExportWrite, Commit, Shaped, Fresh, Ops
  <2> HIDE DEF r, t
  <2>3. ASSUME NEW q \in Revisions, NEW f \in Formats, bundle'[q][f] # None
        PROVE  [revision |-> q, text |-> bundle'[q][f]] \in validated'
    <3>1. CASE q = r /\ f \in fs
      BY <1>1, <2>1, <2>2, <3>1
    <3>2. CASE ~(q = r /\ f \in fs)
      <4>1. bundle'[q][f] = bundle[q][f]
        BY <1>1, <2>1, <2>2, <3>2
      <4> QED BY <1>1, <2>2, <2>3, <4>1 DEF OutputIsValidated
    <3> QED BY <3>1, <3>2
  <2>4. OutputIsValidated'
    BY <1>1, <2>2, <2>3 DEF OutputIsValidated
  <2>5. OneApproved' /\ ActiveIsValidated'
    BY <1>1, <2>2 DEF OneApproved, ActiveIsValidated
  <2> QED BY <2>4, <2>5 DEF Validated
<1>8. CASE SnapshotWrite(h)
  <2> DEFINE s == [revision |-> local[h].revision, text |-> local[h].text,
                   bundle |-> local[h].bundle]
  <2>1. /\ [revision |-> s.revision, text |-> s.text] \in validated
        /\ [revision |-> s.revision, text |-> s.bundle] \in validated
        /\ snapshots' = snapshots \cup {s}
        /\ UNCHANGED <<active, revision, text, bundle, validated>>
    BY <1>1, <1>8 DEF SnapshotWrite, Commit, Fresh
  <2> HIDE DEF s
  <2>2. OneApproved' /\ ActiveIsValidated' /\ OutputIsValidated'
    BY <1>1, <2>1 DEF OneApproved, ActiveIsValidated, OutputIsValidated
  <2> QED BY <2>2 DEF Validated
<1> QED BY <1>2, <1>3, <1>4, <1>5, <1>6, <1>7, <1>8

LEMMA WritingKeepsCalm ==
  ASSUME IInv, NEW h \in Handlers,
         \/ Assess(h) \/ WithdrawPackage(h) \/ GenerateDraft(h) \/ EditCommit(h) \/ SubmitWrite(h)
         \/ RequestChanges(h) \/ RejectDraft(h) \/ ApproveWrite(h) \/ ExportWrite(h)
         \/ SnapshotWrite(h)
  PROVE  Calm'
<1>1. CASE raced'
  BY <1>1 DEF Calm, OneBusy, WorkIsFresh, OneApproved, ActiveIsValidated, OutputIsValidated
<1>2. CASE ~raced'
  <2>1. Once(h) \/ \E o \in Ops \ {"idle"} : Commit(h, o)
    BY DEF Assess, WithdrawPackage, GenerateDraft, EditCommit, SubmitWrite, RequestChanges,
           RejectDraft, ApproveWrite, ExportWrite, SnapshotWrite, Ops
  <2>2. ~raced /\ OneBusy' /\ WorkIsFresh'
    BY <1>2, <2>1, WriterLeavesIdle
  <2>3. Validated'
    BY <1>2, <2>2, WritingKeepsValidated
  <2> QED BY <2>2, <2>3 DEF Calm, Validated
<1> QED BY <1>1, <1>2

LEMMA InitIInv == Init => IInv
<1>1. Init => Calm
  BY DEF Init, Calm, OneBusy, Busy, WorkIsFresh, Fresh, NoWork, Work, OneApproved,
         ActiveIsValidated, OutputIsValidated
<1> QED BY <1>1, InitBase DEF IInv

LEMMA NextKeepsIInv == IInv /\ [Next]_vars => IInv'
<1> SUFFICES ASSUME IInv, [Next]_vars PROVE Calm'
  BY NextKeepsBase DEF IInv
<1>1. CASE DispatchMoves \/ UNCHANGED vars
  <2>1. UNCHANGED <<rows, local, raced>>
    BY <1>1 DEF DispatchMoves, vars, rows
  <2> QED BY <2>1 DEF IInv, Calm, OneBusy, Busy, WorkIsFresh, Fresh, OneApproved,
                      ActiveIsValidated, OutputIsValidated, rows
<1>2. ASSUME NEW h \in Handlers,
             \/ EditStart(h) \/ SubmitRead(h) \/ ApproveRead(h) \/ ApproveCheck(h)
             \/ ExportRead(h) \/ SnapshotRead(h) \/ Abort(h)
      PROVE  Calm'
  BY <1>2, ReadingKeepsCalm
<1>3. ASSUME NEW h \in Handlers,
             \/ Assess(h) \/ WithdrawPackage(h) \/ GenerateDraft(h) \/ EditCommit(h)
             \/ SubmitWrite(h) \/ RequestChanges(h) \/ RejectDraft(h) \/ ApproveWrite(h)
             \/ ExportWrite(h) \/ SnapshotWrite(h)
      PROVE  Calm'
  BY <1>3, WritingKeepsCalm
<1> QED BY <1>1, <1>2, <1>3 DEF Next

(* Without races one revision at most is approved: an approval supersedes the *)
(* one before it.                                                             *)
THEOREM OneIsApproved == Spec => []OneApproved
<1>1. IInv => OneApproved
  BY DEF IInv, Calm
<1> QED BY <1>1, InitIInv, NextKeepsIInv, PTL DEF Spec

(* Without races nothing is exported, or pinned for dispatch, that an         *)
(* approval did not validate.                                                 *)
THEOREM UnapprovedStays == Spec => []NothingUnapprovedLeaves
<1>1. IInv => NothingUnapprovedLeaves
  <2> SUFFICES ASSUME IInv, ~raced PROVE NothingUnapprovedLeaves
    BY DEF NothingUnapprovedLeaves
  <2> DEFINE Approved(r) == {v.text : v \in {w \in validated : w.revision = r}}
  <2>1. ASSUME NEW r, NEW t, [revision |-> r, text |-> t] \in validated
        PROVE  t \in Approved(r)
    <3> DEFINE v == [revision |-> r, text |-> t]
    <3>1. v \in {w \in validated : w.revision = r} /\ v.text = t
      BY <2>1
    <3> QED BY <3>1
  <2> HIDE DEF Approved
  <2>2. ASSUME NEW r \in Revisions, NEW f \in Formats
        PROVE  bundle[r][f] \in Approved(r) \cup {None}
    BY <2>1 DEF IInv, Calm, OutputIsValidated
  <2>3. ASSUME NEW x \in snapshots
        PROVE  {x.text, x.bundle} \subseteq Approved(x.revision)
    BY <2>1 DEF IInv, Calm, OutputIsValidated
  <2> QED BY <2>2, <2>3 DEF NothingUnapprovedLeaves, Approved
<1> QED BY <1>1, InitIInv, NextKeepsIInv, PTL DEF Spec

(* The package stands for one approved revision. *)
THEOREM ApprovalStaysUnique == Spec => []ApprovalIsUnique
BY ActiveAlwaysApproved, OneIsApproved, PTL DEF ApprovalIsUnique
==============================================================================
