----------------------- MODULE DocumentProcessing_proofs -----------------------
(* Safety of the ingestion worker for every number of runs and requests, any  *)
(* overlap of jobs and any number of faults.                                  *)
EXTENDS DocumentProcessing, FiniteSetTheorems, TLAPS

-----------------------------------------------------------------------------
(* A key that was handed out as verified: its object is the uploaded file and *)
(* lies below the next fresh key, so no later copy lands on it.               *)
Verified(k) == k \in Originals /\ k <= copies /\ object[k] = "original"

(* The key in the version row, and the key each job carries, are the          *)
(* quarantine key or a verified one.                                          *)
KeysVerified ==
  /\ version.key # Quarantine => Verified(version.key)
  /\ \A r \in Runs : local[r].key # Quarantine => Verified(local[r].key)

(* Acceptance puts a promoted key into the row and nothing takes it out.      *)
AcceptedIsPromoted ==
  /\ version.upload = "ACCEPTED" => version.key # Quarantine
  /\ \A r \in Runs : pc[r] = "accept" => local[r].key # Quarantine

(* A job that is about to report its outcome has extracted something.         *)
ExtractedBeforeReport ==
  \A r \in Runs : pc[r] = "finish_run" => artifacts[r] > 0

(* A job writes a verdict or an outcome only after it has one.                *)
KnownBeforeReport ==
  \A r \in Runs :
    /\ pc[r] = "block_version" => local[r].verdict \in {"INFECTED", "ERROR"}
    /\ pc[r] \in {"finish_run", "finish_version", "finish_doc"} => local[r].outcome \in RunOutcomes

(* A job with a tampered payload never gets past the comparison of its ids.   *)
TamperedGoNowhere == \A r \in Tampered : pc[r] \in {"idle", "loaded"} /\ run[r] # "SUCCEEDED"

(* The job of a run that succeeded is not before any statement that writes    *)
(* the run: if it is run again, it sees the status and returns.               *)
SucceededIsLeftAlone ==
  \A r \in Runs : run[r] = "SUCCEEDED" =>
    /\ pc[r] \in {"idle", "loaded", "finish_version", "finish_doc"}
    /\ pc[r] = "loaded" => local[r].saw = "SUCCEEDED"

(* The inductive invariant. *)
IInv ==
  /\ TypeOK
  /\ KeysVerified
  /\ AcceptedIsPromoted
  /\ ExtractedBeforeReport
  /\ KnownBeforeReport
  /\ SucceededHasArtifacts
  /\ TamperedGoNowhere
  /\ SucceededIsLeftAlone

-----------------------------------------------------------------------------
(* The initial state satisfies the inductive invariant. *)
LEMMA InitIInv == Init => IInv
BY ProcessingAssumption
DEF Init, IInv, TypeOK, KeysVerified, AcceptedIsPromoted, ExtractedBeforeReport, KnownBeforeReport,
    SucceededHasArtifacts, TamperedGoNowhere, SucceededIsLeftAlone, Verified, Keys, Originals,
    Quarantine, Contents, RunStatuses, RunOutcomes, DocStatuses, Places, Locals, VersionRows

(* The statements that touch only the run, its job and its program counter.   *)
LEMMA RunSteps ==
  ASSUME IInv, NEW r \in Runs,
         \/ RejectTampered(r) \/ AlreadySucceeded(r) \/ MarkRunning(r) \/ BlockRun(r)
         \/ FinishRun(r) \/ FailRun(r)
  PROVE  IInv'
<1> USE ProcessingAssumption
        DEF IInv, TypeOK, KeysVerified, AcceptedIsPromoted, ExtractedBeforeReport, KnownBeforeReport,
            SucceededHasArtifacts, TamperedGoNowhere, SucceededIsLeftAlone, Verified,
            RunStatuses, RunOutcomes, Places, At, Goto, Return, Quarantine
<1>1. CASE RejectTampered(r)
  BY <1>1 DEF RejectTampered
<1>2. CASE AlreadySucceeded(r)
  BY <1>2 DEF AlreadySucceeded, dbVars
<1>3. CASE MarkRunning(r)
  BY <1>3 DEF MarkRunning
<1>4. CASE BlockRun(r)
  BY <1>4 DEF BlockRun
<1>5. CASE FinishRun(r)
  BY <1>5 DEF FinishRun
<1>6. CASE FailRun(r)
  BY <1>6 DEF FailRun
<1>. QED
  BY <1>1, <1>2, <1>3, <1>4, <1>5, <1>6

(* The statements that write the version row without touching its key.        *)
LEMMA VersionSteps ==
  ASSUME IInv, NEW r \in Runs,
         MarkScanning(r) \/ BlockVersion(r) \/ FinishVersion(r) \/ FailVersion(r)
  PROVE  IInv'
<1> USE DEF At, Goto, Return
<1>1. /\ version' \in VersionRows
      /\ version'.key = version.key
      /\ version'.upload = "ACCEPTED" => version.upload = "ACCEPTED"
  <2> USE DEF IInv, TypeOK, VersionRows, RunOutcomes
  <2>1. CASE MarkScanning(r)
    BY <2>1 DEF MarkScanning
  <2>2. CASE BlockVersion(r)
    BY <2>2 DEF BlockVersion, KnownBeforeReport
  <2>3. CASE FinishVersion(r)
    BY <2>3 DEF FinishVersion, KnownBeforeReport
  <2>4. CASE FailVersion(r)
    BY <2>4 DEF FailVersion
  <2> QED BY <2>1, <2>2, <2>3, <2>4
<1>2. /\ \E p \in {"scan", "block_doc", "finish_doc", "fail_doc"} :
           pc' = [pc EXCEPT ![r] = p] /\ (p = "finish_doc" <=> pc[r] = "finish_version")
      /\ pc[r] \in {"running", "block_version", "finish_version", "fail_version"}
      /\ UNCHANGED <<run, doc, artifacts, object, copies, job, local, req, faults>>
  BY DEF MarkScanning, BlockVersion, FinishVersion, FailVersion
<1>3. TypeOK'
  BY <1>1, <1>2 DEF IInv, TypeOK, Places
<1>4. KeysVerified' /\ SucceededHasArtifacts'
  BY <1>1, <1>2 DEF IInv, KeysVerified, Verified, SucceededHasArtifacts
<1>5. AcceptedIsPromoted' /\ ExtractedBeforeReport' /\ KnownBeforeReport'
  BY <1>1, <1>2 DEF IInv, TypeOK, AcceptedIsPromoted, ExtractedBeforeReport, KnownBeforeReport
<1>6. TamperedGoNowhere' /\ SucceededIsLeftAlone'
  BY <1>2 DEF IInv, TypeOK, TamperedGoNowhere, SucceededIsLeftAlone
<1>. QED
  BY <1>3, <1>4, <1>5, <1>6 DEF IInv

(* The statements that leave run, version and storage alone: a job that only  *)
(* moves on or ends, or writes the document.                                  *)
LEMMA LocalSteps ==
  ASSUME IInv, NEW r \in Runs,
         \/ DownloadRaises(r) \/ ChecksumMismatch(r) \/ AcceptRaises(r)
         \/ BlockDocument(r) \/ FinishDocument(r) \/ FailDocument(r)
         \/ PromotionRaises(r) \/ Crash(r) \/ Raise(r) \/ Redeliver(r)
  PROVE  IInv'
<1>1. /\ \/ \E p \in {"idle", "block_run", "fail_run"} : pc' = [pc EXCEPT ![r] = p]
         \/ UNCHANGED pc
      /\ r \in Tampered => pc'[r] \in {"idle", "loaded"}
      /\ run[r] = "SUCCEEDED" => pc'[r] \in {"idle", pc[r]}
  BY DEF DownloadRaises, ChecksumMismatch, AcceptRaises, BlockDocument, FinishDocument,
         FailDocument, PromotionRaises, Crash, Raise, Redeliver, At, Goto, Return, IInv, TypeOK,
         TamperedGoNowhere, SucceededIsLeftAlone
<1>2. /\ job' \in [Runs -> {"absent", "queued", "running", "done"}]
      /\ doc' \in DocStatuses
      /\ faults' \in 0..MaxFaults
  BY ProcessingAssumption
  DEF DownloadRaises, ChecksumMismatch, AcceptRaises, BlockDocument, FinishDocument,
      FailDocument, PromotionRaises, Crash, Raise, Redeliver, At, Goto, Return, Inject, IInv,
      TypeOK, DocStatuses, DocOutcome, KnownBeforeReport, RunOutcomes, dbVars
<1>3. UNCHANGED <<run, version, artifacts, object, copies, local, req>>
  BY DEF DownloadRaises, ChecksumMismatch, AcceptRaises, BlockDocument, FinishDocument,
         FailDocument, PromotionRaises, Crash, Raise, Redeliver, dbVars
<1>4. TypeOK'
  BY <1>1, <1>2, <1>3 DEF IInv, TypeOK, Places
<1>5. KeysVerified' /\ SucceededHasArtifacts'
  BY <1>3 DEF IInv, KeysVerified, Verified, SucceededHasArtifacts
<1>6. AcceptedIsPromoted' /\ ExtractedBeforeReport' /\ KnownBeforeReport'
  BY <1>1, <1>3 DEF IInv, TypeOK, AcceptedIsPromoted, ExtractedBeforeReport, KnownBeforeReport
<1>7. TamperedGoNowhere' /\ SucceededIsLeftAlone'
  BY <1>1, <1>3, ProcessingAssumption DEF IInv, TypeOK, TamperedGoNowhere, SucceededIsLeftAlone
<1>. QED
  BY <1>4, <1>5, <1>6, <1>7 DEF IInv

(* The scanner's verdict decides where the job goes.                          *)
LEMMA ScanStep ==
  ASSUME IInv, NEW r \in Runs, Scan(r)
  PROVE  IInv'
<1>1. PICK v \in {"CLEAN", "INFECTED", "ERROR"} :
        /\ local' = [local EXCEPT ![r].verdict = v]
        /\ pc' = [pc EXCEPT ![r] = IF v # "CLEAN" THEN "block_version"
                                   ELSE IF local[r].key = Quarantine THEN "promote" ELSE "accept"]
  BY DEF Scan, Goto
<1>2. pc[r] = "scan" /\ UNCHANGED <<run, version, doc, artifacts, object, copies, job, req, faults>>
  BY DEF Scan, At, dbVars
<1>3. TypeOK'
  BY <1>1, <1>2 DEF IInv, TypeOK, Places, Locals
<1>4. KeysVerified' /\ SucceededHasArtifacts'
  BY <1>1, <1>2 DEF IInv, TypeOK, KeysVerified, Verified, SucceededHasArtifacts, Locals
<1>5. AcceptedIsPromoted' /\ ExtractedBeforeReport' /\ KnownBeforeReport'
  BY <1>1, <1>2 DEF IInv, TypeOK, AcceptedIsPromoted, ExtractedBeforeReport, KnownBeforeReport,
                    Locals
<1>6. TamperedGoNowhere' /\ SucceededIsLeftAlone'
  BY <1>1, <1>2 DEF IInv, TypeOK, TamperedGoNowhere, SucceededIsLeftAlone
<1>. QED
  BY <1>3, <1>4, <1>5, <1>6 DEF IInv

(* Extraction adds to the run's artifacts before the run is reported.         *)
LEMMA ExtractStep ==
  ASSUME IInv, NEW r \in Runs, Extract(r)
  PROVE  IInv'
<1>1. PICK o \in RunOutcomes : local' = [local EXCEPT ![r].outcome = o]
  BY DEF Extract
<1>2. /\ artifacts' = [artifacts EXCEPT ![r] = artifacts[r] + 1]
      /\ pc[r] = "extract" /\ pc' = [pc EXCEPT ![r] = "finish_run"]
      /\ UNCHANGED <<run, version, doc, object, copies, job, req, faults>>
  BY DEF Extract, At, Goto
<1>3. TypeOK'
  BY <1>1, <1>2 DEF IInv, TypeOK, Places, Locals
<1>4. KeysVerified'
  BY <1>1, <1>2 DEF IInv, TypeOK, KeysVerified, Verified, Locals
<1>5. AcceptedIsPromoted'
  BY <1>1, <1>2 DEF IInv, TypeOK, AcceptedIsPromoted, Locals
<1>6. ExtractedBeforeReport' /\ SucceededHasArtifacts'
  BY <1>2 DEF IInv, TypeOK, ExtractedBeforeReport, SucceededHasArtifacts
<1>7. KnownBeforeReport'
  BY <1>1, <1>2 DEF IInv, TypeOK, KnownBeforeReport, Locals
<1>8. TamperedGoNowhere' /\ SucceededIsLeftAlone'
  BY <1>1, <1>2 DEF IInv, TypeOK, TamperedGoNowhere, SucceededIsLeftAlone
<1>. QED
  BY <1>3, <1>4, <1>5, <1>6, <1>7, <1>8 DEF IInv

(* A job starts: its key is the row's, and what it saw is the run's status.   *)
LEMMA LoadStep ==
  ASSUME IInv, NEW r \in Runs, Load(r)
  PROVE  IInv'
<1>1. /\ local' = [local EXCEPT ![r].key = version.key, ![r].saw = run[r]]
      /\ pc' = [pc EXCEPT ![r] = "loaded"]
      /\ job' = [job EXCEPT ![r] = "running"]
      /\ UNCHANGED <<run, version, doc, artifacts, object, copies, req, faults>>
  BY DEF Load, Goto, dbVars
<1> DEFINE started == [local[r] EXCEPT !.key = version.key, !.saw = run[r]]
<1>2. /\ started \in Locals
      /\ started.key = version.key /\ started.saw = run[r]
  <2>1. local[r] \in Locals /\ run[r] \in RunStatuses /\ version.key \in Keys
    BY DEF IInv, TypeOK, VersionRows
  <2>. QED
    BY <2>1 DEF Locals
<1>2a. local' = [local EXCEPT ![r] = started]
  BY <1>1 DEF IInv, TypeOK, Locals
<1> HIDE DEF started
<1>3. TypeOK'
  <2>1. local' \in [Runs -> Locals]
    BY <1>2, <1>2a DEF IInv, TypeOK
  <2>. QED
    BY <1>1, <2>1 DEF IInv, TypeOK, Places
<1>4. KeysVerified'
  BY <1>1, <1>2, <1>2a DEF IInv, TypeOK, KeysVerified, Verified
<1>5. AcceptedIsPromoted' /\ ExtractedBeforeReport' /\ KnownBeforeReport' /\ SucceededHasArtifacts'
  BY <1>1, <1>2, <1>2a DEF IInv, TypeOK, AcceptedIsPromoted, ExtractedBeforeReport, KnownBeforeReport,
                    SucceededHasArtifacts
<1>6. TamperedGoNowhere' /\ SucceededIsLeftAlone'
  BY <1>1, <1>2, <1>2a DEF IInv, TypeOK, TamperedGoNowhere, SucceededIsLeftAlone
<1>. QED
  BY <1>3, <1>4, <1>5, <1>6 DEF IInv

(* Promotion writes a key no row and no job holds.                            *)
LEMMA PromoteStep ==
  ASSUME IInv, NEW r \in Runs, Promote(r)
  PROVE  IInv'
<1>1. PICK k \in Originals :
        /\ k = copies + 1 /\ k \in Keys /\ k # Quarantine /\ copies' = k
        /\ object' = [object EXCEPT ![k] = object[Quarantine]]
        /\ \/ /\ object[Quarantine] = "original"
              /\ pc' = [pc EXCEPT ![r] = "accept"] /\ local' = [local EXCEPT ![r].key = k]
           \/ pc' = [pc EXCEPT ![r] = "fail_run"] /\ UNCHANGED local
  <2>1. copies + 1 \in Originals /\ copies + 1 \in Keys /\ copies + 1 # Quarantine
    BY ProcessingAssumption DEF Promote, IInv, TypeOK, Keys, Originals, Quarantine
  <2>. QED
    BY <2>1 DEF Promote, Goto
<1>2. pc[r] = "promote" /\ UNCHANGED <<run, version, doc, artifacts, job, req, faults>>
  BY DEF Promote, At, dbVars
<1>3. TypeOK'
  <2>1. Quarantine \in Keys
    BY ProcessingAssumption DEF Keys, Quarantine
  <2>2. object' \in [Keys -> Contents]
    BY <1>1, <2>1 DEF IInv, TypeOK
  <2>3. local' \in [Runs -> Locals]
    <3>0. local[r] \in Locals
      BY DEF IInv, TypeOK
    <3>1. [local[r] EXCEPT !.key = k] \in Locals
      BY <1>1, <3>0 DEF Locals
    <3>. QED
      BY <1>1, <3>1 DEF IInv, TypeOK
  <2>4. pc' \in [Runs -> Places]
    BY <1>1 DEF IInv, TypeOK, Places
  <2>. QED
    BY <1>1, <1>2, <2>2, <2>3, <2>4 DEF IInv, TypeOK
<1>4. KeysVerified'
  <2>1. \A j \in Originals : j <= copies => object'[j] = object[j] /\ j <= copies'
    BY <1>1 DEF IInv, TypeOK, Originals, Keys
  <2>2. object[Quarantine] = "original" => object'[k] = "original" /\ k <= copies'
    BY <1>1 DEF IInv, TypeOK, Originals, Keys
  <2>3. \A q \in Runs : \/ local'[q].key = local[q].key
                        \/ local'[q].key = k /\ object[Quarantine] = "original"
    BY <1>1 DEF IInv, TypeOK, Locals
  <2>. QED
    BY <1>2, <2>1, <2>2, <2>3 DEF IInv, KeysVerified, Verified
<1>5. AcceptedIsPromoted'
  BY <1>1, <1>2 DEF IInv, TypeOK, AcceptedIsPromoted, Locals
<1>6. ExtractedBeforeReport' /\ KnownBeforeReport' /\ SucceededHasArtifacts'
  <2>1. \A q \in Runs : /\ local'[q].verdict = local[q].verdict
                        /\ local'[q].outcome = local[q].outcome
                        /\ local'[q].saw = local[q].saw
    BY <1>1 DEF IInv, TypeOK, Locals
  <2>. QED
    BY <1>1, <1>2, <2>1 DEF IInv, TypeOK, ExtractedBeforeReport, KnownBeforeReport,
                            SucceededHasArtifacts
<1>7. TamperedGoNowhere' /\ SucceededIsLeftAlone'
  <2>1. r \notin Tampered /\ run[r] # "SUCCEEDED"
    BY <1>2 DEF IInv, TamperedGoNowhere, SucceededIsLeftAlone
  <2>2. \A q \in Runs \ {r} : pc'[q] = pc[q] /\ local'[q] = local[q]
    BY <1>1 DEF IInv, TypeOK
  <2>. QED
    BY <1>2, <2>1, <2>2, ProcessingAssumption DEF IInv, TamperedGoNowhere, SucceededIsLeftAlone
<1>. QED
  BY <1>3, <1>4, <1>5, <1>6, <1>7 DEF IInv

(* Acceptance moves the job's key into the row.                               *)
LEMMA AcceptStep ==
  ASSUME IInv, NEW r \in Runs, Accept(r)
  PROVE  IInv'
<1>1. /\ version' = [version EXCEPT !.malware = "CLEAN", !.upload = "ACCEPTED",
                                    !.key = local[r].key]
      /\ pc[r] = "accept" /\ pc' = [pc EXCEPT ![r] = "extract"]
      /\ UNCHANGED <<run, doc, artifacts, object, copies, job, local, req, faults>>
  BY DEF Accept, At, Goto
<1>2. version' \in VersionRows /\ version'.key = local[r].key
  BY <1>1 DEF IInv, TypeOK, Locals, VersionRows
<1>3. TypeOK'
  BY <1>1, <1>2 DEF IInv, TypeOK, Places
<1>4. KeysVerified' /\ AcceptedIsPromoted'
  BY <1>1, <1>2 DEF IInv, TypeOK, KeysVerified, Verified, AcceptedIsPromoted
<1>5. ExtractedBeforeReport' /\ KnownBeforeReport' /\ SucceededHasArtifacts'
  BY <1>1 DEF IInv, TypeOK, ExtractedBeforeReport, KnownBeforeReport, SucceededHasArtifacts
<1>6. TamperedGoNowhere' /\ SucceededIsLeftAlone'
  BY <1>1 DEF IInv, TypeOK, TamperedGoNowhere, SucceededIsLeftAlone
<1>. QED
  BY <1>3, <1>4, <1>5, <1>6 DEF IInv

(* Anything may happen to the quarantine object.                              *)
LEMMA OverwriteStep ==
  ASSUME IInv, OverwriteQuarantine
  PROVE  IInv'
<1>1. PICK c \in Contents : object' = [object EXCEPT ![Quarantine] = c]
  BY DEF OverwriteQuarantine
<1>2. /\ faults' \in 0..MaxFaults
      /\ UNCHANGED <<run, version, doc, artifacts, copies, job, pc, local, req>>
  BY ProcessingAssumption DEF OverwriteQuarantine, Inject, IInv, TypeOK, dbVars
<1>3. Quarantine \in Keys /\ Quarantine \notin Originals
  BY ProcessingAssumption DEF Keys, Originals, Quarantine
<1>4. TypeOK'
  BY <1>1, <1>2, <1>3 DEF IInv, TypeOK
<1>5. KeysVerified'
  <2>1. \A k \in Originals : object'[k] = object[k]
    BY <1>1, <1>3 DEF IInv, TypeOK, Originals, Keys
  <2>. QED
    BY <1>2, <2>1 DEF IInv, KeysVerified, Verified
<1>. QED
  BY <1>2, <1>4, <1>5
  DEF IInv, AcceptedIsPromoted, ExtractedBeforeReport, KnownBeforeReport, SucceededHasArtifacts,
      TamperedGoNowhere, SucceededIsLeftAlone

(* The web handlers: only a retry touches a run, one that did not exist.      *)
LEMMA WebSteps ==
  ASSUME IInv, NEW q \in Requests, Web(q)
  PROVE  IInv'
<1>1. req' \in [Requests -> [pc : {"new", "read", "done"}, kind : {"none", "retry", "archive"},
                             doc : DocStatuses,
                             result : {"none", "refused", "queued", "threw", "archived"}]]
  BY DEF Web, RetryRead, RetryRefused, RetryWrite, RetryThrows, ArchiveRead, ArchiveWrite,
         ReadDocument, EndRequest, IInv, TypeOK
<1>2. UNCHANGED <<artifacts, object, copies, pc, local, faults>>
  BY DEF Web, RetryRead, RetryRefused, RetryWrite, RetryThrows, ArchiveRead, ArchiveWrite, dbVars
<1>3. CASE UNCHANGED <<run, version, job>> /\ doc' \in DocStatuses
  BY <1>1, <1>2, <1>3
  DEF IInv, TypeOK, KeysVerified, Verified, AcceptedIsPromoted, ExtractedBeforeReport,
      KnownBeforeReport, SucceededHasArtifacts, TamperedGoNowhere, SucceededIsLeftAlone
<1>4. CASE RetryWrite(q)
  <2>1. PICK r \in Runs : run' = [run EXCEPT ![r] = "QUEUED"] /\ job' = [job EXCEPT ![r] = "queued"]
    BY <1>4 DEF RetryWrite
  <2>2. version' = [version EXCEPT !.processing = "QUEUED"] /\ doc' = "PROCESSING"
    BY <1>4 DEF RetryWrite
  <2>3. TypeOK'
    BY <1>1, <1>2, <2>1, <2>2 DEF IInv, TypeOK, VersionRows, DocStatuses, RunStatuses
  <2>4. KeysVerified' /\ AcceptedIsPromoted'
    BY <1>2, <2>2 DEF IInv, TypeOK, KeysVerified, Verified, AcceptedIsPromoted, VersionRows
  <2>5. \A p \in Runs : run'[p] = "SUCCEEDED" => run[p] = "SUCCEEDED"
    BY <2>1 DEF IInv, TypeOK
  <2>. QED
    BY <1>2, <2>3, <2>4, <2>5, ProcessingAssumption
    DEF IInv, ExtractedBeforeReport, KnownBeforeReport, SucceededHasArtifacts, TamperedGoNowhere,
        SucceededIsLeftAlone
<1>5. RetryWrite(q) \/ (UNCHANGED <<run, version, job>> /\ doc' \in DocStatuses)
  BY DEF Web, RetryRead, RetryRefused, RetryThrows, ArchiveRead, ArchiveWrite, IInv, TypeOK, dbVars,
         DocStatuses
<1>. QED
  BY <1>3, <1>4, <1>5

(* Every step preserves the inductive invariant. *)
LEMMA StepIInv == IInv /\ [Next]_vars => IInv'
<1> SUFFICES ASSUME IInv, [Next]_vars
             PROVE  IInv'
  OBVIOUS
<1>1. CASE \E r \in Runs : Work(r) \/ PromotionRaises(r) \/ Crash(r) \/ Raise(r) \/ Redeliver(r)
  <2>1. PICK r \in Runs : Work(r) \/ PromotionRaises(r) \/ Crash(r) \/ Raise(r) \/ Redeliver(r)
    BY <1>1
  <2>. QED
    BY <2>1, RunSteps, VersionSteps, LocalSteps, ScanStep, ExtractStep, LoadStep, PromoteStep,
       AcceptStep
    DEF Work
<1>2. CASE \E q \in Requests : Web(q)
  BY <1>2, WebSteps
<1>3. CASE OverwriteQuarantine
  BY <1>3, OverwriteStep
<1>4. CASE UNCHANGED vars
  BY <1>4
  DEF vars, dbVars, IInv, TypeOK, KeysVerified, Verified, AcceptedIsPromoted,
      ExtractedBeforeReport, KnownBeforeReport, SucceededHasArtifacts, TamperedGoNowhere,
      SucceededIsLeftAlone
<1>. QED
  BY <1>1, <1>2, <1>3, <1>4 DEF Next

-----------------------------------------------------------------------------
(* The inductive invariant holds in every reachable state. *)
THEOREM ProcessingInvariant == Spec => []IInv
BY InitIInv, StepIInv, PTL DEF Spec

(* Every reachable state is well typed. *)
THEOREM ProcessingTyped == Spec => []TypeOK
<1>1. IInv => TypeOK
  BY DEF IInv
<1>. QED
  BY <1>1, ProcessingInvariant, PTL

(* What can be downloaded is the uploaded file, however many runs overlap,    *)
(* crash or are delivered again, and whatever happens to the quarantine key.  *)
THEOREM DownloadsAreVerified == Spec => []DownloadIsVerified
<1>1. IInv => DownloadIsVerified
  BY DEF IInv, DownloadIsVerified, Downloadable, KeysVerified, AcceptedIsPromoted, Verified
<1>. QED
  BY <1>1, ProcessingInvariant, PTL

(* A run reported as succeeded has left artifacts. *)
THEOREM SuccessLeavesArtifacts == Spec => []SucceededHasArtifacts
<1>1. IInv => SucceededHasArtifacts
  BY DEF IInv
<1>. QED
  BY <1>1, ProcessingInvariant, PTL

(* A step from a state of the invariant leaves the runs that succeeded, and   *)
(* their artifacts, as they are: only a job writes its run, and the job of a  *)
(* run that succeeded returns from its first check.                           *)
LEMMA StepKeepsSuccess ==
  ASSUME IInv, [Next]_vars, NEW r \in Runs, run[r] = "SUCCEEDED"
  PROVE  run'[r] = "SUCCEEDED" /\ artifacts'[r] = artifacts[r]
<1>1. /\ r \notin Tampered
      /\ pc[r] \in {"idle", "loaded", "finish_version", "finish_doc"}
      /\ pc[r] = "loaded" => local[r].saw = "SUCCEEDED"
  BY DEF IInv, TamperedGoNowhere, SucceededIsLeftAlone
<1>2. ASSUME NEW p \in Runs, Work(p)
      PROVE  run'[r] = "SUCCEEDED" /\ artifacts'[r] = artifacts[r]
  <2>1. CASE RejectTampered(p) \/ AlreadySucceeded(p) \/ MarkRunning(p) \/ BlockRun(p) \/ FinishRun(p)
             \/ FailRun(p) \/ Extract(p)
    BY <1>1, <2>1
    DEF RejectTampered, AlreadySucceeded, MarkRunning, BlockRun, FinishRun, FailRun, Extract, At,
        IInv, TypeOK, dbVars
  <2>2. CASE UNCHANGED <<run, artifacts>>
    BY <2>2
  <2>. QED
    BY <1>2, <2>1, <2>2
    DEF Work, Load, MarkScanning, DownloadRaises, ChecksumMismatch, Scan, BlockVersion,
        BlockDocument, Promote, Accept, AcceptRaises, FinishVersion, FinishDocument, FailVersion,
        FailDocument, dbVars
<1>3. ASSUME NEW q \in Requests, Web(q)
      PROVE  run'[r] = "SUCCEEDED" /\ artifacts'[r] = artifacts[r]
  BY <1>3
  DEF Web, RetryRead, RetryRefused, RetryWrite, RetryThrows, ArchiveRead, ArchiveWrite, IInv,
      TypeOK, dbVars
<1>4. ASSUME NEW p \in Runs, PromotionRaises(p) \/ Crash(p) \/ Raise(p) \/ Redeliver(p)
      PROVE  run'[r] = "SUCCEEDED" /\ artifacts'[r] = artifacts[r]
  BY <1>4 DEF PromotionRaises, Crash, Raise, Redeliver, dbVars
<1>5. CASE OverwriteQuarantine \/ UNCHANGED vars
  BY <1>5 DEF OverwriteQuarantine, vars, dbVars
<1>. QED
  BY <1>2, <1>3, <1>4, <1>5 DEF Next

(* A run that succeeded is not reopened by a crash, a redelivery or another   *)
(* run, and its artifacts stay as they were.                                  *)
THEOREM SuccessIsFinal == Spec => SucceededIsFinal
<1>1. IInv /\ [Next]_vars =>
        [\A r \in Runs :
           run[r] = "SUCCEEDED" => run'[r] = "SUCCEEDED" /\ artifacts'[r] = artifacts[r]]_vars
  BY StepKeepsSuccess
<1>. QED
  BY <1>1, ProcessingInvariant, PTL DEF Spec, SucceededIsFinal

(* The worker's outputs are sound, whatever overlaps, crashes or is lost. *)
THEOREM OutputsStaySound == Spec => OutputsAreSound
BY DownloadsAreVerified, SuccessLeavesArtifacts, SuccessIsFinal, PTL DEF OutputsAreSound
-----------------------------------------------------------------------------
(* The READY invariant.  It is what docs/threat-models/document-ingestion.md  *)
(* promises, and overlapping retries break it; where requests are served one  *)
(* at a time and no job is run twice it holds, though statements may raise    *)
(* and the quarantine object may be overwritten.                              *)
Sequential == Faults \subseteq {"raise", "overwrite"} /\ MaxInFlight \in 0 .. 1

(* The places of a job before the statement that closes the version.          *)
EarlyPlaces == {"loaded", "running", "scan", "block_version", "promote", "accept", "extract",
                "finish_run", "finish_version", "fail_run", "fail_version"}
Early(r)  == job[r] = "queued" \/ pc[r] \in EarlyPlaces
Accepted  == version.upload = "ACCEPTED" /\ version.malware = "CLEAN" /\ version.key \in Originals
Backed(r) == run[r] = "SUCCEEDED" /\ artifacts[r] > 0

(* Only a running job is between statements, and a run has a job only once it *)
(* exists.                                                                    *)
JobsRest ==
  \A r \in Runs :
    /\ pc[r] # "idle" => job[r] = "running"
    /\ run[r] = "ABSENT" => job[r] = "absent"

(* At most one job has still to close the version, and the version says so.   *)
OneEarly ==
  /\ \A r, s \in Runs : Early(r) /\ Early(s) => r = s
  /\ \A r \in Runs : Early(r) => version.processing \in {"QUEUED", "RUNNING"}

(* A retry that was let in finds the version as it read it.                   *)
OneRequest ==
  /\ InFlight = {} \/ \E q \in Requests : InFlight = {q}
  /\ \A q \in InFlight : req[q].kind = "retry" =>
       version.processing \in {"FAILED", "PARTIALLY_SUCCEEDED"}

(* What a job reports is so: to the version, and then to the document.        *)
ReportsAreBacked ==
  \A r \in Runs :
    /\ pc[r] \in {"extract", "finish_run", "finish_version"} => Accepted
    /\ pc[r] = "finish_version" /\ local[r].outcome = "SUCCEEDED" => Backed(r)
    /\ pc[r] = "finish_doc" /\ local[r].outcome = "SUCCEEDED" => version.processing = "SUCCEEDED"

SuccessIsBacked ==
  /\ version.processing = "SUCCEEDED" => Accepted /\ \E r \in Runs : Backed(r)
  /\ doc = "READY" => version.processing = "SUCCEEDED"

Orderly == JobsRest /\ OneEarly /\ OneRequest /\ ReportsAreBacked /\ SuccessIsBacked

(* The initial state: one queued job, and a version that waits for it.        *)
LEMMA OrderlyBegins == Init => Orderly
<1> SUFFICES ASSUME Init PROVE Orderly
  OBVIOUS
<1> USE ProcessingAssumption
<1>1. JobsRest
  BY DEF Init, JobsRest
<1>2. OneEarly
  BY DEF Init, OneEarly, Early, EarlyPlaces
<1>3. OneRequest
  BY DEF Init, OneRequest, InFlight
<1>4. ReportsAreBacked
  BY DEF Init, ReportsAreBacked
<1>5. SuccessIsBacked
  BY DEF Init, SuccessIsBacked
<1> QED BY <1>1, <1>2, <1>3, <1>4, <1>5 DEF Orderly

(* A run that backs the version goes on backing it.                           *)
LEMMA BackingStays ==
  ASSUME IInv, [Next]_vars, NEW r \in Runs, Backed(r)
  PROVE  Backed(r)'
<1>1. run'[r] = "SUCCEEDED" /\ artifacts'[r] = artifacts[r]
  BY StepKeepsSuccess DEF Backed
<1> QED BY <1>1 DEF Backed

(* A job that goes on, or ends, without a write to the version.               *)
LEMMA JobGoesOn ==
  ASSUME IInv, Orderly, NEW r \in Runs, UNCHANGED <<version, req>>,
         \A s \in Runs : Backed(s) => Backed(s)',
         \A s \in Runs \ {r} :
           job'[s] = job[s] /\ pc'[s] = pc[s] /\ local'[s] = local[s] /\ run'[s] = run[s],
         (pc'[r] # "idle" => job'[r] = "running") /\ run'[r] # "ABSENT",
         Early(r)' => Early(r),
         pc'[r] \in {"extract", "finish_run", "finish_version"} => Accepted,
         pc'[r] = "finish_version" /\ local'[r].outcome = "SUCCEEDED" => Backed(r)',
         pc'[r] # "finish_doc",
         doc' = "READY" => doc = "READY" \/ version.processing = "SUCCEEDED"
  PROVE  Orderly'
<1>1. \A s \in Runs : Early(s)' => Early(s)
  BY DEF Early
<1>2. OneEarly'
  BY <1>1 DEF Orderly, OneEarly
<1>3. OneRequest'
  BY DEF Orderly, OneRequest, InFlight
<1>4. ReportsAreBacked'
  <2> SUFFICES ASSUME NEW s \in Runs
               PROVE  /\ pc'[s] \in {"extract", "finish_run", "finish_version"} => Accepted'
                      /\ pc'[s] = "finish_version" /\ local'[s].outcome = "SUCCEEDED" => Backed(s)'
                      /\ pc'[s] = "finish_doc" /\ local'[s].outcome = "SUCCEEDED" =>
                           version'.processing = "SUCCEEDED"
    BY DEF ReportsAreBacked
  <2>1. Accepted' <=> Accepted
    BY DEF Accepted
  <2>2. CASE s = r
    BY <2>1, <2>2
  <2>3. CASE s # r
    BY <2>1, <2>3 DEF Orderly, ReportsAreBacked
  <2> QED BY <2>2, <2>3
<1>5. SuccessIsBacked'
  BY DEF Orderly, SuccessIsBacked, Accepted
<1>6. JobsRest'
  BY DEF Orderly, JobsRest
<1> QED BY <1>2, <1>3, <1>4, <1>5, <1>6 DEF Orderly

(* The one early job writes the version: until it has closed it nobody else   *)
(* will, and nothing has succeeded yet.                                       *)
LEMMA EarlyJobWrites ==
  ASSUME IInv, Orderly, NEW r \in Runs, Early(r),
         UNCHANGED <<run, artifacts, req, doc, local, job>>,
         \A s \in Runs \ {r} : pc'[s] = pc[s],
         pc[r] # "idle",
         Early(r)' => version'.processing \in {"QUEUED", "RUNNING"},
         version'.processing = "SUCCEEDED" => Accepted' /\ Backed(r),
         pc'[r] \in {"extract", "finish_run", "finish_version"} => Accepted',
         pc'[r] # "finish_version",
         pc'[r] = "finish_doc" /\ local[r].outcome = "SUCCEEDED" => version'.processing = "SUCCEEDED"
  PROVE  Orderly'
<1>1. /\ version.processing \in {"QUEUED", "RUNNING"}
      /\ \A s \in Runs \ {r} : ~Early(s)
  BY DEF Orderly, OneEarly
<1>2. \A s \in Runs \ {r} : ~Early(s)'
  BY <1>1 DEF Early
<1>3. OneEarly'
  BY <1>2 DEF OneEarly
<1>4. OneRequest'
  BY <1>1 DEF Orderly, OneRequest, InFlight
<1>5. ReportsAreBacked'
  <2> SUFFICES ASSUME NEW s \in Runs
               PROVE  /\ pc'[s] \in {"extract", "finish_run", "finish_version"} => Accepted'
                      /\ pc'[s] = "finish_version" /\ local'[s].outcome = "SUCCEEDED" => Backed(s)'
                      /\ pc'[s] = "finish_doc" /\ local'[s].outcome = "SUCCEEDED" =>
                           version'.processing = "SUCCEEDED"
    BY DEF ReportsAreBacked
  <2>1. CASE s = r
    BY <2>1
  <2>2. CASE s # r
    BY <1>1, <2>2 DEF Orderly, ReportsAreBacked, Early, EarlyPlaces
  <2> QED BY <2>1, <2>2
<1>6. SuccessIsBacked'
  <2>1. doc' # "READY"
    BY <1>1 DEF Orderly, SuccessIsBacked
  <2>2. Backed(r) => Backed(r)'
    BY DEF Backed
  <2> QED BY <2>1, <2>2 DEF SuccessIsBacked
<1>7. JobsRest'
  BY DEF Orderly, JobsRest
<1> QED BY <1>3, <1>4, <1>5, <1>6, <1>7 DEF Orderly

(* The statements of a job that write the version.                            *)
LEMMA VersionWritesOrderly ==
  ASSUME IInv, Orderly, NEW r \in Runs,
         MarkScanning(r) \/ BlockVersion(r) \/ Accept(r) \/ FinishVersion(r) \/ FailVersion(r)
  PROVE  Orderly'
<1>t. /\ pc \in [Runs -> Places] /\ version \in VersionRows /\ local \in [Runs -> Locals]
  BY DEF IInv, TypeOK
<1>j. pc[r] # "idle" => job[r] # "queued"
  BY DEF Orderly, JobsRest
<1>1. CASE MarkScanning(r)
  <2>1. /\ pc[r] = "running" /\ pc' = [pc EXCEPT ![r] = "scan"]
        /\ version' = [version EXCEPT !.processing = "RUNNING", !.malware = "SCANNING"]
        /\ UNCHANGED <<run, doc, artifacts, job, local, req>>
    BY <1>1 DEF MarkScanning, At, Goto
  <2>2. /\ pc'[r] = "scan" /\ version'.processing = "RUNNING"
        /\ \A s \in Runs \ {r} : pc'[s] = pc[s]
    BY <1>t, <2>1 DEF VersionRows
  <2>3. Early(r)
    BY <2>1 DEF Early, EarlyPlaces
  <2> QED BY <2>1, <2>2, <2>3, EarlyJobWrites
<1>2. CASE BlockVersion(r)
  <2>1. /\ pc[r] = "block_version" /\ pc' = [pc EXCEPT ![r] = "block_doc"]
        /\ version' = [version EXCEPT !.malware = local[r].verdict, !.processing = "FAILED",
                                      !.upload = "REJECTED"]
        /\ UNCHANGED <<run, doc, artifacts, job, local, req>>
    BY <1>2 DEF BlockVersion, At, Goto
  <2>2. /\ pc'[r] = "block_doc" /\ version'.processing = "FAILED"
        /\ \A s \in Runs \ {r} : pc'[s] = pc[s]
    BY <1>t, <2>1 DEF VersionRows
  <2>3. Early(r) /\ ~Early(r)'
    BY <1>j, <2>1, <2>2 DEF Early, EarlyPlaces
  <2> QED BY <2>1, <2>2, <2>3, EarlyJobWrites
<1>3. CASE Accept(r)
  <2>1. /\ pc[r] = "accept" /\ pc' = [pc EXCEPT ![r] = "extract"]
        /\ version' = [version EXCEPT !.malware = "CLEAN", !.upload = "ACCEPTED",
                                      !.key = local[r].key]
        /\ UNCHANGED <<run, doc, artifacts, job, local, req>>
    BY <1>3 DEF Accept, At, Goto
  <2>2. Early(r)
    BY <2>1 DEF Early, EarlyPlaces
  <2>3. version.processing \in {"QUEUED", "RUNNING"}
    BY <2>2 DEF Orderly, OneEarly
  <2>4. local[r].key \in Originals
    BY <2>1 DEF IInv, AcceptedIsPromoted, KeysVerified, Verified
  <2>5. /\ pc'[r] = "extract" /\ version'.processing = version.processing
        /\ Accepted' /\ \A s \in Runs \ {r} : pc'[s] = pc[s]
    BY <1>t, <2>1, <2>4 DEF VersionRows, Accepted
  <2> QED BY <2>1, <2>2, <2>3, <2>5, EarlyJobWrites
<1>4. CASE FinishVersion(r)
  <2>1. /\ pc[r] = "finish_version" /\ pc' = [pc EXCEPT ![r] = "finish_doc"]
        /\ version' = [version EXCEPT !.processing = local[r].outcome]
        /\ UNCHANGED <<run, doc, artifacts, job, local, req>>
    BY <1>4 DEF FinishVersion, At, Goto
  <2>2. /\ pc'[r] = "finish_doc" /\ version'.processing = local[r].outcome
        /\ version'.upload = version.upload /\ version'.malware = version.malware
        /\ version'.key = version.key
        /\ \A s \in Runs \ {r} : pc'[s] = pc[s]
    BY <1>t, <2>1 DEF VersionRows
  <2>3. Accepted /\ (local[r].outcome = "SUCCEEDED" => Backed(r))
    BY <2>1 DEF Orderly, ReportsAreBacked
  <2>4. Accepted'
    BY <2>2, <2>3 DEF Accepted
  <2>5. Early(r) /\ ~Early(r)'
    BY <1>j, <2>1, <2>2 DEF Early, EarlyPlaces
  <2> QED BY <2>1, <2>2, <2>3, <2>4, <2>5, EarlyJobWrites
<1>5. CASE FailVersion(r)
  <2>1. /\ pc[r] = "fail_version" /\ pc' = [pc EXCEPT ![r] = "fail_doc"]
        /\ version' = [version EXCEPT !.processing = "FAILED"]
        /\ UNCHANGED <<run, doc, artifacts, job, local, req>>
    BY <1>5 DEF FailVersion, At, Goto
  <2>2. /\ pc'[r] = "fail_doc" /\ version'.processing = "FAILED"
        /\ \A s \in Runs \ {r} : pc'[s] = pc[s]
    BY <1>t, <2>1 DEF VersionRows
  <2>3. Early(r) /\ ~Early(r)'
    BY <1>j, <2>1, <2>2 DEF Early, EarlyPlaces
  <2> QED BY <2>1, <2>2, <2>3, EarlyJobWrites
<1> QED BY <1>1, <1>2, <1>3, <1>4, <1>5

(* The statements of a job that leave the version alone.                      *)
LEMMA OtherStatementsOrderly ==
  ASSUME IInv, Orderly, NEW r \in Runs, [Next]_vars,
         \/ Load(r) \/ RejectTampered(r) \/ AlreadySucceeded(r) \/ MarkRunning(r)
         \/ DownloadRaises(r) \/ ChecksumMismatch(r) \/ Scan(r) \/ BlockDocument(r) \/ BlockRun(r)
         \/ Promote(r) \/ PromotionRaises(r) \/ AcceptRaises(r) \/ Extract(r) \/ FinishRun(r)
         \/ FinishDocument(r) \/ FailRun(r) \/ FailDocument(r) \/ Raise(r)
  PROVE  Orderly'
<1> USE DEF At, Goto, Return, dbVars
<1>t. /\ pc \in [Runs -> Places] /\ job \in [Runs -> {"absent", "queued", "running", "done"}]
      /\ run \in [Runs -> RunStatuses] /\ local \in [Runs -> Locals] /\ artifacts \in [Runs -> Nat]
  BY DEF IInv, TypeOK
<1>b. \A s \in Runs : Backed(s) => Backed(s)'
  BY BackingStays
<1>j. /\ pc[r] # "idle" => job[r] = "running"
      /\ run[r] = "ABSENT" => job[r] = "absent"
  BY DEF Orderly, JobsRest
<1>e. /\ pc[r] \in EarlyPlaces => Early(r)
      /\ job[r] = "queued" => Early(r)
      /\ job'[r] \notin {"queued"} /\ pc'[r] \notin EarlyPlaces => ~Early(r)'
  BY DEF Early
<1>1. CASE Load(r)
  <2>1. /\ job[r] = "queued" /\ job' = [job EXCEPT ![r] = "running"]
        /\ pc' = [pc EXCEPT ![r] = "loaded"]
        /\ \A s \in Runs \ {r} : local'[s] = local[s]
        /\ UNCHANGED <<run, doc, version, req>>
    BY <1>1, <1>t DEF Load, Locals
  <2>2. /\ job'[r] = "running" /\ pc'[r] = "loaded"
        /\ \A s \in Runs \ {r} : job'[s] = job[s] /\ pc'[s] = pc[s]
    BY <1>t, <2>1
  <2> QED BY <1>b, <1>j, <1>e, <2>1, <2>2, JobGoesOn
<1>2. CASE RejectTampered(r) \/ AlreadySucceeded(r) \/ DownloadRaises(r) \/ BlockRun(r)
           \/ AcceptRaises(r) \/ FailDocument(r) \/ FinishDocument(r) \/ Raise(r)
  <2>1. /\ job[r] = "running" /\ job' = [job EXCEPT ![r] = "done"]
        /\ pc' = [pc EXCEPT ![r] = "idle"]
        /\ UNCHANGED <<version, req, local>>
    BY <1>2, <1>j
    DEF RejectTampered, AlreadySucceeded, DownloadRaises, BlockRun, AcceptRaises, FailDocument,
        FinishDocument, Raise
  <2>2. /\ job'[r] = "done" /\ pc'[r] = "idle"
        /\ \A s \in Runs \ {r} : job'[s] = job[s] /\ pc'[s] = pc[s]
    BY <1>t, <2>1
  <2>3. /\ run'[r] # "ABSENT"
        /\ \A s \in Runs \ {r} : run'[s] = run[s]
    BY <1>2, <1>t, <1>j, <2>1
    DEF RejectTampered, AlreadySucceeded, DownloadRaises, BlockRun, AcceptRaises, FailDocument,
        FinishDocument, Raise
  <2>4. doc' = "READY" => doc = "READY" \/ version.processing = "SUCCEEDED"
    <3>1. CASE FinishDocument(r)
      <4>1. pc[r] = "finish_doc" /\ doc' = DocOutcome[local[r].outcome]
        BY <3>1 DEF FinishDocument
      <4>2. local[r].outcome \in RunOutcomes
        BY <4>1 DEF IInv, KnownBeforeReport
      <4>3. doc' = "READY" => local[r].outcome = "SUCCEEDED"
        BY <4>1, <4>2 DEF DocOutcome, RunOutcomes
      <4> QED BY <4>1, <4>3 DEF Orderly, ReportsAreBacked
    <3>2. CASE ~FinishDocument(r)
      BY <1>2, <3>2
      DEF RejectTampered, AlreadySucceeded, DownloadRaises, BlockRun, AcceptRaises, FailDocument,
          Raise
    <3> QED BY <3>1, <3>2
  <2> QED BY <1>b, <1>e, <2>1, <2>2, <2>3, <2>4, JobGoesOn DEF EarlyPlaces
<1>3. CASE MarkRunning(r) \/ ChecksumMismatch(r) \/ Scan(r) \/ BlockDocument(r) \/ Promote(r)
           \/ PromotionRaises(r) \/ FailRun(r)
  <2>1. /\ pc[r] \in EarlyPlaces \cup {"block_doc"}
        /\ \E p \in (EarlyPlaces \ {"extract", "finish_run", "finish_version"}) \cup {"block_run"} :
             /\ pc' = [pc EXCEPT ![r] = p]
             /\ pc[r] = "block_doc" => p = "block_run"
        /\ UNCHANGED <<version, req, job>>
    BY <1>3
    DEF MarkRunning, ChecksumMismatch, Scan, BlockDocument, Promote, PromotionRaises, FailRun,
        EarlyPlaces
  <2>2. /\ pc[r] # "idle" /\ pc'[r] \notin {"extract", "finish_run", "finish_version", "finish_doc"}
        /\ pc'[r] \in EarlyPlaces => pc[r] \in EarlyPlaces
        /\ \A s \in Runs \ {r} : pc'[s] = pc[s]
    BY <1>t, <2>1 DEF EarlyPlaces
  <2>3. /\ run'[r] # "ABSENT"
        /\ \A s \in Runs \ {r} : run'[s] = run[s]
    BY <1>3, <1>t, <1>j, <2>2
    DEF MarkRunning, ChecksumMismatch, Scan, BlockDocument, Promote, PromotionRaises, FailRun
  <2>4. \A s \in Runs \ {r} : local'[s] = local[s]
    BY <1>3, <1>t
    DEF MarkRunning, ChecksumMismatch, Scan, BlockDocument, Promote, PromotionRaises, FailRun,
        Locals
  <2>5. doc' = "READY" => doc = "READY"
    BY <1>3
    DEF MarkRunning, ChecksumMismatch, Scan, BlockDocument, Promote, PromotionRaises, FailRun
  <2>6. job'[r] = "running"
    BY <1>j, <2>1, <2>2
  <2>7. Early(r)' => Early(r)
    BY <1>e, <2>2, <2>6
  <2> QED BY <1>b, <2>1, <2>2, <2>3, <2>4, <2>5, <2>6, <2>7, JobGoesOn
<1>4. CASE Extract(r) \/ FinishRun(r)
  <2>1. /\ pc[r] \in {"extract", "finish_run"}
        /\ \E p \in {"finish_run", "finish_version"} : pc' = [pc EXCEPT ![r] = p]
        /\ UNCHANGED <<version, doc, req, job>>
    BY <1>4 DEF Extract, FinishRun
  <2>2. /\ pc'[r] \in {"finish_run", "finish_version"}
        /\ \A s \in Runs \ {r} : pc'[s] = pc[s]
    BY <1>t, <2>1
  <2>3. Accepted
    BY <2>1 DEF Orderly, ReportsAreBacked
  <2>4. Early(r)
    BY <2>1 DEF Early, EarlyPlaces
  <2>5. job'[r] = "running"
    BY <1>j, <2>1
  <2>6. /\ run'[r] # "ABSENT"
        /\ \A s \in Runs \ {r} : run'[s] = run[s] /\ local'[s] = local[s]
    <3>1. CASE Extract(r)
      BY <1>t, <1>j, <2>1, <3>1 DEF Extract
    <3>2. CASE FinishRun(r)
      <4>1. local[r].outcome \in RunOutcomes
        BY <3>2 DEF FinishRun, IInv, KnownBeforeReport
      <4> QED BY <1>t, <3>2, <4>1 DEF FinishRun, RunOutcomes
    <3> QED BY <1>4, <3>1, <3>2
  <2>7. pc'[r] = "finish_version" /\ local'[r].outcome = "SUCCEEDED" => Backed(r)'
    <3>1. CASE Extract(r)
      BY <1>t, <3>1 DEF Extract
    <3>2. CASE FinishRun(r)
      <4>1. artifacts[r] > 0 /\ artifacts' = artifacts /\ local' = local
        BY <3>2 DEF FinishRun, IInv, ExtractedBeforeReport
      <4>2. run'[r] = local[r].outcome
        BY <1>t, <3>2 DEF FinishRun
      <4> QED BY <4>1, <4>2 DEF Backed
    <3> QED BY <1>4, <3>1, <3>2
  <2> QED BY <1>b, <2>1, <2>2, <2>3, <2>4, <2>5, <2>6, <2>7, JobGoesOn
<1> QED BY <1>1, <1>2, <1>3, <1>4

(* A step of the web tier that leaves the rows and the jobs alone.            *)
LEMMA RequestGoesOn ==
  ASSUME Orderly, UNCHANGED <<run, version, artifacts, job, pc, local>>,
         doc' = doc \/ doc' # "READY", OneRequest'
  PROVE  Orderly'
<1>1. OneEarly' /\ JobsRest'
  BY DEF Orderly, OneEarly, JobsRest, Early
<1>2. ReportsAreBacked'
  BY DEF Orderly, ReportsAreBacked, Accepted, Backed
<1>3. SuccessIsBacked'
  BY DEF Orderly, SuccessIsBacked, Accepted, Backed
<1> QED BY <1>1, <1>2, <1>3 DEF Orderly

(* A request that ends leaves no other in flight.                             *)
LEMMA RequestEnds ==
  ASSUME IInv, Orderly, NEW q \in Requests, req[q].pc = "read", NEW res, EndRequest(q, res)
  PROVE  InFlight' = {}
<1>1. InFlight = {q}
  BY DEF Orderly, OneRequest, InFlight
<1>2. \A p \in Requests \ {q} : req'[p] = req[p]
  BY DEF EndRequest, IInv, TypeOK
<1>3. req'[q].pc = "done"
  BY DEF EndRequest, IInv, TypeOK
<1>4. \A p \in Requests : req'[p].pc # "read"
  <2> TAKE p \in Requests
  <2>1. CASE p = q
    BY <1>3, <2>1
  <2>2. CASE p # q
    BY <1>1, <1>2, <2>2 DEF InFlight
  <2> QED BY <2>1, <2>2
<1> QED BY <1>4 DEF InFlight

(* A request is let in only when no other is between its read and its write.  *)
LEMMA RequestBegins ==
  ASSUME Sequential, IInv, Orderly, NEW q \in Requests, NEW kind, ReadDocument(q, kind)
  PROVE  InFlight' = {q} /\ req'[q].kind = kind
<1>1. InFlight = {}
  <2>1. Cardinality(InFlight) < 1
    <3>1. Cardinality(InFlight) < MaxInFlight
      BY DEF ReadDocument
    <3>2. CASE InFlight = {}
      BY <3>2, FS_EmptySet
    <3>3. CASE \E p \in Requests : InFlight = {p}
      <4>1. Cardinality(InFlight) = 1
        BY <3>3, FS_Singleton
      <4> QED BY <3>1, <4>1 DEF Sequential
    <3> QED BY <3>2, <3>3 DEF Orderly, OneRequest
  <2>2. ASSUME NEW p \in Requests, InFlight = {p} PROVE FALSE
    <3>1. Cardinality(InFlight) = 1
      BY <2>2, FS_Singleton
    <3> QED BY <2>1, <3>1
  <2> QED BY <2>2 DEF Orderly, OneRequest
<1>2. /\ req'[q].pc = "read" /\ req'[q].kind = kind
      /\ \A p \in Requests \ {q} : req'[p] = req[p]
  BY DEF ReadDocument, IInv, TypeOK
<1> QED BY <1>1, <1>2 DEF InFlight

(* The web handlers.                                                          *)
LEMMA WebOrderly ==
  ASSUME Sequential, IInv, Orderly, NEW q \in Requests, Web(q)
  PROVE  Orderly'
<1> USE DEF dbVars
<1>1. CASE RetryRead(q)
  <2>1. /\ InFlight' = {q} /\ req'[q].kind = "retry"
    BY <1>1, RequestBegins DEF RetryRead
  <2>2. OneRequest'
    BY <1>1, <2>1 DEF RetryRead, Retryable, OneRequest
  <2> QED BY <1>1, <2>2, RequestGoesOn DEF RetryRead
<1>2. CASE RetryRefused(q)
  <2>1. \A p \in Requests : req'[p].pc = "read" => req'[p] = req[p]
    BY <1>2 DEF RetryRefused, IInv, TypeOK
  <2>2. \A p \in Requests : req[p].pc = "read" => req'[p] = req[p]
    BY <1>2 DEF RetryRefused, IInv, TypeOK
  <2>3. InFlight' = InFlight /\ \A p \in InFlight : req'[p] = req[p]
    BY <2>1, <2>2 DEF InFlight
  <2>4. OneRequest'
    BY <1>2, <2>3 DEF RetryRefused, Orderly, OneRequest
  <2> QED BY <1>2, <2>4, RequestGoesOn DEF RetryRefused
<1>3. CASE RetryThrows(q)
  <2>1. InFlight' = {}
    BY <1>3, RequestEnds DEF RetryThrows
  <2>2. OneRequest'
    BY <2>1 DEF OneRequest
  <2> QED BY <1>3, <2>2, RequestGoesOn DEF RetryThrows
<1>4. CASE ArchiveRead(q)
  <2>1. InFlight' = {q} /\ req'[q].kind = "archive"
    BY <1>4, RequestBegins DEF ArchiveRead
  <2>2. OneRequest'
    BY <2>1 DEF OneRequest
  <2> QED BY <1>4, <2>2, RequestGoesOn DEF ArchiveRead
<1>5. CASE ArchiveWrite(q)
  <2>1. InFlight' = {}
    BY <1>5, RequestEnds DEF ArchiveWrite
  <2>2. OneRequest'
    BY <2>1 DEF OneRequest
  <2> QED BY <1>5, <2>2, RequestGoesOn DEF ArchiveWrite
<1>6. CASE RetryWrite(q)
  <2>1. PICK r \in Runs : /\ run[r] = "ABSENT"
                          /\ run' = [run EXCEPT ![r] = "QUEUED"]
                          /\ job' = [job EXCEPT ![r] = "queued"]
    BY <1>6 DEF RetryWrite
  <2>2. /\ version' = [version EXCEPT !.processing = "QUEUED"] /\ doc' = "PROCESSING"
        /\ UNCHANGED <<artifacts, pc, local>>
    BY <1>6 DEF RetryWrite
  <2>3. version'.processing = "QUEUED"
    BY <2>2 DEF IInv, TypeOK, VersionRows
  <2>4. version.processing \in {"FAILED", "PARTIALLY_SUCCEEDED"}
    BY <1>6 DEF RetryWrite, Orderly, OneRequest, InFlight
  <2>5. \A s \in Runs : ~Early(s)
    BY <2>4 DEF Orderly, OneEarly
  <2>6. /\ job'[r] = "queued" /\ run'[r] = "QUEUED"
        /\ \A s \in Runs \ {r} : job'[s] = job[s] /\ run'[s] = run[s]
    BY <2>1 DEF IInv, TypeOK
  <2>7. pc[r] = "idle"
    BY <2>1 DEF Orderly, JobsRest
  <2>8. \A s \in Runs \ {r} : ~Early(s)'
    BY <2>2, <2>5, <2>6 DEF Early
  <2>9. OneEarly'
    BY <2>3, <2>8 DEF OneEarly
  <2>10. JobsRest'
    <3> SUFFICES ASSUME NEW s \in Runs
                 PROVE  (pc'[s] # "idle" => job'[s] = "running") /\ (run'[s] = "ABSENT" => job'[s] = "absent")
      BY DEF JobsRest
    <3>1. CASE s = r
      BY <2>2, <2>6, <2>7, <3>1
    <3>2. CASE s # r
      BY <2>2, <2>6, <3>2 DEF Orderly, JobsRest
    <3> QED BY <3>1, <3>2
  <2>11. InFlight' = {}
    BY <1>6, RequestEnds DEF RetryWrite
  <2>12. OneRequest'
    BY <2>11 DEF OneRequest
  <2>13. ReportsAreBacked'
    <3>1. \A s \in Runs : pc[s] \notin EarlyPlaces
      BY <2>5 DEF Early
    <3>2. \A s \in Runs : ~(pc[s] = "finish_doc" /\ local[s].outcome = "SUCCEEDED")
      BY <2>4 DEF Orderly, ReportsAreBacked
    <3> QED BY <2>2, <3>1, <3>2 DEF ReportsAreBacked, EarlyPlaces
  <2>14. SuccessIsBacked'
    BY <2>2, <2>3 DEF SuccessIsBacked
  <2> QED BY <2>9, <2>10, <2>12, <2>13, <2>14 DEF Orderly
<1> QED BY <1>1, <1>2, <1>3, <1>4, <1>5, <1>6 DEF Web

(* Under these hypotheses every step keeps the order.                         *)
LEMMA OrderlyStep ==
  ASSUME Sequential, IInv, Orderly, [Next]_vars
  PROVE  Orderly'
<1>1. ASSUME NEW r \in Runs, Work(r) \/ PromotionRaises(r) \/ Raise(r)
      PROVE  Orderly'
  BY <1>1, VersionWritesOrderly, OtherStatementsOrderly DEF Work
<1>2. ASSUME NEW r \in Runs, Crash(r) \/ Redeliver(r)
      PROVE  FALSE
  BY <1>2 DEF Crash, Redeliver, Inject, Sequential
<1>3. ASSUME NEW q \in Requests, Web(q)
      PROVE  Orderly'
  BY <1>3, WebOrderly
<1>4. CASE OverwriteQuarantine \/ UNCHANGED vars
  <2>1. UNCHANGED <<run, version, doc, artifacts, job, pc, local, req>>
    BY <1>4 DEF OverwriteQuarantine, vars, dbVars
  <2>2. OneRequest'
    BY <2>1 DEF Orderly, OneRequest, InFlight
  <2> QED BY <2>1, <2>2, RequestGoesOn
<1> QED BY <1>1, <1>2, <1>3, <1>4 DEF Next

(* The READY invariant: a document is READY only while its version is         *)
(* accepted and clean under an originals key and a run that succeeded has     *)
(* left artifacts, for any number of runs, retries and raised statements, as  *)
(* long as no job is run twice and retries and archivings do not overlap.     *)
THEOREM ReadyIsBacked ==
  ASSUME Sequential
  PROVE  Spec => []ReadyInvariant
<1>1. IInv /\ Orderly /\ [Next]_vars => Orderly'
  BY OrderlyStep
<1>2. Orderly => ReadyInvariant
  BY DEF Orderly, SuccessIsBacked, Accepted, Backed, ReadyInvariant
<1>. QED
  BY <1>1, <1>2, OrderlyBegins, ProcessingInvariant, PTL DEF Spec
=============================================================================
