------------------------- MODULE DocumentProcessing -------------------------
(* The ingestion worker: process_document_version in services/                *)
(* document-intelligence/.../jobs/process_document.py, with the handlers of   *)
(* apps/web/src/server/services/documents.ts that touch the same rows: retry, *)
(* archive and authorised download.  One document with one version.           *)
(*                                                                            *)
(* Every db.execute of the worker is a transaction of its own, so every one   *)
(* is a step; a job may die between any two of them.  The web handlers read,  *)
(* then write, at READ COMMITTED.  ARQ (external) runs a job id at most once  *)
(* at a time, re-runs it after a crash, and forgets it after an exception.    *)
EXTENDS Naturals, FiniteSets

CONSTANTS Runs,        \* document_processing_run rows
          FirstRun,    \* the one the upload created
          Tampered,    \* runs whose job payload names another version
          Requests,    \* one-shot retry and archive requests
          MaxInFlight, \* requests between their read and their write at a time
          MaxJobs,     \* jobs running at a time
          MaxCopies,   \* bound on promotions
          Faults,      \* kinds of failure the environment may inject
          MaxFaults    \* bound on their number

ASSUME ProcessingAssumption ==
  /\ FirstRun \in Runs /\ Tampered \subseteq Runs
  /\ MaxInFlight \in Nat /\ MaxJobs \in Nat \ {0}
  /\ MaxCopies \in Nat /\ MaxFaults \in Nat
  /\ Faults \subseteq {"crash", "raise", "redeliver", "overwrite"}

VARIABLES
  run,        \* document_processing_run.status
  version,    \* document_version: upload, malware and processing status, key
  doc,        \* source_document.status
  object,     \* storage: what each key holds
  copies,     \* originals keys handed out so far
  artifacts,  \* extracted_artifact rows of each run
  job,        \* the ARQ job of each run
  pc,         \* next statement of each running job
  local,      \* its local variables
  req,        \* the web requests: progress, kind, what they read, how they ended
  faults

dbVars == <<run, version, doc, artifacts>>
vars   == <<dbVars, object, copies, job, pc, local, req, faults>>

Quarantine == 0
Keys       == 0..MaxCopies
Originals  == 1..MaxCopies
Contents   == {"original", "other", "none"}  \* "original": bytes with the version's sha256

RunStatuses == {"ABSENT", "QUEUED", "RUNNING", "SUCCEEDED", "PARTIALLY_SUCCEEDED", "FAILED",
                "DEAD_LETTERED"}
RunOutcomes == {"SUCCEEDED", "PARTIALLY_SUCCEEDED", "FAILED"}
DocStatuses == {"QUARANTINED", "PROCESSING", "READY", "PARTIALLY_PROCESSED", "FAILED",
                "REJECTED", "ARCHIVED"}

Init ==
  /\ run = [r \in Runs |-> IF r = FirstRun THEN "QUEUED" ELSE "ABSENT"]
  /\ version = [upload |-> "VALIDATING", malware |-> "QUEUED", processing |-> "QUEUED",
                key |-> Quarantine]
  /\ doc = "QUARANTINED"
  /\ object = [k \in Keys |-> IF k = Quarantine THEN "original" ELSE "none"]
  /\ copies = 0
  /\ artifacts = [r \in Runs |-> 0]
  /\ job = [r \in Runs |-> IF r = FirstRun THEN "queued" ELSE "absent"]
  /\ pc = [r \in Runs |-> "idle"]
  /\ local = [r \in Runs |-> [key |-> Quarantine, saw |-> "ABSENT", verdict |-> "none",
                              outcome |-> "none"]]
  /\ req = [q \in Requests |-> [pc |-> "new", kind |-> "none", doc |-> "QUARANTINED",
                                result |-> "none"]]
  /\ faults = 0

Inject(kind) == kind \in Faults /\ faults < MaxFaults /\ faults' = faults + 1

At(r, place)  == pc[r] = place
Goto(r, place) == pc' = [pc EXCEPT ![r] = place]

(* The job function returns, or raises: either way ARQ is done with it. *)
Return(r) ==
  /\ pc' = [pc EXCEPT ![r] = "idle"]
  /\ job' = [job EXCEPT ![r] = "done"]

-----------------------------------------------------------------------------
(* process_document_version                                                   *)

(* Both SELECTs; nothing but this job writes its run. *)
Load(r) ==
  /\ job[r] = "queued" /\ Cardinality({q \in Runs : job[q] = "running"}) < MaxJobs
  /\ job' = [job EXCEPT ![r] = "running"]
  /\ Goto(r, "loaded")
  /\ local' = [local EXCEPT ![r].key = version.key, ![r].saw = run[r]]
  /\ UNCHANGED <<dbVars, object, copies, req, faults>>

RejectTampered(r) ==
  /\ At(r, "loaded") /\ r \in Tampered
  /\ run' = [run EXCEPT ![r] = "DEAD_LETTERED"]
  /\ Return(r)
  /\ UNCHANGED <<version, doc, artifacts, object, copies, local, req, faults>>

AlreadySucceeded(r) ==
  /\ At(r, "loaded") /\ r \notin Tampered /\ local[r].saw = "SUCCEEDED"
  /\ Return(r)
  /\ UNCHANGED <<dbVars, object, copies, local, req, faults>>

MarkRunning(r) ==
  /\ At(r, "loaded") /\ r \notin Tampered /\ local[r].saw # "SUCCEEDED"
  /\ run' = [run EXCEPT ![r] = "RUNNING"]
  /\ Goto(r, "running")
  /\ UNCHANGED <<version, doc, artifacts, object, copies, job, local, req, faults>>

MarkScanning(r) ==
  /\ At(r, "running")
  /\ version' = [version EXCEPT !.processing = "RUNNING", !.malware = "SCANNING"]
  /\ Goto(r, "scan")
  /\ UNCHANGED <<run, doc, artifacts, object, copies, job, local, req, faults>>

(* Download, digest, scan.  A missing object raises; a changed one fails the  *)
(* run; the scanner may answer anything about the bytes it was given.         *)
DownloadRaises(r) ==
  /\ At(r, "scan") /\ object[local[r].key] = "none"
  /\ Return(r)
  /\ UNCHANGED <<dbVars, object, copies, local, req, faults>>

ChecksumMismatch(r) ==
  /\ At(r, "scan") /\ object[local[r].key] = "other"
  /\ Goto(r, "fail_run")
  /\ UNCHANGED <<dbVars, object, copies, job, local, req, faults>>

Scan(r) ==
  /\ At(r, "scan") /\ object[local[r].key] = "original"
  /\ \E v \in {"CLEAN", "INFECTED", "ERROR"} :
       /\ local' = [local EXCEPT ![r].verdict = v]
       /\ Goto(r, IF v # "CLEAN" THEN "block_version"
                  ELSE IF local[r].key = Quarantine THEN "promote" ELSE "accept")
  /\ UNCHANGED <<dbVars, object, copies, job, req, faults>>

(* Not CLEAN: version, document and run are closed, in this order. *)
BlockVersion(r) ==
  /\ At(r, "block_version")
  /\ version' = [version EXCEPT !.malware = local[r].verdict, !.processing = "FAILED",
                                !.upload = "REJECTED"]
  /\ Goto(r, "block_doc")
  /\ UNCHANGED <<run, doc, artifacts, object, copies, job, local, req, faults>>

BlockDocument(r) ==
  /\ At(r, "block_doc")
  /\ doc' = "REJECTED"
  /\ Goto(r, "block_run")
  /\ UNCHANGED <<run, version, artifacts, object, copies, job, local, req, faults>>

BlockRun(r) ==
  /\ At(r, "block_run")
  /\ run' = [run EXCEPT ![r] = "FAILED"]
  /\ Return(r)
  /\ UNCHANGED <<version, doc, artifacts, object, copies, local, req, faults>>

(* Mutant: the copy is not read back. *)
PromoteUnchecked(r) ==
  /\ At(r, "promote") /\ copies < MaxCopies
  /\ copies' = copies + 1
  /\ object' = [object EXCEPT ![copies + 1] = object[Quarantine]]
  /\ Goto(r, "accept") /\ local' = [local EXCEPT ![r].key = copies + 1]
  /\ UNCHANGED <<dbVars, job, req, faults>>

(* Copy to a fresh originals key and read the copy back: its digest must be   *)
(* the version's, or the run fails.  The source is not deleted.               *)
Promote(r) ==
  /\ At(r, "promote") /\ copies < MaxCopies
  /\ copies' = copies + 1
  /\ object' = [object EXCEPT ![copies + 1] = object[Quarantine]]
  /\ IF object[Quarantine] = "original"
     THEN Goto(r, "accept") /\ local' = [local EXCEPT ![r].key = copies + 1]
     ELSE Goto(r, "fail_run") /\ UNCHANGED local
  /\ UNCHANGED <<dbVars, job, req, faults>>

PromotionRaises(r) ==
  /\ At(r, "promote") /\ Inject("raise")
  /\ Goto(r, "fail_run")
  /\ UNCHANGED <<dbVars, object, copies, job, local, req>>

(* The trigger prevent_accepted_version_mutation. *)
TriggerAllows(key) == version.upload = "ACCEPTED" => version.key = key

Accept(r) ==
  /\ At(r, "accept") /\ TriggerAllows(local[r].key)
  /\ version' = [version EXCEPT !.malware = "CLEAN", !.upload = "ACCEPTED", !.key = local[r].key]
  /\ Goto(r, "extract")
  /\ UNCHANGED <<run, doc, artifacts, object, copies, job, local, req, faults>>

AcceptRaises(r) ==
  /\ At(r, "accept") /\ ~TriggerAllows(local[r].key)
  /\ Return(r)
  /\ UNCHANGED <<dbVars, object, copies, local, req, faults>>

(* Extraction and its inserts (artifacts and segments count as one). *)
Extract(r) ==
  /\ At(r, "extract")
  /\ artifacts' = [artifacts EXCEPT ![r] = @ + 1]
  /\ \E o \in RunOutcomes : local' = [local EXCEPT ![r].outcome = o]
  /\ Goto(r, "finish_run")
  /\ UNCHANGED <<run, version, doc, object, copies, job, req, faults>>

FinishRun(r) ==
  /\ At(r, "finish_run")
  /\ run' = [run EXCEPT ![r] = local[r].outcome]
  /\ Goto(r, "finish_version")
  /\ UNCHANGED <<version, doc, artifacts, object, copies, job, local, req, faults>>

FinishVersion(r) ==
  /\ At(r, "finish_version")
  /\ version' = [version EXCEPT !.processing = local[r].outcome]
  /\ Goto(r, "finish_doc")
  /\ UNCHANGED <<run, doc, artifacts, object, copies, job, local, req, faults>>

DocOutcome == [SUCCEEDED |-> "READY", PARTIALLY_SUCCEEDED |-> "PARTIALLY_PROCESSED",
               FAILED |-> "FAILED"]

(* Mutant: the document's status is derived from another column. *)
FinishDocumentOptimistic(r) ==
  /\ At(r, "finish_doc")
  /\ doc' = IF local[r].outcome = "FAILED" THEN "FAILED" ELSE "READY"
  /\ Return(r)
  /\ UNCHANGED <<run, version, artifacts, object, copies, local, req, faults>>

(* Mutant: the document's status is not updated at the end. *)
FinishDocumentSkipped(r) ==
  /\ At(r, "finish_doc")
  /\ Return(r)
  /\ UNCHANGED <<dbVars, object, copies, local, req, faults>>

FinishDocument(r) ==
  /\ At(r, "finish_doc")
  /\ doc' = DocOutcome[local[r].outcome]
  /\ Return(r)
  /\ UNCHANGED <<run, version, artifacts, object, copies, local, req, faults>>

(* _fail_run: three transactions. *)
FailRun(r) ==
  /\ At(r, "fail_run")
  /\ run' = [run EXCEPT ![r] = "FAILED"]
  /\ Goto(r, "fail_version")
  /\ UNCHANGED <<version, doc, artifacts, object, copies, job, local, req, faults>>

FailVersion(r) ==
  /\ At(r, "fail_version")
  /\ version' = [version EXCEPT !.processing = "FAILED"]
  /\ Goto(r, "fail_doc")
  /\ UNCHANGED <<run, doc, artifacts, object, copies, job, local, req, faults>>

FailDocument(r) ==
  /\ At(r, "fail_doc")
  /\ doc' = "FAILED"
  /\ Return(r)
  /\ UNCHANGED <<run, version, artifacts, object, copies, local, req, faults>>

Work(r) ==
  \/ Load(r) \/ RejectTampered(r) \/ AlreadySucceeded(r) \/ MarkRunning(r) \/ MarkScanning(r)
  \/ DownloadRaises(r) \/ ChecksumMismatch(r) \/ Scan(r)
  \/ BlockVersion(r) \/ BlockDocument(r) \/ BlockRun(r)
  \/ Promote(r) \/ Accept(r) \/ AcceptRaises(r) \/ Extract(r)
  \/ FinishRun(r) \/ FinishVersion(r) \/ FinishDocument(r)
  \/ FailRun(r) \/ FailVersion(r) \/ FailDocument(r)

-----------------------------------------------------------------------------
(* ARQ and the outbox (external to the worker's code): the process dies and   *)
(* the job is run again; any statement raises and the job is over; a job that *)
(* is over is delivered once more (at-least-once).                            *)
Crash(r) ==
  /\ job[r] = "running" /\ Inject("crash")
  /\ job' = [job EXCEPT ![r] = "queued"]
  /\ Goto(r, "idle")
  /\ UNCHANGED <<dbVars, object, copies, local, req>>

Raise(r) ==
  /\ job[r] = "running" /\ Inject("raise")
  /\ Return(r)
  /\ UNCHANGED <<dbVars, object, copies, local, req>>

Redeliver(r) ==
  /\ job[r] = "done" /\ Inject("redeliver")
  /\ job' = [job EXCEPT ![r] = "queued"]
  /\ UNCHANGED <<dbVars, object, copies, pc, local, req>>

(* The client still holds the presigned PUT URL of the quarantine key, and a  *)
(* cancel that lost a race deletes the object (see DocumentUpload).           *)
OverwriteQuarantine ==
  /\ Inject("overwrite")
  /\ \E c \in Contents : object' = [object EXCEPT ![Quarantine] = c]
  /\ UNCHANGED <<dbVars, copies, job, pc, local, req>>

-----------------------------------------------------------------------------
(* Web handlers                                                               *)
InFlight == {q \in Requests : req[q].pc = "read"}

ReadDocument(q, kind) ==
  /\ req[q].pc = "new" /\ Cardinality(InFlight) < MaxInFlight
  /\ req' = [req EXCEPT ![q] = [pc |-> "read", kind |-> kind, doc |-> doc, result |-> "none"]]

EndRequest(q, res) == req' = [req EXCEPT ![q].pc = "done", ![q].result = res]

(* retryDocumentProcessing: the guards on the version are decided on the read. *)
Retryable == version.malware # "INFECTED" /\ version.processing \in {"FAILED", "PARTIALLY_SUCCEEDED"}

RetryRead(q) ==
  /\ Retryable
  /\ ReadDocument(q, "retry")
  /\ UNCHANGED <<dbVars, object, copies, job, pc, local, faults>>

RetryRefused(q) ==
  /\ req[q].pc = "new" /\ ~Retryable
  /\ req' = [req EXCEPT ![q].pc = "done", ![q].kind = "retry", ![q].result = "refused"]
  /\ UNCHANGED <<dbVars, object, copies, job, pc, local, faults>>

(* The document statuses a retry may start from: those with PROCESSING in     *)
(* SOURCE_DOCUMENT_TRANSITIONS.                                               *)
MayProcess(st) == st \in {"QUARANTINED", "PARTIALLY_PROCESSED", "FAILED"}

(* Run, version, document and outbox event in one transaction. *)
RetryWrite(q) ==
  /\ req[q].pc = "read" /\ req[q].kind = "retry" /\ MayProcess(req[q].doc)
  /\ \E r \in Runs :
       /\ run[r] = "ABSENT"
       /\ run' = [run EXCEPT ![r] = "QUEUED"]
       /\ job' = [job EXCEPT ![r] = "queued"]
  /\ version' = [version EXCEPT !.processing = "QUEUED"]
  /\ doc' = "PROCESSING"
  /\ EndRequest(q, "queued")
  /\ UNCHANGED <<artifacts, object, copies, pc, local, faults>>

RetryThrows(q) ==
  /\ req[q].pc = "read" /\ req[q].kind = "retry" /\ ~MayProcess(req[q].doc)
  /\ EndRequest(q, "threw")
  /\ UNCHANGED <<dbVars, object, copies, job, pc, local, faults>>

(* archiveDocument *)
ArchiveRead(q) ==
  /\ ReadDocument(q, "archive")
  /\ UNCHANGED <<dbVars, object, copies, job, pc, local, faults>>

MayArchive(st) == st \in {"READY", "PARTIALLY_PROCESSED", "FAILED", "REJECTED"}

ArchiveWrite(q) ==
  /\ req[q].pc = "read" /\ req[q].kind = "archive"
  /\ IF MayArchive(req[q].doc)
     THEN doc' = "ARCHIVED" /\ EndRequest(q, "archived")
     ELSE UNCHANGED doc /\ EndRequest(q, IF req[q].doc = "ARCHIVED" THEN "archived" ELSE "threw")
  /\ UNCHANGED <<run, version, artifacts, object, copies, job, pc, local, faults>>

(* createAuthorizedDownload hands out a URL for the version's key. *)
Downloadable == version.upload = "ACCEPTED" /\ version.malware = "CLEAN"

Web(q) ==
  RetryRead(q) \/ RetryRefused(q) \/ RetryWrite(q) \/ RetryThrows(q)
  \/ ArchiveRead(q) \/ ArchiveWrite(q)

-----------------------------------------------------------------------------
Next ==
  \/ \E r \in Runs : Work(r) \/ PromotionRaises(r) \/ Crash(r) \/ Raise(r) \/ Redeliver(r)
  \/ \E q \in Requests : Web(q)
  \/ OverwriteQuarantine

Spec == Init /\ [][Next]_vars

(* The worker process keeps running jobs and their statements. *)
FairSpec == Spec /\ \A r \in Runs : WF_vars(Work(r))

-----------------------------------------------------------------------------
Places == {"idle", "loaded", "running", "scan", "block_version", "block_doc", "block_run",
           "promote", "accept", "extract", "finish_run", "finish_version", "finish_doc",
           "fail_run", "fail_version", "fail_doc"}

Locals == [key : Keys, saw : RunStatuses, verdict : {"none", "CLEAN", "INFECTED", "ERROR"},
           outcome : RunOutcomes \cup {"none"}]

VersionRows == [upload : {"VALIDATING", "ACCEPTED", "REJECTED"},
                malware : {"QUEUED", "SCANNING", "CLEAN", "INFECTED", "ERROR"},
                processing : {"QUEUED", "RUNNING"} \cup RunOutcomes,
                key : Keys]

(* Type invariant of the rows, storage, jobs and requests. *)
TypeOK ==
  /\ run \in [Runs -> RunStatuses]
  /\ version \in VersionRows
  /\ doc \in DocStatuses
  /\ object \in [Keys -> Contents]
  /\ copies \in Keys
  /\ artifacts \in [Runs -> Nat]
  /\ job \in [Runs -> {"absent", "queued", "running", "done"}]
  /\ pc \in [Runs -> Places]
  /\ local \in [Runs -> Locals]
  /\ req \in [Requests -> [pc : {"new", "read", "done"}, kind : {"none", "retry", "archive"},
                           doc : DocStatuses,
                           result : {"none", "refused", "queued", "threw", "archived"}]]
  /\ faults \in 0..MaxFaults

(* What can be downloaded is the file that was uploaded, under an originals   *)
(* key: no overlap of runs, crash, redelivery or overwrite of the quarantine  *)
(* object makes a version downloadable with other bytes (ADR-020, ADR-023).   *)
DownloadIsVerified ==
  Downloadable => version.key \in Originals /\ object[version.key] = "original"

(* A run that succeeded keeps that status through crashes, redeliveries and   *)
(* other runs, and it has left artifacts behind.                              *)
SucceededIsFinal ==
  [][\A r \in Runs :
       run[r] = "SUCCEEDED" => run'[r] = "SUCCEEDED" /\ artifacts'[r] = artifacts[r]]_vars

SucceededHasArtifacts ==
  \A r \in Runs : run[r] = "SUCCEEDED" => artifacts[r] > 0

(* docs/threat-models/document-ingestion.md, "READY invariant".               *)
ReadyInvariant ==
  doc = "READY" =>
    /\ version.upload = "ACCEPTED" /\ version.malware = "CLEAN"
    /\ version.key \in Originals
    /\ \E r \in Runs : run[r] = "SUCCEEDED" /\ artifacts[r] > 0

(* A queued run comes to an end, and the document does not stay in a status   *)
(* that promises more work.                                                   *)
DocumentSettles ==
  doc \in {"QUARANTINED", "PROCESSING"} ~> doc \notin {"QUARANTINED", "PROCESSING"}

(* What the worker leaves to read can be relied on: verified originals, and   *)
(* runs that succeeded for good.                                              *)
OutputsAreSound == [](DownloadIsVerified /\ SucceededHasArtifacts) /\ SucceededIsFinal
=============================================================================
