--------------------------- MODULE DocumentUpload ---------------------------
(* Direct-to-storage document upload: apps/web/src/server/services/           *)
(* documents.ts (initiate, complete, cancel), its transition tables           *)
(* (documents/status-transitions.ts) and the operator's reconcile script.     *)
(*                                                                            *)
(* Every handler reads its row first and writes later.  Transactions run at   *)
(* READ COMMITTED and take no row lock on the read, so another request may    *)
(* commit in between: a handler is a Read step that keeps a snapshot and a    *)
(* second step that acts on it.  The first UPDATE locks the session row until *)
(* commit, so what follows it is one step, except in complete: it asks the    *)
(* object store twice, HEAD and then GET, and a client may PUT in between.    *)
(*                                                                            *)
(* One user and one project: the two caps on active uploads are one cap.      *)
EXTENDS Naturals, FiniteSets

CONSTANTS Sessions,     \* upload_session rows, each with its own document and key
          Requests,     \* one-shot handler invocations
          Keys,         \* idempotency keys
          Contents,     \* byte strings a client may PUT
          WrongSize,    \* those whose length is not the declared one
          WrongMagic,   \* those whose leading bytes contradict the media type
          MaxActive,    \* MAX_ACTIVE_UPLOADS_PER_USER / _PER_PROJECT
          MaxInFlight,  \* requests between their read and their write at a time
          None

ASSUME UploadAssumption ==
  /\ WrongSize \subseteq Contents /\ WrongMagic \subseteq Contents
  /\ MaxActive \in Nat \ {0} /\ MaxInFlight \in Nat \ {0}
  /\ IsFiniteSet(Sessions) /\ IsFiniteSet(Requests)
  /\ None \notin Contents /\ None \notin Keys /\ None \notin Sessions

VARIABLES
  session,   \* upload_session.status, "ABSENT" before creation
  keyOf,     \* upload_session.idempotencyKey
  expected,  \* upload_session.expectedSha256
  expired,   \* the sessions whose expiresAt has passed
  object,    \* what the quarantine key holds
  doc,       \* source_document.status
  versions,  \* document_version rows
  pc,        \* progress of each request
  op,        \* what it does, to which session
  seen,      \* the session status it read
  todo,      \* the sessions the reconcile script still has to expire
  result,    \* how it ended
  swapped    \* history: completions whose object was PUT again after their HEAD

rowVars == <<session, keyOf, expected, doc, versions>>
reqVars == <<pc, op, seen, todo, result>>
vars    == <<rowVars, expired, object, reqVars, swapped>>

SessionStatuses == {"INITIATED", "UPLOAD_AUTHORIZED", "UPLOADED", "VALIDATING", "ACCEPTED",
                    "REJECTED", "EXPIRED", "CANCELLED", "FAILED"}
ActiveStatuses  == {"INITIATED", "UPLOAD_AUTHORIZED", "UPLOADED", "VALIDATING"}
Terminal        == {"ACCEPTED", "REJECTED", "EXPIRED", "CANCELLED", "FAILED"}
DocStatuses     == {"UPLOADING", "RECEIVED", "QUARANTINED", "PROCESSING", "READY",
                    "PARTIALLY_PROCESSED", "FAILED", "REJECTED", "SUPERSEDED", "ARCHIVED"}
Decisions       == {"none", "cancel", "keep"}   \* keep: new_occurrence or new_version

(* UPLOAD_SESSION_TRANSITIONS; a missing entry makes the assertion throw. *)
SessionMoves ==
  [INITIATED         |-> {"UPLOAD_AUTHORIZED", "CANCELLED", "FAILED", "EXPIRED"},
   UPLOAD_AUTHORIZED |-> {"UPLOADED", "CANCELLED", "FAILED", "EXPIRED"},
   UPLOADED          |-> {"VALIDATING", "FAILED", "EXPIRED"},
   VALIDATING        |-> {"ACCEPTED", "REJECTED", "FAILED"},
   ACCEPTED  |-> {}, REJECTED |-> {}, EXPIRED |-> {}, CANCELLED |-> {}, FAILED |-> {}]

(* SOURCE_DOCUMENT_TRANSITIONS. *)
DocMoves ==
  [UPLOADING           |-> {"RECEIVED", "QUARANTINED", "REJECTED", "FAILED"},
   RECEIVED            |-> {"QUARANTINED", "PROCESSING", "REJECTED", "FAILED"},
   QUARANTINED         |-> {"PROCESSING", "REJECTED", "FAILED"},
   PROCESSING          |-> {"READY", "PARTIALLY_PROCESSED", "FAILED"},
   READY               |-> {"SUPERSEDED", "ARCHIVED"},
   PARTIALLY_PROCESSED |-> {"READY", "PROCESSING", "FAILED", "ARCHIVED"},
   FAILED              |-> {"PROCESSING", "ARCHIVED", "REJECTED"},
   REJECTED            |-> {"ARCHIVED"},
   SUPERSEDED          |-> {"ARCHIVED"},
   ARCHIVED            |-> {}]

NoOp == [kind |-> "none", on |-> None, decision |-> "none"]

Init ==
  /\ session  = [s \in Sessions |-> "ABSENT"]
  /\ keyOf    = [s \in Sessions |-> None]
  /\ expected = [s \in Sessions |-> None]
  /\ expired  = {}
  /\ object   = [s \in Sessions |-> None]
  /\ doc      = [s \in Sessions |-> "ABSENT"]
  /\ versions = {}
  /\ pc     = [r \in Requests |-> "new"]
  /\ op     = [r \in Requests |-> NoOp]
  /\ seen   = [r \in Requests |-> "ABSENT"]
  /\ todo   = [r \in Requests |-> {}]
  /\ result = [r \in Requests |-> "none"]
  /\ swapped = {}

Active   == {s \in Sessions : session[s] \in ActiveStatuses}
InFlight == {r \in Requests : pc[r] \in {"read", "headed"}}

(* A completion between its HEAD and its commit has the session row locked;   *)
(* every UPDATE of the row waits for it.                                      *)
Locked(s) == \E r \in Requests : pc[r] = "headed" /\ op[r].on = s

(* A request starts by reading; every read is a step of its own. *)
Start(r, kind, on, decision) ==
  /\ pc[r] = "new" /\ Cardinality(InFlight) < MaxInFlight
  /\ pc' = [pc EXCEPT ![r] = "read"]
  /\ op' = [op EXCEPT ![r] = [kind |-> kind, on |-> on, decision |-> decision]]

Doing(r, kind) == pc[r] = "read" /\ op[r].kind = kind

(* It ends by answering; its locals are gone. *)
Finish(r, res) ==
  /\ pc' = [pc EXCEPT ![r] = "done"]
  /\ result' = [result EXCEPT ![r] = res]
  /\ op' = [op EXCEPT ![r] = NoOp]
  /\ seen' = [seen EXCEPT ![r] = "ABSENT"]

SetSession(s, st) == session' = [session EXCEPT ![s] = st]

-----------------------------------------------------------------------------
(* Mutant: the cap is compared with > instead of >=. *)
InitiateCountOffByOne(r) ==
  /\ Start(r, "initiate", None, "none")
  /\ Cardinality(Active) <= MaxActive
  /\ UNCHANGED <<rowVars, expired, object, seen, todo, result, swapped>>

(* initiateDocumentUpload: the count of active uploads is compared with the   *)
(* cap in one statement and the session created in a later one.               *)
InitiateCount(r) ==
  /\ Start(r, "initiate", None, "none")
  /\ Cardinality(Active) < MaxActive
  /\ UNCHANGED <<rowVars, expired, object, seen, todo, result, swapped>>

TooManyUploads(r) ==
  /\ pc[r] = "new" /\ Cardinality(Active) >= MaxActive
  /\ Finish(r, "refused")
  /\ UNCHANGED <<rowVars, expired, object, todo, swapped>>

KeyHolders(k) == {s \in Sessions : k # None /\ keyOf[s] = k}

(* A known key whose session is still open: the same session is returned with *)
(* a fresh upload URL.                                                        *)
InitiateReplay(r) ==
  /\ Doing(r, "initiate")
  /\ \E k \in Keys : \E s \in KeyHolders(k) : session[s] = "UPLOAD_AUTHORIZED" /\ s \notin expired
  /\ Finish(r, "replayed")
  /\ UNCHANGED <<rowVars, expired, object, todo, swapped>>

(* Otherwise a document and a session are inserted; the unique index on       *)
(* (tenant, user, idempotencyKey) rolls the transaction back when the key's   *)
(* session has moved on or was inserted meanwhile.                            *)
InitiateCreate(r) ==
  /\ Doing(r, "initiate")
  /\ \E s \in Sessions, k \in Keys \cup {None}, c \in Contents \cup {None} :
       /\ session[s] = "ABSENT" /\ KeyHolders(k) = {}
       /\ SetSession(s, "UPLOAD_AUTHORIZED")
       /\ keyOf' = [keyOf EXCEPT ![s] = k]
       /\ expected' = [expected EXCEPT ![s] = c]
       /\ doc' = [doc EXCEPT ![s] = "UPLOADING"]
  /\ Finish(r, "created")
  /\ UNCHANGED <<versions, expired, object, todo, swapped>>

InitiateKeyTaken(r) ==
  /\ Doing(r, "initiate")
  /\ \E k \in Keys : \E s \in KeyHolders(k) : session[s] # "UPLOAD_AUTHORIZED" \/ s \in expired
  /\ Finish(r, "rolledBack")
  /\ UNCHANGED <<rowVars, expired, object, todo, swapped>>

(* The client PUTs to the presigned URL, which works until the session's TTL, *)
(* whatever became of the session.                                            *)
Put(s) ==
  /\ session[s] # "ABSENT" /\ s \notin expired
  /\ \E c \in Contents : object[s] # c /\ object' = [object EXCEPT ![s] = c]
  /\ swapped' = swapped \cup {r \in Requests : pc[r] = "headed" /\ op[r].on = s}
  /\ UNCHANGED <<rowVars, expired, reqVars>>

(* The clock passes expiresAt. *)
Expire(s) ==
  /\ session[s] # "ABSENT" /\ s \notin expired
  /\ expired' = expired \cup {s}
  /\ UNCHANGED <<rowVars, object, reqVars, swapped>>

-----------------------------------------------------------------------------
(* completeDocumentUpload *)
CompleteRead(r) ==
  /\ \E s \in Sessions, d \in Decisions :
       /\ session[s] # "ABSENT"
       /\ Start(r, "complete", s, d)
       /\ seen' = [seen EXCEPT ![r] = session[s]]
  /\ UNCHANGED <<rowVars, expired, object, todo, result, swapped>>

CompleteReplay(r) ==
  /\ Doing(r, "complete") /\ seen[r] = "ACCEPTED"
  /\ Finish(r, "replayed")
  /\ UNCHANGED <<rowVars, expired, object, todo, swapped>>

(* Past the deadline the session becomes EXPIRED if the table lets the status *)
(* that was read go there, and the assertion throws otherwise.                *)
CompleteLate(r) ==
  /\ Doing(r, "complete") /\ seen[r] # "ACCEPTED"
  /\ LET s == op[r].on IN
       /\ s \in expired
       /\ IF "EXPIRED" \in SessionMoves[seen[r]]
          THEN ~Locked(s) /\ SetSession(s, "EXPIRED") /\ Finish(r, "expired")
          ELSE UNCHANGED session /\ Finish(r, "threw")
  /\ UNCHANGED <<keyOf, expected, doc, versions, expired, object, todo, swapped>>

(* The statuses complete goes on from: the conflict check lets AUTHORIZED and *)
(* UPLOADED through, and the assertion then needs a move to UPLOADED.         *)
Completable(st) == st \in {"UPLOAD_AUTHORIZED", "UPLOADED"} /\ "UPLOADED" \in SessionMoves[st]

CompleteRefused(r) ==
  /\ Doing(r, "complete") /\ seen[r] # "ACCEPTED" /\ op[r].on \notin expired
  /\ ~Completable(seen[r])
  /\ Finish(r, "conflict")
  /\ UNCHANGED <<rowVars, expired, object, todo, swapped>>

(* The row is locked, and is UPLOADED, then VALIDATING.                       *)
Validating(r) ==
  /\ Doing(r, "complete") /\ Completable(seen[r])
  /\ op[r].on \notin expired /\ ~Locked(op[r].on)

(* headObject throws, because there is no object or for any other reason.     *)
CompleteMissing(r) ==
  /\ Validating(r)
  /\ SetSession(op[r].on, "FAILED") /\ Finish(r, "missing")
  /\ UNCHANGED <<keyOf, expected, doc, versions, expired, object, todo, swapped>>

CompleteWrongSize(r) ==
  /\ Validating(r) /\ object[op[r].on] \in WrongSize
  /\ SetSession(op[r].on, "REJECTED") /\ Finish(r, "rejected")
  /\ UNCHANGED <<keyOf, expected, doc, versions, expired, object, todo, swapped>>

(* HEAD finds an object of the declared size; its bytes are read later.       *)
CompleteHead(r) ==
  /\ Validating(r) /\ object[op[r].on] \notin WrongSize \cup {None}
  /\ pc' = [pc EXCEPT ![r] = "headed"]
  /\ UNCHANGED <<rowVars, expired, object, op, seen, todo, result, swapped>>

(* GET returns what the key holds by now.  Its length is not looked at again. *)
Fetched(r) == pc[r] = "headed"

(* The GET or a later statement throws and the transaction rolls back.        *)
CompleteRollsBack(r) ==
  /\ Fetched(r) /\ Finish(r, "rolledBack")
  /\ UNCHANGED <<rowVars, expired, object, todo, swapped>>

(* Mutant: the session's expectedSha256 is not compared. *)
ChecksumUnchecked(s) == TRUE

(* The digest of the bytes read against the session's expectedSha256. *)
ChecksumOk(s) == expected[s] \in {None, object[s]}

CompleteMismatch(r) ==
  /\ Fetched(r)
  /\ ~ChecksumOk(op[r].on) /\ SetSession(op[r].on, "REJECTED")
  /\ Finish(r, "rejected")
  /\ UNCHANGED <<keyOf, expected, doc, versions, expired, object, todo, swapped>>

(* The request's own clientSha256 disagrees: an error is returned, and the    *)
(* transaction commits with the session left VALIDATING.                      *)
CompleteClientMismatch(r) ==
  /\ Fetched(r)
  /\ ChecksumOk(op[r].on) /\ SetSession(op[r].on, "VALIDATING")
  /\ Finish(r, "clientMismatch")
  /\ UNCHANGED <<keyOf, expected, doc, versions, expired, object, todo, swapped>>

(* Spoofed content: REJECTED, and the object deleted on a best-effort basis;  *)
(* the deletion stays when the commit fails.                                  *)
CompleteSpoofed(r) ==
  /\ Fetched(r)
  /\ LET s == op[r].on IN
       /\ object[s] \in WrongMagic /\ ChecksumOk(s)
       /\ \E commits, deletes \in BOOLEAN :
            /\ IF commits THEN SetSession(s, "REJECTED") /\ Finish(r, "rejected")
                          ELSE UNCHANGED session /\ Finish(r, "rolledBack")
            /\ object' = IF deletes THEN [object EXCEPT ![s] = None] ELSE object
  /\ UNCHANGED <<keyOf, expected, doc, versions, expired, todo, swapped>>

(* Same digest in an accepted version of the project. *)
Duplicate(c) == \E v \in versions : v.sha = c /\ v.upload = "ACCEPTED"

Sound(s) == object[s] # None /\ ChecksumOk(s) /\ object[s] \notin WrongMagic

(* The duplicate is reported and the session committed as VALIDATING. *)
CompleteSurfacesDuplicate(r) ==
  /\ Fetched(r) /\ op[r].decision = "none"
  /\ LET s == op[r].on IN
       /\ Sound(s) /\ Duplicate(object[s])
       /\ SetSession(s, "VALIDATING")
  /\ Finish(r, "duplicate")
  /\ UNCHANGED <<keyOf, expected, doc, versions, expired, object, todo, swapped>>

(* duplicateDecision 'cancel': the assertion that guards the move decides. *)
CompleteCancelsDuplicate(r) ==
  /\ Fetched(r) /\ op[r].decision = "cancel"
  /\ LET s == op[r].on IN
       /\ Sound(s) /\ Duplicate(object[s])
       /\ IF "CANCELLED" \in SessionMoves["VALIDATING"]
          THEN /\ SetSession(s, "CANCELLED") /\ Finish(r, "cancelled")
               /\ object' \in {object, [object EXCEPT ![s] = None]}
          ELSE /\ Finish(r, "threw") /\ UNCHANGED <<session, object>>
  /\ UNCHANGED <<keyOf, expected, doc, versions, expired, todo, swapped>>

(* Mutant: no unique index and no transition assertion. *)
InsertableUnchecked(s) == TRUE

(* What the insert needs: the unique index on (tenantId, storageKey) and the  *)
(* document's transition to QUARANTINED, asserted on a fresh read.            *)
Insertable(s) ==
  /\ \A v \in versions : v.of # s
  /\ "QUARANTINED" \in DocMoves[doc[s]]

(* Mutant: the session is updated outside the transaction of the insert. *)
CompleteAcceptsUnatomically(r) ==
  /\ Fetched(r)
  /\ LET s == op[r].on IN
       /\ Sound(s) /\ (Duplicate(object[s]) => op[r].decision = "keep")
       /\ SetSession(s, "ACCEPTED")
       /\ \/ /\ Insertable(s)
             /\ versions' = versions \cup {[of |-> s, by |-> r, sha |-> object[s],
                                            upload |-> "VALIDATING"]}
             /\ doc' = [doc EXCEPT ![s] = "QUARANTINED"]
             /\ Finish(r, "accepted")
          \/ Finish(r, "rolledBack") /\ UNCHANGED <<versions, doc>>
  /\ UNCHANGED <<keyOf, expected, expired, object, todo, swapped>>

(* Acceptance: version, document, run, session and outbox event in one        *)
(* transaction; the whole of it rolls back when the insert fails.             *)
CompleteAccepts(r) ==
  /\ Fetched(r)
  /\ LET s == op[r].on IN
       /\ Sound(s) /\ (Duplicate(object[s]) => op[r].decision = "keep")
       /\ IF Insertable(s)
          THEN /\ versions' = versions \cup {[of |-> s, by |-> r, sha |-> object[s],
                                              upload |-> "VALIDATING"]}
               /\ doc' = [doc EXCEPT ![s] = "QUARANTINED"]
               /\ SetSession(s, "ACCEPTED") /\ Finish(r, "accepted")
          ELSE /\ Finish(r, "rolledBack") /\ UNCHANGED <<versions, doc, session>>
  /\ UNCHANGED <<keyOf, expected, expired, object, todo, swapped>>

-----------------------------------------------------------------------------
(* cancelDocumentUpload *)
CancelRead(r) ==
  /\ \E s \in Sessions :
       /\ session[s] # "ABSENT"
       /\ Start(r, "cancel", s, "none")
       /\ seen' = [seen EXCEPT ![r] = session[s]]
  /\ UNCHANGED <<rowVars, expired, object, todo, result, swapped>>

CancelNothing(r) ==
  /\ Doing(r, "cancel")
  /\ \/ seen[r] \in {"ACCEPTED", "CANCELLED", "EXPIRED", "REJECTED"} /\ Finish(r, "unchanged")
     \/ seen[r] \notin {"ACCEPTED", "CANCELLED", "EXPIRED", "REJECTED"}
        /\ "CANCELLED" \notin SessionMoves[seen[r]] /\ Finish(r, "threw")
  /\ UNCHANGED <<rowVars, expired, object, todo, swapped>>

(* Mutant: the early return and the assertion are missing.                    *)
CancelWriteUnchecked(r) ==
  /\ Doing(r, "cancel") /\ ~Locked(op[r].on)
  /\ SetSession(op[r].on, "CANCELLED") /\ Finish(r, "cancelled")
  /\ object' = [object EXCEPT ![op[r].on] = None]
  /\ UNCHANGED <<keyOf, expected, doc, versions, expired, todo, swapped>>

CancelWrite(r) ==
  /\ Doing(r, "cancel") /\ "CANCELLED" \in SessionMoves[seen[r]] /\ ~Locked(op[r].on)
  /\ LET s == op[r].on IN
       \E commits, deletes \in BOOLEAN :
         /\ IF commits THEN SetSession(s, "CANCELLED") /\ Finish(r, "cancelled")
                       ELSE UNCHANGED session /\ Finish(r, "rolledBack")
         /\ object' = IF deletes THEN [object EXCEPT ![s] = None] ELSE object
  /\ UNCHANGED <<keyOf, expected, doc, versions, expired, todo, swapped>>

-----------------------------------------------------------------------------
(* reconcile-ingestion --apply: the expired sessions are listed first and     *)
(* updated one by one, each in a statement of its own.                        *)
ReconcileRead(r) ==
  /\ Start(r, "reconcile", None, "none")
  /\ todo' = [todo EXCEPT ![r] = {s \in expired : session[s] \in ActiveStatuses \ {"INITIATED"}}]
  /\ UNCHANGED <<rowVars, expired, object, seen, result, swapped>>

ReconcileWrite(r) ==
  /\ Doing(r, "reconcile")
  /\ \E s \in todo[r] :
       /\ ~Locked(s) /\ SetSession(s, "EXPIRED")
       /\ todo' = [todo EXCEPT ![r] = @ \ {s}]
  /\ UNCHANGED <<keyOf, expected, doc, versions, expired, object, pc, op, seen, result, swapped>>

ReconcileDone(r) ==
  /\ Doing(r, "reconcile") /\ todo[r] = {}
  /\ Finish(r, "reconciled")
  /\ UNCHANGED <<rowVars, expired, object, todo, swapped>>

-----------------------------------------------------------------------------
(* The processing worker, whose inside is DocumentProcessing: it accepts the  *)
(* version under an originals key, or rejects it.                             *)
WorkerSettles(v) ==
  /\ v.upload = "VALIDATING"
  /\ \E ok \in BOOLEAN :
       /\ versions' = (versions \ {v}) \cup
                        {[v EXCEPT !.upload = IF ok THEN "ACCEPTED" ELSE "REJECTED"]}
       /\ doc' = [doc EXCEPT ![v.of] = IF ok THEN "READY" ELSE "REJECTED"]
  /\ UNCHANGED <<session, keyOf, expected, expired, object, reqVars, swapped>>

-----------------------------------------------------------------------------
Initiate(r) ==
  InitiateCount(r) \/ TooManyUploads(r) \/ InitiateReplay(r) \/ InitiateCreate(r)
  \/ InitiateKeyTaken(r)

Complete(r) ==
  \/ CompleteRead(r) \/ CompleteReplay(r) \/ CompleteLate(r) \/ CompleteRefused(r)
  \/ CompleteMissing(r) \/ CompleteWrongSize(r) \/ CompleteHead(r) \/ CompleteRollsBack(r)
  \/ CompleteMismatch(r) \/ CompleteClientMismatch(r) \/ CompleteSpoofed(r)
  \/ CompleteSurfacesDuplicate(r) \/ CompleteCancelsDuplicate(r)
  \/ CompleteAccepts(r)

Cancel(r)    == CancelRead(r) \/ CancelNothing(r) \/ CancelWrite(r)
Reconcile(r) == ReconcileRead(r) \/ ReconcileWrite(r) \/ ReconcileDone(r)

Next ==
  \/ \E r \in Requests : Initiate(r) \/ Complete(r) \/ Cancel(r) \/ Reconcile(r)
  \/ \E s \in Sessions : Put(s) \/ Expire(s)
  \/ \E v \in versions : WorkerSettles(v)

Spec == Init /\ [][Next]_vars

-----------------------------------------------------------------------------
Versions == [of : Sessions, by : Requests, sha : Contents,
             upload : {"VALIDATING", "ACCEPTED", "REJECTED"}]

Operations == [kind : {"none", "initiate", "complete", "cancel", "reconcile"},
               on : Sessions \cup {None}, decision : Decisions]

Results == {"none", "refused", "replayed", "created", "rolledBack", "expired", "threw",
            "conflict", "missing", "rejected", "clientMismatch", "duplicate", "cancelled",
            "accepted", "unchanged", "reconciled"}

(* Type invariant of the rows, the object store and the requests. *)
TypeOK ==
  /\ session \in [Sessions -> SessionStatuses \cup {"ABSENT"}]
  /\ keyOf \in [Sessions -> Keys \cup {None}]
  /\ expected \in [Sessions -> Contents \cup {None}]
  /\ expired \in SUBSET Sessions
  /\ object \in [Sessions -> Contents \cup {None}]
  /\ doc \in [Sessions -> DocStatuses \cup {"ABSENT"}]
  /\ versions \in SUBSET Versions
  /\ pc \in [Requests -> {"new", "read", "headed", "done"}]
  /\ op \in [Requests -> Operations]
  /\ seen \in [Requests -> SessionStatuses \cup {"ABSENT"}]
  /\ todo \in [Requests -> SUBSET Sessions]
  /\ result \in [Requests -> Results]
  /\ swapped \in SUBSET Requests

(* However many completions of a session overlap, one version of its document *)
(* results, hence one processing run and one outbox event.                    *)
OneVersionPerSession ==
  \A v, w \in versions : v.of = w.of => v = w

(* A document has left UPLOADING exactly when a version of it was accepted:   *)
(* no interleaving leaves a document QUARANTINED with nothing to process, or  *)
(* a version whose document still says UPLOADING.                             *)
DocumentMirrorsVersion ==
  \A s \in Sessions : doc[s] \notin {"ABSENT", "UPLOADING"} <=> \E v \in versions : v.of = s

(* A session that says ACCEPTED has its version, whatever else wrote to it.   *)
AcceptedHasVersion ==
  \A s \in Sessions : session[s] = "ACCEPTED" => \E v \in versions : v.of = s

(* Whatever the client PUTs and when, the bytes a version stands for passed   *)
(* the signature check and the checksum its session declared.  The size was   *)
(* checked on what HEAD saw: bytes of another size are accepted only from a   *)
(* client that replaced the object before the GET, and then only if no other  *)
(* checksum was declared.                                                     *)
VersionWasVerified ==
  \A v \in versions :
    /\ v.sha \notin WrongMagic
    /\ expected[v.of] \in {None, v.sha}
    /\ v.sha \in WrongSize => v.by \in swapped

(* Count-then-create lets each concurrent request add one upload beyond the   *)
(* cap, and no more than that.                                                *)
CapHoldsUpToRaces == Cardinality(Active) <= MaxActive + MaxInFlight - 1

(* A session that reached a terminal status stays there: ACCEPTED: [] and the *)
(* other empty rows of UPLOAD_SESSION_TRANSITIONS.                            *)
TerminalIsFinal ==
  [][\A s \in Sessions : session[s] \in Terminal => session'[s] = session[s]]_vars

(* deleteTemporaryObject is "only for unaccepted temporary/quarantine objects *)
(* - never accepted originals": while a version waits for its scan its only   *)
(* bytes are under the quarantine key, and no handler deletes them.           *)
QuarantineKeepsBytes ==
  \A v \in versions : v.upload = "VALIDATING" => object[v.of] # None

(* Session, document and version tell one story, whatever overlaps.           *)
RowsAgree == DocumentMirrorsVersion /\ AcceptedHasVersion

(* Without overlapping handlers an upload that came to an end stays as it is, *)
(* and so do the bytes a version waits for.                                   *)
UploadsAreFinal == []QuarantineKeepsBytes /\ TerminalIsFinal
=============================================================================
