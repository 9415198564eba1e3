------------------------- MODULE DocumentUpload_proofs -------------------------
(* Safety of the upload handlers for any number of sessions and overlapping   *)
(* requests, whatever the client PUTs and whenever the deadline passes.       *)
EXTENDS DocumentUpload, FiniteSetTheorems, TLAPS

-----------------------------------------------------------------------------
(* A session and its document are inserted together. *)
InsertedTogether == \A s \in Sessions : session[s] = "ABSENT" <=> doc[s] = "ABSENT"

(* A request between its read and its write works on sessions that exist.     *)
(* A completion past its HEAD goes on from a status it may go on from, and    *)
(* unless the client replaced them, the bytes have the size that HEAD saw.    *)
Works(r) ==
  /\ pc[r] \in {"read", "headed"} /\ op[r].kind \in {"complete", "cancel"} =>
       /\ op[r].on \in Sessions /\ session[op[r].on] # "ABSENT"
       /\ seen[r] # "ABSENT"
  /\ pc[r] = "headed" =>
       /\ op[r].kind = "complete" /\ Completable(seen[r])
       /\ r \in swapped \/ object[op[r].on] \notin WrongSize
  /\ \A s \in todo[r] : session[s] # "ABSENT"

WorkedOnExists == \A r \in Requests : Works(r)

(* The inductive invariant. *)
IInv ==
  /\ TypeOK
  /\ OneVersionPerSession
  /\ DocumentMirrorsVersion
  /\ AcceptedHasVersion
  /\ VersionWasVerified
  /\ InsertedTogether
  /\ WorkedOnExists

-----------------------------------------------------------------------------
(* The initial state satisfies the inductive invariant. *)
LEMMA InitIInv == Init => IInv
BY UploadAssumption
DEF Init, IInv, TypeOK, OneVersionPerSession, DocumentMirrorsVersion, AcceptedHasVersion,
    VersionWasVerified, InsertedTogether, WorkedOnExists, SessionStatuses, DocStatuses, Versions,
    Results, Decisions, Operations, NoOp, Works

(* Ending a request keeps the requests well typed. *)
LEMMA FinishTyped ==
  ASSUME TypeOK, NEW r \in Requests, NEW res \in Results, Finish(r, res)
  PROVE  /\ pc' \in [Requests -> {"new", "read", "headed", "done"}] /\ result' \in [Requests -> Results]
         /\ op' \in [Requests -> Operations] /\ seen' \in [Requests -> SessionStatuses \cup {"ABSENT"}]
         /\ pc'[r] = "done" /\ op'[r].kind = "none"
         /\ \A q \in Requests \ {r} : pc'[q] = pc[q] /\ op'[q] = op[q] /\ seen'[q] = seen[q]
BY DEF TypeOK, Finish, NoOp, Operations, Decisions

(* A step that leaves the document and version rows alone, and writes into    *)
(* existing sessions nothing but a status other than ACCEPTED.                *)
Quiet ==
  /\ UNCHANGED <<expected, doc, versions, swapped>>
  /\ \A s \in Sessions : object'[s] \in {object[s], None}
  /\ \A s \in Sessions : \/ session'[s] = session[s]
                         \/ session[s] # "ABSENT" /\ session'[s] \notin {"ABSENT", "ACCEPTED"}

(* A quiet step of one request preserves the invariant if it is well typed    *)
(* and that request works on sessions that exist.                             *)
LEMMA QuietSteps ==
  ASSUME IInv, TypeOK', Quiet, NEW r \in Requests, Works(r)',
         \A q \in Requests \ {r} : /\ pc'[q] = pc[q] /\ op'[q] = op[q]
                                   /\ seen'[q] = seen[q] /\ todo'[q] = todo[q]
  PROVE  IInv'
<1>1. OneVersionPerSession' /\ VersionWasVerified' /\ DocumentMirrorsVersion'
  BY DEF IInv, Quiet, OneVersionPerSession, VersionWasVerified, DocumentMirrorsVersion
<1>2. AcceptedHasVersion' /\ InsertedTogether'
  BY DEF IInv, Quiet, AcceptedHasVersion, InsertedTogether
<1>3. ASSUME NEW q \in Requests \ {r}
      PROVE  Works(q)'
  <2>1. Works(q) /\ todo[q] \in SUBSET Sessions
    BY DEF IInv, WorkedOnExists, TypeOK
  <2>. QED
    BY <2>1, UploadAssumption DEF Works, Quiet
<1>. QED
  BY <1>1, <1>2, <1>3 DEF IInv, WorkedOnExists

(* The reads with which a request starts. *)
LEMMA ReadSteps ==
  ASSUME IInv, NEW r \in Requests,
         InitiateCount(r) \/ CompleteRead(r) \/ CancelRead(r) \/ ReconcileRead(r)
  PROVE  IInv'
<1>1. Quiet
  BY DEF Quiet, InitiateCount, CompleteRead, CancelRead, ReconcileRead, rowVars
<1>1a. UNCHANGED swapped /\ pc'[r] = "read"
  BY DEF InitiateCount, CompleteRead, CancelRead, ReconcileRead, Start, IInv, TypeOK
<1>2. TypeOK /\ Works(r)
  BY DEF IInv, WorkedOnExists
<1>3. CASE InitiateCount(r)
  <2>1. /\ pc' \in [Requests -> {"new", "read", "headed", "done"}]
        /\ op' \in [Requests -> Operations]
        /\ op'[r].kind = "initiate"
        /\ \A q \in Requests \ {r} : op'[q] = op[q] /\ pc'[q] = pc[q]
    BY <1>2, <1>3 DEF InitiateCount, Start, Operations, Decisions, TypeOK
  <2>2. UNCHANGED <<rowVars, expired, object, seen, todo, result>>
    BY <1>3 DEF InitiateCount
  <2>3. TypeOK'
    BY <1>1a, <1>2, <2>1, <2>2 DEF TypeOK, rowVars
  <2>4. Works(r)'
    BY <1>1a, <1>2, <2>1, <2>2 DEF Works, rowVars
  <2>. QED
    BY <1>1, <2>1, <2>2, <2>3, <2>4, QuietSteps
<1>4. CASE CompleteRead(r) \/ CancelRead(r)
  <2>1. PICK s \in Sessions, d \in Decisions, kind \in {"complete", "cancel"} :
          /\ session[s] # "ABSENT"
          /\ Start(r, kind, s, d)
          /\ seen' = [seen EXCEPT ![r] = session[s]]
    BY <1>4 DEF CompleteRead, CancelRead, Decisions
  <2>2. UNCHANGED <<rowVars, expired, object, todo, result>>
    BY <1>4 DEF CompleteRead, CancelRead
  <2>3. /\ pc' \in [Requests -> {"new", "read", "headed", "done"}]
        /\ op' \in [Requests -> Operations]
        /\ op'[r].on = s
        /\ \A q \in Requests \ {r} : op'[q] = op[q] /\ pc'[q] = pc[q]
    BY <1>2, <2>1 DEF Start, Operations, TypeOK
  <2>4. TypeOK'
    BY <1>1a, <1>2, <2>1, <2>2, <2>3 DEF TypeOK, rowVars
  <2>5. Works(r)'
    BY <1>1a, <1>2, <2>1, <2>2, <2>3 DEF TypeOK, Works, rowVars
  <2>6. \A q \in Requests \ {r} : seen'[q] = seen[q]
    BY <1>2, <2>1 DEF TypeOK
  <2>. QED
    BY <1>1, <2>2, <2>3, <2>4, <2>5, <2>6, QuietSteps
<1>5. CASE ReconcileRead(r)
  <2>1. /\ pc' \in [Requests -> {"new", "read", "headed", "done"}]
        /\ op' \in [Requests -> Operations]
        /\ op'[r].kind = "reconcile"
        /\ \A q \in Requests \ {r} : op'[q] = op[q] /\ pc'[q] = pc[q]
    BY <1>2, <1>5 DEF ReconcileRead, Start, Operations, Decisions, TypeOK
  <2>2. /\ todo' = [todo EXCEPT ![r] = {s \in expired : session[s] \in ActiveStatuses \ {"INITIATED"}}]
        /\ UNCHANGED <<rowVars, expired, object, seen, result>>
    BY <1>5 DEF ReconcileRead
  <2>3. TypeOK'
    BY <1>1a, <1>2, <2>1, <2>2 DEF TypeOK, rowVars
  <2>4. Works(r)'
    BY <1>1a, <1>2, <2>1, <2>2 DEF TypeOK, Works, rowVars, ActiveStatuses
  <2>5. \A q \in Requests \ {r} : todo'[q] = todo[q]
    BY <1>2, <2>2 DEF TypeOK
  <2>. QED
    BY <1>1, <2>1, <2>2, <2>3, <2>4, <2>5, QuietSteps
<1>. QED
  BY <1>3, <1>4, <1>5

(* The client's PUT and the passing of the deadline. *)
LEMMA ClientSteps ==
  ASSUME IInv, NEW s \in Sessions, Put(s) \/ Expire(s)
  PROVE  IInv'
<1>1. UNCHANGED <<rowVars, reqVars>> /\ swapped \in SUBSET swapped'
  BY DEF Put, Expire
<1>2. TypeOK'
  BY DEF Put, Expire, IInv, TypeOK, rowVars, reqVars
<1>3. \A r \in Requests : pc[r] = "headed" =>
        r \in swapped' \/ object'[op[r].on] = object[op[r].on]
  BY DEF Put, Expire, IInv, TypeOK, WorkedOnExists, Works
<1>4. WorkedOnExists'
  BY <1>1, <1>3 DEF IInv, WorkedOnExists, Works, rowVars, reqVars
<1>. QED
  BY <1>1, <1>2, <1>4
  DEF IInv, rowVars, reqVars, OneVersionPerSession, DocumentMirrorsVersion, AcceptedHasVersion,
      VersionWasVerified, InsertedTogether

(* The HEAD of a completion: nothing changes but the request's progress.      *)
LEMMA HeadStep ==
  ASSUME IInv, NEW r \in Requests, CompleteHead(r)
  PROVE  IInv'
<1>1. /\ Validating(r) /\ object[op[r].on] \notin WrongSize
      /\ pc' = [pc EXCEPT ![r] = "headed"]
      /\ UNCHANGED <<rowVars, expired, object, op, seen, todo, result, swapped>>
  BY DEF CompleteHead
<1>2. TypeOK /\ Works(r)
  BY DEF IInv, WorkedOnExists
<1>3. TypeOK' /\ \A q \in Requests \ {r} : pc'[q] = pc[q]
  BY <1>1, <1>2 DEF TypeOK, rowVars
<1>4. Works(r)'
  BY <1>1, <1>2 DEF Works, Validating, Doing, rowVars, TypeOK
<1>5. Quiet
  BY <1>1 DEF Quiet, rowVars
<1>. QED
  BY <1>1, <1>3, <1>4, <1>5, QuietSteps

(* The handlers that end without accepting a version: they write at most one  *)
(* status into the session they work on.                                      *)
LEMMA EndSteps ==
  ASSUME IInv, NEW r \in Requests,
         \/ TooManyUploads(r) \/ InitiateReplay(r) \/ InitiateKeyTaken(r)
         \/ CompleteReplay(r) \/ CompleteLate(r) \/ CompleteRefused(r) \/ CompleteMissing(r)
         \/ CompleteWrongSize(r) \/ CompleteRollsBack(r)
         \/ CompleteMismatch(r) \/ CompleteClientMismatch(r) \/ CompleteSpoofed(r)
         \/ CompleteSurfacesDuplicate(r) \/ CompleteCancelsDuplicate(r)
         \/ CancelNothing(r) \/ CancelWrite(r) \/ ReconcileDone(r)
  PROVE  IInv'
<1>1. TypeOK /\ Works(r)
  BY DEF IInv, WorkedOnExists
<1>2. PICK res \in Results : Finish(r, res)
  BY DEF TooManyUploads, InitiateReplay, InitiateKeyTaken, CompleteReplay, CompleteLate,
         CompleteRefused, CompleteMissing, CompleteWrongSize, CompleteRollsBack, CompleteMismatch, CompleteClientMismatch,
         CompleteSpoofed, CompleteSurfacesDuplicate, CompleteCancelsDuplicate, CancelNothing,
         CancelWrite, ReconcileDone, Results
<1>3. UNCHANGED <<keyOf, expected, doc, versions, expired, todo, swapped>>
  BY DEF TooManyUploads, InitiateReplay, InitiateKeyTaken, CompleteReplay, CompleteLate,
         CompleteRefused, CompleteMissing, CompleteWrongSize, CompleteRollsBack, CompleteMismatch, CompleteClientMismatch,
         CompleteSpoofed, CompleteSurfacesDuplicate, CompleteCancelsDuplicate, CancelNothing,
         CancelWrite, ReconcileDone, rowVars
<1>4. \/ UNCHANGED session
      \/ /\ Doing(r, "complete") \/ Doing(r, "cancel") \/ Fetched(r)
         /\ \E st \in {"EXPIRED", "FAILED", "REJECTED", "VALIDATING", "CANCELLED"} :
              SetSession(op[r].on, st)
  BY DEF TooManyUploads, InitiateReplay, InitiateKeyTaken, CompleteReplay, CompleteLate,
         CompleteRefused, CompleteMissing, CompleteWrongSize, CompleteRollsBack, CompleteMismatch, CompleteClientMismatch,
         CompleteSpoofed, CompleteSurfacesDuplicate, CompleteCancelsDuplicate, CancelNothing,
         CancelWrite, ReconcileDone, rowVars, Validating
<1>5. /\ object' \in [Sessions -> Contents \cup {None}]
      /\ \A s \in Sessions : object'[s] \in {object[s], None}
  BY <1>1
  DEF TooManyUploads, InitiateReplay, InitiateKeyTaken, CompleteReplay, CompleteLate,
      CompleteRefused, CompleteMissing, CompleteWrongSize, CompleteRollsBack, CompleteMismatch, CompleteClientMismatch,
      CompleteSpoofed, CompleteSurfacesDuplicate, CompleteCancelsDuplicate, CancelNothing,
      CancelWrite, ReconcileDone, rowVars, Validating, Fetched, Doing, Works, TypeOK
<1>6. /\ session' \in [Sessions -> SessionStatuses \cup {"ABSENT"}]
      /\ \A s \in Sessions : \/ session'[s] = session[s]
                             \/ session[s] # "ABSENT" /\ session'[s] \notin {"ABSENT", "ACCEPTED"}
  BY <1>1, <1>4 DEF SetSession, Doing, Fetched, Works, TypeOK, SessionStatuses
<1>7. /\ pc' \in [Requests -> {"new", "read", "headed", "done"}] /\ result' \in [Requests -> Results]
      /\ op' \in [Requests -> Operations] /\ seen' \in [Requests -> SessionStatuses \cup {"ABSENT"}]
      /\ pc'[r] = "done"
      /\ \A q \in Requests \ {r} : pc'[q] = pc[q] /\ op'[q] = op[q] /\ seen'[q] = seen[q]
  BY <1>1, <1>2, FinishTyped
<1>8. TypeOK'
  BY <1>1, <1>3, <1>5, <1>6, <1>7 DEF TypeOK
<1>9. Works(r)'
  BY <1>1, <1>3, <1>6, <1>7 DEF Works, TypeOK
<1>10. Quiet
  BY <1>3, <1>5, <1>6 DEF Quiet
<1>. QED
  BY <1>3, <1>7, <1>8, <1>9, <1>10, QuietSteps

(* The reconcile script writes EXPIRED into a session it listed.              *)
LEMMA ReconcileStep ==
  ASSUME IInv, NEW r \in Requests, ReconcileWrite(r)
  PROVE  IInv'
<1>1. TypeOK /\ Works(r)
  BY DEF IInv, WorkedOnExists
<1>2. PICK s \in todo[r] : /\ session' = [session EXCEPT ![s] = "EXPIRED"]
                           /\ todo' = [todo EXCEPT ![r] = @ \ {s}]
  BY DEF ReconcileWrite, SetSession
<1>3. UNCHANGED <<keyOf, expected, doc, versions, expired, object, pc, op, seen, result, swapped>>
  BY DEF ReconcileWrite
<1>4. s \in Sessions /\ session[s] # "ABSENT"
  BY <1>1 DEF TypeOK, Works
<1>5. TypeOK'
  BY <1>1, <1>2, <1>3, <1>4 DEF TypeOK, SessionStatuses
<1>6. Quiet
  BY <1>1, <1>2, <1>3, <1>4 DEF Quiet, TypeOK
<1>7. Works(r)' /\ \A q \in Requests \ {r} : todo'[q] = todo[q]
  BY <1>1, <1>2, <1>3, <1>4 DEF Works, TypeOK
<1>. QED
  BY <1>3, <1>5, <1>6, <1>7, QuietSteps

-----------------------------------------------------------------------------
(* A session and its document are inserted: neither has a version yet.        *)
LEMMA CreateStep ==
  ASSUME IInv, NEW r \in Requests, InitiateCreate(r)
  PROVE  IInv'
<1>1. TypeOK /\ Works(r)
  BY DEF IInv, WorkedOnExists
<1>2. PICK s \in Sessions, k \in Keys \cup {None}, c \in Contents \cup {None} :
        /\ session[s] = "ABSENT"
        /\ session' = [session EXCEPT ![s] = "UPLOAD_AUTHORIZED"]
        /\ keyOf' = [keyOf EXCEPT ![s] = k]
        /\ expected' = [expected EXCEPT ![s] = c]
        /\ doc' = [doc EXCEPT ![s] = "UPLOADING"]
  BY DEF InitiateCreate, SetSession
<1>3. UNCHANGED <<versions, expired, object, todo, swapped>> /\ Finish(r, "created")
  BY DEF InitiateCreate
<1>4. /\ pc' \in [Requests -> {"new", "read", "headed", "done"}] /\ result' \in [Requests -> Results]
      /\ op' \in [Requests -> Operations] /\ seen' \in [Requests -> SessionStatuses \cup {"ABSENT"}]
      /\ pc'[r] = "done"
      /\ \A q \in Requests \ {r} : pc'[q] = pc[q] /\ op'[q] = op[q] /\ seen'[q] = seen[q]
  BY <1>1, <1>3, FinishTyped DEF Results
<1>5. TypeOK'
  BY <1>1, <1>2, <1>3, <1>4 DEF TypeOK, SessionStatuses, DocStatuses
<1>6. \A v \in versions : v.of # s
  BY <1>2 DEF IInv, DocumentMirrorsVersion, InsertedTogether
<1>7. OneVersionPerSession' /\ VersionWasVerified'
  BY <1>1, <1>2, <1>3, <1>6
  DEF IInv, TypeOK, OneVersionPerSession, VersionWasVerified, Versions
<1>8. DocumentMirrorsVersion' /\ AcceptedHasVersion' /\ InsertedTogether'
  BY <1>1, <1>2, <1>3, <1>6
  DEF IInv, TypeOK, DocumentMirrorsVersion, AcceptedHasVersion, InsertedTogether
<1>9. WorkedOnExists'
  BY <1>1, <1>2, <1>3, <1>4 DEF IInv, TypeOK, WorkedOnExists, Works
<1>. QED
  BY <1>5, <1>7, <1>8, <1>9 DEF IInv

(* Acceptance: the guards of Insertable and the checks of Sound.              *)
LEMMA AcceptStep ==
  ASSUME IInv, NEW r \in Requests, CompleteAccepts(r)
  PROVE  IInv'
<1> DEFINE s == op[r].on
           v == [of |-> s, by |-> r, sha |-> object[s], upload |-> "VALIDATING"]
<1>1. TypeOK /\ Works(r)
  BY DEF IInv, WorkedOnExists
<1>2. /\ s \in Sessions /\ session[s] # "ABSENT" /\ Sound(s)
      /\ r \in swapped \/ object[s] \notin WrongSize
  BY <1>1 DEF CompleteAccepts, Fetched, Works
<1>3. UNCHANGED <<keyOf, expected, expired, object, todo, swapped>>
  BY DEF CompleteAccepts
<1>4. PICK res \in Results : Finish(r, res)
  BY DEF CompleteAccepts, Results
<1>5. /\ pc' \in [Requests -> {"new", "read", "headed", "done"}] /\ result' \in [Requests -> Results]
      /\ op' \in [Requests -> Operations] /\ seen' \in [Requests -> SessionStatuses \cup {"ABSENT"}]
      /\ pc'[r] = "done"
      /\ \A q \in Requests \ {r} : pc'[q] = pc[q] /\ op'[q] = op[q] /\ seen'[q] = seen[q]
  BY <1>1, <1>4, FinishTyped
<1>6. CASE UNCHANGED <<versions, doc, session>>
  <2>1. TypeOK'
    BY <1>1, <1>3, <1>5, <1>6 DEF TypeOK
  <2>2. Works(r)'
    BY <1>1, <1>3, <1>5, <1>6 DEF Works
  <2>. QED
    BY <1>3, <1>5, <1>6, <2>1, <2>2, QuietSteps DEF Quiet
<1>7. CASE /\ Insertable(s)
           /\ versions' = versions \cup {v}
           /\ doc' = [doc EXCEPT ![s] = "QUARANTINED"]
           /\ session' = [session EXCEPT ![s] = "ACCEPTED"]
  <2>1. v \in Versions /\ v.of = s /\ v.sha = object[s] /\ v.by = r
    <3>1. object[s] \in Contents
      BY <1>1, <1>2 DEF TypeOK, Sound
    <3>. QED
      BY <1>2, <3>1 DEF Versions
  <2> HIDE DEF v
  <2>2. TypeOK'
    BY <1>1, <1>2, <1>3, <1>5, <1>7, <2>1 DEF TypeOK, SessionStatuses, DocStatuses
  <2>3. \A w \in versions : w.of # s
    BY <1>7 DEF Insertable
  <2>4. OneVersionPerSession'
    BY <1>7, <2>1, <2>3 DEF IInv, OneVersionPerSession
  <2>5. VersionWasVerified'
    <3>1. /\ v.sha \notin WrongMagic /\ expected[v.of] \in {None, v.sha}
          /\ v.sha \in WrongSize => v.by \in swapped
      BY <1>2, <2>1 DEF Sound, ChecksumOk
    <3>. QED
      BY <1>3, <1>7, <3>1 DEF IInv, VersionWasVerified
  <2>6. DocumentMirrorsVersion' /\ AcceptedHasVersion' /\ InsertedTogether'
    BY <1>1, <1>2, <1>7, <2>1
    DEF IInv, TypeOK, DocumentMirrorsVersion, AcceptedHasVersion, InsertedTogether
  <2>7. WorkedOnExists'
    BY <1>1, <1>2, <1>3, <1>5, <1>7 DEF IInv, TypeOK, WorkedOnExists, Works
  <2>. QED
    BY <2>2, <2>4, <2>5, <2>6, <2>7 DEF IInv
<1>. QED
  BY <1>6, <1>7 DEF CompleteAccepts, SetSession

(* The worker settles a version: its session, digest and document's side of   *)
(* the mirror stay as they are.                                               *)
LEMMA WorkerStep ==
  ASSUME IInv, NEW v \in versions, WorkerSettles(v)
  PROVE  IInv'
<1>1. PICK u \in {"ACCEPTED", "REJECTED"}, d \in {"READY", "REJECTED"} :
        /\ versions' = (versions \ {v}) \cup {[v EXCEPT !.upload = u]}
        /\ doc' = [doc EXCEPT ![v.of] = d]
  BY DEF WorkerSettles
<1>2. UNCHANGED <<session, keyOf, expected, expired, object, reqVars, swapped>>
  BY DEF WorkerSettles
<1> DEFINE w == [v EXCEPT !.upload = u]
<1>3. v \in Versions /\ w \in Versions /\ w.of = v.of /\ w.sha = v.sha /\ w.by = v.by /\ v.of \in Sessions
  BY DEF IInv, TypeOK, Versions
<1>4. versions' = (versions \ {v}) \cup {w}
  BY <1>1
<1> HIDE DEF w
<1>5. TypeOK'
  BY <1>1, <1>2, <1>3, <1>4 DEF IInv, TypeOK, DocStatuses, reqVars
<1>6. \A s \in Sessions : (\E x \in versions' : x.of = s) <=> \E x \in versions : x.of = s
  BY <1>3, <1>4
<1>7. OneVersionPerSession' /\ VersionWasVerified'
  BY <1>2, <1>3, <1>4 DEF IInv, OneVersionPerSession, VersionWasVerified
<1>8. DocumentMirrorsVersion' /\ AcceptedHasVersion'
  BY <1>1, <1>2, <1>3, <1>6 DEF IInv, TypeOK, DocumentMirrorsVersion, AcceptedHasVersion
<1>9. InsertedTogether' /\ WorkedOnExists'
  <2>1. doc[v.of] # "ABSENT"
    BY <1>3 DEF IInv, DocumentMirrorsVersion
  <2>. QED
    BY <1>1, <1>2, <1>3, <2>1 DEF IInv, TypeOK, InsertedTogether, WorkedOnExists, Works, reqVars
<1>. QED
  BY <1>5, <1>7, <1>8, <1>9 DEF IInv

(* Every step preserves the inductive invariant. *)
LEMMA StepIInv == IInv /\ [Next]_vars => IInv'
<1> SUFFICES ASSUME IInv, [Next]_vars
             PROVE  IInv'
  OBVIOUS
<1>1. CASE \E r \in Requests : Initiate(r) \/ Complete(r) \/ Cancel(r) \/ Reconcile(r)
  BY <1>1, ReadSteps, HeadStep, EndSteps, ReconcileStep, CreateStep, AcceptStep
  DEF Initiate, Complete, Cancel, Reconcile
<1>2. CASE \E s \in Sessions : Put(s) \/ Expire(s)
  BY <1>2, ClientSteps
<1>3. CASE \E v \in versions : WorkerSettles(v)
  BY <1>3, WorkerStep
<1>4. CASE UNCHANGED vars
  BY <1>4
  DEF vars, rowVars, reqVars, IInv, TypeOK, OneVersionPerSession, DocumentMirrorsVersion,
      AcceptedHasVersion, VersionWasVerified, InsertedTogether, WorkedOnExists, Works
<1>. QED
  BY <1>1, <1>2, <1>3, <1>4 DEF Next

-----------------------------------------------------------------------------
(* The inductive invariant holds in every reachable state. *)
THEOREM UploadInvariant == Spec => []IInv
BY InitIInv, StepIInv, PTL DEF Spec

(* Every reachable state is well typed. *)
THEOREM UploadTyped == Spec => []TypeOK
<1>1. IInv => TypeOK
  BY DEF IInv
<1>. QED
  BY <1>1, UploadInvariant, PTL

(* However many completions overlap, a session yields one version. *)
THEOREM SessionYieldsOneVersion == Spec => []OneVersionPerSession
<1>1. IInv => OneVersionPerSession
  BY DEF IInv
<1>. QED
  BY <1>1, UploadInvariant, PTL

(* A document has left UPLOADING exactly when it has a version. *)
THEOREM DocumentsMirrorVersions == Spec => []DocumentMirrorsVersion
<1>1. IInv => DocumentMirrorsVersion
  BY DEF IInv
<1>. QED
  BY <1>1, UploadInvariant, PTL

(* A session that says ACCEPTED has its version. *)
THEOREM AcceptedSessionsHaveVersions == Spec => []AcceptedHasVersion
<1>1. IInv => AcceptedHasVersion
  BY DEF IInv
<1>. QED
  BY <1>1, UploadInvariant, PTL

(* A version's bytes passed the signature and checksum checks, and the size   *)
(* check unless the client replaced them behind the HEAD.                     *)
THEOREM VersionsAreVerified == Spec => []VersionWasVerified
<1>1. IInv => VersionWasVerified
  BY DEF IInv
<1>. QED
  BY <1>1, UploadInvariant, PTL

-----------------------------------------------------------------------------
(* The cap on active uploads.  A completion that has read an open session may *)
(* make it active again after another request closed it, and an initiation    *)
(* that has counted may add one; both are requests in flight.                 *)
Reopening  == {r \in InFlight : op[r].kind = "complete" /\ Completable(seen[r])}
Targets    == {op[r].on : r \in Reopening}
Initiating == {r \in Requests : Doing(r, "initiate")}
Pending    == Active \cup Targets

FewInFlight == Cardinality(InFlight) <= MaxInFlight

CapMargin == Cardinality(Pending) + Cardinality(Initiating) <= MaxActive + MaxInFlight - 1

CapInv == IInv /\ FewInFlight /\ CapMargin

(* All these sets are finite, and the targets are no more than their requests. *)
LEMMA FiniteParts ==
  ASSUME IInv
  PROVE  /\ IsFiniteSet(Active) /\ Cardinality(Active) \in Nat
         /\ IsFiniteSet(InFlight) /\ Cardinality(InFlight) \in Nat
         /\ IsFiniteSet(Initiating) /\ Cardinality(Initiating) \in Nat
         /\ IsFiniteSet(Reopening) /\ Cardinality(Reopening) \in Nat
         /\ IsFiniteSet(Targets) /\ Cardinality(Targets) \in Nat
         /\ IsFiniteSet(Pending) /\ Cardinality(Pending) \in Nat
         /\ Cardinality(Targets) <= Cardinality(Reopening)
<1>1. Active \in SUBSET Sessions /\ InFlight \in SUBSET Requests
      /\ Initiating \in SUBSET Requests /\ Reopening \in SUBSET Requests
  BY DEF Active, InFlight, Initiating, Reopening
<1>2. IsFiniteSet(Active) /\ IsFiniteSet(InFlight) /\ IsFiniteSet(Initiating)
      /\ IsFiniteSet(Reopening)
  BY <1>1, UploadAssumption, FS_Subset
<1>3. IsFiniteSet(Targets) /\ Cardinality(Targets) <= Cardinality(Reopening)
  <2> DEFINE f == [r \in Reopening |-> op[r].on]
  <2>1. f \in Surjection(Reopening, Targets)
    BY DEF Surjection, Targets
  <2>. QED
    BY <1>2, <2>1, FS_Surjection
<1>4. IsFiniteSet(Pending)
  BY <1>2, <1>3, FS_Union DEF Pending
<1>. QED
  BY <1>2, <1>3, <1>4, FS_CardinalityType

(* A step that starts no request and creates no session.                      *)
LEMMA ShrinkingSteps ==
  ASSUME CapInv, IInv', InFlight' \subseteq InFlight, Initiating' \subseteq Initiating,
         Pending' \subseteq Pending
  PROVE  CapInv'
<1>1. Cardinality(InFlight') <= Cardinality(InFlight) /\ Cardinality(InFlight') \in Nat
  BY FiniteParts, FS_Subset, FS_CardinalityType DEF CapInv
<1>2. Cardinality(Initiating') <= Cardinality(Initiating) /\ Cardinality(Initiating') \in Nat
  BY FiniteParts, FS_Subset, FS_CardinalityType DEF CapInv
<1>3. Cardinality(Pending') <= Cardinality(Pending) /\ Cardinality(Pending') \in Nat
  BY FiniteParts, FS_Subset, FS_CardinalityType DEF CapInv
<1>4. FewInFlight'
  BY <1>1, FiniteParts, UploadAssumption DEF CapInv, FewInFlight
<1>5. CapMargin'
  BY <1>2, <1>3, FiniteParts, UploadAssumption DEF CapInv, CapMargin
<1>. QED
  BY <1>4, <1>5 DEF CapInv

(* A request starts: there is room for one more in flight. *)
LEMMA StartKeepsFew ==
  ASSUME CapInv, NEW r \in Requests, NEW kind, NEW on, NEW d, Start(r, kind, on, d)
  PROVE  FewInFlight' /\ InFlight' = InFlight \cup {r} /\ r \notin InFlight
<1>1. InFlight' = InFlight \cup {r} /\ r \notin InFlight
  BY DEF Start, InFlight, CapInv, IInv, TypeOK
<1>2. Cardinality(InFlight') = Cardinality(InFlight) + 1
  BY <1>1, FiniteParts, FS_AddElement DEF CapInv
<1>3. Cardinality(InFlight) < MaxInFlight
  BY DEF Start
<1>. QED
  BY <1>1, <1>2, <1>3, FiniteParts, UploadAssumption DEF CapInv, FewInFlight

(* The count admits a request: what was active was below the cap, and what    *)
(* may come on top of it is in flight.                                        *)
LEMMA CountStep ==
  ASSUME CapInv, NEW r \in Requests, InitiateCount(r)
  PROVE  FewInFlight' /\ CapMargin'
<1>1. Start(r, "initiate", None, "none") /\ Cardinality(Active) < MaxActive
      /\ UNCHANGED <<session, seen>>
  BY DEF InitiateCount, rowVars
<1>2. FewInFlight' /\ InFlight' = InFlight \cup {r} /\ r \notin InFlight
  BY <1>1, StartKeepsFew
<1>3. Initiating' = Initiating \cup {r} /\ r \notin Initiating
  BY <1>1 DEF Start, Initiating, Doing, CapInv, IInv, TypeOK, Operations
<1>4. Reopening' = Reopening /\ \A q \in Reopening : op'[q] = op[q]
  BY <1>1 DEF Start, Reopening, InFlight, Doing, CapInv, IInv, TypeOK, Operations
<1>5. Pending' = Pending
  BY <1>1, <1>4 DEF Pending, Targets, Active
<1>6. Cardinality(Initiating') = Cardinality(Initiating) + 1
  BY <1>3, FiniteParts, FS_AddElement DEF CapInv
<1>7. Cardinality(Pending) <= Cardinality(Active) + Cardinality(Targets)
  <2>1. Cardinality(Pending) = Cardinality(Active) + Cardinality(Targets)
                                 - Cardinality(Active \cap Targets)
    BY FiniteParts, FS_Union DEF CapInv, Pending
  <2>2. Cardinality(Active \cap Targets) \in Nat
    BY FiniteParts, FS_Intersection, FS_CardinalityType DEF CapInv
  <2>. QED
    BY <2>1, <2>2, FiniteParts DEF CapInv
<1>8. Cardinality(Reopening) + Cardinality(Initiating) <= Cardinality(InFlight)
  <2>1. Reopening \cap Initiating = {}
    BY DEF Reopening, Initiating, Doing
  <2>2. Cardinality(Reopening \cup Initiating) = Cardinality(Reopening) + Cardinality(Initiating)
    <3>1. Cardinality(Reopening \cap Initiating) = 0
      BY <2>1, FS_EmptySet
    <3>2. /\ IsFiniteSet(Reopening) /\ Cardinality(Reopening) \in Nat
          /\ IsFiniteSet(Initiating) /\ Cardinality(Initiating) \in Nat
      BY FiniteParts DEF CapInv
    <3>3. Cardinality(Reopening \cup Initiating) = Cardinality(Reopening) + Cardinality(Initiating)
                                                  - Cardinality(Reopening \cap Initiating)
      BY <3>2, FS_Union
    <3>. QED
      BY <3>1, <3>2, <3>3
  <2>3. Reopening \cup Initiating \in SUBSET InFlight
    BY DEF Reopening, Initiating, Doing, InFlight
  <2>. QED
    BY <2>2, <2>3, FiniteParts, FS_Subset DEF CapInv
<1>9. Cardinality(InFlight) < MaxInFlight
  BY <1>1 DEF Start
<1>10. CapMargin'
  BY <1>1, <1>5, <1>6, <1>7, <1>8, <1>9, FiniteParts, UploadAssumption DEF CapInv, CapMargin
<1>. QED
  BY <1>2, <1>10

(* The creation turns an initiation in flight into an active session.         *)
LEMMA CreateKeepsMargin ==
  ASSUME CapInv, NEW r \in Requests, InitiateCreate(r)
  PROVE  FewInFlight' /\ CapMargin'
<1>1. PICK s \in Sessions : session' = [session EXCEPT ![s] = "UPLOAD_AUTHORIZED"]
  BY DEF InitiateCreate, SetSession
<1>2. /\ pc[r] = "read" /\ op[r].kind = "initiate" /\ pc' = [pc EXCEPT ![r] = "done"]
      /\ \A q \in Requests \ {r} : op'[q] = op[q] /\ seen'[q] = seen[q]
  BY DEF InitiateCreate, Doing, Finish, CapInv, IInv, TypeOK
<1>3. InFlight' \subseteq InFlight
  BY <1>2 DEF InFlight, CapInv, IInv, TypeOK
<1>4. Initiating' = Initiating \ {r} /\ r \in Initiating
  BY <1>2 DEF Initiating, Doing, CapInv, IInv, TypeOK
<1>5. Reopening' = Reopening /\ r \notin Reopening
  BY <1>2 DEF Reopening, InFlight, CapInv, IInv, TypeOK
<1>6. Pending' \in SUBSET (Pending \cup {s})
  <2>1. Targets' = Targets
    BY <1>2, <1>5 DEF Targets, Reopening, InFlight
  <2>2. Active' \in SUBSET (Active \cup {s})
    BY <1>1 DEF Active, CapInv, IInv, TypeOK
  <2>. QED
    BY <2>1, <2>2 DEF Pending
<1>7. Cardinality(Pending') <= Cardinality(Pending) + 1 /\ Cardinality(Pending') \in Nat
  <2>1. /\ IsFiniteSet(Pending \cup {s})
        /\ Cardinality(Pending \cup {s}) <= Cardinality(Pending) + 1
        /\ Cardinality(Pending \cup {s}) \in Nat
    <3>1. IsFiniteSet(Pending) /\ Cardinality(Pending) \in Nat
      BY FiniteParts DEF CapInv
    <3>2. /\ IsFiniteSet(Pending \cup {s})
          /\ Cardinality(Pending \cup {s}) =
               IF s \in Pending THEN Cardinality(Pending) ELSE Cardinality(Pending) + 1
      BY <3>1, FS_AddElement
    <3>. QED
      BY <3>1, <3>2
  <2>. QED
    BY <1>6, <2>1, FiniteParts, FS_Subset, FS_CardinalityType DEF CapInv
<1>8. Cardinality(Initiating') = Cardinality(Initiating) - 1
  BY <1>4, FiniteParts, FS_RemoveElement DEF CapInv
<1>9. Cardinality(InFlight') <= Cardinality(InFlight) /\ Cardinality(InFlight') \in Nat
  BY <1>3, FiniteParts, FS_Subset, FS_CardinalityType DEF CapInv
<1>10. FewInFlight'
  BY <1>9, FiniteParts, UploadAssumption DEF CapInv, FewInFlight
<1>11. CapMargin'
  BY <1>7, <1>8, FiniteParts, UploadAssumption DEF CapInv, CapMargin
<1>. QED
  BY <1>10, <1>11

(* The other reads: a completion reads a session that is active, or one it    *)
(* will not go on with.                                                       *)
LEMMA OtherReads ==
  ASSUME CapInv, NEW r \in Requests, CompleteRead(r) \/ CancelRead(r) \/ ReconcileRead(r)
  PROVE  FewInFlight' /\ CapMargin'
<1>1. PICK kind \in {"complete", "cancel", "reconcile"}, on \in Sessions \cup {None},
           d \in Decisions :
        /\ Start(r, kind, on, d)
        /\ kind = "complete" => on \in Sessions /\ seen' = [seen EXCEPT ![r] = session[on]]
        /\ kind = "cancel" => seen' = [seen EXCEPT ![r] = session[on]]
        /\ kind = "reconcile" => UNCHANGED seen
  BY DEF CompleteRead, CancelRead, ReconcileRead, Decisions
<1>2. UNCHANGED session
  BY DEF CompleteRead, CancelRead, ReconcileRead, rowVars
<1>3. FewInFlight'
  BY <1>1, StartKeepsFew
<1>4. /\ pc[r] = "new" /\ pc' = [pc EXCEPT ![r] = "read"]
      /\ op' = [op EXCEPT ![r] = [kind |-> kind, on |-> on, decision |-> d]]
  BY <1>1 DEF Start
<1>5. \A q \in Requests \ {r} : pc'[q] = pc[q] /\ op'[q] = op[q] /\ seen'[q] = seen[q]
  BY <1>1, <1>4 DEF CapInv, IInv, TypeOK
<1>6. Initiating' = Initiating
  BY <1>4, <1>5 DEF Initiating, Doing, CapInv, IInv, TypeOK
<1>7. Pending' \subseteq Pending
  <2>1. Active' = Active
    BY <1>2 DEF Active
  <2>2. ASSUME NEW q \in Reopening'
        PROVE  op'[q].on \in Pending
    <3>1. CASE q = r
      <4>1. kind = "complete" /\ op'[r].on = on /\ on \in Sessions /\ seen'[r] = session[on]
        BY <1>1, <1>4, <2>2, <3>1 DEF Reopening, InFlight, Doing, CapInv, IInv, TypeOK
      <4>2. session[on] \in {"UPLOAD_AUTHORIZED", "UPLOADED"}
        BY <2>2, <3>1, <4>1 DEF Reopening, Completable
      <4>. QED
        BY <3>1, <4>1, <4>2 DEF Pending, Active, ActiveStatuses
    <3>2. CASE q # r
      <4>1. q \in Reopening /\ op'[q] = op[q]
        BY <1>5, <2>2, <3>2 DEF Reopening, InFlight, Doing, Completable
      <4>. QED
        BY <4>1 DEF Pending, Targets
    <3>. QED
      BY <3>1, <3>2
  <2>. QED
    BY <2>1, <2>2 DEF Pending, Targets
<1>8. Cardinality(Pending') <= Cardinality(Pending) /\ Cardinality(Pending') \in Nat
  BY <1>7, FiniteParts, FS_Subset, FS_CardinalityType DEF CapInv
<1>9. CapMargin'
  BY <1>6, <1>8, FiniteParts, UploadAssumption DEF CapInv, CapMargin
<1>. QED
  BY <1>3, <1>9

(* A handler that ends reopens at most the session it had read as open.       *)
LEMMA EndsShrink ==
  ASSUME CapInv, NEW r \in Requests,
         \/ TooManyUploads(r) \/ InitiateReplay(r) \/ InitiateKeyTaken(r)
         \/ CompleteReplay(r) \/ CompleteLate(r) \/ CompleteRefused(r) \/ CompleteMissing(r)
         \/ CompleteWrongSize(r) \/ CompleteRollsBack(r)
         \/ CompleteMismatch(r) \/ CompleteClientMismatch(r) \/ CompleteSpoofed(r)
         \/ CompleteSurfacesDuplicate(r) \/ CompleteCancelsDuplicate(r) \/ CompleteAccepts(r)
         \/ CancelNothing(r) \/ CancelWrite(r) \/ ReconcileDone(r)
  PROVE  InFlight' \subseteq InFlight /\ Initiating' \subseteq Initiating /\ Pending' \subseteq Pending
<1>1. \E res \in Results : Finish(r, res)
  BY DEF TooManyUploads, InitiateReplay, InitiateKeyTaken, CompleteReplay, CompleteLate,
         CompleteRefused, CompleteMissing, CompleteWrongSize, CompleteRollsBack, CompleteMismatch, CompleteClientMismatch,
         CompleteSpoofed, CompleteSurfacesDuplicate, CompleteCancelsDuplicate, CompleteAccepts,
         CancelNothing, CancelWrite, ReconcileDone, Results
<1>2. \A q \in Requests \ {r} : pc'[q] = pc[q] /\ op'[q] = op[q] /\ seen'[q] = seen[q]
  BY <1>1, FinishTyped DEF CapInv, IInv
<1>3. \/ UNCHANGED session
      \/ \E st \in {"EXPIRED", "FAILED", "REJECTED", "CANCELLED", "ACCEPTED"} :
           SetSession(op[r].on, st)
      \/ Fetched(r) /\ SetSession(op[r].on, "VALIDATING")
  BY DEF TooManyUploads, InitiateReplay, InitiateKeyTaken, CompleteReplay, CompleteLate,
         CompleteRefused, CompleteMissing, CompleteWrongSize, CompleteRollsBack, CompleteMismatch, CompleteClientMismatch,
         CompleteSpoofed, CompleteSurfacesDuplicate, CompleteCancelsDuplicate, CompleteAccepts,
         CancelNothing, CancelWrite, ReconcileDone, rowVars
<1>4. /\ pc' = [pc EXCEPT ![r] = "done"] /\ pc \in [Requests -> {"new", "read", "headed", "done"}]
  BY <1>1 DEF Finish, CapInv, IInv, TypeOK
<1>5. InFlight' \subseteq InFlight /\ Initiating' \subseteq Initiating
      /\ Reopening' \subseteq Reopening
  BY <1>2, <1>4 DEF InFlight, Initiating, Reopening, InFlight, Doing, CapInv, IInv, TypeOK
<1>6. \A s \in Sessions : session'[s] \in ActiveStatuses =>
        session[s] \in ActiveStatuses \/ (Fetched(r) /\ s = op[r].on)
  BY <1>3 DEF SetSession, CapInv, IInv, TypeOK, ActiveStatuses
<1>7. Fetched(r) => op[r].on \in Targets
  BY DEF Fetched, Targets, Reopening, InFlight, CapInv, IInv, WorkedOnExists, Works
<1>8. Active' \subseteq Pending
  BY <1>6, <1>7 DEF Active, Pending
<1>9. Targets' \subseteq Targets
  <2>1. r \notin InFlight'
    BY <1>4 DEF InFlight
  <2>. QED
    BY <1>2, <1>5, <2>1 DEF Targets, Reopening, InFlight
<1>. QED
  BY <1>5, <1>8, <1>9 DEF Pending

(* Every step preserves the margin. *)
LEMMA StepCap == CapInv /\ [Next]_vars => CapInv'
<1> SUFFICES ASSUME CapInv, [Next]_vars
             PROVE  CapInv'
  OBVIOUS
<1>1. IInv'
  BY StepIInv DEF CapInv
<1>2. ASSUME NEW r \in Requests, Initiate(r) \/ Complete(r) \/ Cancel(r) \/ Reconcile(r)
      PROVE  CapInv'
  <2>1. CASE InitiateCount(r) \/ InitiateCreate(r) \/ CompleteRead(r) \/ CancelRead(r)
             \/ ReconcileRead(r)
    BY <1>1, <2>1, CountStep, CreateKeepsMargin, OtherReads DEF CapInv
  <2>2. CASE ReconcileWrite(r)
    <3>1. UNCHANGED <<pc, op, seen>> /\ \E s \in todo[r] : SetSession(s, "EXPIRED")
      BY <2>2 DEF ReconcileWrite
    <3>2. UNCHANGED <<InFlight, Initiating, Targets>>
      BY <3>1 DEF InFlight, Initiating, Targets, Reopening, InFlight, Doing
    <3>3. Active' \subseteq Active
      BY <3>1 DEF SetSession, Active, ActiveStatuses, CapInv, IInv, TypeOK
    <3>. QED
      BY <1>1, <3>2, <3>3, ShrinkingSteps DEF Pending
  <2>3. CASE ~(ReconcileWrite(r) \/ InitiateCount(r) \/ InitiateCreate(r) \/ CompleteRead(r)
               \/ CancelRead(r) \/ ReconcileRead(r) \/ CompleteHead(r))
    BY <1>1, <1>2, <2>3, EndsShrink, ShrinkingSteps
    DEF Initiate, Complete, Cancel, Reconcile
  <2>4. CASE CompleteHead(r)
    <3>1. /\ pc[r] = "read" /\ pc' = [pc EXCEPT ![r] = "headed"] /\ op[r].kind = "complete"
          /\ UNCHANGED <<session, op, seen>>
      BY <2>4 DEF CompleteHead, Validating, Doing, rowVars
    <3>2. InFlight' = InFlight /\ Initiating' = Initiating
      BY <3>1 DEF InFlight, Initiating, Doing, CapInv, IInv, TypeOK
    <3>3. Pending' = Pending
      BY <3>1, <3>2 DEF Pending, Active, Targets, Reopening
    <3>. QED
      BY <1>1, <3>2, <3>3, ShrinkingSteps
  <2>. QED
    BY <2>1, <2>2, <2>3, <2>4
<1>3. CASE UNCHANGED <<session, pc, op, seen>>
  <2>1. UNCHANGED <<InFlight, Initiating, Pending>>
    BY <1>3 DEF InFlight, Initiating, Pending, Active, Targets, Reopening, InFlight, Doing
  <2>. QED
    BY <1>1, <2>1, ShrinkingSteps
<1>. QED
  BY <1>2, <1>3 DEF Next, Put, Expire, WorkerSettles, vars, rowVars, reqVars

(* The margin implies the bound, from the start.                              *)
THEOREM CapHolds == Spec => []CapHoldsUpToRaces
<1>1. Init => CapInv
  <2> SUFFICES ASSUME Init PROVE CapInv
    OBVIOUS
  <2>1. InFlight = {} /\ Initiating = {} /\ Pending = {}
    BY DEF Init, InFlight, Initiating, Pending, Active, Targets, Reopening, InFlight, Doing, ActiveStatuses
  <2>2. Cardinality({}) = 0
    BY FS_EmptySet
  <2>. QED
    BY <2>1, <2>2, InitIInv, UploadAssumption DEF CapInv, FewInFlight, CapMargin
<1>2. CapInv => CapHoldsUpToRaces
  <2> SUFFICES ASSUME CapInv PROVE CapHoldsUpToRaces
    OBVIOUS
  <2>1. Cardinality(Active) <= Cardinality(Pending)
    BY FiniteParts, FS_Subset DEF CapInv, Pending
  <2>. QED
    BY <2>1, FiniteParts, UploadAssumption DEF CapInv, CapMargin, CapHoldsUpToRaces
<1>. QED
  BY <1>1, <1>2, StepCap, PTL DEF Spec

(* Session, document and version agree, whatever handlers overlap. *)
THEOREM RowsAlwaysAgree == Spec => []RowsAgree
BY DocumentsMirrorVersions, AcceptedSessionsHaveVersions, PTL DEF RowsAgree
-----------------------------------------------------------------------------
(* Where handlers do not overlap (MaxInFlight = 1), what a request read is    *)
(* still so when it writes, and an upload that came to an end stays there.    *)
Alone == \A q, r \in InFlight : q = r

(* A request's snapshot is current, and so is the reconcile script's list.    *)
ReadIsCurrent ==
  \A r \in InFlight :
    /\ op[r].kind \in {"complete", "cancel"} => seen[r] = session[op[r].on]
    /\ op[r].kind = "reconcile" => \A s \in todo[r] : session[s] \in ActiveStatuses

(* Nobody takes an accepted session's status away from under its version.     *)
VersionsAreAccepted == \A v \in versions : session[v.of] = "ACCEPTED"

Settled == Alone /\ ReadIsCurrent /\ VersionsAreAccepted /\ QuarantineKeepsBytes

(* No row of SessionMoves leads out of a terminal status.                     *)
LEMMA TerminalHasNoMoves ==
  \A st \in Terminal : SessionMoves[st] = {} /\ st \notin ActiveStatuses /\ ~Completable(st)
BY DEF Terminal, SessionMoves, ActiveStatuses, Completable

(* A request starts only when no other is between its read and its write.     *)
LEMMA StartIsAlone ==
  ASSUME MaxInFlight = 1, IInv, NEW r \in Requests, NEW kind, NEW on, NEW d, Start(r, kind, on, d)
  PROVE  /\ InFlight = {} /\ InFlight' = {r}
         /\ op'[r] = [kind |-> kind, on |-> on, decision |-> d]
<1>1. InFlight \in SUBSET Requests /\ IsFiniteSet(InFlight) /\ Cardinality(InFlight) \in Nat
  BY UploadAssumption, FS_Subset, FS_CardinalityType DEF InFlight
<1>2. Cardinality(InFlight) = 0
  BY <1>1 DEF Start
<1>3. InFlight = {}
  BY <1>1, <1>2, FS_EmptySet
<1>. QED
  BY <1>3 DEF InFlight, Start, IInv, TypeOK

(* The reads with which a request starts.                                     *)
LEMMA ReadsSettle ==
  ASSUME MaxInFlight = 1, IInv, Settled, NEW r \in Requests,
         InitiateCount(r) \/ CompleteRead(r) \/ CancelRead(r) \/ ReconcileRead(r)
  PROVE  Settled'
<1>1. PICK kind \in {"initiate", "complete", "cancel", "reconcile"}, on \in Sessions \cup {None},
           d \in Decisions :
        /\ Start(r, kind, on, d)
        /\ kind \in {"complete", "cancel"} => seen' = [seen EXCEPT ![r] = session[on]]
        /\ kind = "reconcile" =>
             todo' = [todo EXCEPT ![r] = {s \in expired : session[s] \in ActiveStatuses \ {"INITIATED"}}]
  BY DEF InitiateCount, CompleteRead, CancelRead, ReconcileRead, Decisions
<1>2. UNCHANGED <<session, versions, object>>
  BY DEF InitiateCount, CompleteRead, CancelRead, ReconcileRead, rowVars
<1>3. /\ op'[r] = [kind |-> kind, on |-> on, decision |-> d]
      /\ InFlight' = {r}
  BY <1>1, StartIsAlone
<1>4. Alone'
  BY <1>3 DEF Alone
<1>5. op'[r].kind = kind /\ op'[r].on = on
  BY <1>3
<1>6. /\ kind \in {"complete", "cancel"} => seen'[r] = session'[on]
      /\ kind = "reconcile" => \A s \in todo'[r] : session'[s] \in ActiveStatuses
  BY <1>1, <1>2 DEF IInv, TypeOK
<1>7. ReadIsCurrent'
  BY <1>3, <1>5, <1>6 DEF ReadIsCurrent
<1>8. VersionsAreAccepted' /\ QuarantineKeepsBytes'
  BY <1>2 DEF Settled, VersionsAreAccepted, QuarantineKeepsBytes
<1>. QED
  BY <1>4, <1>7, <1>8 DEF Settled

(* A request that ends leaves none in flight: only the rows are left to see.  *)
LEMMA EndSettles ==
  ASSUME IInv, Settled, NEW r \in InFlight, NEW res, Finish(r, res),
         VersionsAreAccepted', QuarantineKeepsBytes'
  PROVE  Settled'
<1>1. InFlight' = {}
  BY DEF Finish, Settled, Alone, InFlight, IInv, TypeOK
<1>. QED
  BY <1>1 DEF Settled, Alone, ReadIsCurrent

(* A handler that accepts nothing writes at most to the session it read as    *)
(* open: no terminal status, and no object of an accepted session, changes.   *)
LEMMA WritesToOpenSessions ==
  ASSUME IInv, Settled, NEW r \in Requests,
         \/ TooManyUploads(r) \/ InitiateReplay(r) \/ InitiateKeyTaken(r)
         \/ CompleteReplay(r) \/ CompleteLate(r) \/ CompleteRefused(r) \/ CompleteMissing(r)
         \/ CompleteWrongSize(r) \/ CompleteRollsBack(r)
         \/ CompleteMismatch(r) \/ CompleteClientMismatch(r) \/ CompleteSpoofed(r)
         \/ CompleteSurfacesDuplicate(r) \/ CompleteCancelsDuplicate(r)
         \/ CancelNothing(r) \/ CancelWrite(r) \/ ReconcileDone(r)
  PROVE  /\ UNCHANGED versions
         /\ \A s \in Sessions : session[s] \in Terminal =>
              session'[s] = session[s] /\ object'[s] = object[s]
<1>1. UNCHANGED versions
  BY DEF TooManyUploads, InitiateReplay, InitiateKeyTaken, CompleteReplay, CompleteLate,
         CompleteRefused, CompleteMissing, CompleteWrongSize, CompleteRollsBack, CompleteMismatch, CompleteClientMismatch,
         CompleteSpoofed, CompleteSurfacesDuplicate, CompleteCancelsDuplicate, CancelNothing,
         CancelWrite, ReconcileDone, rowVars
<1>2. CASE CompleteLate(r) /\ session' # session
  <2>1. /\ Doing(r, "complete") /\ "EXPIRED" \in SessionMoves[seen[r]]
        /\ session' = [session EXCEPT ![op[r].on] = "EXPIRED"] /\ UNCHANGED object
    BY <1>2 DEF CompleteLate, SetSession
  <2>2. session[op[r].on] \notin Terminal
    BY <2>1, TerminalHasNoMoves DEF Doing, InFlight, Settled, ReadIsCurrent
  <2> QED BY <1>1, <2>1, <2>2 DEF IInv, TypeOK
<1>3. CASE \/ CompleteMissing(r) \/ CompleteWrongSize(r) \/ CompleteRollsBack(r) \/ CompleteMismatch(r) \/ CompleteClientMismatch(r)
           \/ CompleteSpoofed(r) \/ CompleteSurfacesDuplicate(r) \/ CompleteCancelsDuplicate(r)
  <2>1. Validating(r) \/ Fetched(r)
    BY <1>3
    DEF CompleteMissing, CompleteWrongSize, CompleteRollsBack, CompleteMismatch, CompleteClientMismatch, CompleteSpoofed,
        CompleteSurfacesDuplicate, CompleteCancelsDuplicate
  <2>2. session[op[r].on] \notin Terminal
    BY <2>1, TerminalHasNoMoves
    DEF Validating, Fetched, Doing, InFlight, Settled, ReadIsCurrent, IInv, WorkedOnExists, Works
  <2>3. \A s \in Sessions \ {op[r].on} : session'[s] = session[s] /\ object'[s] = object[s]
    BY <1>3
    DEF CompleteMissing, CompleteWrongSize, CompleteRollsBack, CompleteMismatch, CompleteClientMismatch, CompleteSpoofed,
        CompleteSurfacesDuplicate, CompleteCancelsDuplicate, SetSession, rowVars, IInv, TypeOK
  <2> QED BY <1>1, <2>2, <2>3
<1>4. CASE CancelWrite(r)
  <2>1. Doing(r, "cancel") /\ "CANCELLED" \in SessionMoves[seen[r]]
    BY <1>4 DEF CancelWrite
  <2>2. session[op[r].on] \notin Terminal
    BY <2>1, TerminalHasNoMoves DEF Doing, InFlight, Settled, ReadIsCurrent
  <2>3. \A s \in Sessions \ {op[r].on} : session'[s] = session[s] /\ object'[s] = object[s]
    BY <1>4 DEF CancelWrite, SetSession, IInv, TypeOK
  <2> QED BY <1>1, <2>2, <2>3
<1>5. CASE UNCHANGED <<session, object>>
  BY <1>1, <1>5
<1>. QED
  BY <1>2, <1>3, <1>4, <1>5
  DEF TooManyUploads, InitiateReplay, InitiateKeyTaken, CompleteReplay, CompleteLate,
      CompleteRefused, CancelNothing, ReconcileDone, rowVars

(* Where accepted sessions and their objects are left alone, versions stay    *)
(* accepted and keep their bytes.                                             *)
LEMMA VersionsStay ==
  ASSUME IInv, Settled, UNCHANGED versions,
         \A s \in Sessions : session[s] \in Terminal =>
           session'[s] = session[s] /\ object'[s] = object[s]
  PROVE  VersionsAreAccepted' /\ QuarantineKeepsBytes'
<1>1. \A v \in versions : v.of \in Sessions /\ session[v.of] \in Terminal
  BY DEF IInv, TypeOK, Versions, Settled, VersionsAreAccepted, Terminal
<1>. QED
  BY <1>1 DEF Settled, VersionsAreAccepted, QuarantineKeepsBytes

(* The handlers that accept nothing.                                          *)
LEMMA EndsSettle ==
  ASSUME IInv, Settled, NEW r \in Requests,
         \/ TooManyUploads(r) \/ InitiateReplay(r) \/ InitiateKeyTaken(r)
         \/ CompleteReplay(r) \/ CompleteLate(r) \/ CompleteRefused(r) \/ CompleteMissing(r)
         \/ CompleteWrongSize(r) \/ CompleteRollsBack(r)
         \/ CompleteMismatch(r) \/ CompleteClientMismatch(r) \/ CompleteSpoofed(r)
         \/ CompleteSurfacesDuplicate(r) \/ CompleteCancelsDuplicate(r)
         \/ CancelNothing(r) \/ CancelWrite(r) \/ ReconcileDone(r)
  PROVE  Settled'
<1>1. VersionsAreAccepted' /\ QuarantineKeepsBytes'
  BY WritesToOpenSessions, VersionsStay
<1>2. PICK res \in Results : Finish(r, res)
  BY DEF TooManyUploads, InitiateReplay, InitiateKeyTaken, CompleteReplay, CompleteLate,
         CompleteRefused, CompleteMissing, CompleteWrongSize, CompleteRollsBack, CompleteMismatch, CompleteClientMismatch,
         CompleteSpoofed, CompleteSurfacesDuplicate, CompleteCancelsDuplicate, CancelNothing,
         CancelWrite, ReconcileDone, Results
<1>3. CASE TooManyUploads(r)
  <2>1. /\ pc[r] = "new" /\ UNCHANGED <<session, todo>>
        /\ \A q \in Requests \ {r} : op'[q] = op[q] /\ seen'[q] = seen[q]
    BY <1>2, <1>3, FinishTyped DEF TooManyUploads, Finish, rowVars, IInv, TypeOK
  <2>2. InFlight' = InFlight /\ r \notin InFlight
    BY <1>2, <2>1 DEF Finish, InFlight, IInv, TypeOK
  <2>3. Alone' /\ ReadIsCurrent'
    BY <2>1, <2>2 DEF Settled, Alone, ReadIsCurrent, InFlight
  <2> QED BY <1>1, <2>3 DEF Settled
<1>4. CASE r \in InFlight
  BY <1>1, <1>2, <1>4, EndSettles
<1>. QED
  BY <1>3, <1>4
  DEF InitiateReplay, InitiateKeyTaken, CompleteReplay, CompleteLate,
      CompleteRefused, CompleteMissing, CompleteWrongSize, CompleteRollsBack, CompleteMismatch, CompleteClientMismatch,
      CompleteSpoofed, CompleteSurfacesDuplicate, CompleteCancelsDuplicate, CancelNothing,
      CancelWrite, ReconcileDone, Doing, Validating, Fetched, InFlight

(* Creation and acceptance.                                                   *)
LEMMA InsertsSettle ==
  ASSUME IInv, Settled, NEW r \in Requests, InitiateCreate(r) \/ CompleteAccepts(r)
  PROVE  /\ Settled'
         /\ \A s \in Sessions : session[s] \in Terminal => session'[s] = session[s]
<1>1. r \in InFlight /\ \E res \in Results : Finish(r, res)
  BY DEF InitiateCreate, CompleteAccepts, Fetched, Doing, InFlight, Results
<1>2. CASE InitiateCreate(r)
  <2>1. PICK s \in Sessions : /\ session[s] = "ABSENT"
                              /\ session' = [session EXCEPT ![s] = "UPLOAD_AUTHORIZED"]
    BY <1>2 DEF InitiateCreate, SetSession
  <2>2. UNCHANGED <<versions, object>>
    BY <1>2 DEF InitiateCreate
  <2>3. \A x \in Sessions : session[x] \in Terminal =>
          session'[x] = session[x] /\ object'[x] = object[x]
    BY <2>1, <2>2 DEF IInv, TypeOK, Terminal
  <2>4. VersionsAreAccepted' /\ QuarantineKeepsBytes'
    BY <2>2, <2>3, VersionsStay
  <2> QED BY <1>1, <2>3, <2>4, EndSettles
<1>3. CASE CompleteAccepts(r)
  <2> DEFINE s == op[r].on
             v == [of |-> s, by |-> r, sha |-> object[s], upload |-> "VALIDATING"]
  <2>1. s \in Sessions /\ Sound(s) /\ Fetched(r) /\ UNCHANGED object
    BY <1>3 DEF CompleteAccepts, Fetched, IInv, WorkedOnExists, Works
  <2>2. session[s] \notin Terminal
    BY <2>1, TerminalHasNoMoves
    DEF Fetched, InFlight, Settled, ReadIsCurrent, IInv, WorkedOnExists, Works
  <2>3. CASE UNCHANGED <<versions, doc, session>>
    <3>1. VersionsAreAccepted' /\ QuarantineKeepsBytes'
      BY <2>1, <2>3, VersionsStay
    <3> QED BY <1>1, <2>3, <3>1, EndSettles
  <2>4. CASE /\ versions' = versions \cup {v}
             /\ session' = [session EXCEPT ![s] = "ACCEPTED"]
    <3>1. v.of = s /\ object[s] # None
      BY <2>1 DEF Sound
    <3> HIDE DEF v
    <3>2. \A x \in versions : x.of \in Sessions
      BY DEF IInv, TypeOK, Versions
    <3>3. VersionsAreAccepted'
      BY <2>1, <2>4, <3>1, <3>2 DEF Settled, VersionsAreAccepted, IInv, TypeOK
    <3>4. QuarantineKeepsBytes'
      BY <2>1, <2>4, <3>1 DEF Settled, QuarantineKeepsBytes
    <3>5. \A x \in Sessions : session[x] \in Terminal => session'[x] = session[x]
      BY <2>2, <2>4 DEF IInv, TypeOK
    <3> QED BY <1>1, <3>3, <3>4, <3>5, EndSettles
  <2> QED BY <1>3, <2>3, <2>4 DEF CompleteAccepts, SetSession
<1>. QED
  BY <1>2, <1>3

(* The reconcile script writes to sessions it listed as active.               *)
LEMMA ReconcileSettles ==
  ASSUME IInv, Settled, NEW r \in Requests, ReconcileWrite(r)
  PROVE  /\ Settled'
         /\ \A s \in Sessions : session[s] \in Terminal => session'[s] = session[s]
<1>1. PICK s \in todo[r] : /\ session' = [session EXCEPT ![s] = "EXPIRED"]
                           /\ todo' = [todo EXCEPT ![r] = @ \ {s}]
  BY DEF ReconcileWrite, SetSession
<1>2. Doing(r, "reconcile") /\ UNCHANGED <<versions, object, pc, op>>
  BY DEF ReconcileWrite
<1>3. s \in Sessions /\ session[s] \in ActiveStatuses
  BY <1>1, <1>2 DEF Doing, InFlight, Settled, ReadIsCurrent, IInv, TypeOK
<1>4. \A x \in Sessions : session[x] \in Terminal =>
        session'[x] = session[x] /\ object'[x] = object[x]
  BY <1>1, <1>2, <1>3, TerminalHasNoMoves DEF IInv, TypeOK
<1>5. VersionsAreAccepted' /\ QuarantineKeepsBytes'
  BY <1>2, <1>4, VersionsStay
<1>6. Alone'
  BY <1>2 DEF Settled, Alone, InFlight
<1>7. todo'[r] = todo[r] \ {s} /\ todo[r] \in SUBSET Sessions
  BY <1>1 DEF IInv, TypeOK
<1>8. \A x \in todo'[r] : session'[x] \in ActiveStatuses
  BY <1>1, <1>2, <1>7 DEF Doing, InFlight, Settled, ReadIsCurrent, IInv, TypeOK
<1>9. ReadIsCurrent'
  <2>1. InFlight = {r} /\ InFlight' = InFlight
    BY <1>2 DEF Doing, InFlight, Settled, Alone
  <2> QED BY <1>2, <1>8, <2>1 DEF ReadIsCurrent, Doing
<1>. QED
  BY <1>4, <1>5, <1>6, <1>9 DEF Settled

(* The client, the clock and the worker touch no session's status.            *)
LEMMA OthersSettle ==
  ASSUME IInv, Settled,
         \/ \E s \in Sessions : Put(s) \/ Expire(s)
         \/ \E v \in versions : WorkerSettles(v)
         \/ UNCHANGED vars
  PROVE  Settled' /\ UNCHANGED session
<1>1. UNCHANGED <<session, pc, op, seen, todo>>
  BY DEF Put, Expire, WorkerSettles, vars, rowVars, reqVars
<1>2. Alone' /\ ReadIsCurrent'
  BY <1>1 DEF Settled, Alone, ReadIsCurrent, InFlight
<1>3. CASE \E s \in Sessions : Put(s) \/ Expire(s)
  <2>1. UNCHANGED versions /\ \A s \in Sessions : object[s] # None => object'[s] # None
    BY <1>3, UploadAssumption DEF Put, Expire, rowVars, IInv, TypeOK
  <2>2. \A v \in versions : v.of \in Sessions
    BY DEF IInv, TypeOK, Versions
  <2>3. VersionsAreAccepted' /\ QuarantineKeepsBytes'
    BY <1>1, <2>1, <2>2 DEF Settled, VersionsAreAccepted, QuarantineKeepsBytes
  <2> QED BY <1>1, <1>2, <2>3 DEF Settled
<1>4. CASE \E v \in versions : WorkerSettles(v)
  <2>1. PICK v \in versions, u \in {"ACCEPTED", "REJECTED"} :
          versions' = (versions \ {v}) \cup {[v EXCEPT !.upload = u]}
    BY <1>4 DEF WorkerSettles
  <2>2. UNCHANGED object
    BY <1>4 DEF WorkerSettles
  <2> DEFINE w == [v EXCEPT !.upload = u]
  <2>3. w.of = v.of /\ w.upload # "VALIDATING"
    BY DEF IInv, TypeOK, Versions
  <2>4. versions' = (versions \ {v}) \cup {w}
    BY <2>1
  <2> HIDE DEF w
  <2>5. VersionsAreAccepted' /\ QuarantineKeepsBytes'
    BY <1>1, <2>2, <2>3, <2>4 DEF Settled, VersionsAreAccepted, QuarantineKeepsBytes
  <2> QED BY <1>1, <1>2, <2>5 DEF Settled
<1>5. CASE UNCHANGED vars
  BY <1>1, <1>2, <1>5 DEF vars, rowVars, Settled, VersionsAreAccepted, QuarantineKeepsBytes
<1>. QED
  BY <1>3, <1>4, <1>5

(* Every step of handlers that do not overlap.                                *)
LEMMA SettledStep ==
  ASSUME MaxInFlight = 1, IInv, Settled, [Next]_vars
  PROVE  /\ Settled'
         /\ \A s \in Sessions : session[s] \in Terminal => session'[s] = session[s]
<1>1. ASSUME NEW r \in Requests, Initiate(r) \/ Complete(r) \/ Cancel(r) \/ Reconcile(r)
      PROVE  /\ Settled'
             /\ \A s \in Sessions : session[s] \in Terminal => session'[s] = session[s]
  <2>1. CASE InitiateCount(r) \/ CompleteRead(r) \/ CancelRead(r) \/ ReconcileRead(r)
    <3>1. UNCHANGED session
      BY <2>1 DEF InitiateCount, CompleteRead, CancelRead, ReconcileRead, rowVars
    <3> QED BY <2>1, <3>1, ReadsSettle
  <2>0. CASE CompleteHead(r)
    <3>1. /\ pc[r] = "read" /\ pc' = [pc EXCEPT ![r] = "headed"]
          /\ UNCHANGED <<session, versions, object, op, seen, todo>>
      BY <2>0 DEF CompleteHead, Validating, Doing, rowVars
    <3>2. InFlight' = InFlight
      BY <3>1 DEF InFlight, IInv, TypeOK
    <3> QED BY <3>1, <3>2 DEF Settled, Alone, ReadIsCurrent, VersionsAreAccepted, QuarantineKeepsBytes
  <2>2. CASE InitiateCreate(r) \/ CompleteAccepts(r)
    BY <2>2, InsertsSettle
  <2>3. CASE ReconcileWrite(r)
    BY <2>3, ReconcileSettles
  <2>4. CASE ~(InitiateCount(r) \/ CompleteRead(r) \/ CancelRead(r) \/ ReconcileRead(r)
               \/ CompleteHead(r) \/ InitiateCreate(r) \/ CompleteAccepts(r) \/ ReconcileWrite(r))
    BY <1>1, <2>4, EndsSettle, WritesToOpenSessions DEF Initiate, Complete, Cancel, Reconcile
  <2> QED BY <2>0, <2>1, <2>2, <2>3, <2>4
<1>2. CASE \/ \E s \in Sessions : Put(s) \/ Expire(s)
           \/ \E v \in versions : WorkerSettles(v)
           \/ UNCHANGED vars
  BY <1>2, OthersSettle
<1>. QED
  BY <1>1, <1>2 DEF Next

(* One request at a time: an upload that came to an end stays as it is, and   *)
(* the bytes a version waits for are not deleted, whatever the client PUTs    *)
(* and whenever deadlines pass.                                               *)
THEOREM UploadsStayFinal ==
  ASSUME MaxInFlight = 1
  PROVE  Spec => UploadsAreFinal
<1>1. Init => Settled
  BY DEF Init, Settled, Alone, ReadIsCurrent, InFlight, VersionsAreAccepted, QuarantineKeepsBytes
<1>2. IInv /\ Settled /\ [Next]_vars => Settled'
  BY SettledStep
<1>3. IInv /\ Settled /\ [Next]_vars =>
        [\A s \in Sessions : session[s] \in Terminal => session'[s] = session[s]]_vars
  BY SettledStep
<1>4. Settled => QuarantineKeepsBytes
  BY DEF Settled
<1>5. Spec => []IInv
  BY InitIInv, StepIInv, PTL DEF Spec
<1>. QED
  BY <1>1, <1>2, <1>3, <1>4, <1>5, PTL DEF Spec, UploadsAreFinal, TerminalIsFinal
=============================================================================
