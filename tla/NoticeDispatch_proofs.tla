------------------------ MODULE NoticeDispatch_proofs ------------------------
(* Keys, provider events and the package's status, for every number of        *)
(* handlers, authorizations, recipients and events, whatever overlaps.        *)
EXTENDS NoticeDispatch, FiniteSetTheorems, TLAPS

(* What a handler carries names rows that exist; a send in progress has an    *)
(* attempt that nobody else sees.                                             *)
Shaped(h) ==
  /\ local[h].op \in {"authorize", "reject", "revoke"} => local[h].auth \in Auths
  /\ local[h].op \in {"send", "transmitted"} => local[h].auth \in Auths \ Manual
  /\ local[h].op = "manual" => local[h].auth \in Manual
  /\ local[h].op = "transmitted" => KeyOf(h) \in Keys /\ ~Exists(KeyOf(h))
  /\ local[h].op \in {"webhook", "webhook-updated"} =>
       local[h].event \in Events /\ local[h].event.at \in messages
WorkIsShaped == \A h \in Handlers : Shaped(h)

(* An attempt with a message id is on record. *)
MessagesRecorded == \A k \in messages : Exists(k)

(* One send at a time is between the provider's answer and its commit.        *)
OneTransmits ==
  \A g, h \in Handlers : local[g].op = "transmitted" /\ local[h].op = "transmitted" => g = h

(* A key was sent once for every rollback, and once more if it is on record   *)
(* or about to be.                                                            *)
Pending(k)  == \E h \in Handlers : local[h].op = "transmitted" /\ KeyOf(h) = k
Emailed(k)  == k[1] \notin Manual /\ Exists(k)
KeyAccounts == \A k \in Keys : sent[k] = lost[k] + (IF Emailed(k) \/ Pending(k) THEN 1 ELSE 0)

(* An event is being processed by one webhook at most, and not again later.   *)
OneInserts ==
  \A e \in Events, g \in Handlers : Inserting(g, e) =>
    e \notin processed /\ \A h \in Handlers : Inserting(h, e) => g = h
AppliedAccounts == \A e \in Events : applied[e] = IF e \in processed THEN 1 ELSE 0

Base == TypeOK /\ WorkIsShaped /\ MessagesRecorded
IInv == Base /\ OneTransmits /\ KeyAccounts /\ OneInserts /\ AppliedAccounts /\ PackageFollowsAttempt

-----------------------------------------------------------------------------
(* Types of what the actions compute.                                         *)

LEMMA AggregateTyped ==
  ASSUME NEW s
  PROVE  Aggregate(s) \in AttemptStatuses /\ Aggregate(s) # "ABSENT"
  BY DEF Aggregate, AttemptStatuses

LEMMA PackageTyped ==
  ASSUME NEW st
  PROVE  AttemptToPackage(st) \in PackageStatuses
  BY DEF AttemptToPackage, PackageStatuses

LEMMA NobodyTyped == NoOne \in Statuses
  BY DEF NoOne, Statuses, RecipientStatuses

LEMMA WorkTyped ==
  ASSUME NEW o \in Ops, NEW a \in Auths \cup {None}, NEW n \in Nat, NEW s \in Statuses,
         NEW e \in Events \cup {None}
  PROVE  /\ Work(o, a, n, s, e) \in Local
         /\ Work(o, a, n, s, e).op = o /\ Work(o, a, n, s, e).auth = a
         /\ Work(o, a, n, s, e).number = n /\ Work(o, a, n, s, e).statuses = s
         /\ Work(o, a, n, s, e).event = e
  BY DEF Work, Local

LEMMA NoWorkTyped == NoWork \in Local /\ NoWork.op = "idle"
  BY WorkTyped, NobodyTyped DEF NoWork, Ops

LEMMA HandlerMoves ==
  ASSUME local \in [Handlers -> Local], NEW h \in Handlers, NEW s \in Local,
         local' = [local EXCEPT ![h] = s]
  PROVE  /\ local' \in [Handlers -> Local] /\ local'[h] = s
         /\ \A g \in Handlers : g # h => local'[g] = local[g]
  OBVIOUS

-----------------------------------------------------------------------------
(* A step that touches neither attempts, events nor what was sent, and after  *)
(* which one handler carries something that is not yet written.               *)
Carries(s) ==
  /\ s.op \in Ops \ {"transmitted", "webhook-updated"}
  /\ s.op \in {"authorize", "reject", "revoke"} => s.auth \in Auths
  /\ s.op = "send" => s.auth \in Auths \ Manual
  /\ s.op = "manual" => s.auth \in Manual
  /\ s.op = "webhook" => s.event \in Events /\ s.event.at \in messages

Quiet ==
  /\ UNCHANGED <<attempt, messages, processed, sent, lost, applied>>
  /\ auth' \in [Auths -> AuthStatuses \cup {"ABSENT"}]
  /\ recipient' \in [Keys -> Statuses]
  /\ assessed' \in BOOLEAN /\ raced' \in BOOLEAN
  /\ grants' \in [Auths -> Nat]
  /\ package' = package \/ package' \in PackageStatuses \
                             {"DELIVERY_CONFIRMED", "DELIVERY_PARTIAL", "DELIVERY_FAILED"}

LEMMA QuietKeepsRows ==
  ASSUME IInv, Quiet, local' \in [Handlers -> Local]
  PROVE  TypeOK' /\ MessagesRecorded' /\ AppliedAccounts' /\ PackageFollowsAttempt'
<1>1. TypeOK'
  BY DEF Quiet, IInv, Base, TypeOK
<1>2. MessagesRecorded' /\ AppliedAccounts'
  BY DEF Quiet, IInv, Base, MessagesRecorded, AppliedAccounts, Exists
<1>3. PackageFollowsAttempt'
  BY DEF Quiet, IInv, PackageFollowsAttempt, Exists
<1> QED BY <1>1, <1>2, <1>3

LEMMA QuietKeeps ==
  ASSUME IInv, Quiet, NEW h \in Handlers, NEW s \in Local, Carries(s),
         local[h].op # "transmitted", local' = [local EXCEPT ![h] = s]
  PROVE  IInv'
<1>1. /\ local' \in [Handlers -> Local] /\ local'[h] = s
      /\ \A g \in Handlers : g # h => local'[g] = local[g]
  BY HandlerMoves DEF IInv, Base, TypeOK
<1>2. TypeOK' /\ MessagesRecorded' /\ AppliedAccounts' /\ PackageFollowsAttempt'
  BY <1>1, QuietKeepsRows
<1>3. ASSUME NEW g \in Handlers PROVE Shaped(g)'
  <2>1. CASE g = h
    BY <1>1, <2>1 DEF Shaped, Carries, Quiet, KeyOf, Exists
  <2>2. CASE g # h
    BY <1>1, <2>2 DEF Shaped, Quiet, KeyOf, Exists, IInv, Base, WorkIsShaped
  <2> QED BY <2>1, <2>2
<1>4. OneTransmits'
  BY <1>1 DEF OneTransmits, Carries, IInv
<1>5. \A k \in Keys : Pending(k)' <=> Pending(k)
  BY <1>1 DEF Pending, Carries, KeyOf
<1>6. KeyAccounts'
  BY <1>5 DEF KeyAccounts, Emailed, Exists, Quiet, IInv
<1>7. OneInserts'
  BY <1>1 DEF OneInserts, Inserting, Carries, Quiet, IInv
<1> QED BY <1>2, <1>3, <1>4, <1>6, <1>7 DEF IInv, Base, WorkIsShaped

(* The same for a handler that is one step. *)
LEMMA QuietStands ==
  ASSUME IInv, Quiet, UNCHANGED local
  PROVE  IInv'
<1>1. TypeOK' /\ MessagesRecorded' /\ AppliedAccounts' /\ PackageFollowsAttempt'
  BY QuietKeepsRows DEF IInv, Base, TypeOK
<1>2. WorkIsShaped'
  BY DEF WorkIsShaped, Shaped, KeyOf, Exists, Quiet, IInv, Base
<1>3. OneTransmits' /\ OneInserts'
  BY DEF OneTransmits, OneInserts, Inserting, Quiet, IInv
<1>4. KeyAccounts'
  BY DEF KeyAccounts, Emailed, Pending, KeyOf, Exists, Quiet, IInv
<1> QED BY <1>1, <1>2, <1>3, <1>4 DEF IInv, Base

-----------------------------------------------------------------------------
(* The steps that are quiet.                                                  *)

LEMMA RacedTyped ==
  ASSUME IInv, NEW h \in Handlers, Notes(h)
  PROVE  raced' \in BOOLEAN
  BY DEF Notes, IInv, Base, TypeOK

(* Reads: nothing but the handler's own variables changes. *)
LEMMA ReadKeeps ==
  ASSUME IInv, NEW h \in Handlers,
         \/ AuthorizeRead(h) \/ RejectRead(h) \/ RevokeRead(h)
         \/ SendRead(h) \/ ManualRead(h) \/ WebhookRead(h) \/ Abort(h)
  PROVE  IInv'
<1> USE NobodyTyped, DispatchAssumption
<1>1. ASSUME NEW s \in Local, Carries(s), Begin(h, s), UNCHANGED <<rows, hist>>
      PROVE  IInv'
  <2>1. Quiet
    BY <1>1, RacedTyped DEF Begin, Quiet, IInv, Base, TypeOK, rows, hist
  <2>2. local[h].op # "transmitted" /\ local' = [local EXCEPT ![h] = s]
    BY <1>1 DEF Begin, Busy
  <2> QED BY <1>1, <2>1, <2>2, QuietKeeps
<1>2. ASSUME NEW op \in {"authorize", "reject", "revoke"}, NEW from, DecisionRead(h, op, from)
      PROVE  IInv'
  <2>1. PICK a \in Auths : Begin(h, Work(op, a, 0, NoOne, None)) /\ UNCHANGED <<rows, hist>>
    BY <1>2 DEF DecisionRead
  <2>2. Work(op, a, 0, NoOne, None) \in Local /\ Carries(Work(op, a, 0, NoOne, None))
    BY WorkTyped DEF Ops, Carries
  <2> QED BY <1>1, <2>1, <2>2
<1>3. CASE AuthorizeRead(h) \/ RejectRead(h) \/ RevokeRead(h)
  BY <1>2, <1>3 DEF AuthorizeRead, RejectRead, RevokeRead
<1>4. CASE SendRead(h)
  <2>1. PICK a \in Auths \ Manual : /\ Begin(h, Work("send", a, 0, NoOne, None))
                                    /\ UNCHANGED <<rows, hist>>
    BY <1>4 DEF SendRead
  <2>2. /\ Work("send", a, 0, NoOne, None) \in Local
        /\ Work("send", a, 0, NoOne, None).op = "send"
        /\ Work("send", a, 0, NoOne, None).auth = a
    BY WorkTyped DEF Ops
  <2>3. Carries(Work("send", a, 0, NoOne, None))
    BY <2>2 DEF Ops, Carries
  <2> QED BY <1>1, <2>1, <2>2, <2>3
<1>5. CASE ManualRead(h)
  <2>1. PICK a \in Manual : /\ Begin(h, Work("manual", a, 0, NoOne, None))
                            /\ UNCHANGED <<rows, hist>>
    BY <1>5 DEF ManualRead
  <2>2. Work("manual", a, 0, NoOne, None) \in Local /\ Carries(Work("manual", a, 0, NoOne, None))
    BY WorkTyped DEF Ops, Carries
  <2> QED BY <1>1, <2>1, <2>2
<1>6. CASE WebhookRead(h)
  <2>1. PICK e \in Events : /\ Begin(h, Work("webhook", None, 0, NoOne, e))
                            /\ e.at \in messages
                            /\ UNCHANGED <<rows, hist>>
    BY <1>6 DEF WebhookRead
  <2>2. /\ Work("webhook", None, 0, NoOne, e) \in Local
        /\ Carries(Work("webhook", None, 0, NoOne, e))
    BY <2>1, WorkTyped DEF Ops, Carries
  <2> QED BY <1>1, <2>1, <2>2
<1>7. CASE Abort(h)
  <2>1. Quiet
    BY <1>7 DEF Abort, Quiet, IInv, Base, TypeOK, rows, hist
  <2>2. Carries(NoWork)
    BY NoWorkTyped DEF Carries, Ops
  <2> QED BY <1>7, <2>1, <2>2, NoWorkTyped, QuietKeeps DEF Abort
<1> QED BY <1>3, <1>4, <1>5, <1>6, <1>7

(* Decisions on an authorization. *)
LEMMA DecisionKeeps ==
  ASSUME IInv, NEW h \in Handlers, AuthorizeWrite(h) \/ RejectWrite(h) \/ RevokeWrite(h)
  PROVE  IInv'
<1>1. PICK op \in {"authorize", "reject", "revoke"}, st \in AuthStatuses,
           ps \in PackageStatuses \ {"DELIVERY_CONFIRMED", "DELIVERY_PARTIAL", "DELIVERY_FAILED"} :
        Decide(h, op, st, ps)
  BY DEF AuthorizeWrite, RejectWrite, RevokeWrite, AuthStatuses, PackageStatuses
<1>2. /\ local[h].op = op /\ local' = [local EXCEPT ![h] = NoWork] /\ UNCHANGED raced
      /\ auth' = [auth EXCEPT ![local[h].auth] = st] /\ package' = ps
      /\ UNCHANGED <<attempt, recipient, messages, processed, assessed, sent, lost, applied>>
  BY <1>1 DEF Decide, Commit
<1>3. local[h].auth \in Auths
  BY <1>2 DEF IInv, Base, WorkIsShaped, Shaped
<1>4. grants' \in [Auths -> Nat]
  BY <1>3 DEF AuthorizeWrite, RejectWrite, RevokeWrite, IInv, Base, TypeOK
<1>5. Quiet
  BY <1>2, <1>3, <1>4 DEF Quiet, IInv, Base, TypeOK
<1>6. Carries(NoWork)
  BY NoWorkTyped DEF Carries, Ops
<1> QED BY <1>2, <1>5, <1>6, NoWorkTyped, QuietKeeps

(* Handlers of one step. *)
LEMMA OnceKeeps ==
  ASSUME IInv, NEW h \in Handlers,
         RequestAuthorization(h) \/ Acknowledge(h) \/ AssessReceipt(h) \/ ConfirmService(h)
  PROVE  IInv'
<1>1. CASE RequestAuthorization(h)
  <2>1. PICK a \in Auths : auth' = [auth EXCEPT ![a] = "REQUESTED"]
    BY <1>1 DEF RequestAuthorization
  <2>2. auth' \in [Auths -> AuthStatuses \cup {"ABSENT"}]
    BY <2>1 DEF IInv, Base, TypeOK, AuthStatuses
  <2>3. Quiet /\ UNCHANGED local
    BY <1>1, <2>2, RacedTyped DEF RequestAuthorization, Once, Quiet, IInv, Base, TypeOK, hist
  <2> QED BY <2>3, QuietStands
<1>2. CASE Acknowledge(h)
  <2>1. PICK k \in Keys, r \in Recipients : recipient' = [recipient EXCEPT ![k][r] = "ACKNOWLEDGED"]
    BY <1>2 DEF Acknowledge
  <2>2. recipient[k] \in [Recipients -> RecipientStatuses] /\ "ACKNOWLEDGED" \in RecipientStatuses
    BY DEF IInv, Base, TypeOK, Statuses, RecipientStatuses
  <2>3. [recipient[k] EXCEPT ![r] = "ACKNOWLEDGED"] \in Statuses
    BY <2>2 DEF Statuses
  <2>4. recipient' \in [Keys -> Statuses]
    BY <2>1, <2>3 DEF IInv, Base, TypeOK
  <2>5. Quiet /\ UNCHANGED local
    BY <1>2, <2>4, RacedTyped DEF Acknowledge, Once, Quiet, IInv, Base, TypeOK, hist
  <2> QED BY <2>5, QuietStands
<1>3. CASE AssessReceipt(h)
  <2>1. Quiet /\ UNCHANGED local
    BY <1>3, RacedTyped DEF AssessReceipt, Once, Quiet, IInv, Base, TypeOK, hist
  <2> QED BY <2>1, QuietStands
<1>4. CASE ConfirmService(h)
  <2>1. Quiet /\ UNCHANGED local
    BY <1>4, RacedTyped DEF ConfirmService, Once, Quiet, IInv, Base, TypeOK, hist, PackageStatuses
  <2> QED BY <2>1, QuietStands
<1> QED BY <1>1, <1>2, <1>3, <1>4


-----------------------------------------------------------------------------
(* The send.                                                                  *)

(* The provider is called under a key that is neither on record nor pending.  *)
LEMMA TransmitKeeps ==
  ASSUME IInv, NEW h \in Handlers, SendTransmit(h)
  PROVE  IInv'
<1> DEFINE a == local[h].auth
           n == Count(a) + 1
           k == <<a, n>>
<1>1. /\ local[h].op = "send" /\ k \in Keys /\ ~Exists(k)
      /\ \A g \in Handlers \ {h} : local[g].op # "transmitted"
      /\ sent' = [sent EXCEPT ![k] = @ + 1]
      /\ UNCHANGED <<rows, lost, grants, applied, raced>>
  BY DEF SendTransmit, PackageFree
<1>2. PICK s \in Answers : local' = [local EXCEPT ![h] = Work("transmitted", a, n, s, None)]
  BY DEF SendTransmit
<1> DEFINE w == Work("transmitted", a, n, s, None)
<1>3. a \in Auths \ Manual /\ n \in Nat
  BY <1>1, DispatchAssumption DEF IInv, Base, WorkIsShaped, Shaped
<1>4. /\ w \in Local /\ w.op = "transmitted" /\ w.auth = a /\ w.number = n
  BY <1>3, WorkTyped, DispatchAssumption DEF Ops, Statuses
<1> HIDE DEF w, n, a
<1>5. /\ local' \in [Handlers -> Local] /\ local'[h] = w
      /\ \A g \in Handlers : g # h => local'[g] = local[g]
  BY <1>2, <1>4, HandlerMoves DEF IInv, Base, TypeOK, w
<1>6. TypeOK'
  BY <1>1, <1>5 DEF IInv, Base, TypeOK, rows
<1>7. MessagesRecorded' /\ AppliedAccounts' /\ PackageFollowsAttempt'
  BY <1>1 DEF IInv, Base, MessagesRecorded, AppliedAccounts, PackageFollowsAttempt, Exists, rows
<1>8. ASSUME NEW g \in Handlers PROVE Shaped(g)'
  <2>1. CASE g = h
    BY <1>1, <1>3, <1>4, <1>5, <2>1 DEF Shaped, KeyOf, Exists, rows
  <2>2. CASE g # h
    BY <1>1, <1>5, <2>2 DEF Shaped, KeyOf, Exists, rows, IInv, Base, WorkIsShaped
  <2> QED BY <2>1, <2>2
<1>9. OneTransmits'
  BY <1>1, <1>5 DEF OneTransmits
<1>10. OneInserts'
  BY <1>1, <1>4, <1>5 DEF OneInserts, Inserting, IInv, rows
<1>11. \A q \in Keys : ~Pending(q)
  BY <1>1 DEF Pending
<1>12. \A q \in Keys : Pending(q)' <=> q = k
  BY <1>1, <1>4, <1>5 DEF Pending, KeyOf
<1>13. ASSUME NEW q \in Keys
       PROVE  sent'[q] = lost'[q] + (IF Emailed(q)' \/ Pending(q)' THEN 1 ELSE 0)
  <2>1. sent[q] = lost[q] + (IF Emailed(q) THEN 1 ELSE 0) /\ sent[q] \in Nat /\ lost[q] \in Nat
    BY <1>11 DEF IInv, KeyAccounts, Base, TypeOK
  <2>2. Emailed(q)' <=> Emailed(q)
    BY <1>1 DEF Emailed, Exists, rows
  <2>3. lost'[q] = lost[q] /\ sent'[q] = IF q = k THEN sent[q] + 1 ELSE sent[q]
    BY <1>1 DEF IInv, Base, TypeOK
  <2>4. q = k => ~Emailed(q)
    BY <1>1 DEF Emailed
  <2> QED BY <2>1, <2>2, <2>3, <2>4, <1>12
<1> QED BY <1>6, <1>7, <1>8, <1>9, <1>10, <1>13 DEF IInv, Base, WorkIsShaped, KeyAccounts

(* What the two ends of a transmission share: nothing is pending afterwards.  *)
LEMMA TransmittedEnds ==
  ASSUME IInv, NEW h \in Handlers, Commit(h, "transmitted")
  PROVE  /\ KeyOf(h) \in Keys /\ ~Exists(KeyOf(h)) /\ KeyOf(h)[1] \in Auths \ Manual
         /\ local[h].statuses \in Statuses
         /\ local' \in [Handlers -> Local] /\ local'[h] = NoWork
         /\ \A g \in Handlers : g # h => local'[g] = local[g] /\ local[g].op # "transmitted"
         /\ \A k \in Keys : (Pending(k) <=> k = KeyOf(h)) /\ ~Pending(k)'
         /\ OneTransmits'
<1>1. local[h].op = "transmitted" /\ local' = [local EXCEPT ![h] = NoWork]
  BY DEF Commit
<1>2. /\ KeyOf(h) \in Keys /\ ~Exists(KeyOf(h)) /\ local[h].auth \in Auths \ Manual
  BY <1>1 DEF IInv, Base, WorkIsShaped, Shaped
<1>3. KeyOf(h)[1] = local[h].auth
  BY DEF KeyOf
<1>4. local[h].statuses \in Statuses
  BY DEF IInv, Base, TypeOK, Local
<1>5. /\ local' \in [Handlers -> Local] /\ local'[h] = NoWork
      /\ \A g \in Handlers : g # h => local'[g] = local[g]
  BY <1>1, HandlerMoves, NoWorkTyped DEF IInv, Base, TypeOK
<1>6. \A g \in Handlers : g # h => local[g].op # "transmitted"
  BY <1>1 DEF IInv, OneTransmits
<1>7. \A k \in Keys : Pending(k) <=> k = KeyOf(h)
  BY <1>1, <1>6 DEF Pending
<1>8. \A g \in Handlers : local'[g].op # "transmitted"
  BY <1>5, <1>6, NoWorkTyped
<1>9. \A k \in Keys : ~Pending(k)'
  BY <1>8 DEF Pending
<1>10. OneTransmits'
  BY <1>8 DEF OneTransmits
<1> QED BY <1>2, <1>3, <1>4, <1>5, <1>6, <1>7, <1>9, <1>10

(* The others keep their shape when an attempt is recorded or none is.        *)
LEMMA OthersShaped ==
  ASSUME IInv, NEW h \in Handlers, local'[h] = NoWork,
         \A g \in Handlers : g # h => local'[g] = local[g],
         messages \subseteq messages',
         \A g \in Handlers : g # h /\ local[g].op = "transmitted" => ~Exists(KeyOf(g))'
  PROVE  WorkIsShaped'
<1> SUFFICES ASSUME NEW g \in Handlers PROVE Shaped(g)'
  BY DEF WorkIsShaped
<1>1. CASE g = h
  BY <1>1, NoWorkTyped DEF Shaped
<1>2. CASE g # h
  <2>1. Shaped(g) /\ local'[g] = local[g] /\ KeyOf(g)' = KeyOf(g)
    BY <1>2 DEF IInv, Base, WorkIsShaped, KeyOf
  <2>2. local[g].op = "transmitted" => ~Exists(KeyOf(g))'
    BY <1>2
  <2> QED BY <2>1, <2>2 DEF Shaped
<1> QED BY <1>1, <1>2

LEMMA SendCommitKeeps ==
  ASSUME IInv, NEW h \in Handlers, SendCommit(h)
  PROVE  IInv'
<1> DEFINE k == KeyOf(h)
           outcome == local[h].statuses
           st == Aggregate(outcome)
<1>1. /\ Commit(h, "transmitted")
      /\ attempt' = [attempt EXCEPT ![k] = st]
      /\ recipient' = [recipient EXCEPT ![k] = outcome]
      /\ messages \subseteq messages' /\ messages' \subseteq messages \cup {k}
      /\ auth' = [auth EXCEPT ![k[1]] = "USED"]
      /\ package' = AttemptToPackage(st)
      /\ UNCHANGED <<processed, assessed, hist, raced>>
  BY DEF SendCommit, Commit
<1>2. /\ k \in Keys /\ ~Exists(k) /\ k[1] \in Auths \ Manual /\ outcome \in Statuses
      /\ local' \in [Handlers -> Local] /\ local'[h] = NoWork
      /\ \A g \in Handlers : g # h => local'[g] = local[g] /\ local[g].op # "transmitted"
      /\ \A q \in Keys : (Pending(q) <=> q = k) /\ ~Pending(q)'
      /\ OneTransmits'
  BY <1>1, TransmittedEnds
<1>3. st \in AttemptStatuses /\ st # "ABSENT" /\ AttemptToPackage(st) \in PackageStatuses
  BY AggregateTyped, PackageTyped
<1> HIDE DEF k, outcome, st
<1>4. TypeOK'
  <2>1. attempt' \in [Keys -> AttemptStatuses \cup {"ABSENT"}] /\ recipient' \in [Keys -> Statuses]
    BY <1>1, <1>2, <1>3 DEF IInv, Base, TypeOK
  <2>2. auth' \in [Auths -> AuthStatuses \cup {"ABSENT"}] /\ messages' \subseteq Keys
    BY <1>1, <1>2 DEF IInv, Base, TypeOK, AuthStatuses
  <2> QED BY <1>1, <1>2, <1>3, <2>1, <2>2 DEF IInv, Base, TypeOK, hist
<1>5. \A q \in Keys : attempt'[q] = IF q = k THEN st ELSE attempt[q]
  BY <1>1 DEF IInv, Base, TypeOK
<1>6. MessagesRecorded'
  BY <1>1, <1>2, <1>3, <1>5 DEF IInv, Base, TypeOK, MessagesRecorded, Exists
<1>7. WorkIsShaped'
  BY <1>1, <1>2, OthersShaped
<1>8. PackageFollowsAttempt'
  BY <1>1, <1>2, <1>3, <1>5 DEF PackageFollowsAttempt, Exists
<1>9. OneInserts' /\ AppliedAccounts'
  BY <1>1, <1>2, NoWorkTyped DEF IInv, OneInserts, Inserting, AppliedAccounts, hist
<1>10. KeyAccounts'
  <2> SUFFICES ASSUME NEW q \in Keys
               PROVE  sent'[q] = lost'[q] + (IF Emailed(q)' \/ Pending(q)' THEN 1 ELSE 0)
    BY DEF KeyAccounts
  <2>1. sent[q] = lost[q] + (IF Emailed(q) \/ Pending(q) THEN 1 ELSE 0)
    BY DEF IInv, KeyAccounts
  <2>2. Emailed(q)' <=> Emailed(q) \/ q = k
    BY <1>2, <1>3, <1>5 DEF Emailed, Exists
  <2>3. sent'[q] = sent[q] /\ lost'[q] = lost[q]
    BY <1>1 DEF hist
  <2> QED BY <1>2, <2>1, <2>2, <2>3
<1> QED BY <1>2, <1>4, <1>6, <1>7, <1>8, <1>9, <1>10 DEF IInv, Base

LEMMA SendLostKeeps ==
  ASSUME IInv, NEW h \in Handlers, SendLost(h)
  PROVE  IInv'
<1> DEFINE k == KeyOf(h)
<1>1. /\ Commit(h, "transmitted") /\ UNCHANGED raced
      /\ lost' = [lost EXCEPT ![k] = @ + 1]
      /\ UNCHANGED <<rows, sent, grants, applied>>
  BY DEF SendLost, Commit
<1>2. /\ k \in Keys /\ ~Exists(k)
      /\ local' \in [Handlers -> Local] /\ local'[h] = NoWork
      /\ \A g \in Handlers : g # h => local'[g] = local[g] /\ local[g].op # "transmitted"
      /\ \A q \in Keys : (Pending(q) <=> q = k) /\ ~Pending(q)'
      /\ OneTransmits'
  BY <1>1, TransmittedEnds
<1> HIDE DEF k
<1>3. TypeOK'
  BY <1>1, <1>2 DEF IInv, Base, TypeOK, rows
<1>4. MessagesRecorded' /\ PackageFollowsAttempt'
  BY <1>1 DEF IInv, Base, MessagesRecorded, PackageFollowsAttempt, Exists, rows
<1>5. WorkIsShaped'
  BY <1>1, <1>2, OthersShaped DEF rows
<1>6. OneInserts' /\ AppliedAccounts'
  BY <1>1, <1>2, NoWorkTyped DEF IInv, OneInserts, Inserting, AppliedAccounts, rows
<1>7. KeyAccounts'
  <2> SUFFICES ASSUME NEW q \in Keys
               PROVE  sent'[q] = lost'[q] + (IF Emailed(q)' \/ Pending(q)' THEN 1 ELSE 0)
    BY DEF KeyAccounts
  <2>1. /\ sent[q] = lost[q] + (IF Emailed(q) \/ Pending(q) THEN 1 ELSE 0)
        /\ sent[q] \in Nat /\ lost[q] \in Nat
    BY DEF IInv, KeyAccounts, Base, TypeOK
  <2>2. (Emailed(q)' <=> Emailed(q)) /\ (q = k => ~Emailed(q))
    BY <1>1, <1>2 DEF Emailed, Exists, rows
  <2>3. sent'[q] = sent[q] /\ lost'[q] = IF q = k THEN lost[q] + 1 ELSE lost[q]
    BY <1>1 DEF IInv, Base, TypeOK
  <2> QED BY <1>2, <2>1, <2>2, <2>3
<1> QED BY <1>2, <1>3, <1>4, <1>5, <1>6, <1>7 DEF IInv, Base

-----------------------------------------------------------------------------
(* A manual dispatch records an attempt that is not emailed.                  *)
LEMMA ManualWriteKeeps ==
  ASSUME IInv, NEW h \in Handlers, ManualWrite(h)
  PROVE  IInv'
<1> DEFINE k == <<local[h].auth, Count(local[h].auth) + 1>>
<1>1. /\ local[h].op = "manual" /\ local' = [local EXCEPT ![h] = NoWork] /\ UNCHANGED raced
      /\ \A g \in Handlers \ {h} : local[g].op # "transmitted"
      /\ k \in Keys /\ ~Exists(k)
      /\ attempt' = [attempt EXCEPT ![k] = "AWAITING_EVIDENCE"]
      /\ recipient' = [recipient EXCEPT ![k] = [r \in Recipients |-> "MANUALLY_CONFIRMED"]]
      /\ auth' = [auth EXCEPT ![local[h].auth] = "USED"]
      /\ package' = "DISPATCHED"
      /\ UNCHANGED <<messages, processed, assessed, hist>>
  BY DEF ManualWrite, Commit, PackageFree
<1>2. local[h].auth \in Manual /\ k[1] = local[h].auth
  BY <1>1 DEF IInv, Base, WorkIsShaped, Shaped
<1> HIDE DEF k
<1>3. /\ local' \in [Handlers -> Local] /\ local'[h] = NoWork
      /\ \A g \in Handlers : g # h => local'[g] = local[g]
  BY <1>1, HandlerMoves, NoWorkTyped DEF IInv, Base, TypeOK
<1>4. TypeOK'
  <2>1. [r \in Recipients |-> "MANUALLY_CONFIRMED"] \in Statuses
    BY DEF Statuses, RecipientStatuses
  <2>2. attempt' \in [Keys -> AttemptStatuses \cup {"ABSENT"}] /\ recipient' \in [Keys -> Statuses]
    BY <1>1, <2>1 DEF IInv, Base, TypeOK, AttemptStatuses
  <2>3. auth' \in [Auths -> AuthStatuses \cup {"ABSENT"}] /\ package' \in PackageStatuses
    BY <1>1 DEF IInv, Base, TypeOK, AuthStatuses, PackageStatuses
  <2> QED BY <1>1, <1>3, <2>2, <2>3 DEF IInv, Base, TypeOK, hist
<1>5. \A q \in Keys : attempt'[q] = IF q = k THEN "AWAITING_EVIDENCE" ELSE attempt[q]
  BY <1>1 DEF IInv, Base, TypeOK
<1>6. MessagesRecorded'
  BY <1>1, <1>5 DEF IInv, Base, TypeOK, MessagesRecorded, Exists
<1>7. WorkIsShaped'
  BY <1>1, <1>3, OthersShaped
<1>8. PackageFollowsAttempt'
  BY <1>1 DEF PackageFollowsAttempt
<1>9. OneTransmits'
  BY <1>1, <1>3, NoWorkTyped DEF OneTransmits
<1>10. OneInserts' /\ AppliedAccounts'
  BY <1>1, <1>3, NoWorkTyped DEF IInv, OneInserts, Inserting, AppliedAccounts, hist
<1>11. KeyAccounts'
  <2>1. \A q \in Keys : ~Pending(q) /\ ~Pending(q)'
    BY <1>1, <1>3, NoWorkTyped DEF Pending
  <2>2. \A q \in Keys : Emailed(q)' <=> Emailed(q)
    BY <1>1, <1>2, <1>5 DEF Emailed, Exists
  <2> QED BY <1>1, <2>1, <2>2 DEF IInv, KeyAccounts, hist
<1> QED BY <1>4, <1>6, <1>7, <1>8, <1>9, <1>10, <1>11 DEF IInv, Base

-----------------------------------------------------------------------------
(* Webhooks.                                                                  *)

LEMMA ChangedTyped ==
  ASSUME NEW s \in Statuses, NEW e \in Events
  PROVE  Changed(s, e.changes) \in Statuses
  BY DispatchAssumption DEF Changed, Statuses

(* The event's index entry is taken by nobody else. *)
LEMMA WebhookUpdateKeeps ==
  ASSUME IInv, NEW h \in Handlers, WebhookUpdate(h)
  PROVE  IInv'
<1> DEFINE e == local[h].event
           s == Changed(recipient[e.at], e.changes)
           w == Work("webhook-updated", None, 0, s, e)
<1>1. /\ local[h].op = "webhook" /\ e \notin processed
      /\ \A g \in Handlers \ {h} : ~Inserting(g, e)
      /\ local' = [local EXCEPT ![h] = w]
      /\ UNCHANGED <<rows, hist, raced>>
  BY DEF WebhookUpdate
<1>2. e \in Events /\ e.at \in messages
  BY <1>1 DEF IInv, Base, WorkIsShaped, Shaped
<1>3. s \in Statuses
  BY <1>2, ChangedTyped DEF IInv, Base, TypeOK
<1>4. w \in Local /\ w.op = "webhook-updated" /\ w.event = e
  BY <1>2, <1>3, WorkTyped DEF Ops
<1> HIDE DEF w, s
<1>5. /\ local' \in [Handlers -> Local] /\ local'[h] = w
      /\ \A g \in Handlers : g # h => local'[g] = local[g]
  BY <1>1, <1>4, HandlerMoves DEF IInv, Base, TypeOK
<1>6. TypeOK' /\ MessagesRecorded' /\ AppliedAccounts' /\ PackageFollowsAttempt'
  BY <1>1, <1>5
  DEF IInv, Base, TypeOK, MessagesRecorded, AppliedAccounts, PackageFollowsAttempt, Exists, rows, hist
<1>7. ASSUME NEW g \in Handlers PROVE Shaped(g)'
  <2>1. CASE g = h
    BY <1>1, <1>2, <1>4, <1>5, <2>1 DEF Shaped, rows
  <2>2. CASE g # h
    BY <1>1, <1>5, <2>2 DEF Shaped, KeyOf, Exists, rows, IInv, Base, WorkIsShaped
  <2> QED BY <2>1, <2>2
<1>8. OneTransmits'
  BY <1>4, <1>5 DEF IInv, OneTransmits
<1>9. \A q \in Keys : Pending(q)' <=> Pending(q)
  BY <1>1, <1>4, <1>5 DEF Pending, KeyOf
<1>10. KeyAccounts'
  BY <1>1, <1>9 DEF IInv, KeyAccounts, Emailed, Exists, rows, hist
<1>11. OneInserts'
  BY <1>1, <1>4, <1>5 DEF IInv, OneInserts, Inserting, rows
<1> QED BY <1>6, <1>7, <1>8, <1>10, <1>11 DEF IInv, Base, WorkIsShaped

LEMMA WebhookCommitKeeps ==
  ASSUME IInv, NEW h \in Handlers, WebhookCommit(h)
  PROVE  IInv'
<1> DEFINE e == local[h].event
           st == Aggregate(local[h].statuses)
<1>1. /\ local[h].op = "webhook-updated" /\ local' = [local EXCEPT ![h] = NoWork] /\ UNCHANGED raced
      /\ \A g \in Handlers \ {h} : local[g].op # "transmitted"
      /\ recipient' = [recipient EXCEPT ![e.at] = Changed(@, e.changes)]
      /\ attempt' = [attempt EXCEPT ![e.at] = st]
      /\ package' = AttemptToPackage(st)
      /\ processed' = processed \cup {e}
      /\ applied' = [applied EXCEPT ![e] = @ + 1]
      /\ UNCHANGED <<auth, messages, assessed, sent, lost, grants>>
  BY DEF WebhookCommit, Commit, PackageFree
<1>2. e \in Events /\ e.at \in messages /\ Inserting(h, e)
  BY <1>1 DEF IInv, Base, WorkIsShaped, Shaped, Inserting
<1>3. e.at \in Keys /\ Exists(e.at)
  BY <1>2 DEF IInv, Base, TypeOK, MessagesRecorded
<1>4. st \in AttemptStatuses /\ st # "ABSENT" /\ AttemptToPackage(st) \in PackageStatuses
  BY AggregateTyped, PackageTyped
<1>5. e \notin processed /\ \A g \in Handlers : g # h => ~Inserting(g, e)
  BY <1>2 DEF IInv, OneInserts
<1> HIDE DEF e, st
<1>6. /\ local' \in [Handlers -> Local] /\ local'[h] = NoWork
      /\ \A g \in Handlers : g # h => local'[g] = local[g]
  BY <1>1, HandlerMoves, NoWorkTyped DEF IInv, Base, TypeOK
<1>7. TypeOK'
  <2>1. Changed(recipient[e.at], e.changes) \in Statuses
    BY <1>2, <1>3, ChangedTyped DEF IInv, Base, TypeOK
  <2>2. attempt' \in [Keys -> AttemptStatuses \cup {"ABSENT"}] /\ recipient' \in [Keys -> Statuses]
    BY <1>1, <1>3, <1>4, <2>1 DEF IInv, Base, TypeOK
  <2>3. applied' \in [Events -> Nat] /\ processed' \subseteq Events
    BY <1>1, <1>2 DEF IInv, Base, TypeOK
  <2> QED BY <1>1, <1>4, <1>6, <2>2, <2>3 DEF IInv, Base, TypeOK
<1>8. \A q \in Keys : attempt'[q] = IF q = e.at THEN st ELSE attempt[q]
  BY <1>1 DEF IInv, Base, TypeOK
<1>9. \A q \in Keys : Exists(q)' <=> Exists(q)
  BY <1>3, <1>4, <1>8 DEF Exists
<1>10. MessagesRecorded'
  BY <1>1, <1>9 DEF IInv, Base, TypeOK, MessagesRecorded
<1>11. WorkIsShaped'
  BY <1>1, <1>6, OthersShaped
<1>12. PackageFollowsAttempt'
  BY <1>1, <1>3, <1>4, <1>8 DEF PackageFollowsAttempt, Exists
<1>13. OneTransmits'
  BY <1>1, <1>6, NoWorkTyped DEF OneTransmits
<1>14. OneInserts'
  BY <1>1, <1>5, <1>6, NoWorkTyped DEF IInv, OneInserts, Inserting
<1>15. AppliedAccounts'
  BY <1>1, <1>2, <1>5 DEF IInv, AppliedAccounts, Base, TypeOK
<1>16. KeyAccounts'
  <2>1. \A q \in Keys : ~Pending(q) /\ ~Pending(q)'
    BY <1>1, <1>6, NoWorkTyped DEF Pending
  <2>2. \A q \in Keys : Emailed(q)' <=> Emailed(q)
    BY <1>9 DEF Emailed
  <2> QED BY <1>1, <2>1, <2>2 DEF IInv, KeyAccounts
<1> QED BY <1>7, <1>10, <1>11, <1>12, <1>13, <1>14, <1>15, <1>16 DEF IInv, Base

-----------------------------------------------------------------------------
LEMMA InitIInv == Init => IInv
<1> SUFFICES ASSUME Init PROVE IInv
  OBVIOUS
<1>1. TypeOK
  BY NoWorkTyped, NobodyTyped DEF Init, TypeOK, PackageStatuses
<1>2. WorkIsShaped /\ OneTransmits /\ OneInserts
  BY NoWorkTyped DEF Init, WorkIsShaped, Shaped, OneTransmits, OneInserts, Inserting
<1>3. MessagesRecorded /\ AppliedAccounts /\ PackageFollowsAttempt
  BY DEF Init, MessagesRecorded, AppliedAccounts, PackageFollowsAttempt
<1>4. KeyAccounts
  <2>1. \A k \in Keys : ~Emailed(k) /\ ~Pending(k)
    BY NoWorkTyped DEF Init, Emailed, Exists, Pending
  <2> QED BY <2>1 DEF Init, KeyAccounts
<1> QED BY <1>1, <1>2, <1>3, <1>4 DEF IInv, Base

LEMMA NextKeepsIInv == IInv /\ [Next]_vars => IInv'
<1> SUFFICES ASSUME IInv, [Next]_vars PROVE IInv'
  OBVIOUS
<1>1. CASE UNCHANGED vars
  <2>1. Quiet /\ UNCHANGED local
    BY <1>1 DEF vars, rows, hist, Quiet, IInv, Base, TypeOK
  <2> QED BY <2>1, QuietStands
<1>2. CASE Next
  <2>1. PICK h \in Handlers :
          \/ RequestAuthorization(h) \/ AuthorizeRead(h) \/ AuthorizeWrite(h)
          \/ RejectRead(h) \/ RejectWrite(h) \/ RevokeRead(h) \/ RevokeWrite(h)
          \/ SendRead(h) \/ SendTransmit(h) \/ SendCommit(h) \/ SendLost(h)
          \/ ManualRead(h) \/ ManualWrite(h)
          \/ Acknowledge(h) \/ AssessReceipt(h) \/ ConfirmService(h)
          \/ WebhookRead(h) \/ WebhookUpdate(h) \/ WebhookCommit(h) \/ Abort(h)
    BY <1>2 DEF Next
  <2> QED BY <2>1, ReadKeeps, DecisionKeeps, OnceKeeps, TransmitKeeps, SendCommitKeeps,
             SendLostKeeps, ManualWriteKeeps, WebhookUpdateKeeps, WebhookCommitKeeps
<1> QED BY <1>1, <1>2

(* The inductive invariant holds in every reachable state. *)
THEOREM DispatchInvariant == Spec => []IInv
  BY InitIInv, NextKeepsIInv, PTL DEF Spec

(* Every reachable state is well typed. *)
THEOREM DispatchTyped == Spec => []TypeOK
<1>1. IInv => TypeOK
  BY DEF IInv, Base
<1> QED BY <1>1, DispatchInvariant, PTL

(* Whatever overlaps, the provider sees an idempotency key a second time only *)
(* after the transaction of its first use rolled back, and every emailed      *)
(* attempt on record went out.                                                *)
THEOREM KeysAreReusedAfterRollback == Spec => []KeyReusedOnlyAfterRollback
<1>1. IInv => KeyReusedOnlyAfterRollback
  <2> SUFFICES ASSUME IInv, NEW k \in Keys
               PROVE  /\ sent[k] <= lost[k] + 1
                      /\ Exists(k) /\ k[1] \notin Manual => sent[k] = lost[k] + 1
    BY DEF KeyReusedOnlyAfterRollback
  <2>1. /\ sent[k] = lost[k] + (IF Emailed(k) \/ Pending(k) THEN 1 ELSE 0)
        /\ sent[k] \in Nat /\ lost[k] \in Nat
    BY DEF IInv, KeyAccounts, Base, TypeOK
  <2> QED BY <2>1 DEF Emailed
<1> QED BY <1>1, DispatchInvariant, PTL

(* Whatever overlaps and however often the provider repeats itself, an event  *)
(* takes effect once.                                                         *)
THEOREM EventsApplyOnce == Spec => []EventAppliedOnce
<1>1. IInv => EventAppliedOnce
  BY DEF IInv, AppliedAccounts, EventAppliedOnce
<1> QED BY <1>1, DispatchInvariant, PTL

(* What the package says of the delivery is what one of its attempts says.    *)
THEOREM PackageAgreesWithAttempt == Spec => []PackageFollowsAttempt
<1>1. IInv => PackageFollowsAttempt
  BY DEF IInv
<1> QED BY <1>1, DispatchInvariant, PTL

-----------------------------------------------------------------------------
(* While no two handlers have overlapped, what a handler read still stands    *)
(* when it writes; an authorization that may yet be given or used has no      *)
(* attempt, so that whatever was sent under one was sent as its first; and no *)
(* attempt on record hides a failure.                                         *)
Open == {"ABSENT", "REQUESTED", "UNDER_REVIEW", "AUTHORIZED"}
OneBusy == \A g, h \in Handlers : Busy(g) /\ Busy(h) => g = h
Fresh(h) ==
  /\ local[h].op = "authorize" => auth[local[h].auth] \in {"REQUESTED", "UNDER_REVIEW"}
  /\ local[h].op = "send" => auth[local[h].auth] = "AUTHORIZED"
  /\ local[h].op = "webhook-updated" =>
       local[h].statuses = Changed(recipient[local[h].event.at], local[h].event.changes)
Granted ==
  /\ \A a \in Auths : auth[a] = "AUTHORIZED" => grants[a] > 0
  /\ \A k \in Keys : auth[k[1]] \in Open => ~Exists(k)
  /\ \A k \in Keys : sent[k] > 0 => k[2] = 1 /\ grants[k[1]] > 0
Shown(k) == attempt[k] \in {"SENT", "DELIVERED"} => \A r \in Recipients : recipient[k][r] \notin Failed
Calm == OneBusy /\ (\A h \in Handlers : Fresh(h)) /\ Granted /\ (\A k \in Keys : Shown(k))

LEMMA NothingFailedIsHidden ==
  ASSUME NEW s \in Statuses, Aggregate(s) \in {"SENT", "DELIVERED"}
  PROVE  \A r \in Recipients : s[r] \notin Failed
<1> DEFINE set == {s[r] : r \in Recipients}
<1>1. ~(set \subseteq Reached \cup {"SENT"}) => Aggregate(s) \notin {"SENT", "DELIVERED"}
  BY DEF Aggregate, Reached
<1>2. set \subseteq Reached \cup {"SENT"}
  BY <1>1
<1> QED BY <1>2 DEF Reached, Failed

(* Without overlap the handler that takes a step is the only one at work.     *)
LEMMA OnlyOne ==
  ASSUME Calm, NEW h \in Handlers, Notes(h) \/ Busy(h), ~raced',
         \A g \in Handlers : g # h => local'[g] = local[g],
         Fresh(h)', Granted', \A k \in Keys : Shown(k)'
  PROVE  Calm'
<1>1. \A g \in Handlers : g # h => ~Busy(g)
  BY DEF Calm, OneBusy, Notes
<1>2. \A g \in Handlers : g # h => ~Busy(g)'
  BY <1>1 DEF Busy
<1>3. OneBusy'
  BY <1>2 DEF OneBusy
<1>4. \A g \in Handlers : Fresh(g)'
  BY <1>2 DEF Fresh, Busy
<1> QED BY <1>3, <1>4 DEF Calm

LEMMA IdleIsFresh ==
  ASSUME NEW h \in Handlers, local'[h] = NoWork
  PROVE  Fresh(h)'
  BY NoWorkTyped DEF Fresh

(* Reads change nothing else, and what was read is there.                     *)
LEMMA CalmReads ==
  ASSUME IInv, Calm, NEW h \in Handlers, ~raced',
         \/ AuthorizeRead(h) \/ RejectRead(h) \/ RevokeRead(h)
         \/ SendRead(h) \/ ManualRead(h) \/ WebhookRead(h) \/ Abort(h)
  PROVE  Calm'
<1> USE NobodyTyped, DispatchAssumption
<1>1. UNCHANGED <<rows, hist>>
  BY DEF AuthorizeRead, RejectRead, RevokeRead, DecisionRead, SendRead, ManualRead, WebhookRead,
         Abort
<1>2. Granted' /\ \A k \in Keys : Shown(k)'
  BY <1>1 DEF Calm, Granted, Shown, Exists, rows, hist
<1>3. ASSUME NEW s \in Local, local' = [local EXCEPT ![h] = s], Notes(h) \/ Busy(h),
             s.op = "authorize" => auth[s.auth] \in {"REQUESTED", "UNDER_REVIEW"},
             s.op = "send" => auth[s.auth] = "AUTHORIZED",
             s.op # "webhook-updated"
      PROVE  Calm'
  <2>1. /\ local'[h] = s /\ \A g \in Handlers : g # h => local'[g] = local[g]
    BY <1>3, HandlerMoves DEF IInv, Base, TypeOK
  <2>2. auth' = auth
    BY <1>1 DEF rows
  <2>3. Fresh(h)'
    BY <1>3, <2>1, <2>2 DEF Fresh
  <2> QED BY <1>2, <1>3, <2>1, <2>3, OnlyOne
<1>4. ASSUME NEW op \in {"authorize", "reject", "revoke"}, NEW from, DecisionRead(h, op, from),
             op = "authorize" => from = {"REQUESTED", "UNDER_REVIEW"}
      PROVE  Calm'
  <2>1. PICK a \in Auths : Begin(h, Work(op, a, 0, NoOne, None)) /\ auth[a] \in from
    BY <1>4 DEF DecisionRead
  <2> DEFINE s == Work(op, a, 0, NoOne, None)
  <2>2. s \in Local
    BY WorkTyped DEF Ops
  <2>3. s.op = op /\ s.auth = a
    BY DEF Work
  <2> HIDE DEF s
  <2>4. local' = [local EXCEPT ![h] = s] /\ Notes(h)
    BY <2>1 DEF Begin, s
  <2> QED BY <1>3, <1>4, <2>1, <2>2, <2>3, <2>4
<1>5. CASE AuthorizeRead(h) \/ RejectRead(h) \/ RevokeRead(h)
  BY <1>4, <1>5 DEF AuthorizeRead, RejectRead, RevokeRead
<1>6. CASE SendRead(h)
  <2>1. PICK a \in Auths \ Manual : Begin(h, Work("send", a, 0, NoOne, None)) /\ auth[a] = "AUTHORIZED"
    BY <1>6 DEF SendRead, Dispatchable
  <2> DEFINE s == Work("send", a, 0, NoOne, None)
  <2>2. s \in Local
    BY WorkTyped DEF Ops
  <2>3. s.op = "send" /\ s.auth = a
    BY DEF Work
  <2> HIDE DEF s
  <2>4. local' = [local EXCEPT ![h] = s] /\ Notes(h)
    BY <2>1 DEF Begin, s
  <2> QED BY <1>3, <2>1, <2>2, <2>3, <2>4
<1>7. CASE ManualRead(h)
  <2>1. PICK a \in Manual : Begin(h, Work("manual", a, 0, NoOne, None))
    BY <1>7 DEF ManualRead
  <2> DEFINE s == Work("manual", a, 0, NoOne, None)
  <2>2. s \in Local
    BY WorkTyped DEF Ops
  <2>3. s.op = "manual"
    BY DEF Work
  <2> HIDE DEF s
  <2>4. local' = [local EXCEPT ![h] = s] /\ Notes(h)
    BY <2>1 DEF Begin, s
  <2> QED BY <1>3, <2>1, <2>2, <2>3, <2>4
<1>8. CASE WebhookRead(h)
  <2>1. PICK e \in Events : Begin(h, Work("webhook", None, 0, NoOne, e))
    BY <1>8 DEF WebhookRead
  <2> DEFINE s == Work("webhook", None, 0, NoOne, e)
  <2>2. s \in Local
    BY WorkTyped DEF Ops
  <2>3. s.op = "webhook"
    BY DEF Work
  <2> HIDE DEF s
  <2>4. local' = [local EXCEPT ![h] = s] /\ Notes(h)
    BY <2>1 DEF Begin, s
  <2> QED BY <1>3, <2>1, <2>2, <2>3, <2>4
<1>9. CASE Abort(h)
  BY <1>3, <1>9, NoWorkTyped DEF Abort
<1> QED BY <1>5, <1>6, <1>7, <1>8, <1>9

(* Handlers of one step: an authorization is requested before anything is     *)
(* sent under it, and an acknowledgment is no failure.                        *)
LEMMA CalmOnce ==
  ASSUME IInv, Calm, NEW h \in Handlers, ~raced',
         RequestAuthorization(h) \/ Acknowledge(h) \/ AssessReceipt(h) \/ ConfirmService(h)
  PROVE  Calm'
<1> USE DispatchAssumption
<1>1. Notes(h) /\ local' = local /\ ~Busy(h) /\ UNCHANGED <<attempt, hist>>
  BY DEF RequestAuthorization, Acknowledge, AssessReceipt, ConfirmService, Once
<1>2. Fresh(h)'
  BY <1>1 DEF Fresh, Busy
<1>3. Granted'
  <2>1. CASE RequestAuthorization(h)
    <3>1. PICK a \in Auths : auth[a] = "ABSENT" /\ auth' = [auth EXCEPT ![a] = "REQUESTED"]
      BY <2>1 DEF RequestAuthorization
    <3>2. \A b \in Auths : /\ auth'[b] = "AUTHORIZED" => auth[b] = "AUTHORIZED"
                           /\ auth'[b] \in Open => auth[b] \in Open
      BY <3>1 DEF Open, IInv, Base, TypeOK
    <3>3. \A k \in Keys : k[1] \in Auths
      OBVIOUS
    <3> QED BY <1>1, <3>2, <3>3 DEF Calm, Granted, Exists, hist
  <2>2. CASE UNCHANGED auth
    BY <1>1, <2>2 DEF Calm, Granted, Exists, hist
  <2> QED BY <2>1, <2>2 DEF Acknowledge, AssessReceipt, ConfirmService
<1>4. \A k \in Keys : Shown(k)'
  <2>1. CASE Acknowledge(h)
    <3>1. PICK q \in Keys, r \in Recipients :
            recipient' = [recipient EXCEPT ![q][r] = "ACKNOWLEDGED"]
      BY <2>1 DEF Acknowledge
    <3>2. recipient \in [Keys -> Statuses]
      BY DEF IInv, Base, TypeOK
    <3>3. \A k \in Keys, p \in Recipients :
            recipient'[k][p] = recipient[k][p] \/ recipient'[k][p] = "ACKNOWLEDGED"
      BY <3>1, <3>2 DEF Statuses
    <3> QED BY <1>1, <3>3 DEF Calm, Shown, Failed
  <2>2. CASE UNCHANGED recipient
    BY <1>1, <2>2 DEF Calm, Shown
  <2> QED BY <2>1, <2>2 DEF RequestAuthorization, AssessReceipt, ConfirmService
<1> QED BY <1>1, <1>2, <1>3, <1>4, OnlyOne

(* Decisions: what is authorized has not been used.                           *)
LEMMA CalmDecisions ==
  ASSUME IInv, Calm, NEW h \in Handlers, ~raced',
         AuthorizeWrite(h) \/ RejectWrite(h) \/ RevokeWrite(h)
  PROVE  Calm'
<1> USE DispatchAssumption
<1>1. PICK op \in {"authorize", "reject", "revoke"}, st \in {"AUTHORIZED", "REJECTED", "REVOKED"} :
        /\ local[h].op = op /\ local' = [local EXCEPT ![h] = NoWork]
        /\ auth' = [auth EXCEPT ![local[h].auth] = st]
        /\ st = "AUTHORIZED" =>
             op = "authorize" /\ grants' = [grants EXCEPT ![local[h].auth] = @ + 1]
        /\ st # "AUTHORIZED" => grants' = grants
        /\ UNCHANGED <<attempt, recipient, sent>>
  BY DEF AuthorizeWrite, RejectWrite, RevokeWrite, Decide, Commit
<1> DEFINE a == local[h].auth
<1>2. a \in Auths /\ Busy(h) /\ Fresh(h)
  BY <1>1 DEF IInv, Base, WorkIsShaped, Shaped, Busy, Calm
<1>3. st = "AUTHORIZED" => auth[a] \in {"REQUESTED", "UNDER_REVIEW"}
  BY <1>1, <1>2 DEF Fresh
<1> HIDE DEF a
<1>4. /\ local'[h] = NoWork /\ \A g \in Handlers : g # h => local'[g] = local[g]
  BY <1>1, HandlerMoves, NoWorkTyped DEF IInv, Base, TypeOK
<1>5. /\ \A b \in Auths :
           /\ auth'[b] = "AUTHORIZED" => auth[b] = "AUTHORIZED" \/ (b = a /\ st = "AUTHORIZED")
           /\ auth'[b] \in Open => auth[b] \in Open
      /\ \A b \in Auths : grants[b] \in Nat
  <2>1. auth' = [auth EXCEPT ![a] = st] /\ auth \in [Auths -> AuthStatuses \cup {"ABSENT"}]
    BY <1>1 DEF a, IInv, Base, TypeOK
  <2>2. \A b \in Auths : auth'[b] = IF b = a THEN st ELSE auth[b]
    BY <2>1
  <2>3. st = "AUTHORIZED" => auth[a] \in Open
    BY <1>3 DEF Open
  <2>4. \A b \in Auths : grants[b] \in Nat
    BY DEF IInv, Base, TypeOK
  <2> QED BY <2>2, <2>3, <2>4 DEF Open
<1>6. \A b \in Auths : /\ grants'[b] >= grants[b] /\ grants'[b] \in Nat
                       /\ b = a /\ st = "AUTHORIZED" => grants'[b] > 0
  BY <1>1, <1>2, <1>5 DEF a, IInv, Base, TypeOK
<1>7. Granted'
  <2>1. \A b \in Auths : auth'[b] = "AUTHORIZED" => grants'[b] > 0
    BY <1>5, <1>6 DEF Calm, Granted
  <2>2. \A k \in Keys : k[1] \in Auths
    OBVIOUS
  <2>3. \A k \in Keys : auth'[k[1]] \in Open => ~Exists(k)'
    BY <1>1, <1>5, <2>2 DEF Calm, Granted, Exists
  <2>4. \A k \in Keys : sent'[k] > 0 => k[2] = 1 /\ grants'[k[1]] > 0
    BY <1>1, <1>5, <1>6, <2>2 DEF Calm, Granted
  <2> QED BY <2>1, <2>3, <2>4 DEF Granted
<1>8. \A k \in Keys : Shown(k)'
  BY <1>1 DEF Calm, Shown
<1> QED BY <1>2, <1>4, <1>7, <1>8, IdleIsFresh, OnlyOne

(* An authorization's first transmission: nothing is on record yet.           *)
LEMMA CalmTransmit ==
  ASSUME IInv, Calm, NEW h \in Handlers, ~raced', SendTransmit(h)
  PROVE  Calm'
<1> USE DispatchAssumption
<1> DEFINE a == local[h].auth
           n == Count(a) + 1
<1>1. /\ local[h].op = "send" /\ <<a, n>> \in Keys
      /\ sent' = [sent EXCEPT ![<<a, n>>] = @ + 1]
      /\ UNCHANGED <<rows, lost, grants, applied, raced>>
  BY DEF SendTransmit
<1>2. PICK s \in Answers : local' = [local EXCEPT ![h] = Work("transmitted", a, n, s, None)]
  BY DEF SendTransmit
<1>3. a \in Auths /\ Busy(h) /\ auth[a] = "AUTHORIZED"
  BY <1>1 DEF IInv, Base, WorkIsShaped, Shaped, Busy, Calm, Fresh
<1>4. n = 1
  <2>1. {k \in Keys : k[1] = a /\ Exists(k)} = {}
    BY <1>3 DEF Calm, Granted, Open
  <2>2. Count(a) = 0
    BY <2>1, FS_EmptySet DEF Count
  <2> QED BY <2>2
<1> DEFINE w == Work("transmitted", a, n, s, None)
<1>5. w \in Local /\ w.op = "transmitted"
  BY <1>3, <1>4, WorkTyped DEF Ops, Statuses
<1> HIDE DEF w, n, a
<1>6. /\ local'[h] = w /\ \A g \in Handlers : g # h => local'[g] = local[g]
  BY <1>2, <1>5, HandlerMoves DEF IInv, Base, TypeOK, w
<1>7. Fresh(h)'
  BY <1>5, <1>6 DEF Fresh
<1>8. Granted'
  <2>1. grants[a] > 0
    BY <1>3 DEF Calm, Granted
  <2>2. \A k \in Keys : sent'[k] > 0 => sent[k] > 0 \/ k = <<a, n>>
    BY <1>1 DEF IInv, Base, TypeOK
  <2>3. \A k \in Keys : sent'[k] > 0 => k[2] = 1 /\ grants[k[1]] > 0
    BY <1>4, <2>1, <2>2 DEF Calm, Granted
  <2> QED BY <1>1, <2>3 DEF Calm, Granted, Exists, rows
<1>9. \A k \in Keys : Shown(k)'
  BY <1>1 DEF Calm, Shown, rows
<1> QED BY <1>3, <1>6, <1>7, <1>8, <1>9, OnlyOne

(* What is on record was used, and what it says is what its recipients do.    *)
LEMMA CalmRecords ==
  ASSUME IInv, Calm, NEW h \in Handlers, ~raced', NEW k \in Keys, NEW st, NEW s \in Statuses,
         st \in {"SENT", "DELIVERED"} => st = Aggregate(s),
         Busy(h), local'[h] = NoWork, \A g \in Handlers : g # h => local'[g] = local[g],
         attempt' = [attempt EXCEPT ![k] = st], recipient' = [recipient EXCEPT ![k] = s],
         \/ auth' = [auth EXCEPT ![k[1]] = "USED"]
         \/ auth' = auth /\ Exists(k),
         UNCHANGED <<sent, grants>>
  PROVE  Calm'
<1> USE DispatchAssumption
<1>1. /\ \A q \in Keys : attempt'[q] = IF q = k THEN st ELSE attempt[q]
      /\ \A q \in Keys : recipient'[q] = IF q = k THEN s ELSE recipient[q]
  BY DEF IInv, Base, TypeOK
<1>2. \A q \in Keys : Shown(q)'
  BY <1>1, NothingFailedIsHidden DEF Calm, Shown
<1>3. \A q \in Keys : q[1] \in Auths
  OBVIOUS
<1>4. \A b \in Auths : /\ auth'[b] = "AUTHORIZED" => auth[b] = "AUTHORIZED"
                       /\ auth'[b] \in Open => auth[b] \in Open
  BY <1>3 DEF Open, IInv, Base, TypeOK
<1>5. auth'[k[1]] \in Open => Exists(k) /\ auth[k[1]] \in Open
  BY <1>3 DEF Open, IInv, Base, TypeOK
<1>6. Granted'
  BY <1>1, <1>3, <1>4, <1>5 DEF Calm, Granted, Exists
<1> QED BY <1>2, <1>6, IdleIsFresh, OnlyOne

LEMMA CalmSendCommit ==
  ASSUME IInv, Calm, NEW h \in Handlers, ~raced', SendCommit(h)
  PROVE  Calm'
<1> DEFINE k == KeyOf(h)
           s == local[h].statuses
<1>1. /\ Commit(h, "transmitted") /\ attempt' = [attempt EXCEPT ![k] = Aggregate(s)]
      /\ recipient' = [recipient EXCEPT ![k] = s] /\ auth' = [auth EXCEPT ![k[1]] = "USED"]
      /\ UNCHANGED hist
  BY DEF SendCommit
<1>2. /\ k \in Keys /\ s \in Statuses /\ local'[h] = NoWork
      /\ \A g \in Handlers : g # h => local'[g] = local[g]
  BY <1>1, TransmittedEnds
<1>3. Busy(h) /\ UNCHANGED <<sent, grants>>
  BY <1>1 DEF Commit, Busy, hist
<1> HIDE DEF k, s
<1> QED BY <1>1, <1>2, <1>3, CalmRecords

LEMMA CalmSendLost ==
  ASSUME IInv, Calm, NEW h \in Handlers, ~raced', SendLost(h)
  PROVE  Calm'
<1>1. Commit(h, "transmitted") /\ UNCHANGED <<rows, sent, grants>>
  BY DEF SendLost
<1>2. local'[h] = NoWork /\ \A g \in Handlers : g # h => local'[g] = local[g]
  BY <1>1, TransmittedEnds
<1>3. Busy(h)
  BY <1>1 DEF Commit, Busy
<1>4. Granted' /\ \A k \in Keys : Shown(k)'
  BY <1>1 DEF Calm, Granted, Shown, Exists, rows
<1> QED BY <1>2, <1>3, <1>4, IdleIsFresh, OnlyOne

LEMMA CalmManualWrite ==
  ASSUME IInv, Calm, NEW h \in Handlers, ~raced', ManualWrite(h)
  PROVE  Calm'
<1> DEFINE k == <<local[h].auth, Count(local[h].auth) + 1>>
           s == [r \in Recipients |-> "MANUALLY_CONFIRMED"]
<1>1. /\ local[h].op = "manual" /\ local' = [local EXCEPT ![h] = NoWork]
      /\ k \in Keys /\ attempt' = [attempt EXCEPT ![k] = "AWAITING_EVIDENCE"]
      /\ recipient' = [recipient EXCEPT ![k] = s]
      /\ auth' = [auth EXCEPT ![k[1]] = "USED"] /\ UNCHANGED hist
  BY DEF ManualWrite, Commit
<1>2. s \in Statuses
  BY DEF Statuses, RecipientStatuses
<1>3. local'[h] = NoWork /\ \A g \in Handlers : g # h => local'[g] = local[g]
  BY <1>1, HandlerMoves, NoWorkTyped DEF IInv, Base, TypeOK
<1>4. Busy(h) /\ UNCHANGED <<sent, grants>>
  BY <1>1 DEF Busy, hist
<1> HIDE DEF k, s
<1> QED BY <1>1, <1>2, <1>3, <1>4, CalmRecords

LEMMA CalmWebhookUpdate ==
  ASSUME IInv, Calm, NEW h \in Handlers, ~raced', WebhookUpdate(h)
  PROVE  Calm'
<1> DEFINE e == local[h].event
           s == Changed(recipient[e.at], e.changes)
           w == Work("webhook-updated", None, 0, s, e)
<1>1. /\ local[h].op = "webhook" /\ local' = [local EXCEPT ![h] = w]
      /\ UNCHANGED <<rows, hist, raced>>
  BY DEF WebhookUpdate
<1>2. e \in Events /\ e.at \in Keys
  BY <1>1, DispatchAssumption DEF IInv, Base, WorkIsShaped, Shaped
<1>3. s \in Statuses
  BY <1>2, ChangedTyped DEF IInv, Base, TypeOK
<1>4. w \in Local /\ w.op = "webhook-updated" /\ w.event = e /\ w.statuses = s
  BY <1>2, <1>3, WorkTyped DEF Ops
<1>5. s = Changed(recipient[e.at], e.changes)
  OBVIOUS
<1> HIDE DEF w, s, e
<1>6. /\ local'[h] = w /\ \A g \in Handlers : g # h => local'[g] = local[g]
  BY <1>1, <1>4, HandlerMoves DEF IInv, Base, TypeOK
<1>7. Fresh(h)'
  BY <1>1, <1>4, <1>5, <1>6 DEF Fresh, rows, Changed
<1>8. Granted' /\ \A k \in Keys : Shown(k)'
  BY <1>1 DEF Calm, Granted, Shown, Exists, rows, hist
<1>9. Busy(h)
  BY <1>1 DEF Busy
<1> QED BY <1>6, <1>7, <1>8, <1>9, OnlyOne

LEMMA CalmWebhookCommit ==
  ASSUME IInv, Calm, NEW h \in Handlers, ~raced', WebhookCommit(h)
  PROVE  Calm'
<1> DEFINE e == local[h].event
           s == Changed(recipient[e.at], e.changes)
<1>1. /\ local[h].op = "webhook-updated" /\ local' = [local EXCEPT ![h] = NoWork]
      /\ recipient' = [recipient EXCEPT ![e.at] = s]
      /\ attempt' = [attempt EXCEPT ![e.at] = Aggregate(local[h].statuses)]
      /\ auth' = auth /\ UNCHANGED <<sent, grants>>
  BY DEF WebhookCommit, Commit
<1>2. e \in Events /\ e.at \in messages
  BY <1>1 DEF IInv, Base, WorkIsShaped, Shaped
<1>3. e.at \in Keys /\ Exists(e.at)
  BY <1>2 DEF IInv, Base, TypeOK, MessagesRecorded
<1>4. local[h].statuses = s /\ s \in Statuses
  BY <1>1, <1>2, <1>3, ChangedTyped DEF Calm, Fresh, IInv, Base, TypeOK
<1>5. local'[h] = NoWork /\ \A g \in Handlers : g # h => local'[g] = local[g]
  BY <1>1, HandlerMoves, NoWorkTyped DEF IInv, Base, TypeOK
<1>6. Busy(h)
  BY <1>1 DEF Busy
<1> HIDE DEF e, s
<1> QED BY <1>1, <1>3, <1>4, <1>5, <1>6, CalmRecords

LEMMA NextKeepsCalm == IInv /\ (~raced => Calm) /\ [Next]_vars => (~raced => Calm)'
<1> SUFFICES ASSUME IInv, ~raced => Calm, [Next]_vars, ~raced' PROVE Calm'
  OBVIOUS
<1>1. CASE UNCHANGED vars
  BY <1>1 DEF vars, rows, hist, Calm, OneBusy, Busy, Fresh, Changed, Granted, Exists, Shown
<1>2. CASE Next
  <2>1. PICK h \in Handlers :
          \/ RequestAuthorization(h) \/ AuthorizeRead(h) \/ AuthorizeWrite(h)
          \/ RejectRead(h) \/ RejectWrite(h) \/ RevokeRead(h) \/ RevokeWrite(h)
          \/ SendRead(h) \/ SendTransmit(h) \/ SendCommit(h) \/ SendLost(h)
          \/ ManualRead(h) \/ ManualWrite(h)
          \/ Acknowledge(h) \/ AssessReceipt(h) \/ ConfirmService(h)
          \/ WebhookRead(h) \/ WebhookUpdate(h) \/ WebhookCommit(h) \/ Abort(h)
    BY <1>2 DEF Next
  <2>2. ~raced
    BY <2>1 DEF RequestAuthorization, AuthorizeRead, AuthorizeWrite, RejectRead, RejectWrite,
                RevokeRead, RevokeWrite, DecisionRead, Decide, SendRead, SendTransmit, SendCommit,
                SendLost, ManualRead, ManualWrite, Acknowledge, AssessReceipt, ConfirmService,
                WebhookRead, WebhookUpdate, WebhookCommit, Abort, Begin, Commit, Once, Notes
  <2> QED BY <2>1, <2>2, CalmReads, CalmOnce, CalmDecisions, CalmTransmit, CalmSendCommit,
             CalmSendLost, CalmManualWrite, CalmWebhookUpdate, CalmWebhookCommit
<1> QED BY <1>1, <1>2

LEMMA BeginsCalm == Init => Calm
<1> SUFFICES ASSUME Init PROVE Calm
  OBVIOUS
<1>1. \A h \in Handlers : local[h].op = "idle"
  BY NoWorkTyped DEF Init
<1>2. OneBusy /\ \A h \in Handlers : Fresh(h)
  BY <1>1 DEF OneBusy, Busy, Fresh
<1>3. Granted /\ \A k \in Keys : Shown(k)
  BY DispatchAssumption DEF Init, Granted, Exists, Shown
<1> QED BY <1>2, <1>3 DEF Calm

(* Without overlap a handler writes to what it read.                          *)
THEOREM CalmHolds == Spec => [](~raced => Calm)
  BY InitIInv, BeginsCalm, NextKeepsIInv, NextKeepsCalm, PTL DEF Spec

(* ADR-086, as long as no two handlers overlapped: the messages the provider  *)
(* can tell apart are at most the authorizations given, however often a send  *)
(* rolls back after its message went out.                                     *)
THEOREM OneMessagePerGrant == Spec => []OneTransmissionPerGrant
<1>1. IInv /\ (~raced => Calm) => OneTransmissionPerGrant
  <2> SUFFICES ASSUME IInv, Calm, NEW a \in Auths
               PROVE  Cardinality(Transmitted(a)) <= grants[a]
    BY DEF OneTransmissionPerGrant, FreshAuthorizationPerTransmission
  <2>1. grants[a] \in Nat
    BY DEF IInv, Base, TypeOK
  <2>2. \A k \in Transmitted(a) : k = <<a, 1>> /\ grants[a] > 0
    BY DispatchAssumption DEF Transmitted, Calm, Granted
  <2>3. CASE Transmitted(a) = {}
    BY <2>1, <2>3, FS_EmptySet
  <2>4. CASE Transmitted(a) # {}
    <3>1. Transmitted(a) = {<<a, 1>>} /\ grants[a] > 0
      BY <2>2, <2>4
    <3>2. Cardinality({<<a, 1>>}) = 1
      BY FS_Singleton
    <3> QED BY <2>1, <3>1, <3>2
  <2> QED BY <2>3, <2>4
<1> QED BY <1>1, DispatchInvariant, CalmHolds, PTL

(* aggregateRecipientStatus "never hides failures", nor does the attempt as   *)
(* long as no two handlers overlapped.                                        *)
THEOREM FailuresAreShown == Spec => []NoHiddenFailure
<1>1. (~raced => Calm) => NoHiddenFailure
  BY DEF NoHiddenFailure, Calm, Shown
<1> QED BY <1>1, CalmHolds, PTL

=============================================================================
