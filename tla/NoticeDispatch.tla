--------------------------- MODULE NoticeDispatch ---------------------------
(* Dispatching one approved notice: authorizations, the send, manual          *)
(* dispatch, acknowledgments, receipt and provider webhooks                   *)
(* (apps/web/src/server/services/notice-delivery.ts and                       *)
(* packages/notice-delivery/src/domain.ts).                                   *)
(*                                                                            *)
(* A handler is one READ COMMITTED transaction.  The send calls the provider  *)
(* inside its transaction, after it has locked the authorization and the      *)
(* package row: until it commits nobody else writes either, and when it rolls *)
(* back (the interactive transaction timed out, the database failed, the      *)
(* process died) the message is out and the rows are not.  A webhook updates  *)
(* recipients, reads them all back and then writes the attempt; the updates   *)
(* of another webhook are invisible to that read until it commits.            *)
(*                                                                            *)
(* The snapshot exists.  Capability, project and segregation-of-duties checks *)
(* refuse without a state change and are left out.                            *)
EXTENDS Naturals, FiniteSets

CONSTANTS Handlers,      \* requests being served at the same time
          Auths,         \* notice_dispatch_authorization rows
          Manual,        \* those of a MANUAL_ channel; the others are CONTROLLED_EMAIL
          Recipients,
          Keys,          \* bound: the attempts, (authorization, attempt number), that can be made
          MaxGrants,     \* bound: how often one authorization is given
          MaxLost,       \* bound: sends whose transaction rolls back
          Answers,       \* the recipient statuses a provider's answer may give
          Events,        \* provider events: id, attempt and recipient statuses
          None

AuthStatuses == {"DRAFT", "REQUESTED", "UNDER_REVIEW", "AUTHORIZED", "REJECTED", "EXPIRED",
                 "REVOKED", "USED", "CANCELLED"}
AttemptStatuses ==
  {"PREPARED", "QUEUED", "SENDING", "SUBMITTED", "SENT", "DELIVERY_PENDING", "DELIVERED", "FAILED",
   "CANCELLED", "PARTIALLY_DELIVERED", "MANUAL_DISPATCH_RECORDED", "AWAITING_EVIDENCE",
   "UNCERTAIN_MANUAL_REVIEW"}
RecipientStatuses == {"PENDING", "SUBMITTED", "SENT", "DELIVERED", "BOUNCED", "REJECTED", "FAILED",
                      "ACKNOWLEDGED", "UNKNOWN", "MANUALLY_CONFIRMED"}
PackageStatuses ==
  {"AUTHORIZATION_PENDING", "AUTHORIZED_FOR_DISPATCH", "DISPATCHED", "DELIVERY_PENDING",
   "DELIVERY_PARTIAL", "DELIVERY_CONFIRMED", "DELIVERY_FAILED", "RECEIPT_CONFIRMED"}
Ops == {"idle", "authorize", "reject", "revoke", "send", "transmitted", "manual",
        "webhook", "webhook-updated"}

ASSUME DispatchAssumption ==
  /\ Manual \subseteq Auths /\ MaxGrants \in Nat /\ MaxLost \in Nat
  /\ Keys \subseteq Auths \X (Nat \ {0}) /\ IsFiniteSet(Keys)
  /\ Answers \subseteq [Recipients -> RecipientStatuses]
  /\ IsFiniteSet(Recipients) /\ Recipients # {}
  /\ \A e \in Events : /\ e.at \in Keys /\ e.at[1] \notin Manual
                       /\ DOMAIN e.changes \subseteq Recipients
                       /\ \A r \in DOMAIN e.changes : e.changes[r] \in RecipientStatuses
  /\ None \notin Auths /\ None \notin Events

VARIABLES
  package,    \* notice_package.status
  auth,       \* authorization status, "ABSENT" before it is requested
  attempt,    \* notice_dispatch_attempt.status by key, "ABSENT" without a row
  recipient,  \* notice_dispatch_recipient.status by key and recipient
  messages,   \* the attempts with a providerMessageId
  processed,  \* delivery_provider_event rows
  assessed,   \* a receipt assessment exists
  local,      \* what each handler has read or holds uncommitted
  sent,       \* history: sendMessage calls by key
  lost,       \* history: those whose transaction rolled back
  grants,     \* history: human authorizations by authorization
  applied,    \* history: how often each event was applied
  raced       \* history: two handlers have overlapped

rows == <<package, auth, attempt, recipient, messages, processed, assessed>>
hist == <<sent, lost, grants, applied>>
vars == <<rows, local, hist, raced>>

Statuses == [Recipients -> RecipientStatuses]
NoOne    == [r \in Recipients |-> "PENDING"]
Local    == [op : Ops, auth : Auths \cup {None}, number : Nat, statuses : Statuses,
             event : Events \cup {None}]
Work(o, a, n, s, e) == [op |-> o, auth |-> a, number |-> n, statuses |-> s, event |-> e]
NoWork   == Work("idle", None, 0, NoOne, None)

TypeOK ==
  /\ package \in PackageStatuses
  /\ auth \in [Auths -> AuthStatuses \cup {"ABSENT"}]
  /\ attempt \in [Keys -> AttemptStatuses \cup {"ABSENT"}]
  /\ recipient \in [Keys -> Statuses]
  /\ messages \subseteq Keys /\ processed \subseteq Events /\ assessed \in BOOLEAN
  /\ local \in [Handlers -> Local]
  /\ sent \in [Keys -> Nat] /\ lost \in [Keys -> Nat]
  /\ grants \in [Auths -> Nat] /\ applied \in [Events -> Nat]
  /\ raced \in BOOLEAN

Init ==
  /\ package = "AUTHORIZATION_PENDING"
  /\ auth = [a \in Auths |-> "ABSENT"]
  /\ attempt = [k \in Keys |-> "ABSENT"]
  /\ recipient = [k \in Keys |-> NoOne]
  /\ messages = {} /\ processed = {} /\ assessed = FALSE
  /\ local = [h \in Handlers |-> NoWork]
  /\ sent = [k \in Keys |-> 0] /\ lost = [k \in Keys |-> 0]
  /\ grants = [a \in Auths |-> 0] /\ applied = [e \in Events |-> 0]
  /\ raced = FALSE

-----------------------------------------------------------------------------
(* Pure functions of the domain package.                                      *)

Reached == {"DELIVERED", "ACKNOWLEDGED", "MANUALLY_CONFIRMED"}
Failed  == {"FAILED", "BOUNCED", "REJECTED"}

(* aggregateRecipientStatus, for a non-empty list. *)
Aggregate(statuses) ==
  LET set == {statuses[r] : r \in Recipients} IN
    CASE set \subseteq Reached              -> "DELIVERED"
      [] set \subseteq Reached \cup {"SENT"} /\ ~(set \subseteq Reached) -> "SENT"
      [] set \subseteq Failed               -> "FAILED"
      [] set \cap (Reached \cup {"SENT"}) # {} /\ set \cap (Failed \cup {"PENDING", "UNKNOWN"}) # {}
           -> "PARTIALLY_DELIVERED"
      [] set = {"SUBMITTED"}                -> "SUBMITTED"
      [] set = {"PENDING"}                  -> "PREPARED"
      [] OTHER                              -> "DELIVERY_PENDING"

(* mapAttemptToPackageStatus: everything else is DISPATCHED. *)
AttemptToPackage(st) ==
  CASE st = "DELIVERED"               -> "DELIVERY_CONFIRMED"
    [] st = "PARTIALLY_DELIVERED"     -> "DELIVERY_PARTIAL"
    [] st = "FAILED"                  -> "DELIVERY_FAILED"
    [] st = "UNCERTAIN_MANUAL_REVIEW" -> "DELIVERY_PENDING"
    [] OTHER                          -> "DISPATCHED"

Changed(statuses, changes) ==
  [r \in Recipients |-> IF r \in DOMAIN changes THEN changes[r] ELSE statuses[r]]

-----------------------------------------------------------------------------
(* Handlers and row locks.                                                    *)

Busy(h)      == local[h].op # "idle"
Exists(k)    == attempt[k] # "ABSENT"
Count(a)     == Cardinality({k \in Keys : k[1] = a /\ Exists(k)})
KeyOf(h)     == <<local[h].auth, local[h].number>>
Notes(h)     == raced' = (raced \/ \E g \in Handlers \ {h} : Busy(g))

Begin(h, seen) == ~Busy(h) /\ local' = [local EXCEPT ![h] = seen] /\ Notes(h)
Commit(h, op)  == local[h].op = op /\ local' = [local EXCEPT ![h] = NoWork] /\ UNCHANGED raced
Once(h)        == ~Busy(h) /\ UNCHANGED local /\ Notes(h)

(* A send in progress holds the package row and its authorization row. *)
PackageFree(h) == \A g \in Handlers \ {h} : local[g].op # "transmitted"

(* A webhook in progress holds its event's index entry and recipient rows. *)
Inserting(g, e) == local[g].op = "webhook-updated" /\ local[g].event = e
Held(g) == IF local[g].op = "webhook-updated" THEN DOMAIN local[g].event.changes ELSE {}
RecipientsFree(h, k, rs) ==
  \A g \in Handlers \ {h} : Held(g) # {} /\ local[g].event.at = k => Held(g) \cap rs = {}

-----------------------------------------------------------------------------
(* Authorization.                                                             *)

(* requestDispatchAuthorization. *)
RequestAuthorization(h) ==
  \E a \in Auths :
    /\ Once(h)
    /\ auth[a] = "ABSENT"
    /\ auth' = [auth EXCEPT ![a] = "REQUESTED"]
    /\ UNCHANGED <<package, attempt, recipient, messages, processed, assessed, hist>>

(* authorizeDispatch, rejectDispatchAuthorization and                         *)
(* revokeDispatchAuthorization check the status they read and then update the *)
(* row by its id.                                                             *)
DecisionRead(h, op, from) ==
  \E a \in Auths :
    /\ Begin(h, Work(op, a, 0, NoOne, None))
    /\ auth[a] \in from
    /\ UNCHANGED <<rows, hist>>

Decide(h, op, status, packageStatus) ==
  /\ Commit(h, op) /\ PackageFree(h)
  /\ auth' = [auth EXCEPT ![local[h].auth] = status]
  /\ package' = packageStatus
  /\ UNCHANGED <<attempt, recipient, messages, processed, assessed, sent, lost, applied>>

AuthorizeRead(h) == DecisionRead(h, "authorize", {"REQUESTED", "UNDER_REVIEW"})
AuthorizeWrite(h) ==
  /\ Decide(h, "authorize", "AUTHORIZED", "AUTHORIZED_FOR_DISPATCH")
  /\ grants[local[h].auth] < MaxGrants
  /\ grants' = [grants EXCEPT ![local[h].auth] = @ + 1]

RejectRead(h)  == DecisionRead(h, "reject", {"REQUESTED", "UNDER_REVIEW"})
RejectWrite(h) == Decide(h, "reject", "REJECTED", "AUTHORIZATION_PENDING") /\ UNCHANGED grants

RevokeRead(h)  == DecisionRead(h, "revoke", {"AUTHORIZED"})
RevokeWrite(h) == Decide(h, "revoke", "REVOKED", "AUTHORIZATION_PENDING") /\ UNCHANGED grants

(* assertAuthorizationDispatchable.  An authorization past its expiresAt is   *)
(* refused too, which changes nothing.                                        *)
Dispatchable(a) == auth[a] = "AUTHORIZED"

-----------------------------------------------------------------------------
(* Dispatch.                                                                  *)

(* sendApprovedNoticeEmail reads the authorization ... *)
SendRead(h) ==
  \E a \in Auths \ Manual :
    /\ Begin(h, Work("send", a, 0, NoOne, None))
    /\ Dispatchable(a)
    /\ UNCHANGED <<rows, hist>>

(* Mutant: every attempt is number 1, and nothing keeps numbers unique. *)
SendTransmitSameKey(h) ==
  LET a == local[h].auth IN
    /\ local[h].op = "send" /\ PackageFree(h)
    /\ <<a, 1>> \in Keys
    /\ \E outcome \in Answers :
         local' = [local EXCEPT ![h] = Work("transmitted", a, 1, outcome, None)]
    /\ sent' = [sent EXCEPT ![<<a, 1>>] = @ + 1]
    /\ UNCHANGED <<rows, lost, grants, applied, raced>>

(* ... later counts the attempts, inserts number count + 1 (a second insert   *)
(* of the number waits for this transaction and then fails), updates the      *)
(* authorization and the package, and calls the provider ...                  *)
SendTransmit(h) ==
  LET a == local[h].auth  n == Count(a) + 1 IN
    /\ local[h].op = "send" /\ PackageFree(h)
    /\ <<a, n>> \in Keys /\ ~Exists(<<a, n>>)
    /\ \E outcome \in Answers :
         local' = [local EXCEPT ![h] = Work("transmitted", a, n, outcome, None)]
    /\ sent' = [sent EXCEPT ![<<a, n>>] = @ + 1]
    /\ UNCHANGED <<rows, lost, grants, applied, raced>>

(* Mutant: the authorization stays AUTHORIZED. *)
SendCommitKeepsAuthorization(h) ==
  LET k == KeyOf(h)  outcome == local[h].statuses IN
    /\ Commit(h, "transmitted")
    /\ attempt' = [attempt EXCEPT ![k] = Aggregate(outcome)]
    /\ recipient' = [recipient EXCEPT ![k] = outcome]
    /\ messages' = IF Aggregate(outcome) = "FAILED" THEN messages ELSE messages \cup {k}
    /\ package' = AttemptToPackage(Aggregate(outcome))
    /\ UNCHANGED <<auth, processed, assessed, hist>>

(* ... and stores what the provider answered.  A refused message has no id. *)
SendCommit(h) ==
  LET k == KeyOf(h)  outcome == local[h].statuses IN
    /\ Commit(h, "transmitted")
    /\ attempt' = [attempt EXCEPT ![k] = Aggregate(outcome)]
    /\ recipient' = [recipient EXCEPT ![k] = outcome]
    /\ messages' = IF Aggregate(outcome) = "FAILED" THEN messages ELSE messages \cup {k}
    /\ auth' = [auth EXCEPT ![k[1]] = "USED"]
    /\ package' = AttemptToPackage(Aggregate(outcome))
    /\ UNCHANGED <<processed, assessed, hist>>

(* The transaction rolls back after the message went out. *)
SendLost(h) ==
  /\ \A k \in Keys : lost[k] < MaxLost
  /\ Commit(h, "transmitted")
  /\ lost' = [lost EXCEPT ![KeyOf(h)] = @ + 1]
  /\ UNCHANGED <<rows, sent, grants, applied>>

(* recordManualDispatch: count, insert and updates after the check. *)
ManualRead(h) ==
  \E a \in Manual :
    /\ Begin(h, Work("manual", a, 0, NoOne, None))
    /\ Dispatchable(a)
    /\ UNCHANGED <<rows, hist>>

ManualWrite(h) ==
  LET a == local[h].auth  n == Count(a) + 1 IN
    /\ Commit(h, "manual") /\ PackageFree(h)
    /\ <<a, n>> \in Keys /\ ~Exists(<<a, n>>)
    /\ attempt' = [attempt EXCEPT ![<<a, n>>] = "AWAITING_EVIDENCE"]
    /\ recipient' = [recipient EXCEPT ![<<a, n>>] = [r \in Recipients |-> "MANUALLY_CONFIRMED"]]
    /\ auth' = [auth EXCEPT ![a] = "USED"]
    /\ package' = "DISPATCHED"
    /\ UNCHANGED <<messages, processed, assessed, hist>>

-----------------------------------------------------------------------------
(* What comes back.                                                           *)

(* recordAcknowledgment of a recipient: the attempt keeps its status. *)
Acknowledge(h) ==
  \E k \in Keys, r \in Recipients :
    /\ Once(h)
    /\ Exists(k) /\ RecipientsFree(h, k, {r})
    /\ recipient' = [recipient EXCEPT ![k][r] = "ACKNOWLEDGED"]
    /\ UNCHANGED <<package, auth, attempt, messages, processed, assessed, hist>>

(* assessReceipt needs an attempt and changes none. *)
AssessReceipt(h) ==
  /\ Once(h)
  /\ \E k \in Keys : Exists(k)
  /\ assessed' = TRUE
  /\ UNCHANGED <<package, auth, attempt, recipient, messages, processed, hist>>

(* confirmContractualService needs an assessment. *)
ConfirmService(h) ==
  /\ Once(h) /\ PackageFree(h)
  /\ assessed
  /\ package' = "RECEIPT_CONFIRMED"
  /\ UNCHANGED <<auth, attempt, recipient, messages, processed, assessed, hist>>

(* processDeliveryWebhook finds the attempt by its message id, and its event  *)
(* not yet recorded ...                                                       *)
WebhookRead(h) ==
  \E e \in Events :
    /\ Begin(h, Work("webhook", None, 0, NoOne, e))
    /\ e.at \in messages /\ e \notin processed
    /\ UNCHANGED <<rows, hist>>

(* Mutant: no unique index on the provider's event id. *)
WebhookUpdateTwice(h) ==
  LET e == local[h].event IN
    /\ local[h].op = "webhook"
    /\ RecipientsFree(h, e.at, DOMAIN e.changes)
    /\ local' = [local EXCEPT ![h] = Work("webhook-updated", None, 0,
                                          Changed(recipient[e.at], e.changes), e)]
    /\ UNCHANGED <<rows, hist, raced>>

(* Mutant: the aggregate is taken over the recipients read at the start. *)
WebhookUpdateStale(h) ==
  LET e == local[h].event IN
    /\ local[h].op = "webhook"
    /\ e \notin processed /\ \A g \in Handlers \ {h} : ~Inserting(g, e)
    /\ RecipientsFree(h, e.at, DOMAIN e.changes)
    /\ local' = [local EXCEPT ![h] = Work("webhook-updated", None, 0, recipient[e.at], e)]
    /\ UNCHANGED <<rows, hist, raced>>

(* ... inserts the event (unique), updates its recipients and reads all of    *)
(* the attempt's recipients back ...                                          *)
WebhookUpdate(h) ==
  LET e == local[h].event IN
    /\ local[h].op = "webhook"
    /\ e \notin processed /\ \A g \in Handlers \ {h} : ~Inserting(g, e)
    /\ RecipientsFree(h, e.at, DOMAIN e.changes)
    /\ local' = [local EXCEPT ![h] = Work("webhook-updated", None, 0,
                                          Changed(recipient[e.at], e.changes), e)]
    /\ UNCHANGED <<rows, hist, raced>>

(* Mutant: the package is left alone. *)
WebhookCommitAttemptOnly(h) ==
  LET e == local[h].event  status == Aggregate(local[h].statuses) IN
    /\ Commit(h, "webhook-updated") /\ PackageFree(h)
    /\ recipient' = [recipient EXCEPT ![e.at] = Changed(@, e.changes)]
    /\ attempt' = [attempt EXCEPT ![e.at] = status]
    /\ processed' = processed \cup {e}
    /\ applied' = [applied EXCEPT ![e] = @ + 1]
    /\ UNCHANGED <<package, auth, messages, assessed, sent, lost, grants>>

(* ... and writes their aggregate to the attempt and the package. *)
WebhookCommit(h) ==
  LET e == local[h].event  status == Aggregate(local[h].statuses) IN
    /\ Commit(h, "webhook-updated") /\ PackageFree(h)
    /\ recipient' = [recipient EXCEPT ![e.at] = Changed(@, e.changes)]
    /\ attempt' = [attempt EXCEPT ![e.at] = status]
    /\ package' = AttemptToPackage(status)
    /\ processed' = processed \cup {e}
    /\ applied' = [applied EXCEPT ![e] = @ + 1]
    /\ UNCHANGED <<auth, messages, assessed, sent, lost, grants>>

(* Any other transaction may roll back without a trace. *)
Abort(h) ==
  /\ Busy(h) /\ local[h].op # "transmitted"
  /\ local' = [local EXCEPT ![h] = NoWork]
  /\ UNCHANGED <<rows, hist, raced>>

-----------------------------------------------------------------------------
Next ==
  \E h \in Handlers :
    \/ RequestAuthorization(h) \/ AuthorizeRead(h) \/ AuthorizeWrite(h)
    \/ RejectRead(h) \/ RejectWrite(h) \/ RevokeRead(h) \/ RevokeWrite(h)
    \/ SendRead(h) \/ SendTransmit(h) \/ SendCommit(h) \/ SendLost(h)
    \/ ManualRead(h) \/ ManualWrite(h)
    \/ Acknowledge(h) \/ AssessReceipt(h) \/ ConfirmService(h)
    \/ WebhookRead(h) \/ WebhookUpdate(h) \/ WebhookCommit(h) \/ Abort(h)

Spec == Init /\ [][Next]_vars

-----------------------------------------------------------------------------
Transmitted(a) == {k \in Keys : k[1] = a /\ sent[k] > 0}

(* ADR-086: each new transmission requires fresh human authorization.  The    *)
(* messages the provider can tell apart, by their idempotency keys, are at    *)
(* most the authorizations given.                                             *)
FreshAuthorizationPerTransmission ==
  \A a \in Auths : Cardinality(Transmitted(a)) <= grants[a]

(* It holds as long as no two handlers overlapped: a rolled-back send is      *)
(* repeated under the same key, and a committed one uses the authorization up. *)
OneTransmissionPerGrant == ~raced => FreshAuthorizationPerTransmission

(* Whatever overlaps, the provider sees a key again only after the            *)
(* transaction of its last use rolled back, and an attempt on record went out. *)
KeyReusedOnlyAfterRollback ==
  \A k \in Keys : /\ sent[k] <= lost[k] + 1
                  /\ Exists(k) /\ k[1] \notin Manual => sent[k] = lost[k] + 1

(* Whatever overlaps, a provider event takes effect once: webhooks are        *)
(* delivered again and overlap with themselves.                               *)
EventAppliedOnce == \A e \in Events : applied[e] <= 1

(* aggregateRecipientStatus "never hides failures", and as long as no two     *)
(* handlers overlapped neither does the attempt: with a failed recipient it   *)
(* is neither sent nor delivered, in whatever order provider events and       *)
(* acknowledgments arrive.                                                    *)
NoHiddenFailure ==
  ~raced => \A k \in Keys : attempt[k] \in {"SENT", "DELIVERED"} =>
              \A r \in Recipients : recipient[k][r] \notin Failed

(* Whatever overlaps, what the package says of the delivery is what one of    *)
(* its attempts says: an attempt whose status moves on takes the package with *)
(* it.                                                                        *)
PackageFollowsAttempt ==
  package \in {"DELIVERY_CONFIRMED", "DELIVERY_PARTIAL", "DELIVERY_FAILED"} =>
    \E k \in Keys : Exists(k) /\ AttemptToPackage(attempt[k]) = package

============================================================================
