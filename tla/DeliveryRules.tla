---------------------------- MODULE DeliveryRules ----------------------------
(* The pure part of packages/notice-delivery that NoticeDispatch does not     *)
(* hold: what the providers answer, whether a failed attempt may be retried,  *)
(* the readiness checks, the delivery risk and the deemed receipt.            *)
(* Times are hours for the risk and days for the receipt.                     *)
EXTENDS Integers, Sequences, SequencesExt, Lists

CONSTANT Unknown  \* an absent time

(* What a provider object answers in each of its modes: the outcome, whether  *)
(* it gives a message id and an acceptance time, and each recipient's status. *)
ProviderModes == {"success", "reject", "partial", "timeout_after", "connection", "local_capture"}
SendMessage(mode, recipients) ==
  LET all(status) == [n \in DOMAIN recipients |-> status]
      answer(outcome, id, statuses, retryable) ==
        [outcome |-> outcome, messageId |-> id, accepted |-> id,
         statuses |-> statuses, retryable |-> retryable]
  IN CASE mode = "connection"    -> answer("CONNECTION_FAILURE", FALSE, all("FAILED"), TRUE)
       [] mode = "timeout_after" ->
            answer("TIMEOUT_AFTER_POSSIBLE_SUBMIT", TRUE, all("UNKNOWN"), FALSE)
       [] mode = "reject"        -> answer("REJECTED", FALSE, all("REJECTED"), FALSE)
       [] mode = "partial"       ->
            answer("PARTIAL", TRUE,
                   [n \in DOMAIN recipients |-> IF n = 1 THEN "SENT" ELSE "FAILED"], FALSE)
       [] mode \in {"success", "local_capture"} -> answer("ACCEPTED", TRUE, all("SENT"), FALSE)

TerminalFailures == {"INVALID_RECIPIENT", "UNAUTHORIZED_PROVIDER", "UNSUPPORTED_ATTACHMENT",
                     "PROVIDER_REJECTION", "REVOKED"}
ClassifyRetry(in) ==
  IF ~in.authorizationValid \/ ~in.artifactPresent \/ in.checksumMismatch THEN "TERMINAL"
  ELSE IF in.timedOutAfterSubmit \/ (in.providerAccepted /\ in.messageId)
  THEN "MANUAL_REVIEW_REQUIRED"
  ELSE IF in.failureCode \in TerminalFailures THEN "TERMINAL"
  ELSE IF ~in.providerAccepted /\ ~in.messageId THEN "SAFE_AUTO_BEFORE_SUBMISSION"
  ELSE "MANUAL_REVIEW_REQUIRED"

(* A message may have left the house in every mode but a refused connection   *)
(* and a rejection.                                                           *)
MayHaveLeft(answer) ==
  \/ answer.messageId \/ answer.accepted
  \/ \E n \in DOMAIN answer.statuses : answer.statuses[n] \in {"SENT", "UNKNOWN"}

ValidateCoverMessage(cover) ==
  CASE cover.subject = "empty" -> "SUBJECT_REQUIRED"
    [] cover.subject = "long" -> "SUBJECT_TOO_LONG"
    [] cover.subject = "broken" -> "SUBJECT_HEADER_INJECTION"
    [] cover.subject = "fine" /\ cover.body = "empty" -> "BODY_REQUIRED"
    [] cover.subject = "fine" /\ cover.body = "internal" -> "INTERNAL_CONTENT_FORBIDDEN"
    [] OTHER -> "OK"

(* The first required recipient with a gap gives the reason.                  *)
RecipientGap(r) ==
  IF ~r.named THEN "MISSING_DISPLAY_NAME"
  ELSE IF ~r.contact THEN "MISSING_CONTACT"
  ELSE IF ~r.method THEN "MISSING_METHOD" ELSE "OK"
ValidateRecipientsForDispatch(recipients) ==
  LET required == Picked(recipients, {r \in DOMAIN recipients : recipients[r].required})
      gaps     == Picked(required, {r \in DOMAIN required : RecipientGap(required[r]) # "OK"})
  IN IF recipients = <<>> THEN "NO_RECIPIENTS"
     ELSE IF required = <<>> THEN "NO_REQUIRED_RECIPIENT"
     ELSE IF gaps = <<>> THEN "OK" ELSE RecipientGap(gaps[1])

(* Attachments by id; of two with one id the later stands.                    *)
ById(attachments, id) ==
  LET same == Picked(attachments, {a \in DOMAIN attachments : attachments[a].id = id})
  IN IF same = <<>> THEN <<>> ELSE <<same[Len(same)]>>
ValidateAttachmentChecksums(attachments, expected) ==
  /\ Len(attachments) = Len(expected)
  /\ \A n \in DOMAIN expected : ById(attachments, expected[n].id) = <<expected[n]>>

------------------------------------------------------------------------------
RiskLevels == <<"LOW", "MEDIUM", "HIGH", "CRITICAL">>
Indicator(condition, level, code) == IF condition THEN {<<level, code>>} ELSE {}
RiskIndicators(in) ==
  Indicator(in.missingVerifiedRecipient, 4, "MISSING_VERIFIED_RECIPIENT")
  \cup Indicator(in.authorizationExpired, 4, "AUTHORIZATION_EXPIRED")
  \cup Indicator(in.methodNotPermitted, 3, "METHOD_NOT_PERMITTED")
  \cup Indicator(in.attachmentOverLimit, 3, "ATTACHMENT_OVER_LIMIT")
  \cup Indicator(~in.providerConfigured, 3, "PROVIDER_UNAVAILABLE")
  \cup Indicator(in.requiredRecipientFailed, 3, "REQUIRED_RECIPIENT_FAILED")
  \cup Indicator(in.manualProofMissing, 2, "MANUAL_PROOF_MISSING")
  \cup Indicator(in.receiptUnconfirmed, 2, "RECEIPT_UNCONFIRMED")
  \cup Indicator(in.dispatchedAfterDeadline, 4, "DISPATCHED_AFTER_DEADLINE")
  \cup (IF in.hoursLeft = Unknown THEN {}
        ELSE Indicator(in.hoursLeft < 0, 4, "DEADLINE_PASSED")
             \cup Indicator(in.hoursLeft >= 0 /\ in.hoursLeft <= 24, 3, "DEADLINE_WITHIN_24H"))
ComputeDeliveryRisk(in) ==
  RiskLevels[Max({1} \cup {i[1] : i \in RiskIndicators(in)})]

------------------------------------------------------------------------------
(* The advisory instant of receipt. The search for a working day gives up     *)
(* after 14 days, even when the 15th is one.                                  *)
LookupGuard == 14
Advice(at, ambiguity) == [at |-> at, ambiguity |-> ambiguity]
NextWorkingDay(sentAt, worked) ==
  LET cursor[guard \in 0..LookupGuard] ==
        IF guard = 0 THEN sentAt + 1
        ELSE LET at == cursor[guard - 1] IN IF at \in worked THEN at ELSE at + 1
  IN IF cursor[LookupGuard] = sentAt + 1 + LookupGuard
     THEN Advice(Unknown, "WORKING_DAY_LOOKUP_FAILED")
     ELSE Advice(cursor[LookupGuard], "REQUIRES_HUMAN_REVIEW")
AssessDeemedReceipt(rule, sentAt, deliveredAt, postalDays, worked) ==
  CASE rule = "NONE" -> Advice(Unknown, "NO_DEEMED_RULE")
    [] rule = "ACTUAL_DELIVERY" ->
         Advice(deliveredAt, IF deliveredAt = Unknown THEN "DELIVERY_TIME_UNKNOWN" ELSE "none")
    [] rule \in {"ON_TRANSMISSION", "PLATFORM_SUBMISSION"} ->
         Advice(sentAt, IF sentAt = Unknown THEN "SENT_TIME_UNKNOWN" ELSE "none")
    [] rule \in {"NEXT_WORKING_DAY", "POSTAL_PERIOD"} /\ sentAt = Unknown ->
         Advice(Unknown, "SENT_TIME_UNKNOWN")
    [] rule = "NEXT_WORKING_DAY" /\ sentAt # Unknown -> NextWorkingDay(sentAt, worked)
    [] rule = "POSTAL_PERIOD" /\ sentAt # Unknown ->
         Advice(sentAt + postalDays, "REQUIRES_HUMAN_REVIEW")
    [] OTHER -> Advice(Unknown, "UNKNOWN_RULE")

------------------------------------------------------------------------------
DeliveryProviderAllowed(kind, appEnv) == ~(kind = "fake" /\ appEnv \in {"production", "staging"})
CreateNoticeDeliveryProvider(kind, appEnv) ==
  CASE kind \in {"deterministic", "none", "empty"} -> "NONE"
    [] kind = "fake" -> IF DeliveryProviderAllowed(kind, appEnv) THEN "fake" ELSE "REFUSED"
    [] kind \in {"local_capture", "local"} -> "local_capture"
    [] OTHER -> "REFUSED"
==============================================================================
