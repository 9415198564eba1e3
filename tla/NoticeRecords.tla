----------------------------- MODULE NoticeRecords -----------------------------
(* The working papers of one notice package: evidence requirements, facts,    *)
(* recipients, review questions, attachments and controlled exceptions, the   *)
(* part of apps/web/src/server/services/notices.ts NoticeApproval abstracts   *)
(* from.  NoticeApproval takes up what is complete here, NoticeDispatch the   *)
(* verified recipients.                                                       *)
(*                                                                            *)
(* The package has one fact of each type; OTHER is entered by a reviewer and  *)
(* stands for every type that proves no requirement.  Comments, approval      *)
(* recommendations and dispatch evidence are rows of single writes nothing    *)
(* here reads.                                                                *)
EXTENDS Transactions

CONSTANTS Recipients,      \* recipients of the obligation
          MaxQuestions,    \* bound: review questions
          MaxAttachments,  \* bound: attachments
          Issues, NonWaivable  \* issue categories of exceptions, and isNonWaivableException

Questions   == 1 .. MaxQuestions
Attachments == 1 .. MaxAttachments

Categories == {"EVENT_OCCURRENCE", "TRIGGER_DATE", "CONTRACTUAL_BASIS", "RECIPIENT",
               "DELIVERY_METHOD", "CONTEMPORARY_RECORDS"}
FactTypes  == {"DESCRIPTION_OF_EVENT", "EVENT_DATE", "OTHER"}

SatisfactionStatuses == {"ABSENT", "MISSING", "PARTIAL", "SATISFIED"}
FactStatuses         == {"ABSENT", "UNVERIFIED", "EVIDENCE_BACKED", "HUMAN_CONFIRMED", "DISPUTED"}
QuestionStatuses     == {"ABSENT", "OPEN", "ANSWERED", "RESOLVED"}
InclusionStatuses    == {"ABSENT", "PROPOSED", "INCLUDED", "EXCLUDED"}

ASSUME RecordsAssumption ==
  MaxQuestions \in Nat /\ MaxAttachments \in Nat /\ NonWaivable \subseteq Issues

VARIABLES
  requirement,  \* notice_evidence_requirement.satisfactionStatus, ABSENT before the package
  linked,       \* categories with a notice_evidence_link
  fact,         \* notice_fact rows
  verified,     \* recipients whose delivery preparation is VERIFIED
  question,     \* notice_review_question rows
  attachment,   \* notice_attachment rows
  exception     \* issue categories of notice_controlled_exception rows

recordsVars == <<requirement, linked, fact, verified, question, attachment, exception>>

(* once is history: the fact has been approved for drafting at some time.     *)
Fact(status, approved, once) == [status |-> status, approved |-> approved, once |-> once]
(* answer counts the answers written, read is the one its reviewer verified.  *)
Question(status, answer, read) == [status |-> status, answer |-> answer, read |-> read]
Attachment(status, sequence)   == [status |-> status, sequence |-> sequence]
NoFact       == Fact("ABSENT", FALSE, FALSE)
NoQuestion   == Question("ABSENT", 0, 0)
NoAttachment == Attachment("ABSENT", 0)

RecordsInit ==
  /\ requirement = [c \in Categories |-> "ABSENT"]
  /\ linked = {}
  /\ fact = [t \in FactTypes |-> NoFact]
  /\ verified = {}
  /\ question = [q \in Questions |-> NoQuestion]
  /\ attachment = [a \in Attachments |-> NoAttachment]
  /\ exception = {}

Created == requirement["CONTRACTUAL_BASIS"] # "ABSENT"

-----------------------------------------------------------------------------
(* The package with what is seeded from the rule snapshot and the event.      *)
(* dateVerified: the event's date is VERIFIED.                                *)
SeededRequirements ==
  [c \in Categories |-> IF c = "CONTRACTUAL_BASIS" THEN "SATISFIED" ELSE "MISSING"]
SeededFacts(dateVerified) ==
  [t \in FactTypes |->
     IF t = "OTHER" THEN NoFact
     ELSE Fact(IF t = "EVENT_DATE" /\ dateVerified THEN "EVIDENCE_BACKED" ELSE "UNVERIFIED",
               FALSE, FALSE)]

CreateNoticePackageFromDeadline(dateVerified) ==
  /\ ~Created
  /\ requirement' = SeededRequirements
  /\ fact' = SeededFacts(dateVerified)
  /\ AtOnce
  /\ UNCHANGED <<linked, verified, question, attachment, exception>>

(* The status is the linking reviewer's word, or left alone.                  *)
LinkEvidence(c, status) ==
  /\ Created
  /\ status \in {"PARTIAL", "SATISFIED", requirement[c]}
  /\ linked' = linked \cup {c}
  /\ requirement' = [requirement EXCEPT ![c] = status]
  /\ AtOnce
  /\ UNCHANGED <<fact, verified, question, attachment, exception>>

CreateNoticeFact ==
  /\ Created
  /\ fact["OTHER"] = NoFact
  /\ fact' = [fact EXCEPT !["OTHER"] = Fact("UNVERIFIED", FALSE, FALSE)]
  /\ AtOnce
  /\ UNCHANGED <<requirement, linked, verified, question, attachment, exception>>

(* The requirement a fact type proves.                                        *)
Proves(t) ==
  {c \in Categories : \/ t = "EVENT_DATE" /\ c = "TRIGGER_DATE"
                      \/ t = "DESCRIPTION_OF_EVENT" /\ c = "EVENT_OCCURRENCE"}

Satisfy(categories) ==
  requirement' = [c \in Categories |-> IF c \in categories THEN "SATISFIED" ELSE requirement[c]]

(* Mutant: verification satisfies the requirement without the approval. *)
VerifyFactSatisfies(t, status, approved) ==
  /\ fact[t] # NoFact
  /\ status \in {"EVIDENCE_BACKED", "HUMAN_CONFIRMED", "DISPUTED"}
  /\ fact' = [fact EXCEPT ![t] = Fact(status, approved, approved \/ fact[t].once)]
  /\ Satisfy(Proves(t))
  /\ AtOnce
  /\ UNCHANGED <<linked, verified, question, attachment, exception>>

(* A disputed fact may be approved for drafting; taking an approval back      *)
(* leaves the requirement satisfied.                                          *)
VerifyNoticeFact(t, status, approved) ==
  /\ fact[t] # NoFact
  /\ status \in {"EVIDENCE_BACKED", "HUMAN_CONFIRMED", "DISPUTED"}
  /\ fact' = [fact EXCEPT ![t] = Fact(status, approved, approved \/ fact[t].once)]
  /\ Satisfy(IF approved THEN Proves(t) ELSE {})
  /\ AtOnce
  /\ UNCHANGED <<linked, verified, question, attachment, exception>>

(* One verified recipient satisfies both requirements, whoever else there is. *)
VerifyDeliveryPreparation(recipient) ==
  /\ Created
  /\ verified' = verified \cup {recipient}
  /\ Satisfy({"RECIPIENT", "DELIVERY_METHOD"})
  /\ AtOnce
  /\ UNCHANGED <<linked, fact, question, attachment, exception>>

-----------------------------------------------------------------------------
(* Questions.                                                                 *)
CreateReviewQuestion(q) ==
  /\ Created
  /\ NextId(q, question, NoQuestion)
  /\ question' = [question EXCEPT ![q] = Question("OPEN", 0, 0)]
  /\ AtOnce
  /\ UNCHANGED <<requirement, linked, fact, verified, attachment, exception>>

AnswerRead(h, q) ==
  /\ question[q].status = "OPEN"
  /\ Begin(h, Work("answer", None, q, 0, "none"))
  /\ UNCHANGED recordsVars

AnswerReviewQuestion(h) ==
  LET q == work[h].id IN
  /\ Doing(h, "answer")
  /\ question' = [question EXCEPT ![q] =
                    Question("ANSWERED", question[q].answer + 1, question[q].read)]
  /\ End(h)
  /\ UNCHANGED <<requirement, linked, fact, verified, attachment, exception>>

VerifyAnswerRead(h, q) ==
  /\ question[q].answer > 0
  /\ Begin(h, Work("verify_answer", None, q, question[q].answer, "none"))
  /\ UNCHANGED recordsVars

VerifyQuestionAnswer(h) ==
  LET q == work[h].id IN
  /\ Doing(h, "verify_answer")
  /\ question' = [question EXCEPT ![q] = Question("RESOLVED", question[q].answer, work[h].number)]
  /\ End(h)
  /\ UNCHANGED <<requirement, linked, fact, verified, attachment, exception>>

-----------------------------------------------------------------------------
(* Attachments take the highest sequence plus one; no index keeps them apart. *)
AttachRead(h) ==
  /\ Created
  /\ \E a \in Attachments : attachment[a] = NoAttachment
  /\ \E highest \in 0 .. MaxAttachments :
       /\ \A a \in Attachments : attachment[a].sequence <= highest
       /\ highest = 0 \/ \E a \in Attachments : attachment[a].sequence = highest
       /\ Begin(h, Work("attach", None, 0, highest + 1, "none"))
  /\ UNCHANGED recordsVars

AddAttachment(h, a) ==
  /\ Doing(h, "attach")
  /\ NextId(a, attachment, NoAttachment)
  /\ attachment' = [attachment EXCEPT ![a] = Attachment("PROPOSED", work[h].number)]
  /\ End(h)
  /\ UNCHANGED <<requirement, linked, fact, verified, question, exception>>

SetAttachmentInclusion(a, status) ==
  /\ attachment[a] # NoAttachment
  /\ status \in InclusionStatuses \ {"ABSENT"}
  /\ attachment' = [attachment EXCEPT ![a].status = status]
  /\ AtOnce
  /\ UNCHANGED <<requirement, linked, fact, verified, question, exception>>

CreateControlledException(issue) ==
  /\ Created
  /\ issue \notin NonWaivable
  /\ exception' = exception \cup {issue}
  /\ AtOnce
  /\ UNCHANGED <<requirement, linked, fact, verified, question, attachment>>

RecordsNext ==
  \/ \E dateVerified \in BOOLEAN : CreateNoticePackageFromDeadline(dateVerified)
  \/ \E c \in Categories, status \in SatisfactionStatuses : LinkEvidence(c, status)
  \/ CreateNoticeFact
  \/ \E t \in FactTypes, status \in FactStatuses, approved \in BOOLEAN :
       VerifyNoticeFact(t, status, approved)
  \/ \E recipient \in Recipients : VerifyDeliveryPreparation(recipient)
  \/ \E q \in Questions : \/ CreateReviewQuestion(q)
                          \/ \E h \in Handlers : AnswerRead(h, q) \/ VerifyAnswerRead(h, q)
  \/ \E a \in Attachments : \/ \E h \in Handlers : AddAttachment(h, a)
                            \/ \E status \in InclusionStatuses : SetAttachmentInclusion(a, status)
  \/ \E issue \in Issues : CreateControlledException(issue)
  \/ \E h \in Handlers : \/ AnswerReviewQuestion(h) \/ VerifyQuestionAnswer(h) \/ AttachRead(h)
                         \/ RollBack(h) /\ UNCHANGED recordsVars

RecordsSpec ==
  TransactionsInit /\ RecordsInit /\ [][RecordsNext]_<<transactionVars, recordsVars>>

RecordsTypeOK ==
  /\ requirement \in [Categories -> SatisfactionStatuses]
  /\ linked \subseteq Categories
  /\ fact \in [FactTypes -> [status : FactStatuses, approved : BOOLEAN, once : BOOLEAN]]
  /\ verified \subseteq Recipients
  /\ question \in [Questions -> [status : QuestionStatuses, answer : Nat, read : Nat]]
  /\ attachment \in [Attachments -> [status : InclusionStatuses, sequence : Nat]]
  /\ exception \subseteq Issues

-----------------------------------------------------------------------------
(* A requirement is satisfied only on some ground: evidence linked to it, a   *)
(* fact that proves it and was approved for drafting, or for the recipient    *)
(* and the method a recipient someone verified.                               *)
SatisfiedIsGrounded ==
  \A c \in Categories \ {"CONTRACTUAL_BASIS"} : requirement[c] = "SATISFIED" =>
    \/ c \in linked
    \/ \E t \in FactTypes : c \in Proves(t) /\ fact[t].once
    \/ c \in {"RECIPIENT", "DELIVERY_METHOD"} /\ verified # {}

(* Unless handlers overlap, the answer of a resolved question is the one that *)
(* was verified, and the attachments are numbered without gap or double.      *)
ReviewedIsWhatStands == ~raced =>
  /\ \A q \in Questions : question[q].status = "RESOLVED" => question[q].read = question[q].answer
  /\ \A a \in Attachments : attachment[a] # NoAttachment => attachment[a].sequence = a

(* What a package rests on is grounded, and what was reviewed still stands.   *)
PapersAreReviewed == SatisfiedIsGrounded /\ ReviewedIsWhatStands
=============================================================================
