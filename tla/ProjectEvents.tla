---------------------------- MODULE ProjectEvents ----------------------------
(* The factual events of one project and the human confirmation of which      *)
(* contract rule applies to them: the first half of                           *)
(* apps/web/src/server/services/deadlines.ts.  EventDetection adds the        *)
(* suggestions that become events, Deadlines what is calculated from them.    *)
(*                                                                            *)
(* An event has one trigger date; EXACT_DATE stands for both exact precisions *)
(* and APPROXIMATE_DATE for the other three.  Evidence links are rows nothing *)
(* else looks at.                                                             *)
EXTENDS Transactions

CONSTANTS MaxEvents,       \* bound: project events
          MaxRules,        \* bound: approved configuration revisions, one rule snapshot each
          MaxAssessments   \* bound: rule assessments

EventIds      == 1 .. MaxEvents
Rules         == 1 .. MaxRules
AssessmentIds == 1 .. MaxAssessments

ConfirmationStatuses ==
  {"UNCONFIRMED", "INSUFFICIENT_EVIDENCE", "CONFIRMED_FOR_DEADLINE_ANALYSIS", "CONFIRMED_FACT"}
DateStates == {"NONE", "APPROXIMATE_DATE", "EXACT_DATE", "VERIFIED"}

ASSUME EventsAssumption ==
  MaxEvents \in Nat /\ MaxRules \in Nat \ {0} /\ MaxAssessments \in Nat

VARIABLES
  event,       \* project_event rows: confirmation, state of the trigger date, suggestion
  rule,        \* the last approved configuration revision, and whether it is active
  assessment   \* event_rule_assessment rows: event and rule, 0 before they exist

eventVars == <<event, rule, assessment>>

(* A suggestion the event was accepted from, 0 for a manual one, is kept in   *)
(* the row: the code records it on the suggestion and in the audit log.       *)
Event(confirmation, date, from) ==
  [confirmation |-> confirmation, date |-> date, from |-> from]
Absent == Event("ABSENT", "NONE", 0)
Revision(last, active) == [last |-> last, active |-> active]
Assessment(e, r) == [event |-> e, rule |-> r]
NoAssessment     == Assessment(0, 0)

EventsInit ==
  /\ event = [e \in EventIds |-> Absent]
  /\ rule = Revision(1, TRUE)
  /\ assessment = [a \in AssessmentIds |-> NoAssessment]

-----------------------------------------------------------------------------
CreateProjectEvent(e) ==
  /\ NextId(e, event, Absent)
  /\ event' = [event EXCEPT ![e] = Event("UNCONFIRMED", "NONE", 0)]
  /\ AtOnce
  /\ UNCHANGED <<rule, assessment>>

AddProjectEventDate(e, precision) ==
  /\ event[e] # Absent /\ event[e].date = "NONE"
  /\ precision \in {"APPROXIMATE_DATE", "EXACT_DATE"}
  /\ event' = [event EXCEPT ![e].date = precision]
  /\ AtOnce
  /\ UNCHANGED <<rule, assessment>>

VerifyProjectEventDate(e) ==
  /\ event[e].date = "EXACT_DATE"
  /\ event' = [event EXCEPT ![e].date = "VERIFIED"]
  /\ AtOnce
  /\ UNCHANGED <<rule, assessment>>

ConfirmRead(h, e, status) ==
  /\ event[e].confirmation \in {"UNCONFIRMED", "INSUFFICIENT_EVIDENCE"}
  /\ status \in {"CONFIRMED_FOR_DEADLINE_ANALYSIS", "CONFIRMED_FACT"}
  /\ Begin(h, Work("confirm", None, e, 0, status))
  /\ UNCHANGED <<event, rule, assessment>>

ConfirmProjectEvent(h) ==
  /\ Doing(h, "confirm")
  /\ event' = [event EXCEPT ![work[h].id].confirmation = work[h].text]
  /\ End(h)
  /\ UNCHANGED <<rule, assessment>>

(* What listCandidateRuleSnapshots offers and confirmRuleApplicability takes. *)
CandidateRules == IF rule.active THEN {rule.last} ELSE {}

AssessRead(h, e, r) ==
  /\ event[e].confirmation = "CONFIRMED_FOR_DEADLINE_ANALYSIS"
  /\ r \in CandidateRules
  /\ \A a \in AssessmentIds : assessment[a] # Assessment(e, r)
  /\ Begin(h, Work("assess", None, e, r, "none"))
  /\ UNCHANGED <<event, rule, assessment>>

ConfirmRuleApplicability(h, a) ==
  /\ Doing(h, "assess")
  /\ NextId(a, assessment, NoAssessment)
  /\ assessment' = [assessment EXCEPT ![a] = Assessment(work[h].id, work[h].number)]
  /\ End(h)
  /\ UNCHANGED <<event, rule>>

(* contracts.ts approves the next configuration revision: its snapshots are   *)
(* the active ones from now on (ContractConfiguration models how).            *)
ConfigurationApproved ==
  /\ rule.last < MaxRules
  /\ rule' = Revision(rule.last + 1, TRUE)
  /\ AtOnce
  /\ UNCHANGED <<event, assessment>>

ConfigurationSuperseded ==
  /\ rule.active
  /\ rule' = Revision(rule.last, FALSE)
  /\ AtOnce
  /\ UNCHANGED <<event, assessment>>

EventsNext ==
  \/ \E e \in EventIds :
       \/ CreateProjectEvent(e)
       \/ \E precision \in DateStates : AddProjectEventDate(e, precision)
       \/ VerifyProjectEventDate(e)
       \/ \E h \in Handlers, status \in ConfirmationStatuses : ConfirmRead(h, e, status)
       \/ \E h \in Handlers, r \in Rules : AssessRead(h, e, r)
  \/ \E h \in Handlers : ConfirmProjectEvent(h)
  \/ \E h \in Handlers, a \in AssessmentIds : ConfirmRuleApplicability(h, a)
  \/ ConfigurationApproved \/ ConfigurationSuperseded

EventsTypeOK ==
  /\ event \in [EventIds -> [confirmation : ConfirmationStatuses \cup {"ABSENT"},
                             date : DateStates, from : Nat]]
  /\ rule \in [last : Rules, active : BOOLEAN]
  /\ assessment \in [AssessmentIds -> [event : EventIds \cup {0}, rule : Rules \cup {0}]]
  /\ \A h \in Handlers :
       /\ Doing(h, "confirm") => work[h].id \in EventIds /\ work[h].text \in ConfirmationStatuses
       /\ Doing(h, "assess") => work[h].id \in EventIds /\ work[h].number \in Rules
=============================================================================
