------------------------------ MODULE Deadlines ------------------------------
(* Project calendars, deadline calculations and tracked deadlines: the second *)
(* half of apps/web/src/server/services/deadlines.ts with the triggers of the *)
(* slice 4 migration.  The arithmetic is DeadlineEngine's; here its result is *)
(* an input, a deadline or a blocked calculation.                             *)
(*                                                                            *)
(* The project has one calendar, and a calculation may use any revision that  *)
(* is approved when it is made.                                               *)
EXTENDS ProjectEvents

CONSTANTS MaxCalendarRevisions,  \* bound: revisions of the calendar
          MaxCalculations,       \* bound: deadline calculations
          MaxCopies              \* bound: tracked deadlines of one calculation

CalendarRevisions == 1 .. MaxCalendarRevisions
CalculationIds    == 1 .. MaxCalculations
Copies            == 1 .. MaxCopies

RevisionStatuses    == {"ABSENT", "DRAFT", "APPROVED", "SUPERSEDED"}
CalculationStatuses == {"ABSENT", "BLOCKED", "REVIEW_REQUIRED", "VERIFIED", "SUPERSEDED"}
DeadlineStatuses    == {"ABSENT", "UPCOMING", "SUPERSEDED"}
EngineResults       == {"BLOCKED", "REVIEW_REQUIRED"}

ASSUME DeadlinesAssumption ==
  MaxCalendarRevisions \in Nat /\ MaxCalculations \in Nat /\ MaxCopies \in Nat

VARIABLES
  revision,     \* project_calendar_revision.status
  current,      \* project_calendar.currentRevisionId, 0 for null
  calculation,  \* deadline_calculation rows
  deadline      \* project_deadline rows of each calculation

deadlineVars == <<revision, current, calculation, deadline>>

Calculation(status, a, version, by, reviewer, supersedes) ==
  [status |-> status, assessment |-> a, version |-> version, by |-> by,
   reviewer |-> reviewer, supersedes |-> supersedes]
NoCalculation == Calculation("ABSENT", 0, 0, None, None, 0)

(* A deadline is the i-th of its calculation, and the one that supersedes it  *)
(* the i-th of the calculation kept in next (supersededById).                 *)
Deadline(status, next) == [status |-> status, next |-> next]
NoDeadline == Deadline("ABSENT", 0)

DeadlinesInit ==
  /\ revision = [k \in CalendarRevisions |-> "ABSENT"]
  /\ current = 0
  /\ calculation = [c \in CalculationIds |-> NoCalculation]
  /\ deadline = [c \in CalculationIds |-> [i \in Copies |-> NoDeadline]]

Live(c, i)     == deadline[c][i].status \notin {"ABSENT", "SUPERSEDED"}
Versions(a)    == {calculation[c].version : c \in {k \in CalculationIds :
                                                    calculation[k].assessment = a}}
NextVersion(a) == CHOOSE n \in 1 .. MaxCalculations + 1 :
                     /\ \A v \in Versions(a) : v < n
                     /\ n = 1 \/ n - 1 \in Versions(a)

-----------------------------------------------------------------------------
(* Calendars.  The revision number is the highest plus one under a unique     *)
(* index: of two overlapping creations the second is rolled back.             *)
ReviseRead(h, k) ==
  /\ NextId(k, revision, "ABSENT")
  /\ Begin(h, Work("revise", None, k, 0, "none"))
  /\ UNCHANGED <<event, rule, assessment, deadlineVars>>

CreateCalendarRevision(h) ==
  /\ Doing(h, "revise")
  /\ revision[work[h].id] = "ABSENT"
  /\ revision' = [revision EXCEPT ![work[h].id] = "DRAFT"]
  /\ End(h)
  /\ UNCHANGED <<event, rule, assessment, current, calculation, deadline>>

ApproveRead(h, k) ==
  /\ revision[k] = "DRAFT"
  /\ Begin(h, Work("approve", None, k, current, "none"))
  /\ UNCHANGED <<event, rule, assessment, deadlineVars>>

(* Mutant: the current revision keeps its status. *)
ApproveCalendarBeside(h) ==
  /\ Doing(h, "approve")
  /\ revision[work[h].id] # "APPROVED"
  /\ revision' = [revision EXCEPT ![work[h].id] = "APPROVED"]
  /\ current' = work[h].id
  /\ End(h)
  /\ UNCHANGED <<event, rule, assessment, calculation, deadline>>

(* The current revision it read is superseded, the new one approved.  The     *)
(* trigger lets an approved row only become SUPERSEDED, so approving a        *)
(* revision that was approved meanwhile fails.                                *)
ApproveCalendarRevision(h) ==
  LET k == work[h].id
      old == work[h].number IN
  /\ Doing(h, "approve")
  /\ revision[k] # "APPROVED"
  /\ revision' = [j \in CalendarRevisions |-> IF j = k THEN "APPROVED"
                                              ELSE IF j = old THEN "SUPERSEDED" ELSE revision[j]]
  /\ current' = k
  /\ End(h)
  /\ UNCHANGED <<event, rule, assessment, calculation, deadline>>

-----------------------------------------------------------------------------
(* Mutant: a date candidate nobody verified is calculated from. *)
CalculableUnverified(a) ==
  /\ assessment[a] # NoAssessment
  /\ event[assessment[a].event].date # "NONE"
  /\ \E k \in CalendarRevisions : revision[k] = "APPROVED"
  /\ assessment[a].rule \in CandidateRules

(* calculateEventDeadlineInternal's reads, a guard here because it is called  *)
(* inside the reading part of two handlers.                                   *)
Calculable(a) ==
  /\ assessment[a] # NoAssessment
  /\ event[assessment[a].event].date = "VERIFIED"
  /\ \E k \in CalendarRevisions : revision[k] = "APPROVED"
  /\ assessment[a].rule \in CandidateRules

CalculateRead(h, user, a) ==
  /\ Calculable(a)
  /\ event[assessment[a].event].confirmation = "CONFIRMED_FOR_DEADLINE_ANALYSIS"
  /\ Begin(h, Work("calculate", user, a, NextVersion(a), "none"))
  /\ UNCHANGED <<event, rule, assessment, deadlineVars>>

CalculateEventDeadline(h, c, result) ==
  /\ Doing(h, "calculate")
  /\ NextId(c, calculation, NoCalculation)
  /\ result \in EngineResults
  /\ calculation' = [calculation EXCEPT ![c] =
       Calculation(result, work[h].id, work[h].number, work[h].user, None, 0)]
  /\ End(h)
  /\ UNCHANGED <<event, rule, assessment, revision, current, deadline>>

VerifyRead(h, user, c) ==
  /\ calculation[c].status = "REVIEW_REQUIRED"
  /\ calculation[c].by # user
  /\ Begin(h, Work("verify", user, c, 0, "none"))
  /\ UNCHANGED <<event, rule, assessment, deadlineVars>>

(* The trigger refuses to change a verified row other than to SUPERSEDED.     *)
VerifyDeadlineCalculation(h) ==
  LET c == work[h].id IN
  /\ Doing(h, "verify")
  /\ calculation[c].status # "VERIFIED"
  /\ calculation' = [calculation EXCEPT ![c].status = "VERIFIED", ![c].reviewer = work[h].user]
  /\ End(h)
  /\ UNCHANGED <<event, rule, assessment, revision, current, deadline>>

TrackRead(h, c) ==
  /\ calculation[c].status = "VERIFIED"
  /\ \A i \in Copies : ~Live(c, i)
  /\ Begin(h, Work("track", None, c, 0, "none"))
  /\ UNCHANGED <<event, rule, assessment, deadlineVars>>

CreateTrackedDeadline(h, i) ==
  LET c == work[h].id IN
  /\ Doing(h, "track")
  /\ NextId(i, deadline[c], NoDeadline)
  /\ deadline' = [deadline EXCEPT ![c][i] = Deadline("UPCOMING", 0)]
  /\ End(h)
  /\ UNCHANGED <<event, rule, assessment, revision, current, calculation>>

RecalculateRead(h, user, c) ==
  /\ calculation[c].status \in {"VERIFIED", "REVIEW_REQUIRED"}
  /\ Calculable(calculation[c].assessment)
  /\ Begin(h, Work("recalculate", user, c, NextVersion(calculation[c].assessment), "none"))
  /\ UNCHANGED <<event, rule, assessment, deadlineVars>>

(* Mutants: the new calculation does not say what it supersedes; the prior    *)
(* row is written anew, with the requester as its author.                     *)
RecalculateUnlinked(h, c, result) ==
  LET prior == work[h].id IN
  /\ Doing(h, "recalculate")
  /\ NextId(c, calculation, NoCalculation)
  /\ result \in EngineResults
  /\ calculation' = [calculation EXCEPT
       ![c] = Calculation(result, calculation[prior].assessment, work[h].number,
                          work[h].user, None, 0),
       ![prior].status = "SUPERSEDED"]
  /\ End(h)
  /\ UNCHANGED <<event, rule, assessment, revision, current, deadline>>
RecalculateRewritten(h, c, result) ==
  LET prior == work[h].id IN
  /\ Doing(h, "recalculate")
  /\ NextId(c, calculation, NoCalculation)
  /\ result \in EngineResults
  /\ calculation' = [calculation EXCEPT
       ![c] = Calculation(result, calculation[prior].assessment, work[h].number,
                          work[h].user, None, prior),
       ![prior].status = "SUPERSEDED", ![prior].by = work[h].user]
  /\ End(h)
  /\ UNCHANGED <<event, rule, assessment, revision, current, deadline>>

(* The prior row is locked by its update before its tracked deadlines are     *)
(* read, so they are read as of the commit: each live one is superseded by    *)
(* one of the new calculation.                                                *)
RecalculateDeadline(h, c, result) ==
  LET prior == work[h].id IN
  /\ Doing(h, "recalculate")
  /\ NextId(c, calculation, NoCalculation)
  /\ result \in EngineResults
  /\ calculation' = [calculation EXCEPT
       ![c] = Calculation(result, calculation[prior].assessment, work[h].number,
                          work[h].user, None, prior),
       ![prior].status = "SUPERSEDED"]
  /\ deadline' = [deadline EXCEPT
       ![c] = [i \in Copies |-> IF Live(prior, i) THEN Deadline("UPCOMING", 0) ELSE NoDeadline],
       ![prior] = [i \in Copies |-> IF Live(prior, i) THEN Deadline("SUPERSEDED", c)
                                    ELSE deadline[prior][i]]]
  /\ End(h)
  /\ UNCHANGED <<event, rule, assessment, revision, current>>

DeadlinesNext ==
  \/ \E h \in Handlers :
       \/ \E k \in CalendarRevisions : ReviseRead(h, k) \/ ApproveRead(h, k)
       \/ CreateCalendarRevision(h) \/ ApproveCalendarRevision(h)
       \/ \E user \in Users, a \in AssessmentIds : CalculateRead(h, user, a)
       \/ \E user \in Users, c \in CalculationIds : VerifyRead(h, user, c)
       \/ \E user \in Users, c \in CalculationIds : RecalculateRead(h, user, c)
       \/ \E c \in CalculationIds : TrackRead(h, c)
       \/ VerifyDeadlineCalculation(h)
       \/ \E i \in Copies : CreateTrackedDeadline(h, i)
       \/ \E c \in CalculationIds, result \in EngineResults :
            CalculateEventDeadline(h, c, result) \/ RecalculateDeadline(h, c, result)

DeadlinesTypeOK ==
  /\ revision \in [CalendarRevisions -> RevisionStatuses]
  /\ current \in CalendarRevisions \cup {0}
  /\ calculation \in [CalculationIds ->
       [status : CalculationStatuses, assessment : AssessmentIds \cup {0}, version : Nat,
        by : Users \cup {None}, reviewer : Users \cup {None}, supersedes : CalculationIds \cup {0}]]
  /\ deadline \in [CalculationIds -> [Copies -> [status : DeadlineStatuses,
                                                 next : CalculationIds \cup {0}]]]
=============================================================================
