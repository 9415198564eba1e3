---------------------------- MODULE EventAnalysis ----------------------------
(* From correspondence to tracked deadlines: EventDetection, ProjectEvents    *)
(* and Deadlines work on the same events, each handler on any of them.        *)
EXTENDS EventDetection, Deadlines

vars == <<transactionVars, eventVars, detectionVars, deadlineVars>>

Init == TransactionsInit /\ EventsInit /\ DetectionInit /\ DeadlinesInit

Next ==
  \/ EventsNext /\ UNCHANGED <<detectionVars, deadlineVars>>
  \/ DetectionNext /\ UNCHANGED deadlineVars
  \/ DeadlinesNext /\ UNCHANGED detectionVars
  \/ \E h \in Handlers : RollBack(h) /\ UNCHANGED <<eventVars, detectionVars, deadlineVars>>

Spec == Init /\ [][Next]_vars

TypeOK == TransactionsTypeOK /\ EventsTypeOK /\ DetectionTypeOK /\ DeadlinesTypeOK

-----------------------------------------------------------------------------
(* Accepting a suggestion activates nothing: whatever overlaps, an event has  *)
(* a calculation only once a human has confirmed it, verified its date and    *)
(* confirmed a rule that is or was approved, and a suggestion points to an    *)
(* event that was made from it.                                               *)
DeadlinesRestOnConfirmedFacts ==
  /\ \A c \in CalculationIds : calculation[c] # NoCalculation =>
       LET a == assessment[calculation[c].assessment] IN
       /\ a.event \in EventIds
       /\ a.rule <= rule.last
       /\ event[a.event].date = "VERIFIED"
       /\ event[a.event].confirmation \in {"CONFIRMED_FOR_DEADLINE_ANALYSIS", "CONFIRMED_FACT"}
  /\ \A s \in SuggestionIds : suggestion[s].accepted # 0 =>
       event[suggestion[s].accepted].from = s

(* Supersession leaves a trail even when handlers overlap: a superseded       *)
(* calculation has a successor of the same assessment, a superseded deadline  *)
(* a successor of a calculation that supersedes its own, and a deadline that  *)
(* supersedes none was tracked from a calculation someone other than its      *)
(* author verified.                                                           *)
SupersessionIsLinked ==
  /\ \A c \in CalculationIds : calculation[c].status = "SUPERSEDED" =>
       \E k \in CalculationIds : /\ calculation[k].supersedes = c
                                 /\ calculation[k].assessment = calculation[c].assessment
                                 /\ calculation[k].version > calculation[c].version
  /\ \A c \in CalculationIds, i \in Copies : deadline[c][i].status = "SUPERSEDED" =>
       /\ calculation[deadline[c][i].next].supersedes = c
       /\ deadline[deadline[c][i].next][i] # NoDeadline
  /\ \A c \in CalculationIds, i \in Copies : deadline[c][i] # NoDeadline =>
       \/ calculation[c].reviewer \notin {None, calculation[c].by}
       \/ \E k \in CalculationIds : deadline[k][i] = Deadline("SUPERSEDED", c)

(* The calendar's pointer names an approved revision, whatever overlaps.      *)
CurrentIsApproved == current # 0 => revision[current] = "APPROVED"

(* One of each: the revision the pointer names is the only approved one, at   *)
(* most one assessment applies a rule to an event, a live deadline's          *)
(* calculation is not superseded and has no other live deadline, and a        *)
(* version number is used once per assessment.                                *)
RowsAreSingle ==
  /\ \A k \in CalendarRevisions : revision[k] = "APPROVED" => k = current
  /\ \A a, b \in AssessmentIds : (assessment[a] = assessment[b] /\ assessment[a] # NoAssessment)
                                   => a = b
  /\ \A c \in CalculationIds, i, j \in Copies : Live(c, i) =>
       calculation[c].status # "SUPERSEDED" /\ (Live(c, j) => i = j)
  /\ \A c, k \in CalculationIds :
       (/\ calculation[c] # NoCalculation
        /\ calculation[c].assessment = calculation[k].assessment
        /\ calculation[c].version = calculation[k].version) => c = k

(* The pointer is right whatever overlaps, and as long as no two handlers     *)
(* overlap there is one of each row.                                          *)
NothingIsDoubled == CurrentIsApproved /\ (~raced => RowsAreSingle)

(* A verified calculation only ever becomes superseded, and keeps its author, *)
(* its reviewer and its basis (the migration's trigger and ADR-044).          *)
VerifiedIsFrozen ==
  [][\A c \in CalculationIds : calculation[c].status = "VERIFIED" =>
       \/ calculation'[c] = calculation[c]
       \/ calculation'[c] = [calculation[c] EXCEPT !.status = "SUPERSEDED"]]_vars

=============================================================================
