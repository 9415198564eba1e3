--------------------------- MODULE MC_EventAnalysis ---------------------------
(* Model values, symmetry and the small instances TLC explores of             *)
(* EventAnalysis.  A state is explored further as long as it fits one of      *)
(* them, so each race has the rows it needs without the product of them all.  *)
EXTENDS EventAnalysis, FiniteSets, TLC

CONSTANTS h1, h2, u1, u2, seg

MC_Two      == {h1, h2}
MC_Users    == {u1, u2}
MC_Segments == {seg}

MC_Symmetry == Permutations(Handlers) \cup Permutations(Users)

Rows(table, noRow) == Cardinality({i \in DOMAIN table : table[i] # noRow})
Fits(events, suggestions, assessments, rules, revisions, calculations, copies) ==
  /\ Rows(event, Absent) <= events
  /\ Rows(suggestion, NoSuggestion) <= suggestions
  /\ Rows(assessment, NoAssessment) <= assessments
  /\ rule.last <= rules
  /\ rules = 1 => rule.active
  /\ Rows(revision, "ABSENT") <= revisions
  /\ Rows(calculation, NoCalculation) <= calculations
  /\ \A c \in CalculationIds : Rows(deadline[c], NoDeadline) <= copies
  /\ suggestions = 0 => ~archived

MC_Instances ==
  \/ Fits(2, 1, 0, 1, 0, 0, 0)  \* suggestions and the events made from them
  \/ Fits(1, 1, 1, 1, 1, 1, 0)  \* from a suggestion to a calculation
  \/ Fits(1, 0, 2, 2, 1, 1, 0)  \* assessments of one event under changing rules
  \/ Fits(0, 0, 0, 1, 2, 0, 0)  \* calendars
  \/ Fits(1, 0, 1, 1, 2, 1, 0)  \* calculations while the calendar changes
  \/ Fits(1, 0, 1, 1, 1, 2, 2)  \* verification and tracking
  \/ Fits(1, 0, 1, 1, 1, 3, 1)  \* recalculation
==============================================================================
