---------------------------- MODULE EventDetection ----------------------------
(* Detection runs and the review of their suggestions:                        *)
(* apps/web/src/server/services/detections.ts.  An accepted suggestion        *)
(* becomes a project event of ProjectEvents.                                  *)
(*                                                                            *)
(* A finding is a segment the detectors match in; which segments match, and   *)
(* with which date candidate, is the subject of module EventDetectors.        *)
EXTENDS ProjectEvents

CONSTANTS MaxSuggestions,  \* bound: suggestions
          Segments         \* evidence segments of processed documents with a finding

SuggestionIds == 1 .. MaxSuggestions
SuggestionStatuses == {"ABSENT", "PENDING_REVIEW", "NEEDS_MORE_EVIDENCE", "ACCEPTED", "REJECTED"}
OpenStatuses == {"PENDING_REVIEW", "NEEDS_MORE_EVIDENCE"}
DatePrecisions == {"NONE", "APPROXIMATE_DATE", "EXACT_DATE"}

ASSUME DetectionAssumption == MaxSuggestions \in Nat /\ None \notin Segments

VARIABLES
  suggestion,  \* project_event_suggestion rows with their evidence and date candidate
  archived     \* project.status is ARCHIVED

detectionVars == <<suggestion, archived>>

Suggestion(status, segment, date, accepted) ==
  [status |-> status, segment |-> segment, date |-> date, accepted |-> accepted]
NoSuggestion == Suggestion("ABSENT", None, "NONE", 0)

DetectionInit ==
  /\ suggestion = [s \in SuggestionIds |-> NoSuggestion]
  /\ archived = FALSE

SetStatus(s, status) == suggestion' = [suggestion EXCEPT ![s].status = status]

(* One finding of a run.  Every run creates its suggestions anew; the rule    *)
(* candidates, gaps and date candidates it writes are advisory rows of theirs.*)
StartDetectionRun(s, segment, date) ==
  /\ ~archived
  /\ NextId(s, suggestion, NoSuggestion)
  /\ suggestion' = [suggestion EXCEPT ![s] = Suggestion("PENDING_REVIEW", segment, date, 0)]
  /\ AtOnce
  /\ UNCHANGED <<event, rule, assessment, archived>>

RejectRead(h, s) ==
  /\ suggestion[s].status \in OpenStatuses
  /\ Begin(h, Work("reject", None, s, 0, "none"))
  /\ UNCHANGED <<event, rule, assessment, detectionVars>>

RejectSuggestion(h) ==
  /\ Doing(h, "reject")
  /\ SetStatus(work[h].id, "REJECTED")
  /\ End(h)
  /\ UNCHANGED <<event, rule, assessment, archived>>

RequestMoreEvidence(s) ==
  /\ suggestion[s].status # "ABSENT"
  /\ SetStatus(s, "NEEDS_MORE_EVIDENCE")
  /\ AtOnce
  /\ UNCHANGED <<event, rule, assessment, archived>>

(* Mutant: the suggestion's status is taken over in place of its date. *)
AcceptReadStatus(h, s, takeDate) ==
  /\ ~archived
  /\ suggestion[s].status \in OpenStatuses
  /\ takeDate => suggestion[s].date # "APPROXIMATE_DATE"
  /\ Begin(h, Work("accept", None, s, 0, IF takeDate THEN suggestion[s].status ELSE "NONE"))
  /\ UNCHANGED <<event, rule, assessment, detectionVars>>

(* An accepted suggestion is returned as it is; an imprecise date among the   *)
(* ones to take over refuses the acceptance.                                  *)
AcceptRead(h, s, takeDate) ==
  /\ ~archived
  /\ suggestion[s].status \in OpenStatuses
  /\ takeDate => suggestion[s].date # "APPROXIMATE_DATE"
  /\ Begin(h, Work("accept", None, s, 0, IF takeDate THEN suggestion[s].date ELSE "NONE"))
  /\ UNCHANGED <<event, rule, assessment, detectionVars>>

AcceptSuggestion(h, e) ==
  LET s == work[h].id IN
  /\ Doing(h, "accept")
  /\ NextId(e, event, Absent)
  /\ event' = [event EXCEPT ![e] = Event("UNCONFIRMED", work[h].text, s)]
  /\ suggestion' = [suggestion EXCEPT ![s].status = "ACCEPTED", ![s].accepted = e]
  /\ End(h)
  /\ UNCHANGED <<rule, assessment, archived>>

ArchiveProject ==
  /\ ~archived
  /\ archived' = TRUE
  /\ AtOnce
  /\ UNCHANGED <<event, rule, assessment, suggestion>>

DetectionNext ==
  \/ \E s \in SuggestionIds :
       \/ \E segment \in Segments, date \in DatePrecisions : StartDetectionRun(s, segment, date)
       \/ \E h \in Handlers : RejectRead(h, s)
       \/ RequestMoreEvidence(s)
       \/ \E h \in Handlers, takeDate \in BOOLEAN : AcceptRead(h, s, takeDate)
  \/ \E h \in Handlers : RejectSuggestion(h)
  \/ \E h \in Handlers, e \in EventIds : AcceptSuggestion(h, e)
  \/ ArchiveProject

DetectionTypeOK ==
  /\ suggestion \in [SuggestionIds ->
       [status : SuggestionStatuses, segment : Segments \cup {None},
        date : DatePrecisions, accepted : EventIds \cup {0}]]
  /\ archived \in BOOLEAN
=============================================================================
