---------------------------- MODULE EventDetectors ----------------------------
(* The deterministic phrase detectors of packages/event-detection and the     *)
(* allowlist check of AI suggestions.                                         *)
(*                                                                            *)
(* A segment is what the regular expressions find in its text: the patterns   *)
(* that match, relative and explicit dates, and whether its source carries a  *)
(* reliable timestamp. English and Arabic patterns that differ in nothing     *)
(* else are one pattern.                                                      *)
EXTENDS Integers, Sequences, SequencesExt, Lists

CONSTANT NoDate  \* a date candidate without a value

Pattern(category, subcategory, signal, polarity) ==
  [category |-> category, subcategory |-> subcategory, signal |-> signal, polarity |-> polarity]

Late    == "LATE_DRAWING_OR_APPROVAL"
Access  == "SUSPENSION_OR_RESTRICTED_ACCESS"
Scope   == "SCOPE_CHANGE_OR_ADDITIONAL_WORK"
Payment == "DELAYED_PAYMENT"
Site    == "UNFORESEEN_SITE_CONDITION"
Categories == {Late, Access, Scope, Payment, Site}

LatePatterns ==
  <<Pattern(Late, "APPROVAL_OVERDUE", "awaiting_approval_or_drawing", "POSITIVE"),
    Pattern(Late, "CONSULTANT_DELAY", "overdue_drawing_or_approval", "POSITIVE"),
    Pattern(Late, "DUE_DATE_MISSED", "explicit_due_date", "POSITIVE"),
    Pattern(Late, "none", "issued_on_time", "NEGATION")>>
AccessPatterns ==
  <<Pattern(Access, "SUSPENSION", "stop_work_or_suspension", "POSITIVE"),
    Pattern(Access, "RESTRICTED_ACCESS", "restricted_access", "POSITIVE"),
    Pattern(Access, "SAFETY_STOPPAGE", "safety_stoppage", "CONTRACTOR_CAUSED"),
    Pattern(Access, "INTERNAL", "internal_contractor_stop", "CONTRACTOR_CAUSED")>>
ScopePatterns ==
  <<Pattern(Scope, "ADDITIONAL_WORK", "additional_or_variation_work", "POSITIVE"),
    Pattern(Scope, "CLARIFICATION", "clarification_not_variation", "NEGATION"),
    Pattern(Scope, "CONTRACTOR_ERROR", "contractor_error_correction", "CONTRACTOR_CAUSED")>>
PaymentPatterns ==
  <<Pattern(Payment, "OVERDUE_CERTIFIED", "unpaid_or_overdue", "POSITIVE"),
    Pattern(Payment, "DUE_DATE", "payment_due_date", "POSITIVE"),
    Pattern(Payment, "none", "payment_not_yet_due", "NEGATION")>>
SitePatterns ==
  <<Pattern(Site, "HIDDEN_CONDITION", "unexpected_physical_condition", "POSITIVE"),
    Pattern(Site, "none", "condition_already_disclosed", "DISCLOSED"),
    Pattern(Site, "WEATHER", "weather_not_site_condition", "NEGATION")>>
PhrasePatterns ==
  LatePatterns \o AccessPatterns \o ScopePatterns \o PaymentPatterns \o SitePatterns

(* A segment's hits, in the order of the table.                               *)
Hits(segment, category) ==
  Picked(PhrasePatterns, {h \in DOMAIN PhrasePatterns :
                            /\ PhrasePatterns[h].category = category
                            /\ PhrasePatterns[h].signal \in segment.signals})
WithPolarity(hits, polarity) ==
  Picked(hits, {h \in DOMAIN hits : hits[h].polarity = polarity})

(* Positive language, and none that denies or already discloses it.  Language *)
(* that names the contractor as the cause does not skip the suggestion.       *)
Suggested(segment, category) ==
  LET hits == Hits(segment, category)
  IN /\ WithPolarity(hits, "POSITIVE") # <<>>
     /\ WithPolarity(hits, "NEGATION") = <<>> /\ WithPolarity(hits, "DISCLOSED") = <<>>

DateCandidate(dateType, value, precision) ==
  [dateType |-> dateType, value |-> value, precision |-> precision]

(* A relative date is resolved from the source's timestamp or not at all.     *)
ResolveRelativeDate(segment, kind) ==
  IF segment.stamp = NoDate THEN NoDate
  ELSE IF kind = "yesterday" THEN segment.stamp - 1 ELSE segment.stamp
RelativeDates(segment, category) ==
  LET kind  == IF segment.yesterday THEN "yesterday" ELSE "today"
      value == ResolveRelativeDate(segment, kind)
  IN CASE ~segment.yesterday /\ ~segment.today -> <<>>
       [] segment.yesterday /\ value = NoDate ->
            <<DateCandidate("OCCURRENCE_DATE", NoDate, "UNKNOWN")>>
       [] ~segment.yesterday /\ segment.today /\ value = NoDate -> <<>>
       [] OTHER ->
            <<DateCandidate(IF segment.yesterday /\ category = Access
                            THEN "ACCESS_DENIAL_DATE" ELSE "OCCURRENCE_DATE",
                            value, "EXACT_DATE")>>
ExplicitDates(segment, category) ==
  IF ~segment.explicit THEN <<>>
  ELSE <<DateCandidate(IF category = Payment THEN "PAYMENT_DUE_DATE" ELSE "OCCURRENCE_DATE",
                       NoDate, "EXACT_DATE")>>

HasDueBasis(segment, category, signals) ==
  CASE category = Late    -> "explicit_due_date" \in signals
    [] category = Payment -> "payment_due_date" \in signals \/ segment.explicit
    [] OTHER              -> TRUE

MissingEvidence(segment, category, signals) ==
  CASE category = Late -> {"NO_AFFECTED_ACTIVITY"} \cup
         (IF HasDueBasis(segment, category, signals) THEN {} ELSE {"NO_DUE_DATE"})
    [] category = Access  -> {"NO_IDLE_RESOURCE_RECORD"}
    [] category = Scope   -> {"NO_WRITTEN_INSTRUCTION"}
    [] category = Payment ->
         IF HasDueBasis(segment, category, signals) THEN {} ELSE {"NO_PAYMENT_DUE_DATE"}
    [] category = Site    -> {"NO_TENDER_COMPARISON"}

(* Mutant: the missing due basis no longer lowers the band. *)
ConfidenceBandKept(segment, category, signals) ==
  IF segment.explicit \/ (segment.yesterday /\ segment.stamp # NoDate) THEN "MEDIUM" ELSE "LOW"

(* A resolved yesterday or an explicit date raises the band, whatever set it  *)
(* low before; a missing due basis lowers it again, last.                     *)
ConfidenceBand(segment, category, signals) ==
  IF /\ \/ segment.yesterday /\ segment.stamp # NoDate
        \/ segment.explicit
     /\ HasDueBasis(segment, category, signals)
  THEN "MEDIUM" ELSE "LOW"

Finding(segment, category) ==
  LET hits    == Hits(segment, category)
      signals == {hits[i].signal : i \in DOMAIN hits}
  IN [category       |-> category,
      subcategory    |-> WithPolarity(hits, "POSITIVE")[1].subcategory,
      evidence       |-> {segment.id},
      signals        |-> signals,
      contradicted   |-> WithPolarity(hits, "CONTRACTOR_CAUSED") # <<>>,
      dateCandidates |-> RelativeDates(segment, category) \o ExplicitDates(segment, category),
      missing        |-> MissingEvidence(segment, category, signals),
      band           |-> ConfidenceBand(segment, category, signals)]

(* One finding per segment and category, segments in order, categories in the *)
(* order of the table.                                                        *)
CategoryOrder == <<Late, Access, Scope, Payment, Site>>
DetectIn(segment) ==
  LET found == Picked(CategoryOrder, {c \in DOMAIN CategoryOrder :
                                        Suggested(segment, CategoryOrder[c])})
  IN [i \in DOMAIN found |-> Finding(segment, found[i])]
RunAllDetectors(segments) == FlattenSeq([i \in DOMAIN segments |-> DetectIn(segments[i])])

(* The score of two findings, in fifths.                                      *)
FirstDate(finding) ==
  LET dates == finding.dateCandidates
      dated == Picked(dates, {d \in DOMAIN dates : dates[d].value # NoDate})
  IN IF dated = <<>> THEN NoDate ELSE dated[1].value
ScoreDuplicateCandidates(a, b) ==
  (IF a.category = b.category THEN 2 ELSE 0)
  + (IF a.evidence \cap b.evidence # {} THEN 2 ELSE 0)
  + (IF FirstDate(a) # NoDate /\ FirstDate(a) = FirstDate(b) THEN 1 ELSE 0)

ProjectEventCategory(category, subcategory) ==
  CASE category = Access ->
         IF subcategory = "RESTRICTED_ACCESS" THEN "RESTRICTED_ACCESS" ELSE "SUSPENSION"
    [] category = Scope ->
         IF subcategory = "ADDITIONAL_WORK" THEN "ADDITIONAL_WORK" ELSE "SCOPE_CHANGE"
    [] OTHER -> category

(* How the benchmark scores one case; a case may expect no category.          *)
BenchmarkVerdict(expected, expectNoPositive, findings) ==
  LET matching == Picked(findings, {f \in DOMAIN findings :
                                      expected \in {"none", findings[f].category}})
  IN CASE expectNoPositive -> IF matching = <<>> THEN "suppressed" ELSE "false_positive"
       [] ~expectNoPositive /\ expected = "none" -> "none_expected"
       [] OTHER -> IF matching = <<>> THEN "false_negative" ELSE "true_positive"

(* An AI suggestion may name only segments and rules it was given; its quotes *)
(* and its rationale are scanned for instructions and legal conclusions.      *)
AllowlistIssues(suggestion, segments, rules) ==
  (IF suggestion.segmentIds \subseteq segments THEN {} ELSE {"UNKNOWN_EVIDENCE_ID"})
  \cup (IF {r.segmentId : r \in suggestion.roles} \subseteq segments THEN {}
        ELSE {"UNKNOWN_EVIDENCE_ID"})
  \cup (IF \E r \in suggestion.roles : r.instructs THEN {"PROMPT_INJECTION_CONTENT"} ELSE {})
  \cup (IF suggestion.ruleIds \subseteq rules THEN {} ELSE {"UNKNOWN_RULE_SNAPSHOT_ID"})
  \cup (IF suggestion.concludes THEN {"FORBIDDEN_LEGAL_CONCLUSION"} ELSE {})
==============================================================================
