---------------------------- MODULE NoticeDrafting ----------------------------
(* The pure part of packages/notice-drafting: a notice assembled from         *)
(* approved facts, the completeness of its evidence, the validation of a      *)
(* draft and of AI sections, and the export.                                  *)
(*                                                                            *)
(* A fact is its type, whether it is blank, whether its text is marked        *)
(* internal, and its review state. Wording, language and headings are left    *)
(* out: a section is its type, its sources and its warnings.                  *)
EXTENDS Integers, Sequences, SequencesExt, Lists

CONSTANT NoFact

VerifiedStatuses == {"EVIDENCE_BACKED", "HUMAN_CONFIRMED"}
(* Mutant: a verified fact need not be approved for drafting. *)
ApprovedFactsVerified(facts) ==
  Picked(facts, {f \in DOMAIN facts : facts[f].verificationStatus \in VerifiedStatuses})

ApprovedFacts(facts) ==
  Picked(facts, {f \in DOMAIN facts :
                   /\ facts[f].approvedForDrafting
                   /\ facts[f].verificationStatus \in VerifiedStatuses})
FactValue(facts, type) ==
  LET those == Picked(facts, {f \in DOMAIN facts : facts[f].type = type})
  IN IF those = <<>> THEN NoFact ELSE those[1]

FactIds(fact) == IF fact = NoFact THEN {} ELSE {fact.id}

Section(type, sources, warnings) ==
  [type |-> type, factIds |-> UNION {FactIds(f) : f \in sources}, warnings |-> warnings,
   blank |-> FALSE, internalText |-> \E f \in sources \ {NoFact} : f.internal,
   internalOnly |-> FALSE]
(* A section whose whole body is one fact is blank when the fact is.          *)
Quoting(type, fact, otherwise) ==
  [Section(type, {fact}, IF fact = NoFact THEN otherwise ELSE {})
     EXCEPT !.blank = fact # NoFact /\ fact.blank]
Warn(condition, warning) == IF condition THEN {warning} ELSE {}

AssembledSections(in) ==
  LET facts == ApprovedFacts(in.facts)
      the(type) == FactValue(facts, type)
      plain(type) == Section(type, {}, {})
  IN <<Section("SENDER", {the("PARTY_NAME")},
               Warn(the("PARTY_NAME") = NoFact, "MISSING_SENDER_FACT")),
       Section("RECIPIENT", {}, Warn(in.unverifiedRecipient, "UNVERIFIED_RECIPIENT")),
       Section("PROJECT_CONTRACT_REFERENCE", {the("CONTRACT_REFERENCE")}, {}),
       Section("NOTICE_TITLE", {the("NOTICE_REFERENCE")}, {}),
       plain("CONTRACTUAL_BASIS"),
       Quoting("FACTUAL_BACKGROUND", the("DESCRIPTION_OF_EVENT"),
               {"EVENT_DESCRIPTION_FROM_TITLE_ONLY"}),
       Quoting("EVENT_DESCRIPTION", the("DESCRIPTION_OF_EVENT"), {}),
       Section("TRIGGER_DATE", {the("EVENT_DATE"), the("AWARENESS_DATE")},
               Warn(the("EVENT_DATE") = NoFact, "MISSING_EVENT_DATE_FACT")),
       Section("DEADLINE_STATEMENT", {}, Warn(~in.deadline, "MISSING_VERIFIED_DEADLINE"))>>
     \o (IF the("DESCRIPTION_OF_EFFECT") = NoFact THEN <<>>
         ELSE <<Quoting("IMPACT_STATEMENT", the("DESCRIPTION_OF_EFFECT"), {})>>)
     \o <<plain("RESERVATION_OF_RIGHTS"),
          Quoting("REQUESTED_ACTION", the("REQUESTED_ACTION"), {}),
          plain("RECORDS_EVIDENCE")>>
     \o (IF in.continuing THEN <<plain("CONTINUING_EVENT")>> ELSE <<>>)
     \o <<plain("ATTACHMENTS"),
          Section("CLOSING", {}, {"SIGNATURE_PLACEHOLDER"}),
          [plain("FACTUAL_BACKGROUND") EXCEPT !.internalOnly = TRUE, !.internalText = TRUE]>>

(* Sections are numbered as they are pushed; a blank one leaves a gap.        *)
AssembleDeterministicDraft(in) ==
  LET all == AssembledSections(in)
  IN Picked([n \in DOMAIN all |-> [section |-> all[n], sequence |-> n]],
            {n \in DOMAIN all : ~all[n].blank})

RenderPlainText(sections, includeInternal) ==
  Picked(sections, {s \in DOMAIN sections :
                      includeInternal \/ ~sections[s].section.internalOnly})

(* The export drops internal sections and refuses a text still marked.        *)
ExportApprovedNotice(sections) ==
  LET text == RenderPlainText(sections, FALSE)
  IN IF \E n \in DOMAIN text : text[n].section.internalText
     THEN [ok |-> FALSE, text |-> <<>>] ELSE [ok |-> TRUE, text |-> text]

------------------------------------------------------------------------------
(* Evidence requirements.                                                     *)
Mandatory(req) == req.mandatoryStatus \in {"CONTRACTUALLY_REQUIRED", "INTERNALLY_REQUIRED"}
BlocksCompleteness(req) ==
  \/ req.satisfactionStatus = "WAIVED_BY_REVIEWER" /\ ~req.reasoned
  \/ Mandatory(req) /\ req.satisfactionStatus \in {"DISPUTED", "MISSING", "PARTIAL"}
WarnsCompleteness(req) ==
  \/ req.satisfactionStatus = "WAIVED_BY_REVIEWER" /\ req.reasoned /\ Mandatory(req)
  \/ req.mandatoryStatus = "RECOMMENDED" /\ req.satisfactionStatus = "MISSING"
AssessEvidenceCompleteness(requirements, assessed) ==
  CASE ~assessed /\ requirements = <<>> -> "NOT_ASSESSED"
    [] (assessed \/ requirements # <<>>)
         /\ (\E r \in DOMAIN requirements : BlocksCompleteness(requirements[r])) -> "BLOCKED"
    [] OTHER -> IF \E r \in DOMAIN requirements : WarnsCompleteness(requirements[r])
                THEN "CONDITIONALLY_READY" ELSE "READY"

------------------------------------------------------------------------------
(* Validation of a draft: the codes that block it.                            *)
RecipientIssues(r) ==
  Warn(r.verificationStatus # "VERIFIED", "UNVERIFIED_RECIPIENT")
  \cup Warn(~r.hasContact, "MISSING_CONTACT_POINT")
RequiredRecipients(in) == {r \in in.recipients : ~r.copiedRecipient}
RequiredRecipientIssues(in) == UNION {RecipientIssues(r) : r \in RequiredRecipients(in)}
ValidateNoticeDraft(in) ==
  in.mismatches
  \cup Warn(in.supersededCalculation, "STALE_CALCULATION")
  \cup Warn(in.calculationStatus # "VERIFIED", "CALCULATION_NOT_VERIFIED")
  \cup Warn(~in.hasVerifiedTriggerDate, "MISSING_TRIGGER_DATE")
  \cup Warn(~in.hasVerifiedDeadline, "MISSING_VERIFIED_DEADLINE")
  \cup Warn(~in.clauseReferencePresent, "MISSING_CLAUSE_REFERENCE")
  \cup Warn(RequiredRecipients(in) = {}, "MISSING_RECIPIENT")
  \cup RequiredRecipientIssues(in)
  \cup Warn(in.openBlockingQuestions > 0, "OPEN_QUESTIONS")
  \cup Warn(in.completenessStatus \in {"INCOMPLETE", "BLOCKED"} /\ in.exceptions <= 0,
            "EVIDENCE_INCOMPLETE")
  \cup Warn(in.completenessStatus = "NOT_ASSESSED", "EVIDENCE_NOT_ASSESSED")
  \cup Warn(in.unapprovedFactsInDraft > 0, "UNAPPROVED_FACTS")
  \cup Warn(in.internalContent, "INTERNAL_CONTENT_IN_EXPORT")
  \cup Warn(in.staleEvidenceAssessment, "STALE_EVIDENCE_ASSESSMENT")
  \cup Warn(in.reservationRequired /\ ~in.reservationPresent, "MISSING_RESERVATION")
  \cup in.nonWaivableBlockers

------------------------------------------------------------------------------
(* AI sections: only known sources, no forbidden text, no invented date. A    *)
(* date is checked against the known ones only when both the event date and   *)
(* the deadline are approved, and only when it is neither.                    *)
InventedDates(section, in) ==
  IF in.eventDate = NoFact \/ in.deadlineDate = NoFact THEN {}
  ELSE section.dates \ (in.approvedDates \cup {in.deadlineDate, in.eventDate})
DeadlineMismatches(section, in) ==
  IF section.type # "DEADLINE_STATEMENT" \/ in.deadlineDate = NoFact THEN {}
  ELSE section.dates \ {in.deadlineDate}
AiSectionErrors(section, in) ==
  Warn(section.long, "SECTION_TOO_LONG")
  \cup Warn(~(section.sources \subseteq in.allowedSources), "UNKNOWN_SOURCE")
  \cup Warn(section.flagged, "UNSUPPORTED_CONTENT")
  \cup section.forbidden
  \cup Warn(InventedDates(section, in) # {}, "INVENTED_DATE")
  \cup Warn(DeadlineMismatches(section, in) # {}, "DEADLINE_MISMATCH")
ValidateAiDraftOutput(sections, in) == UNION {AiSectionErrors(s, in) : s \in sections}

------------------------------------------------------------------------------
(* The PDF shows the first 40 lines of title, blank line and body, 90         *)
(* characters of each, and a '?' for every character that is not printable    *)
(* ASCII.  A line is its length and the places of such characters.            *)
PdfLines == 40
PdfWidth == 90
BlankLine == [length |-> 0, foreign |-> {}]
PageText(lines) == <<lines[1], BlankLine>> \o Tail(lines)
Shown(line) == [length   |-> Min({PdfWidth, line.length}),
                replaced |-> {c \in line.foreign : c <= PdfWidth}]
BuildSimplePdf(lines) ==
  LET text == PageText(lines)
  IN [n \in 1 .. Min({PdfLines, Len(text)}) |-> Shown(text[n])]

(* The archive of the bundle is a store-only ZIP whose directory points to    *)
(* each local header by its offset.                                           *)

LocalHeader(entry)   == 30 + entry.name
CentralHeader(entry) == 46 + entry.name
ZipStore(entries) ==
  LET offset[n \in 1 .. Len(entries) + 1] ==
        IF n = 1 THEN 0
        ELSE offset[n - 1] + LocalHeader(entries[n - 1]) + entries[n - 1].data
  IN [offsets |-> [n \in DOMAIN entries |-> offset[n]],
      directory |-> offset[Len(entries) + 1],
      directorySize |-> FoldLeft(LAMBDA size, e : size + CentralHeader(e), 0, entries)]
(* One unsafe name refuses the whole archive.                                 *)
BuildAttachmentZip(files) ==
  IF \E n \in DOMAIN files : files[n].unsafe THEN "PATH_TRAVERSAL_REJECTED" ELSE "BUILT"
==============================================================================
