------------------------------ MODULE Algorithms ------------------------------
(* The pure packages, asked one question at a time: a behaviour picks the     *)
(* subject and the input, and one step gives the package's answer. The        *)
(* properties compare every answer with what the rule means, stated without   *)
(* the code's loops, orders and early returns.                                *)
EXTENDS Integers, Sequences, FiniteSets

CONSTANTS None,          \* an absent value
          MonthLengths, FirstWeekday, MaxWalk, MaxShift,
          DeadlineInputs, ScopeInputs, PagingInputs, WebhookInputs, AlertInputs, LadderInputs,
          DetectionInputs, SuggestionInputs, DraftInputs, SectionInputs, EvidenceInputs,
          ArchiveInputs, RetryInputs, ReceiptInputs, RiskInputs, ConfigInputs,
          DeploymentInputs, ReadinessInputs, PipelineInputs, ManifestInputs, EnvironmentInputs,
          LimitInputs, DraftChecks, DispatchChecks, PageInputs

(* What the packages' types say of their inputs: an absent value is no number *)
(* and no name, lists are lists, times and counts are numbers.                *)
IsList(s) == s \in Seq({s[n] : n \in DOMAIN s})
IsPattern(p) == IsList(p.parts) /\ \A n \in DOMAIN p.parts : IsList(p.parts[n])
ASSUME NoneAssumption ==
  None \notin Int /\ None \notin {"pilot", "production", "prod", "staging", "stage"}
ASSUME InputsAssumption ==
  /\ \A i \in ScopeInputs :
       /\ \A p \in i.rules.include \cup i.rules.exclude \cup i.rules.projects : IsPattern(p)
       /\ IsList(i.record.text)
       /\ \A ref \in i.record.references \cup i.record.extracted : IsList(ref)
  /\ \A i \in PagingInputs : /\ IsList(i.fixtures)
                             /\ i.checkpoint \in 0..Len(i.fixtures) \cup {None}
  /\ \A i \in ConfigInputs : i.config.authSecret \in {"weak", "placeholder", "strong"}
  /\ \A i \in DeploymentInputs :
       /\ i.now \in Int /\ i.approval.expiresAt \in Int
       /\ i.approval.windowStart \in Int \cup {None} /\ i.approval.windowEnd \in Int \cup {None}
  /\ \A i \in ReadinessInputs : /\ i.today \in Int
                                /\ \A ex \in i.exceptions : ex.expiresAt \in Int
  /\ \A i \in LimitInputs : /\ i.used \in Nat /\ i.limit \in Nat
                            /\ \A s \in i.switches : s.scope \in {"global", "tenant"}
  /\ \A i \in PipelineInputs : /\ IsList(i.alerts) /\ i.window \in Nat \ {0}
                               /\ \A n \in DOMAIN i.alerts : i.alerts[n].now \in Int
ASSUME AlertAssumption ==
  /\ \A i \in AlertInputs :
       /\ IsList(i.deadlines) /\ IsList(i.notices) /\ IsList(i.syncFailures) /\ i.now \in Int
       /\ \A n \in DOMAIN i.deadlines :
            /\ i.deadlines[n].status \in {"OPEN", "CONFIRMED", "MISSED", "CLOSED"}
            /\ i.deadlines[n].dueAt \in Int
       /\ \A m, n \in DOMAIN i.deadlines : i.deadlines[m].id = i.deadlines[n].id => m = n
  /\ \A i \in LadderInputs : i.ladder \in Seq(Int) /\ i.elapsed \in Int
ASSUME DetectionAssumption ==
  \A i \in DetectionInputs :
    /\ IsList(i)
    /\ \A s \in DOMAIN i : i[s].yesterday \in BOOLEAN /\ i[s].stamp \in Int \cup {None}

Engine    == INSTANCE DeadlineEngine WITH NoValue <- None
Connect   == INSTANCE ConnectorRules WITH Missing <- None
Alerts    == INSTANCE AlertRules WITH Never <- None
Detectors == INSTANCE EventDetectors WITH NoDate <- None
Drafting  == INSTANCE NoticeDrafting WITH NoFact <- None
Delivery  == INSTANCE DeliveryRules WITH Unknown <- None
Checks    == INSTANCE PlatformChecks WITH Unset <- None

ASSUME NoticeAssumption ==
  /\ \A i \in DraftInputs : IsList(i.facts)
  /\ \A i \in EvidenceInputs : IsList(i)
  /\ \A i \in DraftChecks :
       /\ i.completenessStatus \in {"NOT_ASSESSED", "INCOMPLETE", "BLOCKED",
                                   "CONDITIONALLY_READY", "READY"}
       /\ i.exceptions \in Nat
  /\ \A i \in PageInputs :
       /\ IsList(i) /\ i # <<>>
       /\ \A n \in DOMAIN i : i[n].length \in Nat /\ i[n].foreign \subseteq 1..i[n].length
  /\ \A i \in ArchiveInputs :
       IsList(i) /\ \A n \in DOMAIN i : i[n].name \in Nat /\ i[n].data \in Nat
  /\ \A i \in DispatchChecks :
       IsList(i.recipients) /\ IsList(i.attachments) /\ IsList(i.expected)
  /\ \A i \in RetryInputs : i.mode \in Delivery!ProviderModes /\ IsList(i.recipients)
  /\ \A i \in ReceiptInputs : i.sentAt \in Int \cup {None}

VARIABLES subject,  \* which package is asked
          input,    \* about what
          answer    \* what it says, None while it has not

vars == <<subject, input, answer>>

Ask(s, inputs) == subject = s /\ input \in inputs
Init ==
  /\ answer = None
  /\ \/ Ask("deadline", DeadlineInputs)     \/ Ask("scope", ScopeInputs)
     \/ Ask("paging", PagingInputs)         \/ Ask("webhook", WebhookInputs)
     \/ Ask("alerts", AlertInputs)          \/ Ask("escalation", LadderInputs)
     \/ Ask("detection", DetectionInputs)   \/ Ask("draft", DraftInputs)
     \/ Ask("suggestion", SuggestionInputs) \/ Ask("sections", SectionInputs)
     \/ Ask("evidence", EvidenceInputs)     \/ Ask("archive", ArchiveInputs)
     \/ Ask("risk", RiskInputs)             \/ Ask("readiness", ReadinessInputs)
     \/ Ask("retry", RetryInputs)           \/ Ask("receipt", ReceiptInputs)
     \/ Ask("config", ConfigInputs)         \/ Ask("deployment", DeploymentInputs)
     \/ Ask("pipeline", PipelineInputs)     \/ Ask("manifest", ManifestInputs)
     \/ Ask("environment", EnvironmentInputs) \/ Ask("limit", LimitInputs)
     \/ Ask("validation", DraftChecks)      \/ Ask("dispatch", DispatchChecks)
     \/ Ask("page", PageInputs)

Answer(s, value) ==
  /\ subject = s /\ answer = None
  /\ answer' = value
  /\ UNCHANGED <<subject, input>>

CalculateDeadline ==
  Answer("deadline",
         Engine!CalculateDeadline(input.rule, input.calendar, input.trigger, input.offsets))
MatchScope == Answer("scope", Connect!RecordMatchesScope(input.rules, input.record))
ListPages ==
  Answer("paging", Connect!ListedByRun(input.kind, input.fixtures, input.checkpoint))
ValidateWebhook ==
  Answer("webhook", Connect!ValidateWebhook(input.signed, input.parses, input.eventId, input.seen))
EvaluateAlerts ==
  Answer("alerts", [candidates |-> Alerts!EvaluateOperationalAlerts(input),
                    counts     |-> Alerts!ComputeDashboardCounts(input)])
Escalate == Answer("escalation", Alerts!NextEscalationStep(input.ladder, input.elapsed))
Detect == Answer("detection", Detectors!RunAllDetectors(input))
CheckSuggestion ==
  Answer("suggestion",
         Detectors!AllowlistIssues(input.suggestion, input.segments, input.rules))
Draft ==
  Answer("draft", [draft  |-> Drafting!AssembleDeterministicDraft(input),
                   export |-> Drafting!ExportApprovedNotice(
                                Drafting!AssembleDeterministicDraft(input))])
ValidateDraft == Answer("validation", Drafting!ValidateNoticeDraft(input))
BuildPage == Answer("page", Drafting!BuildSimplePdf(input))
AssessEvidence == Answer("evidence", Drafting!AssessEvidenceCompleteness(input, TRUE))
BuildArchive == Answer("archive", Drafting!ZipStore(input))
ValidateAiSections ==
  Answer("sections", Drafting!ValidateAiDraftOutput(input.sections, input.known))

(* A send hands the provider's answer to the classification: a partial answer *)
(* counts as accepted, and the first failing recipient gives the reason.      *)
FailureCode(sent) ==
  LET some(status) == \E n \in DOMAIN sent.statuses : sent.statuses[n] = status
  IN CASE some("REJECTED") -> "PROVIDER_REJECTION"
       [] some("FAILED") /\ sent.outcome = "CONNECTION_FAILURE" -> "CONNECTION_FAILURE"
       [] some("FAILED") /\ sent.outcome = "PARTIAL" -> "RECIPIENT_REJECTED"
       [] OTHER -> "none"
SendAndClassify ==
  LET sent == Delivery!SendMessage(input.mode, input.recipients)
  IN Answer("retry",
       [sent  |-> sent,
        retry |-> Delivery!ClassifyRetry(
          [authorizationValid |-> TRUE, artifactPresent |-> TRUE, checksumMismatch |-> FALSE,
           providerAccepted |-> sent.outcome \in {"ACCEPTED", "PARTIAL"},
           messageId |-> sent.messageId, failureCode |-> FailureCode(sent),
           timedOutAfterSubmit |-> sent.outcome = "TIMEOUT_AFTER_POSSIBLE_SUBMIT"])])
AssessReceipt ==
  Answer("receipt", Delivery!AssessDeemedReceipt(input.rule, input.sentAt, input.deliveredAt,
                                                 input.postalDays, input.worked))
CheckDispatch ==
  Answer("dispatch",
         [cover       |-> Delivery!ValidateCoverMessage(input.cover),
          recipients  |-> Delivery!ValidateRecipientsForDispatch(input.recipients),
          attachments |-> Delivery!ValidateAttachmentChecksums(input.attachments,
                                                               input.expected)])
AssessRisk == Answer("risk", Delivery!ComputeDeliveryRisk(input))
ValidateConfig == Answer("config", Checks!ValidateProductionConfig(input.raw, input.config))
AllowDeployment ==
  Answer("deployment",
         [valid  |-> Checks!ValidateDeploymentApproval(input.approval, input.now) = {},
          deploy |-> Checks!IsDeployAllowed(input.approval, input.expected, input.now)])
AssessReadiness ==
  Answer("readiness",
         [burndown  |-> Checks!EvaluatePilotBurndown(input.exceptions, input.today,
                                                     input.synthetic),
          readiness |-> Checks!EvaluatePilotReadiness(input.items)])
CheckManifest == Answer("manifest", Checks!CreateReleaseManifestDraft(input))
ResolveEnvironment ==
  LET env == Checks!ResolveAppEnvironment(input.contractradarEnv, input.appEnv, input.nodeEnv,
                                          input.ci)
  IN Answer("environment",
            [env |-> env, fakes |-> Checks!Policy(env).allowFakeProviders,
             created |-> {Connect!CreateConnectorProvider(input.kind, input.appEnv),
                          Delivery!CreateNoticeDeliveryProvider(input.kind, input.appEnv)}])
CheckLimits ==
  Answer("limit",
         [limit  |-> Checks!EvaluateTenantLimit(input.used, input.limit, input.warningPercent),
          killed |-> Checks!IsKillSwitchActive(input.switches, "email", input.tenant)])
SendAlerts == Answer("pipeline", Checks!Pipeline(input.alerts, input.window).routed)

Next ==
  \/ CalculateDeadline \/ MatchScope \/ ListPages \/ ValidateWebhook \/ EvaluateAlerts
  \/ Escalate \/ Detect \/ CheckSuggestion \/ Draft \/ ValidateAiSections \/ AssessEvidence
  \/ BuildArchive \/ SendAndClassify \/ AssessReceipt \/ AssessRisk \/ ValidateConfig
  \/ AllowDeployment \/ AssessReadiness \/ SendAlerts \/ CheckManifest \/ ResolveEnvironment
  \/ CheckLimits \/ ValidateDraft \/ CheckDispatch \/ BuildPage

Spec == Init /\ [][Next]_vars

------------------------------------------------------------------------------
Answered(s) == subject = s /\ answer # None

(* Days counted from the trigger, the trigger day as day one when the         *)
(* contract includes it, by either of its two conventions.                    *)
CountsTriggerDay(rule) ==
  /\ rule.durationValue >= 1
  /\ rule.counting = "INCLUSIVE" \/ rule.startDateConvention = "INCLUDE_TRIGGER_DAY"
DaysAfterTrigger(rule) == rule.durationValue - Cardinality({x \in {1} : CountsTriggerDay(rule)})
HasWorkedWeekday(calendar) == 1..7 \ calendar.weekendDays # {}

FallsOnCountedDay(rule, calendar, trigger, day) ==
  CASE rule.durationUnit = "BUSINESS_DAY" ->
         HasWorkedWeekday(calendar) =>
           Engine!IsNthBusinessDay(day, DaysAfterTrigger(rule), trigger, calendar)
    [] rule.durationUnit = "CALENDAR_DAY" ->
         HasWorkedWeekday(calendar) =>
           Engine!IsNearestWorkingDay(day, trigger + DaysAfterTrigger(rule), calendar,
                                      rule.nonWorkingAdjustment)
    [] rule.durationUnit = "WEEK" ->
         rule.nonWorkingAdjustment = "NONE" => Engine!Weekday(day) = Engine!Weekday(trigger)
    [] rule.durationUnit = "MONTH" ->
         rule.nonWorkingAdjustment = "NONE" =>
           \/ Engine!LastDayOfMonth(day)
           \/ day - Engine!FirstDays[Engine!MonthOf(day)]
                = trigger - Engine!FirstDays[Engine!MonthOf(trigger)]

(* The questions are of their types, the months asked about are in the        *)
(* model's calendar, and the loops' guards are long enough for the calendars: *)
(* where a weekday is worked, a loop meets the working day it looks for.      *)
MonthIsKnown(day, later) ==
  \E m \in DOMAIN MonthLengths :
    /\ Engine!FirstDays[m] <= day /\ day < Engine!FirstDays[m] + MonthLengths[m]
    /\ m + later <= Len(MonthLengths)
ASSUME DeadlineAssumption ==
  /\ FirstWeekday \in Int /\ MaxWalk \in Nat /\ MaxShift \in Nat
  /\ IsList(MonthLengths) /\ \A m \in DOMAIN MonthLengths : MonthLengths[m] \in Nat \ {0}
  /\ \A i \in DeadlineInputs :
       /\ i.trigger \in [valid : BOOLEAN, at : Int]
       /\ i.rule.durationUnit \in Engine!Units /\ i.rule.durationValue \in Int \cup {None}
       /\ i.rule.counting \in {"INCLUSIVE", "EXCLUSIVE", "UNSPECIFIED"}
       /\ i.rule.startDateConvention \in {"INCLUDE_TRIGGER_DAY", "EXCLUDE_TRIGGER_DAY"}
       /\ i.rule.endDateConvention \in {"END_OF_DAY", "START_OF_DAY", "EXACT_TIMESTAMP"}
       /\ i.rule.nonWorkingAdjustment \in {"NONE", "FORWARD", "BACKWARD"}
       /\ IsList(i.offsets) /\ \A n \in DOMAIN i.offsets : i.offsets[n] \in Nat
ASSUME CalendarAssumption ==
  \A i \in DeadlineInputs :
    LET day == Engine!DayOf(i.trigger.at)
        due == day + DaysAfterTrigger(i.rule)
    IN i.rule.durationValue \in Nat =>
         /\ i.rule.durationUnit = "MONTH" =>
              MonthIsKnown(day, i.rule.durationValue) /\ MonthIsKnown(day + 1, i.rule.durationValue)
         /\ i.rule.durationUnit = "BUSINESS_DAY" /\ HasWorkedWeekday(i.calendar) =>
              Cardinality(Engine!BusinessDaysIn(day + 1, day + MaxWalk, i.calendar))
                >= DaysAfterTrigger(i.rule)
         /\ i.rule.durationUnit = "CALENDAR_DAY" /\ HasWorkedWeekday(i.calendar) =>
              \/ i.rule.nonWorkingAdjustment = "NONE"
              \/ \E n \in 0..MaxShift :
                   Engine!IsBusinessDay(IF i.rule.nonWorkingAdjustment = "FORWARD" THEN due + n
                                        ELSE due - n, i.calendar)

(* A calculated deadline is the day the contract's conventions count: the     *)
(* n-th business day, the nearest working day in the direction of the         *)
(* adjustment, the same weekday, or the same day of a later month or that     *)
(* month's last. Every warning lies between the trigger and the deadline, a   *)
(* later trigger never gives an earlier deadline, and a rule that is not      *)
(* approved, ambiguous or indefinite never gives one (calculateDeadline).     *)
DeadlinesAreAsCounted ==
  Answered("deadline") /\ answer.status = "CALCULATED" =>
    LET rule  == input.rule
        later == Engine!CalculateDeadline(rule, input.calendar,
                                          [input.trigger EXCEPT !.at = @ + 3], input.offsets)
    IN /\ rule.humanApproved /\ ~rule.ambiguous
       /\ rule.durationUnit \notin {"PROMPT", "REASONABLE_TIME", "CUSTOM"}
       /\ \A w \in answer.warnings : input.trigger.at < w /\ w <= answer.at
       /\ later.status = "CALCULATED" /\ later.at >= answer.at
       /\ IF answer.immediate THEN answer.at = input.trigger.at
          ELSE FallsOnCountedDay(rule, input.calendar, Engine!DayOf(input.trigger.at),
                                 Engine!DayOf(answer.at))

(* A scope lets in exactly the records its globs, dates, references and media *)
(* types mean (scope-rules.ts), the pages of a provider list every record     *)
(* after the checkpoint once and in order, and a webhook event that was       *)
(* accepted is never accepted again (providers.ts).                           *)
MeansAny(patterns, text) == \E p \in patterns : Connect!GlobMeans(p, text)
ScopesAdmitWhatTheyMean ==
  /\ Answered("scope") =>
       LET rules == input.rules
           text  == input.record.text
       IN (answer = "OK") <=>
            /\ ~MeansAny(rules.exclude, text)
            /\ rules.include = {} \/ MeansAny(rules.include, text)
            /\ Connect!IsWithinDateRange(input.record.date, rules.from, rules.to)
            /\ \/ rules.projects = {}
               \/ \E ref \in Connect!References(input.record) : MeansAny(rules.projects, ref)
            /\ Connect!IsMimeAllowed(input.record.mime, rules.mimes)
  /\ Answered("paging") =>
       LET from == IF input.checkpoint = None THEN 0 ELSE input.checkpoint
       IN /\ answer.listed = SubSeq(input.fixtures, from + 1, Len(input.fixtures))
          /\ answer.checkpoint = Len(input.fixtures) /\ ~answer.hasMore
  /\ Answered("webhook") =>
       /\ answer.ok => /\ input.signed /\ input.parses
                       /\ input.eventId \notin input.seen
                       /\ input.eventId # None => input.eventId \in answer.seen
       /\ input.seen \subseteq answer.seen

(* The dashboard and the alerts tell one story: an overdue deadline is exactly *)
(* one whose DEADLINE_PASSED alert is raised or suppressed, candidates come   *)
(* with the worst first, nothing suppressed is raised (alerts.ts,             *)
(* dashboard.ts), and escalation reports the first step that is not due, or   *)
(* the last when all are (escalation.ts).                                     *)
Suppressed(key) ==
  LET latest == Alerts!LatestByKey(input.existing, key)
  IN latest # <<>> /\ Alerts!ShouldSuppress(latest[1], input.now, input.suppressHours)
Overdue == {n \in DOMAIN input.deadlines :
              LET key == Alerts!DedupeKey("DEADLINE_PASSED", input.deadlines[n].id)
              IN \/ \E c \in DOMAIN answer.candidates : answer.candidates[c].key = key
                 \/ /\ input.deadlines[n].status \notin {"CLOSED", "MISSED"}
                    /\ input.deadlines[n].dueAt < input.now /\ Suppressed(key)}
AlertsAgreeWithDashboard ==
  /\ Answered("alerts") =>
       /\ answer.counts.deadlinesOverdue = Cardinality(Overdue)
       /\ \A a, b \in DOMAIN answer.candidates :
            a < b => Alerts!CompareSeverity(answer.candidates[a].severity,
                                            answer.candidates[b].severity) >= 0
       /\ \A c \in DOMAIN answer.candidates : ~Suppressed(answer.candidates[c].key)
  /\ Answered("escalation") /\ input.ladder # <<>> =>
       LET undue == {n \in DOMAIN input.ladder : input.ladder[n] > input.elapsed}
       IN /\ answer.due <=> undue = {}
          /\ IF undue = {} THEN answer.step = Len(input.ladder)
             ELSE /\ answer.step \in undue
                  /\ \A n \in undue : answer.step <= n
                  /\ answer.minutesUntilDue = input.ladder[answer.step] - input.elapsed

(* A finding rests on its segment: positive language that nobody negates or   *)
(* discloses there, a date only from the source's own timestamp, a due basis  *)
(* before its band is raised; language that says the contractor caused the    *)
(* event does not suppress the finding, as a comment has it                   *)
(* (detectors.ts:128), but is kept beside it as a contradiction (:145); two   *)
(* findings score alike either way round. An AI suggestion passes only with   *)
(* the evidence and the rules it was given (ai-schema.ts).                    *)
FindingsAreSupported ==
  /\ Answered("detection") =>
       \A n \in DOMAIN answer : \E s \in DOMAIN input :
         LET f     == answer[n]
             found == {h \in DOMAIN Detectors!PhrasePatterns :
                         /\ Detectors!PhrasePatterns[h].signal \in input[s].signals
                         /\ Detectors!PhrasePatterns[h].category = f.category}
             polarities == {Detectors!PhrasePatterns[h].polarity : h \in found}
         IN /\ f.evidence = {input[s].id}
            /\ "POSITIVE" \in polarities /\ polarities \cap {"NEGATION", "DISCLOSED"} = {}
            /\ f.contradicted <=> "CONTRACTOR_CAUSED" \in polarities
            /\ f.band = "MEDIUM" =>
                 f.missing \cap {"NO_DUE_DATE", "NO_PAYMENT_DUE_DATE"} = {}
            /\ \A d \in DOMAIN f.dateCandidates :
                 f.dateCandidates[d].value # None =>
                   /\ input[s].stamp # None
                   /\ f.dateCandidates[d].value
                        = input[s].stamp - (IF input[s].yesterday THEN 1 ELSE 0)
  /\ Answered("detection") =>
       /\ \A a, b \in DOMAIN answer :
            Detectors!ScoreDuplicateCandidates(answer[a], answer[b])
              = Detectors!ScoreDuplicateCandidates(answer[b], answer[a])
       /\ (Detectors!BenchmarkVerdict("none", TRUE, answer) = "suppressed") <=> answer = <<>>
  /\ Answered("suggestion") /\ answer = {} =>
       /\ input.suggestion.segmentIds \subseteq input.segments
       /\ \A r \in input.suggestion.roles : r.segmentId \in input.segments /\ ~r.instructs
       /\ input.suggestion.ruleIds \subseteq input.rules /\ ~input.suggestion.concludes

(* What leaves was approved, and nothing leaves twice: a draft's sections and *)
(* an export rest on approved facts only and show nothing internal; AI text   *)
(* names only known sources, and no date but known ones where both the event  *)
(* date and the deadline are approved (elsewhere the code looks at no date    *)
(* outside a deadline statement); evidence is READY only when nothing         *)
(* mandatory is missing, partial, disputed or waived, and no waiver lacks a   *)
(* reason; a draft passes only with every required recipient verified; a page *)
(* shows all lines of a notice at full length exactly when it has fewer than  *)
(* 40 lines of at most 90 characters, with '?' for all that is not ASCII; an  *)
(* archive's entries lie one after the other (notice-drafting); what is       *)
(* dispatched are the attachments that were pinned, a send is retried only    *)
(* when no message can have left, and a deemed receipt by working day is the  *)
(* first one after sending (notice-delivery).                                 *)
NoticesLeaveOnceAsApproved ==
  /\ Answered("draft") =>
       LET approved == {f.id : f \in {input.facts[n] : n \in
                          {m \in DOMAIN input.facts :
                             /\ input.facts[m].approvedForDrafting
                             /\ input.facts[m].verificationStatus
                                  \in {"EVIDENCE_BACKED", "HUMAN_CONFIRMED"}}}}
       IN /\ \A n \in DOMAIN answer.draft : answer.draft[n].section.factIds \subseteq approved
          /\ \A n \in DOMAIN answer.export.text :
               ~answer.export.text[n].section.internalText
          /\ answer.export.ok =>
               {s.sequence : s \in {answer.export.text[n] : n \in DOMAIN answer.export.text}}
                 = {s.sequence : s \in {answer.draft[n] : n \in
                     {m \in DOMAIN answer.draft : ~answer.draft[m].section.internalOnly}}}
  /\ Answered("sections") /\ answer = {} =>
       \A s \in input.sections :
         /\ s.sources \subseteq input.known.allowedSources /\ s.forbidden = {}
         /\ input.known.eventDate # None /\ input.known.deadlineDate # None =>
              s.dates \subseteq input.known.approvedDates
                                 \cup {input.known.eventDate, input.known.deadlineDate}
  /\ Answered("evidence") /\ answer = "READY" =>
       \A n \in DOMAIN input :
         /\ Drafting!Mandatory(input[n]) =>
              input[n].satisfactionStatus \notin
                {"MISSING", "PARTIAL", "DISPUTED", "WAIVED_BY_REVIEWER"}
         /\ input[n].satisfactionStatus = "WAIVED_BY_REVIEWER" => input[n].reasoned
  /\ Answered("validation") /\ answer = {} =>
       /\ input.calculationStatus = "VERIFIED" /\ ~input.supersededCalculation
       /\ \E r \in input.recipients : ~r.copiedRecipient
       /\ \A r \in input.recipients :
            r.copiedRecipient \/ (r.verificationStatus = "VERIFIED" /\ r.hasContact)
       /\ input.completenessStatus \in {"READY", "CONDITIONALLY_READY"} \/ input.exceptions > 0
  /\ Answered("page") =>
       LET text  == Drafting!PageText(input)
           fits  == /\ Len(input) < Drafting!PdfLines
                    /\ \A n \in DOMAIN input : input[n].length <= Drafting!PdfWidth
           whole == /\ Len(answer) = Len(text)
                    /\ \A n \in DOMAIN answer : answer[n].length = text[n].length
       IN /\ whole <=> fits
          /\ fits => \A n \in DOMAIN answer : answer[n].replaced = text[n].foreign
  /\ Answered("dispatch") /\ answer.attachments =>
       LET entries(s) == {s[n] : n \in DOMAIN s}
       IN /\ entries(input.expected) \subseteq entries(input.attachments)
          /\ Cardinality(entries(input.expected)) = Len(input.expected) =>
               entries(input.expected) = entries(input.attachments)
  /\ Answered("dispatch") /\ answer.recipients = "OK" =>
       /\ \E n \in DOMAIN input.recipients : input.recipients[n].required
       /\ \A n \in DOMAIN input.recipients :
            input.recipients[n].required => input.recipients[n].contact
  /\ Answered("archive") =>
       \A n \in DOMAIN input :
         answer.offsets[n] + Drafting!LocalHeader(input[n]) + input[n].data
           = IF n = Len(input) THEN answer.directory ELSE answer.offsets[n + 1]
  /\ Answered("retry") /\ answer.retry = "SAFE_AUTO_BEFORE_SUBMISSION" =>
       ~Delivery!MayHaveLeft(answer.sent)
  /\ Answered("receipt") /\ input.rule = "NEXT_WORKING_DAY" /\ answer.at # None =>
       /\ answer.at > input.sentAt /\ answer.at \in input.worked
       /\ \A day \in input.sentAt + 1 .. answer.at - 1 : day \notin input.worked
  /\ Answered("risk") =>
       (answer = "LOW" => ~input.authorizationExpired /\ ~input.missingVerifiedRecipient)

(* A pilot or production configuration that passes has both database urls, no *)
(* two that name the same role, a strong secret and no fake provider (a url   *)
(* without a readable role passes, production-validate.ts); a deployment runs *)
(* the very digests that were approved, in its window and before it expires   *)
(* (deployment-approval.ts) from a manifest of immutable digests              *)
(* (release-manifest.ts); the policy of a restricted environment allows no    *)
(* fakes, whatever the variables that name it (environment.ts), and the       *)
(* provider factories build none when APP_ENV says staging or production      *)
(* (they look at nothing else, so a pilot gets one: providers.ts); a pilot    *)
(* starts with nothing open that cannot be waived (pilot-readiness.ts,        *)
(* pilot-burndown.ts); a limit admits no more than it says                    *)
(* (tenant-limits.ts); and within a window an alert is sent once              *)
(* (pilot-monitoring.ts).                                                     *)
DeploymentsAreApproved ==
  /\ Answered("config") /\ answer.ok /\ input.raw \in {"pilot", "production", "prod"} =>
       /\ input.config.databaseUrl /\ input.config.migrateUrl
       /\ input.config.databaseRole # None =>
            input.config.migrateRole # input.config.databaseRole
       /\ input.config.authSecret = "strong"
       /\ input.config.databaseRole \notin Checks!SuperuserRoles
       /\ input.config.providers \cap Checks!FakeProviders = {}
  /\ Answered("deployment") /\ answer.deploy =>
       /\ input.approval.digests = input.expected.digests
       /\ input.approval.status = "APPROVED" /\ input.approval.approvedBy # None
       /\ input.now <= input.approval.expiresAt
       /\ input.approval.windowStart = None \/ input.approval.windowStart <= input.now
       /\ input.approval.windowEnd = None \/ input.now <= input.approval.windowEnd
  /\ Answered("manifest") /\ answer = "CREATED" =>
       /\ input.sbomDigest = "immutable" /\ input.images # {}
       /\ \A image \in input.images : image.digest = "immutable" /\ image.tag # "latest"
  /\ Answered("environment") =>
       /\ answer.fakes => answer.env \notin Checks!Restricted
       /\ input.appEnv \in {"staging", "production"} => "fake" \notin answer.created
       /\ input.contractradarEnv \in {"pilot", "production"} => ~answer.fakes
  /\ Answered("limit") =>
       /\ answer.limit.allowed <=> input.used + 1 <= input.limit
       /\ ~answer.limit.allowed => answer.limit.nearLimit
       /\ ~answer.killed => \A s \in input.switches :
            s.enabled /\ s.key = "email" => s.scope = "tenant" /\ s.tenantId # input.tenant
  /\ Answered("readiness") =>
       /\ answer.readiness.canActivate =>
            \A item \in input.items : Checks!ReadyItem(item) \/ ~item.nonWaivable
       /\ answer.burndown # "BLOCKED" =>
            \A ex \in input.exceptions :
              ex.status = "active" =>
                ex.expiresAt >= input.today
                  /\ ex.burndownClass \notin {"FIX_NOW", "FIX_BEFORE_PILOT"}
  /\ Answered("pipeline") =>
       /\ \A a, b \in DOMAIN answer :
            a < b /\ answer[a].fingerprint = answer[b].fingerprint =>
              answer[b].now - answer[a].now >= input.window
       /\ \A n \in DOMAIN input.alerts : \E a \in DOMAIN answer :
            /\ answer[a].fingerprint = input.alerts[n].fingerprint
            /\ input.alerts[n].now - answer[a].now < input.window
==============================================================================
