---------------------------- MODULE MC_Algorithms ----------------------------
(* The questions asked of the pure packages.                                  *)
EXTENDS Algorithms, SequencesExt

MCMonths == <<31, 28, 31, 30, 31, 30, 31>>
SeqsUpTo(S, n) == UNION {[1..k -> S] : k \in 0..n}
Plain == [durationUnit |-> "CALENDAR_DAY", durationValue |-> 3, counting |-> "EXCLUSIVE",
          startDateConvention |-> "EXCLUDE_TRIGGER_DAY", endDateConvention |-> "END_OF_DAY",
          nonWorkingAdjustment |-> "NONE", timeBarClassification |-> "TIME_BAR",
          ambiguous |-> FALSE, humanApproved |-> TRUE, requiredRecipientsApproved |-> TRUE,
          monthRollBehavior |-> "SAME_DAY_OR_LAST"]
MCRules ==
  {[Plain EXCEPT !.durationUnit = u, !.durationValue = v, !.counting = c,
                 !.startDateConvention = s, !.endDateConvention = e,
                 !.nonWorkingAdjustment = a] :
     u \in {"CALENDAR_DAY", "BUSINESS_DAY", "WEEK", "MONTH"}, v \in {0, 1, 3},
     c \in {"INCLUSIVE", "EXCLUSIVE"}, s \in {"INCLUDE_TRIGGER_DAY", "EXCLUDE_TRIGGER_DAY"},
     e \in {"END_OF_DAY", "EXACT_TIMESTAMP"}, a \in {"NONE", "FORWARD", "BACKWARD"}}
  \cup {[Plain EXCEPT !.humanApproved = FALSE], [Plain EXCEPT !.ambiguous = TRUE],
        [Plain EXCEPT !.durationValue = None], [Plain EXCEPT !.durationValue = -1],
        [Plain EXCEPT !.durationUnit = "CUSTOM"], [Plain EXCEPT !.counting = "UNSPECIFIED"],
        [Plain EXCEPT !.durationUnit = "PROMPT", !.durationValue = None],
        [Plain EXCEPT !.durationUnit = "IMMEDIATE"],
        [Plain EXCEPT !.durationUnit = "IMMEDIATE", !.durationValue = None],
        [Plain EXCEPT !.durationUnit = "MONTH", !.monthRollBehavior = "CUSTOM"],
        [Plain EXCEPT !.endDateConvention = "START_OF_DAY"]}
Calendar(zone, weekend, holidays, special) ==
  [zoneKnown |-> zone, weekendDays |-> weekend, holidays |-> holidays,
   specialWorkingDays |-> special]
MCCalendars == {Calendar(TRUE, {5, 6}, {33, 34}, {}), Calendar(TRUE, {6, 7}, {}, {34, 35}),
                Calendar(TRUE, 1..7, {}, {}), Calendar(FALSE, {}, {}, {})}
MCDeadlines == [rule : MCRules, calendar : MCCalendars,
                trigger : {[valid |-> TRUE, at |-> 3 * d + 1] : d \in {27, 30, 32}}
                            \cup {[valid |-> FALSE, at |-> 0]},
                offsets : {<<1, 3, 7>>}]

Glob(parts) == [star |-> TRUE, parts |-> parts]
MCPatterns == {[star |-> FALSE, parts |-> <<<<"a", "b">>>>], Glob(<<<<>>, <<"a">>>>),
               Glob(<<<<"a">>, <<"a">>>>), Glob(<<<<"a", "b">>, <<"b">>>>),
               Glob(<<<<"b">>, <<>>, <<"a">>>>)}
AnyRules == [include |-> {}, exclude |-> {}, from |-> None, to |-> None, projects |-> {},
             mimes |-> {}]
AnyRecord == [text |-> <<"a">>, date |-> 3, references |-> {}, extracted |-> {<<"b">>},
              mime |-> None]
MCScopes ==
  {[rules  |-> [AnyRules EXCEPT !.include = i, !.exclude = x],
    record |-> [AnyRecord EXCEPT !.text = t]] :
     i \in SUBSET MCPatterns, x \in {{}} \cup {{p} : p \in MCPatterns},
     t \in SeqsUpTo({"a", "b"}, 3)}
  \cup {[rules  |-> [AnyRules EXCEPT !.from = f, !.to = u, !.projects = p, !.mimes = m],
         record |-> [AnyRecord EXCEPT !.date = d, !.references = r, !.mime = e]] :
          f \in {None, 2}, u \in {None, 4}, d \in {None, 1, 3, 5},
          p \in {{}, {Glob(<<<<>>, <<"a">>>>)}}, r \in {{}, {<<"b", "a">>}},
          m \in {{}, {<<"text", "*">>}, {<<"text", "html">>}},
          e \in {None, <<"text", "plain">>, <<"image", "html">>}}
MCPaging == [kind : {"fake", "local_fixture"}, fixtures : {[i \in 1..n |-> i] : n \in 0..5},
             checkpoint : {None, 0, 2}]
MCPages == {p \in MCPaging : p.checkpoint = None \/ p.checkpoint <= Len(p.fixtures)}
MCWebhooks == [signed : BOOLEAN, parses : BOOLEAN, eventId : {None, "e1", "e2"},
               seen : {{}, {"e1"}}]

MCDues == [id : {"d1", "d2"}, status : {"OPEN", "CONFIRMED", "CLOSED"}, dueAt : {5, 10, 30, 60}]
MCExisting ==
  [key : {<<"DEADLINE_PASSED", "d1">>, <<"SYNC_FAILURE", "s1">>}, severity : {"HIGH"},
   status : {"OPEN", "ACKNOWLEDGED", "RESOLVED", "SUPPRESSED"},
   suppressedUntil : {None, 5, 20}, acknowledgedAt : {None, 2, 9}]
MCAlerts ==
  {[deadlines |-> d, notices |-> n, syncFailures |-> s, existing |-> x, now |-> 10,
    suppressHours |-> 4, reviewQueueDepth |-> q, reviewQueueThreshold |-> 5] :
     d \in [1..1 -> MCDues] \cup {<<[id |-> "d1", status |-> "OPEN", dueAt |-> a],
                                   [id |-> "d2", status |-> "CONFIRMED", dueAt |-> b]>> :
                                    a, b \in {5, 13, 60}},
     n \in {<<>>, <<[id |-> "n1", status |-> "EXPORTED", updatedAt |-> -70]>>},
     s \in {<<>>, <<[id |-> "s1", lastSuccessAt |-> -20]>>},
     x \in {<<>>} \cup [1..1 -> MCExisting], q \in {0, 5, 10}}
MCLadders == [ladder : SeqsUpTo({0, 30, 60}, 3), elapsed : {0, 15, 30, 45, 60}]

MCSignals == {Detectors!PhrasePatterns[n].signal : n \in DOMAIN Detectors!PhrasePatterns}
MCSegments ==
  {s \in [id : {"s1"}, signals : {{a, b} : a, b \in MCSignals} \cup {{}}, yesterday : BOOLEAN,
          today : BOOLEAN, explicit : BOOLEAN, stamp : {None, 10}] :
     s.signals \cap {"explicit_due_date", "payment_due_date"} # {} => s.explicit}
MCDetections ==
  [1..1 -> MCSegments]
  \cup {<<[s EXCEPT !.id = "s1"], [s EXCEPT !.id = "s2", !.signals = {"restricted_access"}]>> :
          s \in {r \in MCSegments : r.stamp = 10}}
MCSuggestions ==
  [suggestion : [segmentIds : SUBSET {"s1", "s2"}, ruleIds : SUBSET {"r1", "r2"},
                 roles : SUBSET [segmentId : {"s1", "s2"}, instructs : BOOLEAN],
                 concludes : BOOLEAN],
   segments : {{"s1"}}, rules : {{"r1"}}]

Fact(n, t, text, approved, status) ==
  [id |-> n, type |-> t, blank |-> text = "blank", internal |-> text = "internal",
   approvedForDrafting |-> approved, verificationStatus |-> status]
MCFacts(n) == {Fact(n, t, text, approved, status) :
                 t \in {"PARTY_NAME", "DESCRIPTION_OF_EVENT", "DESCRIPTION_OF_EFFECT"},
                 text \in {"plain", "blank", "internal"}, approved \in BOOLEAN,
                 status \in {"EVIDENCE_BACKED", "DISPUTED"}}
MCDrafts == {[facts |-> <<f, g>>, unverifiedRecipient |-> FALSE, deadline |-> TRUE,
              continuing |-> c] : f \in MCFacts(1), g \in MCFacts(2), c \in BOOLEAN}
MCSections ==
  [sections : {{s} : s \in [type : {"DEADLINE_STATEMENT", "EVENT_DESCRIPTION"},
                            long : {FALSE}, flagged : BOOLEAN, forbidden : {{}, {"LIABILITY"}},
                            sources : SUBSET {"f1", "f2"}, dates : SUBSET {1, 2, 3}]},
   known : [allowedSources : {{"f1"}}, eventDate : {None, 1}, deadlineDate : {None, 2},
            approvedDates : {{}}]]
MCRequirements == [mandatoryStatus : {"CONTRACTUALLY_REQUIRED", "INTERNALLY_REQUIRED",
                                      "RECOMMENDED", "OPTIONAL"},
                   satisfactionStatus : {"MISSING", "PARTIAL", "SATISFIED", "DISPUTED",
                                         "WAIVED_BY_REVIEWER"}, reasoned : BOOLEAN]
MCEvidence == SeqsUpTo(MCRequirements, 2)
MCArchives == SeqsUpTo([name : {1, 5}, data : {0, 7}], 3)
MCRetries == [mode : Delivery!ProviderModes, recipients : {<<"r1">>, <<"r1", "r2">>}]
MCReceipts == [rule : {"NONE", "ACTUAL_DELIVERY", "ON_TRANSMISSION", "NEXT_WORKING_DAY",
                       "POSTAL_PERIOD"}, sentAt : {None, 0}, deliveredAt : {None, 2},
               postalDays : {3}, worked : SUBSET {1, 2, 4, 14, 15}]
MCRisks == [missingVerifiedRecipient : BOOLEAN, authorizationExpired : BOOLEAN,
            methodNotPermitted : BOOLEAN, attachmentOverLimit : {FALSE},
            providerConfigured : BOOLEAN, requiredRecipientFailed : {FALSE},
            manualProofMissing : BOOLEAN, receiptUnconfirmed : {FALSE},
            dispatchedAfterDeadline : BOOLEAN, hoursLeft : {None, -1, 5, 30}]

MCConfigInputs ==
  [raw : {"local", "staging", "pilot", "production", "moon"},
   config : [databaseUrl : BOOLEAN, databaseRole : {None, "app", "postgres"},
             migrateUrl : BOOLEAN, migrateRole : {None, "app", "migrate"},
             redis : {TRUE}, storage : BOOLEAN, authSecret : {"weak", "placeholder", "strong"},
             defaultCredentials : {FALSE}, allowDevDefaults : BOOLEAN,
             allowTestPurge : {FALSE}, malwareScanner : {None, "clamav", "fake"},
             providers : {{}, {"fake"}, {"smtp"}}, cookieSecure : BOOLEAN]]
MCConfigs == {i \in MCConfigInputs : /\ i.config.databaseUrl \/ i.config.databaseRole = None
                                     /\ i.config.migrateUrl \/ i.config.migrateRole = None}
MCApprovals ==
  [approval : [approvalId : {"a1"}, releaseId : {"r1", "r2"}, gitSha : {"c1"},
               digests : {{}, {"i1"}, {"i1", "i2"}}, environment : {"STAGING", "PRODUCTION"},
               status : {"DRAFT", "APPROVED", "REVOKED"}, approvedBy : {None, "u1"},
               expiresAt : {4, 9}, windowStart : {None, 6}, windowEnd : {None, 3, 7}],
   expected : {[releaseId |-> "r1", gitSha |-> "c1", digests |-> {"i1"}]}, now : {3, 5, 7}]
MCReadiness ==
  [items : SUBSET [requirement : {"q1"}, status : {"READY", "READY_WITH_EXCEPTIONS", "OPEN"},
                   nonWaivable : BOOLEAN, approvedException : BOOLEAN],
   exceptions : {{}, {[status |-> "active", expiresAt |-> 2, burndownClass |-> "ACCEPTED",
                       severity |-> "high", classification |-> "runtime", decision |-> None],
                      [status |-> "closed", expiresAt |-> 0, burndownClass |-> "FIX_NOW",
                       severity |-> "critical", classification |-> "runtime",
                       decision |-> None]}},
   today : {1, 3}, synthetic : {FALSE}]
MCManifests ==
  [wellFormed : BOOLEAN, gitSha : {"sha", "other"}, migrationVersion : {"0042", "placeholder"},
   images : SUBSET [digest : {"immutable", "placeholder", "malformed"}, tag : {"v1", "latest"}],
   sbomDigest : {"immutable", "placeholder", "malformed"},
   vulnerabilityPolicyDigest : {"immutable"}, scaffolded : {FALSE}]
MCEnvironments ==
  [contractradarEnv : {None, "pilot", "production"}, appEnv : {None, "local", "staging", "production"},
   nodeEnv : {None, "development", "production"}, ci : BOOLEAN,
   kind : {"fake", "none", "local", "smtp"}]
MCLimits == [used : 0..3, limit : 0..3, warningPercent : {80}, tenant : {"t1"},
             switches : SUBSET [key : {"email", "ai"}, enabled : BOOLEAN,
                                scope : {"global", "tenant"}, tenantId : {"t1", "t2"}]]
MCSwitches == {l \in MCLimits : l.used # l.limit => Cardinality(l.switches) <= 1}
MCDraftChecks ==
  [mismatches : {{}}, supersededCalculation : BOOLEAN,
   calculationStatus : {"VERIFIED", "REVIEW_REQUIRED"}, hasVerifiedTriggerDate : BOOLEAN,
   hasVerifiedDeadline : {TRUE}, clauseReferencePresent : {TRUE},
   recipients : SUBSET [copiedRecipient : BOOLEAN, verificationStatus : {"VERIFIED", "PENDING"},
                        hasContact : BOOLEAN],
   openBlockingQuestions : {0, 1}, exceptions : {0, 1},
   completenessStatus : {"NOT_ASSESSED", "BLOCKED", "CONDITIONALLY_READY", "READY"},
   unapprovedFactsInDraft : {0}, internalContent : {FALSE}, staleEvidenceAssessment : BOOLEAN,
   reservationRequired : {TRUE}, reservationPresent : {TRUE}, nonWaivableBlockers : {{}}]
MCChecks == {c \in MCDraftChecks : Cardinality(c.recipients) <= 2}
Pinned == [id : {"x", "y"}, checksum : {1, 2}]
MCDispatches ==
  {[cover |-> c, recipients |-> r, attachments |-> a, expected |-> e] :
     c \in {[subject |-> "fine", body |-> "fine"]}, r \in {<<>>},
     a \in SeqsUpTo(Pinned, 2), e \in SeqsUpTo(Pinned, 2)}
  \cup {[cover |-> c, recipients |-> r, attachments |-> <<>>, expected |-> <<>>] :
     c \in [subject : {"empty", "long", "broken", "fine"}, body : {"empty", "internal", "fine"}],
     r \in SeqsUpTo([named : BOOLEAN, contact : BOOLEAN, method : {TRUE}, required : BOOLEAN], 2)}
MCLine(w, F) == [length |-> w, foreign |-> {c \in F : c <= w}]
MCPageInputs == {[n \in 1..k |-> MCLine(w, F)] : k \in {1, 5, 39, 40, 45}, w \in {0, 90, 95},
                                                F \in {{}, {1}, {90, 95}}}
MCPipelines == [alerts : SeqsUpTo([fingerprint : {"a", "b"}, now : {0, 2, 4}], 4), window : {3}]
==============================================================================
