------------------------ MODULE ContractConfiguration ------------------------
(* One contract package: apps/web/src/server/services/contracts.ts with the   *)
(* probe of apps/web/src/server/contracts/structure-extract.ts and the        *)
(* triggers of the slice 3 migration.  An analysis finds one clause; when it  *)
(* reads like a notice provision it also makes an obligation, a notice rule   *)
(* and, for vague timing, an issue.  The extraction suggestions of a run are  *)
(* rows no operation reads again.                                             *)
EXTENDS Transactions

CONSTANTS MaxAnalyses,       \* bound: structure analyses
          MaxConfigurations, \* bound: configuration revisions
          MaxCorrections     \* bound: text corrections of a clause

Analyses       == 1 .. MaxAnalyses
Configurations == 1 .. MaxConfigurations

ConfigurationStatuses ==
  {"ABSENT", "DRAFT", "IN_REVIEW", "CHANGES_REQUESTED", "APPROVED", "SUPERSEDED"}
PackageStatuses == {"DRAFT", "REVIEW_REQUIRED", "APPROVED"}
RuleStatuses    == {"ABSENT", "MACHINE_SUGGESTED", "VERIFIED", "APPROVED", "REJECTED"}
ClauseStatuses  == {"ABSENT", "MACHINE_SUGGESTED", "VERIFIED", "CORRECTED", "REJECTED"}
IssueStatuses   == {"ABSENT", "OPEN", "RESOLVED", "WAIVED", "DEFERRED"}
DurationUnits   == {"NONE", "CALENDAR_DAY", "PROMPT", "REASONABLE_TIME"}

ASSUME ContractAssumption ==
  MaxAnalyses \in Nat /\ MaxConfigurations \in Nat /\ MaxCorrections \in Nat

VARIABLES
  package,        \* the package: status and currentConfigurationRevisionId, 0 for null
  attached,       \* a clean and accepted document version is attached
  found,          \* what each analysis found and how humans reviewed it
  configuration,  \* contract_configuration_revision rows
  snapshot        \* approved_notice_rule_snapshot rows of each revision

contractVars == <<package, attached, found, configuration, snapshot>>

Rule(status, unit, uncertain, ambiguous) ==
  [status |-> status, unit |-> unit, uncertain |-> uncertain, ambiguous |-> ambiguous]
NoRule == Rule("ABSENT", "NONE", FALSE, FALSE)
Found(clause, corrections, obligation, noticeRule, issue) ==
  [clause |-> clause, corrections |-> corrections, obligation |-> obligation,
   rule |-> noticeRule, issue |-> issue]
NothingFound == Found("ABSENT", 0, "ABSENT", NoRule, "ABSENT")

Configuration(status, active, by, approver) ==
  [status |-> status, active |-> active, by |-> by, approver |-> approver]
NoConfiguration == Configuration("ABSENT", FALSE, None, None)

ContractInit ==
  /\ package = [status |-> "DRAFT", current |-> 0]
  /\ attached = FALSE
  /\ found = [a \in Analyses |-> NothingFound]
  /\ configuration = [r \in Configurations |-> NoConfiguration]
  /\ snapshot = [r \in Configurations |-> {}]

-----------------------------------------------------------------------------
(* The package, its documents and what is found in them.                      *)
AttachContractDocument ==
  /\ ~attached  \* the unique index refuses the same version again
  /\ attached' = TRUE
  /\ AtOnce
  /\ UNCHANGED <<package, found, configuration, snapshot>>

(* probeNoticeTimingExpression: only a number of days is not vague.           *)
Vague(unit) == unit # "CALENDAR_DAY"
ReadsLikeNotice(unit, mentionsNotice) == unit \in {"CALENDAR_DAY", "PROMPT"} \/ mentionsNotice

MachineFound(unit, mentionsNotice) ==
  IF ReadsLikeNotice(unit, mentionsNotice)
  THEN Found("MACHINE_SUGGESTED", 0, "MACHINE_SUGGESTED",
             Rule("MACHINE_SUGGESTED", unit, Vague(unit), Vague(unit)),
             IF Vague(unit) THEN "OPEN" ELSE "ABSENT")
  ELSE Found("MACHINE_SUGGESTED", 0, "ABSENT", NoRule, "ABSENT")

(* A document without text only yields an issue.                              *)
UnreadableFound == Found("ABSENT", 0, "ABSENT", NoRule, "OPEN")

StartStructureAnalysis(a, result) ==
  /\ attached
  /\ NextId(a, found, NothingFound)
  /\ found' = [found EXCEPT ![a] = result]
  /\ package' = [package EXCEPT !.status = "REVIEW_REQUIRED"]
  /\ AtOnce
  /\ UNCHANGED <<attached, configuration, snapshot>>

AnalysisResults ==
  {UnreadableFound} \cup {MachineFound(unit, mentionsNotice) :
                            unit \in DurationUnits, mentionsNotice \in BOOLEAN}

-----------------------------------------------------------------------------
(* Human review.                                                              *)
ReviewClause(a, decision) ==
  /\ found[a].clause # "ABSENT"
  /\ decision \in {"VERIFIED", "REJECTED"}
  /\ found' = [found EXCEPT ![a].clause = decision]
  /\ AtOnce
  /\ UNCHANGED <<package, attached, configuration, snapshot>>

CorrectRead(h, a) ==
  /\ found[a].clause # "ABSENT"
  /\ found[a].corrections < MaxCorrections
  /\ Begin(h, Work("correct_clause", None, a, found[a].corrections + 1, "none"))
  /\ UNCHANGED contractVars

(* The revision number it computed is unique per clause.                      *)
CorrectClause(h) ==
  LET a == work[h].id IN
  /\ Doing(h, "correct_clause")
  /\ work[h].number > found[a].corrections
  /\ found' = [found EXCEPT ![a].clause = "CORRECTED", ![a].corrections = work[h].number]
  /\ End(h)
  /\ UNCHANGED <<package, attached, configuration, snapshot>>

ReviewObligation(a, decision) ==
  /\ found[a].obligation # "ABSENT"
  /\ decision \in {"VERIFIED", "APPROVED", "REJECTED"}
  /\ found' = [found EXCEPT ![a].obligation = decision]
  /\ AtOnce
  /\ UNCHANGED <<package, attached, configuration, snapshot>>

(* The classification is the reviewer's, or the one that was read.            *)
ReviewRuleRead(h, a, decision, uncertain) ==
  /\ found[a].rule.status # "ABSENT"
  /\ decision \in {"VERIFIED", "APPROVED", "REJECTED"}
  /\ Begin(h, Work("review_rule", None, a, IF uncertain THEN 1 ELSE 0, decision))
  /\ UNCHANGED contractVars

ReviewNoticeRule(h) ==
  LET a == work[h].id
      unit == found[a].rule.unit
      uncertain == work[h].number = 1 IN
  /\ Doing(h, "review_rule")
  /\ found' = [found EXCEPT ![a].rule =
       Rule(work[h].text, unit, uncertain, uncertain \/ unit \in {"PROMPT", "REASONABLE_TIME"})]
  /\ End(h)
  /\ UNCHANGED <<package, attached, configuration, snapshot>>

ResolveConfigurationIssue(a, status) ==
  /\ found[a].issue # "ABSENT"
  /\ status \in {"RESOLVED", "WAIVED", "DEFERRED"}
  /\ found' = [found EXCEPT ![a].issue = status]
  /\ AtOnce
  /\ UNCHANGED <<package, attached, configuration, snapshot>>

-----------------------------------------------------------------------------
(* Configuration revisions.  The number is the highest plus one under a       *)
(* unique index.                                                              *)
SubmitRead(h, user, r) ==
  /\ NextId(r, configuration, NoConfiguration)
  /\ Begin(h, Work("submit_configuration", user, r, 0, "none"))
  /\ UNCHANGED contractVars

CreateAndSubmitConfigurationRevision(h) ==
  /\ Doing(h, "submit_configuration")
  /\ configuration[work[h].id] = NoConfiguration
  /\ configuration' = [configuration EXCEPT
                        ![work[h].id] = Configuration("IN_REVIEW", FALSE, work[h].user, None)]
  /\ End(h)
  /\ UNCHANGED <<package, attached, found, snapshot>>

ApproveConfigurationRead(h, user, r) ==
  /\ configuration[r].status \in {"IN_REVIEW", "CHANGES_REQUESTED"}
  /\ configuration[r].by # user
  /\ Begin(h, Work("approve_configuration", user, r, 0, "none"))
  /\ UNCHANGED contractVars

(* buildStructuredRuleForSnapshot.  No operation writes countingConvention:   *)
(* it keeps the column's default.                                             *)
CountingConvention == "UNSPECIFIED"
Executable(rule) ==
  /\ rule.status \in {"APPROVED", "VERIFIED"}
  /\ ~rule.ambiguous
  /\ CountingConvention # "UNSPECIFIED"
  /\ rule.unit # "NONE"

Snapshotted == {a \in Analyses : /\ found[a].rule.status \in {"VERIFIED", "APPROVED"}
                                 /\ found[a].rule.unit # "NONE"}
Snapshot(a, approver) == [of |-> a, rule |-> found[a].rule, approver |-> approver,
                          executable |-> Executable(found[a].rule)]

Supersede(c) == Configuration("SUPERSEDED", FALSE, c.by, c.approver)

(* Mutant: the active revision is not superseded. *)
ApproveConfigurationBeside(h) ==
  LET r == work[h].id
      user == work[h].user IN
  /\ Doing(h, "approve_configuration")
  /\ configuration' = [configuration EXCEPT
                        ![r] = Configuration("APPROVED", TRUE, configuration[r].by, user)]
  /\ package' = [status |-> "APPROVED", current |-> r]
  /\ snapshot' = [snapshot EXCEPT ![r] = @ \cup {Snapshot(a, user) : a \in Snapshotted}]
  /\ End(h)
  /\ UNCHANGED <<attached, found>>

(* Whichever revision is active now is superseded, this one approved; the     *)
(* partial unique index rolls back the later of two that overlap to the end.  *)
ApproveConfigurationRevision(h) ==
  LET r == work[h].id
      user == work[h].user IN
  /\ Doing(h, "approve_configuration")
  /\ configuration' = [q \in Configurations |->
       IF q = r THEN Configuration("APPROVED", TRUE, configuration[r].by, user)
       ELSE IF configuration[q].active THEN Supersede(configuration[q]) ELSE configuration[q]]
  /\ package' = [status |-> "APPROVED", current |-> r]
  /\ snapshot' = [snapshot EXCEPT ![r] = @ \cup {Snapshot(a, user) : a \in Snapshotted}]
  /\ End(h)
  /\ UNCHANGED <<attached, found>>

RequestChangesRead(h, r) ==
  /\ configuration[r].status = "IN_REVIEW"
  /\ Begin(h, Work("request_changes", None, r, 0, "none"))
  /\ UNCHANGED contractVars

(* The trigger lets an approved row only become SUPERSEDED.                   *)
RequestConfigurationChanges(h) ==
  LET r == work[h].id IN
  /\ Doing(h, "request_changes")
  /\ configuration[r].status # "APPROVED"
  /\ configuration' = [configuration EXCEPT ![r].status = "CHANGES_REQUESTED"]
  /\ End(h)
  /\ UNCHANGED <<package, attached, found, snapshot>>

SupersedeRead(h, user, r) ==
  /\ configuration[r].active
  /\ Begin(h, Work("supersede", user, r, 0, "none"))
  /\ UNCHANGED contractVars

SupersedeApprovedConfiguration(h, draft) ==
  LET r == work[h].id IN
  /\ Doing(h, "supersede")
  /\ NextId(draft, configuration, NoConfiguration)
  /\ configuration' = [configuration EXCEPT
       ![r] = Supersede(@), ![draft] = Configuration("DRAFT", FALSE, work[h].user, None)]
  /\ package' = [status |-> "REVIEW_REQUIRED", current |-> 0]
  /\ End(h)
  /\ UNCHANGED <<attached, found, snapshot>>

ContractNext ==
  \/ AttachContractDocument
  \/ \E a \in Analyses :
       \/ \E result \in AnalysisResults : StartStructureAnalysis(a, result)
       \/ \E decision \in RuleStatuses : ReviewClause(a, decision) \/ ReviewObligation(a, decision)
       \/ \E h \in Handlers, decision \in RuleStatuses, uncertain \in BOOLEAN :
            ReviewRuleRead(h, a, decision, uncertain)
       \/ \E status \in IssueStatuses : ResolveConfigurationIssue(a, status)
       \/ \E h \in Handlers : CorrectRead(h, a)
  \/ \E h \in Handlers, r \in Configurations :
       \/ \E user \in Users : \/ SubmitRead(h, user, r)
                              \/ ApproveConfigurationRead(h, user, r)
                              \/ SupersedeRead(h, user, r)
       \/ RequestChangesRead(h, r)
       \/ SupersedeApprovedConfiguration(h, r)
  \/ \E h \in Handlers : \/ CorrectClause(h) \/ ReviewNoticeRule(h)
                         \/ CreateAndSubmitConfigurationRevision(h)
                         \/ ApproveConfigurationRevision(h) \/ RequestConfigurationChanges(h)
                         \/ RollBack(h) /\ UNCHANGED contractVars

ContractSpec ==
  TransactionsInit /\ ContractInit /\ [][ContractNext]_<<transactionVars, contractVars>>

ContractTypeOK ==
  /\ package \in [status : PackageStatuses, current : Configurations \cup {0}]
  /\ attached \in BOOLEAN
  /\ found \in [Analyses ->
       [clause : ClauseStatuses, corrections : 0 .. MaxCorrections, obligation : RuleStatuses,
        rule : [status : RuleStatuses, unit : DurationUnits, uncertain : BOOLEAN,
                ambiguous : BOOLEAN],
        issue : IssueStatuses]]
  /\ configuration \in [Configurations ->
       [status : ConfigurationStatuses, active : BOOLEAN,
        by : Users \cup {None}, approver : Users \cup {None}]]
  /\ \A r \in Configurations : \A s \in snapshot[r] : s.of \in Analyses

-----------------------------------------------------------------------------
(* The deadline engine takes the rules of the active revision: whatever       *)
(* overlaps there is at most one, it is the approved one, and the package     *)
(* points to no other; without overlap the package points to it.              *)
OneActiveConfiguration ==
  /\ \A r, q \in Configurations : configuration[r].active /\ configuration[q].active => r = q
  /\ \A r \in Configurations : configuration[r].active <=> configuration[r].status = "APPROVED"
  /\ package.current # 0 => configuration[package.current].active
  /\ ~raced => (package.current = 0 => \A r \in Configurations : ~configuration[r].active)

(* ADR-037: what a revision executes was fixed at its approval.  Every        *)
(* snapshot is of a rule a human had reviewed and was approved by someone     *)
(* other than the revision's author; without overlap no rule is in a revision *)
(* twice, not even when changes are requested on a revision approved once.    *)
SnapshotsAreReviewed ==
  \A r \in Configurations : \A s \in snapshot[r] :
    /\ s.rule.status \in {"VERIFIED", "APPROVED"} /\ s.rule.unit # "NONE"
    /\ s.approver \notin {None, configuration[r].by}
    /\ ~raced => \A t \in snapshot[r] : s.of = t.of => s = t

(* What the deadline engine may take from a package was reviewed and approved,*)
(* and there is one answer to what that is.                                   *)
ConfigurationIsReviewed == OneActiveConfiguration /\ SnapshotsAreReviewed

(* A revision that was superseded never comes back, and the snapshots of any  *)
(* revision stay, unless handlers overlap.                                    *)
SupersededStaysSuperseded ==
  [][~raced => \A r \in Configurations :
       /\ configuration[r].status = "SUPERSEDED" => UNCHANGED configuration[r]
       /\ snapshot[r] # {} => UNCHANGED snapshot[r]]_<<contractVars, transactionVars>>
=============================================================================
