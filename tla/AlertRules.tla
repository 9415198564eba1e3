------------------------------ MODULE AlertRules ------------------------------
(* The pure part of packages/operations: which conditions of a project raise  *)
(* an alert, how severe it is, which alerts an earlier one suppresses, the    *)
(* dashboard's counts and the escalation ladder.                              *)
(*                                                                            *)
(* Times are hours on one clock, escalation times minutes. Titles, messages   *)
(* and metadata are left out; a dedupe key is the triple the code hashes.     *)
EXTENDS Integers, Sequences, SequencesExt, Lists

CONSTANT Never  \* an absent time

Severities == <<"INFO", "LOW", "MEDIUM", "HIGH", "CRITICAL">>
Rank(severity) == CHOOSE r \in DOMAIN Severities : Severities[r] = severity
CompareSeverity(a, b) == Rank(a) - Rank(b)

DedupeKey(alertType, entity) == <<alertType, entity>>

ShouldSuppress(existing, now, hours) ==
  CASE existing.status = "SUPPRESSED" ->
         existing.suppressedUntil # Never => existing.suppressedUntil > now
    [] existing.status = "RESOLVED" -> TRUE
    [] existing.status = "ACKNOWLEDGED" ->
         existing.acknowledgedAt # Never /\ existing.acknowledgedAt + hours > now
    [] OTHER -> FALSE

Candidate(alertType, severity, entity) ==
  [alertType |-> alertType, severity |-> severity, key |-> DedupeKey(alertType, entity)]

(* Mutant: a deadline due now has passed. *)
DeadlineCandidatesDueNow(deadline, now) ==
  LET hours == deadline.dueAt - now
  IN IF deadline.status \in {"CLOSED", "MISSED"} \/ hours > 24 THEN <<>>
     ELSE IF hours <= 0 THEN <<Candidate("DEADLINE_PASSED", "CRITICAL", deadline.id)>>
     ELSE <<Candidate("DEADLINE_APPROACHING", "MEDIUM", deadline.id)>>

DeadlineCandidates(deadline, now) ==
  LET hours == deadline.dueAt - now
  IN IF deadline.status \in {"CLOSED", "MISSED"} THEN <<>>
     ELSE IF hours < 0 THEN <<Candidate("DEADLINE_PASSED", "CRITICAL", deadline.id)>>
     ELSE IF hours <= 24
     THEN <<Candidate("DEADLINE_APPROACHING", IF hours <= 4 THEN "HIGH" ELSE "MEDIUM",
                      deadline.id)>>
     ELSE <<>>

NoticeCandidates(notice, now) ==
  (IF notice.status \in {"DRAFT", "IN_REVIEW"}
   THEN <<Candidate("NOTICE_AWAITING_REVIEW", "MEDIUM", notice.id)>> ELSE <<>>)
  \o (IF notice.status = "EXPORTED" /\ now - notice.updatedAt >= 72
      THEN <<Candidate("NOTICE_EXPORT_STALE", "LOW", notice.id)>> ELSE <<>>)

SyncCandidates(sync, now) ==
  <<Candidate("SYNC_FAILURE", "HIGH", sync.id)>>
  \o (IF sync.lastSuccessAt # Never /\ now - sync.lastSuccessAt >= 24
      THEN <<Candidate("SYNC_STALE", "MEDIUM", sync.id)>> ELSE <<>>)

QueueCandidates(depth, threshold) ==
  IF depth < threshold THEN <<>>
  ELSE <<Candidate("REVIEW_QUEUE_BACKLOG", IF depth >= 2 * threshold THEN "HIGH" ELSE "MEDIUM",
                   "review")>>

(* A stable sort by falling severity.                                         *)
AtRank(candidates, rank) ==
  Picked(candidates, {c \in DOMAIN candidates : Rank(candidates[c].severity) = rank})
BySeverity(candidates) ==
  FlattenSeq([n \in DOMAIN Severities |-> AtRank(candidates, Len(Severities) + 1 - n)])

(* Of two existing alerts with one key the map keeps the later one.           *)
LatestByKey(existing, key) ==
  LET same == {i \in DOMAIN existing : existing[i].key = key}
  IN IF same = {} THEN <<>> ELSE <<existing[Max(same)]>>

EvaluateOperationalAlerts(in) ==
  LET raised == FlattenSeq([i \in DOMAIN in.deadlines |->
                              DeadlineCandidates(in.deadlines[i], in.now)])
                \o FlattenSeq([i \in DOMAIN in.notices |->
                              NoticeCandidates(in.notices[i], in.now)])
                \o FlattenSeq([i \in DOMAIN in.syncFailures |->
                              SyncCandidates(in.syncFailures[i], in.now)])
                \o QueueCandidates(in.reviewQueueDepth, in.reviewQueueThreshold)
      suppressed(c) ==
        LET existing == LatestByKey(in.existing, c.key)
        IN existing # <<>> /\ ShouldSuppress(existing[1], in.now, in.suppressHours)
  IN BySeverity(Picked(raised, {n \in DOMAIN raised : ~suppressed(raised[n])}))

------------------------------------------------------------------------------
(* Dashboard.                                                                 *)
Live(deadline) == deadline.status \in {"OPEN", "CONFIRMED"}
Count(rows, test(_)) == Cardinality({i \in DOMAIN rows : test(rows[i])})

CountOverdueDeadlines(deadlines, now) ==
  Count(deadlines, LAMBDA d : Live(d) /\ d.dueAt < now)
CountDeadlinesDueWithinHours(deadlines, hours, now) ==
  Count(deadlines, LAMBDA d : Live(d) /\ d.dueAt >= now /\ d.dueAt <= now + hours)
CountNoticesAwaitingReview(notices) ==
  Count(notices, LAMBDA n : n.status \in {"DRAFT", "IN_REVIEW"})
CountAlertsBySeverity(alerts) ==
  [s \in {Severities[r] : r \in DOMAIN Severities} |->
     Count(alerts, LAMBDA a : a.status \in {"OPEN", "ACKNOWLEDGED"} /\ a.severity = s)]

ComputeDashboardCounts(in) ==
  [deadlinesOpen         |-> Count(in.deadlines, Live),
   deadlinesDueWithin24h |-> CountDeadlinesDueWithinHours(in.deadlines, 24, in.now),
   deadlinesOverdue      |-> CountOverdueDeadlines(in.deadlines, in.now),
   noticesAwaitingReview |-> CountNoticesAwaitingReview(in.notices),
   alertsOpen            |-> Count(in.existing, LAMBDA a : a.status = "OPEN"),
   alertsBySeverity      |-> CountAlertsBySeverity(in.existing)]

------------------------------------------------------------------------------
(* Escalation. The steps are the ladder's afterMinutes in the order of their  *)
(* step numbers. The loop stops at the first step that is not due yet; the    *)
(* step after the last due one is reported, or the last one when all are due. *)
DuePrefix(ladder, elapsed) ==
  {n \in DOMAIN ladder : \A m \in 1..n : elapsed >= ladder[m]}

NextEscalationStep(ladder, elapsed) ==
  LET active == Cardinality(DuePrefix(ladder, elapsed))
      next   == active + 1
      left(n) == IF ladder[n] > elapsed THEN ladder[n] - elapsed ELSE 0
  IN IF ladder = <<>> THEN [step |-> 0, due |-> FALSE, minutesUntilDue |-> 0]
     ELSE IF next <= Len(ladder)
     THEN [step |-> next, due |-> elapsed >= ladder[next], minutesUntilDue |-> left(next)]
     ELSE [step |-> active, due |-> TRUE, minutesUntilDue |-> 0]

ElapsedEscalationMinutes(startedAt, now) == IF now > startedAt THEN now - startedAt ELSE 0
==============================================================================
