------------------------------ MODULE Operations ------------------------------
(* Operational alerts, tasks, escalation policies and the summary of each     *)
(* project: apps/web/src/server/services/operations.ts.                       *)
(*                                                                            *)
(* What an evaluation finds in deadlines, notices and syncs is one condition  *)
(* per project; what it finds in the review queue has one dedupe key for the  *)
(* whole tenant.  Whether a known condition is suppressed decides only if the *)
(* alert's lastObservedAt moves (module AlertRules).                          *)
EXTENDS Transactions, Sequences, FiniteSets

CONSTANTS Projects,
          MaxTasks  \* bound: tasks

Conditions == {"NOTICE_AWAITING_REVIEW", "REVIEW_QUEUE_BACKLOG"}
Tasks      == 1 .. MaxTasks

AlertStatuses  == {"OPEN", "ACKNOWLEDGED", "IN_PROGRESS", "RESOLVED", "DISMISSED"}
Settled        == {"RESOLVED", "DISMISSED"}
TaskStatuses   == {"ABSENT", "OPEN", "ACKNOWLEDGED", "COMPLETED"}
PolicyStatuses == {"ABSENT", "DRAFT", "APPROVED"}

ASSUME OperationsAssumption ==
  MaxTasks \in Nat /\ None \notin Projects /\ IsFiniteSet(Projects)

VARIABLES
  holds,       \* the conditions that hold in each project
  alert,       \* operational_alert rows of each dedupe key
  evaluation,  \* the project and the new keys each running evaluation has found
  summary,     \* project_operations_summary.openAlertCount
  policy,      \* one escalation_policy
  task         \* operational_task.status

operationsVars == <<holds, alert, evaluation, summary, policy, task>>

(* dedupeKey: the queue's entity id names no project.                         *)
Key(condition, project) ==
  [type |-> condition,
   project |-> IF condition = "REVIEW_QUEUE_BACKLOG" THEN None ELSE project]
Keys == {Key(condition, project) : condition \in Conditions, project \in Projects}

Alert(project, status)    == [project |-> project, status |-> status]
Evaluation(project, keys) == [project |-> project, keys |-> keys]
NoEvaluation              == Evaluation(None, {})
Policy(status, by, approver) == [status |-> status, by |-> by, approver |-> approver]

OperationsInit ==
  /\ holds = [project \in Projects |-> {}]
  /\ alert = [key \in Keys |-> <<>>]
  /\ evaluation = [h \in Handlers |-> NoEvaluation]
  /\ summary = [project \in Projects |-> 0]
  /\ policy = Policy("ABSENT", None, None)
  /\ task = [t \in Tasks |-> "ABSENT"]

-----------------------------------------------------------------------------
(* External: deadlines, notices, syncs and suggestions change.                *)
ConditionChanges(project, condition) ==
  /\ holds' = [holds EXCEPT ![project] =
                 IF condition \in @ THEN @ \ {condition} ELSE @ \cup {condition}]
  /\ AtOnce
  /\ UNCHANGED <<alert, evaluation, summary, policy, task>>

(* Mutant: only an alert that is still open keeps a second one away. *)
EvaluateReadOpen(h, project) ==
  /\ Begin(h, Work("evaluate", None, 0, 0, "none"))
  /\ evaluation' = [evaluation EXCEPT ![h] =
       Evaluation(project, {key \in {Key(c, project) : c \in holds[project]} :
                              \A i \in DOMAIN alert[key] : alert[key][i].status # "OPEN"})]
  /\ UNCHANGED <<holds, alert, summary, policy, task>>

(* An alert is created for a condition no alert of the tenant has the key of, *)
(* whatever became of that alert and whichever project it is in.              *)
EvaluateRead(h, project) ==
  /\ Begin(h, Work("evaluate", None, 0, 0, "none"))
  /\ evaluation' = [evaluation EXCEPT ![h] =
       Evaluation(project, {key \in {Key(c, project) : c \in holds[project]} : alert[key] = <<>>})]
  /\ UNCHANGED <<holds, alert, summary, policy, task>>

OpenAlerts(rows, project) ==
  {key \in Keys : \E i \in DOMAIN rows[key] : rows[key][i] = Alert(project, "OPEN")}

(* No unique index covers the key, so an overlapping evaluation doubles it.   *)
(* The summary is rebuilt in the same transaction.                            *)
EvaluateAndUpsertAlerts(h) ==
  LET found == evaluation[h] IN
  /\ Doing(h, "evaluate")
  /\ alert' = [key \in Keys |-> IF key \in found.keys
                                THEN Append(alert[key], Alert(found.project, "OPEN"))
                                ELSE alert[key]]
  /\ summary' = [summary EXCEPT ![found.project] = Cardinality(OpenAlerts(alert', found.project))]
  /\ evaluation' = [evaluation EXCEPT ![h] = NoEvaluation]
  /\ End(h)
  /\ UNCHANGED <<holds, policy, task>>

AbandonOperation(h) ==
  /\ RollBack(h)
  /\ evaluation' = [evaluation EXCEPT ![h] = NoEvaluation]
  /\ UNCHANGED <<holds, alert, summary, policy, task>>

-----------------------------------------------------------------------------
(* mutateAlert reads the row in the writing transaction.  Dismissing and      *)
(* resolving look at no status.                                               *)
SetAlert(key, i, status) ==
  /\ alert' = [alert EXCEPT ![key][i].status = status]
  /\ UNCHANGED <<holds, evaluation, summary, policy, task>>

SettleAlert(key, i, status) ==
  /\ i \in DOMAIN alert[key]
  /\ status \in Settled
  /\ SetAlert(key, i, status)
  /\ AtOnce

ChangeAlertRead(h, key, i, operation) ==
  /\ i \in DOMAIN alert[key]
  /\ operation \in {"acknowledge", "assign"}
  /\ operation = "acknowledge" => alert[key][i].status = "OPEN"
  /\ Begin(h, Work(operation, None, i, 0, alert[key][i].status))
  /\ evaluation' = [evaluation EXCEPT ![h] = Evaluation(alert[key][i].project, {key})]
  /\ UNCHANGED <<holds, alert, summary, policy, task>>

ChangeAlert(h, status) ==
  LET key == CHOOSE k \in evaluation[h].keys : TRUE IN
  /\ alert' = [alert EXCEPT ![key][work[h].id].status = status]
  /\ evaluation' = [evaluation EXCEPT ![h] = NoEvaluation]
  /\ End(h)
  /\ UNCHANGED <<holds, summary, policy, task>>

AcknowledgeAlert(h) == Doing(h, "acknowledge") /\ ChangeAlert(h, "ACKNOWLEDGED")

(* The status that was read is written back unless it was OPEN.               *)
AssignAlert(h) ==
  /\ Doing(h, "assign")
  /\ ChangeAlert(h, IF work[h].text = "OPEN" THEN "IN_PROGRESS" ELSE work[h].text)

-----------------------------------------------------------------------------
CreateEscalationPolicy(user) ==
  /\ policy.status = "ABSENT"
  /\ policy' = Policy("DRAFT", user, None)
  /\ AtOnce
  /\ UNCHANGED <<holds, alert, evaluation, summary, task>>

ApproveEscalationPolicy(user) ==
  /\ policy.status # "ABSENT" /\ policy.by # user
  /\ policy' = Policy("APPROVED", policy.by, user)
  /\ AtOnce
  /\ UNCHANGED <<holds, alert, evaluation, summary, task>>

SetTask(t, status) ==
  /\ task' = [task EXCEPT ![t] = status]
  /\ UNCHANGED <<holds, alert, evaluation, summary, policy>>

CreateTaskFromAlert(t) ==
  /\ NextId(t, task, "ABSENT")
  /\ SetTask(t, "OPEN")
  /\ AtOnce

(* Mutant: assigning acknowledges a task whatever its status. *)
AssignTaskReadAny(h, t) ==
  /\ task[t] # "ABSENT"
  /\ Begin(h, Work("assign_task", None, t, 0, "ACKNOWLEDGED"))
  /\ UNCHANGED operationsVars

AssignTaskRead(h, t) ==
  /\ task[t] # "ABSENT"
  /\ Begin(h, Work("assign_task", None, t, 0, IF task[t] = "OPEN" THEN "ACKNOWLEDGED" ELSE task[t]))
  /\ UNCHANGED operationsVars

AssignTask(h) ==
  /\ Doing(h, "assign_task")
  /\ SetTask(work[h].id, work[h].text)
  /\ End(h)

CompleteTask(t) ==
  /\ task[t] # "ABSENT"
  /\ SetTask(t, "COMPLETED")
  /\ AtOnce

OperationsNext ==
  \/ \E project \in Projects :
       \/ \E condition \in Conditions : ConditionChanges(project, condition)
       \/ \E h \in Handlers : EvaluateRead(h, project)
  \/ \E key \in Keys : \E i \in DOMAIN alert[key] :
       \/ \E status \in Settled : SettleAlert(key, i, status)
       \/ \E h \in Handlers, operation \in {"acknowledge", "assign"} :
            ChangeAlertRead(h, key, i, operation)
  \/ \E h \in Handlers : \/ EvaluateAndUpsertAlerts(h) \/ AcknowledgeAlert(h) \/ AssignAlert(h)
                         \/ AssignTask(h) \/ AbandonOperation(h)
  \/ \E user \in Users : CreateEscalationPolicy(user) \/ ApproveEscalationPolicy(user)
  \/ \E t \in Tasks : \/ CreateTaskFromAlert(t) \/ CompleteTask(t)
                      \/ \E h \in Handlers : AssignTaskRead(h, t)

OperationsSpec ==
  TransactionsInit /\ OperationsInit /\ [][OperationsNext]_<<transactionVars, operationsVars>>

OperationsTypeOK ==
  /\ holds \in [Projects -> SUBSET Conditions]
  /\ DOMAIN alert = Keys
  /\ \A key \in Keys : \A i \in DOMAIN alert[key] :
       alert[key][i] \in [project : Projects, status : AlertStatuses]
  /\ \A h \in Handlers : evaluation[h].keys \subseteq Keys
  /\ summary \in [Projects -> Nat]
  /\ policy \in [status : PolicyStatuses, by : Users \cup {None}, approver : Users \cup {None}]
  /\ task \in [Tasks -> TaskStatuses]

-----------------------------------------------------------------------------
(* Unless evaluations overlap a condition has one alert, in a project it was  *)
(* found in, and a resolved or dismissed alert, like a completed task, is     *)
(* never opened again.                                                        *)
OneAlertPerCondition == ~raced => \A key \in Keys :
  /\ Len(alert[key]) <= 1
  /\ \A i \in DOMAIN alert[key] : key.project \in {None, alert[key][i].project}

SettledStaysSettled ==
  [][~raced =>
       /\ \A key \in Keys : \A i \in DOMAIN alert[key] :
            alert[key][i].status \in Settled => alert'[key][i].status \in Settled
       /\ \A t \in Tasks : task[t] = "COMPLETED" => task'[t] = "COMPLETED"
    ]_<<transactionVars, operationsVars>>
=============================================================================
