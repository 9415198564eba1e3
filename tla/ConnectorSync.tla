---------------------------- MODULE ConnectorSync ----------------------------
(* One connector account with one project scope, the syncs that import the    *)
(* mailbox of that scope and the provider's webhooks:                         *)
(* apps/web/src/server/services/connectors.ts over the fixture providers of   *)
(* packages/connectors/src/providers.ts and the slice 8 triggers.             *)
(*                                                                            *)
(* A record is in scope, of a type or project reference the scope's filters   *)
(* refuse, or outside its include rules and dates.  The scope row is read in  *)
(* a transaction of its own before the sync's; everything a sync writes       *)
(* becomes visible at its commit.                                             *)
EXTENDS Transactions

CONSTANTS MaxRecords,  \* bound: records that arrive in the mailbox
          KindOf,      \* what each record is to the scope
          MaxRuns,     \* bound: sync runs
          WebhookIds   \* provider event ids

Records     == 1 .. MaxRecords
Runs        == 1 .. MaxRuns
RecordKinds == {"in_scope", "filtered", "excluded"}

AccountStatuses == {"ABSENT", "DRAFT", "VALIDATED", "APPROVED", "DISABLED"}
ScopeStatuses   == {"ABSENT", "DRAFT", "ACTIVE"}
RunStatuses     == {"ABSENT", "SUCCEEDED", "PARTIALLY_SUCCEEDED", "FAILED"}

ASSUME ConnectorAssumption ==
  MaxRecords \in Nat /\ KindOf \in [Records -> RecordKinds] /\ MaxRuns \in Nat

VARIABLES
  account,   \* connector_account
  scope,     \* connector_project_scope without its checkpoint
  cursor,    \* lastCheckpoint.cursor: the records listed so far
  filtered,  \* lastCheckpoint still holds the reference and type filters
  arrived,   \* records in the mailbox (the provider's side)
  document,  \* source documents made from each record
  dropped,   \* history: records a run could not fetch and passed over
  syncRun,   \* connector_sync_run rows
  webhook,   \* connector_provider_event rows
  plan       \* what each running sync has read and fetched

connectorVars ==
  <<account, scope, cursor, filtered, arrived, document, dropped, syncRun, webhook, plan>>
syncVars == <<cursor, filtered, arrived, document, dropped, syncRun, webhook, plan>>

Approval(status, by, approver) == [status |-> status, by |-> by, approver |-> approver]
Plan(from, filter, upTo, imports, drops) ==
  [from |-> from, filter |-> filter, upTo |-> upTo, imports |-> imports, drops |-> drops]
NoPlan == Plan(0, FALSE, 0, {}, {})

ConnectorInit ==
  /\ account = Approval("ABSENT", None, None)
  /\ scope = Approval("ABSENT", None, None)
  /\ cursor = 0 /\ filtered = TRUE
  /\ arrived = 0
  /\ document = [record \in Records |-> 0]
  /\ dropped = {}
  /\ syncRun = [k \in Runs |-> "ABSENT"]
  /\ webhook = {}
  /\ plan = [h \in Handlers |-> NoPlan]

-----------------------------------------------------------------------------
(* The account.  Validation and disabling look at no status.                  *)
CreateConnectorAccount(user) ==
  /\ account.status = "ABSENT"
  /\ account' = Approval("DRAFT", user, None)
  /\ AtOnce
  /\ UNCHANGED <<scope, syncVars>>

ValidateConnectorAccount ==
  /\ account.status # "ABSENT"
  /\ account' = [account EXCEPT !.status = "VALIDATED"]
  /\ AtOnce
  /\ UNCHANGED <<scope, syncVars>>

DisableConnectorAccount ==
  /\ account.status # "ABSENT"
  /\ account' = [account EXCEPT !.status = "DISABLED"]
  /\ AtOnce
  /\ UNCHANGED <<scope, syncVars>>

(* The configurer may approve again what is approved already.                 *)
ApproveAccountRead(h, user) ==
  /\ account.status \in {"VALIDATED", "APPROVED"}
  /\ account.by = user => account.status = "APPROVED"
  /\ Begin(h, Work("approve_account", user, 0, 0, "none"))
  /\ UNCHANGED connectorVars

ApproveConnectorAccount(h) ==
  /\ Doing(h, "approve_account")
  /\ account' = Approval("APPROVED", account.by, work[h].user)
  /\ End(h)
  /\ UNCHANGED <<scope, syncVars>>

(* The scope.  Its filters are kept inside the checkpoint column.             *)
CreateProjectScope(user) ==
  /\ account.status = "APPROVED"
  /\ scope.status = "ABSENT"
  /\ scope' = Approval("DRAFT", user, None)
  /\ AtOnce
  /\ UNCHANGED <<account, syncVars>>

ApproveScopeRead(h, user) ==
  /\ scope.status = "DRAFT"
  /\ scope.by # user
  /\ Begin(h, Work("approve_scope", user, 0, 0, "none"))
  /\ UNCHANGED connectorVars

ApproveProjectScope(h) ==
  /\ Doing(h, "approve_scope")
  /\ scope' = Approval("ACTIVE", scope.by, work[h].user)
  /\ End(h)
  /\ UNCHANGED <<account, syncVars>>

-----------------------------------------------------------------------------
(* A sync.  It takes the scope as read before its transaction, and the        *)
(* account's status does not matter.                                          *)
StartManualSync(h) ==
  /\ scope.status = "ACTIVE"
  /\ \E k \in Runs : syncRun[k] = "ABSENT"
  /\ Begin(h, Work("sync", None, 0, 0, "none"))
  /\ plan' = [plan EXCEPT ![h] = Plan(cursor, filtered, cursor, {}, {})]
  /\ UNCHANGED <<account, scope, cursor, filtered, arrived, document, dropped, syncRun, webhook>>

(* Mutant: the next page starts one record too far. *)
ListedFromNext(from) == {record \in Records : from + 1 < record /\ record <= arrived}

(* listChangedRecords page after page lists what arrived after the cursor.    *)
ListedFrom(from) == {record \in Records : from < record /\ record <= arrived}

(* recordMatchesScope with the rules scopeRulesFromRecord finds in the row.   *)
MatchesScope(record, filter) ==
  \/ KindOf[record] = "in_scope"
  \/ KindOf[record] = "filtered" /\ ~filter

(* A record imported before is a duplicate; any of the others may turn out to *)
(* have no metadata or content, or fail to import.                            *)
ImportRecords(h, drops) ==
  LET wanted == {record \in ListedFrom(plan[h].from) :
                   MatchesScope(record, plan[h].filter) /\ document[record] = 0} IN
  /\ Doing(h, "sync")
  /\ drops \subseteq wanted
  /\ plan' = [plan EXCEPT ![h] = Plan(plan[h].from, plan[h].filter, arrived,
                                      wanted \ drops, drops)]
  /\ work' = [work EXCEPT ![h] = Work("import", None, 0, 0, "none")]
  /\ UNCHANGED <<account, scope, cursor, filtered, arrived, document, dropped, syncRun, webhook,
                 raced>>

(* Mutant: a status the column does not have, for every run with an error. *)
FinalStatusUnlisted(imports, drops) ==
  IF drops = {} THEN "SUCCEEDED" ELSE "PARTIAL"

FinalStatus(imports, drops) ==
  IF drops = {} THEN "SUCCEEDED"
  ELSE IF imports = {} THEN "FAILED" ELSE "PARTIALLY_SUCCEEDED"

(* The commit: the upsert of a record another run imported meanwhile points   *)
(* it to the new document.  The provider's checkpoint replaces the column.    *)
FinishSync(h, k) ==
  LET p == plan[h] IN
  /\ Doing(h, "import")
  /\ NextId(k, syncRun, "ABSENT")
  /\ document' = [record \in Records |->
                    IF record \in p.imports THEN document[record] + 1 ELSE document[record]]
  /\ dropped' = dropped \cup p.drops
  /\ cursor' = p.upTo
  /\ filtered' = FALSE
  /\ syncRun' = [syncRun EXCEPT ![k] = FinalStatus(p.imports, p.drops)]
  /\ plan' = [plan EXCEPT ![h] = NoPlan]
  /\ End(h)
  /\ UNCHANGED <<account, scope, arrived, webhook>>

(* The provider throws, or the database: the run row is rolled back with it.  *)
AbandonTransaction(h) ==
  /\ RollBack(h)
  /\ plan' = [plan EXCEPT ![h] = NoPlan]
  /\ UNCHANGED <<account, scope, cursor, filtered, arrived, document, dropped, syncRun, webhook>>

(* Each event id is stored once.  With an active scope the handler updates    *)
(* the event it stored, which the append-only trigger refuses, and everything *)
(* is rolled back: a webhook never starts a sync.                             *)
ProcessConnectorWebhook(id) ==
  /\ account.status = "APPROVED"
  /\ id \notin webhook
  /\ scope.status # "ACTIVE"
  /\ webhook' = webhook \cup {id}
  /\ AtOnce
  /\ UNCHANGED <<account, scope, cursor, filtered, arrived, document, dropped, syncRun, plan>>

(* External: correspondence arrives.                                          *)
MailArrives ==
  /\ arrived < MaxRecords
  /\ arrived' = arrived + 1
  /\ AtOnce
  /\ UNCHANGED <<account, scope, cursor, filtered, document, dropped, syncRun, webhook, plan>>

ConnectorNext ==
  \/ ValidateConnectorAccount \/ DisableConnectorAccount \/ MailArrives
  \/ \E user \in Users : CreateConnectorAccount(user) \/ CreateProjectScope(user)
  \/ \E h \in Handlers, user \in Users : ApproveAccountRead(h, user) \/ ApproveScopeRead(h, user)
  \/ \E h \in Handlers : \/ ApproveConnectorAccount(h) \/ ApproveProjectScope(h)
                         \/ StartManualSync(h) \/ AbandonTransaction(h)
  \/ \E h \in Handlers, drops \in SUBSET Records : ImportRecords(h, drops)
  \/ \E h \in Handlers, k \in Runs : FinishSync(h, k)
  \/ \E id \in WebhookIds : ProcessConnectorWebhook(id)

ConnectorSpec ==
  TransactionsInit /\ ConnectorInit /\ [][ConnectorNext]_<<transactionVars, connectorVars>>

ConnectorTypeOK ==
  /\ account \in [status : AccountStatuses, by : Users \cup {None}, approver : Users \cup {None}]
  /\ scope \in [status : ScopeStatuses, by : Users \cup {None}, approver : Users \cup {None}]
  /\ cursor \in 0 .. MaxRecords /\ arrived \in 0 .. MaxRecords
  /\ filtered \in BOOLEAN
  /\ document \in [Records -> Nat]
  /\ dropped \subseteq Records
  /\ syncRun \in [Runs -> RunStatuses]
  /\ webhook \subseteq WebhookIds
  /\ \A h \in Handlers : plan[h].imports \cup plan[h].drops \subseteq Records

-----------------------------------------------------------------------------
(* Whatever overlaps, nothing is imported outside a scope someone other than  *)
(* its configurer approved, nothing its include rules exclude, and what its   *)
(* filters refuse only after a first sync has overwritten them.               *)
ImportsAreApproved ==
  \A record \in Records : document[record] > 0 =>
    /\ scope.status = "ACTIVE" /\ scope.approver \notin {None, scope.by}
    /\ KindOf[record] # "excluded"
    /\ KindOf[record] = "filtered" => ~filtered

(* The checkpoint may run ahead or, after an overlap, fall back: a record it  *)
(* has passed was imported, does not match, or was dropped by a run, and      *)
(* without overlap it was imported once.                                      *)
CheckpointAccountsForRecords ==
  /\ \A record \in Records : (record <= cursor /\ KindOf[record] = "in_scope") =>
       document[record] > 0 \/ record \in dropped
  /\ ~raced => \A record \in Records : document[record] <= 1

(* Every record is accounted for, the imported ones by an approved scope.     *)
SyncIsAccounted == ImportsAreApproved /\ CheckpointAccountsForRecords

=============================================================================
