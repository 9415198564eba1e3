------------------------------- MODULE Services -------------------------------
(* The services of the web application that share no rows with one another:   *)
(* contract configuration, connectors, operations, platform administration,   *)
(* notice records, projects and rate limits.  A behaviour is a behaviour of   *)
(* one of them, the one that is busy, so that one run explores them all.      *)
EXTENDS ContractConfiguration, ConnectorSync, Operations, Platform, NoticeRecords,
        ProjectAccess, RateLimit

VARIABLE busy

Parts == {"contracts", "connectors", "operations", "platform", "notices", "projects", "limits"}

ServicesInit ==
  /\ TransactionsInit
  /\ ContractInit /\ ConnectorInit /\ OperationsInit /\ PlatformInit /\ RecordsInit
  /\ ProjectAccessInit /\ RateLimitInit
  /\ busy \in Parts
  /\ busy # "projects" => tenantRole = [user \in Users |-> None]
  /\ busy # "limits" => failsClosed

ContractStep ==
  /\ busy = "contracts"
  /\ ContractNext
  /\ UNCHANGED <<connectorVars, operationsVars, platformVars, recordsVars, accessControlVars,
                 rateLimitVars, busy>>

ConnectorStep ==
  /\ busy = "connectors"
  /\ ConnectorNext
  /\ UNCHANGED <<contractVars, operationsVars, platformVars, recordsVars, accessControlVars,
                 rateLimitVars, busy>>

OperationsStep ==
  /\ busy = "operations"
  /\ OperationsNext
  /\ UNCHANGED <<contractVars, connectorVars, platformVars, recordsVars, accessControlVars,
                 rateLimitVars, busy>>

PlatformStep ==
  /\ busy = "platform"
  /\ PlatformNext
  /\ UNCHANGED <<contractVars, connectorVars, operationsVars, recordsVars, accessControlVars,
                 rateLimitVars, busy>>

RecordsStep ==
  /\ busy = "notices"
  /\ RecordsNext
  /\ UNCHANGED <<contractVars, connectorVars, operationsVars, platformVars, accessControlVars,
                 rateLimitVars, busy>>

ProjectStep ==
  /\ busy = "projects"
  /\ ProjectAccessNext
  /\ UNCHANGED <<contractVars, connectorVars, operationsVars, platformVars, recordsVars,
                 rateLimitVars, busy>>

LimitStep ==
  /\ busy = "limits"
  /\ RateLimitNext
  /\ UNCHANGED <<contractVars, connectorVars, operationsVars, platformVars, recordsVars,
                 accessControlVars, busy>>

ServicesNext ==
  \/ ContractStep \/ ConnectorStep \/ OperationsStep \/ PlatformStep \/ RecordsStep
  \/ ProjectStep \/ LimitStep

servicesVars ==
  <<transactionVars, contractVars, connectorVars, operationsVars, platformVars, recordsVars,
    accessControlVars, rateLimitVars, busy>>

Spec == ServicesInit /\ [][ServicesNext]_servicesVars

ServicesTypeOK ==
  /\ TransactionsTypeOK /\ busy \in Parts
  /\ ContractTypeOK /\ ConnectorTypeOK /\ OperationsTypeOK /\ PlatformTypeOK /\ RecordsTypeOK
  /\ ProjectAccessTypeOK /\ RateLimitTypeOK

-----------------------------------------------------------------------------
(* Decisions stand unless handlers overlap: a superseded configuration and    *)
(* its snapshots (contracts.ts), a settled alert and a completed task         *)
(* (operations.ts) are never brought back by a later request.                 *)
DecisionsStand == SupersededStaysSuperseded /\ SettledStaysSettled

(* Conditions are still met when they take effect, unless handlers overlap: a *)
(* pilot goes live with every item ready (platform.ts) and an archived        *)
(* project is read-only (projects.ts).                                        *)
GatesHold == PilotStartsReady /\ ArchivedIsReadOnly
===============================================================================
