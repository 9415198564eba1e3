---------------------------- MODULE ProjectAccess ----------------------------
(* Who may do what to a project: the role tables of packages/authz, the       *)
(* context of a request (apps/web/src/server/authz/context.ts) and the        *)
(* handlers that change what the tables are applied to, services/projects.ts  *)
(* and the organization selection of services/tenants.ts.                     *)
(*                                                                            *)
(* Capabilities the tables and the archived list never tell apart are one     *)
(* member here: "work" stands for the mutating ones of EVENT_DEADLINE and     *)
(* "insight" for its reads, "platform" and "support" for the listed and the   *)
(* unlisted ones of TENANT_PLATFORM_ADMIN, and so on.                         *)
EXTENDS Transactions

VARIABLES
  tenantRole,     \* role of each user's active tenant_membership: no handler here changes it
  projectStatus,  \* project.status of one project
  memberRole,     \* role of each user's active project_membership
  active          \* the users whose cookie names this organization

accessControlVars == <<tenantRole, projectStatus, memberRole, active>>

TenantRoles == {"TENANT_OWNER", "TENANT_ADMIN", "COMMERCIAL_MANAGER", "CONTRACTS_MANAGER",
                "PROJECT_MANAGER", "REVIEWER", "VIEWER"}
ProjectRoles == {"PROJECT_ADMIN", "COMMERCIAL_LEAD", "CONTRACTS_LEAD", "PROJECT_MANAGER",
                 "REVIEWER", "CONTRIBUTOR", "VIEWER"}
ProjectStatuses == {"DRAFT", "ACTIVE", "SUSPENDED", "CLOSED", "ARCHIVED"}

-----------------------------------------------------------------------------
(* The tables.                                                                *)
EventDeadline       == {"work", "event.read", "evaluation.read", "review.read"}
TenantPlatformAdmin == {"platform", "support"}
DocumentRead        == {"document.read", "event.read", "review.read"}
DocumentContribute  == DocumentRead \cup {"document.create", "contract_document.attach"}
ContractReview      == {"contract.review"}
ContractManage      == ContractReview \cup {"contract.manage"}
ContractApprove     == {"contract.approve"}
DocumentManage      == DocumentContribute \cup {"document.manage", "document.archive"}
                       \cup ContractManage \cup EventDeadline
DocumentQuarantine  == {"quarantine.view", "quarantine.manage"}

OwnerCapabilities ==
  {"tenant.read", "tenant.manage", "project.create", "project.read", "project.update",
   "project.archive", "members.read", "members.manage", "audit.read"}
  \cup DocumentManage \cup DocumentQuarantine \cup ContractApprove \cup TenantPlatformAdmin
ManagerCapabilities ==
  {"tenant.read", "project.create", "project.read", "project.update", "members.read",
   "audit.read"} \cup DocumentManage \cup ContractApprove
ProjectManagerCapabilities ==
  {"project.read", "project.update", "members.read", "members.manage"} \cup DocumentManage
ReviewerCapabilities == {"project.read", "members.read"} \cup DocumentRead \cup ContractReview
ViewerCapabilities   == {"project.read", "document.read", "evaluation.read", "review.read"}

TenantRoleCapabilities(role) ==
  CASE role \in {"TENANT_OWNER", "TENANT_ADMIN"} -> OwnerCapabilities
    [] role \in {"COMMERCIAL_MANAGER", "CONTRACTS_MANAGER"} -> ManagerCapabilities
    [] role = "PROJECT_MANAGER" -> ProjectManagerCapabilities \cup {"tenant.read", "project.create"}
    [] role = "REVIEWER" -> ReviewerCapabilities \cup {"tenant.read"}
    [] role = "VIEWER" -> ViewerCapabilities \cup {"tenant.read"}

ProjectRoleCapabilities(role) ==
  CASE role = "PROJECT_ADMIN" ->
         {"project.read", "project.update", "project.archive", "members.read", "members.manage"}
         \cup DocumentManage \cup DocumentQuarantine \cup ContractApprove
    [] role \in {"COMMERCIAL_LEAD", "CONTRACTS_LEAD"} ->
         {"project.read", "project.update", "members.read"} \cup DocumentManage \cup ContractApprove
    [] role = "PROJECT_MANAGER" -> ProjectManagerCapabilities
    [] role = "REVIEWER" -> ReviewerCapabilities
    [] role = "CONTRIBUTOR" -> {"project.read", "members.read"} \cup DocumentContribute
    [] role = "VIEWER" -> ViewerCapabilities
    [] role = None -> {}

(* Mutant: the management of members is missing from the list. *)
MutatingCapabilitiesButMembers ==
  {"project.update", "project.archive", "document.create", "document.manage",
   "document.archive", "quarantine.manage", "contract_document.attach", "contract.manage",
   "contract.review", "contract.approve", "work", "platform"}

MutatingProjectCapabilities ==
  {"project.update", "project.archive", "members.manage", "document.create", "document.manage",
   "document.archive", "quarantine.manage", "contract_document.attach", "contract.manage",
   "contract.review", "contract.approve", "work", "platform"}

ResolveCapabilities(roleInTenant, projectRole, status) ==
  LET merged == TenantRoleCapabilities(roleInTenant) \cup ProjectRoleCapabilities(projectRole)
  IN IF status = "ARCHIVED"
       THEN merged \ (MutatingProjectCapabilities \ {"project.archive", "document.archive"})
       ELSE merged

CanAccessAllTenantProjects(role) ==
  role \in {"TENANT_OWNER", "TENANT_ADMIN", "COMMERCIAL_MANAGER", "CONTRACTS_MANAGER",
            "PROJECT_MANAGER"}

(* Rank 100 is above every other project role.                                *)
CanAssignProjectRole(roleInTenant, projectRole) ==
  \/ roleInTenant \in {"TENANT_OWNER", "TENANT_ADMIN", "PROJECT_MANAGER"}
  \/ projectRole = "PROJECT_ADMIN"

-----------------------------------------------------------------------------
(* The context of a request, read in transactions of their own before the one *)
(* of the handler.                                                            *)
InTenant(user) == user \in active /\ tenantRole[user] # None

Capabilities(user) ==
  IF /\ InTenant(user)
     /\ projectStatus # "ABSENT"
     /\ memberRole[user] # None \/ CanAccessAllTenantProjects(tenantRole[user])
    THEN ResolveCapabilities(tenantRole[user], memberRole[user], projectStatus)
    ELSE {}

ProjectAccessInit ==
  /\ tenantRole \in [Users -> TenantRoles \cup {None}]
  /\ projectStatus = "ABSENT"
  /\ memberRole = [user \in Users |-> None]
  /\ active = {}

SelectActiveTenant(user) ==
  /\ tenantRole[user] # None
  /\ active' = active \cup {user}
  /\ AtOnce
  /\ UNCHANGED <<tenantRole, projectStatus, memberRole>>

CreateProject(user, status) ==
  /\ InTenant(user)
  /\ "project.create" \in TenantRoleCapabilities(tenantRole[user])
  /\ projectStatus = "ABSENT"
  /\ projectStatus' = status
  /\ memberRole' = [memberRole EXCEPT ![user] = "PROJECT_ADMIN"]
  /\ AtOnce
  /\ UNCHANGED <<tenantRole, active>>

(* The project is loaded twice, with nothing between the two that an update   *)
(* could not also do after them: one read.  status "none" leaves it as it is. *)
UpdateProjectRead(h, user, status) ==
  LET restores == projectStatus = "ARCHIVED" /\ status \notin {"none", "ARCHIVED"}
  IN /\ "project.read" \in Capabilities(user)
     /\ IF restores THEN "project.archive" \in Capabilities(user)
                    ELSE "project.update" \in Capabilities(user)
     /\ status = "ARCHIVED" => "project.archive" \in Capabilities(user)
     /\ projectStatus = "ARCHIVED" => restores
     /\ Begin(h, Work("update_project", user, 0, 0, status))
     /\ UNCHANGED accessControlVars

UpdateProject(h) ==
  /\ Doing(h, "update_project")
  /\ projectStatus' = IF work[h].text = "none" THEN projectStatus ELSE work[h].text
  /\ End(h)
  /\ UNCHANGED <<tenantRole, memberRole, active>>

AddProjectMemberRead(h, user, target, role) ==
  /\ "members.manage" \in Capabilities(user)
  /\ CanAssignProjectRole(tenantRole[user], memberRole[user])
  /\ tenantRole[target] # None
  /\ Begin(h, Work("add_member", target, 0, 0, role))
  /\ UNCHANGED accessControlVars

AddProjectMember(h) ==
  /\ Doing(h, "add_member")
  /\ memberRole' = [memberRole EXCEPT ![work[h].user] = work[h].text]
  /\ End(h)
  /\ UNCHANGED <<tenantRole, projectStatus, active>>

ProjectAccessNext ==
  \/ \E user \in Users : \/ SelectActiveTenant(user)
                         \/ \E status \in ProjectStatuses : CreateProject(user, status)
  \/ \E h \in Handlers :
       \/ \E user \in Users, status \in ProjectStatuses \cup {"none"} :
            UpdateProjectRead(h, user, status)
       \/ \E user \in Users, target \in Users, role \in ProjectRoles :
            AddProjectMemberRead(h, user, target, role)
       \/ UpdateProject(h) \/ AddProjectMember(h)
       \/ RollBack(h) /\ UNCHANGED accessControlVars

ProjectAccessSpec ==
  /\ TransactionsInit /\ ProjectAccessInit
  /\ [][ProjectAccessNext]_<<transactionVars, accessControlVars>>

ProjectAccessTypeOK ==
  /\ tenantRole \in [Users -> TenantRoles \cup {None}]
  /\ projectStatus \in ProjectStatuses \cup {"ABSENT"}
  /\ memberRole \in [Users -> ProjectRoles \cup {None}]
  /\ active \subseteq Users

-----------------------------------------------------------------------------
(* "Archived projects are read-only" (services/projects.ts): as long as       *)
(* handlers do not overlap, nobody's role in an archived project changes and  *)
(* only someone who may archive it brings it back.                            *)
ArchivedIsReadOnly ==
  [][projectStatus = "ARCHIVED" /\ ~raced =>
       /\ memberRole' = memberRole
       /\ projectStatus' # projectStatus =>
            \E h \in Handlers : /\ Doing(h, "update_project")
                                /\ "project.archive" \in Capabilities(work[h].user)]_
    <<transactionVars, accessControlVars>>
==============================================================================
