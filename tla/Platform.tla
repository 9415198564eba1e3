------------------------------- MODULE Platform -------------------------------
(* Tenant administration: invitations, support access, kill switches, pilot   *)
(* readiness and provider enablement, apps/web/src/server/services/platform.ts*)
(* with packages/platform/src/pilot-readiness.ts and the row level security   *)
(* of the slice 9 migration.                                                  *)
(*                                                                            *)
(* All invitations are for the same person.  Every item of the default        *)
(* checklist is non-waivable; NOT_STARTED stands for every status that is not *)
(* ready.  Tenant settings, feature flags, limits and backup records are rows *)
(* of single writes nothing here reads.                                       *)
EXTENDS Transactions

CONSTANTS MaxInvitations,  \* bound: invitations
          MaxRequests,     \* bound: support access requests
          MaxItems         \* bound: items of the pilot readiness checklist

Invitations == 1 .. MaxInvitations
Requests    == 1 .. MaxRequests
Items       == 1 .. MaxItems

InvitationStatuses == {"ABSENT", "INVITED", "ACTIVE", "DISABLED"}
RequestStatuses    == {"ABSENT", "REQUESTED", "ACTIVE", "REVOKED"}
ItemStatuses       == {"NOT_STARTED", "READY_WITH_EXCEPTIONS", "READY"}
AssessmentStatuses == {"ABSENT", "IN_PROGRESS", "BLOCKED", "READY"}
ProviderStatuses   == {"ABSENT", "TECHNICAL_VALIDATION", "APPROVED_FOR_PILOT", "ENABLED"}

ASSUME PlatformAssumption ==
  MaxInvitations \in Nat /\ MaxRequests \in Nat /\ MaxItems \in Nat

VARIABLES
  invitation,  \* tenant_invitation rows
  member,      \* the invitation the person's active membership comes from, 0 without one
  request,     \* support_access_request rows
  session,     \* active support_access_audit_session rows of each request
  killSwitch,  \* the tenant's provider_kill_switch row of one key is enabled
  item,        \* pilot_readiness_item rows of the assessment
  assessment,  \* pilot_readiness_assessment.status
  pilot,       \* a pilot_configuration is active
  provider     \* one provider_enablement

platformVars == <<invitation, member, request, session, killSwitch, item, assessment, pilot,
                  provider>>
accessVars == <<invitation, member, request, session>>
pilotVars  == <<item, assessment, pilot>>

Invitation(status, expired) == [status |-> status, expired |-> expired]
Request(status, operator, approver) ==
  [status |-> status, operator |-> operator, approver |-> approver]
Provider(status, by, approver) == [status |-> status, by |-> by, approver |-> approver]

NoInvitation == Invitation("ABSENT", FALSE)
NoRequest    == Request("ABSENT", None, None)

PlatformInit ==
  /\ invitation = [i \in Invitations |-> NoInvitation]
  /\ member = 0
  /\ request = [r \in Requests |-> NoRequest]
  /\ session = [r \in Requests |-> 0]
  /\ killSwitch = FALSE
  /\ item = [i \in Items |-> "NOT_STARTED"]
  /\ assessment = "ABSENT"
  /\ pilot = FALSE
  /\ provider = Provider("ABSENT", None, None)

-----------------------------------------------------------------------------
(* Invitations.                                                               *)
InviteTenantUser(i) ==
  /\ NextId(i, invitation, NoInvitation)
  /\ invitation' = [invitation EXCEPT ![i] = Invitation("INVITED", FALSE)]
  /\ AtOnce
  /\ UNCHANGED <<member, request, session, killSwitch, pilotVars, provider>>

(* Time passes: seven days after the invitation.                              *)
InvitationExpires(i) ==
  /\ invitation[i] = Invitation("INVITED", FALSE)
  /\ invitation' = [invitation EXCEPT ![i].expired = TRUE]
  /\ AtOnce
  /\ UNCHANGED <<member, request, session, killSwitch, pilotVars, provider>>

AcceptInvitationRead(h, i) ==
  /\ invitation[i] = Invitation("INVITED", FALSE)
  /\ Begin(h, Work("accept_invitation", None, i, 0, "none"))
  /\ UNCHANGED platformVars

AcceptInvitation(h) ==
  /\ Doing(h, "accept_invitation")
  /\ member' = work[h].id
  /\ invitation' = [invitation EXCEPT ![work[h].id].status = "ACTIVE"]
  /\ End(h)
  /\ UNCHANGED <<request, session, killSwitch, pilotVars, provider>>

RevokeInvitationRead(h, i) ==
  /\ invitation[i].status = "INVITED"
  /\ Begin(h, Work("revoke_invitation", None, i, 0, "none"))
  /\ UNCHANGED platformVars

RevokeInvitation(h) ==
  /\ Doing(h, "revoke_invitation")
  /\ invitation' = [invitation EXCEPT ![work[h].id].status = "DISABLED"]
  /\ End(h)
  /\ UNCHANGED <<member, request, session, killSwitch, pilotVars, provider>>

-----------------------------------------------------------------------------
(* Support access.  Nothing ends a session at its expiry; revoking looks at   *)
(* no status.                                                                 *)
RequestSupportAccess(r, operator) ==
  /\ NextId(r, request, NoRequest)
  /\ request' = [request EXCEPT ![r] = Request("REQUESTED", operator, None)]
  /\ AtOnce
  /\ UNCHANGED <<invitation, member, session, killSwitch, pilotVars, provider>>

ApproveSupportRead(h, user, r) ==
  /\ request[r].status = "REQUESTED"
  /\ request[r].operator # user
  /\ Begin(h, Work("approve_support", user, r, 0, "none"))
  /\ UNCHANGED platformVars

ApproveSupportAccess(h) ==
  LET r == work[h].id IN
  /\ Doing(h, "approve_support")
  /\ request' = [request EXCEPT ![r] = Request("ACTIVE", request[r].operator, work[h].user)]
  /\ session' = [session EXCEPT ![r] = @ + 1]
  /\ End(h)
  /\ UNCHANGED <<invitation, member, killSwitch, pilotVars, provider>>

(* Mutant: the sessions of the request go on. *)
RevokeSupportRequestOnly(r) ==
  /\ request[r] # NoRequest
  /\ request' = [request EXCEPT ![r].status = "REVOKED"]
  /\ AtOnce
  /\ UNCHANGED <<invitation, member, session, killSwitch, pilotVars, provider>>

RevokeSupportAccess(r) ==
  /\ request[r] # NoRequest
  /\ request' = [request EXCEPT ![r].status = "REVOKED"]
  /\ session' = [session EXCEPT ![r] = 0]
  /\ AtOnce
  /\ UNCHANGED <<invitation, member, killSwitch, pilotVars, provider>>

-----------------------------------------------------------------------------
(* A switch of scope global has no tenant, and row level security refuses the *)
(* row: only the tenant's own switch is ever set.  No service asks for it.    *)
SetKillSwitch(enabled) ==
  /\ killSwitch' = enabled
  /\ AtOnce
  /\ UNCHANGED <<accessVars, pilotVars, provider>>

-----------------------------------------------------------------------------
(* Pilot readiness: evaluatePilotReadiness of non-waivable items.             *)
Ready(items) == \A i \in Items : items[i] \in {"READY", "READY_WITH_EXCEPTIONS"}

CreatePilotReadinessAssessment ==
  /\ assessment = "ABSENT"
  /\ assessment' = "IN_PROGRESS"
  /\ AtOnce
  /\ UNCHANGED <<accessVars, killSwitch, item, pilot, provider>>

(* The item is written, then the items are read: another update that is not   *)
(* committed yet is not seen.                                                 *)
UpdateItemRead(h, i, status) ==
  /\ assessment # "ABSENT"
  /\ Begin(h, Work("update_item", None, i,
                   IF Ready([item EXCEPT ![i] = status]) THEN 1 ELSE 0, status))
  /\ UNCHANGED platformVars

UpdatePilotReadinessItem(h) ==
  /\ Doing(h, "update_item")
  /\ item' = [item EXCEPT ![work[h].id] = work[h].text]
  /\ assessment' = IF work[h].number = 1 THEN "READY" ELSE "BLOCKED"
  /\ End(h)
  /\ UNCHANGED <<accessVars, killSwitch, pilot, provider>>

ActivatePilotRead(h) ==
  /\ assessment # "ABSENT"
  /\ Ready(item)
  /\ Begin(h, Work("activate_pilot", None, 0, 0, "none"))
  /\ UNCHANGED platformVars

ActivatePilot(h) ==
  /\ Doing(h, "activate_pilot")
  /\ pilot' = TRUE
  /\ End(h)
  /\ UNCHANGED <<accessVars, killSwitch, item, assessment, provider>>

-----------------------------------------------------------------------------
(* Provider enablement.  The initial status is approvable.                    *)
CreateProviderEnablement(user) ==
  /\ provider.status = "ABSENT"
  /\ provider' = Provider("TECHNICAL_VALIDATION", user, None)
  /\ AtOnce
  /\ UNCHANGED <<accessVars, killSwitch, pilotVars>>

ApproveProviderRead(h, user, status) ==
  /\ provider.status \in {"TECHNICAL_VALIDATION", "APPROVED_FOR_PILOT"}
  /\ provider.by # user
  /\ status \in {"APPROVED_FOR_PILOT", "ENABLED"}
  /\ Begin(h, Work("approve_provider", user, 0, 0, status))
  /\ UNCHANGED platformVars

ApproveProviderEnablement(h) ==
  /\ Doing(h, "approve_provider")
  /\ provider' = Provider(work[h].text, provider.by, work[h].user)
  /\ End(h)
  /\ UNCHANGED <<accessVars, killSwitch, pilotVars>>

PlatformNext ==
  \/ \E i \in Invitations : \/ InviteTenantUser(i) \/ InvitationExpires(i)
                            \/ \E h \in Handlers : \/ AcceptInvitationRead(h, i)
                                                   \/ RevokeInvitationRead(h, i)
  \/ \E r \in Requests : \/ \E user \in Users : RequestSupportAccess(r, user)
                         \/ \E h \in Handlers, user \in Users : ApproveSupportRead(h, user, r)
                         \/ RevokeSupportAccess(r)
  \/ \E enabled \in BOOLEAN : SetKillSwitch(enabled)
  \/ CreatePilotReadinessAssessment
  \/ \E user \in Users : CreateProviderEnablement(user)
  \/ \E h \in Handlers :
       \/ \E i \in Items, status \in ItemStatuses : UpdateItemRead(h, i, status)
       \/ \E user \in Users, status \in ProviderStatuses : ApproveProviderRead(h, user, status)
       \/ ActivatePilotRead(h)
       \/ AcceptInvitation(h) \/ RevokeInvitation(h) \/ ApproveSupportAccess(h)
       \/ UpdatePilotReadinessItem(h) \/ ActivatePilot(h) \/ ApproveProviderEnablement(h)
       \/ RollBack(h) /\ UNCHANGED platformVars

PlatformSpec ==
  TransactionsInit /\ PlatformInit /\ [][PlatformNext]_<<transactionVars, platformVars>>

PlatformTypeOK ==
  /\ invitation \in [Invitations -> [status : InvitationStatuses, expired : BOOLEAN]]
  /\ member \in Invitations \cup {0}
  /\ request \in [Requests -> [status : RequestStatuses, operator : Users \cup {None},
                               approver : Users \cup {None}]]
  /\ session \in [Requests -> Nat]
  /\ killSwitch \in BOOLEAN /\ pilot \in BOOLEAN
  /\ item \in [Items -> ItemStatuses]
  /\ assessment \in AssessmentStatuses
  /\ provider \in [status : ProviderStatuses, by : Users \cup {None}, approver : Users \cup {None}]

-----------------------------------------------------------------------------
(* Whatever overlaps, nobody approved a support session or a provider of      *)
(* their own; and unless handlers overlap, a membership comes from an         *)
(* invitation that was accepted and not revoked, a request has a session      *)
(* exactly while it is active, one, and the assessment says what its items do.*)
GrantsAreBacked ==
  /\ \A r \in Requests : request[r].status = "ACTIVE" =>
       request[r].approver \notin {None, request[r].operator}
  /\ provider.status \in {"APPROVED_FOR_PILOT", "ENABLED"} =>
       provider.approver \notin {None, provider.by}
  /\ ~raced =>
       /\ member # 0 => invitation[member].status = "ACTIVE"
       /\ \A r \in Requests : session[r] = IF request[r].status = "ACTIVE" THEN 1 ELSE 0
       /\ assessment \in {"READY", "BLOCKED"} => (assessment = "READY" <=> Ready(item))

(* A pilot goes live with every item ready, unless an item changed while the  *)
(* activation was under way.                                                  *)
PilotStartsReady ==
  [][pilot' # pilot /\ ~raced => Ready(item)]_<<transactionVars, platformVars>>
=============================================================================
