----------------------------- MODULE MC_Services -----------------------------
(* Model values, symmetry and the small instances TLC explores of each        *)
(* service: a state is explored further as long as it fits one of them.       *)
EXTENDS Services, TLC

CONSTANTS h1, h2, u1, u2, p1, p2, e1

MC_Handlers   == {h1, h2}
MC_Users      == {u1, u2}
MC_Projects   == {p1, p2}  \* also the recipients
MC_WebhookIds == {e1}
MC_KindOf     == <<"in_scope", "filtered", "excluded">>

MC_Symmetry == Permutations(Handlers) \cup Permutations(Users) \cup Permutations(Projects)

Rows(table, noRow) == Cardinality({i \in DOMAIN table : table[i] # noRow})

(* Reviews while nothing is submitted, revisions of nothing, and revisions    *)
(* whose one rule is reviewed while they are submitted and decided.           *)
UnderReview(f) ==
  /\ f.corrections = 0 /\ f.issue = "ABSENT"
  /\ {f.clause, f.obligation} \subseteq {"ABSENT", "MACHINE_SUGGESTED"}
  /\ f.rule.unit \in {"NONE", "CALENDAR_DAY"}
  /\ f.rule.status \in {"ABSENT", "MACHINE_SUGGESTED", "VERIFIED", "REJECTED"}
  /\ ~f.rule.uncertain

ContractInstances ==
  \/ Rows(configuration, NoConfiguration) = 0 /\ Quiet
  \/ /\ Rows(configuration, NoConfiguration) = 0
     /\ \A a \in Analyses : found[a].issue = "ABSENT" /\ found[a].obligation = "ABSENT"
  \/ \A a \in Analyses : found[a] = NothingFound
  \/ /\ Rows(configuration, NoConfiguration) <= 2
     /\ \A a \in Analyses : UnderReview(found[a])
     /\ \A h \in Handlers : work[h].text # "APPROVED" /\ work[h].number = 0

Held == UNION {{<<project, condition>> : condition \in holds[project]} : project \in Projects}
Alerted == {key \in Keys : alert[key] # <<>>}
OperationsInstances ==
  \/ /\ policy.status = "ABSENT" /\ Rows(task, "ABSENT") = 0
     /\ Cardinality(Alerted) <= 1 /\ \A key \in Keys : Len(alert[key]) <= 2
     /\ Cardinality(Held) <= 1
  \/ Held = {} /\ Alerted = {}

PlatformInstances ==
  /\ \A r \in Requests : session[r] <= 2
  /\ Cardinality({part \in {"invitations", "support", "pilot", "provider"} :
       CASE part = "invitations" -> Rows(invitation, NoInvitation) > 0
         [] part = "support" -> Rows(request, NoRequest) > 0
         [] part = "pilot" -> assessment # "ABSENT"
         [] part = "provider" -> provider.status # "ABSENT" \/ killSwitch}) <= 1

NoQuestionsAsked == \A q \in Questions : question[q] = NoQuestion
NothingAttached  == \A q \in Attachments : attachment[q] = NoAttachment
NothingVerified  == /\ linked = {} /\ verified = {}
                    /\ \A t \in FactTypes : fact[t].status \in {"ABSENT", "UNVERIFIED"}
RecordsInstances ==
  \/ /\ NoQuestionsAsked /\ NothingAttached /\ exception = {}
     /\ Cardinality(linked) <= 1
     /\ linked # {} => verified = {} /\ fact["OTHER"] = NoFact
  \/ NoQuestionsAsked /\ NothingVerified
  \/ NothingAttached /\ NothingVerified /\ exception = {}

Texts == {work[h].text : h \in Handlers}
ProjectInstances ==
  /\ \A user \in Users :
       /\ tenantRole[user] \in {"TENANT_OWNER", "COMMERCIAL_MANAGER", "PROJECT_MANAGER", "VIEWER"}
       /\ memberRole[user] \in {None, "PROJECT_ADMIN", "COMMERCIAL_LEAD"}
  /\ projectStatus \in {"ABSENT", "ACTIVE", "ARCHIVED"}
  /\ Texts \subseteq {"none", "ACTIVE", "ARCHIVED", "PROJECT_ADMIN", "COMMERCIAL_LEAD"}

MC_Instances ==
  /\ busy = "contracts" => ContractInstances
  /\ busy = "operations" => OperationsInstances
  /\ busy = "platform" => PlatformInstances
  /\ busy = "notices" => RecordsInstances
  /\ busy = "projects" => ProjectInstances
==============================================================================
