---------------------------- MODULE PlatformChecks ----------------------------
(* The pure part of packages/platform: environments and their policies, the   *)
(* production configuration check, release manifests and deployment           *)
(* approvals, the pilot's burndown, readiness, defaults and alert             *)
(* deduplication, kill switches and tenant limits.                            *)
(* Digests, urls and secrets are what the checks tell apart of them; times    *)
(* are numbers.                                                               *)
EXTENDS Integers, Sequences, SequencesExt

CONSTANT Unset

Environments == {"LOCAL", "TEST", "CI", "STAGING", "PILOT", "PRODUCTION"}
Restricted   == {"STAGING", "PILOT", "PRODUCTION"}
PilotOrProduction == {"PILOT", "PRODUCTION"}

(* A name of an environment in either spelling; Unset reads as LOCAL, another *)
(* word is refused.                                                           *)
Aliases == [development |-> "LOCAL", dev |-> "LOCAL", local |-> "LOCAL", test |-> "TEST",
            ci |-> "CI", staging |-> "STAGING", stage |-> "STAGING", pilot |-> "PILOT",
            production |-> "PRODUCTION", prod |-> "PRODUCTION"]
ParseAppEnvironment(raw) ==
  CASE raw = Unset -> "LOCAL"
    [] raw \in DOMAIN Aliases -> Aliases[raw]
    [] OTHER -> "REFUSED"
(* CONTRACTRADAR_ENV wins; under CI only APP_ENV does; then APP_ENV, NODE_ENV. *)
ResolveAppEnvironment(contractradarEnv, appEnv, nodeEnv, ci) ==
  IF contractradarEnv # Unset THEN ParseAppEnvironment(contractradarEnv)
  ELSE IF appEnv # Unset THEN ParseAppEnvironment(appEnv)
  ELSE IF ci THEN "CI" ELSE ParseAppEnvironment(nodeEnv)

Policy(env) ==
  [allowFakeProviders           |-> env \notin Restricted,
   allowLocalCaptureProviders   |-> env \notin PilotOrProduction,
   allowTestPurgeGucs           |-> env \notin Restricted,
   allowDebugRoutes             |-> env \in {"LOCAL", "TEST"},
   allowDevAuthShortcuts        |-> env \notin Restricted,
   requireStrongSecrets         |-> env \in Restricted,
   requireClamav                |-> env \in Restricted,
   requireMigrateRoleSeparation |-> env \notin {"LOCAL", "TEST"},
   rejectDefaultCredentials     |-> env \in Restricted]

(* A url is there or not; its role is Unset when it is absent, names no user  *)
(* or cannot be parsed. The presence check looks at the url and the equality  *)
(* check at named roles, so a url without a role passes both. A scanner that  *)
(* is not named at all is no error.                                           *)
FakeProviders == {"fake", "fake_test", "local_fixture", "local_capture", "deterministic"}
SuperuserRoles == {"postgres", "contractradar"}
Finding(condition, code) == IF condition THEN {code} ELSE {}
ConfigErrors(env, config) ==
  LET policy == Policy(env)
      restricted == env \in Restricted
  IN Finding(~config.databaseUrl, "CFG_DB_MISSING")
     \cup Finding(~config.redis /\ restricted, "CFG_REDIS_MISSING")
     \cup Finding(~config.storage /\ restricted, "CFG_S3_MISSING")
     \cup Finding(policy.requireMigrateRoleSeparation /\ ~config.migrateUrl,
                  "CFG_MIGRATE_URL_MISSING")
     \cup Finding(/\ policy.requireMigrateRoleSeparation /\ config.migrateUrl
                  /\ config.databaseRole # Unset /\ config.migrateRole = config.databaseRole,
                  "CFG_DB_ROLE_COLLAPSE")
     \cup Finding(config.databaseRole \in SuperuserRoles /\ restricted, "CFG_RUNTIME_SUPERUSER")
     \cup Finding(policy.requireStrongSecrets /\ config.authSecret = "weak",
                  "CFG_AUTH_SECRET_WEAK")
     \cup Finding(policy.requireStrongSecrets /\ config.authSecret = "placeholder",
                  "CFG_AUTH_SECRET_PLACEHOLDER")
     \cup Finding(policy.rejectDefaultCredentials /\ config.defaultCredentials,
                  "CFG_DEFAULT_CREDENTIALS")
     \cup Finding(config.allowDevDefaults /\ restricted, "CFG_DEV_DEFAULTS")
     \cup Finding(config.allowTestPurge /\ ~policy.allowTestPurgeGucs, "CFG_TEST_PURGE_ENABLED")
     \cup Finding(policy.requireClamav /\ config.malwareScanner \notin {Unset, "clamav"},
                  "CFG_SCANNER")
     \cup Finding(~policy.allowFakeProviders /\ config.providers \cap FakeProviders # {},
                  "CFG_FAKE_PROVIDER")
     \cup Finding(env \in PilotOrProduction /\ ~config.cookieSecure, "CFG_INSECURE_COOKIE")
ValidateProductionConfig(raw, config) ==
  LET env == ParseAppEnvironment(raw)
  IN IF env = "REFUSED" THEN [ok |-> FALSE, errors |-> {"REFUSED"}]
     ELSE [ok |-> ConfigErrors(env, config) = {}, errors |-> ConfigErrors(env, config)]

------------------------------------------------------------------------------
(* A digest is "immutable", "placeholder" (well formed, with a marker) or     *)
(* "malformed"; a tag is "latest" or another one.                             *)
ImageOk(image, strict) ==
  /\ image.digest \in (IF strict THEN {"immutable"} ELSE {"immutable", "placeholder"})
  /\ image.tag # "latest"
DigestOk(digest, strict) == digest \in (IF strict THEN {"immutable"} ELSE {"immutable", "placeholder"})
ReleaseManifestErrors(m, strict) ==
  Finding(~m.wellFormed, "fields")
  \cup Finding(m.gitSha # "sha", "gitSha")
  \cup Finding(strict /\ m.migrationVersion = "placeholder", "migrationVersion")
  \cup Finding(m.images = {} \/ \E image \in m.images : ~ImageOk(image, strict), "images")
  \cup Finding(~DigestOk(m.sbomDigest, strict), "sbomDigest")
  \cup Finding(\/ m.vulnerabilityPolicyDigest = "malformed"
               \/ strict /\ m.vulnerabilityPolicyDigest = "placeholder" /\ m.scaffolded,
               "vulnerabilityPolicyDigest")
CreateReleaseManifestDraft(m) ==
  IF ReleaseManifestErrors(m, TRUE) = {} THEN "CREATED" ELSE "REFUSED"

ValidateDeploymentApproval(a, now) ==
  Finding(a.approvalId = Unset, "approvalId")
  \cup Finding(a.digests = {}, "imageDigests")
  \cup Finding(a.environment \notin {"STAGING", "PILOT"}, "environment")
  \cup Finding(a.status = "APPROVED" /\ a.approvedBy = Unset, "approvedBy")
  \cup Finding(a.status = "APPROVED" /\ a.expiresAt < now, "expiresAt")

(* Mutant: every approved digest is deployed, others may be too. *)
IsDeployAllowedSubset(a, expected, now) ==
  /\ a.releaseId = expected.releaseId /\ a.gitSha = expected.gitSha
  /\ a.status = "APPROVED" /\ a.approvedBy # Unset
  /\ a.expiresAt >= now
  /\ a.digests \subseteq expected.digests
  /\ a.windowStart # Unset => a.windowStart <= now
  /\ a.windowEnd # Unset => a.windowEnd >= now

(* What the deployment checks of an approval: not its environment.            *)
IsDeployAllowed(a, expected, now) ==
  /\ a.releaseId = expected.releaseId /\ a.gitSha = expected.gitSha
  /\ a.status = "APPROVED" /\ a.approvedBy # Unset
  /\ a.expiresAt >= now
  /\ a.digests = expected.digests
  /\ a.windowStart # Unset => a.windowStart <= now
  /\ a.windowEnd # Unset => a.windowEnd >= now

------------------------------------------------------------------------------
(* Vulnerability exceptions before the pilot.                                 *)
BurndownBlockers(ex, today, synthetic) ==
  Finding(ex.expiresAt < today, "expired")
  \cup Finding(ex.burndownClass \in {"FIX_NOW", "FIX_BEFORE_PILOT"}, "class")
  \cup Finding(ex.severity = "critical" /\ ex.classification = "runtime", "critical_runtime")
  \cup Finding(/\ ex.burndownClass = "UPSTREAM_BLOCKED" /\ ~synthetic
               /\ ex.decision # "PILOT_APPROVED_EXCEPTION", "undecided")
EvaluatePilotBurndown(exceptions, today, synthetic) ==
  LET active == {ex \in exceptions : ex.status = "active"}
  IN IF \E ex \in active : BurndownBlockers(ex, today, synthetic) # {} THEN "BLOCKED"
     ELSE IF active # {} THEN "PASS_WITH_APPROVED_EXCEPTIONS" ELSE "PASS"

ReadyItem(item) == item.status \in {"READY", "READY_WITH_EXCEPTIONS"}
ReadinessBlockers(items) ==
  {item \in items : ~ReadyItem(item) /\ (item.nonWaivable \/ ~item.approvedException)}
EvaluatePilotReadiness(items) ==
  LET blockers == ReadinessBlockers(items)
      hard     == {item \in items : item.nonWaivable /\ ~ReadyItem(item)}
  IN IF blockers = {} THEN [status |-> "READY", canActivate |-> TRUE]
     ELSE [status |-> IF hard # {} THEN "BLOCKED" ELSE "READY_WITH_EXCEPTIONS",
           canActivate |-> /\ hard = {}
                           /\ \A i \in items : i.approvedException \/ i.status = "READY"]

PilotFlags == {"aiEnabled", "realConnectorsEnabled", "noticeDeliveryEnabled",
               "autonomousSyncEnabled", "allowFakeProviders", "allowDevDefaults"}
ResolvePilotCapabilityFlags(overrides) == overrides \ {"allowFakeProviders"}
PilotDefaultViolations(flags) == flags \cap (PilotFlags \ {"allowDevDefaults"})

(* An alert with a fingerprint already sent less than a window ago is dropped; *)
(* the clock of the calls need not rise.                                      *)
Emit(sent, alert, window) ==
  IF /\ alert.fingerprint \in DOMAIN sent.last
     /\ alert.now - sent.last[alert.fingerprint] < window
  THEN sent
  ELSE [routed |-> Append(sent.routed, alert),
        last   |-> [f \in DOMAIN sent.last \cup {alert.fingerprint} |->
                      IF f = alert.fingerprint THEN alert.now ELSE sent.last[f]]]
NothingSent == [routed |-> <<>>, last |-> [f \in {} |-> 0]]
Pipeline(alerts, window) ==
  LET sent[n \in 0 .. Len(alerts)] ==
        IF n = 0 THEN NothingSent ELSE Emit(sent[n - 1], alerts[n], window)
  IN sent[Len(alerts)]

IsKillSwitchActive(switches, key, tenant) ==
  \E s \in switches : /\ s.key = key /\ s.enabled
                      /\ s.scope = "global" \/ (s.scope = "tenant" /\ s.tenantId = tenant)

(* Nearness is compared in percent.                                           *)
EvaluateTenantLimit(used, limit, warningPercent) ==
  [allowed |-> used < limit, nearLimit |-> used >= limit \/ 100 * used >= warningPercent * limit]
==============================================================================
