---------------------------- MODULE Algorithms_proofs ----------------------------
(* What the pure packages answer is right for every input of their types: the *)
(* list a rule walks over may have any length. A recursive function of the    *)
(* code's loop is shown to exist by Iteration, and what it computes is shown  *)
(* by SetInduction over the numbers of steps taken.                           *)
EXTENDS Algorithms, Lists, FiniteSetTheorems, SequenceTheorems, TLAPS

-----------------------------------------------------------------------------
(* Induction and recursion.                                                   *)

(* A non-empty set of naturals has a least member.                            *)
LEMMA Least ==
  ASSUME NEW T \in SUBSET Nat, T # {}
  PROVE  \E x \in T : \A y \in T : x <= y
<1> DEFINE Below == {0 .. x : x \in T}
           R     == StrictSubsetOrdering(Nat)
<1>1. Below \in SUBSET FiniteSubsetsOf(Nat)
  <2>1. ASSUME NEW x \in T PROVE 0 .. x \in FiniteSubsetsOf(Nat)
    BY FS_Interval DEF FiniteSubsetsOf
  <2> QED BY <2>1
<1>2. Below # {}
  OBVIOUS
<1>3. PICK s \in Below : \A t \in Below : ~ (<<t, s>> \in R)
  <2>1. IsWellFoundedOn(R, FiniteSubsetsOf(Nat))
    BY FS_StrictSubsetOrderingWellFounded
  <2> HIDE DEF Below, R
  <2> QED BY <1>1, <1>2, <2>1, WFMin
<1>4. PICK x \in T : s = 0 .. x
  OBVIOUS
<1>5. ASSUME NEW y \in T, y < x PROVE FALSE
  <2>1. 0 .. y \subseteq 0 .. x /\ 0 .. y # 0 .. x
    <3>1. x \in 0 .. x /\ x \notin 0 .. y
      BY <1>5
    <3> QED BY <1>5, <3>1
  <2>2. <<0 .. y, s>> \in R
    BY <1>4, <2>1 DEF StrictSubsetOrdering
  <2> QED BY <1>3, <2>2
<1> QED BY <1>5

(* Induction over the naturals, said of a set.                                *)
LEMMA SetInduction ==
  ASSUME NEW T, 0 \in T, \A n \in Nat : n \in T => n + 1 \in T
  PROVE  \A n \in Nat : n \in T
<1>1. SUFFICES ASSUME Nat \ T # {} PROVE FALSE
  OBVIOUS
<1>2. PICK m \in Nat \ T : \A k \in Nat \ T : m <= k
  <2>1. Nat \ T \in SUBSET Nat
    OBVIOUS
  <2> QED BY <1>1, <2>1, Least
<1>3. m # 0 /\ m - 1 \in Nat
  OBVIOUS
<1>4. m - 1 \in T
  BY <1>2, <1>3
<1> QED BY <1>3, <1>4

(* A function can be built step by step: base first, and the n-th value from  *)
(* the one before it by the n-th step.                                        *)
Steps(N, S) == [1..N -> [S -> S]]
Iterates(f, N, S, base, step) ==
  f \in [0..N -> S] /\ f[0] = base /\ \A n \in 1..N : f[n] = step[n][f[n - 1]]

LEMMA Iteration ==
  ASSUME NEW N \in Nat, NEW S, NEW base \in S, NEW step \in Steps(N, S)
  PROVE  \E f : Iterates(f, N, S, base, step)
<1> USE DEF Steps
<1> DEFINE Good(f, n) == f[0] = base /\ \A i \in 1..n : f[i] = step[i][f[i - 1]]
           T == {n \in Nat : n <= N => \E f \in [0..n -> S] : Good(f, n)}
<1>1. 0 \in T
  <2>1. [i \in 0..0 |-> base] \in [0..0 -> S] /\ Good([i \in 0..0 |-> base], 0)
    OBVIOUS
  <2> QED BY <2>1
<1>2. ASSUME NEW n \in Nat, n \in T PROVE n + 1 \in T
  <2>1. SUFFICES ASSUME n + 1 <= N PROVE \E f \in [0..n + 1 -> S] : Good(f, n + 1)
    OBVIOUS
  <2>2. PICK f \in [0..n -> S] : Good(f, n)
    BY <1>2, <2>1
  <2> DEFINE g == [i \in 0..n + 1 |-> IF i = n + 1 THEN step[n + 1][f[n]] ELSE f[i]]
  <2>3. g \in [0..n + 1 -> S]
    BY <2>1
  <2>4. g[0] = base
    BY <2>2
  <2>5. ASSUME NEW i \in 1..n + 1 PROVE g[i] = step[i][g[i - 1]]
    <3>1. i \in 0..n + 1 /\ i - 1 \in 0..n + 1 /\ i - 1 \in 0..n /\ i - 1 # n + 1
      OBVIOUS
    <3>2. g[i - 1] = f[i - 1]
      BY <3>1
    <3>3. CASE i = n + 1
      BY <3>1, <3>2, <3>3
    <3>4. CASE i # n + 1
      <4>1. i \in 1..n /\ g[i] = f[i]
        BY <3>1, <3>4
      <4> QED BY <2>2, <3>2, <4>1
    <3> QED BY <3>3, <3>4
  <2> QED BY <2>3, <2>4, <2>5
<1>3. N \in T
  <2> HIDE DEF T
  <2> QED BY <1>1, <1>2, SetInduction
<1> QED BY <1>3 DEF Iterates

-----------------------------------------------------------------------------
(* An answer is what the package computes of the input.                       *)
Computed(s, inputs, value) == subject = s => input \in inputs /\ answer \in {None, value}

DeploymentsComputed ==
  /\ Computed("config", ConfigInputs, Checks!ValidateProductionConfig(input.raw, input.config))
  /\ Computed("deployment", DeploymentInputs,
       [valid  |-> Checks!ValidateDeploymentApproval(input.approval, input.now) = {},
        deploy |-> Checks!IsDeployAllowed(input.approval, input.expected, input.now)])
  /\ Computed("readiness", ReadinessInputs,
       [burndown  |-> Checks!EvaluatePilotBurndown(input.exceptions, input.today, input.synthetic),
        readiness |-> Checks!EvaluatePilotReadiness(input.items)])
  /\ Computed("manifest", ManifestInputs, Checks!CreateReleaseManifestDraft(input))
  /\ Computed("environment", EnvironmentInputs,
       LET env == Checks!ResolveAppEnvironment(input.contractradarEnv, input.appEnv,
                                               input.nodeEnv, input.ci)
       IN [env |-> env, fakes |-> Checks!Policy(env).allowFakeProviders,
           created |-> {Connect!CreateConnectorProvider(input.kind, input.appEnv),
                        Delivery!CreateNoticeDeliveryProvider(input.kind, input.appEnv)}])
  /\ Computed("limit", LimitInputs,
       [limit  |-> Checks!EvaluateTenantLimit(input.used, input.limit, input.warningPercent),
        killed |-> Checks!IsKillSwitchActive(input.switches, "email", input.tenant)])
  /\ Computed("pipeline", PipelineInputs, Checks!Pipeline(input.alerts, input.window).routed)

LEMMA DeploymentsAreComputed == Spec => []DeploymentsComputed
<1>1. Init => DeploymentsComputed
  BY DEF Init, Ask, DeploymentsComputed, Computed
<1>2. DeploymentsComputed /\ [Next]_vars => DeploymentsComputed'
  <2> SUFFICES ASSUME DeploymentsComputed, [Next]_vars PROVE DeploymentsComputed'
    OBVIOUS
  <2> USE DEF DeploymentsComputed, Computed, Answer
  <2>1. CASE ValidateConfig
    BY <2>1 DEF ValidateConfig
  <2>2. CASE AllowDeployment
    BY <2>2 DEF AllowDeployment
  <2>3. CASE AssessReadiness
    BY <2>3 DEF AssessReadiness
  <2>4. CASE CheckManifest
    BY <2>4 DEF CheckManifest
  <2>5. CASE ResolveEnvironment
    BY <2>5 DEF ResolveEnvironment
  <2>6. CASE CheckLimits
    BY <2>6 DEF CheckLimits
  <2>7. CASE SendAlerts
    BY <2>7 DEF SendAlerts
  <2>8. CASE UNCHANGED vars
    BY <2>8 DEF vars
  <2>9. CASE \/ CalculateDeadline \/ MatchScope \/ ListPages \/ ValidateWebhook \/ EvaluateAlerts
             \/ Escalate \/ Detect \/ CheckSuggestion \/ Draft \/ ValidateAiSections
             \/ AssessEvidence \/ BuildArchive \/ SendAndClassify \/ AssessReceipt \/ AssessRisk
             \/ ValidateDraft \/ CheckDispatch \/ BuildPage
    BY <2>9 DEF CalculateDeadline, MatchScope, ListPages, ValidateWebhook, EvaluateAlerts,
                Escalate, Detect, CheckSuggestion, Draft, ValidateAiSections, AssessEvidence,
                BuildArchive, SendAndClassify, AssessReceipt, AssessRisk, ValidateDraft,
                CheckDispatch, BuildPage
  <2> QED BY <2>1, <2>2, <2>3, <2>4, <2>5, <2>6, <2>7, <2>8, <2>9 DEF Next
<1> QED BY <1>1, <1>2, PTL DEF Spec

(* A configuration that passes in a pilot or in production.                   *)
LEMMA ProductionConfigs ==
  ASSUME NEW i \in ConfigInputs, i.raw \in {"pilot", "production", "prod"},
         Checks!ValidateProductionConfig(i.raw, i.config).ok
  PROVE  /\ i.config.databaseUrl /\ i.config.migrateUrl
         /\ i.config.databaseRole # None => i.config.migrateRole # i.config.databaseRole
         /\ i.config.authSecret = "strong"
         /\ i.config.databaseRole \notin Checks!SuperuserRoles
         /\ i.config.providers \cap Checks!FakeProviders = {}
<1> DEFINE env == Checks!ParseAppEnvironment(i.raw)
           config == i.config
<1>1. env \in {"PILOT", "PRODUCTION"}
  BY NoneAssumption DEF Checks!ParseAppEnvironment, Checks!Aliases
<1>2. Checks!ConfigErrors(env, config) = {}
  BY <1>1 DEF Checks!ValidateProductionConfig
<1> HIDE DEF env, config
<1>3. /\ Checks!Policy(env).requireMigrateRoleSeparation
      /\ Checks!Policy(env).requireStrongSecrets
      /\ ~Checks!Policy(env).allowFakeProviders
  BY <1>1 DEF Checks!Policy, Checks!Restricted, Checks!PilotOrProduction
<1>4. env \in Checks!Restricted
  BY <1>1 DEF Checks!Restricted
<1> USE DEF Checks!ConfigErrors, Checks!Finding
<1>5. config.databaseUrl
  BY <1>2
<1>6. config.migrateUrl
  BY <1>2, <1>3
<1>7. config.databaseRole # None => config.migrateRole # config.databaseRole
  BY <1>2, <1>3, <1>6
<1>8. config.databaseRole \notin Checks!SuperuserRoles
  BY <1>2, <1>4
<1>9. config.authSecret \notin {"weak", "placeholder"}
  BY <1>2, <1>3
<1>10. config.providers \cap Checks!FakeProviders = {}
  BY <1>2, <1>3
<1> QED BY <1>5, <1>6, <1>7, <1>8, <1>9, <1>10, InputsAssumption DEF config

(* A deployment that is allowed, and a manifest that is created.              *)
LEMMA Deployments ==
  ASSUME NEW i \in DeploymentInputs, Checks!IsDeployAllowed(i.approval, i.expected, i.now)
  PROVE  /\ i.approval.digests = i.expected.digests
         /\ i.approval.status = "APPROVED" /\ i.approval.approvedBy # None
         /\ i.now <= i.approval.expiresAt
         /\ i.approval.windowStart = None \/ i.approval.windowStart <= i.now
         /\ i.approval.windowEnd = None \/ i.now <= i.approval.windowEnd
BY InputsAssumption DEF Checks!IsDeployAllowed

LEMMA Manifests ==
  ASSUME NEW m, Checks!CreateReleaseManifestDraft(m) = "CREATED"
  PROVE  /\ m.sbomDigest = "immutable" /\ m.images # {}
         /\ \A image \in m.images : image.digest = "immutable" /\ image.tag # "latest"
<1>1. Checks!ReleaseManifestErrors(m, TRUE) = {}
  BY DEF Checks!CreateReleaseManifestDraft
<1> USE DEF Checks!ReleaseManifestErrors, Checks!Finding
<1>2. m.images # {} /\ \A image \in m.images : Checks!ImageOk(image, TRUE)
  BY <1>1
<1>3. Checks!DigestOk(m.sbomDigest, TRUE)
  BY <1>1
<1> QED BY <1>2, <1>3 DEF Checks!ImageOk, Checks!DigestOk

(* No variable brings the fakes where they are not allowed.                   *)
LEMMA Environments ==
  ASSUME NEW raw, NEW appEnv, NEW nodeEnv, NEW ci, NEW env,
         env = Checks!ResolveAppEnvironment(raw, appEnv, nodeEnv, ci)
  PROVE  /\ Checks!Policy(env).allowFakeProviders => env \notin Checks!Restricted
         /\ raw \in {"pilot", "production"} => ~Checks!Policy(env).allowFakeProviders
<1>1. Checks!Policy(env).allowFakeProviders <=> env \notin Checks!Restricted
  BY DEF Checks!Policy
<1>2. ASSUME raw \in {"pilot", "production"} PROVE env \in Checks!Restricted
  <2>1. env = Checks!ParseAppEnvironment(raw)
    BY <1>2, NoneAssumption DEF Checks!ResolveAppEnvironment
  <2>2. Checks!ParseAppEnvironment(raw) \in {"PILOT", "PRODUCTION"}
    BY <1>2, NoneAssumption DEF Checks!ParseAppEnvironment, Checks!Aliases
  <2> QED BY <2>1, <2>2 DEF Checks!Restricted
<1> QED BY <1>1, <1>2

LEMMA Providers ==
  ASSUME NEW kind, NEW appEnv \in {"staging", "production"}
  PROVE  /\ Connect!CreateConnectorProvider(kind, appEnv) # "fake"
         /\ Delivery!CreateNoticeDeliveryProvider(kind, appEnv) # "fake"
BY DEF Connect!CreateConnectorProvider, Connect!ConnectorProviderAllowed,
       Delivery!CreateNoticeDeliveryProvider, Delivery!DeliveryProviderAllowed

(* Limits and kill switches.                                                  *)
LEMMA Limits ==
  ASSUME NEW i \in LimitInputs
  PROVE  LET limit == Checks!EvaluateTenantLimit(i.used, i.limit, i.warningPercent)
         IN /\ limit.allowed <=> i.used + 1 <= i.limit
            /\ ~limit.allowed => limit.nearLimit
<1>1. i.used \in Nat /\ i.limit \in Nat
  BY InputsAssumption
<1>2. /\ Checks!EvaluateTenantLimit(i.used, i.limit, i.warningPercent).allowed <=> i.used < i.limit
      /\ i.used >= i.limit =>
           Checks!EvaluateTenantLimit(i.used, i.limit, i.warningPercent).nearLimit
  BY DEF Checks!EvaluateTenantLimit
<1> QED BY <1>1, <1>2

LEMMA KillSwitches ==
  ASSUME NEW i \in LimitInputs, ~Checks!IsKillSwitchActive(i.switches, "email", i.tenant),
         NEW s \in i.switches, s.enabled, s.key = "email"
  PROVE  s.scope = "tenant" /\ s.tenantId # i.tenant
BY InputsAssumption DEF Checks!IsKillSwitchActive

(* The pilot's readiness and its burndown.                                    *)
LEMMA Readiness ==
  ASSUME NEW items, Checks!EvaluatePilotReadiness(items).canActivate, NEW item \in items
  PROVE  Checks!ReadyItem(item) \/ ~item.nonWaivable
<1>1. CASE Checks!ReadinessBlockers(items) = {}
  BY <1>1 DEF Checks!ReadinessBlockers
<1>2. CASE Checks!ReadinessBlockers(items) # {}
  <2>1. {x \in items : x.nonWaivable /\ ~Checks!ReadyItem(x)} = {}
    BY <1>2 DEF Checks!EvaluatePilotReadiness
  <2> QED BY <2>1
<1> QED BY <1>1, <1>2

LEMMA Burndown ==
  ASSUME NEW i \in ReadinessInputs,
         Checks!EvaluatePilotBurndown(i.exceptions, i.today, i.synthetic) # "BLOCKED",
         NEW ex \in i.exceptions, ex.status = "active"
  PROVE  ex.expiresAt >= i.today /\ ex.burndownClass \notin {"FIX_NOW", "FIX_BEFORE_PILOT"}
<1>1. Checks!BurndownBlockers(ex, i.today, i.synthetic) = {}
  BY DEF Checks!EvaluatePilotBurndown
<1>2. ~(ex.expiresAt < i.today) /\ ex.burndownClass \notin {"FIX_NOW", "FIX_BEFORE_PILOT"}
  BY <1>1 DEF Checks!BurndownBlockers, Checks!Finding
<1> QED BY <1>2, InputsAssumption

(* The alert pipeline. What holds of it after n alerts: two sent alerts of    *)
(* one fingerprint are a window apart, the map keeps the time of the last one *)
(* sent, and every alert so far was sent or came within a window of one.      *)
Apart(routed, window) ==
  \A a, b \in DOMAIN routed :
    a < b /\ routed[a].fingerprint = routed[b].fingerprint =>
      routed[b].now - routed[a].now >= window
Remembered(routed, last) ==
  /\ \A a \in DOMAIN routed : /\ routed[a].fingerprint \in DOMAIN last
                              /\ routed[a].now <= last[routed[a].fingerprint]
  /\ \A f \in DOMAIN last :
       \E a \in DOMAIN routed : routed[a].fingerprint = f /\ routed[a].now = last[f]
Represented(alert, routed, window) ==
  \E a \in DOMAIN routed : /\ routed[a].fingerprint = alert.fingerprint
                           /\ alert.now - routed[a].now < window
PipelineInv(sent, n, alerts, window) ==
  /\ sent.routed \in Seq({alerts[m] : m \in DOMAIN alerts})
  /\ Apart(sent.routed, window)
  /\ Remembered(sent.routed, sent.last)
  /\ \A m \in 1..n : Represented(alerts[m], sent.routed, window)

LEMMA Emission ==
  ASSUME NEW alerts, IsList(alerts), \A m \in DOMAIN alerts : alerts[m].now \in Int,
         NEW window \in Nat \ {0}, NEW sent, NEW n \in Nat, n + 1 \in DOMAIN alerts,
         PipelineInv(sent, n, alerts, window)
  PROVE  PipelineInv(Checks!Emit(sent, alerts[n + 1], window), n + 1, alerts, window)
<1> DEFINE alert == alerts[n + 1]
           next  == Checks!Emit(sent, alert, window)
           S     == {alerts[m] : m \in DOMAIN alerts}
<1>1. alert \in S /\ alert.now \in Int /\ \A x \in S : x.now \in Int
  OBVIOUS
<1>2. /\ sent.routed \in Seq(S) /\ Apart(sent.routed, window)
      /\ Remembered(sent.routed, sent.last)
      /\ \A m \in 1..n : Represented(alerts[m], sent.routed, window)
  BY DEF PipelineInv
<1>3. \A a \in DOMAIN sent.routed : sent.routed[a].now \in Int
  BY <1>1, <1>2
<1>4. \A f \in DOMAIN sent.last : sent.last[f] \in Int
  BY <1>2, <1>3 DEF Remembered
<1>5. CASE /\ alert.fingerprint \in DOMAIN sent.last
           /\ alert.now - sent.last[alert.fingerprint] < window
  <2>1. next = sent
    <3> HIDE DEF alert
    <3> QED BY <1>5, Zenon DEF Checks!Emit
  <2>2. Represented(alert, sent.routed, window)
    BY <1>2, <1>5 DEF Remembered, Represented
  <2>3. \A m \in 1..n + 1 : Represented(alerts[m], sent.routed, window)
    BY <1>2, <2>2
  <2> HIDE DEF next
  <2> QED BY <1>2, <2>1, <2>3 DEF PipelineInv, next
<1>6. CASE ~(/\ alert.fingerprint \in DOMAIN sent.last
             /\ alert.now - sent.last[alert.fingerprint] < window)
  <2> DEFINE N == Len(sent.routed) + 1
             routed == sent.routed
             kept   == next.routed
  <2>1. /\ kept = Append(routed, alert)
        /\ DOMAIN next.last = DOMAIN sent.last \cup {alert.fingerprint}
        /\ next.last[alert.fingerprint] = alert.now
        /\ \A f \in DOMAIN sent.last \ {alert.fingerprint} : next.last[f] = sent.last[f]
    BY <1>6 DEF Checks!Emit
  <2> HIDE DEF next
  <2>2. /\ kept \in Seq(S) /\ N \in Nat /\ N \in DOMAIN kept
        /\ DOMAIN routed = 1..N - 1 /\ DOMAIN kept = 1..N
        /\ kept[N] = alert
        /\ \A a \in DOMAIN routed : kept[a] = routed[a]
    BY <1>1, <1>2, <2>1
  <2>3. \A a \in DOMAIN kept : a \in DOMAIN routed \/ a = N
    BY <2>2
  <2>4. \A a \in DOMAIN routed : a < N
    BY <2>2
  <2> HIDE DEF N, S, alert, kept, routed
  <2>5. \A a \in DOMAIN routed : routed[a].fingerprint = alert.fingerprint =>
          /\ alert.now - routed[a].now >= window /\ routed[a].now <= alert.now
    <3>1. ASSUME NEW a \in DOMAIN routed, routed[a].fingerprint = alert.fingerprint
          PROVE  alert.now - routed[a].now >= window /\ routed[a].now <= alert.now
      <4>1. /\ alert.fingerprint \in DOMAIN sent.last
            /\ routed[a].now <= sent.last[alert.fingerprint]
        BY <1>2, <3>1 DEF Remembered, routed
      <4>2. /\ routed[a].now \in Int /\ sent.last[alert.fingerprint] \in Int
        BY <1>3, <1>4, <4>1 DEF routed
      <4>3. ~(alert.now - sent.last[alert.fingerprint] < window)
        BY <1>6, <4>1
      <4> QED BY <1>1, <4>1, <4>2, <4>3
    <3> QED BY <3>1
  <2>6. Apart(kept, window)
    <3>1. ASSUME NEW a \in DOMAIN kept, NEW b \in DOMAIN kept, a < b,
                 kept[a].fingerprint = kept[b].fingerprint
          PROVE  kept[b].now - kept[a].now >= window
      <4>1. a \in DOMAIN routed
        BY <2>2, <2>3, <3>1
      <4>2. CASE b = N
        BY <2>2, <2>5, <3>1, <4>1, <4>2
      <4>3. CASE b \in DOMAIN routed
        BY <1>2, <2>2, <3>1, <4>1, <4>3 DEF Apart, routed
      <4> QED BY <2>3, <4>2, <4>3
    <3> QED BY <3>1 DEF Apart
  <2>7. Remembered(kept, next.last)
    <3>1. ASSUME NEW a \in DOMAIN kept
          PROVE  /\ kept[a].fingerprint \in DOMAIN next.last
                 /\ kept[a].now <= next.last[kept[a].fingerprint]
      <4>1. CASE a = N
        BY <1>1, <2>1, <2>2, <4>1
      <4>2. CASE a \in DOMAIN routed /\ routed[a].fingerprint = alert.fingerprint
        BY <2>1, <2>2, <2>5, <4>2
      <4>3. CASE a \in DOMAIN routed /\ routed[a].fingerprint # alert.fingerprint
        BY <1>2, <2>1, <2>2, <4>3, SMTT(20) DEF Remembered, routed
      <4> QED BY <2>3, <4>1, <4>2, <4>3
    <3>2. ASSUME NEW f \in DOMAIN next.last
          PROVE  \E a \in DOMAIN kept : kept[a].fingerprint = f /\ kept[a].now = next.last[f]
      <4>1. CASE f = alert.fingerprint
        BY <2>1, <2>2, <4>1
      <4>2. CASE f # alert.fingerprint
        <5>1. PICK a \in DOMAIN routed : routed[a].fingerprint = f /\ routed[a].now = sent.last[f]
          BY <1>2, <2>1, <4>2 DEF Remembered, routed
        <5> QED BY <2>1, <2>2, <4>2, <5>1
      <4> QED BY <4>1, <4>2
    <3> QED BY <3>1, <3>2 DEF Remembered
  <2>8. ASSUME NEW m \in 1..n + 1 PROVE Represented(alerts[m], kept, window)
    <3>1. CASE m = n + 1
      BY <1>1, <2>2, <3>1 DEF Represented, alert
    <3>2. CASE m # n + 1
      <4>1. m \in 1..n
        BY <3>2
      <4>2. Represented(alerts[m], routed, window)
        BY <1>2, <4>1 DEF routed
      <4> QED BY <2>2, <4>2 DEF Represented
    <3> QED BY <3>1, <3>2
  <2> QED BY <2>2, <2>6, <2>7, <2>8 DEF PipelineInv, S, alert, next, kept
<1> QED BY <1>5, <1>6

LEMMA EmissionIsTyped ==
  ASSUME NEW S, \A x \in S : x.now \in Int, NEW alert \in S, NEW window,
         NEW sent \in [routed : Seq(S),
                      last : UNION {[D -> Int] : D \in SUBSET {x.fingerprint : x \in S}}]
  PROVE  Checks!Emit(sent, alert, window)
           \in [routed : Seq(S),
               last : UNION {[D -> Int] : D \in SUBSET {x.fingerprint : x \in S}}]
<1> DEFINE last == [f \in DOMAIN sent.last \cup {alert.fingerprint} |->
                      IF f = alert.fingerprint THEN alert.now ELSE sent.last[f]]
<1>1. PICK D \in SUBSET {x.fingerprint : x \in S} : sent.last \in [D -> Int]
  OBVIOUS
<1>2. DOMAIN sent.last \cup {alert.fingerprint} \in SUBSET {x.fingerprint : x \in S}
  BY <1>1
<1>3. last \in [DOMAIN sent.last \cup {alert.fingerprint} -> Int]
  BY <1>1
<1>4. Append(sent.routed, alert) \in Seq(S)
  OBVIOUS
<1>5. Checks!Emit(sent, alert, window) \in {sent, [routed |-> Append(sent.routed, alert), last |-> last]}
  BY DEF Checks!Emit
<1> HIDE DEF last
<1>6. last \in UNION {[E -> Int] : E \in SUBSET {x.fingerprint : x \in S}}
  BY <1>2, <1>3
<1> QED BY <1>4, <1>5, <1>6

(* The pipeline sends an alert once a window, and none is lost.               *)
LEMMA Pipelines ==
  ASSUME NEW i \in PipelineInputs
  PROVE  PipelineInv(Checks!Pipeline(i.alerts, i.window), Len(i.alerts), i.alerts, i.window)
<1> DEFINE alerts == i.alerts
           window == i.window
           L == Len(i.alerts)
           S == {alerts[m] : m \in DOMAIN alerts}
           Sents == [routed : Seq(S),
                     last : UNION {[D -> Int] : D \in SUBSET {x.fingerprint : x \in S}}]
           sent == CHOOSE g : g = [n \in 0..Len(i.alerts) |->
                     IF n = 0 THEN Checks!NothingSent
                     ELSE Checks!Emit(g[n - 1], i.alerts[n], i.window)]
<1>1. /\ IsList(alerts) /\ window \in Nat \ {0} /\ \A m \in DOMAIN alerts : alerts[m].now \in Int
      /\ L \in Nat /\ DOMAIN alerts = 1..L
  <2>1. /\ IsList(alerts) /\ window \in Nat \ {0}
        /\ \A m \in DOMAIN alerts : alerts[m].now \in Int
    BY InputsAssumption
  <2>2. alerts \in Seq(S)
    BY <2>1 DEF IsList
  <2> HIDE DEF S
  <2> QED BY <2>1, <2>2
<1>2. Checks!Pipeline(i.alerts, i.window) = sent[L]
  BY DEF Checks!Pipeline
<1>3. sent = [n \in 0..L |-> IF n = 0 THEN Checks!NothingSent
                            ELSE Checks!Emit(sent[n - 1], alerts[n], window)]
  <2> DEFINE step == [n \in 1..L |-> [s \in Sents |-> Checks!Emit(s, alerts[n], window)]]
  <2>1. Checks!NothingSent \in Sents
    <3>1. [f \in {} |-> 0] \in [{} -> Int] /\ {} \in SUBSET {x.fingerprint : x \in S}
      OBVIOUS
    <3>2. [f \in {} |-> 0] \in UNION {[D -> Int] : D \in SUBSET {x.fingerprint : x \in S}}
      BY <3>1
    <3>3. <<>> \in Seq(S)
      OBVIOUS
    <3>4. Checks!NothingSent = [routed |-> <<>>, last |-> [f \in {} |-> 0]]
      BY DEF Checks!NothingSent
    <3> HIDE DEF S
    <3> QED BY <3>2, <3>3, <3>4
  <2>2. step \in Steps(L, Sents)
    <3>1. ASSUME NEW n \in 1..L, NEW s \in Sents
          PROVE  Checks!Emit(s, alerts[n], window) \in Sents
      <4>1. alerts[n] \in S /\ \A x \in S : x.now \in Int
        BY <1>1
      <4> HIDE DEF S
      <4> QED BY <4>1, EmissionIsTyped
    <3> HIDE DEF Sents
    <3> QED BY <3>1 DEF Steps
  <2> HIDE DEF step, Sents
  <2>0. L \in Nat
    BY <1>1
  <2>3. PICK f : Iterates(f, L, Sents, Checks!NothingSent, step)
    BY <2>0, <2>1, <2>2, Iteration
  <2> USE DEF Iterates
  <2>4. \A n \in 1..L : f[n] = Checks!Emit(f[n - 1], alerts[n], window)
    <3>1. ASSUME NEW n \in 1..L PROVE step[n][f[n - 1]] = Checks!Emit(f[n - 1], alerts[n], window)
      <4>1. n - 1 \in 0..L
        BY <1>1
      <4>2. f[n - 1] \in Sents
        BY <2>3, <4>1
      <4> QED BY <4>2 DEF step
    <3> QED BY <2>3, <3>1
  <2>5. f = [n \in 0..L |-> IF n = 0 THEN Checks!NothingSent
                           ELSE Checks!Emit(f[n - 1], alerts[n], window)]
    BY <1>1, <2>3, <2>4
  <2> QED BY <2>5, Zenon
<1> HIDE DEF sent
<1> DEFINE T == {n \in Nat : n <= L => PipelineInv(sent[n], n, alerts, window)}
<1>4. 0 \in T
  <2>1. sent[0] = Checks!NothingSent
    BY <1>1, <1>3
  <2>2. Checks!NothingSent.routed = <<>> /\ DOMAIN Checks!NothingSent.last = {}
    BY DEF Checks!NothingSent
  <2>3. /\ sent[0].routed \in Seq(S) /\ DOMAIN sent[0].routed = {}
        /\ DOMAIN sent[0].last = {} /\ 1..0 = {}
    <3> HIDE DEF S
    <3> QED BY <2>1, <2>2
  <2>4. Apart(sent[0].routed, window) /\ Remembered(sent[0].routed, sent[0].last)
    BY <2>3 DEF Apart, Remembered
  <2>5. PipelineInv(sent[0], 0, alerts, window)
    BY <2>3, <2>4 DEF PipelineInv
  <2> QED BY <2>5
<1>5. ASSUME NEW n \in Nat, n \in T PROVE n + 1 \in T
  <2>1. SUFFICES ASSUME n + 1 <= L PROVE PipelineInv(sent[n + 1], n + 1, alerts, window)
    OBVIOUS
  <2>2. n + 1 \in DOMAIN alerts /\ PipelineInv(sent[n], n, alerts, window)
    BY <1>1, <1>5, <2>1
  <2>3. sent[n + 1] = Checks!Emit(sent[n], alerts[n + 1], window)
    BY <1>1, <1>3, <2>1
  <2> HIDE DEF alerts, window
  <2> QED BY <1>1, <2>2, <2>3, Emission
<1>6. L \in T
  <2> HIDE DEF T
  <2> QED BY <1>1, <1>4, <1>5, SetInduction
<1> QED BY <1>1, <1>2, <1>6

(* What passes the checks of a deployment is what they check: two database    *)
(* urls that do not name one role, the approved digests, no fake provider     *)
(* where the policy or APP_ENV rules them out; and the pilot's alerts are     *)
(* sent once a window (the packages of platform and the provider factories of *)
(* connectors and notice-delivery).                                           *)
THEOREM DeploymentsStayApproved == Spec => []DeploymentsAreApproved
<1>1. DeploymentsComputed => DeploymentsAreApproved
  <2> SUFFICES ASSUME DeploymentsComputed PROVE DeploymentsAreApproved
    OBVIOUS
  <2> USE DEF DeploymentsComputed, Computed, Answered
  <2>1. Answered("config") /\ answer.ok /\ input.raw \in {"pilot", "production", "prod"} =>
          /\ input.config.databaseUrl /\ input.config.migrateUrl
          /\ input.config.databaseRole # None =>
               input.config.migrateRole # input.config.databaseRole
          /\ input.config.authSecret = "strong"
          /\ input.config.databaseRole \notin Checks!SuperuserRoles
          /\ input.config.providers \cap Checks!FakeProviders = {}
    BY ProductionConfigs
  <2>2. Answered("deployment") /\ answer.deploy =>
          /\ input.approval.digests = input.expected.digests
          /\ input.approval.status = "APPROVED" /\ input.approval.approvedBy # None
          /\ input.now <= input.approval.expiresAt
          /\ input.approval.windowStart = None \/ input.approval.windowStart <= input.now
          /\ input.approval.windowEnd = None \/ input.now <= input.approval.windowEnd
    BY Deployments
  <2>3. Answered("manifest") /\ answer = "CREATED" =>
          /\ input.sbomDigest = "immutable" /\ input.images # {}
          /\ \A image \in input.images : image.digest = "immutable" /\ image.tag # "latest"
    BY Manifests
  <2>4. Answered("environment") =>
          /\ answer.fakes => answer.env \notin Checks!Restricted
          /\ input.appEnv \in {"staging", "production"} => "fake" \notin answer.created
          /\ input.contractradarEnv \in {"pilot", "production"} => ~answer.fakes
    BY Environments, Providers
  <2>5. Answered("limit") =>
          /\ answer.limit.allowed <=> input.used + 1 <= input.limit
          /\ ~answer.limit.allowed => answer.limit.nearLimit
          /\ ~answer.killed => \A s \in input.switches :
               s.enabled /\ s.key = "email" => s.scope = "tenant" /\ s.tenantId # input.tenant
    BY Limits, KillSwitches
  <2>6. Answered("readiness") =>
          /\ answer.readiness.canActivate =>
               \A item \in input.items : Checks!ReadyItem(item) \/ ~item.nonWaivable
          /\ answer.burndown # "BLOCKED" =>
               \A ex \in input.exceptions :
                 ex.status = "active" =>
                   ex.expiresAt >= input.today
                     /\ ex.burndownClass \notin {"FIX_NOW", "FIX_BEFORE_PILOT"}
    BY Readiness, Burndown
  <2>7. Answered("pipeline") =>
          /\ \A a, b \in DOMAIN answer :
               a < b /\ answer[a].fingerprint = answer[b].fingerprint =>
                 answer[b].now - answer[a].now >= input.window
          /\ \A n \in DOMAIN input.alerts : \E a \in DOMAIN answer :
               /\ answer[a].fingerprint = input.alerts[n].fingerprint
               /\ input.alerts[n].now - answer[a].now < input.window
    <3> SUFFICES ASSUME Answered("pipeline")
                 PROVE  /\ Apart(answer, input.window)
                        /\ \A n \in DOMAIN input.alerts :
                             Represented(input.alerts[n], answer, input.window)
      BY DEF Apart, Represented
    <3>1. PipelineInv(Checks!Pipeline(input.alerts, input.window), Len(input.alerts),
                      input.alerts, input.window)
      BY Pipelines
    <3>2. DOMAIN input.alerts = 1..Len(input.alerts)
      BY InputsAssumption DEF IsList
    <3> QED BY <3>1, <3>2 DEF PipelineInv
  <2> QED BY <2>1, <2>2, <2>3, <2>4, <2>5, <2>6, <2>7 DEF DeploymentsAreApproved
<1> QED BY <1>1, DeploymentsAreComputed, PTL

-----------------------------------------------------------------------------
(* The least member of a set of naturals, as the packages take it.            *)
LEMMA LeastOf ==
  ASSUME NEW T \in SUBSET Nat, T # {}
  PROVE  Connect!Min(T) \in T /\ \A y \in T : Connect!Min(T) <= y
BY Least DEF Connect!Min

(* Where the first n pieces of a pattern may lie in a text.                   *)
Fits(at, n, parts, text) ==
  /\ at \in [1..n -> 1..Len(text) + 1]
  /\ \A m \in 1..n : /\ Connect!OccursAt(parts[m], text, at[m])
                     /\ m > 1 => at[m - 1] + Len(parts[m - 1]) <= at[m]

(* Searching every piece from the end of the one before it loses nothing: the *)
(* cursor after n pieces is the end of the earliest placement of them.        *)
Greedy(cursor, n, parts, text) ==
  /\ cursor \in Nat
  /\ n = 0 => cursor = 1
  /\ \A at \in [1..n -> 1..Len(text) + 1] : Fits(at, n, parts, text) =>
       cursor # 0 /\ (n > 0 => cursor <= at[n] + Len(parts[n]))
  /\ cursor # 0 => \E at \in [1..n -> 1..Len(text) + 1] :
       Fits(at, n, parts, text) /\ (n > 0 => cursor = at[n] + Len(parts[n]))

(* The cursor after the n-th piece, from the cursor before it.                *)
Found(cursor, n, parts, text) == Connect!Occurrences(parts[n], text, cursor)
Advance(cursor, n, parts, text) ==
  IF cursor = 0 \/ Found(cursor, n, parts, text) = {} THEN 0
  ELSE Connect!Min(Found(cursor, n, parts, text)) + Len(parts[n])

LEMMA FoundIsLeast ==
  ASSUME NEW parts, NEW text, Len(text) \in Nat, NEW n, Len(parts[n]) \in Nat,
         NEW cursor \in Nat, cursor # 0, Found(cursor, n, parts, text) # {}
  PROVE  /\ Advance(cursor, n, parts, text) - Len(parts[n]) \in cursor..Len(text) + 1
         /\ Connect!OccursAt(parts[n], text, Advance(cursor, n, parts, text) - Len(parts[n]))
         /\ Advance(cursor, n, parts, text) \in Nat \ {0}
         /\ \A i \in cursor..Len(text) + 1 : Connect!OccursAt(parts[n], text, i) =>
              Advance(cursor, n, parts, text) <= i + Len(parts[n])
<1> DEFINE least == Connect!Min(Found(cursor, n, parts, text))
<1>1. Found(cursor, n, parts, text) \in SUBSET Nat
  BY DEF Found, Connect!Occurrences
<1>2. least \in Found(cursor, n, parts, text) /\ \A y \in Found(cursor, n, parts, text) : least <= y
  BY <1>1, LeastOf
<1>3. Advance(cursor, n, parts, text) = least + Len(parts[n])
  BY DEF Advance
<1> HIDE DEF least
<1>4. /\ least \in cursor..Len(text) + 1 /\ Connect!OccursAt(parts[n], text, least)
      /\ \A i \in cursor..Len(text) + 1 : Connect!OccursAt(parts[n], text, i) => least <= i
  BY <1>2 DEF Found, Connect!Occurrences
<1>5. least \in Nat /\ least # 0
  BY <1>4
<1>6. Advance(cursor, n, parts, text) - Len(parts[n]) = least
  BY <1>3, <1>5
<1> QED BY <1>3, <1>4, <1>5, <1>6

LEMMA GreedyStep ==
  ASSUME NEW parts, NEW text, Len(text) \in Nat, NEW n \in Nat,
         \A m \in 1..n + 1 : Len(parts[m]) \in Nat,
         NEW cursor, Greedy(cursor, n, parts, text)
  PROVE  Greedy(Advance(cursor, n + 1, parts, text), n + 1, parts, text)
<1> DEFINE next == Advance(cursor, n + 1, parts, text)
           Places == 1..Len(text) + 1
           found == Found(cursor, n + 1, parts, text)
<1>1. cursor \in Nat /\ Len(parts[n + 1]) \in Nat
  BY DEF Greedy
<1>2. cursor # 0 /\ found # {} =>
        /\ next - Len(parts[n + 1]) \in cursor..Len(text) + 1
        /\ Connect!OccursAt(parts[n + 1], text, next - Len(parts[n + 1]))
        /\ next \in Nat \ {0}
        /\ \A i \in cursor..Len(text) + 1 : Connect!OccursAt(parts[n + 1], text, i) =>
             next <= i + Len(parts[n + 1])
  BY <1>1, FoundIsLeast
<1>3. cursor = 0 \/ found = {} => next = 0
  BY DEF Advance
<1>f. \A i : i \in found <=> i \in cursor..Len(text) + 1 /\ Connect!OccursAt(parts[n + 1], text, i)
  BY DEF Found, Connect!Occurrences
<1> HIDE DEF next, found
<1>4. ASSUME NEW at \in [1..n + 1 -> Places], Fits(at, n + 1, parts, text)
      PROVE  next # 0 /\ next <= at[n + 1] + Len(parts[n + 1])
  <2> DEFINE before == [m \in 1..n |-> at[m]]
  <2>1. before \in [1..n -> Places] /\ \A m \in 1..n : before[m] = at[m]
    OBVIOUS
  <2>2. Fits(before, n, parts, text)
    <3> HIDE DEF before
    <3> QED BY <1>4, <2>1 DEF Fits
  <2>3. cursor # 0 /\ (n > 0 => cursor <= before[n] + Len(parts[n]))
    BY <2>1, <2>2 DEF Greedy
  <2>4. cursor <= at[n + 1]
    <3>1. CASE n = 0
      <4>1. cursor = 1 /\ at[n + 1] \in Places
        BY <3>1 DEF Greedy
      <4> QED BY <4>1
    <3>2. CASE n > 0
      <4>1. n \in 1..n /\ n + 1 \in 1..n + 1 /\ n + 1 > 1 /\ (n + 1) - 1 = n
        BY <3>2
      <4>2. at[n] + Len(parts[n]) <= at[n + 1]
        BY <1>4, <4>1 DEF Fits
      <4>3. cursor <= at[n] + Len(parts[n])
        BY <2>1, <2>3, <3>2, <4>1
      <4>4. at[n] \in Nat /\ at[n + 1] \in Nat /\ Len(parts[n]) \in Nat
        BY <4>1
      <4> QED BY <1>1, <4>2, <4>3, <4>4
    <3> QED BY <3>1, <3>2
  <2>5. at[n + 1] \in cursor..Len(text) + 1 /\ Connect!OccursAt(parts[n + 1], text, at[n + 1])
    <3>1. n + 1 \in 1..n + 1
      OBVIOUS
    <3>2. at[n + 1] \in Places
      BY <3>1
    <3> QED BY <1>1, <1>4, <2>4, <3>1, <3>2 DEF Fits
  <2> QED BY <1>2, <1>f, <2>3, <2>5
<1>5. ASSUME next # 0
      PROVE  \E at \in [1..n + 1 -> Places] :
               Fits(at, n + 1, parts, text) /\ next = at[n + 1] + Len(parts[n + 1])
  <2>1. cursor # 0 /\ found # {}
    BY <1>3, <1>5
  <2>2. PICK before \in [1..n -> Places] :
          Fits(before, n, parts, text) /\ (n > 0 => cursor = before[n] + Len(parts[n]))
    BY <2>1 DEF Greedy
  <2> DEFINE last == next - Len(parts[n + 1])
             at   == [m \in 1..n + 1 |-> IF m = n + 1 THEN last ELSE before[m]]
  <2>3. last \in cursor..Len(text) + 1 /\ Connect!OccursAt(parts[n + 1], text, last)
        /\ next = last + Len(parts[n + 1]) /\ last \in Places
    BY <1>1, <1>2, <2>1
  <2> HIDE DEF last
  <2>4. at \in [1..n + 1 -> Places] /\ at[n + 1] = last /\ \A m \in 1..n : at[m] = before[m]
    BY <2>3
  <2> HIDE DEF at
  <2>5. ASSUME NEW m \in 1..n + 1
        PROVE  /\ Connect!OccursAt(parts[m], text, at[m])
               /\ m > 1 => at[m - 1] + Len(parts[m - 1]) <= at[m]
    <3>1. CASE m = n + 1
      <4>1. Connect!OccursAt(parts[m], text, at[m])
        BY <2>3, <2>4, <3>1
      <4>2. ASSUME m > 1 PROVE at[m - 1] + Len(parts[m - 1]) <= at[m]
        <5>1. m - 1 = n /\ n \in 1..n /\ n > 0
          BY <3>1, <4>2
        <5>2. cursor = at[n] + Len(parts[n])
          BY <2>2, <2>4, <5>1
        <5> QED BY <2>3, <2>4, <3>1, <5>1, <5>2
      <4> QED BY <4>1, <4>2
    <3>2. CASE m \in 1..n
      <4>1. m > 1 => m - 1 \in 1..n
        BY <3>2
      <4> QED BY <2>2, <2>4, <3>2, <4>1 DEF Fits
    <3> QED BY <3>1, <3>2
  <2> QED BY <2>3, <2>4, <2>5 DEF Fits
<1>6. next \in Nat
  BY <1>2, <1>3
<1> QED BY <1>4, <1>5, <1>6 DEF Greedy, next

(* The cursor after all pieces is that of the code's loop.                    *)
LEMMA SearchIsGreedy ==
  ASSUME NEW parts, IsList(parts), \A n \in DOMAIN parts : IsList(parts[n]),
         NEW text, IsList(text)
  PROVE  Greedy(Connect!AfterParts(parts, text), Len(parts), parts, text)
<1> DEFINE K == Len(parts)
           after == CHOOSE g : g = [n \in 0..Len(parts) |->
                      IF n = 0 THEN 1
                      ELSE LET found == Connect!Occurrences(parts[n], text, g[n - 1])
                           IN IF g[n - 1] = 0 \/ found = {} THEN 0
                              ELSE Connect!Min(found) + Len(parts[n])]
<1>1. K \in Nat /\ DOMAIN parts = 1..K /\ Len(text) \in Nat
  <2>1. \E X, Y : parts \in Seq(X) /\ text \in Seq(Y)
    BY DEF IsList
  <2> QED BY <2>1
<1>2. \A n \in 1..K : Len(parts[n]) \in Nat
  <2>1. ASSUME NEW n \in 1..K PROVE \E X : parts[n] \in Seq(X)
    BY <1>1 DEF IsList
  <2> QED BY <2>1
<1>3. Connect!AfterParts(parts, text) = after[K]
  BY DEF Connect!AfterParts
<1>4. after = [n \in 0..K |-> IF n = 0 THEN 1 ELSE Advance(after[n - 1], n, parts, text)]
  <2> DEFINE step == [n \in 1..K |-> [c \in Nat |-> Advance(c, n, parts, text)]]
  <2>1. step \in Steps(K, Nat)
    <3>1. ASSUME NEW n \in 1..K, NEW c \in Nat PROVE Advance(c, n, parts, text) \in Nat
      <4>1. CASE c = 0 \/ Found(c, n, parts, text) = {}
        BY <4>1 DEF Advance
      <4>2. CASE c # 0 /\ Found(c, n, parts, text) # {}
        BY <1>1, <1>2, <4>2, FoundIsLeast
      <4> QED BY <4>1, <4>2
    <3> QED BY <3>1 DEF Steps
  <2> HIDE DEF step
  <2>2. PICK f : Iterates(f, K, Nat, 1, step)
    BY <1>1, <2>1, Iteration
  <2>3. ASSUME NEW n \in 1..K PROVE f[n] = Advance(f[n - 1], n, parts, text)
    <3>1. n - 1 \in 0..K
      BY <1>1
    <3>2. f[n - 1] \in Nat /\ f[n] = step[n][f[n - 1]]
      BY <2>2, <3>1 DEF Iterates
    <3> QED BY <3>2 DEF step
  <2>4. f = [n \in 0..K |-> IF n = 0 THEN 1 ELSE Advance(f[n - 1], n, parts, text)]
    BY <1>1, <2>2, <2>3 DEF Iterates
  <2>5. f = [n \in 0..Len(parts) |->
                      IF n = 0 THEN 1
                      ELSE LET found == Connect!Occurrences(parts[n], text, f[n - 1])
                           IN IF f[n - 1] = 0 \/ found = {} THEN 0
                              ELSE Connect!Min(found) + Len(parts[n])]
    BY <2>4, Zenon DEF Advance, Found
  <2>6. after = [n \in 0..Len(parts) |->
                      IF n = 0 THEN 1
                      ELSE LET found == Connect!Occurrences(parts[n], text, after[n - 1])
                           IN IF after[n - 1] = 0 \/ found = {} THEN 0
                              ELSE Connect!Min(found) + Len(parts[n])]
    BY <2>5, Zenon
  <2> HIDE DEF after
  <2> QED BY <2>6, Zenon DEF Advance, Found
<1> HIDE DEF after
<1> DEFINE T == {n \in Nat : n <= K => Greedy(after[n], n, parts, text)}
<1>5. 0 \in T
  <2>1. after[0] = 1
    BY <1>1, <1>4
  <2>2. \E at \in [1..0 -> 1..Len(text) + 1] : Fits(at, 0, parts, text)
    <3>1. [m \in 1..0 |-> 1] \in [1..0 -> 1..Len(text) + 1]
      OBVIOUS
    <3>2. \A m \in 1..0 : FALSE
      OBVIOUS
    <3> QED BY <3>1, <3>2, Zenon DEF Fits
  <2>3. Greedy(1, 0, parts, text)
    <3>1. ~(0 > 0) /\ 1 # 0 /\ 1 \in Nat
      OBVIOUS
    <3> QED BY <2>2, <3>1, Zenon DEF Greedy
  <2> QED BY <2>1, <2>3
<1>6. ASSUME NEW n \in Nat, n \in T PROVE n + 1 \in T
  <2>1. SUFFICES ASSUME n + 1 <= K PROVE Greedy(after[n + 1], n + 1, parts, text)
    OBVIOUS
  <2>2. after[n + 1] = Advance(after[n], n + 1, parts, text)
    BY <1>1, <1>4, <2>1
  <2>3. \A m \in 1..n + 1 : Len(parts[m]) \in Nat
    BY <1>1, <1>2, <2>1
  <2>4. Greedy(after[n], n, parts, text)
    BY <1>1, <1>6, <2>1
  <2> QED BY <1>1, <2>2, <2>3, <2>4, GreedyStep
<1>7. K \in T
  <2> HIDE DEF T, K
  <2> QED BY <1>1, <1>5, <1>6, SetInduction
<1> QED BY <1>1, <1>3, <1>7

LEMMA PatternsMeanWhatTheySay ==
  ASSUME NEW pattern, IsPattern(pattern), NEW text, IsList(text)
  PROVE  Connect!MatchesPattern(pattern, text) <=> Connect!GlobMeans(pattern, text)
<1> DEFINE parts == pattern.parts
<1>1. CASE pattern.star
  <2>1. Greedy(Connect!AfterParts(parts, text), Len(parts), parts, text)
    BY SearchIsGreedy DEF IsPattern
  <2>2. \E X : parts \in Seq(X)
    BY DEF IsPattern, IsList
  <2>3. DOMAIN parts = 1..Len(parts)
    BY <2>2
  <2>4. \A at : at \in Connect!Placements(parts, text) <=> Fits(at, Len(parts), parts, text)
    BY <2>3 DEF Connect!Placements, Fits
  <2>5. Connect!AfterParts(parts, text) # 0 <=>
          \E at \in [1..Len(parts) -> 1..Len(text) + 1] : Fits(at, Len(parts), parts, text)
    BY <2>1 DEF Greedy
  <2>6. Connect!AfterParts(parts, text) # 0 <=> Connect!Placements(parts, text) # {}
    BY <2>4, <2>5 DEF Fits
  <2> QED BY <1>1, <2>6 DEF Connect!MatchesPattern, Connect!GlobMeans
<1>2. CASE ~pattern.star
  BY <1>2 DEF Connect!MatchesPattern, Connect!GlobMeans, Connect!Occurrences
<1> QED BY <1>1, <1>2

LEMMA AnyPattern ==
  ASSUME NEW patterns, \A p \in patterns : IsPattern(p), NEW text, IsList(text)
  PROVE  Connect!MatchesAnyPattern(patterns, text) <=> MeansAny(patterns, text)
BY PatternsMeanWhatTheySay DEF Connect!MatchesAnyPattern, MeansAny

LEMMA Scopes ==
  ASSUME NEW i \in ScopeInputs
  PROVE  (Connect!RecordMatchesScope(i.rules, i.record) = "OK") <=>
           /\ ~MeansAny(i.rules.exclude, i.record.text)
           /\ i.rules.include = {} \/ MeansAny(i.rules.include, i.record.text)
           /\ Connect!IsWithinDateRange(i.record.date, i.rules.from, i.rules.to)
           /\ \/ i.rules.projects = {}
              \/ \E ref \in Connect!References(i.record) : MeansAny(i.rules.projects, ref)
           /\ Connect!IsMimeAllowed(i.record.mime, i.rules.mimes)
<1>1. /\ \A p \in i.rules.include \cup i.rules.exclude \cup i.rules.projects : IsPattern(p)
      /\ IsList(i.record.text)
      /\ \A ref \in Connect!References(i.record) : IsList(ref)
  BY InputsAssumption DEF Connect!References
<1>2. Connect!MatchesIncludeExclude(i.rules.include, i.rules.exclude, i.record.text) <=>
        /\ ~MeansAny(i.rules.exclude, i.record.text)
        /\ i.rules.include = {} \/ MeansAny(i.rules.include, i.record.text)
  <2>1. \A p \in i.rules.include : IsPattern(p)
    BY <1>1
  <2>2. \A p \in i.rules.exclude : IsPattern(p)
    BY <1>1
  <2> QED BY <1>1, <2>1, <2>2, AnyPattern DEF Connect!MatchesIncludeExclude
<1>3. Connect!MatchesProjectReference(i.rules.projects, Connect!References(i.record)) <=>
        \/ i.rules.projects = {}
        \/ \E ref \in Connect!References(i.record) : MeansAny(i.rules.projects, ref)
  <2>1. \A p \in i.rules.projects : IsPattern(p)
    BY <1>1
  <2> QED BY <1>1, <2>1, AnyPattern DEF Connect!MatchesProjectReference
<1> QED BY <1>2, <1>3 DEF Connect!RecordMatchesScope

-----------------------------------------------------------------------------
(* Paging: what has been listed after n pages is what lies between the        *)
(* checkpoint of the run and the cursor, and the cursor moves while pages     *)
(* follow.                                                                    *)
Cursor(checkpoint) == IF checkpoint = None THEN 0 ELSE checkpoint
Listed(state, n, fixtures, from) ==
  LET cursor == Cursor(state.checkpoint)
  IN /\ cursor \in from..Len(fixtures)
     /\ state.listed = SubSeq(fixtures, from + 1, cursor)
     /\ ~state.hasMore => state.checkpoint = Len(fixtures)
     /\ n > 0 /\ state.hasMore => cursor >= n /\ cursor < Len(fixtures)

NextPage(kind, fixtures, was) ==
  LET page == Connect!ListChangedRecords(kind, fixtures, was.checkpoint)
  IN IF ~was.hasMore THEN was
     ELSE [listed |-> was.listed \o page.records, checkpoint |-> page.next,
           hasMore |-> page.hasMore]

(* A page is the records from the cursor on.                                  *)
PageFrom(page, cursor, fixtures) ==
  /\ page.next \in cursor..Len(fixtures)
  /\ page.records = SubSeq(fixtures, cursor + 1, page.next)
  /\ page.hasMore = (page.next < Len(fixtures))
  /\ cursor < Len(fixtures) => page.next > cursor

LEMMA PageIs ==
  ASSUME NEW kind, NEW fixtures, IsList(fixtures), NEW checkpoint \in Nat \cup {None},
         Cursor(checkpoint) <= Len(fixtures)
  PROVE  PageFrom(Connect!ListChangedRecords(kind, fixtures, checkpoint), Cursor(checkpoint),
                  fixtures)
<1> DEFINE cursor == Cursor(checkpoint)
           page == Connect!ListChangedRecords(kind, fixtures, checkpoint)
<1>c. cursor = IF checkpoint = None THEN 0 ELSE checkpoint
  BY DEF Cursor
<1> DEFINE L == Len(fixtures)
           S == {fixtures[n] : n \in DOMAIN fixtures}
<1>1. fixtures \in Seq(S) /\ L \in Nat /\ cursor \in 0..L /\ cursor \in Nat
  BY <1>c DEF IsList
<1> HIDE DEF S, cursor
<1>2. CASE kind = "fake"
  <2> DEFINE to == Connect!Min({cursor + 2, L})
  <2>1. to \in {cursor + 2, L} /\ to <= cursor + 2 /\ to <= L
    <3>1. {cursor + 2, L} \in SUBSET Nat
      BY <1>1
    <3> QED BY <3>1, LeastOf
  <2>2. to \in cursor..L /\ (cursor < L => to > cursor)
    BY <1>1, <2>1
  <2>3. /\ page.records = SubSeq(fixtures, cursor + 1, to)
        /\ page.next = cursor + Len(SubSeq(fixtures, cursor + 1, to))
        /\ page.hasMore = (cursor + Len(SubSeq(fixtures, cursor + 1, to)) < L)
    BY <1>2, <1>c DEF Connect!ListChangedRecords, Connect!FakeListChangedRecords, Connect!Slice,
                Connect!PageSize
  <2> HIDE DEF to
  <2>4. Len(SubSeq(fixtures, cursor + 1, to)) = to - cursor
    BY <1>1, <2>2
  <2>5. cursor + Len(SubSeq(fixtures, cursor + 1, to)) = to
    BY <1>1, <2>2, <2>4
  <2> HIDE DEF page
  <2> QED BY <2>2, <2>3, <2>5 DEF PageFrom, page, cursor
<1>3. CASE kind # "fake"
  <2> DEFINE to == Connect!Min({L})
  <2>1. {L, L} = {L} /\ {L} \in SUBSET Nat
    BY <1>1
  <2>2. Connect!Min({L, L}) = L
    BY <2>1, LeastOf
  <2>3. page = [records |-> SubSeq(fixtures, cursor + 1, L), next |-> L, hasMore |-> FALSE]
    BY <1>3, <1>c, <2>2 DEF Connect!ListChangedRecords, Connect!LocalListChangedRecords,
                            Connect!Slice
  <2> HIDE DEF page, L
  <2>4. page.records = SubSeq(fixtures, cursor + 1, L) /\ page.next = L /\ page.hasMore = FALSE
    BY <2>3
  <2>5. (L < L) = FALSE
    BY <1>1
  <2>6. L \in cursor..L /\ (cursor < L => L > cursor)
    BY <1>1
  <2>7. page.hasMore = (page.next < L)
    BY <2>4, <2>5
  <2> QED BY <2>4, <2>6, <2>7 DEF PageFrom, page, cursor, L
<1> QED BY <1>2, <1>3

LEMMA PageFollows ==
  ASSUME NEW kind, NEW fixtures, IsList(fixtures), NEW from \in 0..Len(fixtures),
         NEW was, was.checkpoint \in Nat \cup {None}, NEW n \in Nat,
         Listed(was, n, fixtures, from)
  PROVE  /\ Listed(NextPage(kind, fixtures, was), n + 1, fixtures, from)
         /\ NextPage(kind, fixtures, was).checkpoint \in Nat \cup {None}
<1> DEFINE next == NextPage(kind, fixtures, was)
           S == {fixtures[m] : m \in DOMAIN fixtures}
           L == Len(fixtures)
<1>1. fixtures \in Seq(S) /\ L \in Nat /\ from \in 0..L /\ from \in Nat
  BY DEF IsList
<1> HIDE DEF S
<1>2. CASE ~was.hasMore
  BY <1>2 DEF NextPage, Listed
<1>3. CASE was.hasMore
  <2> DEFINE cursor == Cursor(was.checkpoint)
             page   == Connect!ListChangedRecords(kind, fixtures, was.checkpoint)
  <2>1. /\ cursor \in from..L /\ was.listed = SubSeq(fixtures, from + 1, cursor)
        /\ n > 0 => cursor >= n /\ cursor < L
    BY <1>3 DEF Listed
  <2>2. /\ page.next \in cursor..L
        /\ page.records = SubSeq(fixtures, cursor + 1, page.next)
        /\ page.hasMore <=> page.next < L
        /\ cursor < L => page.next > cursor
    <3>1. cursor <= L
      BY <1>1, <2>1
    <3>2. PageFrom(page, cursor, fixtures)
      BY <3>1, PageIs
    <3> HIDE DEF page, cursor
    <3> QED BY <3>2 DEF PageFrom
  <2>3. next = [listed |-> was.listed \o page.records, checkpoint |-> page.next,
                hasMore |-> page.hasMore]
    BY <1>3 DEF NextPage
  <2> HIDE DEF page, next, cursor, L
  <2>4. page.next \in Nat /\ page.next # None /\ page.next \in from..L /\ cursor \in Nat
    BY <1>1, <2>1, <2>2, NoneAssumption
  <2>5. was.listed \o page.records = SubSeq(fixtures, from + 1, page.next)
    <3>1. from + 1 \in 1..L + 1 /\ cursor \in (from + 1) - 1..L /\ page.next \in cursor..L
      BY <1>1, <2>1, <2>2
    <3> QED BY <1>1, <2>1, <2>2, <3>1, ConcatAdjacentSubSeq DEF L
  <2>6. page.hasMore => page.next >= n + 1 /\ page.next < L
    <3>1. CASE n = 0
      BY <1>1, <2>1, <2>2, <2>4, <3>1
    <3>2. CASE n > 0
      BY <1>1, <2>1, <2>2, <2>4, <3>2
    <3> QED BY <3>1, <3>2
  <2>7. ~page.hasMore => page.next = L
    BY <1>1, <2>2, <2>4
  <2>8. Listed(next, n + 1, fixtures, from)
    BY <2>3, <2>4, <2>5, <2>6, <2>7 DEF Listed, Cursor, L
  <2> QED BY <2>3, <2>4, <2>8 DEF next
<1> QED BY <1>2, <1>3

(* A sync run lists every record after its checkpoint, in order.              *)
LEMMA Paging ==
  ASSUME NEW i \in PagingInputs
  PROVE  LET run == Connect!ListedByRun(i.kind, i.fixtures, i.checkpoint)
         IN /\ run.listed = SubSeq(i.fixtures, Cursor(i.checkpoint) + 1, Len(i.fixtures))
            /\ run.checkpoint = Len(i.fixtures) /\ ~run.hasMore
<1> DEFINE kind == i.kind
           fixtures == i.fixtures
           L == Len(i.fixtures)
           first == [listed |-> <<>>, checkpoint |-> i.checkpoint, hasMore |-> TRUE]
           from == Cursor(i.checkpoint)
           X == {fixtures[n] : n \in DOMAIN fixtures}
           after == CHOOSE g : g = [n \in 0 .. Len(i.fixtures) + 1 |->
                      IF n = 0 THEN [listed |-> <<>>, checkpoint |-> i.checkpoint, hasMore |-> TRUE]
                      ELSE LET was  == g[n - 1]
                               page == Connect!ListChangedRecords(i.kind, i.fixtures, was.checkpoint)
                           IN IF ~was.hasMore THEN was
                              ELSE [listed |-> was.listed \o page.records,
                                    checkpoint |-> page.next, hasMore |-> page.hasMore]]
<1>1. /\ IsList(fixtures) /\ fixtures \in Seq(X)
      /\ i.checkpoint \in 0..L \cup {None}
  BY InputsAssumption DEF IsList
<1> HIDE DEF X
<1>2. /\ L \in Nat /\ L + 1 \in Nat /\ from \in 0..L
      /\ i.checkpoint \in Nat \cup {None}
  BY <1>1 DEF Cursor
<1>3. Connect!ListedByRun(i.kind, i.fixtures, i.checkpoint) = after[L + 1]
  BY DEF Connect!ListedByRun
<1>4. after = [n \in 0..L + 1 |-> IF n = 0 THEN first ELSE NextPage(kind, fixtures, after[n - 1])]
  <2> DEFINE States == [listed : Seq(X), checkpoint : 0..L \cup {None}, hasMore : BOOLEAN]
             step == [n \in 1..L + 1 |-> [s \in States |-> NextPage(kind, fixtures, s)]]
  <2>1. first \in States
    BY <1>1
  <2>2. ASSUME NEW s \in States PROVE NextPage(kind, fixtures, s) \in States
    <3> DEFINE page == Connect!ListChangedRecords(kind, fixtures, s.checkpoint)
    <3>1. /\ s.checkpoint \in Nat \cup {None} /\ Cursor(s.checkpoint) \in 0..L
          /\ s.listed \in Seq(X)
      BY <1>2 DEF Cursor
    <3>2. PageFrom(page, Cursor(s.checkpoint), fixtures)
      <4>1. Cursor(s.checkpoint) <= Len(fixtures)
        BY <1>2, <3>1
      <4>2. IsList(fixtures)
        BY <1>1
      <4> HIDE DEF L, fixtures, kind
      <4> QED BY <3>1, <4>1, <4>2, PageIs
    <3> HIDE DEF page
    <3>3. /\ page.next \in 0..L /\ page.hasMore \in BOOLEAN
          /\ page.records = SubSeq(fixtures, Cursor(s.checkpoint) + 1, page.next)
      BY <1>2, <3>1, <3>2 DEF PageFrom
    <3>4. page.records \in Seq(X)
      <4>1. \A m \in Cursor(s.checkpoint) + 1..page.next : fixtures[m] \in X
        BY <1>1, <1>2, <3>1, <3>3
      <4>2. Cursor(s.checkpoint) + 1 \in Int /\ page.next \in Int
        BY <3>1, <3>3
      <4> QED BY <3>3, <4>1, <4>2, SubSeqProperties
    <3>5. s.listed \o page.records \in Seq(X)
      BY <3>1, <3>4
    <3>6. NextPage(kind, fixtures, s) \in
            {s, [listed |-> s.listed \o page.records, checkpoint |-> page.next,
                 hasMore |-> page.hasMore]}
      BY DEF NextPage, page
    <3>7. [listed |-> s.listed \o page.records, checkpoint |-> page.next,
           hasMore |-> page.hasMore] \in States
      <4> HIDE DEF L
      <4> QED BY <3>3, <3>5
    <3> HIDE DEF States
    <3> QED BY <3>6, <3>7
  <2> HIDE DEF States
  <2>3. step \in Steps(L + 1, States)
    BY <2>2 DEF Steps
  <2> HIDE DEF step, first
  <2>4. PICK f : Iterates(f, L + 1, States, first, step)
    BY <1>2, <2>1, <2>3, Iteration
  <2>5. ASSUME NEW n \in 1..L + 1 PROVE f[n] = NextPage(kind, fixtures, f[n - 1])
    <3>1. n - 1 \in 0..L + 1
      BY <1>2
    <3>2. f[n - 1] \in States /\ f[n] = step[n][f[n - 1]]
      BY <2>4, <3>1 DEF Iterates
    <3> QED BY <3>2 DEF step
  <2>6. f = [n \in 0..L + 1 |-> IF n = 0 THEN first ELSE NextPage(kind, fixtures, f[n - 1])]
    BY <1>2, <2>4, <2>5 DEF Iterates
  <2>7. f = [n \in 0 .. Len(i.fixtures) + 1 |->
               IF n = 0 THEN [listed |-> <<>>, checkpoint |-> i.checkpoint, hasMore |-> TRUE]
               ELSE LET was  == f[n - 1]
                        page == Connect!ListChangedRecords(i.kind, i.fixtures, was.checkpoint)
                    IN IF ~was.hasMore THEN was
                       ELSE [listed |-> was.listed \o page.records,
                             checkpoint |-> page.next, hasMore |-> page.hasMore]]
    BY <2>6, Zenon DEF NextPage, first
  <2>8. after = [n \in 0 .. Len(i.fixtures) + 1 |->
               IF n = 0 THEN [listed |-> <<>>, checkpoint |-> i.checkpoint, hasMore |-> TRUE]
               ELSE LET was  == after[n - 1]
                        page == Connect!ListChangedRecords(i.kind, i.fixtures, was.checkpoint)
                    IN IF ~was.hasMore THEN was
                       ELSE [listed |-> was.listed \o page.records,
                             checkpoint |-> page.next, hasMore |-> page.hasMore]]
    BY <2>7, Zenon
  <2> HIDE DEF after
  <2> QED BY <2>8, Zenon DEF NextPage, first
<1> HIDE DEF after
<1> DEFINE Reached(n) == /\ Listed(after[n], n, fixtures, from)
                         /\ after[n].checkpoint \in Nat \cup {None}
           T == {n \in Nat : n <= L + 1 => Reached(n)}
<1>5. 0 \in T
  <2>1. after[0] = first
    BY <1>2, <1>4
  <2>2. SubSeq(fixtures, from + 1, from) = <<>>
    BY <1>2, SubSeqEmpty
  <2> HIDE DEF from, fixtures
  <2>3. Listed(first, 0, fixtures, from)
    BY <1>2, <2>2 DEF Listed, from, fixtures
  <2> QED BY <1>2, <2>1, <2>3
<1>6. ASSUME NEW n \in Nat, n \in T PROVE n + 1 \in T
  <2>1. SUFFICES ASSUME n + 1 <= L + 1 PROVE Reached(n + 1)
    OBVIOUS
  <2>2. after[n + 1] = NextPage(kind, fixtures, after[n])
    <3>1. n + 1 \in 0..L + 1 /\ n + 1 # 0 /\ (n + 1) - 1 = n
      BY <1>2, <2>1
    <3> HIDE DEF L, kind, fixtures, first
    <3>2. after[n + 1] = IF n + 1 = 0 THEN first
                         ELSE NextPage(kind, fixtures, after[(n + 1) - 1])
      BY <1>4, <3>1
    <3> QED BY <3>1, <3>2
  <2>3. Reached(n)
    BY <1>2, <1>6, <2>1
  <2> HIDE DEF from, fixtures, kind
  <2> QED BY <1>1, <1>2, <2>2, <2>3, PageFollows DEF fixtures
<1>7. Reached(L + 1)
  <2> HIDE DEF Reached
  <2>1. \A n \in Nat : n \in T
    <3> HIDE DEF T
    <3> QED BY <1>5, <1>6, SetInduction
  <2> QED BY <1>2, <2>1
<1>8. ~after[L + 1].hasMore /\ after[L + 1].checkpoint = L
  <2>1. L + 1 > 0 /\ ~(Cursor(after[L + 1].checkpoint) >= L + 1 /\ Cursor(after[L + 1].checkpoint) < L)
    BY <1>2, <1>7 DEF Listed
  <2> QED BY <1>7, <2>1 DEF Listed
<1>9. Cursor(after[L + 1].checkpoint) = L
  BY <1>2, <1>8, NoneAssumption DEF Cursor
<1> QED BY <1>3, <1>7, <1>8, <1>9 DEF Listed

(* A webhook event that was accepted is remembered.                           *)
LEMMA Webhooks ==
  ASSUME NEW i \in WebhookInputs
  PROVE  LET verdict == Connect!ValidateWebhook(i.signed, i.parses, i.eventId, i.seen)
         IN /\ verdict.ok => /\ i.signed /\ i.parses
                             /\ i.eventId \notin i.seen
                             /\ i.eventId # None => i.eventId \in verdict.seen
            /\ i.seen \subseteq verdict.seen
BY DEF Connect!ValidateWebhook

(* What the connector packages answer.                                        *)
ScopesComputed ==
  /\ Computed("scope", ScopeInputs, Connect!RecordMatchesScope(input.rules, input.record))
  /\ Computed("paging", PagingInputs,
              Connect!ListedByRun(input.kind, input.fixtures, input.checkpoint))
  /\ Computed("webhook", WebhookInputs,
              Connect!ValidateWebhook(input.signed, input.parses, input.eventId, input.seen))

LEMMA ScopesAreComputed == Spec => []ScopesComputed
<1>1. Init => ScopesComputed
  BY DEF Init, Ask, ScopesComputed, Computed
<1>2. ScopesComputed /\ [Next]_vars => ScopesComputed'
  <2> SUFFICES ASSUME ScopesComputed, [Next]_vars PROVE ScopesComputed'
    OBVIOUS
  <2> USE DEF ScopesComputed, Computed, Answer
  <2>1. CASE MatchScope
    BY <2>1 DEF MatchScope
  <2>2. CASE ListPages
    BY <2>2 DEF ListPages
  <2>3. CASE ValidateWebhook
    BY <2>3 DEF ValidateWebhook
  <2>4. CASE UNCHANGED vars
    BY <2>4 DEF vars
  <2>5. CASE \/ CalculateDeadline \/ EvaluateAlerts \/ Escalate \/ Detect \/ CheckSuggestion
             \/ Draft \/ ValidateAiSections \/ AssessEvidence \/ BuildArchive
             \/ SendAndClassify \/ AssessReceipt \/ AssessRisk \/ ValidateConfig
             \/ AllowDeployment \/ AssessReadiness \/ SendAlerts \/ CheckManifest
             \/ ResolveEnvironment \/ CheckLimits \/ ValidateDraft \/ CheckDispatch \/ BuildPage
    BY <2>5 DEF CalculateDeadline, EvaluateAlerts, Escalate, Detect, CheckSuggestion, Draft,
                ValidateAiSections, AssessEvidence, BuildArchive, SendAndClassify,
                AssessReceipt, AssessRisk, ValidateConfig, AllowDeployment, AssessReadiness,
                SendAlerts, CheckManifest, ResolveEnvironment, CheckLimits, ValidateDraft,
                CheckDispatch, BuildPage
  <2> QED BY <2>1, <2>2, <2>3, <2>4, <2>5 DEF Next
<1> QED BY <1>1, <1>2, PTL DEF Spec

(* A scope admits what its patterns mean, a run lists what follows its        *)
(* checkpoint, a webhook event is taken once (packages/connectors).           *)
THEOREM ScopesKeepTheirMeaning == Spec => []ScopesAdmitWhatTheyMean
<1>1. ScopesComputed => ScopesAdmitWhatTheyMean
  <2> SUFFICES ASSUME ScopesComputed PROVE ScopesAdmitWhatTheyMean
    OBVIOUS
  <2> USE DEF ScopesComputed, Computed, Answered
  <2>1. ASSUME Answered("scope")
        PROVE  (answer = "OK") <=>
                 /\ ~MeansAny(input.rules.exclude, input.record.text)
                 /\ input.rules.include = {} \/ MeansAny(input.rules.include, input.record.text)
                 /\ Connect!IsWithinDateRange(input.record.date, input.rules.from, input.rules.to)
                 /\ \/ input.rules.projects = {}
                    \/ \E ref \in Connect!References(input.record) :
                         MeansAny(input.rules.projects, ref)
                 /\ Connect!IsMimeAllowed(input.record.mime, input.rules.mimes)
    BY <2>1, Scopes
  <2>2. ASSUME Answered("paging")
        PROVE  /\ answer.listed = SubSeq(input.fixtures, Cursor(input.checkpoint) + 1,
                                         Len(input.fixtures))
               /\ answer.checkpoint = Len(input.fixtures) /\ ~answer.hasMore
    BY <2>2, Paging
  <2>3. ASSUME Answered("webhook")
        PROVE  /\ answer.ok => /\ input.signed /\ input.parses
                               /\ input.eventId \notin input.seen
                               /\ input.eventId # None => input.eventId \in answer.seen
               /\ input.seen \subseteq answer.seen
    BY <2>3, Webhooks
  <2> QED BY <2>1, <2>2, <2>3 DEF ScopesAdmitWhatTheyMean, Cursor
<1> QED BY <1>1, ScopesAreComputed, PTL

-----------------------------------------------------------------------------
(* Deadlines (packages/contract-rules).                                       *)

(* The day of an instant, and what counting days does to it.                  *)
LEMMA Days ==
  ASSUME NEW at \in Int
  PROVE  /\ Engine!DayOf(at) \in Int
         /\ 3 * Engine!DayOf(at) <= at /\ at < 3 * Engine!DayOf(at) + 3
         /\ \A d \in Int : 3 * d <= at /\ at < 3 * d + 3 => Engine!DayOf(at) = d
BY DEF Engine!DayOf

LEMMA LaterDays ==
  ASSUME NEW at \in Int, NEW n \in Int
  PROVE  /\ Engine!PlusDays(at, n) \in Int
         /\ Engine!DayOf(Engine!PlusDays(at, n)) = Engine!DayOf(at) + n
<1>1. Engine!PlusDays(at, n) = at + 3 * n /\ at + 3 * n \in Int
  BY DEF Engine!PlusDays
<1> DEFINE d == Engine!DayOf(at)
<1>2. d \in Int /\ 3 * d <= at /\ at < 3 * d + 3
  BY Days
<1> HIDE DEF d
<1>3. d + n \in Int /\ 3 * (d + n) <= at + 3 * n /\ at + 3 * n < 3 * (d + n) + 3
  BY <1>2
<1> QED BY <1>1, <1>3, Days DEF d

LEMMA SameCardinality ==
  ASSUME NEW S PROVE Engine!Cardinality(S) = Cardinality(S)
BY DEF Cardinality, Engine!Cardinality

(* The days worked in the n days after a day.                                 *)
Count(day, n, calendar) == Cardinality(Engine!BusinessDaysIn(day + 1, day + n, calendar))

LEMMA Counting ==
  ASSUME NEW day \in Int, NEW calendar
  PROVE  /\ Count(day, 0, calendar) = 0
         /\ \A n \in Nat :
              /\ IsFiniteSet(Engine!BusinessDaysIn(day + 1, day + n, calendar))
              /\ Count(day, n, calendar) \in Nat
              /\ Count(day, n + 1, calendar)
                   = Count(day, n, calendar)
                       + (IF Engine!IsBusinessDay(day + (n + 1), calendar) THEN 1 ELSE 0)
              /\ Count(day + 1, n, calendar) <= Count(day, n + 1, calendar)
<1> DEFINE B(d, n) == Engine!BusinessDaysIn(d + 1, d + n, calendar)
<1>1. ASSUME NEW d \in Int, NEW n \in Nat PROVE IsFiniteSet(B(d, n))
  <2>1. B(d, n) \subseteq d + 1..d + n
    BY DEF Engine!BusinessDaysIn
  <2> QED BY <2>1, FS_Interval, FS_Subset
<1>2. B(day, 0) = {}
  BY DEF Engine!BusinessDaysIn
<1>3. ASSUME NEW n \in Nat
      PROVE  Count(day, n + 1, calendar)
               = Count(day, n, calendar)
                   + (IF Engine!IsBusinessDay(day + (n + 1), calendar) THEN 1 ELSE 0)
  <2> DEFINE last == day + (n + 1)
  <2>1. last \notin B(day, n)
    BY DEF Engine!BusinessDaysIn
  <2>2. CASE Engine!IsBusinessDay(last, calendar)
    <3>1. B(day, n + 1) = B(day, n) \cup {last}
      BY <2>2 DEF Engine!BusinessDaysIn
    <3> HIDE DEF B
    <3>2. Cardinality(B(day, n) \cup {last}) = Cardinality(B(day, n)) + 1
      BY <1>1, <2>1, FS_AddElement
    <3> QED BY <2>2, <3>1, <3>2 DEF Count, B
  <2>3. CASE ~Engine!IsBusinessDay(last, calendar)
    <3>1. B(day, n + 1) = B(day, n)
      BY <2>3 DEF Engine!BusinessDaysIn
    <3> HIDE DEF B
    <3>2. Cardinality(B(day, n)) \in Nat
      BY <1>1, FS_CardinalityType
    <3> QED BY <2>3, <3>1, <3>2 DEF Count, B
  <2> QED BY <2>2, <2>3
<1>4. ASSUME NEW n \in Nat PROVE Count(day + 1, n, calendar) <= Count(day, n + 1, calendar)
  <2>1. B(day + 1, n) \subseteq B(day, n + 1)
    BY DEF Engine!BusinessDaysIn
  <2> HIDE DEF B
  <2>2. Cardinality(B(day + 1, n)) <= Cardinality(B(day, n + 1))
    BY <1>1, <2>1, FS_Subset
  <2> QED BY <2>2 DEF Count, B
<1>5. ASSUME NEW n \in Nat PROVE Count(day, n, calendar) \in Nat
  <2> HIDE DEF B
  <2> QED BY <1>1, FS_CardinalityType DEF Count, B
<1>6. Count(day, 0, calendar) = 0
  BY <1>2, FS_EmptySet DEF Count
<1> HIDE DEF B
<1> QED BY <1>1, <1>3, <1>4, <1>5, <1>6 DEF B

(* Adding business days stops at the first day that brings the count of       *)
(* worked days to the number asked for, or where the loop's guard ends.       *)
StopsAt(k, day, days, calendar) ==
  /\ k \in 0..MaxWalk
  /\ \A j \in 0..k - 1 : Count(day, j, calendar) < days
  /\ k < MaxWalk => Count(day, k, calendar) >= days

Walked(was, calendar) ==
  LET next == Engine!PlusDays(was.at, 1)
  IN IF was.remaining <= 0 THEN was
     ELSE [at |-> next,
           remaining |-> was.remaining -
                         (IF Engine!IsBusinessDay(Engine!DayOf(next), calendar) THEN 1 ELSE 0)]
WalkedTo(state, n, start, days, calendar) ==
  LET day == Engine!DayOf(start)
  IN \E k \in 0..n : /\ state.at = Engine!PlusDays(start, k)
                     /\ state.remaining = days - Count(day, k, calendar)
                     /\ \A j \in 0..k - 1 : Count(day, j, calendar) < days
                     /\ k < n => state.remaining <= 0

LEMMA WalkGoesOn ==
  ASSUME NEW start \in Int, NEW days \in Int, NEW calendar, NEW n \in Nat, NEW state,
         WalkedTo(state, n, start, days, calendar)
  PROVE  WalkedTo(Walked(state, calendar), n + 1, start, days, calendar)
<1> DEFINE day  == Engine!DayOf(start)
           next == Walked(state, calendar)
           count(k) == Count(day, k, calendar)
<1>1. PICK k \in 0..n : /\ state.at = Engine!PlusDays(start, k)
                        /\ state.remaining = days - count(k)
                        /\ \A j \in 0..k - 1 : count(j) < days
                        /\ k < n => state.remaining <= 0
  BY DEF WalkedTo
<1>2. day \in Int /\ k \in Nat /\ k \in Int
  BY Days
<1>3. /\ count(k) \in Nat
      /\ count(k + 1) = count(k) + (IF Engine!IsBusinessDay(day + (k + 1), calendar) THEN 1 ELSE 0)
  BY <1>2, Counting
<1> HIDE DEF count
<1>4. CASE state.remaining <= 0
  <2>1. next = state
    BY <1>4 DEF Walked
  <2>2. k \in 0..n + 1
    OBVIOUS
  <2> HIDE DEF next
  <2> QED BY <1>1, <1>4, <2>1, <2>2 DEF WalkedTo, count, next
<1>5. CASE ~(state.remaining <= 0)
  <2> DEFINE at == Engine!PlusDays(state.at, 1)
  <2>1. k = n /\ count(k) < days
    BY <1>1, <1>3, <1>5
  <2>2. at = Engine!PlusDays(start, k + 1) /\ Engine!DayOf(at) = day + (k + 1)
    <3>1. at = Engine!PlusDays(start, k + 1)
      BY <1>1, <1>2 DEF Engine!PlusDays
    <3> HIDE DEF at
    <3> QED BY <1>2, <3>1, LaterDays
  <2>3. next = [at |-> at,
                remaining |-> state.remaining -
                                (IF Engine!IsBusinessDay(Engine!DayOf(at), calendar) THEN 1 ELSE 0)]
    BY <1>5 DEF Walked
  <2> HIDE DEF at, next, day
  <2>4. next.at = Engine!PlusDays(start, k + 1) /\ next.remaining = days - count(k + 1)
    BY <1>1, <1>3, <2>2, <2>3
  <2>5. \A j \in 0..(k + 1) - 1 : count(j) < days
    BY <1>1, <1>2, <2>1
  <2>6. k + 1 \in 0..n + 1 /\ ~(k + 1 < n + 1)
    BY <2>1
  <2> QED BY <2>4, <2>5, <2>6 DEF WalkedTo, count, next, day
<1> QED BY <1>4, <1>5

LEMMA Walking ==
  ASSUME NEW start \in Int, NEW days \in Int, NEW calendar, MaxWalk \in Nat
  PROVE  \E k \in Nat : /\ Engine!AddBusinessDays(start, days, calendar)
                             = Engine!PlusDays(start, k)
                        /\ StopsAt(k, Engine!DayOf(start), days, calendar)
<1> DEFINE first == [at |-> start, remaining |-> days]
           walk == CHOOSE g : g = [guard \in 0..MaxWalk |->
                     IF guard = 0 THEN [at |-> start, remaining |-> days]
                     ELSE LET was  == g[guard - 1]
                              next == Engine!PlusDays(was.at, 1)
                          IN IF was.remaining <= 0 THEN was
                             ELSE [at |-> next,
                                   remaining |-> was.remaining -
                                     (IF Engine!IsBusinessDay(Engine!DayOf(next), calendar)
                                      THEN 1 ELSE 0)]]
           day == Engine!DayOf(start)
<1>1. Engine!AddBusinessDays(start, days, calendar) = walk[MaxWalk].at
  BY DEF Engine!AddBusinessDays
<1>2. walk = [n \in 0..MaxWalk |-> IF n = 0 THEN first ELSE Walked(walk[n - 1], calendar)]
  <2> DEFINE States == [at : Int, remaining : Int]
             step == [n \in 1..MaxWalk |-> [s \in States |-> Walked(s, calendar)]]
  <2>1. first \in States
    OBVIOUS
  <2>2. ASSUME NEW s \in States PROVE Walked(s, calendar) \in States
    <3> DEFINE taken == IF Engine!IsBusinessDay(Engine!DayOf(Engine!PlusDays(s.at, 1)), calendar)
                        THEN 1 ELSE 0
    <3>1. Engine!PlusDays(s.at, 1) \in Int /\ s.remaining - taken \in Int
      <4>1. s.at \in Int /\ s.remaining \in Int /\ taken \in {0, 1}
        OBVIOUS
      <4> HIDE DEF taken, States
      <4>2. \A at \in Int : Engine!PlusDays(at, 1) \in Int
        BY LaterDays
      <4>3. s.remaining - taken \in Int
        BY <4>1
      <4> QED BY <4>1, <4>2, <4>3
    <3>2. Walked(s, calendar) \in
            {s, [at |-> Engine!PlusDays(s.at, 1), remaining |-> s.remaining - taken]}
      BY DEF Walked
    <3> HIDE DEF taken
    <3> QED BY <3>1, <3>2
  <2> HIDE DEF States
  <2>3. step \in Steps(MaxWalk, States)
    BY <2>2 DEF Steps
  <2> HIDE DEF step, first
  <2>4. PICK f : Iterates(f, MaxWalk, States, first, step)
    BY <2>1, <2>3, Iteration
  <2>5. ASSUME NEW n \in 1..MaxWalk PROVE f[n] = Walked(f[n - 1], calendar)
    <3>1. n - 1 \in 0..MaxWalk
      OBVIOUS
    <3>2. f[n - 1] \in States /\ f[n] = step[n][f[n - 1]]
      BY <2>4, <3>1 DEF Iterates
    <3> QED BY <3>2 DEF step
  <2>6. f = [n \in 0..MaxWalk |-> IF n = 0 THEN first ELSE Walked(f[n - 1], calendar)]
    BY <2>4, <2>5 DEF Iterates
  <2>7. f = [guard \in 0..MaxWalk |->
               IF guard = 0 THEN [at |-> start, remaining |-> days]
               ELSE LET was  == f[guard - 1]
                        next == Engine!PlusDays(was.at, 1)
                    IN IF was.remaining <= 0 THEN was
                       ELSE [at |-> next,
                             remaining |-> was.remaining -
                               (IF Engine!IsBusinessDay(Engine!DayOf(next), calendar)
                                THEN 1 ELSE 0)]]
    BY <2>6, Zenon DEF Walked, first
  <2>8. walk = [guard \in 0..MaxWalk |->
                  IF guard = 0 THEN [at |-> start, remaining |-> days]
                  ELSE LET was  == walk[guard - 1]
                           next == Engine!PlusDays(was.at, 1)
                       IN IF was.remaining <= 0 THEN was
                          ELSE [at |-> next,
                                remaining |-> was.remaining -
                                  (IF Engine!IsBusinessDay(Engine!DayOf(next), calendar)
                                   THEN 1 ELSE 0)]]
    BY <2>7, Zenon
  <2> HIDE DEF walk
  <2> QED BY <2>8, Zenon DEF Walked, first
<1> HIDE DEF walk
<1> DEFINE Reached(n) == WalkedTo(walk[n], n, start, days, calendar)
           T == {n \in Nat : n <= MaxWalk => Reached(n)}
<1>3. 0 \in T
  <2>1. walk[0].at = start /\ walk[0].remaining = days
    BY <1>2
  <2>2. Engine!PlusDays(start, 0) = start
    BY DEF Engine!PlusDays
  <2>3. day \in Int /\ Count(day, 0, calendar) = 0
    BY Days, Counting
  <2>4. 0 \in 0..0 /\ ~(0 < 0) /\ 0..0 - 1 = {} /\ days = days - 0
    OBVIOUS
  <2>5. Reached(0)
    BY <2>1, <2>2, <2>3, <2>4 DEF WalkedTo
  <2> QED BY <2>5
<1>4. ASSUME NEW n \in Nat, n \in T PROVE n + 1 \in T
  <2>1. SUFFICES ASSUME n + 1 <= MaxWalk PROVE Reached(n + 1)
    OBVIOUS
  <2>2. Reached(n)
    BY <1>4, <2>1
  <2>3. walk[n + 1] = Walked(walk[n], calendar)
    <3>1. n + 1 \in 0..MaxWalk /\ n + 1 # 0 /\ (n + 1) - 1 = n
      BY <2>1
    <3> HIDE DEF first
    <3>2. walk[n + 1] = IF n + 1 = 0 THEN first ELSE Walked(walk[(n + 1) - 1], calendar)
      BY <1>2, <3>1
    <3> QED BY <3>1, <3>2
  <2> QED BY <2>2, <2>3, WalkGoesOn
<1>5. Reached(MaxWalk)
  <2> HIDE DEF Reached
  <2>1. \A n \in Nat : n \in T
    <3> HIDE DEF T
    <3> QED BY <1>3, <1>4, SetInduction
  <2> QED BY <2>1
<1>6. PICK k \in 0..MaxWalk : /\ walk[MaxWalk].at = Engine!PlusDays(start, k)
                              /\ walk[MaxWalk].remaining = days - Count(day, k, calendar)
                              /\ \A j \in 0..k - 1 : Count(day, j, calendar) < days
                              /\ k < MaxWalk => walk[MaxWalk].remaining <= 0
  BY <1>5 DEF WalkedTo
<1>7. Count(day, k, calendar) \in Nat
  <2>1. day \in Int /\ k \in Nat
    BY Days
  <2> HIDE DEF day
  <2> QED BY <2>1, Counting
<1>8. k < MaxWalk => Count(day, k, calendar) >= days
  BY <1>6, <1>7
<1> QED BY <1>1, <1>6, <1>8 DEF StopsAt

(* Adjusting stops at the first working day in its direction, or where the    *)
(* loop's guard ends.                                                         *)
Toward(day, n, adjustment) == IF adjustment = "FORWARD" THEN day + n ELSE day - n
RestsAt(k, day, calendar, adjustment) ==
  /\ k \in 0..MaxShift
  /\ \A j \in 0..k - 1 : ~Engine!IsBusinessDay(Toward(day, j, adjustment), calendar)
  /\ k < MaxShift => Engine!IsBusinessDay(Toward(day, k, adjustment), calendar)

Stepped(at, calendar, adjustment) ==
  IF Engine!IsBusinessDay(Engine!DayOf(at), calendar) THEN at
  ELSE Engine!PlusDays(at, IF adjustment = "FORWARD" THEN 1 ELSE -1)
SteppedTo(at, n, instant, calendar, adjustment) ==
  LET day == Engine!DayOf(instant)
  IN \E k \in 0..n :
       /\ at = Engine!PlusDays(instant, Toward(0, k, adjustment))
       /\ \A j \in 0..k - 1 : ~Engine!IsBusinessDay(Toward(day, j, adjustment), calendar)
       /\ k < n => Engine!IsBusinessDay(Toward(day, k, adjustment), calendar)

LEMMA StepGoesOn ==
  ASSUME NEW instant \in Int, NEW calendar, NEW adjustment, NEW n \in Nat, NEW at,
         SteppedTo(at, n, instant, calendar, adjustment)
  PROVE  SteppedTo(Stepped(at, calendar, adjustment), n + 1, instant, calendar, adjustment)
<1> DEFINE day  == Engine!DayOf(instant)
           to(k) == Toward(day, k, adjustment)
           free(d) == Engine!IsBusinessDay(d, calendar)
<1>1. PICK k \in 0..n : /\ at = Engine!PlusDays(instant, Toward(0, k, adjustment))
                        /\ \A j \in 0..k - 1 : ~free(to(j))
                        /\ k < n => free(to(k))
  BY DEF SteppedTo
<1>2. day \in Int /\ k \in Nat /\ Toward(0, k, adjustment) \in Int
  BY Days DEF Toward
<1>3. Engine!DayOf(at) = to(k)
  <2>1. Engine!DayOf(at) = day + Toward(0, k, adjustment)
    BY <1>1, <1>2, LaterDays
  <2> QED BY <1>2, <2>1 DEF Toward
<1> HIDE DEF to, free
<1>4. CASE free(to(k))
  <2>1. Stepped(at, calendar, adjustment) = at
    BY <1>3, <1>4 DEF Stepped, free
  <2>2. k \in 0..n + 1
    OBVIOUS
  <2> QED BY <1>1, <1>4, <2>1, <2>2 DEF SteppedTo, free, to
<1>5. CASE ~free(to(k))
  <2>1. k = n
    BY <1>1, <1>5
  <2>2. Stepped(at, calendar, adjustment)
          = Engine!PlusDays(instant, Toward(0, k + 1, adjustment))
    <3>1. Stepped(at, calendar, adjustment)
            = Engine!PlusDays(at, IF adjustment = "FORWARD" THEN 1 ELSE -1)
      BY <1>3, <1>5 DEF Stepped, free
    <3> QED BY <1>1, <1>2, <3>1 DEF Toward, Engine!PlusDays
  <2>3. \A j \in 0..(k + 1) - 1 : ~free(to(j))
    BY <1>1, <1>2, <1>5
  <2>4. k + 1 \in 0..n + 1 /\ ~(k + 1 < n + 1)
    BY <2>1
  <2> QED BY <2>2, <2>3, <2>4 DEF SteppedTo, free, to
<1> QED BY <1>4, <1>5

LEMMA Adjusting ==
  ASSUME NEW instant \in Int, NEW calendar, NEW adjustment, adjustment # "NONE",
         MaxShift \in Nat
  PROVE  \E k \in Nat :
           /\ Engine!AdjustNonWorking(instant, calendar, adjustment)
                = Engine!PlusDays(instant, Toward(0, k, adjustment))
           /\ RestsAt(k, Engine!DayOf(instant), calendar, adjustment)
<1> DEFINE cursor == CHOOSE g : g = [guard \in 0..MaxShift |->
                       IF guard = 0 THEN instant
                       ELSE LET at == g[guard - 1]
                            IN IF Engine!IsBusinessDay(Engine!DayOf(at), calendar) THEN at
                               ELSE Engine!PlusDays(at, IF adjustment = "FORWARD" THEN 1 ELSE -1)]
           day == Engine!DayOf(instant)
<1>1. Engine!AdjustNonWorking(instant, calendar, adjustment) = cursor[MaxShift]
  BY DEF Engine!AdjustNonWorking
<1>2. cursor = [n \in 0..MaxShift |->
                  IF n = 0 THEN instant ELSE Stepped(cursor[n - 1], calendar, adjustment)]
  <2> DEFINE step == [n \in 1..MaxShift |-> [at \in Int |-> Stepped(at, calendar, adjustment)]]
  <2>1. ASSUME NEW at \in Int PROVE Stepped(at, calendar, adjustment) \in Int
    <3>1. Engine!PlusDays(at, 1) \in Int /\ Engine!PlusDays(at, -1) \in Int
      BY LaterDays
    <3> QED BY <3>1 DEF Stepped
  <2>2. step \in Steps(MaxShift, Int)
    BY <2>1 DEF Steps
  <2> HIDE DEF step
  <2>3. PICK f : Iterates(f, MaxShift, Int, instant, step)
    BY <2>2, Iteration
  <2>4. ASSUME NEW n \in 1..MaxShift PROVE f[n] = Stepped(f[n - 1], calendar, adjustment)
    <3>1. n - 1 \in 0..MaxShift
      OBVIOUS
    <3>2. f[n - 1] \in Int /\ f[n] = step[n][f[n - 1]]
      BY <2>3, <3>1 DEF Iterates
    <3> QED BY <3>2 DEF step
  <2>5. f = [n \in 0..MaxShift |->
               IF n = 0 THEN instant ELSE Stepped(f[n - 1], calendar, adjustment)]
    BY <2>3, <2>4 DEF Iterates
  <2>6. f = [guard \in 0..MaxShift |->
               IF guard = 0 THEN instant
               ELSE LET at == f[guard - 1]
                    IN IF Engine!IsBusinessDay(Engine!DayOf(at), calendar) THEN at
                       ELSE Engine!PlusDays(at, IF adjustment = "FORWARD" THEN 1 ELSE -1)]
    BY <2>5, Zenon DEF Stepped
  <2>7. cursor = [guard \in 0..MaxShift |->
               IF guard = 0 THEN instant
               ELSE LET at == cursor[guard - 1]
                    IN IF Engine!IsBusinessDay(Engine!DayOf(at), calendar) THEN at
                       ELSE Engine!PlusDays(at, IF adjustment = "FORWARD" THEN 1 ELSE -1)]
    BY <2>6, Zenon
  <2> HIDE DEF cursor
  <2> QED BY <2>7, Zenon DEF Stepped
<1> HIDE DEF cursor
<1> DEFINE Reached(n) == SteppedTo(cursor[n], n, instant, calendar, adjustment)
           T == {n \in Nat : n <= MaxShift => Reached(n)}
<1>3. 0 \in T
  <2>1. cursor[0] = instant
    BY <1>2
  <2>2. Engine!PlusDays(instant, Toward(0, 0, adjustment)) = instant
    BY DEF Engine!PlusDays, Toward
  <2>3. 0 \in 0..0 /\ ~(0 < 0) /\ 0..0 - 1 = {}
    OBVIOUS
  <2>4. Reached(0)
    BY <2>1, <2>2, <2>3 DEF SteppedTo
  <2> QED BY <2>4
<1>4. ASSUME NEW n \in Nat, n \in T PROVE n + 1 \in T
  <2>1. SUFFICES ASSUME n + 1 <= MaxShift PROVE Reached(n + 1)
    OBVIOUS
  <2>2. Reached(n)
    BY <1>4, <2>1
  <2>3. cursor[n + 1] = Stepped(cursor[n], calendar, adjustment)
    <3>1. n + 1 \in 0..MaxShift /\ n + 1 # 0 /\ (n + 1) - 1 = n
      BY <2>1
    <3>2. cursor[n + 1] = IF n + 1 = 0 THEN instant
                          ELSE Stepped(cursor[(n + 1) - 1], calendar, adjustment)
      BY <1>2, <3>1
    <3> QED BY <3>1, <3>2
  <2> QED BY <2>2, <2>3, StepGoesOn
<1>5. Reached(MaxShift)
  <2> HIDE DEF Reached
  <2>1. \A n \in Nat : n \in T
    <3> HIDE DEF T
    <3> QED BY <1>3, <1>4, SetInduction
  <2> QED BY <2>1
<1> QED BY <1>1, <1>5 DEF SteppedTo, RestsAt

(* From a day later a walk ends no earlier.                                   *)
LEMMA LaterWalk ==
  ASSUME NEW day \in Int, NEW days \in Int, NEW calendar, MaxWalk \in Nat,
         NEW k \in Nat, StopsAt(k, day, days, calendar),
         NEW l \in Nat, StopsAt(l, day + 1, days, calendar)
  PROVE  k <= l + 1
<1>1. SUFFICES ASSUME l + 1 < k PROVE FALSE
  OBVIOUS
<1>2. l < MaxWalk /\ l + 1 \in 0..k - 1
  BY <1>1 DEF StopsAt
<1>3. Count(day, l + 1, calendar) < days /\ Count(day + 1, l, calendar) >= days
  BY <1>2 DEF StopsAt
<1>4. Count(day + 1, l, calendar) <= Count(day, l + 1, calendar)
  BY Counting
<1>5. Count(day + 1, l, calendar) \in Nat /\ Count(day, l + 1, calendar) \in Nat
  <2>1. day + 1 \in Int /\ l + 1 \in Nat
    OBVIOUS
  <2> QED BY <2>1, Counting
<1> QED BY <1>3, <1>4, <1>5

(* Where a walk ends is the business day that was counted.                    *)
LEMMA WalkCounts ==
  ASSUME NEW day \in Int, NEW days \in Nat, NEW calendar, MaxWalk \in Nat,
         NEW k \in Nat, StopsAt(k, day, days, calendar),
         Count(day, MaxWalk, calendar) >= days
  PROVE  Engine!IsNthBusinessDay(day + k, days, day, calendar)
<1> DEFINE count(n) == Count(day, n, calendar)
<1>1. /\ \A j \in 0..k - 1 : count(j) < days
      /\ count(k) >= days
  BY DEF StopsAt
<1>2. count(0) = 0
  BY Counting
<1>3. CASE days = 0
  <2>1. k = 0
    BY <1>1, <1>2, <1>3
  <2> QED BY <1>3, <2>1 DEF Engine!IsNthBusinessDay
<1>4. CASE days # 0
  <2>1. k # 0
    BY <1>1, <1>2, <1>4
  <2>2. k - 1 \in Nat /\ k - 1 \in 0..k - 1 /\ (k - 1) + 1 = k
    BY <2>1
  <2>3. /\ count(k - 1) \in Nat
        /\ count(k) = count(k - 1) + (IF Engine!IsBusinessDay(day + k, calendar) THEN 1 ELSE 0)
    <3>1. /\ count(k - 1) \in Nat
          /\ count((k - 1) + 1) = count(k - 1) +
               (IF Engine!IsBusinessDay(day + ((k - 1) + 1), calendar) THEN 1 ELSE 0)
      BY <2>2, Counting
    <3> QED BY <2>2, <3>1
  <2>4. count(k - 1) < days
    BY <1>1, <2>2
  <2> HIDE DEF count
  <2>5. Engine!IsBusinessDay(day + k, calendar)
    BY <1>1, <2>3, <2>4
  <2>6. count(k) = days
    BY <1>1, <2>3, <2>4
  <2>7. day + k \in Engine!BusinessDaysIn(day + 1, day + k, calendar)
    BY <2>1, <2>5 DEF Engine!BusinessDaysIn
  <2>8. Cardinality(Engine!BusinessDaysIn(day + 1, day + k, calendar)) = days
    BY <2>6 DEF count, Count
  <2> QED BY <1>4, <2>7, <2>8, SameCardinality, Zenon DEF Engine!IsNthBusinessDay
<1> QED BY <1>3, <1>4

(* From a later day an adjustment ends no earlier.                            *)
LEMMA LaterRest ==
  ASSUME NEW day \in Int, NEW m \in Nat, NEW calendar, NEW adjustment, MaxShift \in Nat,
         NEW k \in Nat, RestsAt(k, day, calendar, adjustment),
         NEW l \in Nat, RestsAt(l, day + m, calendar, adjustment)
  PROVE  Toward(day, k, adjustment) <= Toward(day + m, l, adjustment)
<1> DEFINE free(d) == Engine!IsBusinessDay(d, calendar)
<1>1. /\ k <= MaxShift /\ l <= MaxShift
      /\ \A j \in 0..k - 1 : ~free(Toward(day, j, adjustment))
      /\ \A j \in 0..l - 1 : ~free(Toward(day + m, j, adjustment))
      /\ k < MaxShift => free(Toward(day, k, adjustment))
      /\ l < MaxShift => free(Toward(day + m, l, adjustment))
  BY DEF RestsAt
<1> HIDE DEF free
<1>2. CASE adjustment = "FORWARD"
  <2>1. SUFFICES ASSUME m + l < k PROVE FALSE
    BY <1>2 DEF Toward
  <2>2. m + l \in 0..k - 1 /\ l < MaxShift
    BY <1>1, <2>1
  <2>3. Toward(day, m + l, adjustment) = Toward(day + m, l, adjustment)
    BY <1>2 DEF Toward
  <2> QED BY <1>1, <2>2, <2>3
<1>3. CASE adjustment # "FORWARD"
  <2>1. SUFFICES ASSUME m + k < l PROVE FALSE
    BY <1>3 DEF Toward
  <2>2. m + k \in 0..l - 1 /\ k < MaxShift
    BY <1>1, <2>1
  <2>3. Toward(day + m, m + k, adjustment) = Toward(day, k, adjustment)
    BY <1>3 DEF Toward
  <2> QED BY <1>1, <2>2, <2>3
<1> QED BY <1>2, <1>3

(* Where an adjustment ends is the nearest working day.                       *)
LEMMA RestIsNearest ==
  ASSUME NEW day \in Int, NEW calendar, NEW adjustment \in {"FORWARD", "BACKWARD"},
         MaxShift \in Nat, NEW k \in Nat, RestsAt(k, day, calendar, adjustment),
         \E n \in 0..MaxShift : Engine!IsBusinessDay(Toward(day, n, adjustment), calendar)
  PROVE  Engine!IsNearestWorkingDay(Toward(day, k, adjustment), day, calendar, adjustment)
<1> DEFINE free(d) == Engine!IsBusinessDay(d, calendar)
           to(n) == Toward(day, n, adjustment)
<1>1. k <= MaxShift /\ \A j \in 0..k - 1 : ~free(to(j))
  BY DEF RestsAt
<1>2. free(to(k))
  <2>1. PICK n \in 0..MaxShift : free(to(n))
    OBVIOUS
  <2>2. k < MaxShift => free(to(k))
    BY DEF RestsAt
  <2>3. n \notin 0..k - 1
    BY <1>1, <2>1
  <2>4. k = MaxShift => n = k
    BY <2>3
  <2> HIDE DEF free, to
  <2> QED BY <1>1, <2>1, <2>2, <2>4
<1>3. CASE adjustment = "FORWARD"
  <2>1. to(k) = day + k /\ \A j \in 0..k - 1 : ~free(day + j)
    BY <1>1, <1>3 DEF Toward
  <2>2. Engine!BusinessDaysIn(day, to(k), calendar) = {to(k)}
    <3>1. to(k) \in Engine!BusinessDaysIn(day, to(k), calendar)
      BY <1>2, <2>1 DEF Engine!BusinessDaysIn
    <3>2. ASSUME NEW d \in day..day + k, d # day + k PROVE ~free(d)
      <4>1. d - day \in 0..k - 1 /\ day + (d - day) = d
        BY <3>2
      <4> QED BY <2>1, <4>1
    <3> HIDE DEF to, free
    <3> QED BY <2>1, <3>1, <3>2 DEF Engine!BusinessDaysIn, free
  <2> QED BY <1>3, <2>1, <2>2 DEF Engine!IsNearestWorkingDay
<1>4. CASE adjustment = "BACKWARD"
  <2>1. to(k) = day - k /\ \A j \in 0..k - 1 : ~free(day - j)
    BY <1>1, <1>4 DEF Toward
  <2>2. Engine!BusinessDaysIn(to(k), day, calendar) = {to(k)}
    <3>1. to(k) \in Engine!BusinessDaysIn(to(k), day, calendar)
      BY <1>2, <2>1 DEF Engine!BusinessDaysIn
    <3>2. ASSUME NEW d \in day - k..day, d # day - k PROVE ~free(d)
      <4>1. day - d \in 0..k - 1 /\ day - (day - d) = d
        BY <3>2
      <4> QED BY <2>1, <4>1
    <3> HIDE DEF to, free
    <3> QED BY <2>1, <3>1, <3>2 DEF Engine!BusinessDaysIn, free
  <2> QED BY <1>4, <2>1, <2>2 DEF Engine!IsNearestWorkingDay
<1> QED BY <1>3, <1>4

(* The months lie one after another, and a day is in one of them.             *)
IsInMonth(day, m) ==
  /\ m \in DOMAIN MonthLengths
  /\ Engine!FirstDays[m] <= day /\ day < Engine!FirstDays[m] + MonthLengths[m]
MonthsFollow ==
  /\ DOMAIN MonthLengths = 1..Len(MonthLengths) /\ Len(MonthLengths) \in Nat
  /\ \A m \in DOMAIN MonthLengths : /\ MonthLengths[m] \in Nat \ {0}
                                    /\ Engine!FirstDays[m] \in Nat
  /\ \A m, k \in DOMAIN MonthLengths :
       m < k => Engine!FirstDays[m] + MonthLengths[m] <= Engine!FirstDays[k]

LEMMA Months == MonthsFollow
<1> DEFINE N == Len(MonthLengths)
           upTo == CHOOSE g : g = [m \in 0..Len(MonthLengths) |->
                                     IF m = 0 THEN 0 ELSE g[m - 1] + MonthLengths[m]]
<1>1. /\ DOMAIN MonthLengths = 1..N /\ N \in Nat
      /\ \A m \in 1..N : MonthLengths[m] \in Nat \ {0}
  BY DeadlineAssumption DEF IsList
<1>2. Engine!FirstDays = [m \in DOMAIN MonthLengths |-> upTo[m - 1]]
  BY DEF Engine!FirstDays
<1>3. upTo = [m \in 0..N |-> IF m = 0 THEN 0 ELSE upTo[m - 1] + MonthLengths[m]]
  <2> DEFINE step == [m \in 1..N |-> [days \in Nat |-> days + MonthLengths[m]]]
  <2>1. step \in Steps(N, Nat)
    BY <1>1 DEF Steps
  <2> HIDE DEF step
  <2>2. PICK f : Iterates(f, N, Nat, 0, step)
    BY <1>1, <2>1, Iteration
  <2>3. ASSUME NEW m \in 1..N PROVE f[m] = f[m - 1] + MonthLengths[m]
    <3>1. m - 1 \in 0..N
      BY <1>1
    <3>2. f[m - 1] \in Nat /\ f[m] = step[m][f[m - 1]]
      BY <2>2, <3>1 DEF Iterates
    <3> QED BY <3>2 DEF step
  <2>4. f = [m \in 0..N |-> IF m = 0 THEN 0 ELSE f[m - 1] + MonthLengths[m]]
    BY <1>1, <2>2, <2>3 DEF Iterates
  <2> QED BY <2>4, Zenon
<1> HIDE DEF upTo, N
<1>4. ASSUME NEW m \in 1..N PROVE upTo[m] = upTo[m - 1] + MonthLengths[m]
  BY <1>1, <1>3
<1>5. \A m \in 0..N : upTo[m] \in Nat
  <2> DEFINE T == {m \in Nat : m <= N => upTo[m] \in Nat}
  <2>1. 0 \in T
    BY <1>1, <1>3
  <2>2. ASSUME NEW m \in Nat, m \in T PROVE m + 1 \in T
    <3>1. SUFFICES ASSUME m + 1 <= N PROVE upTo[m + 1] \in Nat
      OBVIOUS
    <3>2. upTo[m] \in Nat /\ m + 1 \in 1..N /\ (m + 1) - 1 = m
      BY <1>1, <2>2, <3>1
    <3>3. upTo[m + 1] = upTo[m] + MonthLengths[m + 1]
      BY <1>4, <3>2
    <3> QED BY <1>1, <3>2, <3>3
  <2>3. \A m \in Nat : m \in T
    <3> HIDE DEF T
    <3> QED BY <2>1, <2>2, SetInduction
  <2> QED BY <1>1, <2>3
<1>6. \A m, k \in 0..N : m <= k => upTo[m] <= upTo[k]
  <2> SUFFICES ASSUME NEW m \in 0..N PROVE \A k \in 0..N : m <= k => upTo[m] <= upTo[k]
    OBVIOUS
  <2> DEFINE T == {k \in Nat : k <= N /\ m <= k => upTo[m] <= upTo[k]}
  <2>1. 0 \in T
    BY <1>5
  <2>2. ASSUME NEW k \in Nat, k \in T PROVE k + 1 \in T
    <3>1. SUFFICES ASSUME k + 1 <= N, m <= k + 1 PROVE upTo[m] <= upTo[k + 1]
      OBVIOUS
    <3>2. CASE m = k + 1
      BY <1>5, <3>2
    <3>3. CASE m <= k
      <4>1. /\ upTo[m] <= upTo[k] /\ k + 1 \in 1..N /\ (k + 1) - 1 = k
            /\ k \in 0..N
        BY <1>1, <2>2, <3>1, <3>3
      <4>2. upTo[k + 1] = upTo[k] + MonthLengths[k + 1]
        BY <1>4, <4>1
      <4> QED BY <1>1, <1>5, <4>1, <4>2
    <3> QED BY <3>1, <3>2, <3>3
  <2>3. \A k \in Nat : k \in T
    <3> HIDE DEF T
    <3> QED BY <2>1, <2>2, SetInduction
  <2> QED BY <1>1, <2>3
<1>7. ASSUME NEW m \in 1..N
      PROVE  Engine!FirstDays[m] \in Nat /\ Engine!FirstDays[m] + MonthLengths[m] = upTo[m]
  <2>1. Engine!FirstDays[m] = upTo[m - 1] /\ m - 1 \in 0..N
    BY <1>1, <1>2
  <2> QED BY <1>4, <1>5, <2>1
<1>8. ASSUME NEW m \in 1..N, NEW k \in 1..N, m < k
      PROVE  Engine!FirstDays[m] + MonthLengths[m] <= Engine!FirstDays[k]
  <2>1. Engine!FirstDays[k] = upTo[k - 1] /\ k - 1 \in 0..N /\ m \in 0..N /\ m <= k - 1
    BY <1>1, <1>2, <1>8
  <2> QED BY <1>6, <1>7, <2>1
<1> QED BY <1>1, <1>7, <1>8 DEF MonthsFollow, N

LEMMA MonthIs ==
  ASSUME NEW day \in Int, NEW m, IsInMonth(day, m)
  PROVE  Engine!MonthOf(day) = m
<1>1. ASSUME NEW k \in DOMAIN MonthLengths, IsInMonth(day, k) PROVE k = m
  <2>1. ASSUME NEW a \in DOMAIN MonthLengths, NEW b \in DOMAIN MonthLengths,
               IsInMonth(day, a), IsInMonth(day, b)
        PROVE  ~(a < b)
    <3>1. a < b => Engine!FirstDays[a] + MonthLengths[a] <= Engine!FirstDays[b]
      BY Months DEF MonthsFollow
    <3>2. /\ Engine!FirstDays[a] \in Nat /\ MonthLengths[a] \in Nat
          /\ Engine!FirstDays[b] \in Nat
      BY Months DEF MonthsFollow
    <3>3. day < Engine!FirstDays[a] + MonthLengths[a] /\ Engine!FirstDays[b] <= day
      BY <2>1 DEF IsInMonth
    <3> QED BY <3>1, <3>2, <3>3
  <2>2. m \in DOMAIN MonthLengths
    BY DEF IsInMonth
  <2>3. ~(k < m) /\ ~(m < k)
    BY <1>1, <2>1, <2>2
  <2>4. k \in Nat /\ m \in Nat
    BY <2>2, Months DEF MonthsFollow
  <2> QED BY <2>3, <2>4
<1>2. Engine!MonthOf(day) = CHOOSE k \in DOMAIN MonthLengths : IsInMonth(day, k)
  BY Zenon DEF Engine!MonthOf, IsInMonth
<1>3. m \in DOMAIN MonthLengths
  BY DEF IsInMonth
<1> QED BY <1>1, <1>2, <1>3

(* The day some months later keeps its date, or is its month's last day.      *)
DayInMonth(day, m, n) ==
  Engine!FirstDays[m + n] + Engine!Smaller(day - Engine!FirstDays[m], MonthLengths[m + n] - 1)

LEMMA LaterMonth ==
  ASSUME NEW day \in Int, NEW n \in Nat, NEW m, IsInMonth(day, m), m + n <= Len(MonthLengths)
  PROVE  LET due == DayInMonth(day, m, n)
         IN /\ due \in Int /\ IsInMonth(due, m + n)
            /\ \/ due - Engine!FirstDays[m + n] = day - Engine!FirstDays[m]
               \/ due = Engine!FirstDays[m + n] + MonthLengths[m + n] - 1
<1>1. /\ m \in 1..Len(MonthLengths) /\ Len(MonthLengths) \in Nat
      /\ DOMAIN MonthLengths = 1..Len(MonthLengths)
  BY Months DEF IsInMonth, MonthsFollow
<1>2. m + n \in DOMAIN MonthLengths
  BY <1>1
<1> DEFINE a == Engine!FirstDays[m]  b == Engine!FirstDays[m + n]  l == MonthLengths[m + n]
<1>3. a \in Nat /\ b \in Nat /\ l \in Nat \ {0} /\ a <= day
  BY <1>1, <1>2, Months DEF MonthsFollow, IsInMonth
<1> HIDE DEF a, b, l
<1>4. DayInMonth(day, m, n) = b + Engine!Smaller(day - a, l - 1)
  BY DEF DayInMonth, a, b, l
<1>5. Engine!Smaller(day - a, l - 1) \in {day - a, l - 1} /\ Engine!Smaller(day - a, l - 1) <= l - 1
      /\ Engine!Smaller(day - a, l - 1) >= 0
  BY <1>3 DEF Engine!Smaller
<1> DEFINE due == DayInMonth(day, m, n)
<1>6. due \in Int /\ b <= due /\ due < b + l /\ (due - b = day - a \/ due = b + l - 1)
  <2> HIDE DEF due
  <2> QED BY <1>3, <1>4, <1>5 DEF due
<1> QED BY <1>2, <1>6 DEF IsInMonth, a, b, l

LEMMA AddingMonths ==
  ASSUME NEW at \in Int, NEW n \in Nat, NEW m, IsInMonth(Engine!DayOf(at), m),
         m + n <= Len(MonthLengths)
  PROVE  Engine!PlusMonths(at, n)
           = Engine!PlusDays(at, DayInMonth(Engine!DayOf(at), m, n) - Engine!DayOf(at))
<1>1. Engine!MonthOf(Engine!DayOf(at)) = m
  BY Days, MonthIs
<1> DEFINE day == Engine!DayOf(at)
           month == Engine!MonthOf(day)
           date(k) == Engine!Smaller(day - Engine!FirstDays[k], MonthLengths[k + n] - 1)
<1>2. Engine!PlusMonths(at, n)
        = Engine!PlusDays(at, Engine!FirstDays[month + n] + (date(month) - day))
  BY Zenon DEF Engine!PlusMonths
<1>3. m + n \in DOMAIN MonthLengths /\ m \in DOMAIN MonthLengths
  BY Months DEF MonthsFollow, IsInMonth
<1>4. /\ Engine!FirstDays[m + n] \in Int /\ Engine!FirstDays[m] \in Int
      /\ MonthLengths[m + n] \in Int /\ day \in Int
  <2>1. day \in Int
    BY Days
  <2> HIDE DEF day
  <2> QED BY <1>3, <2>1, Months DEF MonthsFollow
<1> HIDE DEF day, month
<1>5. date(m) \in Int
  BY <1>4 DEF Engine!Smaller
<1> HIDE DEF date
<1>6. Engine!PlusMonths(at, n) = Engine!PlusDays(at, Engine!FirstDays[m + n] + (date(m) - day))
  BY <1>1, <1>2 DEF month, day
<1>7. Engine!FirstDays[m + n] + (date(m) - day) = (Engine!FirstDays[m + n] + date(m)) - day
  BY <1>4, <1>5
<1>8. DayInMonth(day, m, n) = Engine!FirstDays[m + n] + date(m)
  BY DEF DayInMonth, date
<1> QED BY <1>6, <1>7, <1>8 DEF day

(* The same months from a day later end no earlier.                           *)
LEMMA LaterStart ==
  ASSUME NEW day \in Int, NEW n \in Nat, NEW m, IsInMonth(day, m),
         m + n <= Len(MonthLengths),
         NEW k, IsInMonth(day + 1, k), k + n <= Len(MonthLengths)
  PROVE  DayInMonth(day, m, n) <= DayInMonth(day + 1, k, n)
<1> DEFINE N == Len(MonthLengths)
<1>1. /\ m \in 1..N /\ k \in 1..N /\ N \in Nat /\ DOMAIN MonthLengths = 1..N
  BY Months DEF IsInMonth, MonthsFollow
<1>2. m <= k
  <2>1. SUFFICES ASSUME k < m PROVE FALSE
    BY <1>1
  <2>2. Engine!FirstDays[k] + MonthLengths[k] <= Engine!FirstDays[m]
    BY <1>1, <2>1, Months DEF MonthsFollow
  <2>3. Engine!FirstDays[m] <= day /\ day + 1 < Engine!FirstDays[k] + MonthLengths[k]
    BY DEF IsInMonth
  <2>4. /\ Engine!FirstDays[m] \in Nat /\ Engine!FirstDays[k] \in Nat
        /\ MonthLengths[k] \in Nat
    BY <1>1, Months DEF MonthsFollow
  <2> QED BY <2>2, <2>3, <2>4
<1>3. CASE m = k
  <2> DEFINE a == Engine!FirstDays[m]  b == Engine!FirstDays[m + n]  l == MonthLengths[m + n]
  <2>1. m + n \in 1..N
    BY <1>1
  <2>2. a \in Int /\ b \in Int /\ l \in Int
    BY <1>1, <2>1, Months DEF MonthsFollow
  <2> HIDE DEF a, b, l
  <2>3. Engine!Smaller(day - a, l - 1) <= Engine!Smaller((day + 1) - a, l - 1)
        /\ Engine!Smaller(day - a, l - 1) \in Int /\ Engine!Smaller((day + 1) - a, l - 1) \in Int
    BY <2>2 DEF Engine!Smaller
  <2>4. /\ DayInMonth(day, m, n) = b + Engine!Smaller(day - a, l - 1)
        /\ DayInMonth(day + 1, k, n) = b + Engine!Smaller((day + 1) - a, l - 1)
    BY <1>3 DEF DayInMonth, a, b, l
  <2> QED BY <2>2, <2>3, <2>4
<1>4. CASE m < k
  <2>1. m + n \in 1..N /\ k + n \in 1..N /\ m + n < k + n
    BY <1>1, <1>4
  <2>2. Engine!FirstDays[m + n] + MonthLengths[m + n] <= Engine!FirstDays[k + n]
    BY <1>1, <2>1, Months DEF MonthsFollow
  <2>3. /\ DayInMonth(day, m, n) \in Int /\ IsInMonth(DayInMonth(day, m, n), m + n)
    BY LaterMonth
  <2>4. /\ DayInMonth(day + 1, k, n) \in Int /\ IsInMonth(DayInMonth(day + 1, k, n), k + n)
    BY LaterMonth
  <2>5. /\ Engine!FirstDays[m + n] \in Nat /\ Engine!FirstDays[k + n] \in Nat
        /\ MonthLengths[m + n] \in Nat
    BY <1>1, <2>1, Months DEF MonthsFollow
  <2>6. /\ DayInMonth(day, m, n) < Engine!FirstDays[m + n] + MonthLengths[m + n]
        /\ Engine!FirstDays[k + n] <= DayInMonth(day + 1, k, n)
    BY <2>3, <2>4 DEF IsInMonth
  <2> QED BY <2>2, <2>3, <2>4, <2>5, <2>6
<1> QED BY <1>1, <1>2, <1>3, <1>4

(* Where the arithmetic and the adjustment of a rule lead, in days after the  *)
(* trigger: to a day the conventions count, and from a day later no earlier.  *)
Definitive(rule) ==
  /\ rule.durationUnit \in {"CALENDAR_DAY", "BUSINESS_DAY", "WEEK", "MONTH"}
  /\ rule.durationValue \in Nat
  /\ rule.counting \in {"INCLUSIVE", "EXCLUSIVE"}
Due(i, at) == Engine!Adjusted(i.rule, i.calendar, Engine!Arithmetic(i.rule, i.calendar, at))
Counts(i, at) ==
  LET day == Engine!DayOf(at)
  IN \E k \in Int, l \in Int :
       /\ Due(i, at) = Engine!PlusDays(at, k)
       /\ Due(i, at + 3) = Engine!PlusDays(at + 3, l)
       /\ k <= l + 1
       /\ FallsOnCountedDay(i.rule, i.calendar, day, day + k)

LEMMA TriggerDayCounts ==
  ASSUME NEW i \in DeadlineInputs, Definitive(i.rule)
  PROVE  DaysAfterTrigger(i.rule) \in Nat /\ Engine!DaysToAdd(i.rule) = DaysAfterTrigger(i.rule)
<1> DEFINE counted == {x \in {1} : CountsTriggerDay(i.rule)}
<1>1. i.rule.startDateConvention \in {"INCLUDE_TRIGGER_DAY", "EXCLUDE_TRIGGER_DAY"}
  BY DeadlineAssumption
<1>2. CASE CountsTriggerDay(i.rule)
  <2>1. counted = {1}
    BY <1>2
  <2>2. Cardinality(counted) = 1
    BY <2>1, FS_Singleton
  <2> HIDE DEF counted
  <2>3. i.rule.durationValue \in Nat /\ i.rule.durationValue >= 1
    BY <1>2 DEF CountsTriggerDay, Definitive
  <2>4. DaysAfterTrigger(i.rule) = i.rule.durationValue - 1
    BY <2>2 DEF DaysAfterTrigger, counted
  <2>5. Engine!DaysToAdd(i.rule) = i.rule.durationValue - 1
    BY <1>1, <1>2 DEF Engine!DaysToAdd, CountsTriggerDay
  <2> QED BY <2>3, <2>4, <2>5
<1>3. CASE ~CountsTriggerDay(i.rule)
  <2>1. counted = {}
    BY <1>3
  <2>2. Cardinality(counted) = 0
    BY <2>1, FS_EmptySet
  <2> HIDE DEF counted
  <2>3. i.rule.durationValue \in Nat
    BY DEF Definitive
  <2>4. DaysAfterTrigger(i.rule) = i.rule.durationValue
    BY <2>2, <2>3 DEF DaysAfterTrigger, counted
  <2>5. Engine!DaysToAdd(i.rule) = i.rule.durationValue
    BY <1>1, <1>3 DEF Engine!DaysToAdd, CountsTriggerDay
  <2> QED BY <2>3, <2>4, <2>5
<1> QED BY <1>2, <1>3

LEMMA BusinessDaysCount ==
  ASSUME NEW i \in DeadlineInputs, Definitive(i.rule), i.rule.durationUnit = "BUSINESS_DAY"
  PROVE  Counts(i, i.trigger.at)
<1> DEFINE at   == i.trigger.at
           day  == Engine!DayOf(at)
           days == DaysAfterTrigger(i.rule)
<1>1. at \in Int /\ at + 3 \in Int /\ day \in Int /\ days \in Nat /\ MaxWalk \in Nat
  <2>1. at \in Int /\ MaxWalk \in Nat
    BY DeadlineAssumption
  <2>2. days \in Nat
    BY TriggerDayCounts
  <2> HIDE DEF at, days
  <2> QED BY <2>1, <2>2, Days
<1>2. ASSUME NEW from PROVE Due(i, from) = Engine!AddBusinessDays(from, days, i.calendar)
  BY TriggerDayCounts DEF Due, Engine!Adjusted, Engine!Arithmetic
<1>3. at + 3 = Engine!PlusDays(at, 1)
  BY <1>1 DEF Engine!PlusDays
<1>4. Engine!DayOf(at + 3) = day + 1
  <2> HIDE DEF at
  <2>1. \A x \in Int : Engine!DayOf(Engine!PlusDays(x, 1)) = Engine!DayOf(x) + 1
    BY LaterDays
  <2> QED BY <1>1, <1>3, <2>1
<1> HIDE DEF at, day, days
<1>5. PICK k \in Nat : /\ Engine!AddBusinessDays(at, days, i.calendar) = Engine!PlusDays(at, k)
                       /\ StopsAt(k, day, days, i.calendar)
  BY <1>1, Walking DEF day
<1>6. PICK l \in Nat :
        /\ Engine!AddBusinessDays(at + 3, days, i.calendar) = Engine!PlusDays(at + 3, l)
        /\ StopsAt(l, Engine!DayOf(at + 3), days, i.calendar)
  BY <1>1, Walking
<1>7. k <= l + 1
  BY <1>1, <1>4, <1>5, <1>6, LaterWalk
<1>8. HasWorkedWeekday(i.calendar) => Engine!IsNthBusinessDay(day + k, days, day, i.calendar)
  <2>1. HasWorkedWeekday(i.calendar) => Count(day, MaxWalk, i.calendar) >= days
    BY CalendarAssumption DEF Definitive, Count, day, at, days
  <2> QED BY <1>1, <1>5, <2>1, WalkCounts
<1>9. FallsOnCountedDay(i.rule, i.calendar, day, day + k)
  BY <1>8 DEF FallsOnCountedDay, days
<1> QED BY <1>2, <1>5, <1>6, <1>7, <1>9 DEF Counts, day, at

(* Adjusting keeps the order of two deadlines and finds the working day.      *)
LEMMA AdjustedDays ==
  ASSUME NEW i \in DeadlineInputs, i.rule.durationUnit \in {"CALENDAR_DAY", "WEEK", "MONTH"},
         NEW at \in Int, NEW n \in Int, NEW m \in Int, n <= m + 1,
         Engine!Arithmetic(i.rule, i.calendar, at) = Engine!PlusDays(at, n),
         Engine!Arithmetic(i.rule, i.calendar, at + 3) = Engine!PlusDays(at + 3, m)
  PROVE  \E k \in Int, l \in Int :
           /\ Due(i, at) = Engine!PlusDays(at, k)
           /\ Due(i, at + 3) = Engine!PlusDays(at + 3, l)
           /\ k <= l + 1
           /\ i.rule.nonWorkingAdjustment = "NONE" => k = n
           /\ i.rule.nonWorkingAdjustment # "NONE" =>
                LET day == Engine!DayOf(at) + n
                IN (\E x \in 0..MaxShift :
                      Engine!IsBusinessDay(Toward(day, x, i.rule.nonWorkingAdjustment), i.calendar))
                   => Engine!IsNearestWorkingDay(Engine!DayOf(at) + k, day, i.calendar,
                                                 i.rule.nonWorkingAdjustment)
<1> DEFINE adjustment == i.rule.nonWorkingAdjustment
           day   == Engine!DayOf(at) + n
           first == Engine!PlusDays(at, n)
           other == Engine!PlusDays(at + 3, m)
           gap   == (m + 1) - n
           Fix(x) == Engine!AdjustNonWorking(x, i.calendar, adjustment)
<1>1. /\ adjustment \in {"NONE", "FORWARD", "BACKWARD"} /\ MaxShift \in Nat
      /\ gap \in Nat /\ at + 3 \in Int
  BY DeadlineAssumption
<1>2. Due(i, at) = Fix(first) /\ Due(i, at + 3) = Fix(other)
  BY DEF Due, Engine!Adjusted
<1>3. /\ Engine!DayOf(at) \in Int /\ day \in Int
      /\ first \in Int /\ Engine!DayOf(first) = day
  <2>1. Engine!DayOf(at) \in Int
    BY Days
  <2>2. first \in Int /\ Engine!DayOf(first) = day
    BY LaterDays
  <2> HIDE DEF first
  <2> QED BY <2>1, <2>2
<1>4. other \in Int /\ Engine!DayOf(other) = day + gap
  <2>1. at + 3 = Engine!PlusDays(at, 1)
    BY DEF Engine!PlusDays
  <2>2. Engine!DayOf(at + 3) = Engine!DayOf(at) + 1
    BY <2>1, LaterDays
  <2>3. other \in Int /\ Engine!DayOf(other) = Engine!DayOf(at + 3) + m
    BY <1>1, LaterDays
  <2> HIDE DEF other
  <2> QED BY <1>3, <2>2, <2>3
<1>5. CASE adjustment = "NONE"
  <2>1. Fix(first) = first /\ Fix(other) = other
    BY <1>5 DEF Engine!AdjustNonWorking
  <2> HIDE DEF Fix
  <2> QED BY <1>2, <1>5, <2>1
<1>6. CASE adjustment # "NONE"
  <2> HIDE DEF first, other, day, gap, adjustment
  <2>1. PICK k \in Nat : /\ Fix(first) = Engine!PlusDays(first, Toward(0, k, adjustment))
                         /\ RestsAt(k, Engine!DayOf(first), i.calendar, adjustment)
    BY <1>1, <1>3, <1>6, Adjusting
  <2>2. PICK l \in Nat : /\ Fix(other) = Engine!PlusDays(other, Toward(0, l, adjustment))
                         /\ RestsAt(l, Engine!DayOf(other), i.calendar, adjustment)
    BY <1>1, <1>4, <1>6, Adjusting
  <2>3. Toward(day, k, adjustment) <= Toward(day + gap, l, adjustment)
    BY <1>1, <1>3, <1>4, <2>1, <2>2, LaterRest
  <2> DEFINE a == Toward(0, k, adjustment)
             b == Toward(0, l, adjustment)
  <2>4. a \in Int /\ b \in Int /\ Toward(day, k, adjustment) = day + a
        /\ Toward(day + gap, l, adjustment) = (day + gap) + b
    BY <1>1, <1>3 DEF Toward
  <2> HIDE DEF Fix, a, b
  <2>5. n + a \in Int /\ m + b \in Int /\ n + a <= (m + b) + 1
    BY <1>1, <1>3, <2>3, <2>4 DEF gap
  <2>6. Fix(first) = Engine!PlusDays(at, n + a) /\ Fix(other) = Engine!PlusDays(at + 3, m + b)
    BY <1>1, <2>1, <2>2, <2>4 DEF Engine!PlusDays, first, other, a, b
  <2>7. (\E x \in 0..MaxShift : Engine!IsBusinessDay(Toward(day, x, adjustment), i.calendar))
          => Engine!IsNearestWorkingDay(Toward(day, k, adjustment), day, i.calendar, adjustment)
    <3>1. adjustment \in {"FORWARD", "BACKWARD"}
      BY <1>1, <1>6
    <3>2. RestsAt(k, day, i.calendar, adjustment)
      BY <1>3, <2>1
    <3> QED BY <1>1, <1>3, <3>1, <3>2, RestIsNearest
  <2>8. Toward(day, k, adjustment) = Engine!DayOf(at) + (n + a)
    BY <1>3, <2>4 DEF day
  <2> QED BY <1>2, <1>6, <2>5, <2>6, <2>7, <2>8 DEF day, adjustment
<1> QED BY <1>5, <1>6

LEMMA CalendarDaysCount ==
  ASSUME NEW i \in DeadlineInputs, Definitive(i.rule), i.rule.durationUnit = "CALENDAR_DAY"
  PROVE  Counts(i, i.trigger.at)
<1> DEFINE at   == i.trigger.at
           day  == Engine!DayOf(at)
           days == DaysAfterTrigger(i.rule)
           adjustment == i.rule.nonWorkingAdjustment
<1>1. at \in Int /\ at + 3 \in Int /\ adjustment \in {"NONE", "FORWARD", "BACKWARD"}
  BY DeadlineAssumption
<1>2. day \in Int /\ days \in Nat
  <2>1. days \in Nat
    BY TriggerDayCounts
  <2> HIDE DEF at, days
  <2> QED BY <1>1, <2>1, Days
<1>3. ASSUME NEW from
      PROVE  Engine!Arithmetic(i.rule, i.calendar, from) = Engine!PlusDays(from, days)
  BY TriggerDayCounts DEF Engine!Arithmetic
<1> HIDE DEF at, days
<1>4. PICK k \in Int, l \in Int :
           /\ Due(i, at) = Engine!PlusDays(at, k)
           /\ Due(i, at + 3) = Engine!PlusDays(at + 3, l)
           /\ k <= l + 1
           /\ adjustment = "NONE" => k = days
           /\ adjustment # "NONE" =>
                ((\E x \in 0..MaxShift :
                    Engine!IsBusinessDay(Toward(day + days, x, adjustment), i.calendar))
                   => Engine!IsNearestWorkingDay(day + k, day + days, i.calendar, adjustment))
  <2>1. days \in Int /\ days <= days + 1
    BY <1>2
  <2> QED BY <1>1, <1>3, <2>1, AdjustedDays
<1>5. HasWorkedWeekday(i.calendar) =>
        Engine!IsNearestWorkingDay(day + k, day + days, i.calendar, adjustment)
  <2>1. CASE adjustment = "NONE"
    BY <1>4, <2>1 DEF Engine!IsNearestWorkingDay
  <2>2. CASE adjustment # "NONE"
    <3>1. HasWorkedWeekday(i.calendar) =>
            \E x \in 0..MaxShift :
              Engine!IsBusinessDay(Toward(day + days, x, adjustment), i.calendar)
      BY <2>2, CalendarAssumption DEF Definitive, Toward, at, days
    <3> QED BY <1>4, <2>2, <3>1
  <2> QED BY <2>1, <2>2
<1>6. FallsOnCountedDay(i.rule, i.calendar, day, day + k)
  BY <1>5 DEF FallsOnCountedDay, days
<1> HIDE DEF day, adjustment
<1> QED BY <1>4, <1>6 DEF Counts, day, at

LEMMA WeeksCount ==
  ASSUME NEW i \in DeadlineInputs, Definitive(i.rule), i.rule.durationUnit = "WEEK"
  PROVE  Counts(i, i.trigger.at)
<1> DEFINE at  == i.trigger.at
           day == Engine!DayOf(at)
           n   == 7 * i.rule.durationValue
<1>1. at \in Int /\ FirstWeekday \in Int
  BY DeadlineAssumption
<1>2. day \in Int /\ n \in Int /\ i.rule.durationValue \in Nat
  <2>1. n \in Int /\ i.rule.durationValue \in Nat
    BY DEF Definitive
  <2> HIDE DEF at, n
  <2> QED BY <1>1, <2>1, Days
<1>3. ASSUME NEW from
      PROVE  Engine!Arithmetic(i.rule, i.calendar, from) = Engine!PlusDays(from, n)
  BY DEF Engine!Arithmetic
<1> HIDE DEF at, n
<1>4. PICK k \in Int, l \in Int :
           /\ Due(i, at) = Engine!PlusDays(at, k)
           /\ Due(i, at + 3) = Engine!PlusDays(at + 3, l)
           /\ k <= l + 1
           /\ i.rule.nonWorkingAdjustment = "NONE" => k = n
  <2>1. n <= n + 1
    BY <1>2
  <2> QED BY <1>1, <1>2, <1>3, <2>1, AdjustedDays
<1>5. k = n => Engine!Weekday(day + k) = Engine!Weekday(day)
  <2> HIDE DEF day
  <2> QED BY <1>1, <1>2 DEF Engine!Weekday, n
<1>6. FallsOnCountedDay(i.rule, i.calendar, day, day + k)
  BY <1>4, <1>5 DEF FallsOnCountedDay
<1> HIDE DEF day
<1> QED BY <1>4, <1>6 DEF Counts, day, at

LEMMA MonthsCount ==
  ASSUME NEW i \in DeadlineInputs, Definitive(i.rule), i.rule.durationUnit = "MONTH"
  PROVE  Counts(i, i.trigger.at)
<1> DEFINE at  == i.trigger.at
           day == Engine!DayOf(at)
           n   == i.rule.durationValue
<1>1. at \in Int /\ at + 3 \in Int /\ n \in Nat
  BY DeadlineAssumption DEF Definitive
<1>2. day \in Int /\ Engine!DayOf(at + 3) = day + 1
  <2> HIDE DEF at
  <2>1. at + 3 = Engine!PlusDays(at, 1)
    BY <1>1 DEF Engine!PlusDays
  <2> QED BY <1>1, <2>1, Days, LaterDays
<1>3. MonthIsKnown(day, n) /\ MonthIsKnown(day + 1, n)
  BY CalendarAssumption DEF Definitive
<1>4. PICK m : IsInMonth(day, m) /\ m + n <= Len(MonthLengths)
  BY <1>3 DEF MonthIsKnown, IsInMonth
<1>5. PICK p : IsInMonth(day + 1, p) /\ p + n <= Len(MonthLengths)
  BY <1>3 DEF MonthIsKnown, IsInMonth
<1>6. ASSUME NEW from
      PROVE  Engine!Arithmetic(i.rule, i.calendar, from) = Engine!PlusMonths(from, n)
  BY DEF Engine!Arithmetic
<1> HIDE DEF at, day, n
<1> DEFINE due == DayInMonth(day, m, n)
           later == DayInMonth(day + 1, p, n)
<1>7. /\ due \in Int /\ IsInMonth(due, m + n)
      /\ \/ due - Engine!FirstDays[m + n] = day - Engine!FirstDays[m]
         \/ due = Engine!FirstDays[m + n] + MonthLengths[m + n] - 1
  BY <1>1, <1>2, <1>4, LaterMonth
<1>8. later \in Int /\ due <= later
  BY <1>1, <1>2, <1>4, <1>5, LaterMonth, LaterStart
<1>9. /\ Engine!PlusMonths(at, n) = Engine!PlusDays(at, due - day)
      /\ Engine!PlusMonths(at + 3, n) = Engine!PlusDays(at + 3, later - (day + 1))
  BY <1>1, <1>2, <1>4, <1>5, AddingMonths DEF day
<1> HIDE DEF due, later
<1>10. PICK k \in Int, l \in Int :
           /\ Due(i, at) = Engine!PlusDays(at, k)
           /\ Due(i, at + 3) = Engine!PlusDays(at + 3, l)
           /\ k <= l + 1
           /\ i.rule.nonWorkingAdjustment = "NONE" => k = due - day
  <2>1. due - day \in Int /\ later - (day + 1) \in Int /\ due - day <= (later - (day + 1)) + 1
    BY <1>2, <1>7, <1>8
  <2> QED BY <1>1, <1>6, <1>9, <2>1, AdjustedDays
<1>11. k = due - day => day + k = due
  BY <1>2, <1>7
<1>12. \/ Engine!LastDayOfMonth(due)
       \/ due - Engine!FirstDays[Engine!MonthOf(due)]
            = day - Engine!FirstDays[Engine!MonthOf(day)]
  <2>1. Engine!MonthOf(due) = m + n /\ Engine!MonthOf(day) = m
    BY <1>2, <1>4, <1>7, MonthIs
  <2>2. CASE due = Engine!FirstDays[m + n] + MonthLengths[m + n] - 1
    <3>1. 3 * due \in Int /\ Engine!DayOf(3 * due) = due
      BY <1>7 DEF Engine!DayOf
    <3>2. m + n \in DOMAIN MonthLengths /\ m + n \in Nat /\ (m + n) + 0 = m + n
      BY <1>7, Months DEF IsInMonth, MonthsFollow
    <3>3. m + n <= Len(MonthLengths) /\ (m + n) + 0 <= Len(MonthLengths)
      BY <1>4, <3>2
    <3>4. Engine!PlusMonths(3 * due, 0)
            = Engine!PlusDays(3 * due, DayInMonth(due, m + n, 0) - due)
      BY <1>7, <3>1, <3>3, AddingMonths
    <3>5. DayInMonth(due, m + n, 0) = due
      <4> DEFINE a == Engine!FirstDays[m + n]  l0 == MonthLengths[m + n]
      <4>1. a \in Nat /\ l0 \in Nat
        BY <3>2, Months DEF MonthsFollow
      <4>2. DayInMonth(due, m + n, 0) = a + Engine!Smaller(due - a, l0 - 1)
        BY <3>2 DEF DayInMonth
      <4>3. due = a + (l0 - 1)
        BY <2>2, <4>1
      <4> HIDE DEF a, l0
      <4> QED BY <1>7, <4>1, <4>2, <4>3 DEF Engine!Smaller
    <3>6. due - due = 0
      BY <1>7
    <3>7. Engine!PlusMonths(3 * due, 0) = 3 * due
      BY <3>1, <3>4, <3>5, <3>6 DEF Engine!PlusDays
    <3> QED BY <2>1, <2>2, <3>1, <3>7 DEF Engine!LastDayOfMonth
  <2>3. CASE due - Engine!FirstDays[m + n] = day - Engine!FirstDays[m]
    BY <2>1, <2>3
  <2> QED BY <1>7, <2>2, <2>3
<1>13. FallsOnCountedDay(i.rule, i.calendar, day, day + k)
  <2>1. i.rule.nonWorkingAdjustment = "NONE" => day + k = due
    BY <1>10, <1>11
  <2> QED BY <1>12, <2>1 DEF FallsOnCountedDay
<1> QED BY <1>10, <1>13 DEF Counts, day, at

LEMMA DueDays ==
  ASSUME NEW i \in DeadlineInputs, Definitive(i.rule)
  PROVE  Counts(i, i.trigger.at)
BY CalendarDaysCount, BusinessDaysCount, WeeksCount, MonthsCount DEF Definitive

(* The end-of-day convention keeps the day and the order of instants.         *)
LEMMA EndOfDays ==
  ASSUME NEW i \in DeadlineInputs, NEW at \in Int
  PROVE  /\ Engine!EndDayRule(i.rule, at) \in Int
         /\ Engine!DayOf(Engine!EndDayRule(i.rule, at)) = Engine!DayOf(at)
         /\ \A n \in Nat : Engine!EndDayRule(i.rule, at)
                             <= Engine!EndDayRule(i.rule, Engine!PlusDays(at, n))
<1> DEFINE day == Engine!DayOf(at)
           convention == i.rule.endDateConvention
<1>1. convention \in {"END_OF_DAY", "START_OF_DAY", "EXACT_TIMESTAMP"}
  BY DeadlineAssumption
<1>2. day \in Int /\ Engine!DayOf(3 * day) = day /\ Engine!DayOf(3 * day + 2) = day
  <2>1. day \in Int
    BY Days
  <2> HIDE DEF day
  <2>2. \A d \in Int : 3 * d <= 3 * day /\ 3 * day < 3 * d + 3 => Engine!DayOf(3 * day) = d
    BY <2>1, Days
  <2>3. \A d \in Int : 3 * d <= 3 * day + 2 /\ 3 * day + 2 < 3 * d + 3 =>
          Engine!DayOf(3 * day + 2) = d
    BY <2>1, Days
  <2> QED BY <2>1, <2>2, <2>3
<1>3. ASSUME NEW x PROVE Engine!EndDayRule(i.rule, x) =
                           IF convention = "END_OF_DAY" THEN 3 * Engine!DayOf(x) + 2
                           ELSE IF convention = "START_OF_DAY" THEN 3 * Engine!DayOf(x) ELSE x
  BY <1>1 DEF Engine!EndDayRule, Engine!EndOfDay, Engine!StartOfDay
<1>4. ASSUME NEW n \in Nat
      PROVE  /\ Engine!DayOf(Engine!PlusDays(at, n)) = day + n
             /\ Engine!PlusDays(at, n) = at + 3 * n
  BY LaterDays DEF Engine!PlusDays
<1> HIDE DEF day, convention
<1>5. ASSUME NEW n \in Nat
      PROVE  Engine!EndDayRule(i.rule, at) <= Engine!EndDayRule(i.rule, Engine!PlusDays(at, n))
  BY <1>2, <1>3, <1>4 DEF day
<1> QED BY <1>2, <1>3, <1>5 DEF day

(* What a calculated answer rests on.                                         *)
LEMMA Calculable ==
  ASSUME NEW i \in DeadlineInputs, NEW trigger, NEW answered,
         answered = Engine!CalculateDeadline(i.rule, i.calendar, trigger, i.offsets),
         answered.status = "CALCULATED"
  PROVE  /\ i.rule.humanApproved /\ ~i.rule.ambiguous
         /\ i.rule.durationUnit \notin {"PROMPT", "REASONABLE_TIME", "CUSTOM"}
         /\ Engine!RuleReasons(i.rule) \cup Engine!CalendarReasons(i.calendar) = {}
         /\ Engine!TriggerReasons(trigger) = {}
         /\ \/ i.rule.durationUnit = "IMMEDIATE"
            \/ /\ Definitive(i.rule)
               /\ i.rule.durationUnit = "MONTH" => i.rule.monthRollBehavior = "SAME_DAY_OR_LAST"
<1> DEFINE refused == Engine!RuleReasons(i.rule) \cup Engine!CalendarReasons(i.calendar)
<1>1. ASSUME NEW reasons, NEW trace PROVE Engine!Blocked(reasons, trace).status = "BLOCKED"
  BY DEF Engine!Blocked
<1>2. refused = {} /\ Engine!TriggerReasons(trigger) = {}
  <2> HIDE DEF refused
  <2>1. refused = {}
    BY <1>1 DEF Engine!CalculateDeadline, refused
  <2>2. Engine!TriggerReasons(trigger) = {}
    BY <1>1, <2>1 DEF Engine!CalculateDeadline, refused
  <2> QED BY <2>1, <2>2
<1>3. Engine!RuleReasons(i.rule) = {}
  BY <1>2
<1>4. /\ i.rule.humanApproved /\ ~i.rule.ambiguous
      /\ i.rule.durationUnit \notin {"PROMPT", "REASONABLE_TIME", "CUSTOM"}
      /\ i.rule.counting # "UNSPECIFIED"
      /\ i.rule.durationUnit \notin Engine!NonNumeric =>
           i.rule.durationValue # None /\ ~(i.rule.durationValue < 0)
  <2>1. /\ "not_approved" \notin Engine!RuleReasons(i.rule)
        /\ "ambiguous" \notin Engine!RuleReasons(i.rule)
        /\ "not_definitive" \notin Engine!RuleReasons(i.rule)
        /\ "custom" \notin Engine!RuleReasons(i.rule)
        /\ "counting" \notin Engine!RuleReasons(i.rule)
        /\ "no_value" \notin Engine!RuleReasons(i.rule)
        /\ "negative" \notin Engine!RuleReasons(i.rule)
    BY <1>3
  <2> QED BY <2>1 DEF Engine!RuleReasons
<1>5. CASE i.rule.durationUnit = "IMMEDIATE"
  BY <1>2, <1>4, <1>5
<1>6. CASE i.rule.durationUnit # "IMMEDIATE"
  <2>1. i.rule.durationUnit \in {"CALENDAR_DAY", "BUSINESS_DAY", "WEEK", "MONTH"}
    BY <1>4, <1>6, DeadlineAssumption DEF Engine!Units
  <2>2. i.rule.durationValue \in Nat
    <3>1. i.rule.durationValue \in Int \cup {None}
      BY DeadlineAssumption
    <3> QED BY <1>4, <2>1, <3>1 DEF Engine!NonNumeric
  <2>3. i.rule.counting \in {"INCLUSIVE", "EXCLUSIVE"}
    BY <1>4, DeadlineAssumption
  <2>4. i.rule.durationUnit = "MONTH" => i.rule.monthRollBehavior = "SAME_DAY_OR_LAST"
    <3> HIDE DEF refused
    <3> QED BY <1>1, <1>2, <1>6 DEF Engine!CalculateDeadline, refused
  <2> QED BY <1>2, <1>4, <2>1, <2>2, <2>3, <2>4 DEF Definitive
<1> QED BY <1>5, <1>6

(* And what it says: the trigger itself, or the day the arithmetic leads to,  *)
(* with the warnings that fall between the trigger and it.                    *)
Says(answered, i, at) ==
  /\ answered.status = "CALCULATED"
  /\ i.rule.durationUnit = "IMMEDIATE" =>
       answered.immediate = TRUE /\ answered.at = at /\ answered.warnings = {}
  /\ i.rule.durationUnit # "IMMEDIATE" =>
       LET deadline == Engine!EndDayRule(i.rule, Due(i, at))
       IN /\ answered.immediate = FALSE /\ answered.at = deadline
          /\ answered.warnings =
               {Engine!PlusDays(deadline, -i.offsets[n]) :
                  n \in {m \in DOMAIN i.offsets : Engine!PlusDays(deadline, -i.offsets[m]) > at}}

LEMMA Calculation ==
  ASSUME NEW i \in DeadlineInputs, NEW trigger,
         Engine!RuleReasons(i.rule) \cup Engine!CalendarReasons(i.calendar) = {},
         Engine!TriggerReasons(trigger) = {},
         i.rule.durationUnit = "MONTH" => i.rule.monthRollBehavior = "SAME_DAY_OR_LAST"
  PROVE  Says(Engine!CalculateDeadline(i.rule, i.calendar, trigger, i.offsets), i, trigger.at)
<1> DEFINE answered == Engine!CalculateDeadline(i.rule, i.calendar, trigger, i.offsets)
<1>1. CASE i.rule.durationUnit = "IMMEDIATE"
  <2> DEFINE trace == <<"SELECT_TRIGGER_DATE", "NORMALIZE_TIMEZONE">> \o <<"HANDLE_IMMEDIATE">>
  <2>1. answered = Engine!Calculated(trigger.at, trace, {}, TRUE)
    BY <1>1 DEF Engine!CalculateDeadline
  <2> HIDE DEF answered, trace
  <2>2. /\ answered.status = "CALCULATED" /\ answered.immediate = TRUE
        /\ answered.at = trigger.at /\ answered.warnings = {}
    BY <2>1 DEF Engine!Calculated
  <2> QED BY <1>1, <2>2 DEF Says, answered
<1>2. CASE i.rule.durationUnit # "IMMEDIATE"
  <2>1. answered = Engine!Numeric(i.rule, i.calendar, trigger.at, i.offsets)
    BY <1>2 DEF Engine!CalculateDeadline
  <2> DEFINE deadline == Engine!EndDayRule(i.rule, Due(i, trigger.at))
             kept == {m \in DOMAIN i.offsets :
                        Engine!PlusDays(deadline, -i.offsets[m]) > trigger.at}
             warnings == {Engine!PlusDays(deadline, -i.offsets[n]) : n \in kept}
  <2>2. /\ answered.status = "CALCULATED" /\ answered.immediate = FALSE
        /\ answered.at = deadline /\ answered.warnings = warnings
    BY <2>1 DEF Engine!Numeric, Engine!Calculated, Engine!WarningOffsets, Due
  <2> HIDE DEF answered
  <2> QED BY <1>2, <2>2 DEF Says, answered
<1> QED BY <1>1, <1>2

AsCounted(answered, i) ==
  LET later == Engine!CalculateDeadline(i.rule, i.calendar, [i.trigger EXCEPT !.at = @ + 3],
                                        i.offsets)
  IN /\ i.rule.humanApproved /\ ~i.rule.ambiguous
     /\ i.rule.durationUnit \notin {"PROMPT", "REASONABLE_TIME", "CUSTOM"}
     /\ \A w \in answered.warnings : i.trigger.at < w /\ w <= answered.at
     /\ later.status = "CALCULATED" /\ later.at >= answered.at
     /\ IF answered.immediate THEN answered.at = i.trigger.at
        ELSE FallsOnCountedDay(i.rule, i.calendar, Engine!DayOf(i.trigger.at),
                               Engine!DayOf(answered.at))

LEMMA CalculatedAsCounted ==
  ASSUME NEW i \in DeadlineInputs, NEW answered,
         answered = Engine!CalculateDeadline(i.rule, i.calendar, i.trigger, i.offsets),
         answered.status = "CALCULATED"
  PROVE  AsCounted(answered, i)
<1> DEFINE at      == i.trigger.at
           day     == Engine!DayOf(at)
           trigger == [i.trigger EXCEPT !.at = @ + 3]
           later   == Engine!CalculateDeadline(i.rule, i.calendar, trigger, i.offsets)
<1>1. /\ i.rule.humanApproved /\ ~i.rule.ambiguous
      /\ i.rule.durationUnit \notin {"PROMPT", "REASONABLE_TIME", "CUSTOM"}
      /\ Engine!RuleReasons(i.rule) \cup Engine!CalendarReasons(i.calendar) = {}
      /\ Engine!TriggerReasons(i.trigger) = {}
      /\ \/ i.rule.durationUnit = "IMMEDIATE"
         \/ /\ Definitive(i.rule)
            /\ i.rule.durationUnit = "MONTH" => i.rule.monthRollBehavior = "SAME_DAY_OR_LAST"
  BY Calculable
<1>2. /\ at \in Int /\ at + 3 \in Int /\ trigger.at = at + 3 /\ trigger.valid = i.trigger.valid
  BY DeadlineAssumption
<1>3. Engine!TriggerReasons(trigger) = {}
  <2> HIDE DEF trigger
  <2> QED BY <1>1, <1>2 DEF Engine!TriggerReasons
<1>4. i.rule.durationUnit = "MONTH" => i.rule.monthRollBehavior = "SAME_DAY_OR_LAST"
  BY <1>1
<1>5. Says(answered, i, at)
  BY <1>1, <1>4, Calculation
<1>6. Says(later, i, at + 3)
  <2> HIDE DEF trigger
  <2>1. Says(later, i, trigger.at)
    BY <1>1, <1>3, <1>4, Calculation
  <2> QED BY <1>2, <2>1
<1> HIDE DEF later, trigger, at, day
<1>7. CASE i.rule.durationUnit = "IMMEDIATE"
  <2>1. answered.immediate /\ answered.at = at /\ answered.warnings = {}
    BY <1>5, <1>7 DEF Says
  <2>2. later.status = "CALCULATED" /\ later.at = at + 3
    BY <1>6, <1>7 DEF Says
  <2>3. later.at >= answered.at
    BY <1>2, <2>1, <2>2
  <2> QED BY <1>1, <2>1, <2>2, <2>3 DEF AsCounted, later, trigger, at
<1>8. CASE i.rule.durationUnit # "IMMEDIATE"
  <2> DEFINE deadline == Engine!EndDayRule(i.rule, Due(i, at))
             next     == Engine!EndDayRule(i.rule, Due(i, at + 3))
  <2>1. /\ answered.immediate = FALSE /\ answered.at = deadline
        /\ answered.warnings =
             {Engine!PlusDays(deadline, -i.offsets[n]) :
                n \in {m \in DOMAIN i.offsets : Engine!PlusDays(deadline, -i.offsets[m]) > at}}
    BY <1>5, <1>8 DEF Says
  <2>2. later.status = "CALCULATED" /\ later.at = next
    BY <1>6, <1>8 DEF Says
  <2>3. PICK k \in Int, l \in Int :
          /\ Due(i, at) = Engine!PlusDays(at, k)
          /\ Due(i, at + 3) = Engine!PlusDays(at + 3, l)
          /\ k <= l + 1
          /\ FallsOnCountedDay(i.rule, i.calendar, day, day + k)
    BY <1>1, <1>8, DueDays DEF Counts, at, day
  <2>4. /\ Due(i, at) \in Int /\ Engine!DayOf(Due(i, at)) = day + k
    BY <1>2, <2>3, LaterDays DEF day
  <2>5. deadline \in Int /\ Engine!DayOf(deadline) = day + k
    BY <2>4, EndOfDays
  <2>6. deadline <= next
    <3>1. (l + 1) - k \in Nat
      BY <2>3
    <3>2. Due(i, at + 3) = Engine!PlusDays(Due(i, at), (l + 1) - k)
      BY <1>2, <2>3 DEF Engine!PlusDays
    <3> QED BY <2>4, <3>1, <3>2, EndOfDays
  <2>7. next \in Int
    <3>1. Due(i, at + 3) \in Int
      BY <1>2, <2>3, LaterDays
    <3> QED BY <3>1, EndOfDays
  <2> HIDE DEF deadline, next
  <2>8. \A w \in answered.warnings : at < w /\ w <= answered.at
    <3> SUFFICES ASSUME NEW n \in DOMAIN i.offsets,
                        Engine!PlusDays(deadline, -i.offsets[n]) > at
                 PROVE  /\ at < Engine!PlusDays(deadline, -i.offsets[n])
                        /\ Engine!PlusDays(deadline, -i.offsets[n]) <= deadline
      BY <2>1
    <3>1. i.offsets[n] \in Nat
      BY DeadlineAssumption
    <3>2. Engine!PlusDays(deadline, -i.offsets[n]) = deadline + 3 * (-i.offsets[n])
      BY DEF Engine!PlusDays
    <3> QED BY <1>2, <2>5, <3>1, <3>2
  <2>9. FallsOnCountedDay(i.rule, i.calendar, day, Engine!DayOf(answered.at))
    BY <2>1, <2>3, <2>5
  <2>10. later.at >= answered.at
    BY <2>1, <2>2, <2>5, <2>6, <2>7
  <2> QED BY <1>1, <2>1, <2>2, <2>8, <2>9, <2>10 DEF AsCounted, later, trigger, at, day
<1> QED BY <1>7, <1>8

DeadlinesComputed ==
  Computed("deadline", DeadlineInputs,
           Engine!CalculateDeadline(input.rule, input.calendar, input.trigger, input.offsets))

LEMMA DeadlinesAreComputed == Spec => []DeadlinesComputed
<1>1. Init => DeadlinesComputed
  BY DEF Init, Ask, DeadlinesComputed, Computed
<1>2. DeadlinesComputed /\ [Next]_vars => DeadlinesComputed'
  <2> SUFFICES ASSUME DeadlinesComputed, [Next]_vars PROVE DeadlinesComputed'
    OBVIOUS
  <2> USE DEF DeadlinesComputed, Computed, Answer
  <2>1. CASE CalculateDeadline
    BY <2>1 DEF CalculateDeadline
  <2>2. CASE UNCHANGED vars
    BY <2>2 DEF vars
  <2>3. CASE \/ MatchScope \/ ListPages \/ ValidateWebhook \/ EvaluateAlerts
             \/ Escalate \/ Detect \/ CheckSuggestion \/ Draft \/ ValidateAiSections
             \/ AssessEvidence \/ BuildArchive \/ SendAndClassify \/ AssessReceipt \/ AssessRisk
             \/ ValidateConfig \/ AllowDeployment \/ AssessReadiness \/ SendAlerts
             \/ CheckManifest \/ ResolveEnvironment \/ CheckLimits \/ ValidateDraft
             \/ CheckDispatch \/ BuildPage
    BY <2>3 DEF MatchScope, ListPages, ValidateWebhook, EvaluateAlerts, Escalate, Detect,
                CheckSuggestion, Draft, ValidateAiSections, AssessEvidence, BuildArchive,
                SendAndClassify, AssessReceipt, AssessRisk, ValidateConfig, AllowDeployment,
                AssessReadiness, SendAlerts, CheckManifest, ResolveEnvironment, CheckLimits,
                ValidateDraft, CheckDispatch, BuildPage
  <2> QED BY <2>1, <2>2, <2>3 DEF Next
<1> QED BY <1>1, <1>2, PTL DEF Spec

(* A deadline is the day the contract's conventions count, with its warnings  *)
(* before it, and a later trigger never gives an earlier one, for every rule, *)
(* calendar and duration whose loops meet their working day before their      *)
(* guards (calculateDeadline).                                                *)
THEOREM DeadlinesKeepCounting == Spec => []DeadlinesAreAsCounted
<1>1. DeadlinesComputed => DeadlinesAreAsCounted
  <2> SUFFICES ASSUME DeadlinesComputed, Answered("deadline"), answer.status = "CALCULATED"
               PROVE  AsCounted(answer, input)
    BY Zenon DEF DeadlinesAreAsCounted, AsCounted
  <2>1. input \in DeadlineInputs
    BY DEF DeadlinesComputed, Computed, Answered
  <2>2. answer = Engine!CalculateDeadline(input.rule, input.calendar, input.trigger, input.offsets)
    BY DEF DeadlinesComputed, Computed, Answered
  <2> QED BY <2>1, <2>2, CalculatedAsCounted
<1> QED BY <1>1, DeadlinesAreComputed, PTL

-----------------------------------------------------------------------------
(* Lists: what is in them, and what a filter or a flattening leaves.          *)
Items(list) == {list[n] : n \in DOMAIN list}

LEMMA AppendedItems ==
  ASSUME NEW S, NEW s \in Seq(S), NEW e \in S
  PROVE  Append(s, e) \in Seq(S) /\ Items(Append(s, e)) = Items(s) \cup {e}
<1> DEFINE t == Append(s, e)
<1>1. /\ t \in Seq(S) /\ Len(t) = Len(s) + 1 /\ Len(s) \in Nat
      /\ \A n \in 1..Len(s) : t[n] = s[n]
      /\ t[Len(s) + 1] = e
  BY AppendProperties
<1>2. DOMAIN t = 1..Len(s) + 1 /\ DOMAIN s = 1..Len(s)
  BY <1>1
<1> HIDE DEF t
<1>3. Items(t) \subseteq Items(s) \cup {e}
  BY <1>1, <1>2 DEF Items
<1>4. Items(s) \cup {e} \subseteq Items(t)
  BY <1>1, <1>2 DEF Items
<1> QED BY <1>1, <1>3, <1>4 DEF t

LEMMA JoinedItems ==
  ASSUME NEW S, NEW s \in Seq(S), NEW t \in Seq(S)
  PROVE  /\ s \o t \in Seq(S) /\ Items(s \o t) = Items(s) \cup Items(t)
         /\ Len(s \o t) = Len(s) + Len(t)
<1> DEFINE u == s \o t
<1>1. /\ u \in Seq(S) /\ Len(u) = Len(s) + Len(t) /\ Len(s) \in Nat /\ Len(t) \in Nat
      /\ \A n \in 1..Len(u) : u[n] = IF n <= Len(s) THEN s[n] ELSE t[n - Len(s)]
  BY ConcatProperties
<1>2. DOMAIN u = 1..Len(u) /\ DOMAIN s = 1..Len(s) /\ DOMAIN t = 1..Len(t)
  BY <1>1
<1> HIDE DEF u
<1>3. \A n \in DOMAIN s : n \in DOMAIN u /\ u[n] = s[n]
  BY <1>1, <1>2
<1>4. \A n \in DOMAIN t : n + Len(s) \in DOMAIN u /\ u[n + Len(s)] = t[n]
  BY <1>1, <1>2
<1>5. \A n \in DOMAIN u : n \in DOMAIN s \/ n - Len(s) \in DOMAIN t
  BY <1>1, <1>2
<1>6. Items(u) \subseteq Items(s) \cup Items(t)
  BY <1>1, <1>2, <1>5 DEF Items
<1>7. Items(s) \subseteq Items(u) /\ Items(t) \subseteq Items(u)
  BY <1>3, <1>4 DEF Items
<1> QED BY <1>1, <1>6, <1>7 DEF u

(* A list is empty when nothing is in it.                                     *)
LEMMA NoItems ==
  ASSUME NEW S, NEW s \in Seq(S)
  PROVE  s = <<>> <=> Items(s) = {}
<1>1. ASSUME s # <<>> PROVE Items(s) # {}
  <2>1. 1 \in DOMAIN s
    BY <1>1
  <2> QED BY <2>1 DEF Items
<1> QED BY <1>1 DEF Items

LEMMA FirstItem ==
  ASSUME NEW S, NEW s \in Seq(S), s # <<>>
  PROVE  s[1] \in Items(s) /\ s[1] \in S
<1>1. 1 \in DOMAIN s
  OBVIOUS
<1> QED BY <1>1 DEF Items

LEMMA PickedAre ==
  ASSUME NEW S, NEW list \in Seq(S), NEW places
  PROVE  /\ Picked(list, places) \in Seq(S)
         /\ Items(Picked(list, places)) = {list[n] : n \in places \cap DOMAIN list}
<1> DEFINE L == Len(list)
           kept == CHOOSE g : g = [n \in 0..Len(list) |->
                     IF n = 0 THEN <<>>
                     ELSE IF n \in places THEN Append(g[n - 1], list[n]) ELSE g[n - 1]]
           After(s, n) == IF n \in places THEN Append(s, list[n]) ELSE s
           So(s, n) == s \in Seq(S) /\ Items(s) = {list[m] : m \in places \cap 1..n}
<1>1. L \in Nat /\ DOMAIN list = 1..L /\ \A n \in 1..L : list[n] \in S
  OBVIOUS
<1>2. Picked(list, places) = kept[L]
  BY DEF Picked
<1>3. kept = [n \in 0..L |-> IF n = 0 THEN <<>>
                            ELSE IF n \in places THEN Append(kept[n - 1], list[n])
                                                 ELSE kept[n - 1]]
  <2> DEFINE step == [n \in 1..L |-> [s \in Seq(S) |-> After(s, n)]]
  <2>1. step \in Steps(L, Seq(S)) /\ <<>> \in Seq(S)
    BY <1>1 DEF Steps
  <2> HIDE DEF step
  <2>2. PICK f : Iterates(f, L, Seq(S), <<>>, step)
    BY <1>1, <2>1, Iteration
  <2> USE DEF Iterates
  <2>3. \A n \in 1..L : f[n] = After(f[n - 1], n)
    <3>1. ASSUME NEW n \in 1..L PROVE step[n][f[n - 1]] = After(f[n - 1], n)
      <4>1. n - 1 \in 0..L
        BY <1>1
      <4>2. f[n - 1] \in Seq(S)
        BY <2>2, <4>1
      <4> QED BY <4>2 DEF step
    <3> QED BY <2>2, <3>1
  <2>4. f = [n \in 0..L |-> IF n = 0 THEN <<>>
                           ELSE IF n \in places THEN Append(f[n - 1], list[n]) ELSE f[n - 1]]
    <3>1. DOMAIN f = 0..L /\ f[0] = <<>>
      BY <2>2
    <3>2. \A n \in 0..L : n # 0 => n \in 1..L
      BY <1>1
    <3>3. \A n \in 0..L :
            f[n] = IF n = 0 THEN <<>>
                   ELSE IF n \in places THEN Append(f[n - 1], list[n]) ELSE f[n - 1]
      <4> HIDE DEF L, Iterates
      <4> QED BY <2>3, <3>1, <3>2
    <3>4. f = [n \in 0..L |-> f[n]]
      BY <2>2
    <3> HIDE DEF L
    <3> QED BY <3>3, <3>4, Zenon
  <2> QED BY <2>4, Zenon
<1>30. \A n \in 0..L :
         kept[n] = IF n = 0 THEN <<>>
                   ELSE IF n \in places THEN Append(kept[n - 1], list[n]) ELSE kept[n - 1]
  <2> HIDE DEF kept, L
  <2> QED BY <1>3, Zenon
<1> HIDE DEF kept
<1> DEFINE T == {n \in Nat : n <= L => So(kept[n], n)}
<1>4. 0 \in T
  <2>1. kept[0] = <<>>
    BY <1>1, <1>3
  <2>2. places \cap 1..0 = {} /\ Items(<<>>) = {}
    BY DEF Items
  <2>3. {list[m] : m \in places \cap 1..0} = {}
    BY <2>2
  <2>4. <<>> \in Seq(S)
    OBVIOUS
  <2>5. Items(kept[0]) = {list[m] : m \in places \cap 1..0} /\ kept[0] \in Seq(S)
    BY <2>1, <2>2, <2>3, <2>4
  <2> QED BY <2>5
<1>5. ASSUME NEW n \in Nat, n \in T PROVE n + 1 \in T
  <2>1. SUFFICES ASSUME n + 1 <= L PROVE So(kept[n + 1], n + 1)
    OBVIOUS
  <2>2. So(kept[n], n) /\ n + 1 \in 1..L /\ list[n + 1] \in S
    BY <1>1, <1>5, <2>1
  <2>3. kept[n + 1] = After(kept[n], n + 1)
    <3>1. n + 1 \in 0..L /\ n + 1 # 0 /\ n + 1 - 1 = n
      BY <2>2
    <3> HIDE DEF L
    <3> QED BY <1>30, <3>1
  <2>4. places \cap 1..n + 1
          = (places \cap 1..n) \cup (IF n + 1 \in places THEN {n + 1} ELSE {})
    OBVIOUS
  <2>5. CASE n + 1 \in places
    <3>1. kept[n + 1] = Append(kept[n], list[n + 1])
      BY <2>3, <2>5
    <3>2. kept[n + 1] \in Seq(S) /\ Items(kept[n + 1]) = Items(kept[n]) \cup {list[n + 1]}
      BY <2>2, <3>1, AppendedItems
    <3> QED BY <2>2, <2>4, <2>5, <3>2
  <2>6. CASE n + 1 \notin places
    BY <2>2, <2>3, <2>4, <2>6
  <2> QED BY <2>5, <2>6
<1>6. L \in T
  <2> HIDE DEF T
  <2> QED BY <1>1, <1>4, <1>5, SetInduction
<1> QED BY <1>1, <1>2, <1>6

LEMMA SamePicked ==
  ASSUME NEW list, NEW places
  PROVE  /\ Alerts!Picked(list, places) = Picked(list, places)
         /\ Detectors!Picked(list, places) = Picked(list, places)
         /\ Drafting!Picked(list, places) = Picked(list, places)
         /\ Delivery!Picked(list, places) = Picked(list, places)
BY DEF Picked, Alerts!Picked, Detectors!Picked, Drafting!Picked, Delivery!Picked

(* A list is ordered by a relation when any two of its items in order are in  *)
(* it.                                                                        *)
Ordered(list, R) == \A a, b \in DOMAIN list : a < b => <<list[a], list[b]>> \in R
Before(s, t, R) == \A x \in Items(s), y \in Items(t) : <<x, y>> \in R

LEMMA JoinedOrder ==
  ASSUME NEW S, NEW s \in Seq(S), NEW t \in Seq(S), NEW R,
         Ordered(s, R), Ordered(t, R), Before(s, t, R)
  PROVE  Ordered(s \o t, R)
<1> DEFINE u == s \o t
<1>1. /\ u \in Seq(S) /\ Len(u) = Len(s) + Len(t) /\ Len(s) \in Nat /\ Len(t) \in Nat
      /\ \A n \in 1..Len(u) : u[n] = IF n <= Len(s) THEN s[n] ELSE t[n - Len(s)]
  BY ConcatProperties
<1>2. DOMAIN u = 1..Len(u) /\ DOMAIN s = 1..Len(s) /\ DOMAIN t = 1..Len(t)
  BY <1>1
<1> HIDE DEF u
<1>3. SUFFICES ASSUME NEW a \in DOMAIN u, NEW b \in DOMAIN u, a < b
               PROVE  <<u[a], u[b]>> \in R
  BY DEF Ordered, u
<1>4. CASE b <= Len(s)
  <2>1. a \in DOMAIN s /\ b \in DOMAIN s /\ u[a] = s[a] /\ u[b] = s[b]
    BY <1>1, <1>2, <1>3, <1>4
  <2> QED BY <1>3, <2>1 DEF Ordered
<1>5. CASE a > Len(s)
  <2>1. /\ a - Len(s) \in DOMAIN t /\ b - Len(s) \in DOMAIN t
        /\ u[a] = t[a - Len(s)] /\ u[b] = t[b - Len(s)] /\ a - Len(s) < b - Len(s)
    BY <1>1, <1>2, <1>3, <1>5
  <2> QED BY <2>1 DEF Ordered
<1>6. CASE a <= Len(s) /\ Len(s) < b
  <2>1. a \in DOMAIN s /\ b - Len(s) \in DOMAIN t /\ u[a] = s[a] /\ u[b] = t[b - Len(s)]
    BY <1>1, <1>2, <1>3, <1>6
  <2>2. u[a] \in Items(s) /\ u[b] \in Items(t)
    BY <2>1 DEF Items
  <2> QED BY <2>2 DEF Before
<1> QED BY <1>1, <1>2, <1>4, <1>5, <1>6

LEMMA OneMore ==
  ASSUME NEW A, NEW x PROVE UNION (A \cup {x}) = (UNION A) \cup x
<1>1. UNION (A \cup {x}) \subseteq (UNION A) \cup x
  OBVIOUS
<1>2. (UNION A) \cup x \subseteq UNION (A \cup {x})
  OBVIOUS
<1> QED BY <1>1, <1>2

LEMMA FlattenedIs ==
  ASSUME NEW S, NEW lists \in Seq(Seq(S)), NEW R,
         \A n \in DOMAIN lists : Ordered(lists[n], R),
         \A m, n \in DOMAIN lists : m < n => Before(lists[m], lists[n], R)
  PROVE  LET flat == Alerts!FlattenSeq(lists)
         IN /\ flat \in Seq(S)
            /\ Items(flat) = UNION {Items(lists[n]) : n \in DOMAIN lists}
            /\ Ordered(flat, R)
<1> DEFINE L == Len(lists)
           flat == CHOOSE g : g = [i \in 1..Len(lists) |->
                     IF i = 1 THEN lists[i] ELSE g[i - 1] \o lists[i]]
           So(s, n) == /\ s \in Seq(S) /\ Items(s) = UNION {Items(lists[m]) : m \in 1..n}
                       /\ Ordered(s, R)
<1>1. L \in Nat /\ DOMAIN lists = 1..L /\ \A n \in 1..L : lists[n] \in Seq(S)
  OBVIOUS
<1>2. CASE L = 0
  <2>1. Alerts!FlattenSeq(lists) = <<>>
    <3>1. lists = <<>> /\ Alerts!FlattenSeq(lists) = lists
      BY <1>2 DEF Alerts!FlattenSeq
    <3> QED BY <3>1
  <2> QED BY <1>2, <2>1 DEF Items, Ordered
<1>3. CASE L # 0
  <2>1. Alerts!FlattenSeq(lists) = flat[L]
    BY <1>3 DEF Alerts!FlattenSeq
  <2>2. flat = [i \in 1..L |-> IF i = 1 THEN lists[i] ELSE flat[i - 1] \o lists[i]]
    <3> DEFINE step == [n \in 1..L - 1 |-> [s \in Seq(S) |-> s \o lists[n + 1]]]
    <3>1. L - 1 \in Nat /\ lists[1] \in Seq(S) /\ 1..L - 1 \subseteq 1..L
      BY <1>1, <1>3
    <3>2. step \in Steps(L - 1, Seq(S))
      <4>1. ASSUME NEW n \in 1..L - 1, NEW s \in Seq(S) PROVE s \o lists[n + 1] \in Seq(S)
        <5>1. lists[n + 1] \in Seq(S)
          BY <1>1, <3>1
        <5> QED BY <5>1
      <4> QED BY <4>1 DEF Steps
    <3> HIDE DEF step
    <3>3. PICK f : Iterates(f, L - 1, Seq(S), lists[1], step)
      BY <3>1, <3>2, Iteration
    <3> DEFINE h == [i \in 1..L |-> f[i - 1]]
    <3>4. ASSUME NEW i \in 1..L, i # 1 PROVE h[i] = h[i - 1] \o lists[i]
      <4>1. i - 1 \in 1..L - 1 /\ i - 1 \in 1..L /\ i - 1 - 1 \in 0..L - 1 /\ i - 1 + 1 = i
        BY <1>1, <3>4
      <4>2. f[i - 1] = step[i - 1][f[i - 1 - 1]] /\ f[i - 1 - 1] \in Seq(S)
        BY <3>3, <4>1 DEF Iterates
      <4>3. f[i - 1] = f[i - 1 - 1] \o lists[i]
        BY <4>1, <4>2 DEF step
      <4> QED BY <4>1, <4>3
    <3>5. h[1] = lists[1]
      BY <1>1, <1>3, <3>3 DEF Iterates
    <3>6. h = [i \in 1..L |-> h[i]]
      OBVIOUS
    <3>7. \A i \in 1..L : h[i] = IF i = 1 THEN lists[i] ELSE h[i - 1] \o lists[i]
      BY <3>4, <3>5
    <3> HIDE DEF h, L
    <3>8. h = [i \in 1..L |-> IF i = 1 THEN lists[i] ELSE h[i - 1] \o lists[i]]
      BY <3>6, <3>7, Zenon
    <3> QED BY <3>8, Zenon DEF L
  <2> HIDE DEF flat
  <2>3. \A i \in 1..L : flat[i] = IF i = 1 THEN lists[i] ELSE flat[i - 1] \o lists[i]
    <3> HIDE DEF L
    <3> QED BY <2>2, Zenon
  <2> DEFINE T == {n \in Nat : n + 1 <= L => So(flat[n + 1], n + 1)}
  <2>4. 0 \in T
    <3>1. flat[1] = lists[1] /\ 1 \in 1..L
      BY <1>1, <1>3, <2>3
    <3>2. 0 + 1 = 1 /\ 1..1 = {1}
      OBVIOUS
    <3>3. UNION {Items(lists[m]) : m \in 1..1} = Items(lists[1])
      BY <3>2
    <3>4. So(flat[1], 1)
      BY <1>1, <3>1, <3>3
    <3> QED BY <3>2, <3>4
  <2>5. ASSUME NEW n \in Nat, n \in T PROVE n + 1 \in T
    <3>1. SUFFICES ASSUME n + 2 <= L PROVE So(flat[n + 2], n + 2)
      OBVIOUS
    <3>2. So(flat[n + 1], n + 1) /\ n + 1 \in 1..L /\ n + 2 \in 1..L /\ n + 2 # 1
          /\ (n + 2) - 1 = n + 1
      <4>1. /\ n + 1 <= L /\ n + 1 \in 1..L /\ n + 2 \in 1..L /\ n + 2 # 1
            /\ (n + 2) - 1 = n + 1
        BY <1>1, <3>1
      <4>2. So(flat[n + 1], n + 1)
        <5> HIDE DEF So, L
        <5> QED BY <2>5, <4>1
      <4> QED BY <4>1, <4>2
    <3>3. flat[n + 2] = flat[n + 1] \o lists[n + 2]
      <4> HIDE DEF L
      <4> QED BY <2>3, <3>2
    <3>4. lists[n + 2] \in Seq(S) /\ Ordered(lists[n + 2], R)
      BY <1>1, <3>2
    <3>5. Before(flat[n + 1], lists[n + 2], R)
      <4>1. SUFFICES ASSUME NEW x \in Items(flat[n + 1]), NEW y \in Items(lists[n + 2])
                     PROVE  <<x, y>> \in R
        BY DEF Before
      <4>2. PICK m \in 1..n + 1 : x \in Items(lists[m])
        BY <3>2, <4>1
      <4>3. m \in DOMAIN lists /\ n + 2 \in DOMAIN lists /\ m < n + 2
        BY <1>1, <3>2
      <4> QED BY <4>1, <4>2, <4>3 DEF Before
    <3>6. /\ flat[n + 2] \in Seq(S) /\ Ordered(flat[n + 2], R)
          /\ Items(flat[n + 2]) = Items(flat[n + 1]) \cup Items(lists[n + 2])
      BY <3>2, <3>3, <3>4, <3>5, JoinedItems, JoinedOrder
    <3>7. 1..n + 2 = 1..n + 1 \cup {n + 2}
      OBVIOUS
    <3>8. UNION {Items(lists[m]) : m \in 1..n + 2}
            = (UNION {Items(lists[m]) : m \in 1..n + 1}) \cup Items(lists[n + 2])
      <4>1. {Items(lists[m]) : m \in 1..n + 2}
              = {Items(lists[m]) : m \in 1..n + 1} \cup {Items(lists[n + 2])}
        BY <3>7
      <4> QED BY <4>1, OneMore
    <3> QED BY <3>2, <3>6, <3>8
  <2>6. L - 1 \in T
    <3>1. L - 1 \in Nat
      BY <1>1, <1>3
    <3> HIDE DEF T
    <3> QED BY <2>4, <2>5, <3>1, SetInduction
  <2>7. So(flat[L], L)
    <3>1. L - 1 + 1 = L
      BY <1>1
    <3> QED BY <1>1, <2>6, <3>1
  <2> QED BY <1>1, <2>1, <2>7
<1> QED BY <1>2, <1>3

LEMMA SameFlattened ==
  ASSUME NEW lists PROVE Detectors!FlattenSeq(lists) = Alerts!FlattenSeq(lists)
BY DEF Detectors!FlattenSeq, Alerts!FlattenSeq

(* What a flattening holds, order aside.                                      *)
LEMMA FlattenedItems ==
  ASSUME NEW S, NEW lists \in Seq(Seq(S))
  PROVE  /\ Alerts!FlattenSeq(lists) \in Seq(S)
         /\ Items(Alerts!FlattenSeq(lists)) = UNION {Items(lists[n]) : n \in DOMAIN lists}
<1>1. \A n \in DOMAIN lists : Ordered(lists[n], S \X S)
  BY DEF Ordered
<1>2. \A m, n \in DOMAIN lists : m < n => Before(lists[m], lists[n], S \X S)
  BY DEF Before, Items
<1> QED BY <1>1, <1>2, FlattenedIs

-----------------------------------------------------------------------------
(* Alerts.                                                                    *)
LEMMA SameAlertCardinality ==
  ASSUME NEW T PROVE Alerts!Cardinality(T) = Cardinality(T)
BY DEF Cardinality, Alerts!Cardinality

Levels == {"LOW", "MEDIUM", "HIGH", "CRITICAL"}
LEMMA Ranks ==
  /\ \A level \in Levels : Alerts!Rank(level) \in 1..5
  /\ DOMAIN Alerts!Severities = 1..5 /\ Len(Alerts!Severities) = 5
<1>1. DOMAIN Alerts!Severities = 1..5 /\ Len(Alerts!Severities) = 5
  BY DEF Alerts!Severities
<1>2. ASSUME NEW level \in Levels PROVE Alerts!Rank(level) \in 1..5
  <2>1. \E r \in DOMAIN Alerts!Severities : Alerts!Severities[r] = level
    BY <1>1 DEF Alerts!Severities, Levels
  <2>2. Alerts!Rank(level) \in DOMAIN Alerts!Severities
    BY <2>1 DEF Alerts!Rank
  <2> QED BY <1>1, <2>2
<1> QED BY <1>1, <1>2

(* Pairs of candidates with the worse one first.                              *)
Worse(S) == {p \in S \X S : Alerts!Rank(p[1].severity) >= Alerts!Rank(p[2].severity)}

LEMMA SortedBySeverity ==
  ASSUME NEW S, \A c \in S : c.severity \in Levels, NEW s \in Seq(S)
  PROVE  LET sorted == Alerts!BySeverity(s)
         IN sorted \in Seq(S) /\ Items(sorted) = Items(s) /\ Ordered(sorted, Worse(S))
<1> DEFINE places(r) == {c \in DOMAIN s : Alerts!Rank(s[c].severity) = r}
           lists == [n \in DOMAIN Alerts!Severities |-> Alerts!AtRank(s, 6 - n)]
<1>1. Alerts!BySeverity(s) = Alerts!FlattenSeq(lists)
  <2>1. \A n \in DOMAIN Alerts!Severities : Len(Alerts!Severities) + 1 - n = 6 - n
    BY Ranks
  <2>2. [n \in DOMAIN Alerts!Severities |->
           Alerts!AtRank(s, Len(Alerts!Severities) + 1 - n)] = lists
    BY <2>1
  <2> HIDE DEF lists
  <2> QED BY <2>2, Zenon DEF Alerts!BySeverity
<1>2. \A c \in DOMAIN s : s[c] \in S /\ Alerts!Rank(s[c].severity) \in 1..5
  BY Ranks
<1>3. ASSUME NEW r \in 1..5
      PROVE  /\ Alerts!AtRank(s, r) \in Seq(S)
             /\ Items(Alerts!AtRank(s, r)) = {s[c] : c \in places(r)}
  <2>1. Alerts!AtRank(s, r) = Picked(s, places(r))
    BY SamePicked, Zenon DEF Alerts!AtRank
  <2>2. places(r) \cap DOMAIN s = places(r)
    OBVIOUS
  <2> HIDE DEF places
  <2> QED BY <2>1, <2>2, PickedAre
<1>4. /\ DOMAIN lists = 1..5
      /\ \A n \in 1..5 : lists[n] = Alerts!AtRank(s, 6 - n) /\ 6 - n \in 1..5
  BY Ranks
<1> HIDE DEF lists
<1>5. lists \in Seq(Seq(S))
  <2>1. \A n \in 1..5 : lists[n] \in Seq(S)
    BY <1>3, <1>4
  <2>2. lists = [n \in 1..5 |-> lists[n]]
    BY <1>1, <1>4 DEF lists
  <2>3. lists \in [1..5 -> Seq(S)]
    BY <2>1, <2>2
  <2>4. Seq(Seq(S)) = UNION {[1..n -> Seq(S)] : n \in Nat} /\ 5 \in Nat
    BY SeqDef
  <2> QED BY <2>3, <2>4
<1>6. ASSUME NEW n \in 1..5, NEW x \in Items(lists[n])
      PROVE  x \in S /\ Alerts!Rank(x.severity) = 6 - n
  <2>1. PICK c \in places(6 - n) : x = s[c]
    BY <1>3, <1>4, <1>6
  <2> QED BY <1>2, <2>1
<1>7. ASSUME NEW m \in 1..5, NEW n \in 1..5, m <= n PROVE Before(lists[m], lists[n], Worse(S))
  BY <1>6, <1>7 DEF Before, Worse
<1>8. \A n \in 1..5 : Ordered(lists[n], Worse(S))
  <2>1. ASSUME NEW n \in 1..5, NEW a \in DOMAIN lists[n], NEW b \in DOMAIN lists[n]
        PROVE  <<lists[n][a], lists[n][b]>> \in Worse(S)
    <3>1. lists[n][a] \in Items(lists[n]) /\ lists[n][b] \in Items(lists[n])
      BY DEF Items
    <3> QED BY <1>7, <3>1 DEF Before
  <2> QED BY <2>1 DEF Ordered
<1>9. Items(s) = UNION {Items(lists[n]) : n \in DOMAIN lists}
  <2>1. ASSUME NEW n \in DOMAIN lists, NEW x \in Items(lists[n]) PROVE x \in Items(s)
    <3>1. PICK c \in places(6 - n) : x = s[c]
      BY <1>3, <1>4, <2>1
    <3> QED BY <3>1 DEF Items
  <2>2. ASSUME NEW c \in DOMAIN s
        PROVE  \E n \in DOMAIN lists : s[c] \in Items(lists[n])
    <3>1. PICK n \in 1..5 : n = 6 - Alerts!Rank(s[c].severity)
      BY <1>2
    <3>2. 6 - n = Alerts!Rank(s[c].severity)
      BY <1>2, <3>1
    <3>3. c \in places(6 - n)
      BY <3>2
    <3>4. s[c] \in Items(lists[n])
      BY <1>3, <1>4, <3>3, SMTT(20)
    <3> QED BY <1>4, <3>4
  <2>3. Items(s) \subseteq UNION {Items(lists[n]) : n \in DOMAIN lists}
    BY <2>2 DEF Items
  <2>4. UNION {Items(lists[n]) : n \in DOMAIN lists} \subseteq Items(s)
    BY <2>1
  <2> QED BY <2>3, <2>4
<1>10. /\ \A n \in DOMAIN lists : Ordered(lists[n], Worse(S))
       /\ \A m, n \in DOMAIN lists : m < n => Before(lists[m], lists[n], Worse(S))
  BY <1>4, <1>7, <1>8
<1> QED BY <1>1, <1>5, <1>9, <1>10, FlattenedIs

(* Escalation reports the first step that is not due, or the last one.        *)
LEMMA EscalatedStep ==
  ASSUME NEW ladder \in Seq(Int), NEW elapsed \in Int, ladder # <<>>
  PROVE  LET undue == {n \in DOMAIN ladder : ladder[n] > elapsed}
             step  == Alerts!NextEscalationStep(ladder, elapsed)
         IN /\ step.due <=> undue = {}
            /\ IF undue = {} THEN step.step = Len(ladder)
               ELSE /\ step.step \in undue
                    /\ \A n \in undue : step.step <= n
                    /\ step.minutesUntilDue = ladder[step.step] - elapsed
<1> DEFINE L == Len(ladder)
           undue == {n \in DOMAIN ladder : ladder[n] > elapsed}
           step  == Alerts!NextEscalationStep(ladder, elapsed)
           prefix == Alerts!DuePrefix(ladder, elapsed)
           active == Alerts!Cardinality(prefix)
<1>1. L \in Nat /\ DOMAIN ladder = 1..L /\ \A n \in 1..L : ladder[n] \in Int
  OBVIOUS
<1>2. CASE undue = {}
  <2>1. prefix = 1..L
    BY <1>1, <1>2 DEF Alerts!DuePrefix
  <2>2. active = L
    BY <1>1, <2>1, SameAlertCardinality, FS_Interval
  <2>3. ~(active + 1 <= L)
    BY <1>1, <2>2
  <2>4. step = [step |-> active, due |-> TRUE, minutesUntilDue |-> 0]
    BY <2>3 DEF Alerts!NextEscalationStep
  <2> QED BY <1>2, <2>2, <2>4
<1>3. CASE undue # {}
  <2>1. PICK u \in undue : \A n \in undue : u <= n
    <3>1. undue \in SUBSET Nat
      BY <1>1
    <3> HIDE DEF undue
    <3> QED BY <1>3, <3>1, Least
  <2>2. u \in 1..L /\ ladder[u] > elapsed /\ \A n \in 1..L : n < u => ladder[n] <= elapsed
    BY <1>1, <2>1
  <2>3. prefix = 1..u - 1
    <3>1. ASSUME NEW n \in prefix PROVE n \in 1..u - 1
      <4>1. n \in 1..L /\ \A m \in 1..n : elapsed >= ladder[m]
        BY <1>1 DEF Alerts!DuePrefix
      <4>2. ~(u <= n)
        BY <1>1, <2>2, <4>1
      <4> QED BY <1>1, <2>2, <4>1, <4>2
    <3>2. ASSUME NEW n \in 1..u - 1 PROVE n \in prefix
      <4>1. n \in DOMAIN ladder /\ \A m \in 1..n : elapsed >= ladder[m]
        BY <1>1, <2>2
      <4> QED BY <4>1 DEF Alerts!DuePrefix
    <3> HIDE DEF prefix
    <3> QED BY <3>1, <3>2
  <2>4. active = u - 1
    <3>1. Cardinality(1..u - 1) = u - 1
      BY <1>1, <2>2, FS_Interval
    <3> HIDE DEF prefix
    <3> QED BY <2>3, <3>1, SameAlertCardinality
  <2>5. active + 1 = u /\ u <= L
    BY <1>1, <2>2, <2>4
  <2> HIDE DEF active, prefix
  <2>6. step = [step |-> u, due |-> elapsed >= ladder[u],
                minutesUntilDue |-> IF ladder[u] > elapsed THEN ladder[u] - elapsed ELSE 0]
    BY <2>5 DEF Alerts!NextEscalationStep, active, prefix
  <2>7. ~(elapsed >= ladder[u])
    BY <1>1, <2>2
  <2>8. step.step = u /\ step.due = FALSE /\ step.minutesUntilDue = ladder[u] - elapsed
    <3> HIDE DEF step
    <3>1. /\ step.step = u /\ step.due = (elapsed >= ladder[u])
          /\ step.minutesUntilDue = IF ladder[u] > elapsed THEN ladder[u] - elapsed ELSE 0
      BY <2>6
    <3>2. step.due = FALSE
      <4>1. (elapsed >= ladder[u]) = FALSE
        BY <2>7
      <4>2. step.due = (elapsed >= ladder[u])
        BY <3>1
      <4> QED BY <4>1, <4>2, Zenon
    <3>3. step.minutesUntilDue = ladder[u] - elapsed
      BY <2>2, <3>1
    <3> QED BY <3>1, <3>2, <3>3
  <2> HIDE DEF step, undue
  <2>9. (undue = {}) = FALSE
    BY <1>3
  <2>10. step.due <=> undue = {}
    BY <2>8, <2>9
  <2>11. /\ step.step \in undue /\ \A n \in undue : step.step <= n
         /\ step.minutesUntilDue = ladder[step.step] - elapsed
    BY <2>1, <2>8
  <2> QED BY <1>3, <2>10, <2>11 DEF undue, step
<1> QED BY <1>2, <1>3

LEMMA Single ==
  ASSUME NEW S, NEW c \in S
  PROVE  <<c>> \in Seq(S) /\ Items(<<c>>) = {c} /\ <<>> \in Seq(S) /\ Items(<<>>) = {}
BY DEF Items

(* The candidates a snapshot raises, before those are left out that an        *)
(* earlier alert suppresses.                                                  *)
Raised(i) ==
  Alerts!FlattenSeq([n \in DOMAIN i.deadlines |->
                       Alerts!DeadlineCandidates(i.deadlines[n], i.now)])
  \o Alerts!FlattenSeq([n \in DOMAIN i.notices |->
                          Alerts!NoticeCandidates(i.notices[n], i.now)])
  \o Alerts!FlattenSeq([n \in DOMAIN i.syncFailures |->
                          Alerts!SyncCandidates(i.syncFailures[n], i.now)])
  \o Alerts!QueueCandidates(i.reviewQueueDepth, i.reviewQueueThreshold)
SuppressedIn(i, key) ==
  LET latest == Alerts!LatestByKey(i.existing, key)
  IN latest # <<>> /\ Alerts!ShouldSuppress(latest[1], i.now, i.suppressHours)

(* Every candidate is about one of the snapshot's rows.                       *)
AlertTypes == {"DEADLINE_PASSED", "DEADLINE_APPROACHING", "NOTICE_AWAITING_REVIEW",
               "NOTICE_EXPORT_STALE", "SYNC_FAILURE", "SYNC_STALE", "REVIEW_QUEUE_BACKLOG"}
Ids(rows) == {row.id : row \in Items(rows)}
Raisable(i) ==
  {Alerts!Candidate(t, level, id) : t \in AlertTypes, level \in Levels,
     id \in Ids(i.deadlines) \cup Ids(i.notices) \cup Ids(i.syncFailures) \cup {"review"}}
Passed(deadline, now) == deadline.status \notin {"CLOSED", "MISSED"} /\ deadline.dueAt < now
PassedKey(id) == Alerts!DedupeKey("DEADLINE_PASSED", id)

LEMMA Candidates ==
  ASSUME NEW t, NEW level, NEW id, NEW other
  PROVE  /\ Alerts!Candidate(t, level, id).severity = level
         /\ Alerts!Candidate(t, level, id).key = PassedKey(other)
              <=> t = "DEADLINE_PASSED" /\ id = other
BY DEF Alerts!Candidate, PassedKey, Alerts!DedupeKey

LEMMA DeadlineRaises ==
  ASSUME NEW d, NEW now \in Int, d.dueAt \in Int, NEW S,
         \A t \in AlertTypes, level \in Levels : Alerts!Candidate(t, level, d.id) \in S
  PROVE  /\ Alerts!DeadlineCandidates(d, now) \in Seq(S)
         /\ \A id : (\E c \in Items(Alerts!DeadlineCandidates(d, now)) : c.key = PassedKey(id))
                      <=> Passed(d, now) /\ d.id = id
<1> DEFINE list == Alerts!DeadlineCandidates(d, now)
           passed == Alerts!Candidate("DEADLINE_PASSED", "CRITICAL", d.id)
           near(level) == Alerts!Candidate("DEADLINE_APPROACHING", level, d.id)
<1>1. /\ passed \in S /\ near("HIGH") \in S /\ near("MEDIUM") \in S
  BY DEF AlertTypes, Levels
<1>2. d.dueAt - now < 0 <=> d.dueAt < now
  OBVIOUS
<1>3. CASE Passed(d, now)
  <2>1. list = <<passed>>
    BY <1>2, <1>3 DEF Passed, Alerts!DeadlineCandidates
  <2> HIDE DEF list, passed
  <2>2. list \in Seq(S) /\ Items(list) = {passed}
    BY <1>1, <2>1, Single
  <2>3. \A id : passed.key = PassedKey(id) <=> d.id = id
    BY Candidates DEF passed
  <2> QED BY <1>3, <2>2, <2>3 DEF list
<1>4. CASE ~Passed(d, now)
  <2>1. list \in {<<>>, <<near("HIGH")>>, <<near("MEDIUM")>>}
    BY <1>2, <1>4 DEF Passed, Alerts!DeadlineCandidates
  <2>2. \A id : near("HIGH").key # PassedKey(id) /\ near("MEDIUM").key # PassedKey(id)
    BY Candidates
  <2> HIDE DEF list, near
  <2>3. list \in Seq(S) /\ Items(list) \subseteq {near("HIGH"), near("MEDIUM")}
    BY <1>1, <2>1, Single
  <2> QED BY <1>4, <2>2, <2>3 DEF list
<1> QED BY <1>3, <1>4

(* The other rows raise alerts of other types.                                *)
Other(list, S) == list \in Seq(S) /\ \A c \in Items(list) : \A id : c.key # PassedKey(id)

LEMMA OtherSingle ==
  ASSUME NEW S, NEW t \in AlertTypes, t # "DEADLINE_PASSED", NEW level \in Levels, NEW id,
         Alerts!Candidate(t, level, id) \in S
  PROVE  Other(<<Alerts!Candidate(t, level, id)>>, S)
<1> DEFINE c == Alerts!Candidate(t, level, id)
<1>1. \A other : c.key # PassedKey(other)
  BY Candidates
<1> HIDE DEF c
<1> QED BY <1>1, Single DEF Other, c

LEMMA OtherJoined ==
  ASSUME NEW S, NEW s, NEW t, Other(s, S), Other(t, S)
  PROVE  Other(s \o t, S)
BY JoinedItems DEF Other

LEMMA OtherFlattened ==
  ASSUME NEW S, NEW lists \in Seq(Seq(S)), \A n \in DOMAIN lists : Other(lists[n], S)
  PROVE  Other(Alerts!FlattenSeq(lists), S)
BY FlattenedItems DEF Other

LEMMA OthersRaise ==
  ASSUME NEW S, NEW row, NEW now, NEW threshold,
         \A t \in AlertTypes, level \in Levels :
           Alerts!Candidate(t, level, row.id) \in S /\ Alerts!Candidate(t, level, "review") \in S
  PROVE  /\ Other(Alerts!NoticeCandidates(row, now), S)
         /\ Other(Alerts!SyncCandidates(row, now), S)
         /\ Other(Alerts!QueueCandidates(now, threshold), S)
<1> DEFINE of(t, level) == <<Alerts!Candidate(t, level, row.id)>>
           review(level) == <<Alerts!Candidate("REVIEW_QUEUE_BACKLOG", level, "review")>>
<1>1. Other(<<>>, S)
  BY DEF Other, Items
<1>2. \A t \in AlertTypes, level \in Levels :
        t # "DEADLINE_PASSED" => Other(of(t, level), S)
  BY OtherSingle
<1>3. \A level \in Levels : Other(review(level), S)
  BY OtherSingle DEF AlertTypes
<1>4. /\ Other(of("NOTICE_AWAITING_REVIEW", "MEDIUM"), S)
      /\ Other(of("NOTICE_EXPORT_STALE", "LOW"), S)
      /\ Other(of("SYNC_FAILURE", "HIGH"), S) /\ Other(of("SYNC_STALE", "MEDIUM"), S)
      /\ Other(review("HIGH"), S) /\ Other(review("MEDIUM"), S)
  BY <1>2, <1>3 DEF AlertTypes, Levels
<1>5. \E s \in {<<>>, of("NOTICE_AWAITING_REVIEW", "MEDIUM")},
         t \in {<<>>, of("NOTICE_EXPORT_STALE", "LOW")} :
        Alerts!NoticeCandidates(row, now) = s \o t
  BY DEF Alerts!NoticeCandidates
<1>6. \E t \in {<<>>, of("SYNC_STALE", "MEDIUM")} :
        Alerts!SyncCandidates(row, now) = of("SYNC_FAILURE", "HIGH") \o t
  BY DEF Alerts!SyncCandidates
<1>7. Alerts!QueueCandidates(now, threshold) \in {<<>>, review("HIGH"), review("MEDIUM")}
  BY DEF Alerts!QueueCandidates
<1> HIDE DEF of, review
<1>8. Other(Alerts!NoticeCandidates(row, now), S)
  BY <1>1, <1>4, <1>5, OtherJoined
<1>9. Other(Alerts!SyncCandidates(row, now), S)
  BY <1>1, <1>4, <1>6, OtherJoined
<1> QED BY <1>1, <1>4, <1>7, <1>8, <1>9

LEMMA RaisedAre ==
  ASSUME NEW i \in AlertInputs
  PROVE  /\ Raised(i) \in Seq(Raisable(i))
         /\ \A id : (\E c \in Items(Raised(i)) : c.key = PassedKey(id))
                      <=> \E n \in DOMAIN i.deadlines :
                            Passed(i.deadlines[n], i.now) /\ i.deadlines[n].id = id
<1> DEFINE S == Raisable(i)
           due     == [n \in DOMAIN i.deadlines |->
                         Alerts!DeadlineCandidates(i.deadlines[n], i.now)]
           notices == [n \in DOMAIN i.notices |-> Alerts!NoticeCandidates(i.notices[n], i.now)]
           syncs   == [n \in DOMAIN i.syncFailures |->
                         Alerts!SyncCandidates(i.syncFailures[n], i.now)]
           queue   == Alerts!QueueCandidates(i.reviewQueueDepth, i.reviewQueueThreshold)
           flat(lists) == Alerts!FlattenSeq(lists)
<1>1. /\ IsList(i.deadlines) /\ IsList(i.notices) /\ IsList(i.syncFailures) /\ i.now \in Int
      /\ \A n \in DOMAIN i.deadlines : i.deadlines[n].dueAt \in Int
  BY AlertAssumption
<1>2. ASSUME NEW rows, IsList(rows)
      PROVE  Len(rows) \in Nat /\ DOMAIN rows = 1..Len(rows)
  <2>1. rows \in Seq({rows[n] : n \in DOMAIN rows})
    BY <1>2 DEF IsList
  <2> QED BY <2>1
<1>3. ASSUME NEW rows, NEW n \in DOMAIN rows,
             rows \in {i.deadlines, i.notices, i.syncFailures}
      PROVE  \A t \in AlertTypes, level \in Levels :
               /\ Alerts!Candidate(t, level, rows[n].id) \in S
               /\ Alerts!Candidate(t, level, "review") \in S
  <2>1. rows[n].id \in Ids(rows)
    BY DEF Ids, Items
  <2>2. rows[n].id \in Ids(i.deadlines) \cup Ids(i.notices) \cup Ids(i.syncFailures) \cup {"review"}
    BY <1>3, <2>1
  <2> QED BY <2>2 DEF Raisable
<1>4. \A t \in AlertTypes, level \in Levels : Alerts!Candidate(t, level, "review") \in S
  BY DEF Raisable
<1> HIDE DEF S
<1>5. ASSUME NEW n \in DOMAIN i.deadlines
      PROVE  /\ due[n] \in Seq(S)
             /\ \A id : (\E c \in Items(due[n]) : c.key = PassedKey(id))
                          <=> Passed(i.deadlines[n], i.now) /\ i.deadlines[n].id = id
  <2>1. due[n] = Alerts!DeadlineCandidates(i.deadlines[n], i.now)
    OBVIOUS
  <2>2. \A t \in AlertTypes, level \in Levels :
          Alerts!Candidate(t, level, i.deadlines[n].id) \in S
    BY <1>3
  <2>3. i.deadlines[n].dueAt \in Int /\ i.now \in Int
    BY <1>1
  <2>4. PICK d : d = i.deadlines[n]
    OBVIOUS
  <2>5. PICK now \in Int : now = i.now
    BY <2>3
  <2>6. /\ Alerts!DeadlineCandidates(d, now) \in Seq(S)
        /\ \A id : (\E c \in Items(Alerts!DeadlineCandidates(d, now)) : c.key = PassedKey(id))
                     <=> Passed(d, now) /\ d.id = id
    <3>1. d.dueAt \in Int
          /\ \A t \in AlertTypes, level \in Levels : Alerts!Candidate(t, level, d.id) \in S
      BY <2>2, <2>3, <2>4
    <3> HIDE DEF due
    <3> QED BY <3>1, DeadlineRaises
  <2> HIDE DEF due
  <2> QED BY <2>1, <2>4, <2>5, <2>6
<1>6. \A n \in DOMAIN i.notices : Other(notices[n], S)
  BY <1>3, OthersRaise
<1>7. \A n \in DOMAIN i.syncFailures : Other(syncs[n], S)
  BY <1>3, OthersRaise
<1>8. Other(queue, S)
  <2> DEFINE row == [id |-> "review"]
  <2>1. row.id = "review"
    OBVIOUS
  <2> HIDE DEF row
  <2> QED BY <1>4, <2>1, OthersRaise
<1>9. due \in Seq(Seq(S)) /\ notices \in Seq(Seq(S)) /\ syncs \in Seq(Seq(S))
  <2>1. /\ due \in [1..Len(i.deadlines) -> Seq(S)] /\ Len(i.deadlines) \in Nat
    BY <1>1, <1>2, <1>5
  <2>2. notices \in [1..Len(i.notices) -> Seq(S)] /\ Len(i.notices) \in Nat
    BY <1>1, <1>2, <1>6 DEF Other
  <2>3. syncs \in [1..Len(i.syncFailures) -> Seq(S)] /\ Len(i.syncFailures) \in Nat
    BY <1>1, <1>2, <1>7 DEF Other
  <2>4. Seq(Seq(S)) = UNION {[1..n -> Seq(S)] : n \in Nat}
    BY SeqDef
  <2> HIDE DEF due, notices, syncs
  <2> QED BY <2>1, <2>2, <2>3, <2>4
<1>10. DOMAIN due = DOMAIN i.deadlines /\ DOMAIN notices = DOMAIN i.notices
       /\ DOMAIN syncs = DOMAIN i.syncFailures
  OBVIOUS
<1>11. Raised(i) = flat(due) \o flat(notices) \o flat(syncs) \o queue
  BY Zenon DEF Raised
<1> HIDE DEF due, notices, syncs, queue
<1>12. Other(flat(notices), S) /\ Other(flat(syncs), S)
  BY <1>6, <1>7, <1>9, <1>10, OtherFlattened
<1>13. /\ flat(due) \in Seq(S)
       /\ Items(flat(due)) = UNION {Items(due[n]) : n \in DOMAIN due}
  BY <1>9, FlattenedItems
<1> HIDE DEF flat
<1>14. /\ Raised(i) \in Seq(S)
       /\ Items(Raised(i))
            = Items(flat(due)) \cup Items(flat(notices)) \cup Items(flat(syncs)) \cup Items(queue)
  <2> DEFINE two   == flat(due) \o flat(notices)
             three == two \o flat(syncs)
  <2>1. /\ flat(notices) \in Seq(S) /\ flat(syncs) \in Seq(S) /\ queue \in Seq(S)
        /\ Raised(i) = three \o queue
    BY <1>8, <1>11, <1>12 DEF Other
  <2>2. two \in Seq(S) /\ Items(two) = Items(flat(due)) \cup Items(flat(notices))
    BY <1>13, <2>1, JoinedItems
  <2> HIDE DEF two
  <2>3. three \in Seq(S) /\ Items(three) = Items(two) \cup Items(flat(syncs))
    BY <2>1, <2>2, JoinedItems
  <2> HIDE DEF three
  <2>4. Raised(i) \in Seq(S) /\ Items(Raised(i)) = Items(three) \cup Items(queue)
    BY <2>1, <2>3, JoinedItems
  <2> QED BY <2>2, <2>3, <2>4
<1>15. ASSUME NEW id
       PROVE  (\E c \in Items(Raised(i)) : c.key = PassedKey(id))
                <=> \E n \in DOMAIN i.deadlines :
                      Passed(i.deadlines[n], i.now) /\ i.deadlines[n].id = id
  <2>1. (\E c \in Items(Raised(i)) : c.key = PassedKey(id))
          <=> \E c \in Items(flat(due)) : c.key = PassedKey(id)
    BY <1>8, <1>12, <1>14 DEF Other
  <2>2. (\E c \in Items(flat(due)) : c.key = PassedKey(id))
          <=> \E n \in DOMAIN due : \E c \in Items(due[n]) : c.key = PassedKey(id)
    BY <1>13
  <2> QED BY <1>5, <1>10, <2>1, <2>2
<1> QED BY <1>14, <1>15 DEF S

LEMMA EvaluatedAlerts ==
  ASSUME NEW i \in AlertInputs
  PROVE  LET candidates == Alerts!EvaluateOperationalAlerts(i)
         IN /\ candidates \in Seq(Raisable(i))
            /\ Ordered(candidates, Worse(Raisable(i)))
            /\ Items(candidates) = {c \in Items(Raised(i)) : ~SuppressedIn(i, c.key)}
<1> DEFINE S == Raisable(i)
           raised == Raised(i)
           places == {n \in DOMAIN raised : ~SuppressedIn(i, raised[n].key)}
           kept   == Picked(raised, places)
<1>1. Alerts!EvaluateOperationalAlerts(i) = Alerts!BySeverity(kept)
  <2>1. Alerts!EvaluateOperationalAlerts(i) = Alerts!BySeverity(Alerts!Picked(raised, places))
    BY Zenon DEF Alerts!EvaluateOperationalAlerts, Raised, SuppressedIn
  <2> HIDE DEF raised, places
  <2> QED BY <2>1, SamePicked
<1>2. raised \in Seq(S)
  BY RaisedAre
<1>3. \A c \in S : c.severity \in Levels
  BY Candidates DEF Raisable
<1>4. places \cap DOMAIN raised = places
  OBVIOUS
<1> HIDE DEF S, raised
<1>5. kept \in Seq(S) /\ Items(kept) = {raised[n] : n \in places}
  <2> HIDE DEF places
  <2> QED BY <1>2, <1>4, PickedAre
<1>6. {raised[n] : n \in places} = {c \in Items(raised) : ~SuppressedIn(i, c.key)}
  BY DEF Items
<1> HIDE DEF kept, places
<1>7. /\ Alerts!BySeverity(kept) \in Seq(S) /\ Ordered(Alerts!BySeverity(kept), Worse(S))
      /\ Items(Alerts!BySeverity(kept)) = Items(kept)
  BY <1>3, <1>5, SortedBySeverity
<1> QED BY <1>1, <1>5, <1>6, <1>7 DEF S, raised

(* An overdue deadline is one whose alert is raised or suppressed.            *)
LEMMA OverdueDeadlines ==
  ASSUME NEW i \in AlertInputs, NEW candidates,
         candidates = Alerts!EvaluateOperationalAlerts(i)
  PROVE  Alerts!ComputeDashboardCounts(i).deadlinesOverdue
           = Cardinality({n \in DOMAIN i.deadlines :
               \/ \E c \in DOMAIN candidates :
                    candidates[c].key = PassedKey(i.deadlines[n].id)
               \/ /\ i.deadlines[n].status \notin {"CLOSED", "MISSED"}
                  /\ i.deadlines[n].dueAt < i.now
                  /\ SuppressedIn(i, PassedKey(i.deadlines[n].id))})
<1> DEFINE passed == {n \in DOMAIN i.deadlines : Passed(i.deadlines[n], i.now)}
           raised(id) == \E c \in DOMAIN candidates : candidates[c].key = PassedKey(id)
           overdue == {n \in DOMAIN i.deadlines :
                         \/ raised(i.deadlines[n].id)
                         \/ /\ i.deadlines[n].status \notin {"CLOSED", "MISSED"}
                            /\ i.deadlines[n].dueAt < i.now
                            /\ SuppressedIn(i, PassedKey(i.deadlines[n].id))}
<1>1. /\ \A n \in DOMAIN i.deadlines :
           i.deadlines[n].status \in {"OPEN", "CONFIRMED", "MISSED", "CLOSED"}
      /\ \A m, n \in DOMAIN i.deadlines : i.deadlines[m].id = i.deadlines[n].id => m = n
  BY AlertAssumption
<1>2. Alerts!ComputeDashboardCounts(i).deadlinesOverdue = Cardinality(passed)
  <2> DEFINE live == {n \in DOMAIN i.deadlines :
                        Alerts!Live(i.deadlines[n]) /\ i.deadlines[n].dueAt < i.now}
  <2>1. Alerts!ComputeDashboardCounts(i).deadlinesOverdue
          = Alerts!CountOverdueDeadlines(i.deadlines, i.now)
    BY DEF Alerts!ComputeDashboardCounts
  <2>2. Alerts!CountOverdueDeadlines(i.deadlines, i.now) = Alerts!Cardinality(live)
    BY DEF Alerts!CountOverdueDeadlines, Alerts!Count
  <2>3. live = passed
    BY <1>1 DEF Alerts!Live, Passed
  <2> HIDE DEF live, passed
  <2> QED BY <2>1, <2>2, <2>3, SameAlertCardinality
<1>3. ASSUME NEW id
      PROVE  raised(id) <=> /\ \E c \in Items(Raised(i)) : c.key = PassedKey(id)
                            /\ ~SuppressedIn(i, PassedKey(id))
  <2>1. Items(candidates) = {c \in Items(Raised(i)) : ~SuppressedIn(i, c.key)}
    BY EvaluatedAlerts
  <2>2. raised(id) <=> \E c \in Items(candidates) : c.key = PassedKey(id)
    BY DEF Items
  <2> QED BY <2>1, <2>2
<1> HIDE DEF raised
<1>4. ASSUME NEW n \in DOMAIN i.deadlines
      PROVE  (\E c \in Items(Raised(i)) : c.key = PassedKey(i.deadlines[n].id)) <=> n \in passed
  <2>1. (\E c \in Items(Raised(i)) : c.key = PassedKey(i.deadlines[n].id))
          <=> \E m \in DOMAIN i.deadlines :
                Passed(i.deadlines[m], i.now) /\ i.deadlines[m].id = i.deadlines[n].id
    BY RaisedAre
  <2> QED BY <1>1, <2>1
<1>5. overdue = passed
  BY <1>3, <1>4 DEF Passed
<1> HIDE DEF passed
<1> QED BY <1>2, <1>5 DEF raised

LEMMA WorstFirst ==
  ASSUME NEW i \in AlertInputs, NEW candidates,
         candidates = Alerts!EvaluateOperationalAlerts(i)
  PROVE  /\ \A a, b \in DOMAIN candidates :
              a < b => Alerts!CompareSeverity(candidates[a].severity,
                                              candidates[b].severity) >= 0
         /\ \A c \in DOMAIN candidates : ~SuppressedIn(i, candidates[c].key)
<1>1. /\ candidates \in Seq(Raisable(i)) /\ Ordered(candidates, Worse(Raisable(i)))
      /\ Items(candidates) = {c \in Items(Raised(i)) : ~SuppressedIn(i, c.key)}
  BY EvaluatedAlerts
<1>2. ASSUME NEW c \in DOMAIN candidates PROVE ~SuppressedIn(i, candidates[c].key)
  <2>1. candidates[c] \in Items(candidates)
    BY DEF Items
  <2> QED BY <1>1, <2>1
<1>3. ASSUME NEW a \in DOMAIN candidates, NEW b \in DOMAIN candidates, a < b
      PROVE  Alerts!CompareSeverity(candidates[a].severity, candidates[b].severity) >= 0
  <2> DEFINE x == candidates[a]
             y == candidates[b]
  <2>1. <<x, y>> \in Worse(Raisable(i))
    BY <1>1, <1>3 DEF Ordered
  <2>2. x \in Raisable(i) /\ y \in Raisable(i)
    BY <1>1
  <2>3. \A c \in Raisable(i) : c.severity \in Levels
    BY Candidates DEF Raisable
  <2>4. Alerts!Rank(x.severity) \in 1..5 /\ Alerts!Rank(y.severity) \in 1..5
    BY <2>2, <2>3, Ranks
  <2> HIDE DEF x, y
  <2>5. Alerts!Rank(x.severity) >= Alerts!Rank(y.severity)
    BY <2>1 DEF Worse
  <2>6. Alerts!Rank(x.severity) - Alerts!Rank(y.severity) >= 0
    BY <2>4, <2>5
  <2> QED BY <2>6 DEF Alerts!CompareSeverity, x, y
<1> QED BY <1>2, <1>3

AlertsComputed ==
  /\ Computed("alerts", AlertInputs,
       [candidates |-> Alerts!EvaluateOperationalAlerts(input),
        counts     |-> Alerts!ComputeDashboardCounts(input)])
  /\ Computed("escalation", LadderInputs,
              Alerts!NextEscalationStep(input.ladder, input.elapsed))

LEMMA AlertsAreComputed == Spec => []AlertsComputed
<1>1. Init => AlertsComputed
  BY DEF Init, Ask, AlertsComputed, Computed
<1>2. AlertsComputed /\ [Next]_vars => AlertsComputed'
  <2> SUFFICES ASSUME AlertsComputed, [Next]_vars PROVE AlertsComputed'
    OBVIOUS
  <2> USE DEF AlertsComputed, Computed, Answer
  <2>1. CASE EvaluateAlerts
    BY <2>1 DEF EvaluateAlerts
  <2>2. CASE Escalate
    BY <2>2 DEF Escalate
  <2>3. CASE UNCHANGED vars
    BY <2>3 DEF vars
  <2>4. CASE \/ CalculateDeadline \/ MatchScope \/ ListPages \/ ValidateWebhook \/ Detect
             \/ CheckSuggestion \/ Draft \/ ValidateAiSections \/ AssessEvidence
             \/ BuildArchive \/ SendAndClassify \/ AssessReceipt \/ AssessRisk
             \/ ValidateConfig \/ AllowDeployment \/ AssessReadiness \/ SendAlerts
             \/ CheckManifest \/ ResolveEnvironment \/ CheckLimits \/ ValidateDraft
             \/ CheckDispatch \/ BuildPage
    BY <2>4 DEF CalculateDeadline, MatchScope, ListPages, ValidateWebhook, Detect,
                CheckSuggestion, Draft, ValidateAiSections, AssessEvidence, BuildArchive,
                SendAndClassify, AssessReceipt, AssessRisk, ValidateConfig, AllowDeployment,
                AssessReadiness, SendAlerts, CheckManifest, ResolveEnvironment, CheckLimits,
                ValidateDraft, CheckDispatch, BuildPage
  <2> QED BY <2>1, <2>2, <2>3, <2>4 DEF Next
<1> QED BY <1>1, <1>2, PTL DEF Spec

(* The dashboard counts as overdue exactly the deadlines whose alert is       *)
(* raised or suppressed, the worst alerts come first, nothing suppressed is   *)
(* raised, and escalation reports the first step that is not due or the last  *)
(* (alerts.ts, dashboard.ts, escalation.ts), for lists of any length.         *)
THEOREM AlertsKeepAgreeing == Spec => []AlertsAgreeWithDashboard
<1>1. AlertsComputed => AlertsAgreeWithDashboard
  <2> SUFFICES ASSUME AlertsComputed PROVE AlertsAgreeWithDashboard
    OBVIOUS
  <2>1. ASSUME Answered("alerts")
        PROVE  /\ answer.counts.deadlinesOverdue = Cardinality(Overdue)
               /\ \A a, b \in DOMAIN answer.candidates :
                    a < b => Alerts!CompareSeverity(answer.candidates[a].severity,
                                                    answer.candidates[b].severity) >= 0
               /\ \A c \in DOMAIN answer.candidates : ~Suppressed(answer.candidates[c].key)
    <3>1. /\ input \in AlertInputs
          /\ answer = [candidates |-> Alerts!EvaluateOperationalAlerts(input),
                       counts     |-> Alerts!ComputeDashboardCounts(input)]
      BY <2>1 DEF AlertsComputed, Computed, Answered
    <3>2. /\ answer.candidates = Alerts!EvaluateOperationalAlerts(input)
          /\ answer.counts = Alerts!ComputeDashboardCounts(input)
      BY <3>1
    <3>3. \A key : Suppressed(key) <=> SuppressedIn(input, key)
      BY Zenon DEF Suppressed, SuppressedIn
    <3>4. Alerts!ComputeDashboardCounts(input).deadlinesOverdue
            = Cardinality({n \in DOMAIN input.deadlines :
                \/ \E c \in DOMAIN answer.candidates :
                     answer.candidates[c].key = PassedKey(input.deadlines[n].id)
                \/ /\ input.deadlines[n].status \notin {"CLOSED", "MISSED"}
                   /\ input.deadlines[n].dueAt < input.now
                   /\ SuppressedIn(input, PassedKey(input.deadlines[n].id))})
      BY <3>1, <3>2, OverdueDeadlines
    <3>5. Overdue = {n \in DOMAIN input.deadlines :
                \/ \E c \in DOMAIN answer.candidates :
                     answer.candidates[c].key = PassedKey(input.deadlines[n].id)
                \/ /\ input.deadlines[n].status \notin {"CLOSED", "MISSED"}
                   /\ input.deadlines[n].dueAt < input.now
                   /\ SuppressedIn(input, PassedKey(input.deadlines[n].id))}
      BY <3>3 DEF Overdue, PassedKey
    <3>6. answer.counts.deadlinesOverdue = Cardinality(Overdue)
      BY <3>2, <3>4, <3>5
    <3>7. /\ \A a, b \in DOMAIN answer.candidates :
               a < b => Alerts!CompareSeverity(answer.candidates[a].severity,
                                               answer.candidates[b].severity) >= 0
          /\ \A c \in DOMAIN answer.candidates :
               ~SuppressedIn(input, answer.candidates[c].key)
      BY <3>1, <3>2, WorstFirst
    <3> QED BY <3>3, <3>6, <3>7
  <2>2. ASSUME Answered("escalation"), input.ladder # <<>>
        PROVE  LET undue == {n \in DOMAIN input.ladder : input.ladder[n] > input.elapsed}
               IN /\ answer.due <=> undue = {}
                  /\ IF undue = {} THEN answer.step = Len(input.ladder)
                     ELSE /\ answer.step \in undue
                          /\ \A n \in undue : answer.step <= n
                          /\ answer.minutesUntilDue = input.ladder[answer.step] - input.elapsed
    <3>1. input \in LadderInputs /\ input.ladder \in Seq(Int) /\ input.elapsed \in Int
      BY <2>2, AlertAssumption DEF AlertsComputed, Computed, Answered
    <3>2. answer = Alerts!NextEscalationStep(input.ladder, input.elapsed)
      BY <2>2 DEF AlertsComputed, Computed, Answered
    <3> QED BY <2>2, <3>1, <3>2, EscalatedStep
  <2> QED BY <2>1, <2>2, Zenon DEF AlertsAgreeWithDashboard
<1> QED BY <1>1, AlertsAreComputed, PTL

-----------------------------------------------------------------------------
(* Detection. The phrase table, and the hits of a segment in it.              *)
Patterns ==
  Items(Detectors!LatePatterns) \cup Items(Detectors!AccessPatterns)
  \cup Items(Detectors!ScopePatterns) \cup Items(Detectors!PaymentPatterns)
  \cup Items(Detectors!SitePatterns)

LEMMA ThreeListed ==
  ASSUME NEW a, NEW b, NEW c PROVE <<a, b, c>> \in Seq(Items(<<a, b, c>>))
BY DEF Items
LEMMA FourListed ==
  ASSUME NEW a, NEW b, NEW c, NEW d PROVE <<a, b, c, d>> \in Seq(Items(<<a, b, c, d>>))
BY DEF Items

LEMMA PhrasesAre == Detectors!PhrasePatterns \in Seq(Patterns)
<1>1. \A s, t \in Seq(Patterns) : s \o t \in Seq(Patterns)
  OBVIOUS
<1>2. ASSUME NEW s, s \in Seq(Items(s)), Items(s) \subseteq Patterns
      PROVE  s \in Seq(Patterns)
  BY <1>2
<1>3. Detectors!LatePatterns \in Seq(Patterns)
  <2>1. Detectors!LatePatterns \in Seq(Items(Detectors!LatePatterns))
    BY ThreeListed, FourListed DEF Detectors!LatePatterns
  <2> QED BY <1>2, <2>1 DEF Patterns
<1>4. Detectors!AccessPatterns \in Seq(Patterns)
  <2>1. Detectors!AccessPatterns \in Seq(Items(Detectors!AccessPatterns))
    BY ThreeListed, FourListed DEF Detectors!AccessPatterns
  <2> QED BY <1>2, <2>1 DEF Patterns
<1>5. Detectors!ScopePatterns \in Seq(Patterns)
  <2>1. Detectors!ScopePatterns \in Seq(Items(Detectors!ScopePatterns))
    BY ThreeListed, FourListed DEF Detectors!ScopePatterns
  <2> QED BY <1>2, <2>1 DEF Patterns
<1>6. Detectors!PaymentPatterns \in Seq(Patterns)
  <2>1. Detectors!PaymentPatterns \in Seq(Items(Detectors!PaymentPatterns))
    BY ThreeListed, FourListed DEF Detectors!PaymentPatterns
  <2> QED BY <1>2, <2>1 DEF Patterns
<1>7. Detectors!SitePatterns \in Seq(Patterns)
  <2>1. Detectors!SitePatterns \in Seq(Items(Detectors!SitePatterns))
    BY ThreeListed, FourListed DEF Detectors!SitePatterns
  <2> QED BY <1>2, <2>1 DEF Patterns
<1> QED BY <1>1, <1>3, <1>4, <1>5, <1>6, <1>7 DEF Detectors!PhrasePatterns

HitPlaces(segment, category) ==
  {h \in DOMAIN Detectors!PhrasePatterns :
     /\ Detectors!PhrasePatterns[h].category = category
     /\ Detectors!PhrasePatterns[h].signal \in segment.signals}
Polarities(segment, category) ==
  {Detectors!PhrasePatterns[h].polarity : h \in HitPlaces(segment, category)}

LEMMA HitsAre ==
  ASSUME NEW segment, NEW category, NEW polarity
  PROVE  (Detectors!WithPolarity(Detectors!Hits(segment, category), polarity) # <<>>)
           <=> polarity \in Polarities(segment, category)
<1> DEFINE all    == Detectors!PhrasePatterns
           hits   == Detectors!Hits(segment, category)
           places == {h \in DOMAIN hits : hits[h].polarity = polarity}
           kept   == Detectors!WithPolarity(hits, polarity)
<1>1. hits \in Seq(Patterns) /\ Items(hits) = {all[h] : h \in HitPlaces(segment, category)}
  <2>1. hits = Picked(all, HitPlaces(segment, category))
    BY SamePicked, Zenon DEF Detectors!Hits, HitPlaces
  <2>2. HitPlaces(segment, category) \cap DOMAIN all = HitPlaces(segment, category)
    BY DEF HitPlaces
  <2>3. all \in Seq(Patterns)
    BY PhrasesAre
  <2> HIDE DEF all, hits
  <2> QED BY <2>1, <2>2, <2>3, PickedAre
<1> HIDE DEF hits
<1>2. kept \in Seq(Patterns) /\ Items(kept) = {hits[h] : h \in places}
  <2>1. kept = Picked(hits, places)
    BY SamePicked, Zenon DEF Detectors!WithPolarity
  <2>2. places \cap DOMAIN hits = places
    OBVIOUS
  <2> HIDE DEF kept, places
  <2> QED BY <1>1, <2>1, <2>2, PickedAre
<1> HIDE DEF kept
<1>3. kept # <<>> <=> Items(kept) # {}
  BY <1>2, NoItems
<1>4. Items(kept) # {} <=> \E p \in Items(hits) : p.polarity = polarity
  BY <1>2 DEF Items
<1>5. (\E p \in Items(hits) : p.polarity = polarity)
        <=> \E h \in HitPlaces(segment, category) : all[h].polarity = polarity
  BY <1>1
<1>6. (\E h \in HitPlaces(segment, category) : all[h].polarity = polarity)
        <=> polarity \in Polarities(segment, category)
  BY DEF Polarities
<1> QED BY <1>3, <1>4, <1>5, <1>6 DEF kept, hits

(* What a finding says of the segment it was found in.                        *)
LEMMA FindingsFit ==
  ASSUME NEW segment, NEW category \in Detectors!Categories,
         Detectors!Suggested(segment, category)
  PROVE  LET f == Detectors!Finding(segment, category)
         IN /\ f.category = category /\ f.evidence = {segment.id}
            /\ "POSITIVE" \in Polarities(segment, category)
            /\ Polarities(segment, category) \cap {"NEGATION", "DISCLOSED"} = {}
            /\ f.contradicted <=> "CONTRACTOR_CAUSED" \in Polarities(segment, category)
            /\ f.band = "MEDIUM" => f.missing \cap {"NO_DUE_DATE", "NO_PAYMENT_DUE_DATE"} = {}
<1> DEFINE f == Detectors!Finding(segment, category)
           hits == Detectors!Hits(segment, category)
           signals == {hits[i].signal : i \in DOMAIN hits}
<1>1. /\ f.category = category /\ f.evidence = {segment.id}
      /\ f.contradicted = (Detectors!WithPolarity(hits, "CONTRACTOR_CAUSED") # <<>>)
      /\ f.missing = Detectors!MissingEvidence(segment, category, signals)
      /\ f.band = Detectors!ConfidenceBand(segment, category, signals)
  <2> HIDE DEF hits, signals
  <2> QED BY DEF Detectors!Finding, hits, signals
<1> HIDE DEF f
<1>2. /\ Detectors!WithPolarity(hits, "POSITIVE") # <<>>
      /\ Detectors!WithPolarity(hits, "NEGATION") = <<>>
      /\ Detectors!WithPolarity(hits, "DISCLOSED") = <<>>
  BY DEF Detectors!Suggested
<1>3. \A p : Detectors!WithPolarity(hits, p) # <<>> <=> p \in Polarities(segment, category)
  BY HitsAre
<1>4. f.contradicted <=> "CONTRACTOR_CAUSED" \in Polarities(segment, category)
  <2>1. f.contradicted <=> (Detectors!WithPolarity(hits, "CONTRACTOR_CAUSED") # <<>>)
    BY <1>1, Zenon
  <2> QED BY <1>3, <2>1
<1>5. ASSUME f.band = "MEDIUM"
      PROVE  f.missing \cap {"NO_DUE_DATE", "NO_PAYMENT_DUE_DATE"} = {}
  <2> HIDE DEF signals
  <2>1. Detectors!HasDueBasis(segment, category, signals)
    BY <1>1, <1>5 DEF Detectors!ConfidenceBand
  <2>2. Detectors!MissingEvidence(segment, category, signals)
          \in {{"NO_AFFECTED_ACTIVITY"} \cup {}, {"NO_IDLE_RESOURCE_RECORD"},
               {"NO_WRITTEN_INSTRUCTION"}, {}, {"NO_TENDER_COMPARISON"}}
    BY <2>1 DEF Detectors!MissingEvidence, Detectors!Categories, Detectors!Late,
                Detectors!Access, Detectors!Scope, Detectors!Payment, Detectors!Site
  <2> QED BY <1>1, <2>2
<1> QED BY <1>1, <1>2, <1>3, <1>4, <1>5 DEF f

(* Every date of a finding is resolved from the segment's own timestamp.      *)
Resolved(d, segment) ==
  d.value # None => /\ segment.stamp # None
                    /\ d.value = segment.stamp - (IF segment.yesterday THEN 1 ELSE 0)

LEMMA DatesFit ==
  ASSUME NEW segment, segment.yesterday \in BOOLEAN, segment.stamp \in Int \cup {None},
         NEW category, NEW d \in DOMAIN Detectors!Finding(segment, category).dateCandidates
  PROVE  Resolved(Detectors!Finding(segment, category).dateCandidates[d], segment)
<1> DEFINE relative == Detectors!RelativeDates(segment, category)
           explicit == Detectors!ExplicitDates(segment, category)
           dates    == Detectors!Finding(segment, category).dateCandidates
           OneOrNone(list) == list = <<>> \/ \E x : list = <<x>> /\ Resolved(x, segment)
<1>1. dates = relative \o explicit
  BY DEF Detectors!Finding
<1>2. OneOrNone(relative)
  <2> DEFINE kind  == IF segment.yesterday THEN "yesterday" ELSE "today"
             value == Detectors!ResolveRelativeDate(segment, kind)
             type  == IF segment.yesterday /\ category = Detectors!Access
                      THEN "ACCESS_DENIAL_DATE" ELSE "OCCURRENCE_DATE"
             unknown == Detectors!DateCandidate("OCCURRENCE_DATE", None, "UNKNOWN")
             dated == Detectors!DateCandidate(type, value, "EXACT_DATE")
  <2>1. value # None =>
          segment.stamp # None /\ value = segment.stamp - (IF segment.yesterday THEN 1 ELSE 0)
    BY DEF Detectors!ResolveRelativeDate
  <2>2. Resolved(unknown, segment)
    BY DEF Resolved, Detectors!DateCandidate
  <2>3. Resolved(dated, segment)
    <3> HIDE DEF value
    <3>1. dated.value = value
      BY DEF Detectors!DateCandidate
    <3> QED BY <2>1, <3>1 DEF Resolved
  <2>4. relative \in {<<>>, <<unknown>>, <<dated>>}
    <3>1. relative = CASE ~segment.yesterday /\ ~segment.today -> <<>>
                       [] segment.yesterday /\ value = None -> <<unknown>>
                       [] ~segment.yesterday /\ segment.today /\ value = None -> <<>>
                       [] OTHER -> <<dated>>
      BY Zenon DEF Detectors!RelativeDates
    <3> HIDE DEF value, unknown, dated, relative
    <3> QED BY <3>1
  <2> HIDE DEF unknown, dated, relative
  <2> QED BY <2>2, <2>3, <2>4
<1>3. OneOrNone(explicit)
  <2> DEFINE type  == IF category = Detectors!Payment THEN "PAYMENT_DUE_DATE"
                      ELSE "OCCURRENCE_DATE"
             dated == Detectors!DateCandidate(type, None, "EXACT_DATE")
  <2>1. explicit \in {<<>>, <<dated>>}
    BY DEF Detectors!ExplicitDates
  <2>2. Resolved(dated, segment)
    BY DEF Resolved, Detectors!DateCandidate
  <2> HIDE DEF dated, explicit
  <2> QED BY <2>1, <2>2
<1>4. ASSUME NEW list, OneOrNone(list)
      PROVE  list \in Seq(Items(list)) /\ \A x \in Items(list) : Resolved(x, segment)
  <2>1. CASE list = <<>>
    BY <2>1 DEF Items
  <2>2. CASE list # <<>>
    <3>1. PICK x : list = <<x>> /\ Resolved(x, segment)
      BY <1>4, <2>2
    <3>2. Items(list) = {x} /\ list \in Seq({x})
      BY <3>1, Single
    <3> QED BY <3>1, <3>2
  <2> QED BY <2>1, <2>2
<1> HIDE DEF OneOrNone, relative, explicit
<1> DEFINE S == Items(relative) \cup Items(explicit)
<1>5. relative \in Seq(S) /\ explicit \in Seq(S) /\ \A x \in S : Resolved(x, segment)
  <2>1. relative \in Seq(Items(relative)) /\ explicit \in Seq(Items(explicit))
    BY <1>2, <1>3, <1>4
  <2>2. \A x \in S : Resolved(x, segment)
    BY <1>2, <1>3, <1>4
  <2> QED BY <2>1, <2>2
<1> HIDE DEF dates
<1>6. Items(dates) = S
  BY <1>1, <1>5, JoinedItems
<1>7. dates[d] \in S
  BY <1>6 DEF Items, dates
<1> QED BY <1>5, <1>7 DEF dates

(* One finding for each segment and each category it suggests.                *)
LEMMA DetectedInSegment ==
  ASSUME NEW segment
  PROVE  LET found == {c \in Detectors!Categories : Detectors!Suggested(segment, c)}
             S     == {Detectors!Finding(segment, c) : c \in found}
         IN Detectors!DetectIn(segment) \in Seq(S)
<1> DEFINE order  == Detectors!CategoryOrder
           places == {c \in DOMAIN order : Detectors!Suggested(segment, order[c])}
           list   == Picked(order, places)
           found  == {c \in Detectors!Categories : Detectors!Suggested(segment, c)}
           S      == {Detectors!Finding(segment, c) : c \in found}
           made   == [n \in DOMAIN list |-> Detectors!Finding(segment, list[n])]
<1>1. Detectors!DetectIn(segment) = made
  <2>1. Detectors!Picked(order, places) = list
    BY SamePicked
  <2> HIDE DEF list
  <2> QED BY <2>1, Zenon DEF Detectors!DetectIn, made
<1>2. order \in Seq(Detectors!Categories)
  BY DEF Detectors!CategoryOrder, Detectors!Categories
<1>3. list \in Seq(Detectors!Categories) /\ Items(list) = {order[c] : c \in places}
  <2>1. places \cap DOMAIN order = places
    OBVIOUS
  <2> HIDE DEF order, places
  <2> QED BY <1>2, <2>1, PickedAre
<1>4. ASSUME NEW n \in DOMAIN list PROVE list[n] \in found
  <2>1. list[n] \in Items(list) /\ list[n] \in Detectors!Categories
    <3> HIDE DEF list
    <3> QED BY <1>3 DEF Items
  <2> HIDE DEF list
  <2> QED BY <1>3, <2>1
<1> HIDE DEF list, found
<1>5. Len(list) \in Nat /\ DOMAIN list = 1..Len(list)
  BY <1>3
<1>6. made \in [1..Len(list) -> S]
  BY <1>4, <1>5
<1>7. Seq(S) = UNION {[1..n -> S] : n \in Nat}
  BY SeqDef
<1> HIDE DEF made, S
<1>8. made \in Seq(S)
  BY <1>5, <1>6, <1>7
<1> QED BY <1>1, <1>8 DEF S, found

LEMMA DetectedAre ==
  ASSUME NEW i \in DetectionInputs, NEW findings, findings = Detectors!RunAllDetectors(i)
  PROVE  /\ findings \in Seq(Items(findings))
         /\ \A f \in Items(findings) : \E s \in DOMAIN i : \E c \in Detectors!Categories :
              Detectors!Suggested(i[s], c) /\ f = Detectors!Finding(i[s], c)
<1> DEFINE lists == [s \in DOMAIN i |-> Detectors!DetectIn(i[s])]
           In(s) == {Detectors!Finding(i[s], c) :
                       c \in {x \in Detectors!Categories : Detectors!Suggested(i[s], x)}}
           S == UNION {In(s) : s \in DOMAIN i}
<1>1. findings = Alerts!FlattenSeq(lists)
  <2>1. Detectors!RunAllDetectors(i) = Detectors!FlattenSeq(lists)
    BY DEF Detectors!RunAllDetectors
  <2> HIDE DEF lists
  <2> QED BY <2>1, SameFlattened
<1>2. Len(i) \in Nat /\ DOMAIN i = 1..Len(i)
  <2>1. i \in Seq({i[n] : n \in DOMAIN i})
    BY DetectionAssumption DEF IsList
  <2> QED BY <2>1
<1>3. ASSUME NEW s \in DOMAIN i PROVE lists[s] \in Seq(S)
  <2>1. lists[s] \in Seq(In(s))
    BY DetectedInSegment
  <2>2. In(s) \subseteq S
    OBVIOUS
  <2> HIDE DEF lists, In, S
  <2> QED BY <2>1, <2>2
<1>4. lists \in [1..Len(i) -> Seq(S)]
  <2>1. lists = [s \in 1..Len(i) |-> lists[s]]
    BY <1>2
  <2> HIDE DEF lists, S
  <2> QED BY <1>2, <1>3, <2>1
<1>5. Seq(Seq(S)) = UNION {[1..n -> Seq(S)] : n \in Nat}
  BY SeqDef
<1>6. lists \in Seq(Seq(S))
  <2> HIDE DEF lists, S
  <2> QED BY <1>2, <1>4, <1>5
<1>7. findings \in Seq(S)
  <2> HIDE DEF lists, S
  <2> QED BY <1>1, <1>6, FlattenedItems
<1>8. Items(findings) \subseteq S
  <2> HIDE DEF S
  <2> QED BY <1>7 DEF Items
<1>9. findings \in Seq(Items(findings))
  <2>1. Len(findings) \in Nat /\ DOMAIN findings = 1..Len(findings)
        /\ findings = [n \in 1..Len(findings) |-> findings[n]]
    <3> HIDE DEF S
    <3> QED BY <1>7
  <2>2. \A n \in 1..Len(findings) : findings[n] \in Items(findings)
    BY <2>1 DEF Items
  <2> QED BY <2>1, <2>2
<1>10. ASSUME NEW f \in S
       PROVE  \E s \in DOMAIN i : \E c \in Detectors!Categories :
                Detectors!Suggested(i[s], c) /\ f = Detectors!Finding(i[s], c)
  <2>1. PICK s \in DOMAIN i : f \in In(s)
    BY <1>10
  <2> QED BY <2>1
<1> HIDE DEF S
<1> QED BY <1>8, <1>9, <1>10

LEMMA ScoresAgree ==
  ASSUME NEW a, NEW b
  PROVE  Detectors!ScoreDuplicateCandidates(a, b) = Detectors!ScoreDuplicateCandidates(b, a)
<1>1. /\ a.category = b.category <=> b.category = a.category
      /\ a.evidence \cap b.evidence = b.evidence \cap a.evidence
      /\ Detectors!FirstDate(a) # None /\ Detectors!FirstDate(a) = Detectors!FirstDate(b)
           <=> Detectors!FirstDate(b) # None /\ Detectors!FirstDate(b) = Detectors!FirstDate(a)
  OBVIOUS
<1>2. /\ (IF a.category = b.category THEN 2 ELSE 0) = (IF b.category = a.category THEN 2 ELSE 0)
      /\ (IF a.evidence \cap b.evidence # {} THEN 2 ELSE 0)
           = (IF b.evidence \cap a.evidence # {} THEN 2 ELSE 0)
      /\ (IF Detectors!FirstDate(a) # None /\ Detectors!FirstDate(a) = Detectors!FirstDate(b)
          THEN 1 ELSE 0)
           = (IF Detectors!FirstDate(b) # None /\ Detectors!FirstDate(b) = Detectors!FirstDate(a)
              THEN 1 ELSE 0)
  BY <1>1
<1> QED BY <1>2 DEF Detectors!ScoreDuplicateCandidates

LEMMA NothingMatches ==
  ASSUME NEW S, NEW findings \in Seq(S)
  PROVE  (Detectors!BenchmarkVerdict("none", TRUE, findings) = "suppressed")
           <=> findings = <<>>
<1> DEFINE matching == Picked(findings, {f \in DOMAIN findings :
                                           "none" \in {"none", findings[f].category}})
<1>1. Detectors!BenchmarkVerdict("none", TRUE, findings)
        = IF matching = <<>> THEN "suppressed" ELSE "false_positive"
  <2>1. Detectors!Picked(findings, {f \in DOMAIN findings :
                                      "none" \in {"none", findings[f].category}}) = matching
    BY SamePicked
  <2> HIDE DEF matching
  <2> QED BY <2>1 DEF Detectors!BenchmarkVerdict
<1>2. {f \in DOMAIN findings : "none" \in {"none", findings[f].category}} \cap DOMAIN findings
        = DOMAIN findings
  OBVIOUS
<1>3. matching \in Seq(S) /\ Items(matching) = Items(findings)
  <2> DEFINE places == {f \in DOMAIN findings : "none" \in {"none", findings[f].category}}
  <2>1. places \cap DOMAIN findings = DOMAIN findings
    BY <1>2
  <2>2. matching = Picked(findings, places)
    OBVIOUS
  <2> HIDE DEF places, matching
  <2>3. matching \in Seq(S) /\ Items(matching) = {findings[n] : n \in DOMAIN findings}
    BY <2>1, <2>2, PickedAre
  <2> QED BY <2>3 DEF Items
<1> HIDE DEF matching
<1>4. matching = <<>> <=> findings = <<>>
  BY <1>3, NoItems
<1> QED BY <1>1, <1>4

DetectionsComputed ==
  /\ Computed("detection", DetectionInputs, Detectors!RunAllDetectors(input))
  /\ Computed("suggestion", SuggestionInputs,
              Detectors!AllowlistIssues(input.suggestion, input.segments, input.rules))

LEMMA DetectionsAreComputed == Spec => []DetectionsComputed
<1>1. Init => DetectionsComputed
  BY DEF Init, Ask, DetectionsComputed, Computed
<1>2. DetectionsComputed /\ [Next]_vars => DetectionsComputed'
  <2> SUFFICES ASSUME DetectionsComputed, [Next]_vars PROVE DetectionsComputed'
    OBVIOUS
  <2> USE DEF DetectionsComputed, Computed, Answer
  <2>1. CASE Detect
    BY <2>1 DEF Detect
  <2>2. CASE CheckSuggestion
    BY <2>2 DEF CheckSuggestion
  <2>3. CASE UNCHANGED vars
    BY <2>3 DEF vars
  <2>4. CASE \/ CalculateDeadline \/ MatchScope \/ ListPages \/ ValidateWebhook
             \/ EvaluateAlerts \/ Escalate \/ Draft \/ ValidateAiSections \/ AssessEvidence
             \/ BuildArchive \/ SendAndClassify \/ AssessReceipt \/ AssessRisk
             \/ ValidateConfig \/ AllowDeployment \/ AssessReadiness \/ SendAlerts
             \/ CheckManifest \/ ResolveEnvironment \/ CheckLimits \/ ValidateDraft
             \/ CheckDispatch \/ BuildPage
    BY <2>4 DEF CalculateDeadline, MatchScope, ListPages, ValidateWebhook, EvaluateAlerts,
                Escalate, Draft, ValidateAiSections, AssessEvidence, BuildArchive,
                SendAndClassify, AssessReceipt, AssessRisk, ValidateConfig, AllowDeployment,
                AssessReadiness, SendAlerts, CheckManifest, ResolveEnvironment, CheckLimits,
                ValidateDraft, CheckDispatch, BuildPage
  <2> QED BY <2>1, <2>2, <2>3, <2>4 DEF Next
<1> QED BY <1>1, <1>2, PTL DEF Spec

(* What a detection says of a segment, as the property says it.               *)
FindingRests(f, segment) ==
  LET found == {h \in DOMAIN Detectors!PhrasePatterns :
                  /\ Detectors!PhrasePatterns[h].signal \in segment.signals
                  /\ Detectors!PhrasePatterns[h].category = f.category}
      polarities == {Detectors!PhrasePatterns[h].polarity : h \in found}
  IN /\ f.evidence = {segment.id}
     /\ "POSITIVE" \in polarities /\ polarities \cap {"NEGATION", "DISCLOSED"} = {}
     /\ f.contradicted <=> "CONTRACTOR_CAUSED" \in polarities
     /\ f.band = "MEDIUM" => f.missing \cap {"NO_DUE_DATE", "NO_PAYMENT_DUE_DATE"} = {}
     /\ \A d \in DOMAIN f.dateCandidates :
          f.dateCandidates[d].value # None =>
            /\ segment.stamp # None
            /\ f.dateCandidates[d].value = segment.stamp - (IF segment.yesterday THEN 1 ELSE 0)

LEMMA DetectionsRest ==
  ASSUME NEW i \in DetectionInputs, NEW findings, findings = Detectors!RunAllDetectors(i)
  PROVE  \A n \in DOMAIN findings : \E s \in DOMAIN i : FindingRests(findings[n], i[s])
<1>1. SUFFICES ASSUME NEW n \in DOMAIN findings
               PROVE  \E s \in DOMAIN i : FindingRests(findings[n], i[s])
  OBVIOUS
<1>2. findings[n] \in Items(findings)
  BY DEF Items
<1>3. PICK s \in DOMAIN i : \E c \in Detectors!Categories :
        Detectors!Suggested(i[s], c) /\ findings[n] = Detectors!Finding(i[s], c)
  BY <1>2, DetectedAre
<1>4. PICK c \in Detectors!Categories :
        Detectors!Suggested(i[s], c) /\ findings[n] = Detectors!Finding(i[s], c)
  BY <1>3
<1>5. PICK segment : segment = i[s]
  OBVIOUS
<1>6. PICK f : f = Detectors!Finding(segment, c)
  OBVIOUS
<1>7. segment.yesterday \in BOOLEAN /\ segment.stamp \in Int \cup {None}
  BY <1>5, DetectionAssumption
<1>8. /\ f.category = c /\ f.evidence = {segment.id}
      /\ "POSITIVE" \in Polarities(segment, c)
      /\ Polarities(segment, c) \cap {"NEGATION", "DISCLOSED"} = {}
      /\ f.contradicted <=> "CONTRACTOR_CAUSED" \in Polarities(segment, c)
      /\ f.band = "MEDIUM" => f.missing \cap {"NO_DUE_DATE", "NO_PAYMENT_DUE_DATE"} = {}
  BY <1>4, <1>5, <1>6, FindingsFit
<1>9. \A d \in DOMAIN f.dateCandidates : Resolved(f.dateCandidates[d], segment)
  BY <1>6, <1>7, DatesFit
<1>10. Polarities(segment, c)
         = {Detectors!PhrasePatterns[h].polarity : h \in
              {h \in DOMAIN Detectors!PhrasePatterns :
                 /\ Detectors!PhrasePatterns[h].signal \in segment.signals
                 /\ Detectors!PhrasePatterns[h].category = f.category}}
  <2>1. HitPlaces(segment, c)
          = {h \in DOMAIN Detectors!PhrasePatterns :
               /\ Detectors!PhrasePatterns[h].signal \in segment.signals
               /\ Detectors!PhrasePatterns[h].category = f.category}
    BY <1>8 DEF HitPlaces
  <2> QED BY <2>1 DEF Polarities
<1>11. FindingRests(f, segment)
  <2> DEFINE polarities == {Detectors!PhrasePatterns[h].polarity : h \in
              {h \in DOMAIN Detectors!PhrasePatterns :
                 /\ Detectors!PhrasePatterns[h].signal \in segment.signals
                 /\ Detectors!PhrasePatterns[h].category = f.category}}
  <2>1. FindingRests(f, segment) <=>
          /\ f.evidence = {segment.id}
          /\ "POSITIVE" \in polarities /\ polarities \cap {"NEGATION", "DISCLOSED"} = {}
          /\ f.contradicted <=> "CONTRACTOR_CAUSED" \in polarities
          /\ f.band = "MEDIUM" => f.missing \cap {"NO_DUE_DATE", "NO_PAYMENT_DUE_DATE"} = {}
          /\ \A d \in DOMAIN f.dateCandidates : Resolved(f.dateCandidates[d], segment)
    BY DEF FindingRests, Resolved
  <2>2. polarities = Polarities(segment, c)
    BY <1>10
  <2> HIDE DEF polarities
  <2> QED BY <1>8, <1>9, <2>1, <2>2
<1> QED BY <1>4, <1>5, <1>6, <1>11

(* A finding rests on its segment and an AI suggestion on what it was given   *)
(* (detectors.ts, ai-schema.ts), for correspondence of any length.            *)
THEOREM FindingsStaySupported == Spec => []FindingsAreSupported
<1>1. DetectionsComputed => FindingsAreSupported
  <2> SUFFICES ASSUME DetectionsComputed PROVE FindingsAreSupported
    OBVIOUS
  <2>1. ASSUME Answered("detection")
        PROVE  /\ \A n \in DOMAIN answer : \E s \in DOMAIN input :
                    FindingRests(answer[n], input[s])
               /\ \A a, b \in DOMAIN answer :
                    Detectors!ScoreDuplicateCandidates(answer[a], answer[b])
                      = Detectors!ScoreDuplicateCandidates(answer[b], answer[a])
               /\ (Detectors!BenchmarkVerdict("none", TRUE, answer) = "suppressed")
                    <=> answer = <<>>
    <3>1. input \in DetectionInputs /\ answer = Detectors!RunAllDetectors(input)
      BY <2>1 DEF DetectionsComputed, Computed, Answered
    <3>2. answer \in Seq(Items(answer))
      BY <3>1, DetectedAre
    <3>3. (Detectors!BenchmarkVerdict("none", TRUE, answer) = "suppressed") <=> answer = <<>>
      BY <3>2, NothingMatches
    <3>4. \A n \in DOMAIN answer : \E s \in DOMAIN input : FindingRests(answer[n], input[s])
      BY <3>1, DetectionsRest
    <3> QED BY <3>3, <3>4, ScoresAgree
  <2>2. ASSUME Answered("suggestion"), answer = {}
        PROVE  /\ input.suggestion.segmentIds \subseteq input.segments
               /\ \A r \in input.suggestion.roles :
                    r.segmentId \in input.segments /\ ~r.instructs
               /\ input.suggestion.ruleIds \subseteq input.rules /\ ~input.suggestion.concludes
    <3>1. Detectors!AllowlistIssues(input.suggestion, input.segments, input.rules) = {}
      BY <2>2 DEF DetectionsComputed, Computed, Answered
    <3>2. /\ input.suggestion.segmentIds \subseteq input.segments
          /\ {r.segmentId : r \in input.suggestion.roles} \subseteq input.segments
          /\ ~\E r \in input.suggestion.roles : r.instructs
          /\ input.suggestion.ruleIds \subseteq input.rules /\ ~input.suggestion.concludes
      BY <3>1 DEF Detectors!AllowlistIssues
    <3> QED BY <3>2
  <2> QED BY <2>1, <2>2, Zenon DEF FindingsAreSupported, FindingRests
<1> QED BY <1>1, DetectionsAreComputed, PTL

-----------------------------------------------------------------------------
(* Drafts. A section rests on facts when its sources are among theirs.        *)
Approved(facts) ==
  {m \in DOMAIN facts : /\ facts[m].approvedForDrafting
                        /\ facts[m].verificationStatus \in {"EVIDENCE_BACKED", "HUMAN_CONFIRMED"}}
ApprovedIds(facts) == {f.id : f \in {facts[n] : n \in Approved(facts)}}
RestOn(sections, ids) == \A s \in Items(sections) : s.factIds \subseteq ids
Source(fact, ids) == Drafting!FactIds(fact) \subseteq ids

LEMMA ApprovedAre ==
  ASSUME NEW facts, IsList(facts), NEW list, list = Drafting!ApprovedFacts(facts)
  PROVE  /\ list \in Seq(Items(facts))
         /\ \A f \in Items(list) : f.id \in ApprovedIds(facts)
<1>1. list = Picked(facts, Approved(facts))
  BY SamePicked, Zenon DEF Drafting!ApprovedFacts, Drafting!VerifiedStatuses, Approved
<1>2. facts \in Seq(Items(facts)) /\ Approved(facts) \cap DOMAIN facts = Approved(facts)
  BY DEF IsList, Items, Approved
<1>3. list \in Seq(Items(facts)) /\ Items(list) = {facts[n] : n \in Approved(facts)}
  BY <1>1, <1>2, PickedAre
<1> QED BY <1>3 DEF ApprovedIds

LEMMA ValuesAreSources ==
  ASSUME NEW S, NEW list \in Seq(S), NEW ids, \A f \in Items(list) : f.id \in ids, NEW type
  PROVE  Source(Drafting!FactValue(list, type), ids)
<1> DEFINE places == {f \in DOMAIN list : list[f].type = type}
           those == Picked(list, places)
<1>1. Drafting!FactValue(list, type) = IF those = <<>> THEN None ELSE those[1]
  BY SamePicked, Zenon DEF Drafting!FactValue
<1>2. those \in Seq(S) /\ Items(those) \subseteq Items(list)
  <2>1. those \in Seq(S) /\ Items(those) = {list[n] : n \in places \cap DOMAIN list}
    BY PickedAre
  <2> QED BY <2>1 DEF Items
<1>3. CASE those = <<>>
  BY <1>1, <1>3 DEF Source, Drafting!FactIds
<1>4. CASE those # <<>>
  <2>1. those[1] \in Items(list)
    BY <1>2, <1>4, FirstItem
  <2> QED BY <1>1, <1>4, <2>1 DEF Source, Drafting!FactIds
<1> QED BY <1>3, <1>4

LEMMA SectionsRest ==
  ASSUME NEW ids, NEW type, NEW sources, NEW warnings, \A f \in sources : Source(f, ids)
  PROVE  Drafting!Section(type, sources, warnings).factIds \subseteq ids
BY DEF Source, Drafting!Section

LEMMA QuotesRest ==
  ASSUME NEW ids, NEW type, NEW fact, NEW otherwise, Source(fact, ids)
  PROVE  Drafting!Quoting(type, fact, otherwise).factIds \subseteq ids
BY DEF Source, Drafting!Section, Drafting!Quoting

(* Tuples of sections, as the draft is put together.                          *)
LEMMA RestsTogether ==
  ASSUME NEW ids, NEW s, NEW t, s \in Seq(Items(s)), t \in Seq(Items(t)),
         RestOn(s, ids), RestOn(t, ids)
  PROVE  s \o t \in Seq(Items(s \o t)) /\ RestOn(s \o t, ids)
<1> DEFINE S == Items(s) \cup Items(t)
<1>1. s \in Seq(S) /\ t \in Seq(S)
  OBVIOUS
<1>2. s \o t \in Seq(S) /\ Items(s \o t) = Items(s) \cup Items(t)
  BY <1>1, JoinedItems
<1> QED BY <1>2 DEF RestOn

LEMMA OneRests ==
  ASSUME NEW ids, NEW x, x.factIds \subseteq ids
  PROVE  <<x>> \in Seq(Items(<<x>>)) /\ RestOn(<<x>>, ids)
<1>1. Items(<<x>>) = {x}
  BY DEF Items
<1> QED BY <1>1 DEF RestOn

LEMMA ThreeRest ==
  ASSUME NEW ids, NEW x, NEW y, NEW z, \A s \in {x, y, z} : s.factIds \subseteq ids
  PROVE  <<x, y, z>> \in Seq(Items(<<x, y, z>>)) /\ RestOn(<<x, y, z>>, ids)
<1>1. Items(<<x, y, z>>) \subseteq {x, y, z}
  BY DEF Items
<1> QED BY <1>1, ThreeListed DEF RestOn

LEMMA SectionsAssembled ==
  ASSUME NEW in, IsList(in.facts)
  PROVE  /\ Drafting!AssembledSections(in) \in Seq(Items(Drafting!AssembledSections(in)))
         /\ RestOn(Drafting!AssembledSections(in), ApprovedIds(in.facts))
<1> DEFINE facts == Drafting!ApprovedFacts(in.facts)
           the(type) == Drafting!FactValue(facts, type)
           plain(type) == Drafting!Section(type, {}, {})
           ids == ApprovedIds(in.facts)
           a == <<Drafting!Section("SENDER", {the("PARTY_NAME")},
                    Drafting!Warn(the("PARTY_NAME") = None, "MISSING_SENDER_FACT")),
                  Drafting!Section("RECIPIENT", {},
                    Drafting!Warn(in.unverifiedRecipient, "UNVERIFIED_RECIPIENT")),
                  Drafting!Section("PROJECT_CONTRACT_REFERENCE", {the("CONTRACT_REFERENCE")}, {}),
                  Drafting!Section("NOTICE_TITLE", {the("NOTICE_REFERENCE")}, {}),
                  plain("CONTRACTUAL_BASIS"),
                  Drafting!Quoting("FACTUAL_BACKGROUND", the("DESCRIPTION_OF_EVENT"),
                    {"EVENT_DESCRIPTION_FROM_TITLE_ONLY"}),
                  Drafting!Quoting("EVENT_DESCRIPTION", the("DESCRIPTION_OF_EVENT"), {}),
                  Drafting!Section("TRIGGER_DATE", {the("EVENT_DATE"), the("AWARENESS_DATE")},
                    Drafting!Warn(the("EVENT_DATE") = None, "MISSING_EVENT_DATE_FACT")),
                  Drafting!Section("DEADLINE_STATEMENT", {},
                    Drafting!Warn(~in.deadline, "MISSING_VERIFIED_DEADLINE"))>>
           b == IF the("DESCRIPTION_OF_EFFECT") = None THEN <<>>
                ELSE <<Drafting!Quoting("IMPACT_STATEMENT", the("DESCRIPTION_OF_EFFECT"), {})>>
           c == <<plain("RESERVATION_OF_RIGHTS"),
                  Drafting!Quoting("REQUESTED_ACTION", the("REQUESTED_ACTION"), {}),
                  plain("RECORDS_EVIDENCE")>>
           d == IF in.continuing THEN <<plain("CONTINUING_EVENT")>> ELSE <<>>
           hidden == [plain("FACTUAL_BACKGROUND") EXCEPT !.internalOnly = TRUE,
                                                         !.internalText = TRUE]
           e == <<plain("ATTACHMENTS"),
                  Drafting!Section("CLOSING", {}, {"SIGNATURE_PLACEHOLDER"}), hidden>>
           Fine(s) == s \in Seq(Items(s)) /\ RestOn(s, ids)
<1>1. Drafting!AssembledSections(in) = a \o b \o c \o d \o e
  BY DEF Drafting!AssembledSections
<1>2. \A type : Source(the(type), ids)
  <2>1. facts \in Seq(Items(in.facts)) /\ \A f \in Items(facts) : f.id \in ids
    BY ApprovedAre
  <2> HIDE DEF facts, ids
  <2> QED BY <2>1, ValuesAreSources
<1>3. \A type, warnings :
        /\ plain(type).factIds \subseteq ids
        /\ Drafting!Section(type, {}, warnings).factIds \subseteq ids
  BY SectionsRest
<1>4. \A type, warnings, x, y :
        /\ Drafting!Section(type, {the(x)}, warnings).factIds \subseteq ids
        /\ Drafting!Section(type, {the(x), the(y)}, warnings).factIds \subseteq ids
        /\ Drafting!Quoting(type, the(x), warnings).factIds \subseteq ids
  <2> SUFFICES ASSUME NEW type, NEW warnings, NEW x, NEW y
               PROVE  /\ Drafting!Section(type, {the(x)}, warnings).factIds \subseteq ids
                      /\ Drafting!Section(type, {the(x), the(y)}, warnings).factIds \subseteq ids
                      /\ Drafting!Quoting(type, the(x), warnings).factIds \subseteq ids
    OBVIOUS
  <2> DEFINE first == the(x)
             second == the(y)
  <2>1. Source(first, ids) /\ Source(second, ids)
    BY <1>2
  <2> HIDE DEF first, second, ids
  <2>2. \A f \in {first} : Source(f, ids)
    BY <2>1
  <2>3. \A f \in {first, second} : Source(f, ids)
    BY <2>1
  <2>4. Drafting!Section(type, {first}, warnings).factIds \subseteq ids
    BY <2>2, SectionsRest
  <2>5. Drafting!Section(type, {first, second}, warnings).factIds \subseteq ids
    BY <2>3, SectionsRest
  <2>6. Drafting!Quoting(type, first, warnings).factIds \subseteq ids
    BY <2>1, QuotesRest
  <2> QED BY <2>4, <2>5, <2>6 DEF first, second
<1>5. hidden.factIds \subseteq ids
  BY <1>3 DEF Drafting!Section
<1> HIDE DEF the, ids, hidden, plain
<1>6. Fine(a)
  <2>1. a \in Seq(Items(a))
    BY DEF Items
  <2>2. /\ a[1].factIds \subseteq ids /\ a[2].factIds \subseteq ids
        /\ a[3].factIds \subseteq ids /\ a[4].factIds \subseteq ids
        /\ a[5].factIds \subseteq ids
    BY <1>3, <1>4
  <2>3. /\ a[6].factIds \subseteq ids /\ a[7].factIds \subseteq ids
        /\ a[8].factIds \subseteq ids /\ a[9].factIds \subseteq ids
    BY <1>3, <1>4
  <2>4. DOMAIN a = 1..9
    OBVIOUS
  <2> HIDE DEF a
  <2>5. \A n \in 1..9 : a[n].factIds \subseteq ids
    BY <2>2, <2>3
  <2> QED BY <2>1, <2>4, <2>5 DEF RestOn, Items
<1>7. Fine(b)
  <2>1. CASE the("DESCRIPTION_OF_EFFECT") = None
    BY <2>1 DEF RestOn, Items
  <2>2. CASE the("DESCRIPTION_OF_EFFECT") # None
    BY <1>4, <2>2, OneRests
  <2> QED BY <2>1, <2>2
<1>8. Fine(c)
  BY <1>3, <1>4, ThreeRest
<1>9. Fine(d)
  <2>1. CASE in.continuing
    BY <1>3, <2>1, OneRests
  <2>2. CASE ~in.continuing
    BY <2>2 DEF RestOn, Items
  <2> QED BY <2>1, <2>2
<1>10. Fine(e)
  BY <1>3, <1>5, ThreeRest
<1> HIDE DEF a, b, c, d, e
<1>11. \A s, t : Fine(s) /\ Fine(t) => Fine(s \o t)
  BY RestsTogether
<1>12. Fine(a \o b)
  BY <1>6, <1>7, <1>11
<1>13. Fine(a \o b \o c)
  BY <1>8, <1>11, <1>12
<1>14. Fine(a \o b \o c \o d)
  BY <1>9, <1>11, <1>13
<1>15. Fine(a \o b \o c \o d \o e)
  BY <1>10, <1>11, <1>14
<1> QED BY <1>1, <1>15 DEF ids

LEMMA DraftsRest ==
  ASSUME NEW in, IsList(in.facts), NEW draft, draft = Drafting!AssembleDeterministicDraft(in)
  PROVE  /\ draft \in Seq(Items(draft))
         /\ \A n \in DOMAIN draft : draft[n].section.factIds \subseteq ApprovedIds(in.facts)
<1> DEFINE all == Drafting!AssembledSections(in)
           numbered == [n \in DOMAIN all |-> [section |-> all[n], sequence |-> n]]
           shown == {n \in DOMAIN all : ~all[n].blank}
<1>1. draft = Picked(numbered, shown)
  BY SamePicked, Zenon DEF Drafting!AssembleDeterministicDraft
<1>2. /\ all \in Seq(Items(all))
      /\ \A n \in DOMAIN all : all[n].factIds \subseteq ApprovedIds(in.facts)
  BY SectionsAssembled DEF RestOn, Items
<1> HIDE DEF all
<1>3. numbered \in Seq(Items(numbered)) /\ DOMAIN numbered = DOMAIN all
  BY <1>2 DEF Items
<1>4. \A n \in DOMAIN numbered : numbered[n].section = all[n]
  OBVIOUS
<1> HIDE DEF numbered, shown
<1>5. draft \in Seq(Items(numbered))
      /\ Items(draft) = {numbered[n] : n \in shown \cap DOMAIN numbered}
  BY <1>1, <1>3, PickedAre
<1>6. \A x \in Items(draft) : x.section.factIds \subseteq ApprovedIds(in.facts)
  BY <1>2, <1>3, <1>4, <1>5
<1>7. draft \in Seq(Items(draft))
  BY <1>5 DEF Items
<1> QED BY <1>6, <1>7 DEF Items

LEMMA ExportsAre ==
  ASSUME NEW draft, draft \in Seq(Items(draft)),
         NEW export, export = Drafting!ExportApprovedNotice(draft)
  PROVE  /\ \A n \in DOMAIN export.text : ~export.text[n].section.internalText
         /\ export.ok =>
              {s.sequence : s \in Items(export.text)}
                = {s.sequence : s \in {draft[n] : n \in
                    {m \in DOMAIN draft : ~draft[m].section.internalOnly}}}
<1> DEFINE text == Drafting!RenderPlainText(draft, FALSE)
           outer == {m \in DOMAIN draft : ~draft[m].section.internalOnly}
<1>1. text = Picked(draft, outer)
  <2>1. text = Picked(draft, {s \in DOMAIN draft :
                                FALSE \/ ~draft[s].section.internalOnly})
    BY SamePicked, Zenon DEF Drafting!RenderPlainText
  <2>2. {s \in DOMAIN draft : FALSE \/ ~draft[s].section.internalOnly} = outer
    BY Zenon
  <2> QED BY <2>1, <2>2
<1>2. Items(text) = {draft[n] : n \in outer}
  <2>1. outer \cap DOMAIN draft = outer
    OBVIOUS
  <2> HIDE DEF outer, text
  <2> QED BY <1>1, <2>1, PickedAre
<1>3. export = IF \E n \in DOMAIN text : text[n].section.internalText
               THEN [ok |-> FALSE, text |-> <<>>] ELSE [ok |-> TRUE, text |-> text]
  BY Zenon DEF Drafting!ExportApprovedNotice
<1> HIDE DEF text, outer
<1>4. CASE \E n \in DOMAIN text : text[n].section.internalText
  <2>1. export = [ok |-> FALSE, text |-> <<>>]
    BY <1>3, <1>4, Zenon
  <2>2. export.ok = FALSE /\ export.text = <<>>
    BY <2>1
  <2> QED BY <2>2
<1>5. CASE ~ \E n \in DOMAIN text : text[n].section.internalText
  <2>1. export = [ok |-> TRUE, text |-> text]
    BY <1>3, <1>5, Zenon
  <2>2. export.text = text
    BY <2>1
  <2>3. \A n \in DOMAIN export.text : ~export.text[n].section.internalText
    BY <1>5, <2>2, Zenon
  <2>4. {s.sequence : s \in Items(export.text)}
          = {s.sequence : s \in {draft[n] : n \in outer}}
    BY <1>2, <2>2
  <2> QED BY <2>3, <2>4 DEF outer
<1> QED BY <1>4, <1>5

-----------------------------------------------------------------------------
(* What a clean answer of a validation excludes.                              *)
LEMMA NoWarning ==
  ASSUME NEW condition, NEW warning, Drafting!Warn(condition, warning) = {}
  PROVE  ~condition
BY DEF Drafting!Warn

LEMMA CleanSections ==
  ASSUME NEW sections, NEW known, Drafting!ValidateAiDraftOutput(sections, known) = {}
  PROVE  \A s \in sections :
           /\ s.sources \subseteq known.allowedSources /\ s.forbidden = {}
           /\ known.eventDate # None /\ known.deadlineDate # None =>
                s.dates \subseteq known.approvedDates
                                   \cup {known.eventDate, known.deadlineDate}
<1>1. SUFFICES ASSUME NEW s \in sections
               PROVE  /\ s.sources \subseteq known.allowedSources /\ s.forbidden = {}
                      /\ known.eventDate # None /\ known.deadlineDate # None =>
                           s.dates \subseteq known.approvedDates
                                              \cup {known.eventDate, known.deadlineDate}
  OBVIOUS
<1>2. Drafting!AiSectionErrors(s, known) = {}
  BY <1>1 DEF Drafting!ValidateAiDraftOutput
<1>3. /\ Drafting!Warn(~(s.sources \subseteq known.allowedSources), "UNKNOWN_SOURCE") = {}
      /\ s.forbidden = {}
      /\ Drafting!Warn(Drafting!InventedDates(s, known) # {}, "INVENTED_DATE") = {}
  BY <1>2 DEF Drafting!AiSectionErrors
<1>4. s.sources \subseteq known.allowedSources /\ Drafting!InventedDates(s, known) = {}
  BY <1>3, NoWarning
<1>5. known.eventDate # None /\ known.deadlineDate # None =>
        s.dates \ (known.approvedDates \cup {known.deadlineDate, known.eventDate}) = {}
  BY <1>4 DEF Drafting!InventedDates
<1> QED BY <1>3, <1>4, <1>5

LEMMA ReadyEvidence ==
  ASSUME NEW rows, Drafting!AssessEvidenceCompleteness(rows, TRUE) = "READY"
  PROVE  \A n \in DOMAIN rows :
           /\ Drafting!Mandatory(rows[n]) =>
                rows[n].satisfactionStatus \notin
                  {"MISSING", "PARTIAL", "DISPUTED", "WAIVED_BY_REVIEWER"}
           /\ rows[n].satisfactionStatus = "WAIVED_BY_REVIEWER" => rows[n].reasoned
<1> DEFINE blocks == \E r \in DOMAIN rows : Drafting!BlocksCompleteness(rows[r])
           warns == \E r \in DOMAIN rows : Drafting!WarnsCompleteness(rows[r])
<1>1. Drafting!AssessEvidenceCompleteness(rows, TRUE)
        = CASE ~TRUE /\ rows = <<>> -> "NOT_ASSESSED"
            [] (TRUE \/ rows # <<>>) /\ blocks -> "BLOCKED"
            [] OTHER -> IF warns THEN "CONDITIONALLY_READY" ELSE "READY"
  BY DEF Drafting!AssessEvidenceCompleteness
<1> HIDE DEF blocks, warns
<1>2. ~blocks
  BY <1>1
<1>3. ~warns
  BY <1>1, <1>2
<1>4. SUFFICES ASSUME NEW n \in DOMAIN rows
               PROVE  /\ Drafting!Mandatory(rows[n]) =>
                           rows[n].satisfactionStatus \notin
                             {"MISSING", "PARTIAL", "DISPUTED", "WAIVED_BY_REVIEWER"}
                      /\ rows[n].satisfactionStatus = "WAIVED_BY_REVIEWER" => rows[n].reasoned
  OBVIOUS
<1>5. ~Drafting!BlocksCompleteness(rows[n]) /\ ~Drafting!WarnsCompleteness(rows[n])
  BY <1>2, <1>3, <1>4, Zenon DEF blocks, warns
<1> QED BY <1>5, Zenon DEF Drafting!BlocksCompleteness, Drafting!WarnsCompleteness

LEMMA DraftIssues ==
  ASSUME NEW in
  PROVE  Drafting!ValidateNoticeDraft(in) = {} =>
            /\ Drafting!Warn(in.supersededCalculation, "STALE_CALCULATION") = {}
            /\ Drafting!Warn(in.calculationStatus # "VERIFIED", "CALCULATION_NOT_VERIFIED") = {}
            /\ Drafting!Warn(Drafting!RequiredRecipients(in) = {}, "MISSING_RECIPIENT") = {}
            /\ Drafting!RequiredRecipientIssues(in) = {}
            /\ Drafting!Warn(in.completenessStatus \in {"INCOMPLETE", "BLOCKED"}
                               /\ in.exceptions <= 0, "EVIDENCE_INCOMPLETE") = {}
            /\ Drafting!Warn(in.completenessStatus = "NOT_ASSESSED",
                             "EVIDENCE_NOT_ASSESSED") = {}
<1> DEFINE stale == Drafting!Warn(in.supersededCalculation, "STALE_CALCULATION")
           unverified == Drafting!Warn(in.calculationStatus # "VERIFIED", "CALCULATION_NOT_VERIFIED")
           trigger == Drafting!Warn(~in.hasVerifiedTriggerDate, "MISSING_TRIGGER_DATE")
           deadline == Drafting!Warn(~in.hasVerifiedDeadline, "MISSING_VERIFIED_DEADLINE")
           clause == Drafting!Warn(~in.clauseReferencePresent, "MISSING_CLAUSE_REFERENCE")
           nobody == Drafting!Warn(Drafting!RequiredRecipients(in) = {}, "MISSING_RECIPIENT")
           recipients == Drafting!RequiredRecipientIssues(in)
           questions == Drafting!Warn(in.openBlockingQuestions > 0, "OPEN_QUESTIONS")
           incomplete == Drafting!Warn(in.completenessStatus \in {"INCOMPLETE", "BLOCKED"}
                                         /\ in.exceptions <= 0, "EVIDENCE_INCOMPLETE")
           unassessed == Drafting!Warn(in.completenessStatus = "NOT_ASSESSED",
                                       "EVIDENCE_NOT_ASSESSED")
           facts == Drafting!Warn(in.unapprovedFactsInDraft > 0, "UNAPPROVED_FACTS")
           internal == Drafting!Warn(in.internalContent, "INTERNAL_CONTENT_IN_EXPORT")
           old == Drafting!Warn(in.staleEvidenceAssessment, "STALE_EVIDENCE_ASSESSMENT")
           reserved == Drafting!Warn(in.reservationRequired /\ ~in.reservationPresent,
                                     "MISSING_RESERVATION")
<1>1. Drafting!ValidateNoticeDraft(in)
         = in.mismatches \cup stale \cup unverified \cup trigger \cup deadline \cup clause
           \cup nobody \cup recipients \cup questions \cup incomplete \cup unassessed
           \cup facts \cup internal \cup old \cup reserved \cup in.nonWaivableBlockers
  BY Zenon DEF Drafting!ValidateNoticeDraft
<1>2. Drafting!ValidateNoticeDraft(in) = {} =>
        /\ stale = {} /\ unverified = {} /\ nobody = {} /\ recipients = {}
        /\ incomplete = {} /\ unassessed = {}
  <2> HIDE DEF stale, unverified, trigger, deadline, clause, nobody, recipients, questions,
               incomplete, unassessed, facts, internal, old, reserved
  <2> QED BY <1>1
<1> QED BY <1>2, Zenon

LEMMA CleanDrafts ==
  ASSUME NEW in \in DraftChecks, Drafting!ValidateNoticeDraft(in) = {}
  PROVE  /\ in.calculationStatus = "VERIFIED" /\ ~in.supersededCalculation
         /\ \E r \in in.recipients : ~r.copiedRecipient
         /\ \A r \in in.recipients :
              r.copiedRecipient \/ (r.verificationStatus = "VERIFIED" /\ r.hasContact)
         /\ in.completenessStatus \in {"READY", "CONDITIONALLY_READY"} \/ in.exceptions > 0
<1> DEFINE required == Drafting!RequiredRecipients(in)
<1>1. /\ Drafting!Warn(in.supersededCalculation, "STALE_CALCULATION") = {}
      /\ Drafting!Warn(in.calculationStatus # "VERIFIED", "CALCULATION_NOT_VERIFIED") = {}
      /\ Drafting!Warn(Drafting!RequiredRecipients(in) = {}, "MISSING_RECIPIENT") = {}
      /\ Drafting!RequiredRecipientIssues(in) = {}
      /\ Drafting!Warn(in.completenessStatus \in {"INCOMPLETE", "BLOCKED"} /\ in.exceptions <= 0,
                       "EVIDENCE_INCOMPLETE") = {}
      /\ Drafting!Warn(in.completenessStatus = "NOT_ASSESSED", "EVIDENCE_NOT_ASSESSED") = {}
  BY DraftIssues, Zenon
<1>2. /\ ~in.supersededCalculation /\ in.calculationStatus = "VERIFIED" /\ required # {}
      /\ ~(in.completenessStatus \in {"INCOMPLETE", "BLOCKED"} /\ in.exceptions <= 0)
      /\ in.completenessStatus # "NOT_ASSESSED"
  BY <1>1, NoWarning
<1>3. ASSUME NEW r \in required PROVE r.verificationStatus = "VERIFIED" /\ r.hasContact
  <2>1. Drafting!RecipientIssues(r) = {}
    BY <1>1, <1>3 DEF Drafting!RequiredRecipientIssues
  <2>2. /\ Drafting!Warn(r.verificationStatus # "VERIFIED", "UNVERIFIED_RECIPIENT") = {}
        /\ Drafting!Warn(~r.hasContact, "MISSING_CONTACT_POINT") = {}
    BY <2>1 DEF Drafting!RecipientIssues
  <2> QED BY <2>2, NoWarning
<1>4. in.completenessStatus \in {"NOT_ASSESSED", "INCOMPLETE", "BLOCKED",
                                "CONDITIONALLY_READY", "READY"} /\ in.exceptions \in Nat
  BY NoticeAssumption
<1>5. in.completenessStatus \in {"READY", "CONDITIONALLY_READY"} \/ in.exceptions > 0
  BY <1>2, <1>4
<1>6. \A r \in in.recipients :
        r.copiedRecipient \/ (r.verificationStatus = "VERIFIED" /\ r.hasContact)
  BY <1>3, Zenon DEF Drafting!RequiredRecipients
<1>7. \E r \in in.recipients : ~r.copiedRecipient
  BY <1>2, Zenon DEF Drafting!RequiredRecipients
<1> QED BY <1>2, <1>5, <1>6, <1>7

(* What a page shows of a notice.                                             *)
PageHolds(in, page) ==
  LET text  == Drafting!PageText(in)
      fits  == /\ Len(in) < Drafting!PdfLines
               /\ \A n \in DOMAIN in : in[n].length <= Drafting!PdfWidth
      whole == /\ Len(page) = Len(text)
               /\ \A n \in DOMAIN page : page[n].length = text[n].length
  IN /\ whole <=> fits
     /\ fits => \A n \in DOMAIN page : page[n].replaced = text[n].foreign

(* Cutting to a limit changes what is longer, and nothing else.               *)
LEMMA CutTo ==
  ASSUME NEW a \in Nat, NEW b \in Nat
  PROVE  /\ Drafting!Min({a, b}) = IF b <= a THEN b ELSE a
         /\ Drafting!Min({a, b}) = b <=> b <= a
BY DEF Drafting!Min

(* A page shows all of a notice exactly when it fits.                         *)
LEMMA PagesShow ==
  ASSUME NEW in \in PageInputs
  PROVE  PageHolds(in, Drafting!BuildSimplePdf(in))
<1> DEFINE text == Drafting!PageText(in)
           page == Drafting!BuildSimplePdf(in)
           Lines == [length : Nat, foreign : SUBSET Nat]
           shown == Drafting!Min({Drafting!PdfLines, Len(text)})
           fits == Len(in) < Drafting!PdfLines /\ \A n \in DOMAIN in : in[n].length <= Drafting!PdfWidth
<1> USE DEF Drafting!PdfLines, Drafting!PdfWidth
<1>1. /\ in \in Seq(Items(in)) /\ in # <<>>
      /\ \A n \in DOMAIN in : in[n].length \in Nat /\ in[n].foreign \subseteq 1..in[n].length
  BY NoticeAssumption DEF IsList, Items
<1>2. Len(in) \in Nat /\ Len(in) >= 1 /\ DOMAIN in = 1..Len(in)
  BY <1>1
<1>3. \E X : in \in Seq(X) /\ in[1] \in X /\ Drafting!BlankLine \in X
  <2>1. in \in Seq(Items(in) \cup {in[1], Drafting!BlankLine})
    BY <1>1
  <2> QED BY <2>1
<1>4. PICK X : in \in Seq(X) /\ in[1] \in X /\ Drafting!BlankLine \in X
  BY <1>3
<1>5. /\ Tail(in) \in Seq(X) /\ Len(Tail(in)) = Len(in) - 1
      /\ \A n \in 1..Len(in) - 1 : Tail(in)[n] = in[n + 1]
  BY <1>1, <1>2, <1>4
<1>6. <<in[1], Drafting!BlankLine>> \in Seq(X) /\ Len(<<in[1], Drafting!BlankLine>>) = 2
  BY <1>4
<1>7. /\ Len(text) = Len(in) + 1
      /\ \A n \in 1..Len(text) :
           text[n] = IF n <= 2 THEN <<in[1], Drafting!BlankLine>>[n] ELSE Tail(in)[n - 2]
  BY <1>2, <1>5, <1>6, ConcatProperties DEF Drafting!PageText
<1> HIDE DEF text
<1>8. /\ text[1] = in[1]
      /\ text[2] = Drafting!BlankLine
      /\ \A n \in 2..Len(in) : text[n + 1] = in[n]
  <2>1. ASSUME NEW n \in 2..Len(in) PROVE text[n + 1] = in[n]
    <3>1. n - 1 \in 1..Len(in) - 1 /\ n + 1 \in 1..Len(text) /\ ~(n + 1 <= 2)
          /\ (n + 1) - 2 = n - 1 /\ (n - 1) + 1 = n
      BY <1>2, <1>7
    <3> QED BY <1>5, <1>7, <3>1
  <2> QED BY <1>2, <1>7, <2>1
<1>9. \A n \in 1..Len(text) : text[n].length \in Nat /\ text[n].foreign \subseteq 1..text[n].length
  <2>1. ASSUME NEW n \in 1..Len(text)
        PROVE  text[n].length \in Nat /\ text[n].foreign \subseteq 1..text[n].length
    <3>1. CASE n = 1
      BY <1>1, <1>2, <1>8, <3>1
    <3>2. CASE n = 2
      BY <1>8, <3>2 DEF Drafting!BlankLine
    <3>3. CASE n > 2
      <4>1. n - 1 \in 2..Len(in) /\ (n - 1) + 1 = n
        BY <1>2, <1>7, <3>3
      <4>2. text[n] = in[n - 1]
        BY <1>8, <4>1
      <4> QED BY <1>1, <1>2, <4>1, <4>2
    <3> QED BY <3>1, <3>2, <3>3
  <2> QED BY <2>1
<1>10. fits <=> Len(text) <= 40 /\ \A n \in 1..Len(text) : text[n].length <= 90
  <2>1. ASSUME fits, NEW n \in 1..Len(text) PROVE text[n].length <= 90
    <3>1. CASE n = 1
      BY <1>2, <1>8, <2>1, <3>1
    <3>2. CASE n = 2
      BY <1>8, <3>2 DEF Drafting!BlankLine
    <3>3. CASE n > 2
      <4>1. n - 1 \in 2..Len(in) /\ (n - 1) + 1 = n
        BY <1>2, <1>7, <3>3
      <4>2. text[n] = in[n - 1]
        BY <1>8, <4>1
      <4> QED BY <1>2, <2>1, <4>1, <4>2
    <3> QED BY <3>1, <3>2, <3>3
  <2>2. ASSUME \A n \in 1..Len(text) : text[n].length <= 90, NEW n \in DOMAIN in
        PROVE  in[n].length <= 90
    <3>1. CASE n = 1
      BY <1>2, <1>7, <1>8, <2>2, <3>1
    <3>2. CASE n # 1
      <4>1. n \in 2..Len(in) /\ n + 1 \in 1..Len(text)
        BY <1>2, <1>7, <3>2
      <4> QED BY <1>8, <2>2, <4>1
    <3> QED BY <3>1, <3>2
  <2>3. Len(in) < 40 <=> Len(text) <= 40
    BY <1>2, <1>7
  <2> QED BY <2>1, <2>2, <2>3
<1>11. /\ shown \in Nat /\ shown <= Len(text)
       /\ shown = Len(text) <=> Len(text) <= 40
  BY <1>2, <1>7, CutTo
<1>12. page = [n \in 1..shown |-> Drafting!Shown(text[n])]
  BY DEF Drafting!BuildSimplePdf, text
<1> HIDE DEF page, shown, fits
<1>13. /\ Len(page) = shown /\ DOMAIN page = 1..shown
       /\ \A n \in 1..shown : page[n] = Drafting!Shown(text[n])
  <2>1. DOMAIN page = 1..shown /\ \A n \in 1..shown : page[n] = Drafting!Shown(text[n])
    BY <1>12
  <2>2. page \in Seq({page[n] : n \in 1..shown})
    BY <1>11, <1>12
  <2> QED BY <1>11, <2>1, <2>2
<1>14. \A n \in 1..shown :
         /\ page[n].length = text[n].length <=> text[n].length <= 90
         /\ page[n].replaced = {c \in text[n].foreign : c <= 90}
  <2>1. ASSUME NEW n \in 1..shown
        PROVE  /\ page[n].length = text[n].length <=> text[n].length <= 90
               /\ page[n].replaced = {c \in text[n].foreign : c <= 90}
    <3>1. n \in 1..Len(text) /\ text[n].length \in Nat
      BY <1>2, <1>7, <1>9, <1>11
    <3>2. /\ page[n].length = Drafting!Min({90, text[n].length})
          /\ page[n].replaced = {c \in text[n].foreign : c <= 90}
      <4>1. PICK cut, gone : /\ cut = Drafting!Min({90, text[n].length})
                             /\ gone = {c \in text[n].foreign : c <= 90}
        OBVIOUS
      <4>2. page[n] = [length |-> cut, replaced |-> gone]
        BY <1>13, <4>1, Zenon DEF Drafting!Shown
      <4> QED BY <4>1, <4>2
    <3> QED BY <3>1, <3>2, CutTo
  <2> QED BY <2>1
<1>15. Len(page) = Len(text) /\ (\A n \in DOMAIN page : page[n].length = text[n].length) <=> fits
  <2>1. ASSUME shown = Len(text)
        PROVE  (\A n \in 1..shown : page[n].length = text[n].length)
                 <=> \A n \in 1..Len(text) : text[n].length <= 90
    BY <1>14, <2>1
  <2> QED BY <1>10, <1>11, <1>13, <2>1
<1>16. fits => \A n \in DOMAIN page : page[n].replaced = text[n].foreign
  <2>1. ASSUME fits, NEW n \in 1..shown PROVE page[n].replaced = text[n].foreign
    <3>1. n \in 1..Len(text) /\ text[n].length <= 90
      BY <1>10, <1>11, <2>1
    <3>2. text[n].length \in Nat /\ text[n].foreign \subseteq 1..text[n].length
      BY <1>9, <3>1
    <3>3. \A c \in text[n].foreign : c <= 90
      BY <3>1, <3>2
    <3> QED BY <1>14, <3>3
  <2> QED BY <1>13, <2>1
<1> QED BY <1>15, <1>16, Zenon DEF PageHolds, text, page, fits

(* The entries of an archive lie one after the other.                         *)
ArchiveOffsets(entries) ==
  CHOOSE g : g = [n \in 1 .. Len(entries) + 1 |->
    IF n = 1 THEN 0
    ELSE g[n - 1] + Drafting!LocalHeader(entries[n - 1]) + entries[n - 1].data]
LEMMA ArchivesFollow ==
  ASSUME NEW in \in ArchiveInputs, NEW archive, archive = Drafting!ZipStore(in)
  PROVE  \A n \in DOMAIN in :
           archive.offsets[n] + Drafting!LocalHeader(in[n]) + in[n].data
             = IF n = Len(in) THEN archive.directory ELSE archive.offsets[n + 1]
<1> DEFINE L == Len(in)
           offset == ArchiveOffsets(in)
           step == [n \in 1..L |-> [at \in Int |->
                     at + Drafting!LocalHeader(in[n]) + in[n].data]]
<1>1. L \in Nat /\ DOMAIN in = 1..L
      /\ \A n \in 1..L : Drafting!LocalHeader(in[n]) \in Int /\ in[n].data \in Int
  <2>1. IsList(in) /\ \A n \in DOMAIN in : in[n].name \in Nat /\ in[n].data \in Nat
    BY NoticeAssumption
  <2> QED BY <2>1 DEF IsList, Drafting!LocalHeader
<1>2. archive.offsets = [n \in DOMAIN in |-> offset[n]] /\ archive.directory = offset[L + 1]
  BY DEF Drafting!ZipStore, ArchiveOffsets
<1>3. step \in Steps(L, Int) /\ 0 \in Int
  BY <1>1 DEF Steps
<1> HIDE DEF step
<1>4. PICK f : Iterates(f, L, Int, 0, step)
  BY <1>1, <1>3, Iteration
<1> DEFINE h == [n \in 1..L + 1 |-> f[n - 1]]
<1>5. ASSUME NEW n \in 1..L
      PROVE  h[n + 1] = h[n] + Drafting!LocalHeader(in[n]) + in[n].data
  <2>1. /\ n - 1 \in 0..L /\ n \in 0..L /\ n \in 1..L + 1 /\ n + 1 \in 1..L + 1
        /\ (n + 1) - 1 = n
    BY <1>1, <1>5
  <2>2. f[n] = step[n][f[n - 1]] /\ f[n - 1] \in Int
    BY <1>4, <1>5, <2>1 DEF Iterates
  <2>3. f[n] = f[n - 1] + Drafting!LocalHeader(in[n]) + in[n].data
    BY <1>5, <2>2 DEF step
  <2>4. h[n] = f[n - 1] /\ h[n + 1] = f[n]
    BY <2>1
  <2> QED BY <2>3, <2>4
<1>6. h[1] = 0
  BY <1>1, <1>4 DEF Iterates
<1>7. h = [n \in 1..L + 1 |-> h[n]]
  OBVIOUS
<1>8. \A n \in 1..L + 1 :
        h[n] = IF n = 1 THEN 0
               ELSE h[n - 1] + Drafting!LocalHeader(in[n - 1]) + in[n - 1].data
  <2> SUFFICES ASSUME NEW n \in 1..L + 1, n # 1
               PROVE  h[n] = h[n - 1] + Drafting!LocalHeader(in[n - 1]) + in[n - 1].data
    BY <1>6
  <2>1. n - 1 \in 1..L /\ n - 1 + 1 = n
    BY <1>1
  <2> HIDE DEF h
  <2> QED BY <1>5, <2>1
<1> HIDE DEF h, L
<1>9. h = [n \in 1..L + 1 |->
            IF n = 1 THEN 0
            ELSE h[n - 1] + Drafting!LocalHeader(in[n - 1]) + in[n - 1].data]
  BY <1>7, <1>8, Zenon
<1>10. offset = [n \in 1..L + 1 |->
                  IF n = 1 THEN 0
                  ELSE offset[n - 1] + Drafting!LocalHeader(in[n - 1]) + in[n - 1].data]
  BY <1>9, Zenon DEF ArchiveOffsets, L
<1> HIDE DEF offset
<1>11. \A n \in 1..L + 1 :
        offset[n] = IF n = 1 THEN 0
               ELSE offset[n - 1] + Drafting!LocalHeader(in[n - 1]) + in[n - 1].data
  BY <1>10, Zenon
<1>12. SUFFICES ASSUME NEW n \in 1..L
                PROVE  archive.offsets[n] + Drafting!LocalHeader(in[n]) + in[n].data
                         = IF n = L THEN archive.directory ELSE archive.offsets[n + 1]
  BY <1>1 DEF L
<1>13. n + 1 \in 1..L + 1 /\ n + 1 # 1 /\ (n + 1) - 1 = n
  BY <1>1, <1>12
<1>14. offset[n + 1] = offset[n] + Drafting!LocalHeader(in[n]) + in[n].data
  BY <1>11, <1>13
<1>15. n # L => n + 1 \in DOMAIN in
  BY <1>1, <1>12
<1>16. archive.offsets[n] = offset[n] /\ (n # L => archive.offsets[n + 1] = offset[n + 1])
  BY <1>1, <1>2, <1>12, <1>15
<1> QED BY <1>2, <1>14, <1>16

-----------------------------------------------------------------------------
(* Dispatch: the attachments sent are those pinned, the recipients reachable. *)
LEMMA SentAreListed ==
  ASSUME NEW S, NEW attachments \in Seq(S), NEW id, NEW e,
         Delivery!ById(attachments, id) = <<e>>
  PROVE  e \in Items(attachments)
<1> DEFINE places == {a \in DOMAIN attachments : attachments[a].id = id}
           same == Picked(attachments, places)
<1>1. Delivery!ById(attachments, id) = IF same = <<>> THEN <<>> ELSE <<same[Len(same)]>>
  BY SamePicked, Zenon DEF Delivery!ById
<1>2. same \in Seq(S) /\ Items(same) = {attachments[n] : n \in places \cap DOMAIN attachments}
  BY PickedAre
<1> HIDE DEF same
<1>3. same # <<>> /\ <<same[Len(same)]>> = <<e>>
  <2>1. <<>> # <<e>>
    OBVIOUS
  <2> QED BY <1>1, <2>1
<1>4. Len(same) \in DOMAIN same /\ same[Len(same)] = e
  BY <1>2, <1>3
<1>5. e \in Items(same)
  BY <1>4 DEF Items
<1> QED BY <1>2, <1>5 DEF Items

LEMMA SizeOfItems ==
  ASSUME NEW S, NEW s \in Seq(S)
  PROVE  /\ IsFiniteSet(Items(s)) /\ Cardinality(Items(s)) \in Nat
         /\ Cardinality(Items(s)) <= Len(s)
<1>1. Len(s) \in Nat /\ DOMAIN s = 1..Len(s)
  OBVIOUS
<1>2. IsFiniteSet(1..Len(s)) /\ Cardinality(1..Len(s)) = Len(s)
  BY <1>1, FS_Interval
<1>3. /\ IsFiniteSet({s[n] : n \in 1..Len(s)})
      /\ Cardinality({s[n] : n \in 1..Len(s)}) <= Cardinality(1..Len(s))
  <2> DEFINE f == [n \in 1..Len(s) |-> s[n]]
  <2>1. f \in Surjection(1..Len(s), Items(s))
    BY <1>1 DEF Surjection, Items
  <2>2. IsFiniteSet(Items(s)) /\ Cardinality(Items(s)) <= Cardinality(1..Len(s))
    <3> HIDE DEF f
    <3> QED BY <1>2, <2>1, FS_Surjection
  <2> QED BY <1>1, <2>2 DEF Items
<1>4. Items(s) = {s[n] : n \in 1..Len(s)}
  BY <1>1 DEF Items
<1> QED BY <1>2, <1>3, <1>4, FS_CardinalityType

LEMMA AttachmentsMatch ==
  ASSUME NEW attachments, IsList(attachments), NEW expected, IsList(expected),
         Delivery!ValidateAttachmentChecksums(attachments, expected)
  PROVE  /\ Items(expected) \subseteq Items(attachments)
         /\ Cardinality(Items(expected)) = Len(expected) => Items(expected) = Items(attachments)
<1>1. attachments \in Seq(Items(attachments)) /\ expected \in Seq(Items(expected))
  BY DEF IsList, Items
<1>2. /\ Len(attachments) = Len(expected)
      /\ \A n \in DOMAIN expected :
           Delivery!ById(attachments, expected[n].id) = <<expected[n]>>
  BY DEF Delivery!ValidateAttachmentChecksums
<1>3. Items(expected) \subseteq Items(attachments)
  <2>1. \A n \in DOMAIN expected : expected[n] \in Items(attachments)
    BY <1>1, <1>2, SentAreListed
  <2> QED BY <2>1 DEF Items
<1>4. ASSUME Cardinality(Items(expected)) = Len(expected)
      PROVE  Items(expected) = Items(attachments)
  <2>1. /\ IsFiniteSet(Items(attachments)) /\ Cardinality(Items(attachments)) \in Nat
        /\ Cardinality(Items(attachments)) <= Len(attachments)
    BY <1>1, SizeOfItems
  <2>2. /\ Cardinality(Items(expected)) <= Cardinality(Items(attachments))
        /\ Cardinality(Items(expected)) = Cardinality(Items(attachments))
             => Items(expected) = Items(attachments)
    BY <1>3, <2>1, FS_Subset
  <2> QED BY <1>2, <1>4, <2>1, <2>2
<1> QED BY <1>3, <1>4

LEMMA RecipientsReachable ==
  ASSUME NEW recipients, IsList(recipients),
         Delivery!ValidateRecipientsForDispatch(recipients) = "OK"
  PROVE  /\ \E n \in DOMAIN recipients : recipients[n].required
         /\ \A n \in DOMAIN recipients : recipients[n].required => recipients[n].contact
<1> DEFINE places == {r \in DOMAIN recipients : recipients[r].required}
           required == Picked(recipients, places)
           gone == {r \in DOMAIN required : Delivery!RecipientGap(required[r]) # "OK"}
           gaps == Picked(required, gone)
<1>1. Delivery!ValidateRecipientsForDispatch(recipients)
        = IF recipients = <<>> THEN "NO_RECIPIENTS"
          ELSE IF required = <<>> THEN "NO_REQUIRED_RECIPIENT"
          ELSE IF gaps = <<>> THEN "OK" ELSE Delivery!RecipientGap(gaps[1])
  BY SamePicked, Zenon DEF Delivery!ValidateRecipientsForDispatch
<1>2. recipients \in Seq(Items(recipients))
  BY DEF IsList, Items
<1>3. /\ required \in Seq(Items(recipients))
      /\ Items(required) = {recipients[n] : n \in places}
  <2>1. places \cap DOMAIN recipients = places
    OBVIOUS
  <2> HIDE DEF places
  <2> QED BY <1>2, <2>1, PickedAre
<1> HIDE DEF required
<1>4. gaps \in Seq(Items(recipients)) /\ Items(gaps) = {required[n] : n \in gone}
  <2>1. gone \cap DOMAIN required = gone
    OBVIOUS
  <2> HIDE DEF gone
  <2> QED BY <1>3, <2>1, PickedAre
<1> HIDE DEF gaps
<1>5. required # <<>>
  BY <1>1
<1>6. gaps = <<>>
  <2>1. SUFFICES ASSUME gaps # <<>> PROVE FALSE
    OBVIOUS
  <2>2. Delivery!RecipientGap(gaps[1]) = "OK" 
    BY <1>1, <1>5, <2>1
  <2>3. gaps[1] \in Items(gaps)
    BY <1>4, <2>1, FirstItem
  <2> QED BY <1>4, <2>2, <2>3
<1>7. gone = {}
  BY <1>4, <1>6, NoItems
<1>8. \A n \in places : recipients[n].contact
  <2> SUFFICES ASSUME NEW n \in places PROVE recipients[n].contact
    OBVIOUS
  <2>1. PICK m \in DOMAIN required : required[m] = recipients[n]
    BY <1>3 DEF Items
  <2>2. Delivery!RecipientGap(recipients[n]) = "OK"
    BY <1>7, <2>1
  <2> QED BY <2>2 DEF Delivery!RecipientGap
<1>9. places # {}
  BY <1>3, <1>5, NoItems
<1> QED BY <1>8, <1>9

(* Retries.                                                                   *)
RetryFacts(i, sent) ==
  [authorizationValid |-> TRUE, artifactPresent |-> TRUE, checksumMismatch |-> FALSE,
   providerAccepted |-> sent.outcome \in {"ACCEPTED", "PARTIAL"},
   messageId |-> sent.messageId, failureCode |-> FailureCode(sent),
   timedOutAfterSubmit |-> sent.outcome = "TIMEOUT_AFTER_POSSIBLE_SUBMIT"]
LEMMA RetriesAreSafe ==
  ASSUME NEW i \in RetryInputs, NEW sent, sent = Delivery!SendMessage(i.mode, i.recipients),
         Delivery!ClassifyRetry(RetryFacts(i, sent)) = "SAFE_AUTO_BEFORE_SUBMISSION"
  PROVE  ~Delivery!MayHaveLeft(sent)
<1>1. i.mode \in Delivery!ProviderModes
  BY NoticeAssumption
<1>2. ~sent.messageId /\ sent.outcome # "TIMEOUT_AFTER_POSSIBLE_SUBMIT"
  BY DEF Delivery!ClassifyRetry, RetryFacts
<1>3. i.mode \in {"connection", "reject"}
  BY <1>1, <1>2 DEF Delivery!SendMessage, Delivery!ProviderModes
<1>4. ~sent.accepted /\ \A n \in DOMAIN sent.statuses : sent.statuses[n] \in {"FAILED", "REJECTED"}
  BY <1>3 DEF Delivery!SendMessage
<1> QED BY <1>2, <1>4 DEF Delivery!MayHaveLeft

(* Risk.                                                                      *)
LEMMA RiskIsSeen ==
  ASSUME NEW in, Delivery!ComputeDeliveryRisk(in) = "LOW"
  PROVE  ~in.authorizationExpired /\ ~in.missingVerifiedRecipient
<1> DEFINE levels == {1} \cup {i[1] : i \in Delivery!RiskIndicators(in)}
<1>1. levels \subseteq 1..4
  <2>1. \A c, code : \A n \in 1..4 : \A i \in Delivery!Indicator(c, n, code) : i[1] \in 1..4
    BY DEF Delivery!Indicator
  <2>2. \A i \in Delivery!RiskIndicators(in) : i[1] \in 1..4
    BY <2>1 DEF Delivery!RiskIndicators
  <2> QED BY <2>2
<1>2. in.authorizationExpired \/ in.missingVerifiedRecipient => 4 \in levels
  <2>1. in.authorizationExpired =>
          <<4, "AUTHORIZATION_EXPIRED">> \in Delivery!RiskIndicators(in)
    BY DEF Delivery!RiskIndicators, Delivery!Indicator
  <2>2. in.missingVerifiedRecipient =>
          <<4, "MISSING_VERIFIED_RECIPIENT">> \in Delivery!RiskIndicators(in)
    BY DEF Delivery!RiskIndicators, Delivery!Indicator
  <2> QED BY <2>1, <2>2
<1>3. Delivery!ComputeDeliveryRisk(in) = Delivery!RiskLevels[Delivery!Max(levels)]
  BY DEF Delivery!ComputeDeliveryRisk
<1> HIDE DEF levels
<1>4. ASSUME 4 \in levels PROVE FALSE
  <2>1. Delivery!Max(levels) = 4
    <3>1. \A y \in levels : 4 >= y
      BY <1>1
    <3>2. \A x \in levels : (\A y \in levels : x >= y) => x = 4
      BY <1>1, <1>4
    <3>3. Delivery!Max(levels) = CHOOSE x \in levels : \A y \in levels : x >= y
      BY Zenon DEF Delivery!Max
    <3> QED BY <1>4, <3>1, <3>2, <3>3, Zenon
  <2>2. Delivery!ComputeDeliveryRisk(in) = "CRITICAL"
    BY <1>3, <2>1 DEF Delivery!RiskLevels
  <2> QED BY <2>2
<1> QED BY <1>2, <1>4

(* Deemed receipt.                                                            *)
DeemedCursor(sentAt, worked) ==
  CHOOSE g : g = [guard \in 0..Delivery!LookupGuard |->
    IF guard = 0 THEN sentAt + 1
    ELSE LET at == g[guard - 1] IN IF at \in worked THEN at ELSE at + 1]
LEMMA CursorMoves ==
  ASSUME NEW sentAt \in Int, NEW worked
  PROVE  /\ DeemedCursor(sentAt, worked)[0] = sentAt + 1
         /\ \A n \in 1..14 :
              LET at == DeemedCursor(sentAt, worked)[n - 1]
              IN /\ at \in Int
                 /\ DeemedCursor(sentAt, worked)[n] = IF at \in worked THEN at ELSE at + 1
<1> DEFINE cursor == DeemedCursor(sentAt, worked)
           Move(at) == IF at \in worked THEN at ELSE at + 1
           step == [n \in 1..14 |-> [at \in Int |-> Move(at)]]
<1>1. step \in Steps(14, Int) /\ sentAt + 1 \in Int
  BY DEF Steps
<1> HIDE DEF step
<1>2. PICK f : Iterates(f, 14, Int, sentAt + 1, step)
  BY <1>1, Iteration
<1>3. f[0] = sentAt + 1 /\ \A n \in 1..14 : f[n - 1] \in Int /\ f[n] = Move(f[n - 1])
  <2>1. ASSUME NEW n \in 1..14 PROVE f[n - 1] \in Int /\ f[n] = Move(f[n - 1])
    <3>1. n - 1 \in 0..14
      OBVIOUS
    <3>2. f[n - 1] \in Int /\ f[n] = step[n][f[n - 1]]
      BY <1>2, <2>1, <3>1 DEF Iterates
    <3> QED BY <2>1, <3>2 DEF step
  <2> QED BY <1>2, <2>1 DEF Iterates
<1>4. f = [n \in 0..14 |-> f[n]]
  BY <1>2 DEF Iterates
<1>5. \A n \in 0..14 : f[n] = IF n = 0 THEN sentAt + 1 ELSE Move(f[n - 1])
  <2>1. \A n \in 0..14 : n # 0 => n \in 1..14
    OBVIOUS
  <2> QED BY <1>3, <2>1, Zenon
<1>6. f = [n \in 0..14 |-> IF n = 0 THEN sentAt + 1 ELSE Move(f[n - 1])]
  BY <1>4, <1>5, Zenon
<1>7. cursor = [n \in 0..14 |-> IF n = 0 THEN sentAt + 1 ELSE Move(cursor[n - 1])]
  BY <1>6, Zenon DEF DeemedCursor, Delivery!LookupGuard
<1> HIDE DEF cursor
<1>8. \A n \in 0..14 : cursor[n] = IF n = 0 THEN sentAt + 1 ELSE Move(cursor[n - 1])
  BY <1>7, Zenon
<1> DEFINE T == {n \in Nat : n <= 14 => cursor[n] \in Int}
<1>9. \A n \in 0..14 : cursor[n] \in Int
  <2>1. 0 \in T
    BY <1>8
  <2>2. ASSUME NEW n \in Nat, n \in T PROVE n + 1 \in T
    <3>1. n + 1 <= 14 => n + 1 \in 0..14 /\ n + 1 # 0 /\ (n + 1) - 1 = n /\ cursor[n] \in Int
      BY <2>2
    <3> QED BY <1>8, <3>1
  <2>3. \A n \in Nat : n \in T
    <3> HIDE DEF T
    <3> QED BY <2>1, <2>2, SetInduction
  <2> QED BY <2>3
<1> QED BY <1>8, <1>9 DEF cursor

LEMMA ReceiptIsFirst ==
  ASSUME NEW i \in ReceiptInputs, i.rule = "NEXT_WORKING_DAY", NEW advice,
         advice = Delivery!AssessDeemedReceipt(i.rule, i.sentAt, i.deliveredAt,
                                               i.postalDays, i.worked),
         advice.at # None
  PROVE  /\ advice.at > i.sentAt /\ advice.at \in i.worked
         /\ \A day \in i.sentAt + 1 .. advice.at - 1 : day \notin i.worked
<1> DEFINE sentAt == i.sentAt
           worked == i.worked
           cursor == DeemedCursor(sentAt, worked)
<1>1. sentAt \in Int
  <2>1. sentAt \in Int \cup {None}
    BY NoticeAssumption
  <2>2. sentAt # None
    BY DEF Delivery!AssessDeemedReceipt, Delivery!Advice
  <2> QED BY <2>1, <2>2
<1>2. advice = Delivery!NextWorkingDay(sentAt, worked)
  BY <1>1, NoneAssumption DEF Delivery!AssessDeemedReceipt
<1>3. Delivery!NextWorkingDay(sentAt, worked)
        = IF cursor[14] = sentAt + 1 + 14
          THEN Delivery!Advice(None, "WORKING_DAY_LOOKUP_FAILED")
          ELSE Delivery!Advice(cursor[14], "REQUIRES_HUMAN_REVIEW")
  BY Zenon DEF Delivery!NextWorkingDay, DeemedCursor, Delivery!LookupGuard
<1> HIDE DEF cursor, sentAt, worked
<1>4. cursor[14] # sentAt + 1 + 14 /\ advice.at = cursor[14]
  BY <1>2, <1>3 DEF Delivery!Advice
<1>5. /\ cursor[0] = sentAt + 1
      /\ \A n \in 1..14 :
           /\ cursor[n - 1] \in Int
           /\ cursor[n] = IF cursor[n - 1] \in worked THEN cursor[n - 1] ELSE cursor[n - 1] + 1
  BY <1>1, CursorMoves DEF cursor
<1> DEFINE So(at, n) == /\ at \in Int /\ at > sentAt
                        /\ \A day \in sentAt + 1 .. at - 1 : day \notin worked
                        /\ at \in worked \/ at = sentAt + 1 + n
           T == {n \in Nat : n <= 14 => So(cursor[n], n)}
<1>6. 0 \in T
  BY <1>1, <1>5
<1>7. ASSUME NEW n \in Nat, n \in T PROVE n + 1 \in T
  <2>1. SUFFICES ASSUME n + 1 <= 14 PROVE So(cursor[n + 1], n + 1)
    OBVIOUS
  <2>2. So(cursor[n], n)
    BY <1>7, <2>1
  <2>3. cursor[n + 1] = IF cursor[n] \in worked THEN cursor[n] ELSE cursor[n] + 1
    <3>1. n + 1 \in 1..14 /\ (n + 1) - 1 = n
      BY <2>1
    <3> QED BY <1>5, <3>1
  <2>4. CASE cursor[n] \in worked
    BY <2>2, <2>3, <2>4
  <2>5. CASE cursor[n] \notin worked
    <3>1. cursor[n + 1] = cursor[n] + 1 /\ cursor[n] = sentAt + 1 + n
      BY <2>2, <2>3, <2>5
    <3>2. \A day \in sentAt + 1 .. cursor[n] : day \notin worked
      BY <1>1, <2>2, <2>5
    <3> QED BY <1>1, <2>2, <3>1, <3>2
  <2> QED BY <2>4, <2>5
<1>8. So(cursor[14], 14)
  <2>1. 14 \in T
    <3> HIDE DEF T
    <3> QED BY <1>6, <1>7, SetInduction
  <2> QED BY <2>1
<1> QED BY <1>4, <1>8 DEF sentAt, worked

-----------------------------------------------------------------------------
\* What the notice rules answer for one input of each kind; every answer in the
\* state is the one computed this way.
DraftAnswer(in) ==
  [draft  |-> Drafting!AssembleDeterministicDraft(in),
   export |-> Drafting!ExportApprovedNotice(Drafting!AssembleDeterministicDraft(in))]
DispatchAnswer(in) ==
  [cover       |-> Delivery!ValidateCoverMessage(in.cover),
   recipients  |-> Delivery!ValidateRecipientsForDispatch(in.recipients),
   attachments |-> Delivery!ValidateAttachmentChecksums(in.attachments, in.expected)]
RetryAnswer(in) ==
  LET sent == Delivery!SendMessage(in.mode, in.recipients)
  IN [sent |-> sent, retry |-> Delivery!ClassifyRetry(RetryFacts(in, sent))]
NoticesComputed ==
  /\ Computed("draft", DraftInputs, DraftAnswer(input))
  /\ Computed("sections", SectionInputs,
              Drafting!ValidateAiDraftOutput(input.sections, input.known))
  /\ Computed("evidence", EvidenceInputs, Drafting!AssessEvidenceCompleteness(input, TRUE))
  /\ Computed("validation", DraftChecks, Drafting!ValidateNoticeDraft(input))
  /\ Computed("page", PageInputs, Drafting!BuildSimplePdf(input))
  /\ Computed("dispatch", DispatchChecks, DispatchAnswer(input))
  /\ Computed("archive", ArchiveInputs, Drafting!ZipStore(input))
  /\ Computed("retry", RetryInputs, RetryAnswer(input))
  /\ Computed("receipt", ReceiptInputs,
              Delivery!AssessDeemedReceipt(input.rule, input.sentAt, input.deliveredAt,
                                           input.postalDays, input.worked))
  /\ Computed("risk", RiskInputs, Delivery!ComputeDeliveryRisk(input))

LEMMA NoticesAreComputed == Spec => []NoticesComputed
<1>1. Init => NoticesComputed
  BY DEF Init, Ask, NoticesComputed, Computed
<1>2. NoticesComputed /\ [Next]_vars => NoticesComputed'
  <2> SUFFICES ASSUME NoticesComputed, [Next]_vars PROVE NoticesComputed'
    OBVIOUS
  <2> USE DEF NoticesComputed, Computed, Answer
  <2>1. CASE Draft
    BY <2>1 DEF Draft, DraftAnswer
  <2>2. CASE ValidateAiSections
    BY <2>2 DEF ValidateAiSections
  <2>3. CASE AssessEvidence
    BY <2>3 DEF AssessEvidence
  <2>4. CASE ValidateDraft
    BY <2>4 DEF ValidateDraft
  <2>5. CASE BuildPage
    BY <2>5 DEF BuildPage
  <2>6. CASE CheckDispatch
    BY <2>6 DEF CheckDispatch, DispatchAnswer
  <2>7. CASE BuildArchive
    BY <2>7 DEF BuildArchive
  <2>8. CASE SendAndClassify
    <3>1. SendAndClassify => Answer("retry", RetryAnswer(input))
      BY Zenon DEF SendAndClassify, RetryAnswer, RetryFacts
    <3>2. subject = "retry" /\ answer' = RetryAnswer(input) /\ UNCHANGED <<subject, input>>
      BY <2>8, <3>1
    <3> QED BY <3>2 DEF RetryAnswer
  <2>9. CASE AssessReceipt
    BY <2>9 DEF AssessReceipt
  <2>10. CASE AssessRisk
    BY <2>10 DEF AssessRisk
  <2>11. CASE UNCHANGED vars
    <3>1. subject' = subject /\ input' = input /\ answer' = answer
      BY <2>11 DEF vars
    <3>2. Computed("draft", DraftInputs, DraftAnswer(input))'
      BY <3>1
    <3>3. Computed("sections", SectionInputs,
                   Drafting!ValidateAiDraftOutput(input.sections, input.known))'
      BY <3>1
    <3>4. Computed("evidence", EvidenceInputs,
                   Drafting!AssessEvidenceCompleteness(input, TRUE))'
      BY <3>1
    <3>5. Computed("validation", DraftChecks, Drafting!ValidateNoticeDraft(input))'
      BY <3>1
    <3>6. Computed("page", PageInputs, Drafting!BuildSimplePdf(input))'
      BY <3>1
    <3>7. Computed("dispatch", DispatchChecks, DispatchAnswer(input))'
      BY <3>1
    <3>8. Computed("archive", ArchiveInputs, Drafting!ZipStore(input))'
      BY <3>1
    <3>9. Computed("retry", RetryInputs, RetryAnswer(input))'
      BY <3>1
    <3>10. Computed("receipt", ReceiptInputs,
                   Delivery!AssessDeemedReceipt(input.rule, input.sentAt, input.deliveredAt,
                                           input.postalDays, input.worked))'
      BY <3>1
    <3>11. Computed("risk", RiskInputs, Delivery!ComputeDeliveryRisk(input))'
      BY <3>1
    <3> QED BY <3>2, <3>3, <3>4, <3>5, <3>6, <3>7, <3>8, <3>9, <3>10, <3>11, Zenon
  <2>12. CASE \/ CalculateDeadline \/ MatchScope \/ ListPages \/ ValidateWebhook
              \/ EvaluateAlerts
    BY <2>12 DEF CalculateDeadline, MatchScope, ListPages, ValidateWebhook, EvaluateAlerts
  <2>13. CASE \/ Escalate \/ Detect \/ CheckSuggestion \/ ValidateConfig \/ AllowDeployment
    BY <2>13 DEF Escalate, Detect, CheckSuggestion, ValidateConfig, AllowDeployment
  <2>14. CASE \/ AssessReadiness \/ SendAlerts \/ CheckManifest \/ ResolveEnvironment
              \/ CheckLimits
    BY <2>14 DEF AssessReadiness, SendAlerts, CheckManifest, ResolveEnvironment, CheckLimits
  <2> QED BY <2>1, <2>2, <2>3, <2>4, <2>5, <2>6, <2>7, <2>8, <2>9, <2>10, <2>11, <2>12,
             <2>13, <2>14 DEF Next
<1> QED BY <1>1, <1>2, PTL DEF Spec

(* The parts of the property that have definitions of their own.              *)
DraftHolds(in, draft, export) ==
  LET approved == {f.id : f \in {in.facts[n] : n \in
                     {m \in DOMAIN in.facts :
                        /\ in.facts[m].approvedForDrafting
                        /\ in.facts[m].verificationStatus
                             \in {"EVIDENCE_BACKED", "HUMAN_CONFIRMED"}}}}
  IN /\ \A n \in DOMAIN draft : draft[n].section.factIds \subseteq approved
     /\ \A n \in DOMAIN export.text : ~export.text[n].section.internalText
     /\ export.ok =>
          {s.sequence : s \in {export.text[n] : n \in DOMAIN export.text}}
            = {s.sequence : s \in {draft[n] : n \in
                {m \in DOMAIN draft : ~draft[m].section.internalOnly}}}
AttachmentsHold(in) ==
  LET entries(s) == {s[n] : n \in DOMAIN s}
  IN /\ entries(in.expected) \subseteq entries(in.attachments)
     /\ Cardinality(entries(in.expected)) = Len(in.expected) =>
          entries(in.expected) = entries(in.attachments)

(* What leaves was approved, and nothing leaves twice (notice-drafting and    *)
(* notice-delivery), for facts, evidence, recipients, attachments and lines   *)
(* of any number: within what the checks look at, which for the dates of AI   *)
(* text is where both the event date and the deadline are approved, and for a *)
(* page is 40 lines of 90 characters, '?' standing for what is not ASCII.     *)
THEOREM NoticesKeepLeavingOnce == Spec => []NoticesLeaveOnceAsApproved
<1>1. NoticesComputed => NoticesLeaveOnceAsApproved
  <2> SUFFICES ASSUME NoticesComputed PROVE NoticesLeaveOnceAsApproved
    OBVIOUS
  <2> USE DEF Answered
  <2>1. ASSUME Answered("draft")
        PROVE  DraftHolds(input, answer.draft, answer.export)
    <3>1. input \in DraftInputs /\ answer = DraftAnswer(input)
      BY <2>1 DEF NoticesComputed, Computed
    <3>2. PICK draft : draft = Drafting!AssembleDeterministicDraft(input)
      OBVIOUS
    <3>3. PICK export : export = Drafting!ExportApprovedNotice(draft)
      OBVIOUS
    <3>4. answer.draft = draft /\ answer.export = export
      BY <3>1, <3>2, <3>3 DEF DraftAnswer
    <3>5. IsList(input.facts)
      BY <3>1, NoticeAssumption
    <3>6. /\ draft \in Seq(Items(draft))
          /\ \A n \in DOMAIN draft : draft[n].section.factIds \subseteq ApprovedIds(input.facts)
      BY <3>2, <3>5, DraftsRest
    <3>7. /\ \A n \in DOMAIN export.text : ~export.text[n].section.internalText
          /\ export.ok =>
               {s.sequence : s \in Items(export.text)}
                 = {s.sequence : s \in {draft[n] : n \in
                     {m \in DOMAIN draft : ~draft[m].section.internalOnly}}}
      BY <3>3, <3>6, ExportsAre
    <3>8. \A n \in DOMAIN draft : draft[n].section.factIds \subseteq ApprovedIds(input.facts)
      BY <3>6
    <3>9. DraftHolds(input, draft, export)
      BY <3>7, <3>8, Zenon DEF DraftHolds, ApprovedIds, Approved, Items
    <3> QED BY <3>4, <3>9
  <2>2. ASSUME Answered("sections"), answer = {}
        PROVE  \A s \in input.sections :
                 /\ s.sources \subseteq input.known.allowedSources /\ s.forbidden = {}
                 /\ input.known.eventDate # None /\ input.known.deadlineDate # None =>
                      s.dates \subseteq input.known.approvedDates
                                         \cup {input.known.eventDate, input.known.deadlineDate}
    <3>1. Drafting!ValidateAiDraftOutput(input.sections, input.known) = {}
      BY <2>2 DEF NoticesComputed, Computed
    <3> QED BY <3>1, CleanSections
  <2>3. ASSUME Answered("evidence"), answer = "READY"
        PROVE  \A n \in DOMAIN input :
                 /\ Drafting!Mandatory(input[n]) =>
                      input[n].satisfactionStatus \notin
                        {"MISSING", "PARTIAL", "DISPUTED", "WAIVED_BY_REVIEWER"}
                 /\ input[n].satisfactionStatus = "WAIVED_BY_REVIEWER" => input[n].reasoned
    <3>1. Drafting!AssessEvidenceCompleteness(input, TRUE) = "READY"
      BY <2>3 DEF NoticesComputed, Computed
    <3> QED BY <3>1, ReadyEvidence
  <2>4. ASSUME Answered("validation"), answer = {}
        PROVE  /\ input.calculationStatus = "VERIFIED" /\ ~input.supersededCalculation
               /\ \E r \in input.recipients : ~r.copiedRecipient
               /\ \A r \in input.recipients :
                    r.copiedRecipient \/ (r.verificationStatus = "VERIFIED" /\ r.hasContact)
               /\ \/ input.completenessStatus \in {"READY", "CONDITIONALLY_READY"}
                  \/ input.exceptions > 0
    <3>1. input \in DraftChecks /\ Drafting!ValidateNoticeDraft(input) = {}
      BY <2>4 DEF NoticesComputed, Computed
    <3> QED BY <3>1, CleanDrafts
  <2>5. ASSUME Answered("page") PROVE PageHolds(input, answer)
    <3>1. input \in PageInputs /\ answer = Drafting!BuildSimplePdf(input)
      BY <2>5 DEF NoticesComputed, Computed
    <3> QED BY <3>1, PagesShow
  <2>6. ASSUME Answered("dispatch")
        PROVE  /\ answer.attachments => AttachmentsHold(input)
               /\ answer.recipients = "OK" =>
                    /\ \E n \in DOMAIN input.recipients : input.recipients[n].required
                    /\ \A n \in DOMAIN input.recipients :
                         input.recipients[n].required => input.recipients[n].contact
    <3>1. input \in DispatchChecks /\ answer = DispatchAnswer(input)
      BY <2>6 DEF NoticesComputed, Computed
    <3>2. /\ answer.attachments
               = Delivery!ValidateAttachmentChecksums(input.attachments, input.expected)
          /\ answer.recipients = Delivery!ValidateRecipientsForDispatch(input.recipients)
      BY <3>1 DEF DispatchAnswer
    <3>3. IsList(input.recipients) /\ IsList(input.attachments) /\ IsList(input.expected)
      BY <3>1, NoticeAssumption
    <3>4. answer.attachments => AttachmentsHold(input)
      <4>1. answer.attachments =>
              /\ Items(input.expected) \subseteq Items(input.attachments)
              /\ Cardinality(Items(input.expected)) = Len(input.expected) =>
                   Items(input.expected) = Items(input.attachments)
        BY <3>2, <3>3, AttachmentsMatch
      <4> QED BY <4>1, Zenon DEF AttachmentsHold, Items
    <3> QED BY <3>2, <3>3, <3>4, RecipientsReachable
  <2>7. ASSUME Answered("archive")
        PROVE  \A n \in DOMAIN input :
                 answer.offsets[n] + Drafting!LocalHeader(input[n]) + input[n].data
                   = IF n = Len(input) THEN answer.directory ELSE answer.offsets[n + 1]
    <3>1. input \in ArchiveInputs /\ answer = Drafting!ZipStore(input)
      BY <2>7 DEF NoticesComputed, Computed
    <3> QED BY <3>1, ArchivesFollow
  <2>8. ASSUME Answered("retry"), answer.retry = "SAFE_AUTO_BEFORE_SUBMISSION"
        PROVE  ~Delivery!MayHaveLeft(answer.sent)
    <3>1. input \in RetryInputs /\ answer = RetryAnswer(input)
      BY <2>8 DEF NoticesComputed, Computed
    <3>2. PICK sent : sent = Delivery!SendMessage(input.mode, input.recipients)
      OBVIOUS
    <3>3. answer = [sent |-> sent, retry |-> Delivery!ClassifyRetry(RetryFacts(input, sent))]
      BY <3>1, <3>2, Zenon DEF RetryAnswer
    <3>4. answer.sent = sent /\ answer.retry = Delivery!ClassifyRetry(RetryFacts(input, sent))
      BY <3>3
    <3> QED BY <2>8, <3>1, <3>2, <3>4, RetriesAreSafe
  <2>9. ASSUME Answered("receipt"), input.rule = "NEXT_WORKING_DAY", answer.at # None
        PROVE  /\ answer.at > input.sentAt /\ answer.at \in input.worked
               /\ \A day \in input.sentAt + 1 .. answer.at - 1 : day \notin input.worked
    <3>1. /\ input \in ReceiptInputs
          /\ answer = Delivery!AssessDeemedReceipt(input.rule, input.sentAt, input.deliveredAt,
                                                   input.postalDays, input.worked)
      BY <2>9 DEF NoticesComputed, Computed
    <3> QED BY <2>9, <3>1, ReceiptIsFirst
  <2>10. ASSUME Answered("risk"), answer = "LOW"
         PROVE  ~input.authorizationExpired /\ ~input.missingVerifiedRecipient
    <3>1. Delivery!ComputeDeliveryRisk(input) = "LOW"
      BY <2>10 DEF NoticesComputed, Computed
    <3> QED BY <3>1, RiskIsSeen
  <2> HIDE DEF Answered
  <2> QED BY <2>1, <2>2, <2>3, <2>4, <2>5, <2>6, <2>7, <2>8, <2>9, <2>10, Zenon
          DEF NoticesLeaveOnceAsApproved, DraftHolds, PageHolds, AttachmentsHold
<1> QED BY <1>1, NoticesAreComputed, PTL
=============================================================================
