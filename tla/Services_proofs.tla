---------------------------- MODULE Services_proofs ----------------------------
(* Theorems about Services for any numbers of handlers, users, projects and   *)
(* rows.                                                                      *)
(*                                                                            *)
(* Each service has an invariant of its own, of three parts: facts about its  *)
(* rows, what a handler knows of the rows it has read whatever has happened   *)
(* since (...Shaped), and what is still so while no two handlers have         *)
(* overlapped (...Fresh).  The services that are not busy are as they began.  *)
EXTENDS Services, FiniteSetTheorems, SequenceTheorems, TLAPS

OneBusy == \A g, h \in Handlers : Busy(g) /\ Busy(h) => g = h
OneAtATime == TransactionsTypeOK /\ (~raced => OneBusy)

-----------------------------------------------------------------------------
(* Rate limits: the requests Redis admitted in this window, with the ones it  *)
(* has counted and will admit, are no more than it has counted.               *)
Pending == {h \in Handlers : Busy(h) /\ work[h].number <= Limit}
RateLimitInv ==
  /\ RateLimitTypeOK /\ LimitsHold
  /\ admitted.memory <= bucket
  /\ IsFiniteSet(Pending)
  /\ admitted.redis + Cardinality(Pending) <= counter.count
  /\ admitted.redis + Cardinality(Pending) <= Limit

(* Connectors: a sync accounts for what its checkpoint will pass over.        *)
Accounted(record) == document[record] > 0 \/ record \in dropped
Plans == [from : 0 .. MaxRecords, filter : BOOLEAN, upTo : 0 .. MaxRecords,
          imports : SUBSET Records, drops : SUBSET Records]
ConnectorShaped(h) ==
  /\ Doing(h, "approve_scope") =>
       scope.status # "ABSENT" /\ work[h].user \in Users \ {scope.by}
  /\ Doing(h, "sync") =>
       /\ scope.status = "ACTIVE"
       /\ \A record \in Records :
            record <= plan[h].from /\ KindOf[record] = "in_scope" => Accounted(record)
  /\ Doing(h, "import") =>
       /\ scope.status = "ACTIVE"
       /\ \A record \in plan[h].imports : KindOf[record] # "excluded"
       /\ \A record \in Records :
            record <= plan[h].upTo /\ KindOf[record] = "in_scope" =>
              Accounted(record) \/ record \in plan[h].imports \cup plan[h].drops
ConnectorFresh(h) ==
  Doing(h, "import") => \A record \in plan[h].imports : document[record] = 0
ConnectorInv ==
  /\ ConnectorTypeOK /\ SyncIsAccounted
  /\ plan \in [Handlers -> Plans]
  /\ scope.status = "ACTIVE" => scope.approver \notin {None, scope.by}
  /\ \A h \in Handlers : ConnectorShaped(h)
  /\ ~raced => \A h \in Handlers : ConnectorFresh(h)

(* Notice records: without overlap the attachments are the first ids.         *)
RecordsShaped(h) ==
  /\ Doing(h, "answer") => work[h].id \in Questions
  /\ Doing(h, "verify_answer") => work[h].id \in Questions
RecordsFresh(h) ==
  /\ Doing(h, "verify_answer") => question[work[h].id].answer = work[h].number
  /\ Doing(h, "attach") =>
       /\ work[h].number # 0
       /\ \A a \in Attachments : attachment[a] # NoAttachment <=> a < work[h].number
AttachmentsAreDense == \A a, b \in Attachments :
  attachment[a] # NoAttachment /\ b < a => attachment[b] # NoAttachment
RecordsInv ==
  /\ RecordsTypeOK /\ PapersAreReviewed
  /\ \A h \in Handlers : RecordsShaped(h)
  /\ ~raced => AttachmentsAreDense /\ \A h \in Handlers : RecordsFresh(h)

(* Platform: who approves something did not ask for it.                       *)
PlatformShaped(h) ==
  /\ Doing(h, "accept_invitation") => work[h].id \in Invitations
  /\ Doing(h, "revoke_invitation") => work[h].id \in Invitations
  /\ Doing(h, "approve_support") =>
       /\ work[h].id \in Requests /\ request[work[h].id] # NoRequest
       /\ work[h].user \in Users \ {request[work[h].id].operator}
  /\ Doing(h, "update_item") => work[h].id \in Items /\ work[h].text \in ItemStatuses
  /\ Doing(h, "approve_provider") =>
       /\ work[h].text \in {"APPROVED_FOR_PILOT", "ENABLED"}
       /\ provider.status # "ABSENT" /\ work[h].user \in Users \ {provider.by}
PlatformFresh(h) ==
  /\ Doing(h, "revoke_invitation") => invitation[work[h].id].status = "INVITED"
  /\ Doing(h, "approve_support") => request[work[h].id].status = "REQUESTED"
  /\ Doing(h, "update_item") =>
       (work[h].number = 1 <=> Ready([item EXCEPT ![work[h].id] = work[h].text]))
  /\ Doing(h, "activate_pilot") => Ready(item)
PlatformInv ==
  /\ PlatformTypeOK /\ GrantsAreBacked
  /\ \A h \in Handlers : PlatformShaped(h)
  /\ ~raced => \A h \in Handlers : PlatformFresh(h)

(* Operations: an alert a handler changes is there.                           *)
OperationsShaped(h) ==
  /\ Doing(h, "evaluate") =>
       /\ evaluation[h].project \in Projects
       /\ \A key \in evaluation[h].keys : key.project \in {None, evaluation[h].project}
  /\ (Doing(h, "acknowledge") \/ Doing(h, "assign")) =>
       /\ \E key \in Keys : /\ evaluation[h].keys = {key}
                            /\ work[h].id \in DOMAIN alert[key]
       /\ work[h].text \in AlertStatuses
  /\ Doing(h, "assign_task") => work[h].id \in Tasks /\ work[h].text \in TaskStatuses
OperationsFresh(h) ==
  /\ Doing(h, "evaluate") => \A key \in evaluation[h].keys : alert[key] = <<>>
  /\ Doing(h, "acknowledge") =>
       \A key \in evaluation[h].keys : alert[key][work[h].id].status = "OPEN"
  /\ Doing(h, "assign") =>
       \A key \in evaluation[h].keys : alert[key][work[h].id].status = work[h].text
  /\ Doing(h, "assign_task") => (task[work[h].id] = "COMPLETED" => work[h].text = "COMPLETED")
OperationsInv ==
  /\ OperationsTypeOK /\ OneAlertPerCondition
  /\ alert \in [Keys -> Seq([project : Projects, status : AlertStatuses])]
  /\ evaluation \in [Handlers -> [project : Projects \cup {None}, keys : SUBSET Keys]]
  /\ \A h \in Handlers : OperationsShaped(h)
  /\ ~raced => \A h \in Handlers : OperationsFresh(h)

(* Contract configuration: a row keeps its author, and without overlap only a *)
(* revision that is or was approved has snapshots.                            *)
ContractShaped(h) ==
  /\ Doing(h, "correct_clause") => work[h].id \in Analyses /\ work[h].number <= MaxCorrections
  /\ Doing(h, "review_rule") =>
       work[h].id \in Analyses /\ work[h].text \in {"VERIFIED", "APPROVED", "REJECTED"}
  /\ Doing(h, "submit_configuration") => work[h].id \in Configurations /\ work[h].user \in Users
  /\ Doing(h, "approve_configuration") =>
       /\ work[h].id \in Configurations /\ configuration[work[h].id] # NoConfiguration
       /\ work[h].user \in Users \ {configuration[work[h].id].by}
  /\ Doing(h, "request_changes") =>
       work[h].id \in Configurations /\ configuration[work[h].id] # NoConfiguration
  /\ Doing(h, "supersede") =>
       /\ work[h].id \in Configurations /\ configuration[work[h].id] # NoConfiguration
       /\ work[h].user \in Users
ContractFresh(h) ==
  /\ Doing(h, "approve_configuration") =>
       configuration[work[h].id].status \in {"IN_REVIEW", "CHANGES_REQUESTED"}
  /\ Doing(h, "request_changes") => configuration[work[h].id].status = "IN_REVIEW"
  /\ Doing(h, "supersede") => configuration[work[h].id].active
ContractInv ==
  /\ ContractTypeOK /\ ConfigurationIsReviewed
  /\ DOMAIN snapshot = Configurations
  /\ \A r \in Configurations : configuration[r] = NoConfiguration => snapshot[r] = {}
  /\ ~raced => \A r \in Configurations :
       snapshot[r] # {} => configuration[r].status \in {"APPROVED", "SUPERSEDED"}
  /\ \A h \in Handlers : ContractShaped(h)
  /\ ~raced => \A h \in Handlers : ContractFresh(h)

(* Projects: what was checked against the archived status still holds.        *)
ProjectShaped(h) ==
  /\ Doing(h, "update_project") =>
       work[h].text \in ProjectStatuses \cup {"none"} /\ work[h].user \in Users
  /\ Doing(h, "add_member") => work[h].text \in ProjectRoles /\ work[h].user \in Users
ProjectFresh(h) ==
  /\ Doing(h, "update_project") /\ projectStatus = "ARCHIVED" =>
       "project.archive" \in Capabilities(work[h].user)
  /\ Doing(h, "add_member") => projectStatus # "ARCHIVED"
ProjectInv ==
  /\ ProjectAccessTypeOK
  /\ \A h \in Handlers : ProjectShaped(h)
  /\ ~raced => \A h \in Handlers : ProjectFresh(h)

IInv ==
  /\ OneAtATime
  /\ busy \in Parts
  /\ IF busy = "contracts" THEN ContractInv ELSE ContractInit
  /\ IF busy = "connectors" THEN ConnectorInv ELSE ConnectorInit
  /\ IF busy = "operations" THEN OperationsInv ELSE OperationsInit
  /\ IF busy = "platform" THEN PlatformInv ELSE PlatformInit
  /\ IF busy = "notices" THEN RecordsInv ELSE RecordsInit
  /\ IF busy = "projects" THEN ProjectInv ELSE ProjectAccessInit
  /\ IF busy = "limits" THEN RateLimitInv ELSE RateLimitInit
-----------------------------------------------------------------------------
(* Transactions.  Without overlap a handler is alone when it begins, when it  *)
(* commits, and when a single-step handler is served.                         *)
LEMMA Begun ==
  ASSUME OneAtATime, NEW h \in Handlers, NEW op, op # "idle", NEW user \in Users \cup {None},
         NEW id \in Nat, NEW number \in Nat, NEW text, Begin(h, Work(op, user, id, number, text))
  PROVE  /\ OneAtATime'
         /\ work'[h] = Work(op, user, id, number, text)
         /\ \A g \in Handlers \ {h} : work'[g] = work[g]
         /\ ~Busy(h) /\ Busy(h)'
         /\ ~raced' => ~raced /\ \A g \in Handlers : ~Busy(g) /\ (g # h => ~Busy(g)')
<1>1. /\ work'[h] = Work(op, user, id, number, text)
      /\ \A g \in Handlers \ {h} : work'[g] = work[g]
      /\ ~Busy(h) /\ Busy(h)' /\ DOMAIN work' = Handlers
  BY DEF OneAtATime, TransactionsTypeOK, Begin, Busy, Work
<1>2. TransactionsTypeOK'
  <2>1. raced' \in BOOLEAN
    BY DEF OneAtATime, TransactionsTypeOK, Begin, Quiet
  <2> QED BY <1>1, <2>1 DEF OneAtATime, TransactionsTypeOK, Work
<1>3. ~raced' => ~raced /\ \A g \in Handlers : ~Busy(g) /\ (g # h => ~Busy(g)')
  BY <1>1 DEF Begin, Quiet, Busy
<1> QED BY <1>1, <1>2, <1>3 DEF OneAtATime, OneBusy

LEMMA Noted ==
  ASSUME OneAtATime, NEW h \in Handlers, NEW op, NEW user, NEW id, NEW number, NEW text,
         Begin(h, Work(op, user, id, number, text))
  PROVE  /\ work'[h].op = op /\ work'[h].user = user /\ work'[h].id = id
         /\ work'[h].number = number /\ work'[h].text = text
<1>1. work'[h] = Work(op, user, id, number, text)
  BY DEF OneAtATime, TransactionsTypeOK, Begin
<1> QED BY <1>1 DEF Work

LEMMA Ended ==
  ASSUME OneAtATime, NEW h \in Handlers, Busy(h), End(h)
  PROVE  /\ OneAtATime'
         /\ work'[h] = Idle /\ ~Busy(h)'
         /\ \A g \in Handlers \ {h} : work'[g] = work[g]
         /\ raced' = raced
         /\ ~raced => \A g \in Handlers : ~Busy(g)' /\ (g # h => ~Busy(g))
<1>1. /\ work'[h] = Idle /\ ~Busy(h)' /\ raced' = raced /\ DOMAIN work' = Handlers
      /\ \A g \in Handlers \ {h} : work'[g] = work[g]
  BY DEF OneAtATime, TransactionsTypeOK, End, Busy, Idle, Work
<1>2. TransactionsTypeOK'
  BY <1>1 DEF OneAtATime, TransactionsTypeOK, Idle, Work
<1>3. ~raced => \A g \in Handlers : ~Busy(g)' /\ (g # h => ~Busy(g))
  BY <1>1 DEF OneAtATime, OneBusy, Busy
<1> QED BY <1>1, <1>2, <1>3 DEF OneAtATime, OneBusy

LEMMA DoneAtOnce ==
  ASSUME OneAtATime, AtOnce
  PROVE  /\ OneAtATime' /\ work' = work
         /\ ~raced' => ~raced /\ \A g \in Handlers : ~Busy(g) /\ ~Busy(g)'
<1>1. TransactionsTypeOK'
  BY DEF OneAtATime, TransactionsTypeOK, AtOnce, Quiet
<1> QED BY <1>1 DEF OneAtATime, OneBusy, AtOnce, Quiet, Busy

(* A handler that goes on to its next step is still the only one.             *)
GoesOn(h, next) == work' = [work EXCEPT ![h] = next] /\ raced' = raced

LEMMA WentOn ==
  ASSUME OneAtATime, NEW h \in Handlers, Busy(h), NEW next, GoesOn(h, next), next.op # "idle",
         next.user \in Users \cup {None}, next.id \in Nat, next.number \in Nat
  PROVE  /\ OneAtATime'
         /\ work'[h] = next
         /\ \A g \in Handlers \ {h} : work'[g] = work[g]
         /\ Busy(h)'
         /\ ~raced => \A g \in Handlers \ {h} : ~Busy(g) /\ ~Busy(g)'
<1>1. /\ work'[h] = next
      /\ \A g \in Handlers \ {h} : work'[g] = work[g]
      /\ Busy(h)' /\ DOMAIN work' = Handlers
  BY DEF OneAtATime, TransactionsTypeOK, Busy, GoesOn
<1>2. TransactionsTypeOK' /\ raced' = raced
  BY <1>1 DEF OneAtATime, TransactionsTypeOK, GoesOn
<1>3. ~raced => \A g \in Handlers \ {h} : ~Busy(g) /\ ~Busy(g)'
  BY <1>1 DEF OneAtATime, OneBusy, Busy
<1> QED BY <1>1, <1>2, <1>3 DEF OneAtATime, OneBusy, Busy

-----------------------------------------------------------------------------
(* Rate limits.                                                               *)
(* Counting one more pending request, or one less.                            *)
LEMMA PendingGrows ==
  ASSUME NEW h \in Handlers, IsFiniteSet(Pending), h \notin Pending, Pending' = Pending \cup {h}
  PROVE  /\ IsFiniteSet(Pending)' /\ Cardinality(Pending) \in Nat
         /\ Cardinality(Pending)' = Cardinality(Pending) + 1
<1> DEFINE P == Pending
           Q == Pending'
<1>1. IsFiniteSet(P) /\ h \notin P /\ Q = P \cup {h}
  OBVIOUS
<1> HIDE DEF P, Q
<1>2. IsFiniteSet(Q) /\ Cardinality(Q) = Cardinality(P) + 1 /\ Cardinality(P) \in Nat
  BY <1>1, FS_AddElement, FS_CardinalityType
<1> QED BY <1>2 DEF P, Q

LEMMA PendingShrinks ==
  ASSUME NEW h \in Handlers, IsFiniteSet(Pending), Pending' = Pending \ {h}
  PROVE  /\ IsFiniteSet(Pending)' /\ Cardinality(Pending) \in Nat /\ Cardinality(Pending)' \in Nat
         /\ Cardinality(Pending)' = IF h \in Pending THEN Cardinality(Pending) - 1
                                    ELSE Cardinality(Pending)
<1> DEFINE P == Pending
           Q == Pending'
<1>1. IsFiniteSet(P) /\ Q = P \ {h}
  OBVIOUS
<1> HIDE DEF P, Q
<1>2. /\ IsFiniteSet(Q) /\ Cardinality(P) \in Nat /\ Cardinality(Q) \in Nat
      /\ Cardinality(Q) = IF h \in P THEN Cardinality(P) - 1 ELSE Cardinality(P)
  BY <1>1, FS_RemoveElement, FS_CardinalityType
<1> QED BY <1>2 DEF P, Q

LEMMA RateLimitBegins ==
  ASSUME RateLimitInit
  PROVE  RateLimitTypeOK /\ LimitsHold /\ (Quiet => RateLimitInv)
<1>1. /\ counter = [count |-> 0, expires |-> FALSE] /\ bucket = 0 /\ cut = FALSE
      /\ admitted = [redis |-> 0, memory |-> 0] /\ failsClosed \in BOOLEAN
  BY DEF RateLimitInit, Counter, Admitted
<1>a. MaxCount \in Nat
  BY RateLimitAssumption DEF MaxCount
<1>b. RateLimitTypeOK
  <2>1. 0 \in 0 .. MaxCount
    BY <1>a
  <2>2. counter \in [count : 0 .. MaxCount, expires : BOOLEAN]
    BY <1>1, <2>1
  <2>3. admitted \in [redis : Nat, memory : Nat]
    BY <1>1
  <2>4. cut \in BOOLEAN /\ failsClosed \in BOOLEAN /\ bucket \in 0 .. MaxCount
    BY <1>1, <2>1
  <2> QED BY <2>2, <2>3, <2>4 DEF RateLimitTypeOK
<1>2. Quiet => Pending = {}
  BY DEF Pending, Quiet
<1>3. IsFiniteSet({}) /\ Cardinality({}) = 0
  BY FS_EmptySet
<1> QED BY <1>1, <1>b, <1>2, <1>3, RateLimitAssumption DEF RateLimitInv, LimitsHold

LEMMA RateLimitKeeps ==
  ASSUME OneAtATime, RateLimitInv, RateLimitNext
  PROVE  OneAtATime' /\ RateLimitInv'
<1> USE RateLimitAssumption, TransactionsAssumption
<1>1. /\ failsClosed \in BOOLEAN /\ cut \in BOOLEAN
      /\ counter.count \in 0 .. MaxCount /\ counter.expires \in BOOLEAN
      /\ bucket \in 0 .. MaxCount
      /\ admitted.redis \in Nat /\ admitted.memory \in Nat
      /\ Limit \in Nat /\ MaxCount \in Nat
      /\ \A h \in Handlers : work[h].number \in Nat
  BY DEF RateLimitInv, RateLimitTypeOK, MaxCount, OneAtATime, TransactionsTypeOK
<1>2. /\ IsFiniteSet(Pending) /\ Cardinality(Pending) \in Nat
      /\ admitted.redis + Cardinality(Pending) <= counter.count
      /\ admitted.redis + Cardinality(Pending) <= Limit
      /\ admitted.memory <= bucket /\ admitted.memory <= Limit
      /\ failsClosed => admitted.memory = 0
      /\ counter.count # 0 /\ ~counter.expires /\ ~cut => \E h \in Handlers : Doing(h, "expire")
  BY FS_CardinalityType DEF RateLimitInv, LimitsHold
<1> DEFINE Expired == counter.count # 0 /\ ~counter.expires /\ ~cut =>
                        \E h \in Handlers : Doing(h, "expire")
(* What is left to show once the tables are typed.                            *)
<1>3. ASSUME OneAtATime', RateLimitTypeOK', IsFiniteSet(Pending)',
             (admitted.redis + Cardinality(Pending) <= counter.count)',
             (admitted.redis + Cardinality(Pending) <= Limit)',
             (admitted.memory <= bucket /\ admitted.memory <= Limit)',
             (failsClosed => admitted.memory = 0)', Expired'
      PROVE  OneAtATime' /\ RateLimitInv'
  <2>1. Cardinality(Pending)' \in Nat /\ admitted'.redis \in Nat
    BY <1>3, FS_CardinalityType DEF RateLimitTypeOK
  <2>2. admitted'.redis <= Limit
    BY <1>3, <2>1
  <2> QED BY <1>3, <2>2 DEF RateLimitInv, LimitsHold
<1>4. ASSUME NEW h \in Handlers, Increment(h) PROVE OneAtATime' /\ RateLimitInv'
  <2> DEFINE n == counter.count + 1
             op == IF counter.count = 0 THEN "expire" ELSE "answer"
  <2>1. n \in 1 .. MaxCount /\ op # "idle" /\ None \in Users \cup {None}
    BY <1>1, <1>4 DEF Increment
  <2>2. Begin(h, Work(op, None, 0, n, "none")) /\ n \in Nat
    BY <1>1, <1>4 DEF Increment
  <2>op. op = IF counter.count = 0 THEN "expire" ELSE "answer"
    OBVIOUS
  <2> HIDE DEF op
  <2>3. /\ OneAtATime' /\ work'[h] = Work(op, None, 0, n, "none") /\ ~Busy(h) /\ Busy(h)'
        /\ \A g \in Handlers \ {h} : work'[g] = work[g]
    BY <2>1, <2>2, Begun
  <2>4. /\ counter' = [count |-> n, expires |-> counter.expires]
        /\ UNCHANGED <<failsClosed, bucket, admitted, cut>>
    BY <1>4 DEF Increment, Counter
  <2>5. RateLimitTypeOK'
    BY <1>1, <2>1, <2>4 DEF RateLimitInv, RateLimitTypeOK
  <2>6. work'[h].number = n /\ work'[h].op = op
    BY <2>3 DEF Work
  <2>7. \A g \in Handlers \ {h} : g \in Pending' <=> g \in Pending
    BY <2>3 DEF Pending, Busy
  <2>8. CASE n <= Limit
    <3>1. Pending' = Pending \cup {h} /\ h \notin Pending
      BY <2>3, <2>6, <2>7, <2>8 DEF Pending
    <3>2. IsFiniteSet(Pending)' /\ Cardinality(Pending)' = Cardinality(Pending) + 1
      BY <1>2, <3>1, PendingGrows
    <3>3. Expired'
      BY <1>1, <1>2, <2>op, <2>3, <2>4, <2>6 DEF Doing, Busy
    <3> QED BY <1>1, <1>2, <1>3, <2>3, <2>4, <2>5, <2>8, <3>2, <3>3
  <2>9. CASE ~(n <= Limit)
    <3>1. Pending' = Pending
      BY <2>3, <2>6, <2>7, <2>9 DEF Pending
    <3>2. Expired'
      BY <1>1, <1>2, <2>op, <2>3, <2>4, <2>6 DEF Doing, Busy
    <3> QED BY <1>1, <1>2, <1>3, <2>3, <2>4, <2>5, <3>1, <3>2
  <2> QED BY <2>8, <2>9
<1>5. ASSUME NEW h \in Handlers, SetExpiry(h) PROVE OneAtATime' /\ RateLimitInv'
  <2>1. /\ Busy(h) /\ None \in Users \cup {None}
        /\ GoesOn(h, Work("answer", None, 0, work[h].number, "none"))
    BY <1>5 DEF SetExpiry, Busy, Doing, GoesOn
  <2>2. /\ OneAtATime' /\ Busy(h)'
        /\ work'[h] = Work("answer", None, 0, work[h].number, "none")
        /\ \A g \in Handlers \ {h} : work'[g] = work[g]
    <3> DEFINE next == Work("answer", None, 0, work[h].number, "none")
    <3>1. /\ next.op # "idle" /\ next.user \in Users \cup {None}
          /\ next.id \in Nat /\ next.number \in Nat
      BY <1>1 DEF Work
    <3> HIDE DEF next
    <3>2. GoesOn(h, next)
      BY <2>1 DEF next
    <3>3. /\ OneAtATime' /\ Busy(h)' /\ work'[h] = next
          /\ \A g \in Handlers \ {h} : work'[g] = work[g]
      BY <2>1, <3>1, <3>2, WentOn
    <3> QED BY <3>3 DEF next
  <2>3. /\ counter' = [count |-> counter.count, expires |-> TRUE]
        /\ UNCHANGED <<failsClosed, bucket, admitted, cut>>
    BY <1>5 DEF SetExpiry, Counter
  <2>4. RateLimitTypeOK'
    BY <1>1, <2>3 DEF RateLimitInv, RateLimitTypeOK
  <2>5. work'[h].number = work[h].number
    BY <2>2 DEF Work
  <2>6. Pending' = Pending
    BY <2>1, <2>2, <2>5 DEF Pending, Busy
  <2> QED BY <1>1, <1>2, <1>3, <2>2, <2>3, <2>4, <2>6
(* A handler that is done leaves the pending ones.                            *)
<1>6. ASSUME NEW h \in Handlers, Busy(h), End(h)
      PROVE  /\ OneAtATime' /\ raced' = raced
             /\ IsFiniteSet(Pending)' /\ Cardinality(Pending)' \in Nat
             /\ Cardinality(Pending)' = IF h \in Pending THEN Cardinality(Pending) - 1
                                        ELSE Cardinality(Pending)
             /\ \A g \in Handlers \ {h} : work'[g] = work[g]
  <2>1. /\ OneAtATime' /\ ~Busy(h)' /\ raced' = raced
        /\ \A g \in Handlers \ {h} : work'[g] = work[g]
    BY <1>6, Ended
  <2>2. Pending' = Pending \ {h}
    BY <2>1 DEF Pending, Busy
  <2> QED BY <1>2, <2>1, <2>2, PendingShrinks
<1>7. ASSUME NEW h \in Handlers, Answer(h) PROVE OneAtATime' /\ RateLimitInv'
  <2>1. Busy(h) /\ End(h) /\ ~Doing(h, "expire")
    BY <1>7 DEF Answer, Busy, Doing
  <2>2. UNCHANGED <<failsClosed, counter, bucket, cut>>
    BY <1>7 DEF Answer
  <2>3. Expired'
    BY <1>2, <1>6, <2>1, <2>2 DEF Doing
  <2>4. CASE work[h].number <= Limit
    <3>1. h \in Pending
      BY <2>1, <2>4 DEF Pending
    <3>2. admitted' = [redis |-> admitted.redis + 1, memory |-> admitted.memory]
      BY <1>7, <2>4 DEF Answer, Admitted
    <3>3. RateLimitTypeOK'
      BY <1>1, <2>2, <3>2 DEF RateLimitInv, RateLimitTypeOK
    <3> QED BY <1>1, <1>2, <1>3, <1>6, <2>1, <2>2, <2>3, <3>1, <3>2, <3>3
  <2>5. CASE ~(work[h].number <= Limit)
    <3>1. h \notin Pending
      BY <2>5 DEF Pending
    <3>2. admitted' = admitted
      BY <1>7, <2>5 DEF Answer
    <3>3. RateLimitTypeOK'
      BY <2>2, <3>2 DEF RateLimitInv, RateLimitTypeOK
    <3> QED BY <1>1, <1>2, <1>3, <1>6, <2>1, <2>2, <2>3, <3>1, <3>2, <3>3
  <2> QED BY <2>4, <2>5
<1>8. ASSUME FallBack
      PROVE  /\ bucket' \in 0 .. MaxCount /\ admitted' \in [redis : Nat, memory : Nat]
             /\ admitted'.redis = admitted.redis
             /\ admitted'.memory <= bucket' /\ admitted'.memory <= Limit
             /\ failsClosed => admitted'.memory = 0
  <2>1. CASE failsClosed
    BY <1>1, <1>2, <1>8, <2>1 DEF FallBack, RateLimitInv, RateLimitTypeOK
  <2>2. CASE ~failsClosed
    <3>1. bucket' = bucket + 1 /\ bucket < MaxCount
      BY <1>8, <2>2 DEF FallBack
    <3>2. CASE bucket + 1 <= Limit
      <4>1. admitted' = [redis |-> admitted.redis, memory |-> admitted.memory + 1]
        BY <1>8, <2>2, <3>2 DEF FallBack, Admitted
      <4> QED BY <1>1, <1>2, <2>2, <3>1, <3>2, <4>1
    <3>3. CASE ~(bucket + 1 <= Limit)
      <4>1. admitted' = admitted
        BY <1>8, <2>2, <3>3 DEF FallBack
      <4> QED BY <1>1, <1>2, <2>2, <3>1, <4>1 DEF RateLimitInv, RateLimitTypeOK
    <3> QED BY <3>2, <3>3
  <2> QED BY <2>1, <2>2 DEF RateLimitInv, RateLimitTypeOK
<1>9. ASSUME RedisRefuses PROVE OneAtATime' /\ RateLimitInv'
  <2>1. FallBack /\ AtOnce /\ UNCHANGED <<failsClosed, counter, cut>>
    BY <1>9 DEF RedisRefuses
  <2>2. OneAtATime' /\ work' = work
    BY <2>1, DoneAtOnce
  <2>3. Pending' = Pending
    BY <2>2 DEF Pending, Busy
  <2>4. RateLimitTypeOK'
    BY <1>8, <2>1 DEF RateLimitInv, RateLimitTypeOK
  <2>5. Expired'
    BY <1>2, <2>1, <2>2 DEF Doing
  <2> QED BY <1>1, <1>2, <1>3, <1>8, <2>1, <2>2, <2>3, <2>4, <2>5
<1>10. ASSUME NEW h \in Handlers, RedisLost(h) PROVE OneAtATime' /\ RateLimitInv'
  <2>1. /\ Busy(h) /\ End(h) /\ FallBack /\ UNCHANGED <<failsClosed, counter>>
        /\ cut' = (cut \/ Doing(h, "expire"))
    BY <1>10 DEF RedisLost
  <2>2. RateLimitTypeOK'
    BY <1>1, <1>8, <2>1 DEF RateLimitInv, RateLimitTypeOK
  <2>3. Expired'
    BY <1>2, <1>6, <2>1 DEF Doing
  <2> QED BY <1>1, <1>2, <1>3, <1>6, <1>8, <2>1, <2>2, <2>3
<1>11. ASSUME NEW h \in Handlers, ProcessStops(h) PROVE OneAtATime' /\ RateLimitInv'
  <2>1. /\ Busy(h) /\ End(h) /\ UNCHANGED <<failsClosed, counter, bucket, admitted>>
        /\ cut' = (cut \/ Doing(h, "expire"))
    BY <1>11 DEF ProcessStops
  <2>2. RateLimitTypeOK'
    BY <1>1, <2>1 DEF RateLimitInv, RateLimitTypeOK
  <2>3. Expired'
    BY <1>2, <1>6, <2>1 DEF Doing
  <2> QED BY <1>1, <1>2, <1>3, <1>6, <2>1, <2>2, <2>3
<1>12. ASSUME WindowEnds PROVE OneAtATime' /\ RateLimitInv'
  <2>1. /\ AtOnce /\ Quiet /\ UNCHANGED <<failsClosed, bucket, cut>>
        /\ counter' = [count |-> 0, expires |-> FALSE]
        /\ admitted' = [redis |-> 0, memory |-> admitted.memory]
    BY <1>12 DEF WindowEnds, Counter, Admitted
  <2>2. OneAtATime' /\ work' = work
    BY <2>1, DoneAtOnce
  <2>3. Pending' = {}
    BY <2>1, <2>2 DEF Pending, Quiet, Busy
  <2>4. IsFiniteSet({}) /\ Cardinality({}) = 0
    BY FS_EmptySet
  <2>5. RateLimitTypeOK'
    BY <1>1, <2>1 DEF RateLimitInv, RateLimitTypeOK
  <2> QED BY <1>1, <1>2, <1>3, <2>1, <2>2, <2>3, <2>4, <2>5
<1>13. ASSUME MemoryWindowEnds PROVE OneAtATime' /\ RateLimitInv'
  <2>1. /\ AtOnce /\ UNCHANGED <<failsClosed, counter, cut>> /\ bucket' = 0
        /\ admitted' = [redis |-> admitted.redis, memory |-> 0]
    BY <1>13 DEF MemoryWindowEnds, Admitted
  <2>2. OneAtATime' /\ work' = work
    BY <2>1, DoneAtOnce
  <2>3. Pending' = Pending
    BY <2>2 DEF Pending, Busy
  <2>4. RateLimitTypeOK'
    BY <1>1, <2>1 DEF RateLimitInv, RateLimitTypeOK
  <2>5. Expired'
    BY <1>2, <2>1, <2>2 DEF Doing
  <2> QED BY <1>1, <1>2, <1>3, <2>1, <2>2, <2>3, <2>4, <2>5
<1> QED BY <1>4, <1>5, <1>7, <1>9, <1>10, <1>11, <1>12, <1>13 DEF RateLimitNext

-----------------------------------------------------------------------------
(* Projects.                                                                  *)
LEMMA ProjectBegins ==
  ASSUME ProjectAccessInit
  PROVE  ProjectAccessTypeOK /\ (Quiet => ProjectInv)
<1>1. ProjectAccessTypeOK
  BY DEF ProjectAccessInit, ProjectAccessTypeOK
<1> QED BY <1>1 DEF ProjectInv, ProjectShaped, ProjectFresh, Busy, Doing, Quiet

LEMMA ProjectReads ==
  ASSUME OneAtATime, ProjectInv, UNCHANGED accessControlVars, NEW h \in Handlers,
         NEW op, op # "idle", NEW user \in Users, NEW text,
         Begin(h, Work(op, user, 0, 0, text)), ProjectShaped(h)', ~raced' => ProjectFresh(h)'
  PROVE  OneAtATime' /\ ProjectInv'
<1>1. /\ OneAtATime' /\ \A g \in Handlers \ {h} : work'[g] = work[g]
      /\ ~raced' => ~raced /\ \A g \in Handlers : ~Busy(g) /\ (g # h => ~Busy(g)')
  BY Begun
<1>2. ProjectAccessTypeOK'
  BY DEF ProjectInv, ProjectAccessTypeOK, accessControlVars
<1>3. \A g \in Handlers : ProjectShaped(g)'
  BY <1>1 DEF ProjectInv, ProjectShaped, Doing
<1>4. ~raced' => \A g \in Handlers : ProjectFresh(g)'
  BY <1>1 DEF ProjectFresh, Busy, Doing
<1> QED BY <1>1, <1>2, <1>3, <1>4 DEF ProjectInv

(* What a write leaves behind: nobody is busy unless handlers have overlapped.*)
LEMMA ProjectWrites ==
  ASSUME OneAtATime, ProjectInv, ProjectAccessTypeOK',
         AtOnce \/ \E h \in Handlers : Busy(h) /\ End(h)
  PROVE  OneAtATime' /\ ProjectInv'
<1>1. CASE AtOnce
  BY <1>1, DoneAtOnce DEF ProjectInv, ProjectShaped, ProjectFresh, Busy, Doing
<1>2. ASSUME NEW h \in Handlers, Busy(h), End(h) PROVE OneAtATime' /\ ProjectInv'
  <2>1. /\ OneAtATime' /\ ~Busy(h)' /\ raced' = raced
        /\ \A g \in Handlers \ {h} : work'[g] = work[g]
        /\ ~raced => \A g \in Handlers : ~Busy(g)'
    BY <1>2, Ended
  <2>2. \A g \in Handlers : ProjectShaped(g)'
    BY <2>1 DEF ProjectInv, ProjectShaped, Busy, Doing
  <2>3. ~raced' => \A g \in Handlers : ProjectFresh(g)'
    BY <2>1 DEF ProjectFresh, Busy, Doing
  <2> QED BY <2>1, <2>2, <2>3 DEF ProjectInv
<1> QED BY <1>1, <1>2

LEMMA ArchivedMayNotManage ==
  ASSUME NEW user, projectStatus = "ARCHIVED"
  PROVE  "members.manage" \notin Capabilities(user) /\ "project.update" \notin Capabilities(user)
BY DEF Capabilities, ResolveCapabilities, MutatingProjectCapabilities

LEMMA ProjectKeeps ==
  ASSUME OneAtATime, ProjectInv, ProjectAccessNext
  PROVE  OneAtATime' /\ ProjectInv'
<1>1. /\ tenantRole \in [Users -> TenantRoles \cup {None}]
      /\ projectStatus \in ProjectStatuses \cup {"ABSENT"}
      /\ memberRole \in [Users -> ProjectRoles \cup {None}]
      /\ active \subseteq Users
      /\ \A h \in Handlers : ProjectShaped(h)
  BY DEF ProjectInv, ProjectAccessTypeOK
<1>2. ASSUME NEW user \in Users, SelectActiveTenant(user) PROVE OneAtATime' /\ ProjectInv'
  <2>1. ProjectAccessTypeOK'
    BY <1>1, <1>2 DEF SelectActiveTenant, ProjectAccessTypeOK
  <2> QED BY <1>2, <2>1, ProjectWrites DEF SelectActiveTenant
<1>3. ASSUME NEW user \in Users, NEW status \in ProjectStatuses, CreateProject(user, status)
      PROVE  OneAtATime' /\ ProjectInv'
  <2>1. ProjectAccessTypeOK'
    BY <1>1, <1>3 DEF CreateProject, ProjectAccessTypeOK, ProjectRoles
  <2> QED BY <1>3, <2>1, ProjectWrites DEF CreateProject
<1>4. ASSUME NEW h \in Handlers, NEW user \in Users, NEW status \in ProjectStatuses \cup {"none"},
             UpdateProjectRead(h, user, status)
      PROVE  OneAtATime' /\ ProjectInv'
  <2>1. Begin(h, Work("update_project", user, 0, 0, status)) /\ UNCHANGED accessControlVars
    BY <1>4 DEF UpdateProjectRead
  <2>2. /\ work'[h].op = "update_project" /\ work'[h].user = user
        /\ work'[h].text = status
    BY <2>1, Noted
  <2>3. ProjectShaped(h)'
    BY <2>2 DEF ProjectShaped, Doing
  <2>4. projectStatus = "ARCHIVED" => "project.archive" \in Capabilities(user)
    BY <1>4, ArchivedMayNotManage DEF UpdateProjectRead
  <2>5. Capabilities(user)' = Capabilities(user)
    BY <2>1 DEF Capabilities, InTenant, accessControlVars
  <2>6. ProjectFresh(h)'
    BY <2>1, <2>2, <2>4, <2>5 DEF ProjectFresh, Doing, Work, accessControlVars, Capabilities,
                                  InTenant
  <2> QED BY <2>1, <2>3, <2>6, ProjectReads
<1>5. ASSUME NEW h \in Handlers, NEW user \in Users, NEW target \in Users,
             NEW role \in ProjectRoles, AddProjectMemberRead(h, user, target, role)
      PROVE  OneAtATime' /\ ProjectInv'
  <2>1. Begin(h, Work("add_member", target, 0, 0, role)) /\ UNCHANGED accessControlVars
    BY <1>5 DEF AddProjectMemberRead
  <2>2. work'[h].op = "add_member" /\ work'[h].user = target /\ work'[h].text = role
    BY <2>1, Noted
  <2>3. ProjectShaped(h)'
    BY <2>2 DEF ProjectShaped, Doing
  <2>4. projectStatus # "ARCHIVED"
    BY <1>5, ArchivedMayNotManage DEF AddProjectMemberRead
  <2>5. ProjectFresh(h)'
    BY <2>1, <2>2, <2>4 DEF ProjectFresh, Doing, Work, accessControlVars
  <2> QED BY <2>1, <2>3, <2>5, ProjectReads
<1>6. ASSUME NEW h \in Handlers, UpdateProject(h) PROVE OneAtATime' /\ ProjectInv'
  <2>1. Busy(h) /\ End(h) /\ work[h].text \in ProjectStatuses \cup {"none"}
    BY <1>1, <1>6 DEF UpdateProject, Busy, Doing, ProjectShaped
  <2>2. ProjectAccessTypeOK'
    BY <1>1, <1>6, <2>1 DEF UpdateProject, ProjectAccessTypeOK
  <2> QED BY <2>1, <2>2, ProjectWrites
<1>7. ASSUME NEW h \in Handlers, AddProjectMember(h) PROVE OneAtATime' /\ ProjectInv'
  <2>1. Busy(h) /\ End(h) /\ work[h].text \in ProjectRoles /\ work[h].user \in Users
    BY <1>1, <1>7 DEF AddProjectMember, Busy, Doing, ProjectShaped
  <2>2. ProjectAccessTypeOK'
    BY <1>1, <1>7, <2>1 DEF AddProjectMember, ProjectAccessTypeOK
  <2> QED BY <2>1, <2>2, ProjectWrites
<1>8. ASSUME NEW h \in Handlers, RollBack(h), UNCHANGED accessControlVars
      PROVE  OneAtATime' /\ ProjectInv'
  <2>1. ProjectAccessTypeOK'
    BY <1>1, <1>8 DEF ProjectAccessTypeOK, accessControlVars
  <2> QED BY <1>8, <2>1, ProjectWrites DEF RollBack
<1> QED BY <1>2, <1>3, <1>4, <1>5, <1>6, <1>7, <1>8 DEF ProjectAccessNext

(* The action property of projects: a step from an archived project.          *)
LEMMA ProjectKeepsArchived ==
  ASSUME OneAtATime, ProjectInv, ProjectAccessNext, projectStatus = "ARCHIVED", ~raced
  PROVE  /\ memberRole' = memberRole
         /\ projectStatus' # projectStatus =>
              \E h \in Handlers : /\ Doing(h, "update_project")
                                  /\ "project.archive" \in Capabilities(work[h].user)
<1>1. \A h \in Handlers : ProjectFresh(h)
  BY DEF ProjectInv
<1>2. ASSUME NEW h \in Handlers, AddProjectMember(h) PROVE FALSE
  BY <1>1, <1>2 DEF AddProjectMember, ProjectFresh
<1>3. ASSUME NEW h \in Handlers, UpdateProject(h)
      PROVE  memberRole' = memberRole /\ Doing(h, "update_project") /\ "project.archive" \in Capabilities(work[h].user)
  BY <1>1, <1>3 DEF UpdateProject, ProjectFresh
<1> QED
  BY <1>2, <1>3 DEF ProjectAccessNext, SelectActiveTenant, CreateProject, UpdateProjectRead,
                    AddProjectMemberRead, accessControlVars

-----------------------------------------------------------------------------
(* Platform.                                                                  *)
Approved ==
  /\ \A r \in Requests : request[r].status = "ACTIVE" =>
       request[r].approver \notin {None, request[r].operator}
  /\ provider.status \in {"APPROVED_FOR_PILOT", "ENABLED"} =>
       provider.approver \notin {None, provider.by}
Backed ==
  /\ member # 0 => invitation[member].status = "ACTIVE"
  /\ \A r \in Requests : session[r] = IF request[r].status = "ACTIVE" THEN 1 ELSE 0
  /\ assessment \in {"READY", "BLOCKED"} => (assessment = "READY" <=> Ready(item))

(* What no step takes back: who asked for something.                          *)
AskersStay ==
  /\ \A r \in Requests : request[r] # NoRequest =>
       request'[r] # NoRequest /\ request'[r].operator = request[r].operator
  /\ provider.status # "ABSENT" => provider'.status # "ABSENT" /\ provider'.by = provider.by

LEMMA PlatformBegins ==
  ASSUME PlatformInit
  PROVE  PlatformTypeOK /\ GrantsAreBacked /\ (Quiet => PlatformInv)
<1>1. /\ invitation = [i \in Invitations |-> [status |-> "ABSENT", expired |-> FALSE]]
      /\ request = [r \in Requests |-> [status |-> "ABSENT", operator |-> None, approver |-> None]]
      /\ provider = [status |-> "ABSENT", by |-> None, approver |-> None]
      /\ member = 0 /\ session = [r \in Requests |-> 0]
      /\ killSwitch \in BOOLEAN /\ pilot \in BOOLEAN
      /\ item = [i \in Items |-> "NOT_STARTED"] /\ assessment = "ABSENT"
  BY DEF PlatformInit, NoInvitation, Invitation, NoRequest, Request, Provider
<1>2. PlatformTypeOK
  BY <1>1 DEF PlatformTypeOK, InvitationStatuses, RequestStatuses, ItemStatuses,
              AssessmentStatuses, ProviderStatuses
<1>3. GrantsAreBacked
  BY <1>1 DEF GrantsAreBacked
<1> QED BY <1>2, <1>3 DEF PlatformInv, PlatformShaped, PlatformFresh, Busy, Doing, Quiet

LEMMA PlatformReads ==
  ASSUME OneAtATime, PlatformInv, UNCHANGED platformVars, NEW h \in Handlers,
         NEW op, op # "idle", NEW user \in Users \cup {None}, NEW id \in Nat, NEW number \in Nat,
         NEW text, Begin(h, Work(op, user, id, number, text)),
         PlatformShaped(h)', ~raced' => PlatformFresh(h)'
  PROVE  OneAtATime' /\ PlatformInv'
<1>1. /\ OneAtATime' /\ \A g \in Handlers \ {h} : work'[g] = work[g]
      /\ ~raced' => ~raced /\ \A g \in Handlers : ~Busy(g) /\ (g # h => ~Busy(g)')
  BY Begun
<1>2. PlatformTypeOK'
  BY DEF PlatformInv, PlatformTypeOK, platformVars
<1>3. GrantsAreBacked'
  BY <1>1 DEF PlatformInv, GrantsAreBacked, platformVars, Ready
<1>4. \A g \in Handlers : PlatformShaped(g)'
  BY <1>1 DEF PlatformInv, PlatformShaped, Doing, platformVars
<1>5. ~raced' => \A g \in Handlers : PlatformFresh(g)'
  BY <1>1 DEF PlatformFresh, Busy, Doing
<1> QED BY <1>1, <1>2, <1>3, <1>4, <1>5 DEF PlatformInv

LEMMA PlatformWrites ==
  ASSUME OneAtATime, PlatformInv, PlatformTypeOK', Approved', ~raced => Backed', AskersStay,
         AtOnce \/ \E h \in Handlers : Busy(h) /\ End(h)
  PROVE  OneAtATime' /\ PlatformInv'
<1>1. CASE AtOnce
  <2>1. OneAtATime' /\ work' = work /\ (~raced' => ~raced /\ \A g \in Handlers : ~Busy(g)')
    BY <1>1, DoneAtOnce
  <2>2. \A g \in Handlers : PlatformShaped(g)'
    BY <2>1 DEF PlatformInv, PlatformShaped, Doing, AskersStay
  <2>3. ~raced' => \A g \in Handlers : PlatformFresh(g)'
    BY <2>1 DEF PlatformFresh, Busy, Doing
  <2> QED BY <2>1, <2>2, <2>3 DEF PlatformInv, GrantsAreBacked, Approved, Backed
<1>2. ASSUME NEW h \in Handlers, Busy(h), End(h) PROVE OneAtATime' /\ PlatformInv'
  <2>1. /\ OneAtATime' /\ ~Busy(h)' /\ raced' = raced
        /\ \A g \in Handlers \ {h} : work'[g] = work[g]
        /\ ~raced => \A g \in Handlers : ~Busy(g)'
    BY <1>2, Ended
  <2>2. \A g \in Handlers : PlatformShaped(g)'
    <3> SUFFICES ASSUME NEW g \in Handlers PROVE PlatformShaped(g)'
      OBVIOUS
    <3>1. CASE g = h
      BY <2>1, <3>1 DEF PlatformShaped, Busy, Doing
    <3>2. CASE g # h
      <4>1. PlatformShaped(g) /\ work'[g] = work[g]
        BY <2>1, <3>2 DEF PlatformInv
      <4> QED BY <4>1 DEF PlatformShaped, Doing, AskersStay
    <3> QED BY <3>1, <3>2
  <2>3. ~raced' => \A g \in Handlers : PlatformFresh(g)'
    BY <2>1 DEF PlatformFresh, Busy, Doing
  <2> QED BY <2>1, <2>2, <2>3 DEF PlatformInv, GrantsAreBacked, Approved, Backed
<1> QED BY <1>1, <1>2

LEMMA PlatformKeeps ==
  ASSUME OneAtATime, PlatformInv, PlatformNext
  PROVE  OneAtATime' /\ PlatformInv'
<1> USE TransactionsAssumption, PlatformAssumption DEF Invitations, Requests, Items
<1>1. /\ PlatformTypeOK /\ Approved /\ (~raced => Backed)
      /\ \A h \in Handlers : PlatformShaped(h)
      /\ ~raced => \A h \in Handlers : PlatformFresh(h)
      /\ raced \in BOOLEAN
  BY DEF PlatformInv, GrantsAreBacked, Approved, Backed, OneAtATime, TransactionsTypeOK
<1>t. /\ \A i \in Invitations : /\ invitation[i].status \in InvitationStatuses
                                /\ invitation[i].expired \in BOOLEAN
      /\ \A r \in Requests : /\ request[r].operator \in Users \cup {None}
                             /\ request[r].approver \in Users \cup {None}
      /\ provider.by \in Users \cup {None}
  BY <1>1 DEF PlatformTypeOK
<1>n. \A r \in Requests : request[r] = NoRequest => request[r].status = "ABSENT"
  BY DEF NoRequest, Request
<1>u. /\ None \in Users \cup {None} /\ Users \subseteq Users \cup {None} /\ 0 \in Nat
      /\ Invitations \subseteq Nat /\ Requests \subseteq Nat /\ Items \subseteq Nat
  OBVIOUS
(* Steps that change neither requests nor the provider.                       *)
<1>k. ASSUME UNCHANGED <<request, provider>> PROVE Approved' /\ AskersStay
  BY <1>1, <1>k DEF Approved, AskersStay
(* Steps at once write nothing while another handler's row is read.           *)
<1>2. ASSUME NEW i \in Invitations, InviteTenantUser(i) PROVE OneAtATime' /\ PlatformInv'
  <2>1. /\ invitation' = [invitation EXCEPT ![i] = [status |-> "INVITED", expired |-> FALSE]]
        /\ invitation[i].status = "ABSENT"
        /\ AtOnce /\ UNCHANGED <<member, request, session, killSwitch, pilotVars, provider>>
    BY <1>2 DEF InviteTenantUser, NextId, NoInvitation, Invitation
  <2>2. invitation' \in [Invitations -> [status : InvitationStatuses, expired : BOOLEAN]]
    BY <1>1, <2>1 DEF PlatformTypeOK, InvitationStatuses
  <2>3. PlatformTypeOK'
    BY <1>1, <2>1, <2>2 DEF PlatformTypeOK, pilotVars
  <2>4. ~raced => Backed'
    BY <1>1, <2>1 DEF Backed, pilotVars, PlatformTypeOK, Ready
  <2> QED BY <1>k, <2>1, <2>3, <2>4, PlatformWrites
<1>3. ASSUME NEW i \in Invitations, InvitationExpires(i) PROVE OneAtATime' /\ PlatformInv'
  <2>1. /\ invitation' = [invitation EXCEPT ![i].expired = TRUE]
        /\ AtOnce /\ UNCHANGED <<member, request, session, killSwitch, pilotVars, provider>>
    BY <1>3 DEF InvitationExpires
  <2>2. PlatformTypeOK'
    BY <1>1, <2>1 DEF PlatformTypeOK, pilotVars
  <2>3. ~raced => Backed'
    BY <1>1, <2>1 DEF Backed, pilotVars, PlatformTypeOK, Ready
  <2> QED BY <1>k, <2>1, <2>2, <2>3, PlatformWrites
<1>4. ASSUME NEW h \in Handlers, NEW i \in Invitations, AcceptInvitationRead(h, i)
      PROVE  OneAtATime' /\ PlatformInv'
  <2>1. Begin(h, Work("accept_invitation", None, i, 0, "none")) /\ UNCHANGED platformVars
    BY <1>4 DEF AcceptInvitationRead
  <2>2. work'[h].op = "accept_invitation" /\ work'[h].id = i
    BY <2>1, Noted
  <2>3. PlatformShaped(h)' /\ PlatformFresh(h)'
    BY <2>2 DEF PlatformShaped, PlatformFresh, Doing
  <2> QED BY <1>u, <2>1, <2>3, PlatformReads
<1>5. ASSUME NEW h \in Handlers, NEW i \in Invitations, RevokeInvitationRead(h, i)
      PROVE  OneAtATime' /\ PlatformInv'
  <2>1. /\ Begin(h, Work("revoke_invitation", None, i, 0, "none")) /\ UNCHANGED platformVars
        /\ invitation[i].status = "INVITED"
    BY <1>5 DEF RevokeInvitationRead
  <2>2. work'[h].op = "revoke_invitation" /\ work'[h].id = i
    BY <2>1, Noted
  <2>3. PlatformShaped(h)' /\ PlatformFresh(h)'
    BY <2>1, <2>2 DEF PlatformShaped, PlatformFresh, Doing, platformVars
  <2> QED BY <1>u, <2>1, <2>3, PlatformReads
<1>6. ASSUME NEW h \in Handlers, AcceptInvitation(h) PROVE OneAtATime' /\ PlatformInv'
  <2>1. /\ Busy(h) /\ End(h) /\ work[h].id \in Invitations /\ member' = work[h].id
        /\ invitation' = [invitation EXCEPT ![work[h].id].status = "ACTIVE"]
        /\ UNCHANGED <<request, session, killSwitch, pilotVars, provider>>
    BY <1>1, <1>6 DEF AcceptInvitation, Busy, Doing, PlatformShaped
  <2>2. PlatformTypeOK'
    <3>1. invitation' \in [Invitations -> [status : InvitationStatuses, expired : BOOLEAN]]
      <4>1. PICK i \in Invitations : invitation' = [invitation EXCEPT ![i].status = "ACTIVE"]
        BY <2>1
      <4>2. /\ invitation \in [Invitations -> [status : InvitationStatuses, expired : BOOLEAN]]
            /\ "ACTIVE" \in InvitationStatuses
        BY <1>1 DEF PlatformTypeOK, InvitationStatuses
      <4> QED BY <4>1, <4>2
    <3> QED BY <1>1, <2>1, <3>1 DEF PlatformTypeOK, pilotVars
  <2>3. ~raced => Backed'
    BY <1>1, <2>1 DEF Backed, pilotVars, PlatformTypeOK, Ready
  <2> QED BY <1>k, <2>1, <2>2, <2>3, PlatformWrites
<1>7. ASSUME NEW h \in Handlers, RevokeInvitation(h) PROVE OneAtATime' /\ PlatformInv'
  <2>1. /\ Busy(h) /\ End(h) /\ work[h].id \in Invitations
        /\ invitation' = [invitation EXCEPT ![work[h].id].status = "DISABLED"]
        /\ UNCHANGED <<member, request, session, killSwitch, pilotVars, provider>>
    BY <1>1, <1>7 DEF RevokeInvitation, Busy, Doing, PlatformShaped
  <2>2. PlatformTypeOK'
    <3>1. invitation' \in [Invitations -> [status : InvitationStatuses, expired : BOOLEAN]]
      <4>1. PICK i \in Invitations : invitation' = [invitation EXCEPT ![i].status = "DISABLED"]
        BY <2>1
      <4>2. /\ invitation \in [Invitations -> [status : InvitationStatuses, expired : BOOLEAN]]
            /\ "DISABLED" \in InvitationStatuses
        BY <1>1 DEF PlatformTypeOK, InvitationStatuses
      <4> QED BY <4>1, <4>2
    <3> QED BY <1>1, <2>1, <3>1 DEF PlatformTypeOK, pilotVars
  <2>3. ~raced => invitation[work[h].id].status = "INVITED"
    BY <1>1, <1>7 DEF RevokeInvitation, PlatformFresh
  <2>4. ~raced => Backed'
    BY <1>1, <2>1, <2>3 DEF Backed, pilotVars, PlatformTypeOK, Ready
  <2> QED BY <1>k, <2>1, <2>2, <2>4, PlatformWrites
<1>8. ASSUME NEW r \in Requests, NEW user \in Users, RequestSupportAccess(r, user)
      PROVE  OneAtATime' /\ PlatformInv'
  <2>1. /\ request[r] = NoRequest /\ AtOnce
        /\ request' = [request EXCEPT ![r] =
             [status |-> "REQUESTED", operator |-> user, approver |-> None]]
        /\ UNCHANGED <<invitation, member, session, killSwitch, pilotVars, provider>>
    BY <1>8 DEF RequestSupportAccess, NextId, Request
  <2>2. request' \in [Requests -> [status : RequestStatuses, operator : Users \cup {None},
                                   approver : Users \cup {None}]]
    BY <1>1, <2>1 DEF PlatformTypeOK, RequestStatuses
  <2>3. PlatformTypeOK'
    BY <1>1, <2>1, <2>2 DEF PlatformTypeOK, pilotVars
  <2>4. ~raced => Backed'
    BY <1>1, <1>n, <2>1 DEF Backed, pilotVars, PlatformTypeOK, Ready
  <2>5. Approved' /\ AskersStay
    BY <1>1, <2>1 DEF Approved, AskersStay, PlatformTypeOK
  <2> QED BY <2>1, <2>3, <2>4, <2>5, PlatformWrites
<1>9. ASSUME NEW h \in Handlers, NEW user \in Users, NEW r \in Requests,
             ApproveSupportRead(h, user, r)
      PROVE  OneAtATime' /\ PlatformInv'
  <2>1. /\ Begin(h, Work("approve_support", user, r, 0, "none")) /\ UNCHANGED platformVars
        /\ request[r].status = "REQUESTED" /\ request[r] # NoRequest
        /\ request[r].operator # user
    BY <1>9, <1>n DEF ApproveSupportRead
  <2>2. work'[h].op = "approve_support" /\ work'[h].id = r /\ work'[h].user = user
    <3>1. Begin(h, Work("approve_support", user, r, 0, "none"))
      BY <2>1
    <3> QED BY <3>1, Noted
  <2>3. PlatformShaped(h)' /\ PlatformFresh(h)'
    BY <2>1, <2>2 DEF PlatformShaped, PlatformFresh, Doing, platformVars
  <2> QED BY <1>u, <2>1, <2>3, PlatformReads
<1>10. ASSUME NEW h \in Handlers, ApproveSupportAccess(h) PROVE OneAtATime' /\ PlatformInv'
  <2> DEFINE r == work[h].id
             user == work[h].user
  <2>1. /\ Busy(h) /\ End(h) /\ r \in Requests /\ request[r] # NoRequest
        /\ user \in Users \ {request[r].operator}
        /\ request' = [request EXCEPT ![r] =
             [status |-> "ACTIVE", operator |-> request[r].operator, approver |-> user]]
        /\ session' = [session EXCEPT ![r] = session[r] + 1]
        /\ UNCHANGED <<invitation, member, killSwitch, pilotVars, provider>>
    BY <1>1, <1>10 DEF ApproveSupportAccess, Busy, Doing, PlatformShaped, Request,
                       PlatformTypeOK
  <2>2. ~raced => request[r].status = "REQUESTED"
    BY <1>1, <1>10 DEF ApproveSupportAccess, PlatformFresh
  <2> HIDE DEF r, user
  <2>3. request' \in [Requests -> [status : RequestStatuses, operator : Users \cup {None},
                                   approver : Users \cup {None}]]
    BY <1>1, <1>t, <2>1 DEF PlatformTypeOK, RequestStatuses
  <2>4. PlatformTypeOK'
    BY <1>1, <2>1, <2>3 DEF PlatformTypeOK, pilotVars
  <2>5. ~raced => Backed'
    BY <1>1, <2>1, <2>2 DEF Backed, pilotVars, PlatformTypeOK, Ready
  <2>6. Approved'
    BY <1>1, <2>1 DEF Approved, PlatformTypeOK
  <2>7. AskersStay
    BY <1>1, <2>1 DEF AskersStay, PlatformTypeOK, NoRequest, Request
  <2> QED BY <2>1, <2>4, <2>5, <2>6, <2>7, PlatformWrites
<1>11. ASSUME NEW r \in Requests, RevokeSupportAccess(r) PROVE OneAtATime' /\ PlatformInv'
  <2>1. /\ request[r] # NoRequest /\ AtOnce
        /\ request' = [request EXCEPT ![r].status = "REVOKED"]
        /\ session' = [session EXCEPT ![r] = 0]
        /\ UNCHANGED <<invitation, member, killSwitch, pilotVars, provider>>
    BY <1>11 DEF RevokeSupportAccess
  <2>2. PlatformTypeOK'
    BY <1>1, <2>1 DEF PlatformTypeOK, pilotVars, RequestStatuses
  <2>3. ~raced => Backed'
    BY <1>1, <2>1 DEF Backed, pilotVars, PlatformTypeOK, Ready
  <2>4. Approved'
    BY <1>1, <2>1 DEF Approved, PlatformTypeOK
  <2>5. AskersStay
    BY <1>1, <2>1 DEF AskersStay, PlatformTypeOK, NoRequest, Request
  <2> QED BY <2>1, <2>2, <2>3, <2>4, <2>5, PlatformWrites
<1>12. ASSUME NEW enabled \in BOOLEAN, SetKillSwitch(enabled) PROVE OneAtATime' /\ PlatformInv'
  <2>1. killSwitch' \in BOOLEAN /\ AtOnce /\ UNCHANGED <<accessVars, pilotVars, provider>>
    BY <1>12 DEF SetKillSwitch
  <2>2. PlatformTypeOK' /\ (~raced => Backed')
    BY <1>1, <2>1 DEF PlatformTypeOK, pilotVars, accessVars, Backed, Ready
  <2> QED BY <1>k, <2>1, <2>2, PlatformWrites DEF accessVars
<1>13. ASSUME CreatePilotReadinessAssessment PROVE OneAtATime' /\ PlatformInv'
  <2>1. assessment' = "IN_PROGRESS" /\ AtOnce
        /\ UNCHANGED <<accessVars, killSwitch, item, pilot, provider>>
    BY <1>13 DEF CreatePilotReadinessAssessment
  <2>2. PlatformTypeOK' /\ (~raced => Backed')
    BY <1>1, <2>1 DEF PlatformTypeOK, accessVars, Backed, AssessmentStatuses
  <2> QED BY <1>k, <2>1, <2>2, PlatformWrites DEF accessVars
<1>14. ASSUME NEW user \in Users, CreateProviderEnablement(user) PROVE OneAtATime' /\ PlatformInv'
  <2>1. /\ provider' = [status |-> "TECHNICAL_VALIDATION", by |-> user, approver |-> None]
        /\ provider.status = "ABSENT"
        /\ AtOnce /\ UNCHANGED <<accessVars, killSwitch, pilotVars>>
    BY <1>14 DEF CreateProviderEnablement, Provider
  <2>2. PlatformTypeOK' /\ (~raced => Backed')
    BY <1>1, <2>1 DEF PlatformTypeOK, accessVars, pilotVars, Backed, ProviderStatuses, Ready
  <2>3. Approved' /\ AskersStay
    BY <1>1, <2>1 DEF Approved, AskersStay, accessVars
  <2> QED BY <2>1, <2>2, <2>3, PlatformWrites
<1>15. ASSUME NEW h \in Handlers, NEW i \in Items, NEW status \in ItemStatuses,
              UpdateItemRead(h, i, status)
       PROVE  OneAtATime' /\ PlatformInv'
  <2> DEFINE number == IF Ready([item EXCEPT ![i] = status]) THEN 1 ELSE 0
  <2>1. Begin(h, Work("update_item", None, i, number, status)) /\ UNCHANGED platformVars
    BY <1>15 DEF UpdateItemRead
  <2>2. number \in Nat /\ (number = 1 <=> Ready([item EXCEPT ![i] = status]))
    OBVIOUS
  <2> HIDE DEF number
  <2>3. /\ work'[h].op = "update_item" /\ work'[h].id = i /\ work'[h].text = status
        /\ work'[h].number = number
    BY <2>1, Noted
  <2>4. PlatformShaped(h)'
    BY <2>3 DEF PlatformShaped, Doing
  <2>5. PlatformFresh(h)'
    BY <2>1, <2>2, <2>3 DEF PlatformFresh, Doing, platformVars, Ready
  <2> QED BY <1>u, <2>1, <2>2, <2>4, <2>5, PlatformReads
<1>16. ASSUME NEW h \in Handlers, NEW user \in Users, NEW status \in ProviderStatuses,
              ApproveProviderRead(h, user, status)
       PROVE  OneAtATime' /\ PlatformInv'
  <2>1. /\ Begin(h, Work("approve_provider", user, 0, 0, status)) /\ UNCHANGED platformVars
        /\ provider.status # "ABSENT" /\ provider.by # user
        /\ status \in {"APPROVED_FOR_PILOT", "ENABLED"}
    BY <1>16 DEF ApproveProviderRead
  <2>2. work'[h].op = "approve_provider" /\ work'[h].user = user /\ work'[h].text = status
    BY <2>1, Noted
  <2>3. PlatformShaped(h)' /\ PlatformFresh(h)'
    BY <2>1, <2>2 DEF PlatformShaped, PlatformFresh, Doing, platformVars
  <2> QED BY <1>u, <2>1, <2>3, PlatformReads
<1>17. ASSUME NEW h \in Handlers, ActivatePilotRead(h) PROVE OneAtATime' /\ PlatformInv'
  <2>1. /\ Begin(h, Work("activate_pilot", None, 0, 0, "none")) /\ UNCHANGED platformVars
        /\ Ready(item)
    BY <1>17 DEF ActivatePilotRead
  <2>2. work'[h].op = "activate_pilot"
    BY <2>1, Noted
  <2>3. PlatformShaped(h)' /\ PlatformFresh(h)'
    BY <2>1, <2>2 DEF PlatformShaped, PlatformFresh, Doing, platformVars, Ready
  <2> QED BY <1>u, <2>1, <2>3, PlatformReads
<1>18. ASSUME NEW h \in Handlers, UpdatePilotReadinessItem(h) PROVE OneAtATime' /\ PlatformInv'
  <2> DEFINE i == work[h].id
             status == work[h].text
  <2>1. /\ Busy(h) /\ End(h) /\ i \in Items /\ status \in ItemStatuses
        /\ item' = [item EXCEPT ![i] = status]
        /\ assessment' = IF work[h].number = 1 THEN "READY" ELSE "BLOCKED"
        /\ UNCHANGED <<accessVars, killSwitch, pilot, provider>>
        /\ ~raced => (work[h].number = 1 <=> Ready([item EXCEPT ![i] = status]))
    BY <1>1, <1>18 DEF UpdatePilotReadinessItem, Busy, Doing, PlatformShaped, PlatformFresh
  <2> HIDE DEF i, status
  <2>2. PlatformTypeOK'
    BY <1>1, <2>1 DEF PlatformTypeOK, accessVars, AssessmentStatuses
  <2>3. Ready(item)' <=> Ready([item EXCEPT ![i] = status])
    BY <2>1 DEF Ready
  <2>4. ~raced => Backed'
    BY <1>1, <2>1, <2>3 DEF Backed, accessVars
  <2> QED BY <1>k, <2>1, <2>2, <2>4, PlatformWrites DEF accessVars
<1>19. ASSUME NEW h \in Handlers, ActivatePilot(h) PROVE OneAtATime' /\ PlatformInv'
  <2>1. /\ Busy(h) /\ End(h) /\ pilot' = TRUE
        /\ UNCHANGED <<accessVars, killSwitch, item, assessment, provider>>
    BY <1>19 DEF ActivatePilot, Busy, Doing
  <2>2. PlatformTypeOK' /\ (~raced => Backed')
    BY <1>1, <2>1 DEF PlatformTypeOK, accessVars, Backed, Ready
  <2> QED BY <1>k, <2>1, <2>2, PlatformWrites DEF accessVars
<1>20. ASSUME NEW h \in Handlers, ApproveProviderEnablement(h) PROVE OneAtATime' /\ PlatformInv'
  <2> DEFINE user == work[h].user
             status == work[h].text
  <2>1. /\ Busy(h) /\ End(h) /\ user \in Users \ {provider.by}
        /\ status \in {"APPROVED_FOR_PILOT", "ENABLED"}
        /\ provider' = [status |-> status, by |-> provider.by, approver |-> user]
        /\ UNCHANGED <<accessVars, killSwitch, pilotVars>>
    BY <1>1, <1>20 DEF ApproveProviderEnablement, Busy, Doing, PlatformShaped, Provider
  <2> HIDE DEF user, status
  <2>2. provider' \in [status : ProviderStatuses, by : Users \cup {None},
                       approver : Users \cup {None}]
    BY <1>t, <2>1 DEF ProviderStatuses
  <2>3. PlatformTypeOK' /\ (~raced => Backed')
    BY <1>1, <2>1, <2>2 DEF PlatformTypeOK, accessVars, pilotVars, Backed, Ready
  <2>4. Approved' /\ AskersStay
    BY <1>1, <2>1 DEF Approved, AskersStay, accessVars
  <2> QED BY <2>1, <2>3, <2>4, PlatformWrites
<1>21. ASSUME NEW h \in Handlers, RollBack(h), UNCHANGED platformVars
       PROVE  OneAtATime' /\ PlatformInv'
  <2>1. PlatformTypeOK' /\ (~raced => Backed')
    BY <1>1, <1>21 DEF PlatformTypeOK, platformVars, Backed, Ready
  <2> QED BY <1>k, <1>21, <2>1, PlatformWrites DEF RollBack, platformVars
<1> QED
  BY <1>2, <1>3, <1>4, <1>5, <1>6, <1>7, <1>8, <1>9, <1>10, <1>11, <1>12, <1>13, <1>14, <1>15,
     <1>16, <1>17, <1>18, <1>19, <1>20, <1>21 DEF PlatformNext

(* The action property of the platform.                                       *)
LEMMA PilotStarts ==
  ASSUME PlatformInv, PlatformNext, pilot' # pilot, ~raced
  PROVE  Ready(item)
<1>1. \E h \in Handlers : ActivatePilot(h)
  BY DEF PlatformNext, InviteTenantUser, InvitationExpires, AcceptInvitationRead,
         RevokeInvitationRead, RequestSupportAccess, ApproveSupportRead, RevokeSupportAccess,
         SetKillSwitch, CreatePilotReadinessAssessment, CreateProviderEnablement,
         UpdateItemRead, ApproveProviderRead, ActivatePilotRead, AcceptInvitation,
         RevokeInvitation, ApproveSupportAccess, UpdatePilotReadinessItem,
         ApproveProviderEnablement, platformVars, pilotVars
<1> QED BY <1>1 DEF PlatformInv, PlatformFresh, ActivatePilot

-----------------------------------------------------------------------------
(* Connectors.                                                                *)
LEMMA ConnectorBegins ==
  ASSUME ConnectorInit
  PROVE  ConnectorTypeOK /\ SyncIsAccounted /\ (Quiet => ConnectorInv)
<1> USE ConnectorAssumption DEF Records, Runs
<1>1. /\ account = [status |-> "ABSENT", by |-> None, approver |-> None]
      /\ scope = [status |-> "ABSENT", by |-> None, approver |-> None]
      /\ cursor = 0 /\ filtered = TRUE /\ arrived = 0
      /\ document = [record \in Records |-> 0] /\ dropped = {}
      /\ syncRun = [k \in Runs |-> "ABSENT"] /\ webhook = {}
      /\ plan = [h \in Handlers |->
                  [from |-> 0, filter |-> FALSE, upTo |-> 0, imports |-> {}, drops |-> {}]]
  BY DEF ConnectorInit, Approval, NoPlan, Plan
<1>2. plan \in [Handlers -> Plans]
  BY <1>1 DEF Plans
<1>3. ConnectorTypeOK
  BY <1>1 DEF ConnectorTypeOK, AccountStatuses, ScopeStatuses, RunStatuses
<1>4. SyncIsAccounted
  <2>1. ASSUME NEW record \in Records
        PROVE  document[record] = 0 /\ ~(document[record] > 0) /\ document[record] <= 1
               /\ ~(record <= cursor)
    BY <1>1
  <2>2. ImportsAreApproved
    BY <2>1 DEF ImportsAreApproved
  <2>3. CheckpointAccountsForRecords
    BY <2>1 DEF CheckpointAccountsForRecords
  <2> QED BY <2>2, <2>3 DEF SyncIsAccounted
<1> QED BY <1>1, <1>2, <1>3, <1>4 DEF ConnectorInv, ConnectorShaped, ConnectorFresh, Busy,
                                        Doing, Quiet

(* A step of one handler that changes at most its own plan.                   *)
PlansOnly(h) ==
  /\ plan' \in [Handlers -> Plans]
  /\ \A g \in Handlers \ {h} : plan'[g] = plan[g]
  /\ UNCHANGED <<account, scope, cursor, filtered, arrived, document, dropped, syncRun, webhook>>

LEMMA ConnectorReads ==
  ASSUME OneAtATime, ConnectorInv, NEW h \in Handlers, PlansOnly(h),
         NEW op, op # "idle", NEW user \in Users \cup {None}, NEW text,
         Begin(h, Work(op, user, 0, 0, text)),
         ConnectorShaped(h)', ~raced' => ConnectorFresh(h)'
  PROVE  OneAtATime' /\ ConnectorInv'
<1>0. 0 \in Nat
  OBVIOUS
<1>1. /\ OneAtATime' /\ \A g \in Handlers \ {h} : work'[g] = work[g]
      /\ ~raced' => ~raced /\ \A g \in Handlers : ~Busy(g) /\ (g # h => ~Busy(g)')
  BY <1>0, Begun
<1>2. ConnectorTypeOK'
  BY DEF ConnectorInv, ConnectorTypeOK, PlansOnly, Plans
<1>3. SyncIsAccounted'
  BY <1>1 DEF ConnectorInv, SyncIsAccounted, PlansOnly, ImportsAreApproved,
              CheckpointAccountsForRecords
<1>4. \A g \in Handlers : ConnectorShaped(g)'
  <2>1. /\ scope' = scope /\ \A g \in Handlers \ {h} : plan'[g] = plan[g]
        /\ \A record \in Records : Accounted(record)' <=> Accounted(record)
    BY DEF PlansOnly, Accounted
  <2>2. ASSUME NEW g \in Handlers \ {h} PROVE ConnectorShaped(g)'
    <3>1. ConnectorShaped(g) /\ work'[g] = work[g] /\ plan'[g] = plan[g]
      BY <1>1, <2>1 DEF ConnectorInv
    <3> QED BY <2>1, <3>1 DEF ConnectorShaped, Doing
  <2> QED BY <2>2
<1>5. ~raced' => \A g \in Handlers : ConnectorFresh(g)'
  BY <1>1 DEF ConnectorFresh, Busy, Doing
<1> QED BY <1>1, <1>2, <1>3, <1>4, <1>5 DEF ConnectorInv, PlansOnly

LEMMA ConnectorGoesOn ==
  ASSUME OneAtATime, ConnectorInv, NEW h \in Handlers, Busy(h), PlansOnly(h),
         GoesOn(h, Work("import", None, 0, 0, "none")),
         ConnectorShaped(h)', ~raced' => ConnectorFresh(h)'
  PROVE  OneAtATime' /\ ConnectorInv'
<1> DEFINE next == Work("import", None, 0, 0, "none")
<1>0. /\ next.op # "idle" /\ next.user \in Users \cup {None}
      /\ next.id \in Nat /\ next.number \in Nat
  BY DEF Work
<1>1. /\ OneAtATime' /\ \A g \in Handlers \ {h} : work'[g] = work[g]
      /\ ~raced => \A g \in Handlers \ {h} : ~Busy(g) /\ ~Busy(g)'
  BY <1>0, WentOn
<1>r. raced' = raced
  BY DEF GoesOn
<1>2. ConnectorTypeOK'
  BY DEF ConnectorInv, ConnectorTypeOK, PlansOnly, Plans
<1>3. SyncIsAccounted'
  BY <1>r DEF ConnectorInv, SyncIsAccounted, PlansOnly, ImportsAreApproved,
              CheckpointAccountsForRecords
<1>4. \A g \in Handlers : ConnectorShaped(g)'
  <2>1. /\ scope' = scope /\ \A g \in Handlers \ {h} : plan'[g] = plan[g]
        /\ \A record \in Records : Accounted(record)' <=> Accounted(record)
    BY DEF PlansOnly, Accounted
  <2>2. ASSUME NEW g \in Handlers \ {h} PROVE ConnectorShaped(g)'
    <3>1. ConnectorShaped(g) /\ work'[g] = work[g] /\ plan'[g] = plan[g]
      BY <1>1, <2>1 DEF ConnectorInv
    <3> QED BY <2>1, <3>1 DEF ConnectorShaped, Doing
  <2> QED BY <2>2
<1>5. ~raced' => \A g \in Handlers : ConnectorFresh(g)'
  BY <1>1, <1>r DEF ConnectorFresh, Busy, Doing
<1> QED BY <1>1, <1>2, <1>3, <1>4, <1>5 DEF ConnectorInv, PlansOnly

(* What no step takes back: an approval, and what accounts for a record.      *)
SyncsStay ==
  /\ scope.status # "ABSENT" => scope'.status # "ABSENT" /\ scope'.by = scope.by
  /\ scope.status = "ACTIVE" => scope'.status = "ACTIVE"
  /\ \A record \in Records : Accounted(record) => Accounted(record)'

LEMMA ConnectorWrites ==
  ASSUME OneAtATime, ConnectorInv, ConnectorTypeOK', ImportsAreApproved',
         \A record \in Records : record <= cursor' /\ KindOf[record] = "in_scope" =>
           Accounted(record)',
         ~raced => \A record \in Records : document'[record] <= 1,
         scope'.status = "ACTIVE" => scope'.approver \notin {None, scope'.by},
         plan' \in [Handlers -> Plans], SyncsStay,
         \/ AtOnce /\ plan' = plan
         \/ \E h \in Handlers : /\ Busy(h) /\ End(h)
                                /\ \A g \in Handlers \ {h} : plan'[g] = plan[g]
  PROVE  OneAtATime' /\ ConnectorInv'
<1>1. CASE AtOnce /\ plan' = plan
  <2>1. OneAtATime' /\ work' = work /\ (~raced' => ~raced /\ \A g \in Handlers : ~Busy(g)')
    BY <1>1, DoneAtOnce
  <2>2. \A g \in Handlers : ConnectorShaped(g)'
    BY <1>1, <2>1 DEF ConnectorInv, ConnectorShaped, Doing, SyncsStay
  <2>3. ~raced' => \A g \in Handlers : ConnectorFresh(g)'
    BY <2>1 DEF ConnectorFresh, Busy, Doing
  <2>4. SyncIsAccounted'
    BY <2>1 DEF SyncIsAccounted, CheckpointAccountsForRecords, Accounted
  <2> QED BY <2>1, <2>2, <2>3, <2>4 DEF ConnectorInv
<1>2. ASSUME NEW h \in Handlers, Busy(h), End(h), \A g \in Handlers \ {h} : plan'[g] = plan[g]
      PROVE  OneAtATime' /\ ConnectorInv'
  <2>1. /\ OneAtATime' /\ ~Busy(h)' /\ raced' = raced
        /\ \A g \in Handlers \ {h} : work'[g] = work[g]
        /\ ~raced => \A g \in Handlers : ~Busy(g)'
    BY <1>2, Ended
  <2>2. \A g \in Handlers : ConnectorShaped(g)'
    <3>1. ConnectorShaped(h)'
      BY <2>1 DEF ConnectorShaped, Busy, Doing
    <3>2. \A g \in Handlers \ {h} : ConnectorShaped(g)'
      BY <1>2, <2>1 DEF ConnectorInv, ConnectorShaped, Doing, SyncsStay
    <3> QED BY <3>1, <3>2
  <2>3. ~raced' => \A g \in Handlers : ConnectorFresh(g)'
    BY <2>1 DEF ConnectorFresh, Busy, Doing
  <2>4. SyncIsAccounted'
    BY <2>1 DEF SyncIsAccounted, CheckpointAccountsForRecords, Accounted
  <2> QED BY <2>1, <2>2, <2>3, <2>4 DEF ConnectorInv
<1> QED BY <1>1, <1>2

(* A write of the account or the scope leaves the syncs alone.                *)
LEMMA ConnectorApproves ==
  ASSUME OneAtATime, ConnectorInv, UNCHANGED syncVars,
         account' \in [status : AccountStatuses, by : Users \cup {None}, approver : Users \cup {None}],
         scope' \in [status : ScopeStatuses, by : Users \cup {None}, approver : Users \cup {None}],
         scope'.status = "ACTIVE" => scope'.approver \notin {None, scope'.by},
         scope.status # "ABSENT" => scope'.status # "ABSENT" /\ scope'.by = scope.by,
         scope.status = "ACTIVE" => scope'.status = "ACTIVE",
         AtOnce \/ \E h \in Handlers : Busy(h) /\ End(h)
  PROVE  OneAtATime' /\ ConnectorInv'
<1>1. ConnectorTypeOK' /\ plan' = plan /\ plan' \in [Handlers -> Plans]
  BY DEF ConnectorInv, ConnectorTypeOK, syncVars
<1>2. SyncsStay
  BY DEF SyncsStay, Accounted, syncVars
<1>3. ImportsAreApproved'
  BY DEF ConnectorInv, SyncIsAccounted, ImportsAreApproved, syncVars
<1>4. /\ \A record \in Records : record <= cursor' /\ KindOf[record] = "in_scope" =>
           Accounted(record)'
      /\ ~raced => \A record \in Records : document'[record] <= 1
  BY DEF ConnectorInv, SyncIsAccounted, CheckpointAccountsForRecords, Accounted, syncVars
<1> QED BY <1>1, <1>2, <1>3, <1>4, ConnectorWrites

LEMMA ConnectorKeeps ==
  ASSUME OneAtATime, ConnectorInv, ConnectorNext
  PROVE  OneAtATime' /\ ConnectorInv'
<1> USE TransactionsAssumption, ConnectorAssumption
<1>1. /\ ConnectorTypeOK /\ ImportsAreApproved /\ CheckpointAccountsForRecords
      /\ plan \in [Handlers -> Plans]
      /\ scope.status = "ACTIVE" => scope.approver \notin {None, scope.by}
      /\ \A h \in Handlers : ConnectorShaped(h)
      /\ ~raced => \A h \in Handlers : ConnectorFresh(h)
  BY DEF ConnectorInv, SyncIsAccounted
<1>t. /\ account \in [status : AccountStatuses, by : Users \cup {None}, approver : Users \cup {None}]
      /\ scope \in [status : ScopeStatuses, by : Users \cup {None}, approver : Users \cup {None}]
      /\ cursor \in 0 .. MaxRecords /\ arrived \in 0 .. MaxRecords /\ filtered \in BOOLEAN
      /\ document \in [Records -> Nat] /\ dropped \subseteq Records
      /\ syncRun \in [Runs -> RunStatuses] /\ webhook \subseteq WebhookIds
  BY <1>1 DEF ConnectorTypeOK
<1>u. /\ None \in Users \cup {None} /\ Users \subseteq Users \cup {None}
      /\ account.by \in Users \cup {None} /\ scope.by \in Users \cup {None}
  BY <1>t
<1>2. ASSUME NEW user \in Users, CreateConnectorAccount(user) PROVE OneAtATime' /\ ConnectorInv'
  <2>1. /\ account' = [status |-> "DRAFT", by |-> user, approver |-> None]
        /\ AtOnce /\ UNCHANGED <<scope, syncVars>>
    BY <1>2 DEF CreateConnectorAccount, Approval
  <2>2. account' \in [status : AccountStatuses, by : Users \cup {None},
                      approver : Users \cup {None}]
    BY <2>1 DEF AccountStatuses
  <2> QED BY <1>1, <1>t, <2>1, <2>2, ConnectorApproves
<1>3. ASSUME ValidateConnectorAccount \/ DisableConnectorAccount
      PROVE  OneAtATime' /\ ConnectorInv'
  <2>1. /\ \E status \in {"VALIDATED", "DISABLED"} : account' = [account EXCEPT !.status = status]
        /\ AtOnce /\ UNCHANGED <<scope, syncVars>>
    BY <1>3 DEF ValidateConnectorAccount, DisableConnectorAccount
  <2>2. account' \in [status : AccountStatuses, by : Users \cup {None},
                      approver : Users \cup {None}]
    BY <1>t, <2>1 DEF AccountStatuses
  <2> QED BY <1>1, <1>t, <2>1, <2>2, ConnectorApproves
<1>4. ASSUME NEW h \in Handlers, NEW user \in Users, ApproveAccountRead(h, user)
      PROVE  OneAtATime' /\ ConnectorInv'
  <2>1. Begin(h, Work("approve_account", user, 0, 0, "none")) /\ UNCHANGED connectorVars
    BY <1>4 DEF ApproveAccountRead
  <2>2. work'[h].op = "approve_account"
    BY <2>1, Noted
  <2>3. ConnectorShaped(h)' /\ ConnectorFresh(h)'
    BY <2>2 DEF ConnectorShaped, ConnectorFresh, Doing
  <2>4. PlansOnly(h)
    BY <1>1, <2>1 DEF PlansOnly, connectorVars
  <2> QED BY <1>u, <2>1, <2>3, <2>4, ConnectorReads
<1>5. ASSUME NEW h \in Handlers, NEW user \in Users, ApproveScopeRead(h, user)
      PROVE  OneAtATime' /\ ConnectorInv'
  <2>1. /\ Begin(h, Work("approve_scope", user, 0, 0, "none")) /\ UNCHANGED connectorVars
        /\ scope.status = "DRAFT" /\ scope.by # user
    BY <1>5 DEF ApproveScopeRead
  <2>2. work'[h].op = "approve_scope" /\ work'[h].user = user
    BY <2>1, Noted
  <2>3. ConnectorShaped(h)' /\ ConnectorFresh(h)'
    BY <2>1, <2>2 DEF ConnectorShaped, ConnectorFresh, Doing, connectorVars
  <2>4. PlansOnly(h)
    BY <1>1, <2>1 DEF PlansOnly, connectorVars
  <2> QED BY <1>u, <2>1, <2>3, <2>4, ConnectorReads
<1>6. ASSUME NEW h \in Handlers, ApproveConnectorAccount(h) PROVE OneAtATime' /\ ConnectorInv'
  <2>1. /\ account' = [status |-> "APPROVED", by |-> account.by, approver |-> work[h].user]
        /\ Busy(h) /\ End(h) /\ UNCHANGED <<scope, syncVars>>
        /\ work[h].user \in Users \cup {None}
    BY <1>6 DEF ApproveConnectorAccount, Approval, Busy, Doing, OneAtATime, TransactionsTypeOK
  <2>2. account' \in [status : AccountStatuses, by : Users \cup {None},
                      approver : Users \cup {None}]
    BY <1>u, <2>1 DEF AccountStatuses
  <2> QED BY <1>1, <1>t, <2>1, <2>2, ConnectorApproves
<1>7. ASSUME NEW user \in Users, CreateProjectScope(user) PROVE OneAtATime' /\ ConnectorInv'
  <2>1. /\ scope' = [status |-> "DRAFT", by |-> user, approver |-> None]
        /\ scope.status = "ABSENT" /\ AtOnce /\ UNCHANGED <<account, syncVars>>
    BY <1>7 DEF CreateProjectScope, Approval
  <2>2. scope' \in [status : ScopeStatuses, by : Users \cup {None}, approver : Users \cup {None}]
    BY <2>1 DEF ScopeStatuses
  <2>3. scope'.status = "DRAFT"
    BY <2>1
  <2> QED BY <1>1, <1>t, <2>1, <2>2, <2>3, ConnectorApproves
<1>8. ASSUME NEW h \in Handlers, ApproveProjectScope(h) PROVE OneAtATime' /\ ConnectorInv'
  <2>1. /\ scope' = [status |-> "ACTIVE", by |-> scope.by, approver |-> work[h].user]
        /\ Busy(h) /\ End(h) /\ UNCHANGED <<account, syncVars>>
        /\ work[h].user \in Users \ {scope.by}
    BY <1>1, <1>8 DEF ApproveProjectScope, Approval, Busy, Doing, ConnectorShaped
  <2>2. scope' \in [status : ScopeStatuses, by : Users \cup {None}, approver : Users \cup {None}]
    BY <1>u, <2>1 DEF ScopeStatuses
  <2>3. scope'.status = "ACTIVE" /\ scope'.by = scope.by /\ scope'.approver \notin {None, scope'.by}
    BY <2>1
  <2> QED BY <1>1, <1>t, <2>1, <2>2, <2>3, ConnectorApproves
<1>9. ASSUME NEW h \in Handlers, StartManualSync(h) PROVE OneAtATime' /\ ConnectorInv'
  <2>1. /\ Begin(h, Work("sync", None, 0, 0, "none")) /\ scope.status = "ACTIVE"
        /\ plan' = [plan EXCEPT ![h] = [from |-> cursor, filter |-> filtered, upTo |-> cursor,
                                        imports |-> {}, drops |-> {}]]
        /\ UNCHANGED <<account, scope, cursor, filtered, arrived, document, dropped, syncRun,
                       webhook>>
    BY <1>9 DEF StartManualSync, Plan
  <2>2. work'[h].op = "sync"
    BY <2>1, Noted
  <2>3. plan'[h].from = cursor
    BY <1>1, <2>1
  <2>4. ConnectorShaped(h)' /\ ConnectorFresh(h)'
    BY <1>1, <2>1, <2>2, <2>3 DEF ConnectorShaped, ConnectorFresh, Doing, Accounted,
                                  CheckpointAccountsForRecords
  <2>5. [from |-> cursor, filter |-> filtered, upTo |-> cursor, imports |-> {}, drops |-> {}] \in Plans
    BY <1>t DEF Plans
  <2>6. PlansOnly(h)
    BY <1>1, <2>1, <2>5 DEF PlansOnly
  <2> QED BY <1>u, <2>1, <2>4, <2>6, ConnectorReads
<1>10. ASSUME NEW h \in Handlers, NEW drops \in SUBSET Records, ImportRecords(h, drops)
       PROVE  OneAtATime' /\ ConnectorInv'
  <2> DEFINE p == plan[h]
             wanted == {record \in ListedFrom(p.from) :
                          MatchesScope(record, p.filter) /\ document[record] = 0}
             next == [from |-> p.from, filter |-> p.filter, upTo |-> arrived,
                      imports |-> wanted \ drops, drops |-> drops]
  <2>1. /\ Busy(h) /\ Doing(h, "sync") /\ drops \subseteq wanted
        /\ plan' = [plan EXCEPT ![h] = next]
        /\ GoesOn(h, Work("import", None, 0, 0, "none"))
        /\ UNCHANGED <<account, scope, cursor, filtered, arrived, document, dropped, syncRun,
                       webhook>>
    BY <1>10 DEF ImportRecords, GoesOn, Busy, Doing, Plan
  <2>2. work'[h].op = "import"
    BY <2>1 DEF GoesOn, OneAtATime, TransactionsTypeOK, Work
  <2>3. p \in Plans /\ wanted \subseteq Records /\ p.from \in Nat
    BY <1>1 DEF ListedFrom, Plans
  <2>4. next \in Plans
    BY <1>t, <2>3 DEF Plans
  <2>5. PlansOnly(h)
    BY <1>1, <2>1, <2>4 DEF PlansOnly
  <2>6. plan'[h].imports = wanted \ drops /\ plan'[h].drops = drops /\ plan'[h].upTo = arrived
    BY <1>1, <2>1
  <2>7. \A record \in wanted : KindOf[record] # "excluded" /\ document[record] = 0
    BY DEF MatchesScope
  <2>8. /\ scope.status = "ACTIVE"
        /\ \A record \in Records :
             record <= p.from /\ KindOf[record] = "in_scope" => Accounted(record)
    BY <1>1, <2>1 DEF ConnectorShaped
  <2>9. ASSUME NEW record \in Records, record <= arrived, KindOf[record] = "in_scope"
        PROVE  Accounted(record) \/ record \in wanted
    <3>1. CASE record <= p.from
      BY <2>8, <2>9, <3>1
    <3>2. CASE ~(record <= p.from)
      <4>1. record \in Int /\ p.from \in Int /\ MaxRecords \in Int
        BY <2>3 DEF Records
      <4>2. p.from < record
        BY <3>2, <4>1
      <4>3. record \in ListedFrom(p.from) /\ MatchesScope(record, p.filter)
        BY <2>9, <4>2 DEF ListedFrom, MatchesScope
      <4>4. document[record] \in Nat
        BY <1>t
      <4>5. document[record] = 0 \/ document[record] > 0
        BY <4>4
      <4> QED BY <4>3, <4>5 DEF Accounted
    <3> QED BY <3>1, <3>2
  <2> HIDE DEF wanted, next
  <2>10. ConnectorFresh(h)'
    BY <2>1, <2>6, <2>7 DEF ConnectorFresh
  <2>11. ConnectorShaped(h)'
    <3>1. \A record \in Records : Accounted(record)' <=> Accounted(record)
      BY <2>1 DEF Accounted
    <3>2. ~Doing(h, "approve_scope")' /\ ~Doing(h, "sync")'
      BY <2>2 DEF Doing
    <3>3. \A record \in plan'[h].imports : KindOf[record] # "excluded"
      BY <2>6, <2>7
    <3>4. \A record \in Records : record <= plan'[h].upTo /\ KindOf[record] = "in_scope" =>
            Accounted(record)' \/ record \in plan'[h].imports \cup plan'[h].drops
      BY <2>6, <2>9, <3>1
    <3>5. scope' = scope
      BY <2>1
    <3> QED BY <2>8, <3>2, <3>3, <3>4, <3>5 DEF ConnectorShaped
  <2> QED BY <2>1, <2>5, <2>10, <2>11, ConnectorGoesOn
<1>11. ASSUME NEW h \in Handlers, NEW k \in Runs, FinishSync(h, k)
       PROVE  OneAtATime' /\ ConnectorInv'
  <2> DEFINE p == plan[h]
             none == [from |-> 0, filter |-> FALSE, upTo |-> 0, imports |-> {}, drops |-> {}]
             status == FinalStatus(p.imports, p.drops)
  <2>1. /\ Busy(h) /\ Doing(h, "import") /\ End(h)
        /\ document' = [record \in Records |->
             IF record \in p.imports THEN document[record] + 1 ELSE document[record]]
        /\ dropped' = dropped \cup p.drops /\ cursor' = p.upTo /\ filtered' = FALSE
        /\ syncRun' = [syncRun EXCEPT ![k] = status]
        /\ plan' = [plan EXCEPT ![h] = none]
        /\ UNCHANGED <<account, scope, arrived, webhook>>
    BY <1>11 DEF FinishSync, Busy, Doing, NoPlan, Plan
  <2>2. p \in Plans
    BY <1>1
  <2>3. p.upTo \in 0 .. MaxRecords /\ p.imports \subseteq Records /\ p.drops \subseteq Records
    BY <2>2 DEF Plans
  <2>4. /\ scope.status = "ACTIVE"
        /\ \A record \in p.imports : KindOf[record] # "excluded"
        /\ \A record \in Records : record <= p.upTo /\ KindOf[record] = "in_scope" =>
             Accounted(record) \/ record \in p.imports \cup p.drops
        /\ ~raced => \A record \in p.imports : document[record] = 0
    BY <1>1, <2>1 DEF ConnectorShaped, ConnectorFresh
  <2>5. none \in Plans /\ status \in RunStatuses
    BY DEF Plans, FinalStatus, RunStatuses
  <2> HIDE DEF p, none, status
  <2>6. plan' \in [Handlers -> Plans] /\ \A g \in Handlers \ {h} : plan'[g] = plan[g]
    BY <1>1, <2>1, <2>5
  <2>7. document' \in [Records -> Nat] /\ syncRun' \in [Runs -> RunStatuses]
    BY <1>t, <2>1, <2>5
  <2>8. \A record \in Records : Accounted(record) => Accounted(record)'
    BY <1>t, <2>1 DEF Accounted
  <2>9. ASSUME NEW record \in Records, record \in p.imports \cup p.drops PROVE Accounted(record)'
    BY <1>t, <2>1, <2>9 DEF Accounted
  <2>10. ConnectorTypeOK'
    BY <1>1, <1>t, <2>1, <2>3, <2>6, <2>7 DEF ConnectorTypeOK, Plans
  <2>11. \A record \in Records : document'[record] > 0 =>
           document[record] > 0 \/ record \in p.imports
    BY <1>t, <2>1
  <2>12. ImportsAreApproved'
    BY <1>1, <2>1, <2>4, <2>11 DEF ImportsAreApproved
  <2>13. \A record \in Records : record <= cursor' /\ KindOf[record] = "in_scope" =>
           Accounted(record)'
    BY <2>1, <2>4, <2>8, <2>9
  <2>14. ASSUME ~raced, NEW record \in Records PROVE document'[record] <= 1
    <3>1. document[record] \in Nat /\ document[record] <= 1
      BY <1>1, <1>t, <2>14 DEF CheckpointAccountsForRecords
    <3>2. document'[record] = IF record \in p.imports THEN document[record] + 1 ELSE document[record]
      BY <2>1
    <3>3. record \in p.imports => document[record] = 0
      BY <2>4, <2>14
    <3>4. CASE record \in p.imports
      BY <3>2, <3>3, <3>4
    <3>5. CASE record \notin p.imports
      BY <3>1, <3>2, <3>5
    <3> QED BY <3>4, <3>5
  <2>15. SyncsStay
    BY <2>1, <2>8 DEF SyncsStay
  <2>16. scope'.status = "ACTIVE" => scope'.approver \notin {None, scope'.by}
    BY <1>1, <2>1
  <2> QED BY <2>1, <2>6, <2>10, <2>12, <2>13, <2>14, <2>15, <2>16, ConnectorWrites
<1>12. ASSUME NEW h \in Handlers, AbandonTransaction(h) PROVE OneAtATime' /\ ConnectorInv'
  <2> DEFINE none == [from |-> 0, filter |-> FALSE, upTo |-> 0, imports |-> {}, drops |-> {}]
  <2>1. /\ Busy(h) /\ End(h) /\ plan' = [plan EXCEPT ![h] = none]
        /\ UNCHANGED <<account, scope, cursor, filtered, arrived, document, dropped, syncRun,
                       webhook>>
    BY <1>12 DEF AbandonTransaction, RollBack, NoPlan, Plan
  <2>2. none \in Plans
    BY DEF Plans
  <2> HIDE DEF none
  <2>3. plan' \in [Handlers -> Plans] /\ \A g \in Handlers \ {h} : plan'[g] = plan[g]
    BY <1>1, <2>1, <2>2
  <2>4. ConnectorTypeOK'
    BY <1>t, <2>1, <2>3 DEF ConnectorTypeOK, Plans
  <2>5. ImportsAreApproved'
    BY <1>1, <2>1 DEF ImportsAreApproved
  <2>6. /\ \A record \in Records : record <= cursor' /\ KindOf[record] = "in_scope" =>
             Accounted(record)'
        /\ ~raced => \A record \in Records : document'[record] <= 1
    BY <1>1, <2>1 DEF CheckpointAccountsForRecords, Accounted
  <2>7. SyncsStay
    BY <2>1 DEF SyncsStay, Accounted
  <2>8. scope'.status = "ACTIVE" => scope'.approver \notin {None, scope'.by}
    BY <1>1, <2>1
  <2> QED BY <2>1, <2>3, <2>4, <2>5, <2>6, <2>7, <2>8, ConnectorWrites
<1>13. ASSUME MailArrives \/ \E id \in WebhookIds : ProcessConnectorWebhook(id)
       PROVE  OneAtATime' /\ ConnectorInv'
  <2>1. /\ AtOnce /\ arrived' \in 0 .. MaxRecords /\ webhook' \subseteq WebhookIds
        /\ UNCHANGED <<account, scope, cursor, filtered, document, dropped, syncRun, plan>>
    BY <1>t, <1>13 DEF MailArrives, ProcessConnectorWebhook
  <2>2. ConnectorTypeOK'
    BY <1>1, <1>t, <2>1 DEF ConnectorTypeOK
  <2>3. ImportsAreApproved'
    BY <1>1, <2>1 DEF ImportsAreApproved
  <2>4. /\ \A record \in Records : record <= cursor' /\ KindOf[record] = "in_scope" =>
             Accounted(record)'
        /\ ~raced => \A record \in Records : document'[record] <= 1
    BY <1>1, <2>1 DEF CheckpointAccountsForRecords, Accounted
  <2>5. SyncsStay
    BY <2>1 DEF SyncsStay, Accounted
  <2>6. scope'.status = "ACTIVE" => scope'.approver \notin {None, scope'.by}
    BY <1>1, <2>1
  <2> QED BY <1>1, <2>1, <2>2, <2>3, <2>4, <2>5, <2>6, ConnectorWrites
<1> QED
  BY <1>2, <1>3, <1>4, <1>5, <1>6, <1>7, <1>8, <1>9, <1>10, <1>11, <1>12, <1>13 DEF ConnectorNext

-----------------------------------------------------------------------------
(* Notice records.                                                            *)
LEMMA RecordsBegin ==
  ASSUME RecordsInit
  PROVE  RecordsTypeOK /\ PapersAreReviewed /\ (Quiet => RecordsInv)
<1> USE RecordsAssumption DEF Questions, Attachments
<1>1. /\ requirement = [c \in Categories |-> "ABSENT"] /\ linked = {}
      /\ fact = [t \in FactTypes |-> [status |-> "ABSENT", approved |-> FALSE, once |-> FALSE]]
      /\ verified = {} /\ exception = {}
      /\ question = [q \in Questions |-> [status |-> "ABSENT", answer |-> 0, read |-> 0]]
      /\ attachment = [a \in Attachments |-> NoAttachment]
  BY DEF RecordsInit, NoFact, Fact, NoQuestion, Question
<1>2. NoAttachment = [status |-> "ABSENT", sequence |-> 0]
  BY DEF NoAttachment, Attachment
<1>3. RecordsTypeOK
  <2>1. /\ requirement \in [Categories -> SatisfactionStatuses]
        /\ linked \subseteq Categories /\ verified \subseteq Recipients /\ exception \subseteq Issues
    BY <1>1 DEF SatisfactionStatuses
  <2>2. fact \in [FactTypes -> [status : FactStatuses, approved : BOOLEAN, once : BOOLEAN]]
    BY <1>1 DEF FactStatuses
  <2>3. question \in [Questions -> [status : QuestionStatuses, answer : Nat, read : Nat]]
    BY <1>1 DEF QuestionStatuses
  <2>4. attachment \in [Attachments -> [status : InclusionStatuses, sequence : Nat]]
    BY <1>1, <1>2 DEF InclusionStatuses
  <2> QED BY <2>1, <2>2, <2>3, <2>4 DEF RecordsTypeOK
<1>4. SatisfiedIsGrounded
  BY <1>1 DEF SatisfiedIsGrounded
<1>5. ReviewedIsWhatStands /\ AttachmentsAreDense
  BY <1>1 DEF ReviewedIsWhatStands, AttachmentsAreDense
<1> QED BY <1>3, <1>4, <1>5 DEF RecordsInv, PapersAreReviewed, RecordsShaped, RecordsFresh,
                                Busy, Doing, Quiet

LEMMA RecordsReads ==
  ASSUME OneAtATime, RecordsInv, UNCHANGED recordsVars, NEW h \in Handlers,
         NEW op, op # "idle", NEW id \in Nat, NEW number \in Nat,
         Begin(h, Work(op, None, id, number, "none")),
         RecordsShaped(h)', ~raced' => RecordsFresh(h)'
  PROVE  OneAtATime' /\ RecordsInv'
<1>0. None \in Users \cup {None}
  OBVIOUS
<1>1. /\ OneAtATime' /\ \A g \in Handlers \ {h} : work'[g] = work[g]
      /\ ~raced' => ~raced /\ \A g \in Handlers : ~Busy(g) /\ (g # h => ~Busy(g)')
  BY <1>0, Begun
<1>2. RecordsTypeOK'
  BY DEF RecordsInv, RecordsTypeOK, recordsVars
<1>3. PapersAreReviewed'
  BY <1>1 DEF RecordsInv, PapersAreReviewed, recordsVars, SatisfiedIsGrounded,
              ReviewedIsWhatStands
<1>4. \A g \in Handlers : RecordsShaped(g)'
  BY <1>1 DEF RecordsInv, RecordsShaped, Doing
<1>5. ~raced' => \A g \in Handlers : RecordsFresh(g)'
  BY <1>1 DEF RecordsFresh, Busy, Doing
<1>6. ~raced' => AttachmentsAreDense'
  BY <1>1 DEF RecordsInv, AttachmentsAreDense, recordsVars
<1> QED BY <1>1, <1>2, <1>3, <1>4, <1>5, <1>6 DEF RecordsInv

(* What stands, once the handlers' overlap is set aside.                      *)
Stands ==
  /\ \A q \in Questions : question[q].status = "RESOLVED" => question[q].read = question[q].answer
  /\ \A a \in Attachments : attachment[a] # NoAttachment => attachment[a].sequence = a
  /\ AttachmentsAreDense

LEMMA RecordsWrites ==
  ASSUME OneAtATime, RecordsInv, RecordsTypeOK', SatisfiedIsGrounded', ~raced => Stands',
         AtOnce \/ \E h \in Handlers : Busy(h) /\ End(h)
  PROVE  OneAtATime' /\ RecordsInv'
<1>1. CASE AtOnce
  <2>1. OneAtATime' /\ work' = work /\ (~raced' => ~raced /\ \A g \in Handlers : ~Busy(g)')
    BY <1>1, DoneAtOnce
  <2>2. \A g \in Handlers : RecordsShaped(g)'
    BY <2>1 DEF RecordsInv, RecordsShaped, Doing
  <2>3. ~raced' => \A g \in Handlers : RecordsFresh(g)'
    BY <2>1 DEF RecordsFresh, Busy, Doing
  <2> QED BY <2>1, <2>2, <2>3 DEF RecordsInv, PapersAreReviewed, ReviewedIsWhatStands, Stands
<1>2. ASSUME NEW h \in Handlers, Busy(h), End(h) PROVE OneAtATime' /\ RecordsInv'
  <2>1. /\ OneAtATime' /\ ~Busy(h)' /\ raced' = raced
        /\ \A g \in Handlers \ {h} : work'[g] = work[g]
        /\ ~raced => \A g \in Handlers : ~Busy(g)'
    BY <1>2, Ended
  <2>2. \A g \in Handlers : RecordsShaped(g)'
    BY <2>1 DEF RecordsInv, RecordsShaped, Busy, Doing
  <2>3. ~raced' => \A g \in Handlers : RecordsFresh(g)'
    BY <2>1 DEF RecordsFresh, Busy, Doing
  <2> QED BY <2>1, <2>2, <2>3 DEF RecordsInv, PapersAreReviewed, ReviewedIsWhatStands, Stands
<1> QED BY <1>1, <1>2

(* A step that leaves questions and attachments alone.                        *)
LEMMA PapersChange ==
  ASSUME OneAtATime, RecordsInv, UNCHANGED <<question, attachment>>, AtOnce,
         requirement' \in [Categories -> SatisfactionStatuses], linked' \subseteq Categories,
         fact' \in [FactTypes -> [status : FactStatuses, approved : BOOLEAN, once : BOOLEAN]],
         verified' \subseteq Recipients, exception' \subseteq Issues, SatisfiedIsGrounded'
  PROVE  OneAtATime' /\ RecordsInv'
<1>1. RecordsTypeOK'
  BY DEF RecordsInv, RecordsTypeOK
<1>2. ~raced => Stands'
  BY DEF RecordsInv, PapersAreReviewed, ReviewedIsWhatStands, Stands, AttachmentsAreDense
<1> QED BY <1>1, <1>2, RecordsWrites

LEMMA RecordsKeep ==
  ASSUME OneAtATime, RecordsInv, RecordsNext
  PROVE  OneAtATime' /\ RecordsInv'
<1> USE RecordsAssumption
<1>1. /\ RecordsTypeOK /\ SatisfiedIsGrounded /\ (~raced => Stands)
      /\ \A h \in Handlers : RecordsShaped(h)
      /\ ~raced => \A h \in Handlers : RecordsFresh(h)
  BY DEF RecordsInv, PapersAreReviewed, ReviewedIsWhatStands, Stands
<1>t. /\ requirement \in [Categories -> SatisfactionStatuses]
      /\ linked \subseteq Categories
      /\ fact \in [FactTypes -> [status : FactStatuses, approved : BOOLEAN, once : BOOLEAN]]
      /\ verified \subseteq Recipients
      /\ question \in [Questions -> [status : QuestionStatuses, answer : Nat, read : Nat]]
      /\ attachment \in [Attachments -> [status : InclusionStatuses, sequence : Nat]]
      /\ exception \subseteq Issues
  BY <1>1 DEF RecordsTypeOK
<1>u. /\ \A q \in Questions : question[q].answer \in Nat /\ question[q].read \in Nat
      /\ \A t \in FactTypes : fact[t].once \in BOOLEAN
      /\ Questions \subseteq Nat /\ Attachments \subseteq Nat \ {0} /\ 0 \in Nat
      /\ \A h \in Handlers : work[h].number \in Nat
      /\ NoAttachment.status = "ABSENT" /\ NoAttachment.sequence = 0
  BY <1>t DEF Questions, Attachments, NoAttachment, Attachment, OneAtATime, TransactionsTypeOK
(* The papers.                                                                *)
<1>2. ASSUME NEW dateVerified \in BOOLEAN, CreateNoticePackageFromDeadline(dateVerified)
      PROVE  OneAtATime' /\ RecordsInv'
  <2>1. /\ AtOnce /\ UNCHANGED <<linked, verified, question, attachment, exception>>
        /\ requirement' = [c \in Categories |->
                            IF c = "CONTRACTUAL_BASIS" THEN "SATISFIED" ELSE "MISSING"]
        /\ fact' = SeededFacts(dateVerified)
    BY <1>2 DEF CreateNoticePackageFromDeadline, SeededRequirements
  <2>2. SeededFacts(dateVerified) \in
          [FactTypes -> [status : FactStatuses, approved : BOOLEAN, once : BOOLEAN]]
    BY DEF SeededFacts, NoFact, Fact, FactStatuses
  <2>3. requirement' \in [Categories -> SatisfactionStatuses]
    BY <2>1 DEF SatisfactionStatuses
  <2>4. SatisfiedIsGrounded'
    BY <2>1 DEF SatisfiedIsGrounded
  <2> QED BY <1>t, <2>1, <2>2, <2>3, <2>4, PapersChange
<1>3. ASSUME NEW c \in Categories, NEW status \in SatisfactionStatuses, LinkEvidence(c, status)
      PROVE  OneAtATime' /\ RecordsInv'
  <2>1. /\ AtOnce /\ linked' = linked \cup {c}
        /\ requirement' = [requirement EXCEPT ![c] = status]
        /\ UNCHANGED <<fact, verified, question, attachment, exception>>
    BY <1>3 DEF LinkEvidence
  <2>2. SatisfiedIsGrounded'
    BY <1>1, <1>t, <2>1 DEF SatisfiedIsGrounded
  <2> QED BY <1>t, <2>1, <2>2, PapersChange
<1>4. ASSUME CreateNoticeFact PROVE OneAtATime' /\ RecordsInv'
  <2> DEFINE new == [status |-> "UNVERIFIED", approved |-> FALSE, once |-> FALSE]
  <2>1. /\ AtOnce /\ fact' = [fact EXCEPT !["OTHER"] = new]
        /\ UNCHANGED <<requirement, linked, verified, question, attachment, exception>>
    BY <1>4 DEF CreateNoticeFact, Fact
  <2>2. new \in [status : FactStatuses, approved : BOOLEAN, once : BOOLEAN]
    BY DEF FactStatuses
  <2> HIDE DEF new
  <2>3. fact' \in [FactTypes -> [status : FactStatuses, approved : BOOLEAN, once : BOOLEAN]]
    BY <1>t, <2>1, <2>2 DEF FactTypes
  <2>4. \A t \in FactTypes \ {"OTHER"} : fact'[t] = fact[t]
    BY <1>t, <2>1
  <2>5. SatisfiedIsGrounded'
    BY <1>1, <2>1, <2>4 DEF SatisfiedIsGrounded, Proves
  <2> QED BY <1>t, <2>1, <2>3, <2>5, PapersChange
<1>5. ASSUME NEW t \in FactTypes, NEW status \in FactStatuses, NEW approved \in BOOLEAN,
             VerifyNoticeFact(t, status, approved)
      PROVE  OneAtATime' /\ RecordsInv'
  <2> DEFINE once == approved \/ fact[t].once
             new == [status |-> status, approved |-> approved, once |-> once]
             proved == IF approved THEN Proves(t) ELSE {}
  <2>1. /\ AtOnce /\ fact' = [fact EXCEPT ![t] = new]
        /\ requirement' = [c \in Categories |->
                            IF c \in proved THEN "SATISFIED" ELSE requirement[c]]
        /\ UNCHANGED <<linked, verified, question, attachment, exception>>
    BY <1>5 DEF VerifyNoticeFact, Satisfy, Fact
  <2>2. once \in BOOLEAN
    OBVIOUS
  <2>3. new \in [status : FactStatuses, approved : BOOLEAN, once : BOOLEAN] /\ (new.once <=> once)
    BY <2>2
  <2>4. fact' \in [FactTypes -> [status : FactStatuses, approved : BOOLEAN, once : BOOLEAN]]
    <3> HIDE DEF new
    <3> QED BY <1>t, <2>1, <2>3
  <2>5. /\ \A s \in FactTypes : fact[s].once => fact'[s].once
        /\ approved => fact'[t].once
    <3>1. fact'[t] = new /\ \A s \in FactTypes \ {t} : fact'[s] = fact[s]
      BY <1>t, <2>1
    <3>2. (approved => new.once) /\ (fact[t].once => new.once)
      BY <2>3
    <3> HIDE DEF new
    <3> QED BY <3>1, <3>2
  <2>6. requirement' \in [Categories -> SatisfactionStatuses]
    BY <1>t, <2>1 DEF SatisfactionStatuses
  <2>7. \A c \in Categories : requirement'[c] = "SATISFIED" =>
          requirement[c] = "SATISFIED" \/ (approved /\ c \in Proves(t))
    BY <1>t, <2>1
  <2> HIDE DEF once, new, proved
  <2>8. SatisfiedIsGrounded'
    BY <1>1, <2>1, <2>5, <2>7 DEF SatisfiedIsGrounded
  <2> QED BY <1>t, <2>1, <2>4, <2>6, <2>8, PapersChange
<1>6. ASSUME NEW recipient \in Recipients, VerifyDeliveryPreparation(recipient)
      PROVE  OneAtATime' /\ RecordsInv'
  <2>1. /\ AtOnce /\ verified' = verified \cup {recipient}
        /\ requirement' = [c \in Categories |-> IF c \in {"RECIPIENT", "DELIVERY_METHOD"}
                                                THEN "SATISFIED" ELSE requirement[c]]
        /\ UNCHANGED <<linked, fact, question, attachment, exception>>
    BY <1>6 DEF VerifyDeliveryPreparation, Satisfy
  <2>2. requirement' \in [Categories -> SatisfactionStatuses]
    BY <1>t, <2>1 DEF SatisfactionStatuses
  <2>3. SatisfiedIsGrounded'
    BY <1>1, <1>t, <2>1 DEF SatisfiedIsGrounded
  <2> QED BY <1>t, <2>1, <2>2, <2>3, PapersChange
<1>7. ASSUME NEW issue \in Issues, CreateControlledException(issue)
      PROVE  OneAtATime' /\ RecordsInv'
  <2>1. /\ AtOnce /\ exception' \subseteq Issues
        /\ UNCHANGED <<requirement, linked, fact, verified, question, attachment>>
    BY <1>t, <1>7 DEF CreateControlledException
  <2>2. SatisfiedIsGrounded'
    BY <1>1, <2>1 DEF SatisfiedIsGrounded
  <2> QED BY <1>t, <2>1, <2>2, PapersChange
(* The questions.                                                             *)
<1>q. ASSUME NEW q \in Questions, NEW new,
             new \in [status : QuestionStatuses, answer : Nat, read : Nat],
             question' = [question EXCEPT ![q] = new],
             ~raced => (new.status = "RESOLVED" => new.read = new.answer),
             UNCHANGED <<requirement, linked, fact, verified, attachment, exception>>,
             AtOnce \/ \E h \in Handlers : Busy(h) /\ End(h)
      PROVE  OneAtATime' /\ RecordsInv'
  <2>1. RecordsTypeOK'
    BY <1>t, <1>q DEF RecordsTypeOK
  <2>2. SatisfiedIsGrounded'
    BY <1>1, <1>q DEF SatisfiedIsGrounded
  <2>3. question'[q] = new /\ \A other \in Questions \ {q} : question'[other] = question[other]
    BY <1>t, <1>q
  <2>4. ~raced => Stands'
    BY <1>1, <1>q, <2>3 DEF Stands, AttachmentsAreDense
  <2> QED BY <1>q, <2>1, <2>2, <2>4, RecordsWrites
<1>8. ASSUME NEW q \in Questions, CreateReviewQuestion(q) PROVE OneAtATime' /\ RecordsInv'
  <2>1. /\ question' = [question EXCEPT ![q] = [status |-> "OPEN", answer |-> 0, read |-> 0]]
        /\ AtOnce /\ UNCHANGED <<requirement, linked, fact, verified, attachment, exception>>
    BY <1>8 DEF CreateReviewQuestion, Question
  <2>2. [status |-> "OPEN", answer |-> 0, read |-> 0] \in
          [status : QuestionStatuses, answer : Nat, read : Nat]
    BY DEF QuestionStatuses
  <2> QED BY <1>q, <2>1, <2>2
<1>9. ASSUME NEW h \in Handlers, NEW q \in Questions, AnswerRead(h, q)
      PROVE  OneAtATime' /\ RecordsInv'
  <2>1. Begin(h, Work("answer", None, q, 0, "none")) /\ UNCHANGED recordsVars
    BY <1>9 DEF AnswerRead
  <2>2. work'[h].op = "answer" /\ work'[h].id = q
    BY <2>1, Noted
  <2>3. RecordsShaped(h)' /\ RecordsFresh(h)'
    BY <2>2 DEF RecordsShaped, RecordsFresh, Doing
  <2> QED BY <1>u, <2>1, <2>3, RecordsReads
<1>10. ASSUME NEW h \in Handlers, AnswerReviewQuestion(h) PROVE OneAtATime' /\ RecordsInv'
  <2> DEFINE q == work[h].id
             new == [status |-> "ANSWERED", answer |-> question[q].answer + 1,
                     read |-> question[q].read]
  <2>1. /\ Busy(h) /\ End(h) /\ q \in Questions /\ question' = [question EXCEPT ![q] = new]
        /\ UNCHANGED <<requirement, linked, fact, verified, attachment, exception>>
    BY <1>1, <1>10 DEF AnswerReviewQuestion, Question, RecordsShaped, Busy, Doing
  <2>2. new \in [status : QuestionStatuses, answer : Nat, read : Nat] /\ new.status = "ANSWERED"
    BY <1>u, <2>1 DEF QuestionStatuses
  <2> HIDE DEF q, new
  <2> QED BY <1>q, <2>1, <2>2
<1>11. ASSUME NEW h \in Handlers, NEW q \in Questions, VerifyAnswerRead(h, q)
       PROVE  OneAtATime' /\ RecordsInv'
  <2>1. PICK number \in Nat : number = question[q].answer
    BY <1>u
  <2>2. Begin(h, Work("verify_answer", None, q, number, "none")) /\ UNCHANGED recordsVars
    BY <1>11, <2>1 DEF VerifyAnswerRead
  <2>3. work'[h].op = "verify_answer" /\ work'[h].id = q /\ work'[h].number = number
    BY <2>2, Noted
  <2>4. RecordsShaped(h)' /\ RecordsFresh(h)'
    BY <2>1, <2>2, <2>3 DEF RecordsShaped, RecordsFresh, Doing, recordsVars
  <2> QED BY <1>u, <2>2, <2>4, RecordsReads
<1>12. ASSUME NEW h \in Handlers, VerifyQuestionAnswer(h) PROVE OneAtATime' /\ RecordsInv'
  <2> DEFINE q == work[h].id
             new == [status |-> "RESOLVED", answer |-> question[q].answer, read |-> work[h].number]
  <2>1. /\ Busy(h) /\ End(h) /\ q \in Questions /\ question' = [question EXCEPT ![q] = new]
        /\ UNCHANGED <<requirement, linked, fact, verified, attachment, exception>>
    BY <1>1, <1>12 DEF VerifyQuestionAnswer, Question, RecordsShaped, Busy, Doing
  <2>2. new \in [status : QuestionStatuses, answer : Nat, read : Nat]
    BY <1>u, <2>1 DEF QuestionStatuses
  <2>3. ~raced => new.read = new.answer
    BY <1>1, <1>12 DEF VerifyQuestionAnswer, RecordsFresh
  <2> HIDE DEF q, new
  <2> QED BY <1>q, <2>1, <2>2, <2>3
(* The attachments.                                                           *)
<1>13. ASSUME NEW h \in Handlers, AttachRead(h) PROVE OneAtATime' /\ RecordsInv'
  <2>1. PICK highest \in 0 .. MaxAttachments :
          /\ \A a \in Attachments : attachment[a].sequence <= highest
          /\ highest = 0 \/ \E a \in Attachments : attachment[a].sequence = highest
          /\ Begin(h, Work("attach", None, 0, highest + 1, "none"))
    BY <1>13 DEF AttachRead
  <2>2. PICK number \in Nat : number = highest + 1 /\ number # 0
    OBVIOUS
  <2>3. Begin(h, Work("attach", None, 0, number, "none")) /\ UNCHANGED recordsVars
    BY <1>13, <2>1, <2>2 DEF AttachRead
  <2>4. work'[h].op = "attach" /\ work'[h].number = number
    BY <2>3, Noted
  <2>5. RecordsShaped(h)'
    BY <2>4 DEF RecordsShaped, Doing
  <2>6. ASSUME ~raced, NEW a \in Attachments
        PROVE  attachment[a] # NoAttachment <=> a < number
    <3>1. Stands /\ a \in Nat /\ a # 0 /\ highest \in Nat
      BY <1>1, <1>u, <2>6
    <3>2. ASSUME attachment[a] # NoAttachment PROVE a < number
      <4>1. attachment[a].sequence = a
        BY <3>1, <3>2 DEF Stands
      <4> QED BY <2>1, <2>2, <3>1, <4>1
    <3>3. ASSUME a < number PROVE attachment[a] # NoAttachment
      <4>1. a <= highest /\ highest # 0
        BY <2>2, <3>1, <3>3
      <4>2. PICK b \in Attachments : attachment[b].sequence = highest
        BY <2>1, <4>1
      <4>3. attachment[b] # NoAttachment
        BY <1>u, <4>1, <4>2
      <4>4. b = highest
        BY <3>1, <4>2, <4>3 DEF Stands
      <4> QED BY <3>1, <4>1, <4>3, <4>4 DEF Stands, AttachmentsAreDense
    <3> QED BY <3>2, <3>3
  <2>7. ~raced' => RecordsFresh(h)'
    <3>1. ~raced' => ~raced
      BY <2>3 DEF Begin
    <3>2. attachment' = attachment
      BY <2>3 DEF recordsVars
    <3> QED BY <2>2, <2>4, <2>6, <3>1, <3>2 DEF RecordsFresh, Doing
  <2> QED BY <1>u, <2>3, <2>5, <2>7, RecordsReads
<1>14. ASSUME NEW h \in Handlers, NEW a \in Attachments, AddAttachment(h, a)
       PROVE  OneAtATime' /\ RecordsInv'
  <2> DEFINE n == work[h].number
             new == [status |-> "PROPOSED", sequence |-> n]
  <2>1. /\ Busy(h) /\ End(h) /\ attachment' = [attachment EXCEPT ![a] = new]
        /\ attachment[a] = NoAttachment
        /\ \A other \in Attachments : attachment[other] = NoAttachment => a <= other
        /\ UNCHANGED <<requirement, linked, fact, verified, question, exception>>
    BY <1>t, <1>14 DEF AddAttachment, NextId, Attachment, Busy, Doing
  <2>2. new \in [status : InclusionStatuses, sequence : Nat] /\ new # NoAttachment
        /\ new.sequence = n /\ n \in Nat
    BY <1>u DEF InclusionStatuses
  <2>3. ~raced => n # 0 /\ \A b \in Attachments : attachment[b] # NoAttachment <=> b < n
    BY <1>1, <1>14 DEF AddAttachment, RecordsFresh
  <2> HIDE DEF n, new
  <2>4. RecordsTypeOK'
    BY <1>t, <2>1, <2>2 DEF RecordsTypeOK
  <2>5. SatisfiedIsGrounded'
    BY <1>1, <2>1 DEF SatisfiedIsGrounded
  <2>6. attachment'[a] = new /\ \A b \in Attachments \ {a} : attachment'[b] = attachment[b]
    BY <1>t, <2>1
  <2>7. ASSUME ~raced PROVE a = n
    <3>1. ~(a < n) /\ n # 0 /\ a \in Nat /\ a <= MaxAttachments
      BY <2>1, <2>3, <2>7 DEF Attachments
    <3>2. n \in Attachments
      BY <2>2, <3>1 DEF Attachments
    <3>3. a <= n
      BY <2>1, <2>2, <2>3, <2>7, <3>2
    <3> QED BY <2>2, <3>1, <3>3
  <2>8. ~raced => AttachmentsAreDense'
    <3>1. ASSUME ~raced, NEW b \in Attachments PROVE attachment'[b] # NoAttachment <=> b <= n
      BY <1>u, <2>2, <2>3, <2>6, <2>7, <3>1
    <3>2. \A b, c \in Attachments : b <= n /\ c < b => c <= n
      BY <1>u, <2>2
    <3> QED BY <3>1, <3>2 DEF AttachmentsAreDense
  <2>9. ~raced => Stands'
    BY <1>1, <2>1, <2>2, <2>6, <2>7, <2>8 DEF Stands
  <2> QED BY <2>1, <2>4, <2>5, <2>9, RecordsWrites
<1>15. ASSUME NEW a \in Attachments, NEW status \in InclusionStatuses,
              SetAttachmentInclusion(a, status)
       PROVE  OneAtATime' /\ RecordsInv'
  <2>1. /\ AtOnce /\ attachment' = [attachment EXCEPT ![a].status = status]
        /\ attachment[a] # NoAttachment /\ status # "ABSENT"
        /\ UNCHANGED <<requirement, linked, fact, verified, question, exception>>
    BY <1>15 DEF SetAttachmentInclusion
  <2>2. RecordsTypeOK'
    BY <1>t, <2>1 DEF RecordsTypeOK
  <2>3. SatisfiedIsGrounded'
    BY <1>1, <2>1 DEF SatisfiedIsGrounded
  <2>4. /\ attachment'[a].status = status /\ attachment'[a].sequence = attachment[a].sequence
        /\ \A b \in Attachments \ {a} : attachment'[b] = attachment[b]
    BY <1>t, <2>1
  <2>5. \A b \in Attachments : /\ attachment'[b] # NoAttachment <=> attachment[b] # NoAttachment
                               /\ attachment'[b].sequence = attachment[b].sequence
    BY <1>u, <2>1, <2>4
  <2>6. ~raced => Stands'
    BY <1>1, <2>1, <2>5 DEF Stands, AttachmentsAreDense
  <2> QED BY <2>1, <2>2, <2>3, <2>6, RecordsWrites
<1>16. ASSUME NEW h \in Handlers, RollBack(h), UNCHANGED recordsVars
       PROVE  OneAtATime' /\ RecordsInv'
  <2>1. RecordsTypeOK' /\ SatisfiedIsGrounded' /\ (~raced => Stands')
    BY <1>1, <1>16 DEF RecordsTypeOK, SatisfiedIsGrounded, Stands, AttachmentsAreDense,
                       recordsVars
  <2> QED BY <1>16, <2>1, RecordsWrites DEF RollBack
<1> QED
  BY <1>2, <1>3, <1>4, <1>5, <1>6, <1>7, <1>8, <1>9, <1>10, <1>11, <1>12, <1>13, <1>14, <1>15,
     <1>16 DEF RecordsNext

-----------------------------------------------------------------------------
(* Operations.                                                                *)
AlertRows == [project : Projects, status : AlertStatuses]
Single == \A key \in Keys :
  /\ Len(alert[key]) <= 1
  /\ \A i \in DOMAIN alert[key] : key.project \in {None, alert[key][i].project}

LEMMA KeysAreFinite == IsFiniteSet(Keys)
<1> DEFINE f == [pair \in Conditions \X Projects |-> Key(pair[1], pair[2])]
<1>1. IsFiniteSet({"NOTICE_AWAITING_REVIEW"} \cup {"REVIEW_QUEUE_BACKLOG"})
  BY FS_Singleton, FS_AddElement
<1>2. Conditions = {"NOTICE_AWAITING_REVIEW"} \cup {"REVIEW_QUEUE_BACKLOG"}
  BY DEF Conditions
<1>3. IsFiniteSet(Conditions \X Projects)
  <2>1. IsFiniteSet(Conditions) /\ IsFiniteSet(Projects)
    BY <1>1, <1>2, OperationsAssumption
  <2> QED BY <2>1, FS_Product
<1>4. f \in [Conditions \X Projects -> Keys]
  BY DEF Keys
<1>5. ASSUME NEW key \in Keys PROVE \E pair \in Conditions \X Projects : f[pair] = key
  <2>1. PICK c \in Conditions, p \in Projects : key = Key(c, p)
    BY DEF Keys
  <2>2. <<c, p>> \in Conditions \X Projects /\ f[<<c, p>>] = Key(c, p)
    OBVIOUS
  <2> QED BY <2>1, <2>2
<1> HIDE DEF f
<1>6. f \in Surjection(Conditions \X Projects, Keys)
  BY <1>4, <1>5 DEF Surjection
<1> QED BY <1>3, <1>6, FS_Surjection

(* The tables with their rows typed.                                          *)
OperationsTyped ==
  /\ holds \in [Projects -> SUBSET Conditions]
  /\ alert \in [Keys -> Seq(AlertRows)]
  /\ evaluation \in [Handlers -> [project : Projects \cup {None}, keys : SUBSET Keys]]
  /\ summary \in [Projects -> Nat]
  /\ policy \in [status : PolicyStatuses, by : Users \cup {None}, approver : Users \cup {None}]
  /\ task \in [Tasks -> TaskStatuses]

LEMMA TypedOperations ==
  ASSUME OperationsTyped PROVE OperationsTypeOK
<1>1. DOMAIN alert = Keys /\ \A h \in Handlers : evaluation[h].keys \subseteq Keys
  BY DEF OperationsTyped
<1>2. ASSUME NEW key \in Keys, NEW i \in DOMAIN alert[key]
      PROVE  alert[key][i] \in [project : Projects, status : AlertStatuses]
  <2>1. PICK rows \in Seq(AlertRows) : rows = alert[key]
    BY DEF OperationsTyped
  <2>2. rows \in [1 .. Len(rows) -> AlertRows] /\ DOMAIN rows = 1 .. Len(rows)
    BY LenProperties
  <2> QED BY <1>2, <2>1, <2>2 DEF AlertRows
<1> QED BY <1>1, <1>2 DEF OperationsTyped, OperationsTypeOK

LEMMA OperationsBegin ==
  ASSUME OperationsInit
  PROVE  OperationsTypeOK /\ OneAlertPerCondition /\ (Quiet => OperationsInv)
<1> USE OperationsAssumption DEF Tasks
<1>1. /\ holds = [project \in Projects |-> {}] /\ alert = [key \in Keys |-> <<>>]
      /\ evaluation = [h \in Handlers |-> [project |-> None, keys |-> {}]]
      /\ summary = [project \in Projects |-> 0]
      /\ policy = [status |-> "ABSENT", by |-> None, approver |-> None]
      /\ task = [t \in Tasks |-> "ABSENT"]
  BY DEF OperationsInit, NoEvaluation, Evaluation, Policy
<1>2. <<>> \in Seq(AlertRows) /\ Len(<<>>) = 0 /\ DOMAIN <<>> = {}
  OBVIOUS
<1>3. OperationsTyped
  BY <1>1, <1>2 DEF OperationsTyped, PolicyStatuses, TaskStatuses
<1>4. Single
  BY <1>1, <1>2 DEF Single
<1> QED
  BY <1>3, <1>4, TypedOperations
  DEF OperationsInv, OperationsTyped, AlertRows, Single, OneAlertPerCondition, OperationsShaped,
      OperationsFresh, Busy, Doing, Quiet

(* A step of one handler that changes at most its own evaluation.             *)
EvaluationOnly(h) ==
  /\ evaluation' \in [Handlers -> [project : Projects \cup {None}, keys : SUBSET Keys]]
  /\ \A g \in Handlers \ {h} : evaluation'[g] = evaluation[g]
  /\ UNCHANGED <<holds, alert, summary, policy, task>>

LEMMA OperationsReads ==
  ASSUME OneAtATime, OperationsInv, NEW h \in Handlers, EvaluationOnly(h),
         NEW op, op # "idle", NEW id \in Nat, NEW text, Begin(h, Work(op, None, id, 0, text)),
         OperationsShaped(h)', ~raced' => OperationsFresh(h)'
  PROVE  OneAtATime' /\ OperationsInv'
<1>0. None \in Users \cup {None} /\ 0 \in Nat
  OBVIOUS
<1>1. /\ OneAtATime' /\ \A g \in Handlers \ {h} : work'[g] = work[g]
      /\ ~raced' => ~raced /\ \A g \in Handlers : ~Busy(g) /\ (g # h => ~Busy(g)')
  BY <1>0, Begun
<1>2. OperationsTypeOK'
  BY DEF OperationsInv, OperationsTypeOK, EvaluationOnly
<1>3. OneAlertPerCondition'
  BY <1>1 DEF OperationsInv, OneAlertPerCondition, EvaluationOnly
<1>4. \A g \in Handlers : OperationsShaped(g)'
  <2>1. ASSUME NEW g \in Handlers \ {h} PROVE OperationsShaped(g)'
    <3>1. /\ OperationsShaped(g) /\ work'[g] = work[g] /\ evaluation'[g] = evaluation[g]
          /\ alert' = alert
      BY <1>1 DEF OperationsInv, EvaluationOnly
    <3> QED BY <3>1 DEF OperationsShaped, Doing
  <2> QED BY <2>1
<1>5. ~raced' => \A g \in Handlers : OperationsFresh(g)'
  BY <1>1 DEF OperationsFresh, Busy, Doing
<1>6. alert' \in [Keys -> Seq([project : Projects, status : AlertStatuses])]
  BY DEF OperationsInv, EvaluationOnly
<1> QED BY <1>1, <1>2, <1>3, <1>4, <1>5, <1>6 DEF OperationsInv, EvaluationOnly

LEMMA OperationsWrites ==
  ASSUME OneAtATime, OperationsInv, OperationsTyped', ~raced => Single',
         \A key \in Keys : DOMAIN alert[key] \subseteq DOMAIN alert'[key],
         \/ AtOnce /\ evaluation' = evaluation
         \/ \E h \in Handlers : /\ Busy(h) /\ End(h)
                                /\ \A g \in Handlers \ {h} : evaluation'[g] = evaluation[g]
  PROVE  OneAtATime' /\ OperationsInv'
<1>1. OperationsTypeOK'
  BY TypedOperations, PTL
<1>2. CASE AtOnce /\ evaluation' = evaluation
  <2>1. OneAtATime' /\ work' = work /\ (~raced' => ~raced /\ \A g \in Handlers : ~Busy(g)')
    BY <1>2, DoneAtOnce
  <2>2. \A g \in Handlers : OperationsShaped(g)'
    BY <1>2, <2>1 DEF OperationsInv, OperationsShaped, Doing
  <2>3. ~raced' => \A g \in Handlers : OperationsFresh(g)'
    BY <2>1 DEF OperationsFresh, Busy, Doing
  <2> QED BY <1>1, <2>1, <2>2, <2>3 DEF OperationsInv, OperationsTyped, AlertRows, Single,
                                        OneAlertPerCondition
<1>3. ASSUME NEW h \in Handlers, Busy(h), End(h),
             \A g \in Handlers \ {h} : evaluation'[g] = evaluation[g]
      PROVE  OneAtATime' /\ OperationsInv'
  <2>1. /\ OneAtATime' /\ ~Busy(h)' /\ raced' = raced
        /\ \A g \in Handlers \ {h} : work'[g] = work[g]
        /\ ~raced => \A g \in Handlers : ~Busy(g)'
    BY <1>3, Ended
  <2>2. \A g \in Handlers : OperationsShaped(g)'
    <3>1. OperationsShaped(h)'
      BY <2>1 DEF OperationsShaped, Busy, Doing
    <3>2. ASSUME NEW g \in Handlers \ {h} PROVE OperationsShaped(g)'
      <4>1. work'[g] = work[g] /\ evaluation'[g] = evaluation[g] /\ OperationsShaped(g)
        BY <1>3, <2>1 DEF OperationsInv
      <4> QED BY <4>1 DEF OperationsShaped, Doing
    <3> QED BY <3>1, <3>2
  <2>3. ~raced' => \A g \in Handlers : OperationsFresh(g)'
    BY <2>1 DEF OperationsFresh, Busy, Doing
  <2> QED BY <1>1, <2>1, <2>2, <2>3 DEF OperationsInv, OperationsTyped, AlertRows, Single,
                                        OneAlertPerCondition
<1> QED BY <1>2, <1>3

(* Setting the status of one alert.                                           *)
AlertIsSet(key, i, status) == alert' = [alert EXCEPT ![key][i].status = status]

LEMMA AlertChanges ==
  ASSUME alert \in [Keys -> Seq(AlertRows)], NEW key \in Keys, NEW i \in DOMAIN alert[key],
         NEW status \in AlertStatuses, AlertIsSet(key, i, status)
  PROVE  /\ alert' \in [Keys -> Seq(AlertRows)]
         /\ \A k \in Keys : /\ DOMAIN alert'[k] = DOMAIN alert[k] /\ Len(alert'[k]) = Len(alert[k])
                            /\ \A j \in DOMAIN alert[k] :
                                 /\ alert'[k][j].project = alert[k][j].project
                                 /\ alert'[k][j].status =
                                      IF k = key /\ j = i THEN status ELSE alert[k][j].status
<1> DEFINE rows == alert[key]
           row  == [rows[i] EXCEPT !.status = status]
           new  == [rows EXCEPT ![i] = row]
<1>1. rows \in Seq(AlertRows) /\ i \in 1 .. Len(rows) /\ rows \in [1 .. Len(rows) -> AlertRows]
      /\ DOMAIN rows = 1 .. Len(rows)
  BY LenProperties
<1>2. alert' = [alert EXCEPT ![key] = new]
  BY DEF AlertIsSet
<1> HIDE DEF rows
<1>3. row \in AlertRows /\ row.project = rows[i].project /\ row.status = status
  BY <1>1 DEF AlertRows
<1> HIDE DEF row
<1>4. /\ new \in Seq(AlertRows) /\ Len(new) = Len(rows)
      /\ \A j \in 1 .. Len(rows) : new[j] = IF j = i THEN row ELSE rows[j]
  BY <1>1, <1>3, ExceptSeq
<1>5. DOMAIN new = DOMAIN rows
  OBVIOUS
<1> HIDE DEF new
<1>6. alert' \in [Keys -> Seq(AlertRows)]
  BY <1>2, <1>4
<1>7. alert'[key] = new /\ \A k \in Keys \ {key} : alert'[k] = alert[k]
  BY <1>2
<1>8. \A j \in DOMAIN rows : /\ new[j].project = rows[j].project
                             /\ new[j].status = IF j = i THEN status ELSE rows[j].status
  BY <1>1, <1>3, <1>4
<1>9. rows = alert[key]
  BY DEF rows
<1> QED BY <1>4, <1>5, <1>6, <1>7, <1>8, <1>9

LEMMA OperationsKeep ==
  ASSUME OneAtATime, OperationsInv, OperationsNext
  PROVE  OneAtATime' /\ OperationsInv'
<1> USE OperationsAssumption, TransactionsAssumption
<1>1. /\ OperationsTyped /\ (~raced => Single)
      /\ \A h \in Handlers : OperationsShaped(h)
      /\ ~raced => \A h \in Handlers : OperationsFresh(h)
  BY DEF OperationsInv, OperationsTypeOK, OperationsTyped, OneAlertPerCondition, Single, AlertRows
<1>t. /\ holds \in [Projects -> SUBSET Conditions]
      /\ alert \in [Keys -> Seq(AlertRows)]
      /\ evaluation \in [Handlers -> [project : Projects \cup {None}, keys : SUBSET Keys]]
      /\ summary \in [Projects -> Nat]
      /\ policy \in [status : PolicyStatuses, by : Users \cup {None}, approver : Users \cup {None}]
      /\ task \in [Tasks -> TaskStatuses]
  BY <1>1 DEF OperationsTyped
<1>u. /\ policy.by \in Users \cup {None} /\ Tasks \subseteq Nat
      /\ \A key \in Keys : \A i \in DOMAIN alert[key] :
           i \in Nat /\ alert[key][i].status \in AlertStatuses /\ alert[key][i].project \in Projects
  <2>1. policy.by \in Users \cup {None} /\ Tasks \subseteq Nat
    BY <1>t DEF Tasks
  <2>2. ASSUME NEW key \in Keys, NEW i \in DOMAIN alert[key]
        PROVE  i \in Nat /\ alert[key][i] \in AlertRows
    <3>1. PICK rows \in Seq(AlertRows) : rows = alert[key]
      BY <1>t
    <3>2. Len(rows) \in Nat /\ rows \in [1 .. Len(rows) -> AlertRows] /\ DOMAIN rows = 1 .. Len(rows)
      BY LenProperties
    <3> QED BY <2>2, <3>1, <3>2
  <2> QED BY <2>1, <2>2 DEF AlertRows
(* Steps that leave the alerts alone.                                         *)
<1>k. ASSUME OperationsTyped', alert' = alert,
             \/ AtOnce /\ evaluation' = evaluation
             \/ \E h \in Handlers : /\ Busy(h) /\ End(h)
                                    /\ \A g \in Handlers \ {h} : evaluation'[g] = evaluation[g]
      PROVE  OneAtATime' /\ OperationsInv'
  <2>1. ~raced => Single'
    BY <1>1, <1>k DEF Single
  <2> QED BY <1>k, <2>1, OperationsWrites
<1>2. ASSUME NEW project \in Projects, NEW condition \in Conditions,
             ConditionChanges(project, condition)
      PROVE  OneAtATime' /\ OperationsInv'
  <2>1. /\ AtOnce /\ UNCHANGED <<alert, evaluation, summary, policy, task>>
        /\ \E noticed \in SUBSET Conditions : holds' = [holds EXCEPT ![project] = noticed]
    BY <1>t, <1>2 DEF ConditionChanges
  <2>2. OperationsTyped'
    BY <1>t, <2>1 DEF OperationsTyped
  <2> QED BY <1>k, <2>1, <2>2
<1>3. ASSUME NEW h \in Handlers, NEW project \in Projects, EvaluateRead(h, project)
      PROVE  OneAtATime' /\ OperationsInv'
  <2> DEFINE noticed == {key \in {Key(c, project) : c \in holds[project]} : alert[key] = <<>>}
             new == [project |-> project, keys |-> noticed]
  <2>1. /\ Begin(h, Work("evaluate", None, 0, 0, "none"))
        /\ evaluation' = [evaluation EXCEPT ![h] = new]
        /\ UNCHANGED <<holds, alert, summary, policy, task>>
    BY <1>3 DEF EvaluateRead, Evaluation
  <2>2. /\ \A key \in noticed : key \in Keys /\ alert[key] = <<>> /\ key.project \in {None, project}
        /\ noticed \subseteq Keys
    <3>1. ASSUME NEW c \in holds[project]
          PROVE  Key(c, project) \in Keys /\ Key(c, project).project \in {None, project}
      <4>1. c \in Conditions
        BY <1>t, <3>1
      <4>2. Key(c, project) \in Keys
        BY <4>1 DEF Keys
      <4>3. Key(c, project).project \in {None, project}
        BY DEF Key
      <4> QED BY <4>2, <4>3
    <3> QED BY <3>1
  <2> HIDE DEF noticed
  <2>3. new \in [project : Projects \cup {None}, keys : SUBSET Keys]
        /\ new.project = project /\ new.keys = noticed
    BY <2>2
  <2> HIDE DEF new
  <2>4. EvaluationOnly(h) /\ evaluation'[h] = new
    BY <1>t, <2>1, <2>3 DEF EvaluationOnly
  <2>5. work'[h].op = "evaluate"
    BY <2>1, Noted
  <2>6. OperationsShaped(h)' /\ OperationsFresh(h)'
    BY <2>1, <2>2, <2>3, <2>4, <2>5 DEF OperationsShaped, OperationsFresh, Doing
  <2>7. 0 \in Nat /\ "evaluate" # "idle"
    OBVIOUS
  <2> QED BY <2>1, <2>4, <2>6, <2>7, OperationsReads
<1>4. ASSUME NEW key \in Keys, NEW i \in DOMAIN alert[key], NEW status \in Settled,
             SettleAlert(key, i, status)
      PROVE  OneAtATime' /\ OperationsInv'
  <2>1. /\ AtOnce /\ alert' = [alert EXCEPT ![key][i].status = status]
        /\ UNCHANGED <<holds, evaluation, summary, policy, task>> /\ status \in AlertStatuses
    BY <1>4 DEF SettleAlert, SetAlert, Settled, AlertStatuses
  <2>2. /\ alert' \in [Keys -> Seq(AlertRows)]
        /\ \A k \in Keys : /\ DOMAIN alert'[k] = DOMAIN alert[k] /\ Len(alert'[k]) = Len(alert[k])
                           /\ \A j \in DOMAIN alert[k] :
                                alert'[k][j].project = alert[k][j].project
    <3>1. AlertIsSet(key, i, status)
      BY <2>1 DEF AlertIsSet
    <3> QED BY <1>t, <2>1, <3>1, AlertChanges
  <2>3. OperationsTyped'
    BY <1>t, <2>1, <2>2 DEF OperationsTyped
  <2>4. ~raced => Single'
    BY <1>1, <2>2 DEF Single
  <2> QED BY <2>1, <2>2, <2>3, <2>4, OperationsWrites
<1>5. ASSUME NEW h \in Handlers, NEW key \in Keys, NEW i \in DOMAIN alert[key],
             NEW operation \in {"acknowledge", "assign"}, ChangeAlertRead(h, key, i, operation)
      PROVE  OneAtATime' /\ OperationsInv'
  <2>1. PICK status \in AlertStatuses, project \in Projects :
          status = alert[key][i].status /\ project = alert[key][i].project
    BY <1>u
  <2> DEFINE new == [project |-> project, keys |-> {key}]
  <2>2. /\ Begin(h, Work(operation, None, i, 0, status))
        /\ operation = "acknowledge" => status = "OPEN"
        /\ evaluation' = [evaluation EXCEPT ![h] = new]
        /\ UNCHANGED <<holds, alert, summary, policy, task>>
    BY <1>5, <2>1 DEF ChangeAlertRead, Evaluation
  <2>3. new \in [project : Projects \cup {None}, keys : SUBSET Keys] /\ new.keys = {key}
    OBVIOUS
  <2> HIDE DEF new
  <2>4. EvaluationOnly(h) /\ evaluation'[h] = new
    BY <1>t, <2>2, <2>3 DEF EvaluationOnly
  <2>5. work'[h].op = operation /\ work'[h].id = i /\ work'[h].text = status
    BY <2>2, Noted
  <2>6. OperationsShaped(h)'
    BY <2>2, <2>3, <2>4, <2>5 DEF OperationsShaped, Doing
  <2>7. OperationsFresh(h)'
    BY <2>1, <2>2, <2>3, <2>4, <2>5 DEF OperationsFresh, Doing
  <2>8. i \in Nat /\ operation # "idle"
    BY <1>u
  <2> QED BY <2>2, <2>4, <2>6, <2>7, <2>8, OperationsReads
<1>n. [project |-> None, keys |-> {}] \in [project : Projects \cup {None}, keys : SUBSET Keys]
  OBVIOUS
<1>6. ASSUME NEW h \in Handlers, EvaluateAndUpsertAlerts(h) PROVE OneAtATime' /\ OperationsInv'
  <2> DEFINE project == evaluation[h].project
             noticed == evaluation[h].keys
             row == [project |-> project, status |-> "OPEN"]
             none == [project |-> None, keys |-> {}]
             count == Cardinality(OpenAlerts(alert', project))
  <2>1. /\ Busy(h) /\ End(h) /\ Doing(h, "evaluate") /\ project \in Projects
        /\ \A key \in noticed : key.project \in {None, project}
        /\ alert' = [key \in Keys |-> IF key \in noticed THEN Append(alert[key], row) ELSE alert[key]]
        /\ summary' = [summary EXCEPT ![project] = count]
        /\ evaluation' = [evaluation EXCEPT ![h] = none]
        /\ UNCHANGED <<holds, policy, task>>
    BY <1>1, <1>6 DEF EvaluateAndUpsertAlerts, Busy, Doing, OperationsShaped, Alert,
                      NoEvaluation, Evaluation
  <2>2. count \in Nat
    <3>1. OpenAlerts(alert', project) \in SUBSET Keys
      BY DEF OpenAlerts
    <3>2. IsFiniteSet(OpenAlerts(alert', project))
      BY <3>1, KeysAreFinite, FS_Subset
    <3> QED BY <3>2, FS_CardinalityType
  <2>3. ~raced => \A key \in noticed : alert[key] = <<>>
    BY <1>1, <2>1 DEF OperationsFresh
  <2>4. row \in AlertRows /\ row.project = project
    BY <2>1 DEF AlertRows, AlertStatuses
  <2> HIDE DEF project, noticed, row, count
  <2>5. ASSUME NEW key \in Keys
        PROVE  /\ alert'[key] \in Seq(AlertRows)
               /\ DOMAIN alert[key] \subseteq DOMAIN alert'[key]
               /\ key \notin noticed => alert'[key] = alert[key]
               /\ key \in noticed => /\ Len(alert'[key]) = Len(alert[key]) + 1
                                   /\ DOMAIN alert'[key] = 1 .. Len(alert[key]) + 1
                                   /\ alert'[key][Len(alert[key]) + 1] = row
    <3>1. PICK rows \in Seq(AlertRows) : rows = alert[key]
      BY <1>t
    <3>2. alert'[key] = IF key \in noticed THEN Append(rows, row) ELSE rows
      BY <2>1, <3>1
    <3>3. CASE key \notin noticed
      BY <3>1, <3>2, <3>3
    <3>4. CASE key \in noticed
      <4>1. PICK new : new = Append(rows, row)
        OBVIOUS
      <4>2. /\ new \in Seq(AlertRows) /\ Len(new) = Len(rows) + 1 /\ new[Len(rows) + 1] = row
        BY <2>4, <4>1, AppendProperties
      <4>3. DOMAIN rows = 1 .. Len(rows) /\ DOMAIN new = 1 .. Len(new) /\ Len(rows) \in Nat
        BY <4>2, LenProperties
      <4>4. DOMAIN rows \subseteq DOMAIN new
        BY <4>2, <4>3
      <4>5. alert'[key] = new
        BY <3>2, <3>4, <4>1
      <4> QED BY <3>1, <3>4, <4>2, <4>3, <4>4, <4>5
    <3> QED BY <3>3, <3>4
  <2>6. alert' \in [Keys -> Seq(AlertRows)]
    <3>1. alert' = [key \in Keys |-> alert'[key]]
      BY <2>1
    <3> QED BY <2>5, <3>1
  <2>7. /\ evaluation' \in [Handlers -> [project : Projects \cup {None}, keys : SUBSET Keys]]
        /\ \A g \in Handlers \ {h} : evaluation'[g] = evaluation[g]
    <3> HIDE DEF none
    <3>1. none \in [project : Projects \cup {None}, keys : SUBSET Keys]
      BY <1>n DEF none
    <3> QED BY <1>t, <2>1, <3>1
  <2>8. summary' \in [Projects -> Nat]
    BY <1>t, <2>1, <2>2
  <2>9. OperationsTyped'
    BY <1>t, <2>1, <2>6, <2>7, <2>8 DEF OperationsTyped
  <2>10. ASSUME ~raced PROVE Single'
    <3>1. ASSUME NEW key \in Keys
          PROVE  /\ Len(alert'[key]) <= 1
                 /\ \A i \in DOMAIN alert'[key] : key.project \in {None, alert'[key][i].project}
      <4>1. CASE key \notin noticed
        BY <1>1, <2>5, <2>10, <4>1 DEF Single
      <4>2. CASE key \in noticed
        <5>1. Len(alert[key]) = 0
          <6>1. alert[key] = <<>>
            BY <2>3, <2>10, <4>2
          <6> QED BY <6>1
        <5>2. Len(alert'[key]) = 1 /\ DOMAIN alert'[key] = 1 .. 1 /\ alert'[key][1] = row
          <6>1. PICK n : n = Len(alert[key])
            OBVIOUS
          <6>2. /\ Len(alert'[key]) = n + 1 /\ DOMAIN alert'[key] = 1 .. n + 1
                /\ alert'[key][n + 1] = row
            BY <2>5, <4>2, <6>1
          <6>3. n = 0
            BY <5>1, <6>1
          <6> QED BY <6>2, <6>3
        <5> QED BY <2>1, <2>4, <4>2, <5>2
      <4> QED BY <4>1, <4>2
    <3> QED BY <3>1 DEF Single
  <2> QED BY <2>1, <2>5, <2>7, <2>9, <2>10, OperationsWrites
<1>7. ASSUME NEW h \in Handlers, AbandonOperation(h) PROVE OneAtATime' /\ OperationsInv'
  <2> DEFINE none == [project |-> None, keys |-> {}]
  <2>1. /\ Busy(h) /\ End(h) /\ evaluation' = [evaluation EXCEPT ![h] = none]
        /\ UNCHANGED <<holds, alert, summary, policy, task>>
    BY <1>7 DEF AbandonOperation, RollBack, NoEvaluation, Evaluation
  <2>2. none \in [project : Projects \cup {None}, keys : SUBSET Keys]
    BY <1>n
  <2> HIDE DEF none
  <2>3. OperationsTyped' /\ \A g \in Handlers \ {h} : evaluation'[g] = evaluation[g]
    BY <1>t, <2>1, <2>2 DEF OperationsTyped
  <2> QED BY <1>k, <2>1, <2>3
<1>8. ASSUME NEW h \in Handlers, AcknowledgeAlert(h) \/ AssignAlert(h)
      PROVE  OneAtATime' /\ OperationsInv'
  <2> DEFINE i == work[h].id
             none == [project |-> None, keys |-> {}]
  <2>1. PICK status \in AlertStatuses : ChangeAlert(h, status)
    BY <1>1, <1>8 DEF AcknowledgeAlert, AssignAlert, OperationsShaped, AlertStatuses
  <2>2. PICK key \in Keys : evaluation[h].keys = {key} /\ i \in DOMAIN alert[key] /\ Busy(h)
    BY <1>1, <1>8 DEF AcknowledgeAlert, AssignAlert, OperationsShaped, Busy, Doing
  <2>3. (CHOOSE k \in evaluation[h].keys : TRUE) = key
    BY <2>2
  <2>4. /\ alert' = [alert EXCEPT ![key][i].status = status]
        /\ evaluation' = [evaluation EXCEPT ![h] = none]
        /\ End(h) /\ UNCHANGED <<holds, summary, policy, task>>
    BY <2>1, <2>3 DEF ChangeAlert, NoEvaluation, Evaluation
  <2>5. none \in [project : Projects \cup {None}, keys : SUBSET Keys]
    BY <1>n
  <2> HIDE DEF i, none
  <2>6. /\ alert' \in [Keys -> Seq(AlertRows)]
        /\ \A k \in Keys : /\ DOMAIN alert'[k] = DOMAIN alert[k] /\ Len(alert'[k]) = Len(alert[k])
                           /\ \A j \in DOMAIN alert[k] :
                                alert'[k][j].project = alert[k][j].project
    <3>1. AlertIsSet(key, i, status)
      BY <2>4 DEF AlertIsSet
    <3> QED BY <1>t, <2>2, <3>1, AlertChanges
  <2>7. OperationsTyped' /\ \A g \in Handlers \ {h} : evaluation'[g] = evaluation[g]
    BY <1>t, <2>4, <2>5, <2>6 DEF OperationsTyped
  <2>8. ~raced => Single'
    BY <1>1, <2>6 DEF Single
  <2> QED BY <2>2, <2>4, <2>6, <2>7, <2>8, OperationsWrites
<1>9. ASSUME NEW user \in Users, CreateEscalationPolicy(user) \/ ApproveEscalationPolicy(user)
      PROVE  OneAtATime' /\ OperationsInv'
  <2>1. /\ AtOnce /\ UNCHANGED <<holds, alert, evaluation, summary, task>>
        /\ \/ policy' = [status |-> "DRAFT", by |-> user, approver |-> None]
           \/ policy' = [status |-> "APPROVED", by |-> policy.by, approver |-> user]
    BY <1>9 DEF CreateEscalationPolicy, ApproveEscalationPolicy, Policy
  <2>2. policy' \in [status : PolicyStatuses, by : Users \cup {None}, approver : Users \cup {None}]
    BY <1>u, <2>1 DEF PolicyStatuses
  <2>3. OperationsTyped'
    BY <1>t, <2>1, <2>2 DEF OperationsTyped
  <2> QED BY <1>k, <2>1, <2>3
<1>10. ASSUME NEW t \in Tasks, CreateTaskFromAlert(t) \/ CompleteTask(t)
       PROVE  OneAtATime' /\ OperationsInv'
  <2>1. /\ AtOnce /\ UNCHANGED <<holds, alert, evaluation, summary, policy>>
        /\ \E status \in TaskStatuses : task' = [task EXCEPT ![t] = status]
    BY <1>10 DEF CreateTaskFromAlert, CompleteTask, SetTask, TaskStatuses
  <2>2. OperationsTyped'
    BY <1>t, <2>1 DEF OperationsTyped
  <2> QED BY <1>k, <2>1, <2>2
<1>11. ASSUME NEW h \in Handlers, NEW t \in Tasks, AssignTaskRead(h, t)
       PROVE  OneAtATime' /\ OperationsInv'
  <2>1. PICK status \in TaskStatuses :
          status = IF task[t] = "OPEN" THEN "ACKNOWLEDGED" ELSE task[t]
    BY <1>t DEF TaskStatuses
  <2>2. /\ Begin(h, Work("assign_task", None, t, 0, status)) /\ UNCHANGED operationsVars
        /\ task[t] = "COMPLETED" => status = "COMPLETED"
    BY <1>11, <2>1 DEF AssignTaskRead
  <2>3. work'[h].op = "assign_task" /\ work'[h].id = t /\ work'[h].text = status
    BY <2>2, Noted
  <2>4. OperationsShaped(h)' /\ OperationsFresh(h)'
    BY <2>2, <2>3 DEF OperationsShaped, OperationsFresh, Doing, operationsVars
  <2>5. EvaluationOnly(h)
    BY <1>t, <2>2 DEF EvaluationOnly, operationsVars
  <2>6. t \in Nat /\ "assign_task" # "idle"
    BY <1>u
  <2> QED BY <2>2, <2>4, <2>5, <2>6, OperationsReads
<1>12. ASSUME NEW h \in Handlers, AssignTask(h) PROVE OneAtATime' /\ OperationsInv'
  <2>1. /\ Busy(h) /\ End(h) /\ UNCHANGED <<holds, alert, evaluation, summary, policy>>
        /\ \E t \in Tasks, status \in TaskStatuses : task' = [task EXCEPT ![t] = status]
    BY <1>1, <1>12 DEF AssignTask, SetTask, Busy, Doing, OperationsShaped
  <2>2. OperationsTyped'
    BY <1>t, <2>1 DEF OperationsTyped
  <2> QED BY <1>k, <2>1, <2>2
<1> QED
  BY <1>2, <1>3, <1>4, <1>5, <1>6, <1>7, <1>8, <1>9, <1>10, <1>11, <1>12 DEF OperationsNext

(* The action property of operations.                                         *)
LEMMA SettledStays ==
  ASSUME OperationsInv, OperationsNext, ~raced
  PROVE  /\ \A key \in Keys : \A i \in DOMAIN alert[key] :
              alert[key][i].status \in Settled => alert'[key][i].status \in Settled
         /\ \A t \in Tasks : task[t] = "COMPLETED" => task'[t] = "COMPLETED"
<1>1. /\ alert \in [Keys -> Seq(AlertRows)] /\ task \in [Tasks -> TaskStatuses]
      /\ \A h \in Handlers : OperationsShaped(h) /\ OperationsFresh(h)
  BY DEF OperationsInv, OperationsTypeOK, AlertRows
<1> DEFINE Alerts == \A key \in Keys : \A i \in DOMAIN alert[key] :
                       alert[key][i].status \in Settled => alert'[key][i].status \in Settled
           Completed == \A t \in Tasks : task[t] = "COMPLETED" => task'[t] = "COMPLETED"
<1>2. ASSUME UNCHANGED <<alert, task>> PROVE Alerts /\ Completed
  BY <1>2
<1>3. ASSUME NEW key \in Keys, NEW i \in DOMAIN alert[key], NEW status \in Settled,
             SettleAlert(key, i, status)
      PROVE  Alerts /\ Completed
  <2>1. /\ alert' = [alert EXCEPT ![key][i].status = status] /\ status \in AlertStatuses
        /\ task' = task
    BY <1>3 DEF SettleAlert, SetAlert, Settled, AlertStatuses
  <2>2. \A k \in Keys : \A j \in DOMAIN alert[k] :
          alert'[k][j].status = IF k = key /\ j = i THEN status ELSE alert[k][j].status
    <3>1. AlertIsSet(key, i, status)
      BY <2>1 DEF AlertIsSet
    <3> QED BY <1>1, <2>1, <3>1, AlertChanges
  <2> QED BY <2>1, <2>2
<1>4. ASSUME NEW h \in Handlers, EvaluateAndUpsertAlerts(h) PROVE Alerts /\ Completed
  <2>1. task' = task
    BY <1>4 DEF EvaluateAndUpsertAlerts
  <2>2. ASSUME NEW key \in Keys, NEW i \in DOMAIN alert[key] PROVE alert'[key][i] = alert[key][i]
    <3>1. key \notin evaluation[h].keys
      <4>1. key \in evaluation[h].keys => alert[key] = <<>>
        BY <1>1, <1>4 DEF EvaluateAndUpsertAlerts, OperationsFresh
      <4>2. DOMAIN <<>> = {}
        OBVIOUS
      <4> QED BY <2>2, <4>1, <4>2
    <3> QED BY <1>4, <3>1 DEF EvaluateAndUpsertAlerts
  <2> QED BY <2>1, <2>2
<1>5. ASSUME NEW h \in Handlers, AcknowledgeAlert(h) \/ AssignAlert(h) PROVE Alerts /\ Completed
  <2> DEFINE i == work[h].id
  <2>1. PICK key \in Keys : evaluation[h].keys = {key} /\ i \in DOMAIN alert[key]
    BY <1>1, <1>5 DEF AcknowledgeAlert, AssignAlert, OperationsShaped
  <2>2. PICK status \in AlertStatuses :
          /\ ChangeAlert(h, status)
          /\ alert[key][i].status \in Settled => status \in Settled
    BY <1>1, <1>5, <2>1 DEF AcknowledgeAlert, AssignAlert, OperationsShaped, OperationsFresh,
                            AlertStatuses, Settled
  <2>3. (CHOOSE k \in evaluation[h].keys : TRUE) = key
    BY <2>1
  <2>4. alert' = [alert EXCEPT ![key][i].status = status] /\ task' = task
    BY <2>2, <2>3 DEF ChangeAlert
  <2> HIDE DEF i
  <2>5. \A k \in Keys : \A j \in DOMAIN alert[k] :
          alert'[k][j].status = IF k = key /\ j = i THEN status ELSE alert[k][j].status
    <3>1. AlertIsSet(key, i, status)
      BY <2>4 DEF AlertIsSet
    <3> QED BY <1>1, <2>1, <3>1, AlertChanges
  <2> QED BY <2>2, <2>4, <2>5
<1>6. ASSUME NEW t \in Tasks, CreateTaskFromAlert(t) \/ CompleteTask(t)
      PROVE  Alerts /\ Completed
  <2>1. alert' = alert
    BY <1>6 DEF CreateTaskFromAlert, CompleteTask, SetTask
  <2>2. \/ task[t] = "ABSENT" /\ task' = [task EXCEPT ![t] = "OPEN"]
        \/ task' = [task EXCEPT ![t] = "COMPLETED"]
    BY <1>6 DEF CreateTaskFromAlert, CompleteTask, SetTask, NextId
  <2> QED BY <1>1, <2>1, <2>2
<1>7. ASSUME NEW h \in Handlers, AssignTask(h) PROVE Alerts /\ Completed
  <2>1. alert' = alert
    BY <1>7 DEF AssignTask, SetTask
  <2>2. /\ task' = [task EXCEPT ![work[h].id] = work[h].text]
        /\ task[work[h].id] = "COMPLETED" => work[h].text = "COMPLETED"
    BY <1>1, <1>7 DEF AssignTask, SetTask, OperationsFresh
  <2> QED BY <1>1, <2>1, <2>2
<1>8. ASSUME NEW project \in Projects, NEW condition \in Conditions,
             ConditionChanges(project, condition)
      PROVE  Alerts /\ Completed
  BY <1>2, <1>8 DEF ConditionChanges
<1>9. ASSUME NEW h \in Handlers,
             \/ \E project \in Projects : EvaluateRead(h, project)
             \/ \E key \in Keys : \E i \in DOMAIN alert[key] :
                  \E operation \in {"acknowledge", "assign"} : ChangeAlertRead(h, key, i, operation)
             \/ AbandonOperation(h)
             \/ \E t \in Tasks : AssignTaskRead(h, t)
      PROVE  Alerts /\ Completed
  BY <1>2, <1>9 DEF EvaluateRead, ChangeAlertRead, AbandonOperation, AssignTaskRead, operationsVars
<1>10. ASSUME NEW user \in Users, CreateEscalationPolicy(user) \/ ApproveEscalationPolicy(user)
       PROVE  Alerts /\ Completed
  BY <1>2, <1>10 DEF CreateEscalationPolicy, ApproveEscalationPolicy
<1> HIDE DEF Alerts, Completed
<1>11. Alerts /\ Completed
  BY <1>3, <1>4, <1>5, <1>6, <1>7, <1>8, <1>9, <1>10 DEF OperationsNext
<1> QED BY <1>11 DEF Alerts, Completed

-----------------------------------------------------------------------------
(* Contract configuration.                                                    *)
RuleRows == [status : RuleStatuses, unit : DurationUnits, uncertain : BOOLEAN, ambiguous : BOOLEAN]
FoundRows == [clause : ClauseStatuses, corrections : 0 .. MaxCorrections,
              obligation : RuleStatuses, rule : RuleRows, issue : IssueStatuses]
ConfigurationRows == [status : ConfigurationStatuses, active : BOOLEAN,
                      by : Users \cup {None}, approver : Users \cup {None}]

(* The parts of the invariant that hold whatever overlaps, and the others.    *)
OneActive ==
  /\ \A r, q \in Configurations : configuration[r].active /\ configuration[q].active => r = q
  /\ \A r \in Configurations : configuration[r].active <=> configuration[r].status = "APPROVED"
  /\ package.current # 0 => configuration[package.current].active
Reviewed ==
  /\ DOMAIN snapshot = Configurations
  /\ \A r \in Configurations : configuration[r] = NoConfiguration => snapshot[r] = {}
  /\ \A r \in Configurations : \A s \in snapshot[r] :
       /\ s.of \in Analyses
       /\ s.rule.status \in {"VERIFIED", "APPROVED"} /\ s.rule.unit # "NONE"
       /\ s.approver \notin {None, configuration[r].by}
Settling ==
  /\ package.current = 0 => \A r \in Configurations : ~configuration[r].active
  /\ \A r \in Configurations : \A s, t \in snapshot[r] : s.of = t.of => s = t
  /\ \A r \in Configurations :
       snapshot[r] # {} => configuration[r].status \in {"APPROVED", "SUPERSEDED"}

(* What no step takes back: who a revision is by.                             *)
AuthorsStay == \A r \in Configurations : configuration[r] # NoConfiguration =>
  configuration'[r] # NoConfiguration /\ configuration'[r].by = configuration[r].by

LEMMA ContractBegins ==
  ASSUME ContractInit
  PROVE  ContractTypeOK /\ ConfigurationIsReviewed /\ (Quiet => ContractInv)
<1> USE ContractAssumption DEF Analyses, Configurations
<1>1. /\ package = [status |-> "DRAFT", current |-> 0] /\ attached = FALSE
      /\ found = [a \in Analyses |-> NothingFound]
      /\ configuration = [r \in Configurations |->
           [status |-> "ABSENT", active |-> FALSE, by |-> None, approver |-> None]]
      /\ snapshot = [r \in Configurations |-> {}]
  BY DEF ContractInit, NoConfiguration, Configuration
<1>2. NothingFound \in FoundRows
  <2>1. NoRule \in RuleRows
    BY DEF NoRule, Rule, RuleRows, RuleStatuses, DurationUnits
  <2> QED BY <2>1 DEF NothingFound, Found, FoundRows, ClauseStatuses, RuleStatuses, IssueStatuses
<1>3. ContractTypeOK
  <2>1. found \in [Analyses -> FoundRows]
    BY <1>1, <1>2
  <2>2. package \in [status : PackageStatuses, current : Configurations \cup {0}]
    BY <1>1 DEF PackageStatuses
  <2>3. configuration \in [Configurations -> ConfigurationRows]
    BY <1>1 DEF ConfigurationRows, ConfigurationStatuses
  <2> QED BY <1>1, <2>1, <2>2, <2>3 DEF ContractTypeOK, FoundRows, RuleRows, ConfigurationRows
<1>4. ConfigurationIsReviewed
  BY <1>1 DEF ConfigurationIsReviewed, OneActiveConfiguration, SnapshotsAreReviewed
<1> QED BY <1>1, <1>3, <1>4 DEF ContractInv, ContractShaped, ContractFresh, Busy, Doing,
                                     Quiet

LEMMA ContractReads ==
  ASSUME OneAtATime, ContractInv, UNCHANGED contractVars, NEW h \in Handlers,
         NEW op, op # "idle", NEW user \in Users \cup {None}, NEW id \in Nat, NEW number \in Nat,
         NEW text, Begin(h, Work(op, user, id, number, text)),
         ContractShaped(h)', ~raced' => ContractFresh(h)'
  PROVE  OneAtATime' /\ ContractInv'
<1>1. /\ OneAtATime' /\ \A g \in Handlers \ {h} : work'[g] = work[g]
      /\ ~raced' => ~raced /\ \A g \in Handlers : ~Busy(g) /\ (g # h => ~Busy(g)')
  BY Begun
<1>2. ContractTypeOK'
  BY DEF ContractInv, ContractTypeOK, contractVars
<1>3. ConfigurationIsReviewed'
  BY <1>1 DEF ContractInv, ConfigurationIsReviewed, OneActiveConfiguration,
              SnapshotsAreReviewed, contractVars
<1>4. ASSUME NEW g \in Handlers PROVE ContractShaped(g)'
  <2>1. CASE g = h
    BY <2>1
  <2>2. CASE g # h
    <3>1. ContractShaped(g) /\ work'[g] = work[g]
      BY <1>1, <2>2 DEF ContractInv
    <3> QED BY <3>1 DEF ContractShaped, Doing, contractVars
  <2> QED BY <2>1, <2>2
<1>5. ~raced' => \A g \in Handlers : ContractFresh(g)'
  BY <1>1 DEF ContractFresh, Busy, Doing
<1> QED BY <1>1, <1>2, <1>3, <1>4, <1>5 DEF ContractInv, contractVars

LEMMA ContractWrites ==
  ASSUME OneAtATime, ContractInv, ContractTypeOK', OneActive', Reviewed', ~raced => Settling',
         AuthorsStay, AtOnce \/ \E h \in Handlers : Busy(h) /\ End(h)
  PROVE  OneAtATime' /\ ContractInv'
<1>1. CASE AtOnce
  <2>1. OneAtATime' /\ work' = work /\ (~raced' => ~raced /\ \A g \in Handlers : ~Busy(g)')
    BY <1>1, DoneAtOnce
  <2>2. \A g \in Handlers : ContractShaped(g)'
    BY <2>1 DEF ContractInv, ContractShaped, Doing, AuthorsStay
  <2>3. ~raced' => \A g \in Handlers : ContractFresh(g)'
    BY <2>1 DEF ContractFresh, Busy, Doing
  <2>4. ConfigurationIsReviewed'
    BY <2>1 DEF ConfigurationIsReviewed, OneActiveConfiguration, SnapshotsAreReviewed, OneActive,
                Reviewed, Settling
  <2> QED BY <2>1, <2>2, <2>3, <2>4 DEF ContractInv, Reviewed, Settling
<1>2. ASSUME NEW h \in Handlers, Busy(h), End(h) PROVE OneAtATime' /\ ContractInv'
  <2>1. /\ OneAtATime' /\ ~Busy(h)' /\ raced' = raced
        /\ \A g \in Handlers \ {h} : work'[g] = work[g]
        /\ ~raced => \A g \in Handlers : ~Busy(g)'
    BY <1>2, Ended
  <2>2. \A g \in Handlers : ContractShaped(g)'
    <3>1. ContractShaped(h)'
      BY <2>1 DEF ContractShaped, Busy, Doing
    <3>2. ASSUME NEW g \in Handlers \ {h} PROVE ContractShaped(g)'
      <4>1. ContractShaped(g) /\ work'[g] = work[g]
        BY <2>1 DEF ContractInv
      <4> QED BY <4>1 DEF ContractShaped, Doing, AuthorsStay
    <3> QED BY <3>1, <3>2
  <2>3. ~raced' => \A g \in Handlers : ContractFresh(g)'
    BY <2>1 DEF ContractFresh, Busy, Doing
  <2>4. ConfigurationIsReviewed'
    BY <2>1 DEF ConfigurationIsReviewed, OneActiveConfiguration, SnapshotsAreReviewed, OneActive,
                Reviewed, Settling
  <2> QED BY <2>1, <2>2, <2>3, <2>4 DEF ContractInv, Reviewed, Settling
<1> QED BY <1>1, <1>2

(* A step that leaves the revisions and their snapshots alone.                *)
LEMMA ContractFinds ==
  ASSUME OneAtATime, ContractInv, found' \in [Analyses -> FoundRows], attached' \in BOOLEAN,
         package' \in [status : PackageStatuses, current : Configurations \cup {0}],
         package'.current = package.current, UNCHANGED <<configuration, snapshot>>,
         AtOnce \/ \E h \in Handlers : Busy(h) /\ End(h)
  PROVE  OneAtATime' /\ ContractInv'
<1>1. ContractTypeOK'
  BY DEF ContractInv, ContractTypeOK, FoundRows, RuleRows
<1>2. OneActive'
  BY DEF ContractInv, ConfigurationIsReviewed, OneActiveConfiguration, OneActive
<1>3. Reviewed'
  BY DEF ContractInv, ContractTypeOK, ConfigurationIsReviewed, SnapshotsAreReviewed, Reviewed
<1>4. ~raced => Settling'
  BY DEF ContractInv, ConfigurationIsReviewed, OneActiveConfiguration, SnapshotsAreReviewed,
         Settling
<1>5. AuthorsStay
  BY DEF AuthorsStay
<1> QED BY <1>1, <1>2, <1>3, <1>4, <1>5, ContractWrites

LEMMA ContractKeeps ==
  ASSUME OneAtATime, ContractInv, ContractNext
  PROVE  OneAtATime' /\ ContractInv'
<1> USE TransactionsAssumption, ContractAssumption
<1>1. /\ ContractTypeOK /\ OneActive /\ Reviewed /\ (~raced => Settling)
      /\ \A h \in Handlers : ContractShaped(h)
      /\ ~raced => \A h \in Handlers : ContractFresh(h)
  BY DEF ContractInv, ContractTypeOK, ConfigurationIsReviewed, OneActiveConfiguration,
         SnapshotsAreReviewed, OneActive, Reviewed, Settling
<1>t. /\ package \in [status : PackageStatuses, current : Configurations \cup {0}]
      /\ attached \in BOOLEAN
      /\ found \in [Analyses -> FoundRows]
      /\ configuration \in [Configurations -> ConfigurationRows]
  BY <1>1 DEF ContractTypeOK, FoundRows, RuleRows, ConfigurationRows
<1>u. /\ None \in Users \cup {None} /\ Users \subseteq Users \cup {None} /\ 0 \in Nat
      /\ Analyses \subseteq Nat /\ Configurations \subseteq Nat \ {0}
      /\ NoConfiguration.status = "ABSENT" /\ ~NoConfiguration.active
  BY DEF Analyses, Configurations, NoConfiguration, Configuration
<1>r. \A r \in Configurations : configuration[r].by \in Users \cup {None}
                                /\ configuration[r].approver \in Users \cup {None}
                                /\ configuration[r].active \in BOOLEAN
  BY <1>t DEF ConfigurationRows
<1>f. \A a \in Analyses : /\ found[a] \in FoundRows /\ found[a].rule \in RuleRows
                          /\ found[a].corrections \in Nat /\ found[a].rule.unit \in DurationUnits
  BY <1>t DEF FoundRows, RuleRows
(* Analyses and their reviews.                                                *)
<1>2. ASSUME AttachContractDocument PROVE OneAtATime' /\ ContractInv'
  BY <1>t, <1>2, ContractFinds DEF AttachContractDocument
<1>3. ASSUME NEW a \in Analyses, NEW result \in AnalysisResults, StartStructureAnalysis(a, result)
      PROVE  OneAtATime' /\ ContractInv'
  <2>1. /\ AtOnce /\ found' = [found EXCEPT ![a] = result]
        /\ package' = [package EXCEPT !.status = "REVIEW_REQUIRED"]
        /\ UNCHANGED <<attached, configuration, snapshot>>
    BY <1>3 DEF StartStructureAnalysis
  <2>2. result \in FoundRows
    <3>1. NoRule \in RuleRows
      BY DEF NoRule, Rule, RuleRows, RuleStatuses, DurationUnits
    <3>2. UnreadableFound \in FoundRows
      BY <3>1 DEF UnreadableFound, Found, FoundRows, ClauseStatuses, RuleStatuses, IssueStatuses
    <3>3. ASSUME NEW unit \in DurationUnits, NEW mentionsNotice \in BOOLEAN
          PROVE  MachineFound(unit, mentionsNotice) \in FoundRows
      <4>1. Vague(unit) \in BOOLEAN
        BY DEF Vague
      <4>2. Rule("MACHINE_SUGGESTED", unit, Vague(unit), Vague(unit)) \in RuleRows
        BY <4>1 DEF Rule, RuleRows, RuleStatuses
      <4> QED BY <3>1, <4>2 DEF MachineFound, Found, FoundRows, ClauseStatuses, RuleStatuses,
                                IssueStatuses
    <3> QED BY <3>2, <3>3 DEF AnalysisResults
  <2>3. found' \in [Analyses -> FoundRows]
    BY <1>t, <2>1, <2>2
  <2>4. package' \in [status : PackageStatuses, current : Configurations \cup {0}]
        /\ package'.current = package.current
    BY <1>t, <2>1 DEF PackageStatuses
  <2> QED BY <1>t, <2>1, <2>3, <2>4, ContractFinds
(* One row of found is written.                                               *)
<1>w. ASSUME NEW a \in Analyses, NEW row \in FoundRows, found' = [found EXCEPT ![a] = row],
             UNCHANGED <<package, attached, configuration, snapshot>>,
             AtOnce \/ \E h \in Handlers : Busy(h) /\ End(h)
      PROVE  OneAtATime' /\ ContractInv'
  <2>1. found' \in [Analyses -> FoundRows]
    BY <1>t, <1>w
  <2> QED BY <1>t, <1>w, <2>1, ContractFinds
<1>4. ASSUME NEW a \in Analyses, NEW decision \in RuleStatuses,
             ReviewClause(a, decision) \/ ReviewObligation(a, decision)
      PROVE  OneAtATime' /\ ContractInv'
  <2>1. CASE ReviewClause(a, decision)
    <3>1. [found[a] EXCEPT !.clause = decision] \in FoundRows
      BY <1>f, <2>1 DEF ReviewClause, FoundRows, ClauseStatuses
    <3>2. /\ found' = [found EXCEPT ![a] = [found[a] EXCEPT !.clause = decision]]
          /\ AtOnce /\ UNCHANGED <<package, attached, configuration, snapshot>>
      BY <2>1 DEF ReviewClause
    <3> QED BY <1>w, <3>1, <3>2
  <2>2. CASE ReviewObligation(a, decision)
    <3>1. [found[a] EXCEPT !.obligation = decision] \in FoundRows
      BY <1>f DEF FoundRows
    <3>2. /\ found' = [found EXCEPT ![a] = [found[a] EXCEPT !.obligation = decision]]
          /\ AtOnce /\ UNCHANGED <<package, attached, configuration, snapshot>>
      BY <2>2 DEF ReviewObligation
    <3> QED BY <1>w, <3>1, <3>2
  <2> QED BY <1>4, <2>1, <2>2
<1>5. ASSUME NEW a \in Analyses, NEW status \in IssueStatuses, ResolveConfigurationIssue(a, status)
      PROVE  OneAtATime' /\ ContractInv'
  <2>1. [found[a] EXCEPT !.issue = status] \in FoundRows
    BY <1>f DEF FoundRows
  <2>2. /\ found' = [found EXCEPT ![a] = [found[a] EXCEPT !.issue = status]]
        /\ AtOnce /\ UNCHANGED <<package, attached, configuration, snapshot>>
    BY <1>5 DEF ResolveConfigurationIssue
  <2> QED BY <1>w, <2>1, <2>2
<1>6. ASSUME NEW h \in Handlers, NEW a \in Analyses, CorrectRead(h, a)
      PROVE  OneAtATime' /\ ContractInv'
  <2>1. PICK number \in Nat : number = found[a].corrections + 1 /\ number <= MaxCorrections
    <3>1. PICK n \in Nat : n = found[a].corrections
      BY <1>f
    <3>2. n < MaxCorrections
      BY <1>6, <3>1 DEF CorrectRead
    <3>3. n + 1 \in Nat /\ n + 1 <= MaxCorrections
      BY <3>2
    <3> QED BY <3>1, <3>3
  <2>2. Begin(h, Work("correct_clause", None, a, number, "none")) /\ UNCHANGED contractVars
    BY <1>6, <2>1 DEF CorrectRead
  <2>3. work'[h].op = "correct_clause" /\ work'[h].id = a /\ work'[h].number = number
    BY <2>2, Noted
  <2>4. ContractShaped(h)' /\ ContractFresh(h)'
    BY <2>1, <2>3 DEF ContractShaped, ContractFresh, Doing
  <2> QED BY <1>u, <2>2, <2>4, ContractReads
<1>7. ASSUME NEW h \in Handlers, CorrectClause(h) PROVE OneAtATime' /\ ContractInv'
  <2> DEFINE a == work[h].id
             number == work[h].number
             row == [found[a] EXCEPT !.clause = "CORRECTED", !.corrections = number]
  <2>1. /\ Busy(h) /\ End(h) /\ a \in Analyses /\ number \in 0 .. MaxCorrections
        /\ found' = [found EXCEPT ![a] = row]
        /\ UNCHANGED <<package, attached, configuration, snapshot>>
    <3>0. number \in Nat /\ number <= MaxCorrections
      BY <1>1, <1>7 DEF CorrectClause, ContractShaped, OneAtATime, TransactionsTypeOK
    <3>1. /\ Busy(h) /\ End(h) /\ a \in Analyses /\ number \in 0 .. MaxCorrections
          /\ UNCHANGED <<package, attached, configuration, snapshot>>
      <4>1. number \in 0 .. MaxCorrections
        BY <3>0
      <4>2. a \in Analyses
        BY <1>1, <1>7 DEF CorrectClause, ContractShaped
      <4> QED BY <1>7, <4>1, <4>2 DEF CorrectClause, Busy, Doing
    <3>2. found' = [found EXCEPT ![a].clause = "CORRECTED", ![a].corrections = number]
      BY <1>7 DEF CorrectClause
    <3>3. found' = [found EXCEPT ![a] = row]
      BY <1>t, <3>1, <3>2
    <3> QED BY <3>1, <3>3
  <2>2. row \in FoundRows
    BY <1>f, <2>1 DEF FoundRows, ClauseStatuses
  <2> HIDE DEF a, row
  <2> QED BY <1>w, <2>1, <2>2
<1>8. ASSUME NEW h \in Handlers, NEW a \in Analyses, NEW decision \in RuleStatuses,
             NEW uncertain \in BOOLEAN, ReviewRuleRead(h, a, decision, uncertain)
      PROVE  OneAtATime' /\ ContractInv'
  <2>1. PICK number \in Nat : number = IF uncertain THEN 1 ELSE 0
    OBVIOUS
  <2>2. /\ Begin(h, Work("review_rule", None, a, number, decision)) /\ UNCHANGED contractVars
        /\ decision \in {"VERIFIED", "APPROVED", "REJECTED"}
    BY <1>8, <2>1 DEF ReviewRuleRead
  <2>3. work'[h].op = "review_rule" /\ work'[h].id = a /\ work'[h].text = decision
    BY <2>2, Noted
  <2>4. ContractShaped(h)' /\ ContractFresh(h)'
    BY <2>2, <2>3 DEF ContractShaped, ContractFresh, Doing
  <2> QED BY <1>u, <2>2, <2>4, ContractReads
<1>9. ASSUME NEW h \in Handlers, ReviewNoticeRule(h) PROVE OneAtATime' /\ ContractInv'
  <2> DEFINE a == work[h].id
             unit == found[a].rule.unit
             uncertain == work[h].number = 1
             ambiguous == uncertain \/ unit \in {"PROMPT", "REASONABLE_TIME"}
             rule == Rule(work[h].text, unit, uncertain, ambiguous)
             row == [found[a] EXCEPT !.rule = rule]
  <2>1. /\ Busy(h) /\ End(h) /\ a \in Analyses
        /\ work[h].text \in {"VERIFIED", "APPROVED", "REJECTED"}
        /\ found' = [found EXCEPT ![a] = row]
        /\ UNCHANGED <<package, attached, configuration, snapshot>>
    BY <1>1, <1>9 DEF ReviewNoticeRule, Busy, Doing, ContractShaped
  <2>2. unit \in DurationUnits /\ uncertain \in BOOLEAN /\ ambiguous \in BOOLEAN
    BY <1>f, <2>1
  <2>3. rule \in RuleRows
    <3> HIDE DEF unit, uncertain, ambiguous
    <3> QED BY <2>1, <2>2 DEF Rule, RuleRows, RuleStatuses
  <2> HIDE DEF rule
  <2>4. row \in FoundRows
    BY <1>f, <2>1, <2>3 DEF FoundRows
  <2> HIDE DEF a, row
  <2> QED BY <1>w, <2>1, <2>4
(* Reads of the revisions.                                                    *)
<1>10. ASSUME NEW h \in Handlers, NEW r \in Configurations, NEW user \in Users,
              SubmitRead(h, user, r)
       PROVE  OneAtATime' /\ ContractInv'
  <2>1. Begin(h, Work("submit_configuration", user, r, 0, "none")) /\ UNCHANGED contractVars
    BY <1>10 DEF SubmitRead
  <2>2. work'[h].op = "submit_configuration" /\ work'[h].id = r /\ work'[h].user = user
    BY <2>1, Noted
  <2>3. ContractShaped(h)' /\ ContractFresh(h)'
    BY <2>2 DEF ContractShaped, ContractFresh, Doing
  <2> QED BY <1>u, <2>1, <2>3, ContractReads
<1>11. ASSUME NEW h \in Handlers, NEW r \in Configurations, NEW user \in Users,
              ApproveConfigurationRead(h, user, r)
       PROVE  OneAtATime' /\ ContractInv'
  <2>1. /\ Begin(h, Work("approve_configuration", user, r, 0, "none")) /\ UNCHANGED contractVars
        /\ configuration[r].status \in {"IN_REVIEW", "CHANGES_REQUESTED"}
        /\ configuration[r].by # user /\ configuration[r] # NoConfiguration
    BY <1>u, <1>11 DEF ApproveConfigurationRead
  <2>2. work'[h].op = "approve_configuration" /\ work'[h].id = r /\ work'[h].user = user
    <3>1. Begin(h, Work("approve_configuration", user, r, 0, "none"))
      BY <2>1
    <3> QED BY <3>1, Noted
  <2>3. ContractShaped(h)' /\ ContractFresh(h)'
    BY <2>1, <2>2 DEF ContractShaped, ContractFresh, Doing, contractVars
  <2> QED BY <1>u, <2>1, <2>3, ContractReads
<1>12. ASSUME NEW h \in Handlers, NEW r \in Configurations, RequestChangesRead(h, r)
       PROVE  OneAtATime' /\ ContractInv'
  <2>1. /\ Begin(h, Work("request_changes", None, r, 0, "none")) /\ UNCHANGED contractVars
        /\ configuration[r].status = "IN_REVIEW" /\ configuration[r] # NoConfiguration
    BY <1>u, <1>12 DEF RequestChangesRead
  <2>2. work'[h].op = "request_changes" /\ work'[h].id = r
    <3>1. Begin(h, Work("request_changes", None, r, 0, "none"))
      BY <2>1
    <3> QED BY <3>1, Noted
  <2>3. ContractShaped(h)' /\ ContractFresh(h)'
    BY <2>1, <2>2 DEF ContractShaped, ContractFresh, Doing, contractVars
  <2> QED BY <1>u, <2>1, <2>3, ContractReads
<1>13. ASSUME NEW h \in Handlers, NEW r \in Configurations, NEW user \in Users,
              SupersedeRead(h, user, r)
       PROVE  OneAtATime' /\ ContractInv'
  <2>1. /\ Begin(h, Work("supersede", user, r, 0, "none")) /\ UNCHANGED contractVars
        /\ configuration[r].active /\ configuration[r] # NoConfiguration
    BY <1>u, <1>13 DEF SupersedeRead
  <2>2. work'[h].op = "supersede" /\ work'[h].id = r /\ work'[h].user = user
    BY <2>1, Noted
  <2>3. ContractShaped(h)' /\ ContractFresh(h)'
    BY <2>1, <2>2 DEF ContractShaped, ContractFresh, Doing, contractVars
  <2> QED BY <1>u, <2>1, <2>3, ContractReads
(* Writes of the revisions.                                                   *)
<1>14. ASSUME NEW h \in Handlers, CreateAndSubmitConfigurationRevision(h)
       PROVE  OneAtATime' /\ ContractInv'
  <2> DEFINE r == work[h].id
             user == work[h].user
             row == [status |-> "IN_REVIEW", active |-> FALSE, by |-> user, approver |-> None]
  <2>1. /\ Busy(h) /\ End(h) /\ r \in Configurations /\ user \in Users
        /\ configuration[r] = NoConfiguration
        /\ configuration' = [configuration EXCEPT ![r] = row]
        /\ UNCHANGED <<package, attached, found, snapshot>>
    BY <1>1, <1>14 DEF CreateAndSubmitConfigurationRevision, Configuration, Busy, Doing,
                       ContractShaped
  <2>2. row \in ConfigurationRows /\ row.status = "IN_REVIEW" /\ ~row.active /\ row # NoConfiguration
    BY <1>u, <2>1 DEF ConfigurationRows, ConfigurationStatuses
  <2> HIDE DEF r, user, row
  <2>3. configuration'[r] = row
        /\ \A q \in Configurations \ {r} : configuration'[q] = configuration[q]
    BY <1>t, <2>1
  <2>4. configuration' \in [Configurations -> ConfigurationRows]
    BY <1>t, <2>1, <2>2
  <2>5. ContractTypeOK'
    BY <1>1, <2>1, <2>4 DEF ContractTypeOK, ConfigurationRows
  <2>6. OneActive'
    BY <1>1, <1>u, <2>1, <2>2, <2>3 DEF OneActive
  <2>7. Reviewed'
    BY <1>1, <2>1, <2>2, <2>3 DEF Reviewed
  <2>8. ~raced => Settling'
    BY <1>1, <2>1, <2>2, <2>3 DEF Settling, Reviewed
  <2>9. AuthorsStay
    BY <2>1, <2>3 DEF AuthorsStay
  <2> QED BY <2>1, <2>5, <2>6, <2>7, <2>8, <2>9, ContractWrites
<1>15. ASSUME NEW h \in Handlers, ApproveConfigurationRevision(h)
       PROVE  OneAtATime' /\ ContractInv'
  <2> DEFINE r == work[h].id
             user == work[h].user
             row == [status |-> "APPROVED", active |-> TRUE, by |-> configuration[r].by,
                     approver |-> user]
             taken == {Snapshot(a, user) : a \in Snapshotted}
             Old(q) == [status |-> "SUPERSEDED", active |-> FALSE, by |-> configuration[q].by,
                        approver |-> configuration[q].approver]
  <2>1. /\ Busy(h) /\ End(h) /\ r \in Configurations /\ configuration[r] # NoConfiguration
        /\ user \in Users \ {configuration[r].by}
        /\ configuration' = [q \in Configurations |-> IF q = r THEN row
             ELSE IF configuration[q].active THEN Old(q) ELSE configuration[q]]
        /\ package' = [status |-> "APPROVED", current |-> r]
        /\ snapshot' = [snapshot EXCEPT ![r] = snapshot[r] \cup taken]
        /\ UNCHANGED <<attached, found>>
    BY <1>1, <1>15 DEF ApproveConfigurationRevision, Configuration, Supersede, Busy, Doing,
                       ContractShaped
  <2>2. ~raced => configuration[r].status \in {"IN_REVIEW", "CHANGES_REQUESTED"}
    BY <1>1, <1>15 DEF ApproveConfigurationRevision, ContractFresh
  <2>3. /\ row \in ConfigurationRows /\ row.status = "APPROVED" /\ row.active
        /\ row # NoConfiguration /\ row.by = configuration[r].by
    <3>1. row \in ConfigurationRows
      BY <1>r, <2>1 DEF ConfigurationRows, ConfigurationStatuses
    <3>2. row.status = "APPROVED" /\ row.active /\ row.by = configuration[r].by
      OBVIOUS
    <3> HIDE DEF row
    <3> QED BY <1>u, <3>1, <3>2
  <2>4. \A q \in Configurations : /\ Old(q) \in ConfigurationRows /\ Old(q).status = "SUPERSEDED"
                                  /\ ~Old(q).active /\ Old(q) # NoConfiguration
                                  /\ Old(q).by = configuration[q].by
    <3> SUFFICES ASSUME NEW q \in Configurations
                 PROVE  /\ Old(q) \in ConfigurationRows /\ Old(q).status = "SUPERSEDED"
                        /\ ~Old(q).active /\ Old(q) # NoConfiguration
                        /\ Old(q).by = configuration[q].by
      OBVIOUS
    <3>1. configuration[q].by \in Users \cup {None} /\ configuration[q].approver \in Users \cup {None}
      BY <1>r
    <3>2. Old(q) \in ConfigurationRows
      BY <3>1 DEF ConfigurationRows, ConfigurationStatuses
    <3>3. Old(q).status = "SUPERSEDED" /\ ~Old(q).active /\ Old(q).by = configuration[q].by
      OBVIOUS
    <3> HIDE DEF Old
    <3> QED BY <1>u, <3>2, <3>3
  <2>5. \A s \in taken : /\ s.of \in Analyses /\ s.rule.status \in {"VERIFIED", "APPROVED"}
                         /\ s.rule.unit # "NONE" /\ s.approver = user
                         /\ s = Snapshot(s.of, user)
    BY DEF Snapshot, Snapshotted
  <2> HIDE DEF r, user, row, taken, Old
  <2>6. configuration'[r] = row
        /\ \A q \in Configurations \ {r} :
             configuration'[q] = IF configuration[q].active THEN Old(q) ELSE configuration[q]
    BY <2>1
  <2>7. configuration' \in [Configurations -> ConfigurationRows]
    BY <1>t, <2>1, <2>3, <2>4
  <2>8. DOMAIN snapshot' = Configurations /\ snapshot'[r] = snapshot[r] \cup taken
        /\ \A q \in Configurations \ {r} : snapshot'[q] = snapshot[q]
    BY <1>1, <2>1 DEF Reviewed
  <2>9. Reviewed'
    <3>1. ASSUME NEW q \in Configurations, configuration'[q] = NoConfiguration
          PROVE  snapshot'[q] = {}
      BY <1>1, <2>3, <2>4, <2>6, <2>8, <3>1 DEF Reviewed
    <3>2. ASSUME NEW s \in snapshot'[r]
          PROVE  /\ s.of \in Analyses
                 /\ s.rule.status \in {"VERIFIED", "APPROVED"} /\ s.rule.unit # "NONE"
                 /\ s.approver \notin {None, configuration'[r].by}
      BY <1>1, <2>1, <2>3, <2>5, <2>6, <2>8, <3>2 DEF Reviewed
    <3>3. ASSUME NEW q \in Configurations \ {r}, NEW s \in snapshot'[q]
          PROVE  /\ s.of \in Analyses
                 /\ s.rule.status \in {"VERIFIED", "APPROVED"} /\ s.rule.unit # "NONE"
                 /\ s.approver \notin {None, configuration'[q].by}
      <4>1. configuration'[q].by = configuration[q].by
        BY <2>4, <2>6
      <4> QED BY <1>1, <2>8, <3>3, <4>1 DEF Reviewed
    <3> QED BY <2>8, <3>1, <3>2, <3>3 DEF Reviewed
  <2>10. package' \in [status : PackageStatuses, current : Configurations \cup {0}]
         /\ package'.current = r
    BY <2>1 DEF PackageStatuses
  <2>11. ContractTypeOK'
    BY <1>1, <2>1, <2>7, <2>9, <2>10 DEF ContractTypeOK, ConfigurationRows, Reviewed
  <2>12. OneActive'
    BY <1>1, <2>1, <2>3, <2>4, <2>6, <2>10 DEF OneActive
  <2>13. ASSUME ~raced PROVE Settling'
    <3>1. snapshot[r] = {}
      BY <1>1, <2>1, <2>2, <2>13 DEF Settling
    <3>2. \A s, t \in snapshot'[r] : s.of = t.of => s = t
      BY <2>5, <2>8, <3>1
    <3>3. \A q \in Configurations : \A s, t \in snapshot'[q] : s.of = t.of => s = t
      BY <1>1, <2>8, <2>13, <3>2 DEF Settling
    <3>4. \A q \in Configurations :
            snapshot'[q] # {} => configuration'[q].status \in {"APPROVED", "SUPERSEDED"}
      BY <1>1, <2>3, <2>4, <2>6, <2>8, <2>13 DEF Settling
    <3>5. package'.current # 0
      BY <1>u, <2>1, <2>10
    <3> QED BY <3>3, <3>4, <3>5 DEF Settling
  <2>14. AuthorsStay
    BY <2>3, <2>4, <2>6 DEF AuthorsStay
  <2> QED BY <2>1, <2>9, <2>11, <2>12, <2>13, <2>14, ContractWrites
<1>16. ASSUME NEW h \in Handlers, RequestConfigurationChanges(h)
       PROVE  OneAtATime' /\ ContractInv'
  <2> DEFINE r == work[h].id
             row == [configuration[r] EXCEPT !.status = "CHANGES_REQUESTED"]
  <2>1. /\ Busy(h) /\ End(h) /\ r \in Configurations /\ configuration[r] # NoConfiguration
        /\ configuration[r].status # "APPROVED"
        /\ configuration' = [configuration EXCEPT ![r] = row]
        /\ UNCHANGED <<package, attached, found, snapshot>>
    BY <1>1, <1>16 DEF RequestConfigurationChanges, Busy, Doing, ContractShaped
  <2>2. ~raced => configuration[r].status = "IN_REVIEW"
    BY <1>1, <1>16 DEF RequestConfigurationChanges, ContractFresh
  <2>3. /\ row \in ConfigurationRows /\ row.status = "CHANGES_REQUESTED"
        /\ row.active = configuration[r].active /\ row.by = configuration[r].by
    BY <1>t, <2>1 DEF ConfigurationRows, ConfigurationStatuses
  <2>4. row # NoConfiguration
    BY <1>u, <2>3
  <2> HIDE DEF r, row
  <2>5. configuration'[r] = row
        /\ \A q \in Configurations \ {r} : configuration'[q] = configuration[q]
    BY <1>t, <2>1
  <2>6. configuration' \in [Configurations -> ConfigurationRows]
    BY <1>t, <2>1, <2>3
  <2>7. ContractTypeOK'
    BY <1>1, <2>1, <2>6 DEF ContractTypeOK, ConfigurationRows
  <2>8. ~configuration[r].active
    BY <1>1, <2>1 DEF OneActive
  <2>9. OneActive'
    BY <1>1, <1>t, <2>1, <2>3, <2>5, <2>8 DEF OneActive
  <2>10. Reviewed'
    BY <1>1, <2>1, <2>3, <2>4, <2>5 DEF Reviewed
  <2>11. ~raced => Settling'
    BY <1>1, <2>1, <2>2, <2>3, <2>5, <2>8 DEF Settling
  <2>12. AuthorsStay
    BY <2>3, <2>4, <2>5 DEF AuthorsStay
  <2> QED BY <2>1, <2>7, <2>9, <2>10, <2>11, <2>12, ContractWrites
<1>17. ASSUME NEW h \in Handlers, NEW draft \in Configurations,
              SupersedeApprovedConfiguration(h, draft)
       PROVE  OneAtATime' /\ ContractInv'
  <2> DEFINE r == work[h].id
             old == [status |-> "SUPERSEDED", active |-> FALSE, by |-> configuration[r].by,
                     approver |-> configuration[r].approver]
             row == [status |-> "DRAFT", active |-> FALSE, by |-> work[h].user, approver |-> None]
  <2>1. /\ Busy(h) /\ End(h) /\ r \in Configurations /\ configuration[r] # NoConfiguration
        /\ work[h].user \in Users /\ configuration[draft] = NoConfiguration /\ draft # r
        /\ package' = [status |-> "REVIEW_REQUIRED", current |-> 0]
        /\ UNCHANGED <<attached, found, snapshot>>
    BY <1>1, <1>17 DEF SupersedeApprovedConfiguration, NextId, Busy, Doing, ContractShaped
  <2>2. configuration' = [configuration EXCEPT ![r] = old, ![draft] = row]
    BY <1>17 DEF SupersedeApprovedConfiguration, Supersede, Configuration
  <2>3. ~raced => configuration[r].active
    BY <1>1, <1>17 DEF SupersedeApprovedConfiguration, ContractFresh
  <2>4. /\ old \in ConfigurationRows /\ old.status = "SUPERSEDED" /\ ~old.active
        /\ old # NoConfiguration /\ old.by = configuration[r].by
        /\ row \in ConfigurationRows /\ row.status = "DRAFT" /\ ~row.active /\ row # NoConfiguration
    <3>1. old \in ConfigurationRows /\ row \in ConfigurationRows
      BY <1>r, <2>1 DEF ConfigurationRows, ConfigurationStatuses
    <3>2. /\ old.status = "SUPERSEDED" /\ ~old.active /\ old.by = configuration[r].by
          /\ row.status = "DRAFT" /\ ~row.active
      OBVIOUS
    <3> HIDE DEF old, row
    <3> QED BY <1>u, <3>1, <3>2
  <2> HIDE DEF r, old, row
  <2>5. /\ configuration'[r] = old /\ configuration'[draft] = row
        /\ \A q \in Configurations \ {r, draft} : configuration'[q] = configuration[q]
    BY <1>t, <2>1, <2>2
  <2>6. configuration' \in [Configurations -> ConfigurationRows]
    BY <1>t, <2>1, <2>2, <2>4
  <2>7. package' \in [status : PackageStatuses, current : Configurations \cup {0}]
        /\ package'.current = 0
    BY <2>1 DEF PackageStatuses
  <2>8. ContractTypeOK'
    BY <1>1, <2>1, <2>6, <2>7 DEF ContractTypeOK, ConfigurationRows
  <2>9. OneActive'
    BY <1>1, <2>4, <2>5, <2>7 DEF OneActive
  <2>10. Reviewed'
    BY <1>1, <2>1, <2>4, <2>5 DEF Reviewed
  <2>11. ASSUME ~raced PROVE Settling'
    <3>1. \A q \in Configurations : ~configuration'[q].active
      BY <1>1, <2>1, <2>3, <2>4, <2>5, <2>11 DEF OneActive
    <3>2. snapshot[draft] = {}
      BY <1>1, <2>1 DEF Reviewed
    <3> QED BY <1>1, <2>1, <2>4, <2>5, <2>11, <3>1, <3>2 DEF Settling
  <2>12. AuthorsStay
    BY <2>1, <2>4, <2>5 DEF AuthorsStay
  <2> QED BY <2>1, <2>8, <2>9, <2>10, <2>11, <2>12, ContractWrites
<1>18. ASSUME NEW h \in Handlers, RollBack(h), UNCHANGED contractVars
       PROVE  OneAtATime' /\ ContractInv'
  BY <1>t, <1>18, ContractFinds DEF RollBack, contractVars
<1> QED
  BY <1>2, <1>3, <1>4, <1>5, <1>6, <1>7, <1>8, <1>9, <1>10, <1>11, <1>12, <1>13, <1>14, <1>15,
     <1>16, <1>17, <1>18 DEF ContractNext

(* The action property of contract configuration.                             *)
LEMMA SupersededStays ==
  ASSUME ContractInv, ContractNext, ~raced
  PROVE  \A r \in Configurations :
           /\ configuration[r].status = "SUPERSEDED" => UNCHANGED configuration[r]
           /\ snapshot[r] # {} => UNCHANGED snapshot[r]
<1>1. /\ OneActive /\ Reviewed /\ Settling
      /\ configuration \in [Configurations -> ConfigurationRows]
      /\ \A h \in Handlers : ContractShaped(h) /\ ContractFresh(h)
  BY DEF ContractInv, ContractTypeOK, ConfigurationIsReviewed, OneActiveConfiguration,
         SnapshotsAreReviewed, OneActive, Reviewed, Settling, ConfigurationRows
<1>n. NoConfiguration.status = "ABSENT"
  BY DEF NoConfiguration, Configuration
<1> DEFINE Stays == \A r \in Configurations :
             /\ configuration[r].status = "SUPERSEDED" => UNCHANGED configuration[r]
             /\ snapshot[r] # {} => UNCHANGED snapshot[r]
<1>2. ASSUME UNCHANGED <<configuration, snapshot>> PROVE Stays
  BY <1>2
<1>3. ASSUME NEW h \in Handlers, CreateAndSubmitConfigurationRevision(h) PROVE Stays
  <2>1. /\ configuration[work[h].id] = NoConfiguration /\ snapshot' = snapshot
        /\ configuration' = [configuration EXCEPT
             ![work[h].id] = Configuration("IN_REVIEW", FALSE, work[h].user, None)]
    BY <1>3 DEF CreateAndSubmitConfigurationRevision
  <2> QED BY <1>1, <1>n, <2>1
<1>4. ASSUME NEW h \in Handlers, ApproveConfigurationRevision(h) PROVE Stays
  <2> DEFINE r == work[h].id
             row == Configuration("APPROVED", TRUE, configuration[r].by, work[h].user)
             taken == {Snapshot(a, work[h].user) : a \in Snapshotted}
  <2>1. /\ r \in Configurations
        /\ configuration[r].status \in {"IN_REVIEW", "CHANGES_REQUESTED"}
        /\ configuration' = [q \in Configurations |-> IF q = r THEN row
             ELSE IF configuration[q].active THEN Supersede(configuration[q])
             ELSE configuration[q]]
        /\ snapshot' = [snapshot EXCEPT ![r] = snapshot[r] \cup taken]
    BY <1>1, <1>4 DEF ApproveConfigurationRevision, ContractShaped, ContractFresh
  <2> HIDE DEF r, row, taken
  <2>2. \A q \in Configurations :
          configuration[q].status = "SUPERSEDED" => q # r /\ ~configuration[q].active
    BY <1>1, <2>1 DEF OneActive
  <2>3. \A q \in Configurations : snapshot[q] # {} => q # r
    BY <1>1, <2>1 DEF Settling
  <2>4. \A q \in Configurations \ {r} : snapshot'[q] = snapshot[q]
    BY <1>1, <2>1 DEF Reviewed
  <2> QED BY <2>1, <2>2, <2>3, <2>4
<1>5. ASSUME NEW h \in Handlers, RequestConfigurationChanges(h) PROVE Stays
  <2>1. /\ configuration[work[h].id].status = "IN_REVIEW" /\ snapshot' = snapshot
        /\ configuration' = [configuration EXCEPT ![work[h].id].status = "CHANGES_REQUESTED"]
    BY <1>1, <1>5 DEF RequestConfigurationChanges, ContractFresh
  <2> QED BY <1>1, <2>1
<1>6. ASSUME NEW h \in Handlers, NEW draft \in Configurations,
             SupersedeApprovedConfiguration(h, draft)
      PROVE  Stays
  <2> DEFINE r == work[h].id
             old == Supersede(configuration[r])
             row == Configuration("DRAFT", FALSE, work[h].user, None)
  <2>1. /\ r \in Configurations /\ configuration[r].status = "APPROVED"
        /\ configuration[draft].status = "ABSENT" /\ snapshot' = snapshot
        /\ configuration' = [configuration EXCEPT ![r] = old, ![draft] = row]
    BY <1>1, <1>6, <1>n DEF SupersedeApprovedConfiguration, NextId, ContractShaped,
                            ContractFresh, OneActive
  <2> HIDE DEF r, old, row
  <2> QED BY <1>1, <2>1
<1> HIDE DEF Stays
<1>7. Stays
  BY <1>2, <1>3, <1>4, <1>5, <1>6
  DEF ContractNext, AttachContractDocument, StartStructureAnalysis, ReviewClause,
      ReviewObligation, ReviewRuleRead, ResolveConfigurationIssue, CorrectRead, SubmitRead,
      ApproveConfigurationRead, SupersedeRead, RequestChangesRead, CorrectClause,
      ReviewNoticeRule, contractVars
<1> QED BY <1>7 DEF Stays

-----------------------------------------------------------------------------
(* The services together.                                                     *)
LEMMA RestAsTheyBegan ==
  /\ ContractInit /\ UNCHANGED contractVars => ContractInit'
  /\ ConnectorInit /\ UNCHANGED connectorVars => ConnectorInit'
  /\ OperationsInit /\ UNCHANGED operationsVars => OperationsInit'
  /\ PlatformInit /\ UNCHANGED platformVars => PlatformInit'
  /\ RecordsInit /\ UNCHANGED recordsVars => RecordsInit'
  /\ ProjectAccessInit /\ UNCHANGED accessControlVars => ProjectAccessInit'
  /\ RateLimitInit /\ UNCHANGED rateLimitVars => RateLimitInit'
<1>1. ContractInit /\ UNCHANGED contractVars => ContractInit'
  BY DEF ContractInit, contractVars
<1>2. ConnectorInit /\ UNCHANGED connectorVars => ConnectorInit'
  BY DEF ConnectorInit, connectorVars
<1>3. OperationsInit /\ UNCHANGED operationsVars => OperationsInit'
  BY DEF OperationsInit, operationsVars
<1>4. PlatformInit /\ UNCHANGED platformVars => PlatformInit'
  BY DEF PlatformInit, platformVars
<1>5. RecordsInit /\ UNCHANGED recordsVars => RecordsInit'
  BY DEF RecordsInit, recordsVars
<1>6. ProjectAccessInit /\ UNCHANGED accessControlVars => ProjectAccessInit'
  BY DEF ProjectAccessInit, accessControlVars
<1>7. RateLimitInit /\ UNCHANGED rateLimitVars => RateLimitInit'
  BY DEF RateLimitInit, rateLimitVars
<1> QED BY <1>1, <1>2, <1>3, <1>4, <1>5, <1>6, <1>7

LEMMA PartsRest ==
  ASSUME UNCHANGED transactionVars
  PROVE  /\ ContractInv /\ UNCHANGED contractVars => ContractInv'
         /\ ConnectorInv /\ UNCHANGED connectorVars => ConnectorInv'
         /\ OperationsInv /\ UNCHANGED operationsVars => OperationsInv'
         /\ PlatformInv /\ UNCHANGED platformVars => PlatformInv'
         /\ RecordsInv /\ UNCHANGED recordsVars => RecordsInv'
         /\ ProjectInv /\ UNCHANGED accessControlVars => ProjectInv'
         /\ RateLimitInv /\ UNCHANGED rateLimitVars => RateLimitInv'
<1> USE DEF transactionVars, Doing, Busy
<1>1. ASSUME ContractInv, UNCHANGED contractVars PROVE ContractInv'
  <2>1. ContractTypeOK'
    BY <1>1 DEF ContractInv, ContractTypeOK, contractVars
  <2>2. ConfigurationIsReviewed'
    BY <1>1 DEF ContractInv, ConfigurationIsReviewed, OneActiveConfiguration,
                    SnapshotsAreReviewed, contractVars
  <2>3. \A h \in Handlers : ContractShaped(h)'
    BY <1>1 DEF ContractInv, ContractShaped, contractVars
  <2>4. ~raced' => \A h \in Handlers : ContractFresh(h)'
    BY <1>1 DEF ContractInv, ContractFresh, contractVars
  <2> QED BY <1>1, <2>1, <2>2, <2>3, <2>4 DEF ContractInv, contractVars
<1>2. ASSUME ConnectorInv, UNCHANGED connectorVars PROVE ConnectorInv'
  <2>1. ConnectorTypeOK'
    BY <1>2 DEF ConnectorInv, ConnectorTypeOK, connectorVars
  <2>2. SyncIsAccounted'
    BY <1>2 DEF ConnectorInv, SyncIsAccounted, ImportsAreApproved,
                    CheckpointAccountsForRecords, connectorVars
  <2>3. \A h \in Handlers : ConnectorShaped(h)'
    BY <1>2 DEF ConnectorInv, ConnectorShaped, connectorVars, Accounted
  <2>4. ~raced' => \A h \in Handlers : ConnectorFresh(h)'
    BY <1>2 DEF ConnectorInv, ConnectorFresh, connectorVars
  <2> QED BY <1>2, <2>1, <2>2, <2>3, <2>4 DEF ConnectorInv, connectorVars
<1>3. ASSUME OperationsInv, UNCHANGED operationsVars PROVE OperationsInv'
  <2>1. OperationsTypeOK'
    BY <1>3 DEF OperationsInv, OperationsTypeOK, operationsVars
  <2>2. OneAlertPerCondition'
    BY <1>3 DEF OperationsInv, OneAlertPerCondition, operationsVars
  <2>3. \A h \in Handlers : OperationsShaped(h)'
    BY <1>3 DEF OperationsInv, OperationsShaped, operationsVars
  <2>4. ~raced' => \A h \in Handlers : OperationsFresh(h)'
    BY <1>3 DEF OperationsInv, OperationsFresh, operationsVars
  <2> QED BY <1>3, <2>1, <2>2, <2>3, <2>4 DEF OperationsInv, operationsVars
<1>4. ASSUME PlatformInv, UNCHANGED platformVars PROVE PlatformInv'
  <2>1. PlatformTypeOK'
    BY <1>4 DEF PlatformInv, PlatformTypeOK, platformVars
  <2>2. GrantsAreBacked'
    BY <1>4 DEF PlatformInv, GrantsAreBacked, Ready, platformVars
  <2>3. \A h \in Handlers : PlatformShaped(h)'
    BY <1>4 DEF PlatformInv, PlatformShaped, platformVars
  <2>4. ~raced' => \A h \in Handlers : PlatformFresh(h)'
    BY <1>4 DEF PlatformInv, PlatformFresh, platformVars, Ready
  <2> QED BY <1>4, <2>1, <2>2, <2>3, <2>4 DEF PlatformInv, platformVars
<1>5. ASSUME RecordsInv, UNCHANGED recordsVars PROVE RecordsInv'
  <2>1. RecordsTypeOK'
    BY <1>5 DEF RecordsInv, RecordsTypeOK, recordsVars
  <2>2. PapersAreReviewed'
    BY <1>5 DEF RecordsInv, PapersAreReviewed, SatisfiedIsGrounded,
                    ReviewedIsWhatStands, recordsVars
  <2>3. \A h \in Handlers : RecordsShaped(h)'
    BY <1>5 DEF RecordsInv, RecordsShaped, recordsVars
  <2>4. ~raced' => \A h \in Handlers : RecordsFresh(h)'
    BY <1>5 DEF RecordsInv, RecordsFresh, recordsVars
  <2> QED BY <1>5, <2>1, <2>2, <2>3, <2>4 DEF RecordsInv, recordsVars, AttachmentsAreDense
<1>6. ProjectInv /\ UNCHANGED accessControlVars => ProjectInv'
  BY DEF ProjectInv, accessControlVars, ProjectAccessTypeOK, ProjectShaped, ProjectFresh,
         Capabilities, InTenant
<1>7. RateLimitInv /\ UNCHANGED rateLimitVars => RateLimitInv'
  BY DEF RateLimitInv, rateLimitVars, RateLimitTypeOK, LimitsHold, Pending
<1> QED BY <1>1, <1>2, <1>3, <1>4, <1>5, <1>6, <1>7

LEMMA ServicesBegin == ServicesInit => IInv
<1> SUFFICES ASSUME ServicesInit PROVE IInv
  OBVIOUS
<1>1. Quiet /\ OneAtATime
  <2>1. work = [h \in Handlers |-> Idle] /\ raced = FALSE
    BY DEF ServicesInit, TransactionsInit
  <2>2. Idle = [op |-> "idle", user |-> None, id |-> 0, number |-> 0, text |-> "none"]
    BY DEF Idle, Work
  <2>3. \A h \in Handlers : /\ work[h].op = "idle" /\ work[h].user = None
                            /\ work[h].id = 0 /\ work[h].number = 0
    BY <2>1, <2>2
  <2>4. \A h \in Handlers : ~Busy(h)
    BY <2>3 DEF Busy
  <2>5. DOMAIN work = Handlers /\ raced \in BOOLEAN
    BY <2>1
  <2>6. TransactionsTypeOK
    BY <2>3, <2>5 DEF TransactionsTypeOK
  <2> QED BY <2>4, <2>6 DEF Quiet, OneAtATime, OneBusy
<1>2. /\ ContractInit /\ ConnectorInit /\ OperationsInit /\ PlatformInit /\ RecordsInit
      /\ ProjectAccessInit /\ RateLimitInit /\ busy \in Parts
  BY DEF ServicesInit
<1>3. /\ ContractInv /\ ConnectorInv /\ OperationsInv /\ PlatformInv /\ RecordsInv
      /\ ProjectInv /\ RateLimitInv
  BY <1>1, <1>2, ContractBegins, ConnectorBegins, OperationsBegin, PlatformBegins, RecordsBegin,
     ProjectBegins, RateLimitBegins
<1> QED BY <1>1, <1>2, <1>3 DEF IInv

LEMMA ServicesKeep == IInv /\ [ServicesNext]_servicesVars => IInv'
<1> SUFFICES ASSUME IInv, [ServicesNext]_servicesVars PROVE IInv'
  OBVIOUS
<1> USE RestAsTheyBegan
<1>1. OneAtATime /\ busy \in Parts
  BY DEF IInv
<1>2. CASE ContractStep
  <2>1. busy' = busy /\ busy = "contracts" /\ OneAtATime' /\ ContractInv'
    BY <1>2, ContractKeeps DEF ContractStep, IInv
  <2>2. /\ ConnectorInit' /\ OperationsInit' /\ PlatformInit' /\ RecordsInit'
        /\ ProjectAccessInit' /\ RateLimitInit'
    BY <1>2 DEF ContractStep, IInv
  <2> QED BY <1>1, <2>1, <2>2 DEF IInv
<1>3. CASE ConnectorStep
  <2>1. busy' = busy /\ busy = "connectors" /\ OneAtATime' /\ ConnectorInv'
    BY <1>3, ConnectorKeeps DEF ConnectorStep, IInv
  <2>2. /\ ContractInit' /\ OperationsInit' /\ PlatformInit' /\ RecordsInit'
        /\ ProjectAccessInit' /\ RateLimitInit'
    BY <1>3 DEF ConnectorStep, IInv
  <2> QED BY <1>1, <2>1, <2>2 DEF IInv
<1>4. CASE OperationsStep
  <2>1. busy' = busy /\ busy = "operations" /\ OneAtATime' /\ OperationsInv'
    BY <1>4, OperationsKeep DEF OperationsStep, IInv
  <2>2. /\ ContractInit' /\ ConnectorInit' /\ PlatformInit' /\ RecordsInit'
        /\ ProjectAccessInit' /\ RateLimitInit'
    BY <1>4 DEF OperationsStep, IInv
  <2> QED BY <1>1, <2>1, <2>2 DEF IInv
<1>5. CASE PlatformStep
  <2>1. busy' = busy /\ busy = "platform" /\ OneAtATime' /\ PlatformInv'
    BY <1>5, PlatformKeeps DEF PlatformStep, IInv
  <2>2. /\ ContractInit' /\ ConnectorInit' /\ OperationsInit' /\ RecordsInit'
        /\ ProjectAccessInit' /\ RateLimitInit'
    BY <1>5 DEF PlatformStep, IInv
  <2> QED BY <1>1, <2>1, <2>2 DEF IInv
<1>6. CASE RecordsStep
  <2>1. busy' = busy /\ busy = "notices" /\ OneAtATime' /\ RecordsInv'
    BY <1>6, RecordsKeep DEF RecordsStep, IInv
  <2>2. /\ ContractInit' /\ ConnectorInit' /\ OperationsInit' /\ PlatformInit'
        /\ ProjectAccessInit' /\ RateLimitInit'
    BY <1>6 DEF RecordsStep, IInv
  <2> QED BY <1>1, <2>1, <2>2 DEF IInv
<1>7. CASE ProjectStep
  <2>1. busy' = busy /\ busy = "projects" /\ OneAtATime' /\ ProjectInv'
    BY <1>7, ProjectKeeps DEF ProjectStep, IInv
  <2>2. /\ ContractInit' /\ ConnectorInit' /\ OperationsInit' /\ PlatformInit'
        /\ RecordsInit' /\ RateLimitInit'
    BY <1>7 DEF ProjectStep, IInv
  <2> QED BY <1>1, <2>1, <2>2 DEF IInv
<1>8. CASE LimitStep
  <2>1. busy' = busy /\ busy = "limits" /\ OneAtATime' /\ RateLimitInv'
    BY <1>8, RateLimitKeeps DEF LimitStep, IInv
  <2>2. /\ ContractInit' /\ ConnectorInit' /\ OperationsInit' /\ PlatformInit'
        /\ RecordsInit' /\ ProjectAccessInit'
    BY <1>8 DEF LimitStep, IInv
  <2> QED BY <1>1, <2>1, <2>2 DEF IInv
<1>9. CASE UNCHANGED servicesVars
  <2>1. /\ UNCHANGED <<transactionVars, contractVars, connectorVars, operationsVars>>
        /\ UNCHANGED <<platformVars, recordsVars, accessControlVars, rateLimitVars>>
        /\ busy' = busy
    BY <1>9 DEF servicesVars
  <2>2. OneAtATime'
    BY <1>1, <2>1 DEF OneAtATime, OneBusy, Busy, TransactionsTypeOK, transactionVars
  <2> QED BY <1>1, <2>1, <2>2, PartsRest DEF IInv
<1> QED BY <1>2, <1>3, <1>4, <1>5, <1>6, <1>7, <1>8, <1>9 DEF ServicesNext


(* What the parts know of their own rows holds whichever of them is busy.     *)
LEMMA InvariantHolds ==
  ASSUME IInv
  PROVE  /\ ServicesTypeOK /\ ConfigurationIsReviewed /\ SyncIsAccounted
         /\ OneAlertPerCondition /\ GrantsAreBacked /\ PapersAreReviewed /\ LimitsHold
<1>1. ContractTypeOK /\ ConfigurationIsReviewed
  BY ContractBegins DEF IInv, ContractInv
<1>2. ConnectorTypeOK /\ SyncIsAccounted
  BY ConnectorBegins DEF IInv, ConnectorInv
<1>3. OperationsTypeOK /\ OneAlertPerCondition
  BY OperationsBegin DEF IInv, OperationsInv
<1>4. PlatformTypeOK /\ GrantsAreBacked
  BY PlatformBegins DEF IInv, PlatformInv
<1>5. RecordsTypeOK /\ PapersAreReviewed
  BY RecordsBegin DEF IInv, RecordsInv
<1>6. ProjectAccessTypeOK
  BY ProjectBegins DEF IInv, ProjectInv
<1>7. RateLimitTypeOK /\ LimitsHold
  BY RateLimitBegins DEF IInv, RateLimitInv
<1>8. TransactionsTypeOK /\ busy \in Parts
  BY DEF IInv, OneAtATime
<1> QED BY <1>1, <1>2, <1>3, <1>4, <1>5, <1>6, <1>7, <1>8 DEF ServicesTypeOK

(* In every behaviour each service's rows are as its handlers leave them, and *)
(* the services that are not busy stay as they began.                         *)
THEOREM ServicesInvariant == Spec => []IInv
  BY ServicesBegin, ServicesKeep, PTL DEF Spec

(* The rows of every service, and what its handlers keep of them, have the    *)
(* types their columns have.                                                  *)
THEOREM RowsKeepTheirTypes == Spec => []ServicesTypeOK
  BY ServicesInvariant, InvariantHolds, PTL

(* contracts.ts: however approvals, supersessions and reviews overlap, at     *)
(* most one configuration is active, it is the approved one, and what its     *)
(* snapshots hold was reviewed and approved by someone else.                  *)
THEOREM ConfigurationStaysReviewed == Spec => []ConfigurationIsReviewed
  BY ServicesInvariant, InvariantHolds, PTL

(* connectors.ts: whatever syncs overlap, imports are inside an approved      *)
(* scope, and the checkpoint passes no record that is neither imported nor    *)
(* dropped.                                                                   *)
THEOREM SyncStaysAccounted == Spec => []SyncIsAccounted
  BY ServicesInvariant, InvariantHolds, PTL

(* operations.ts: unless evaluations overlap a condition has one alert.       *)
THEOREM OneAlertStays == Spec => []OneAlertPerCondition
  BY ServicesInvariant, InvariantHolds, PTL

(* platform.ts: nobody approves their own request, whatever overlaps, and     *)
(* memberships, sessions and assessments are backed unless handlers overlap.  *)
THEOREM GrantsStayBacked == Spec => []GrantsAreBacked
  BY ServicesInvariant, InvariantHolds, PTL

(* notices.ts: a satisfied requirement has a ground, whatever overlaps, and   *)
(* unless handlers overlap resolved answers stand and attachments are         *)
(* numbered without gap or double.                                            *)
THEOREM PapersStayReviewed == Spec => []PapersAreReviewed
  BY ServicesInvariant, InvariantHolds, PTL

(* rate-limit.ts: however requests interleave, no more than the limit are     *)
(* admitted in a window, and a counter without an expiry is on its way to one *)
(* or was cut off.                                                            *)
THEOREM LimitsStay == Spec => []LimitsHold
  BY ServicesInvariant, InvariantHolds, PTL

(* contracts.ts, operations.ts: unless handlers overlap, superseded           *)
(* configurations, snapshots, settled alerts and completed tasks are never    *)
(* changed back.                                                              *)
THEOREM DecisionsStay == Spec => DecisionsStand
<1> DEFINE Superseded == ~raced => \A r \in Configurations :
             /\ configuration[r].status = "SUPERSEDED" => UNCHANGED configuration[r]
             /\ snapshot[r] # {} => UNCHANGED snapshot[r]
           Stays == ~raced =>
             /\ \A key \in Keys : \A i \in DOMAIN alert[key] :
                  alert[key][i].status \in Settled => alert'[key][i].status \in Settled
             /\ \A t \in Tasks : task[t] = "COMPLETED" => task'[t] = "COMPLETED"
<1>1. ASSUME IInv, [ServicesNext]_servicesVars
      PROVE  [Superseded]_<<contractVars, transactionVars>>
  <2>1. CASE ContractStep
    BY <1>1, <2>1, SupersededStays DEF ContractStep, IInv
  <2>2. CASE UNCHANGED contractVars
    BY <2>2 DEF contractVars
  <2> QED BY <1>1, <2>1, <2>2 DEF ServicesNext, servicesVars, ConnectorStep, OperationsStep,
                                  PlatformStep, RecordsStep, ProjectStep, LimitStep
<1>2. ASSUME IInv, [ServicesNext]_servicesVars
      PROVE  [Stays]_<<transactionVars, operationsVars>>
  <2>1. CASE OperationsStep
    BY <1>2, <2>1, SettledStays DEF OperationsStep, IInv
  <2>2. CASE UNCHANGED operationsVars
    BY <2>2 DEF operationsVars
  <2> QED BY <1>2, <2>1, <2>2 DEF ServicesNext, servicesVars, ContractStep, ConnectorStep,
                                  PlatformStep, RecordsStep, ProjectStep, LimitStep
<1> QED
  BY <1>1, <1>2, ServicesInvariant, PTL
  DEF Spec, DecisionsStand, SupersededStaysSuperseded, SettledStaysSettled

(* platform.ts, projects.ts: unless handlers overlap, a pilot goes live with  *)
(* every readiness item ready, and an archived project's members stay and its *)
(* status changes only by someone who may archive it.                         *)
THEOREM GatesStay == Spec => GatesHold
<1> DEFINE Starts == pilot' # pilot /\ ~raced => Ready(item)
           Archived == projectStatus = "ARCHIVED" /\ ~raced =>
             /\ memberRole' = memberRole
             /\ projectStatus' # projectStatus =>
                  \E h \in Handlers : /\ Doing(h, "update_project")
                                      /\ "project.archive" \in Capabilities(work[h].user)
<1>1. ASSUME IInv, [ServicesNext]_servicesVars
      PROVE  [Starts]_<<transactionVars, platformVars>>
  <2>1. CASE PlatformStep
    BY <1>1, <2>1, PilotStarts DEF PlatformStep, IInv
  <2>2. CASE UNCHANGED platformVars
    BY <2>2 DEF platformVars
  <2> QED BY <1>1, <2>1, <2>2 DEF ServicesNext, servicesVars, ContractStep, ConnectorStep,
                                  OperationsStep, RecordsStep, ProjectStep, LimitStep
<1>2. ASSUME IInv, [ServicesNext]_servicesVars
      PROVE  [Archived]_<<transactionVars, accessControlVars>>
  <2>1. CASE ProjectStep
    BY <1>2, <2>1, ProjectKeepsArchived DEF ProjectStep, IInv
  <2>2. CASE UNCHANGED accessControlVars
    BY <2>2 DEF accessControlVars
  <2> QED BY <1>2, <2>1, <2>2 DEF ServicesNext, servicesVars, ContractStep, ConnectorStep,
                                  OperationsStep, PlatformStep, RecordsStep, LimitStep
<1> QED
  BY <1>1, <1>2, ServicesInvariant, PTL
  DEF Spec, GatesHold, PilotStartsReady, ArchivedIsReadOnly
===============================================================================
