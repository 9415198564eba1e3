------------------------ MODULE OutboxDispatch_proofs ------------------------
(* Safety of the transactional outbox for every number of events and          *)
(* dispatchers, every batch size and every attempt limit, whatever calls fail *)
(* and whenever dispatchers crash.                                            *)
EXTENDS OutboxDispatch, TLAPS

-----------------------------------------------------------------------------
(* What ExclusiveClaim and its companions need beside themselves.             *)

(* An event is claimed for the first time after it was written. *)
UntriedBeforeWrite == \A e \in Events : status[e] = "ABSENT" => attempts[e] = 0

(* A dispatcher about to mark a row dispatched has enqueued its job. *)
HandedBeforeMark ==
  \A d \in Dispatchers : pc[d] = "marking" => \A r \in current[d] : handed[r.event]

(* At most one row is in progress, and it has left the rows still to do. *)
CurrentLeftRows ==
  \A d \in Dispatchers :
    /\ rows[d] \cap current[d] = {}
    /\ \A r, q \in current[d] : r = q

(* Only a halted dispatcher has used up its strikes. *)
StrikesLeft == \A d \in Dispatchers : pc[d] # "halted" => strikes[d] < MaxStrikes

(* A row a dispatcher holds was claimed by an attempt. *)
ClaimedTried ==
  \A d \in Dispatchers : \A r \in Held(d) : attempts[r.event] > 0

(* The inductive invariant. *)
IInv ==
  /\ TypeOK
  /\ ExclusiveClaim
  /\ DispatchedWasHandedOver
  /\ DeadLetterIsExhausted
  /\ UntriedBeforeWrite
  /\ HandedBeforeMark
  /\ CurrentLeftRows
  /\ StrikesLeft
  /\ ClaimedTried

-----------------------------------------------------------------------------
(* The initial state satisfies the inductive invariant. *)
LEMMA InitIInv == Init => IInv
BY OutboxAssumption
DEF Init, IInv, TypeOK, ExclusiveClaim, DispatchedWasHandedOver, DeadLetterIsExhausted,
    UntriedBeforeWrite, HandedBeforeMark, CurrentLeftRows, StrikesLeft, ClaimedTried, Held, Statuses, Rows

(* A claimed row is one of Rows, and two rows a dispatcher holds for the same *)
(* event are the same row.                                                    *)
LEMMA OneRowPerEvent ==
  ASSUME TypeOK, ExclusiveClaim, NEW d \in Dispatchers, NEW r \in Held(d), NEW q \in Held(d),
         r.event = q.event
  PROVE  r = q
<1>1. r \in Rows /\ q \in Rows
  BY DEF TypeOK, Held
<1>2. r.attempts = q.attempts
  BY DEF ExclusiveClaim
<1>. QED
  BY <1>1, <1>2 DEF Rows

(* A held row's event is one of Events, and neither claimable nor unwritten. *)
LEMMA HeldRows ==
  ASSUME IInv, NEW d \in Dispatchers, NEW r \in Held(d)
  PROVE  /\ r \in Rows /\ r.event \in Events /\ r.attempts = attempts[r.event]
         /\ status[r.event] \in {"DISPATCHING", "DISPATCHED"}
         /\ status[r.event] = "DISPATCHING" \/ (pc[d] = "failing" /\ r \in current[d])
BY DEF IInv, TypeOK, ExclusiveClaim, Unheard, Held, Rows

(* The web app's insert, the passing of time, and the queue's own steps. *)
LEMMA EventSteps ==
  ASSUME IInv, NEW e \in Events,
         \/ WriteOutbox(e) \/ BackoffElapses(e) \/ JobStarts(e) \/ JobRedelivered(e)
         \/ JobEnds(e) \/ ResultForgotten(e)
  PROVE  IInv'
<1>1. CASE WriteOutbox(e)
  BY <1>1, OutboxAssumption
  DEF WriteOutbox, IInv, TypeOK, ExclusiveClaim, Unheard, DispatchedWasHandedOver, DeadLetterIsExhausted,
      UntriedBeforeWrite, HandedBeforeMark, CurrentLeftRows, StrikesLeft, ClaimedTried, Held, Statuses,
      procVars, queueVars
<1>2. CASE BackoffElapses(e)
  BY <1>2
  DEF BackoffElapses, IInv, TypeOK, ExclusiveClaim, Unheard, DispatchedWasHandedOver,
      DeadLetterIsExhausted, UntriedBeforeWrite, HandedBeforeMark, CurrentLeftRows, StrikesLeft,
      ClaimedTried, Held, procVars, queueVars
<1>3. CASE JobStarts(e) \/ JobRedelivered(e) \/ JobEnds(e) \/ ResultForgotten(e)
  <2>1. TypeOK'
    BY <1>3, OutboxAssumption
    DEF JobStarts, JobRedelivered, JobEnds, ResultForgotten, Inject, IInv, TypeOK, procVars, dbVars
  <2>2. UNCHANGED <<status, attempts, pc, rows, current, strikes, handed>>
    BY <1>3 DEF JobStarts, JobRedelivered, JobEnds, ResultForgotten, procVars, dbVars
  <2>. QED
    BY <2>1, <2>2
    DEF IInv, ExclusiveClaim, Unheard, DispatchedWasHandedOver, DeadLetterIsExhausted,
        UntriedBeforeWrite, HandedBeforeMark, CurrentLeftRows, StrikesLeft, ClaimedTried, Held
<1>. QED
  BY <1>1, <1>2, <1>3

(* What a failing batch forgets are events. *)
LEMMA ForgetTyped ==
  ASSUME IInv, NEW E \in SUBSET Events, Forget(E)
  PROVE  abandoned' \in SUBSET Events
BY DEF Forget, IInv, TypeOK

(* The events a dispatcher holds are events. *)
LEMMA HeldEventsTyped ==
  ASSUME IInv, NEW d \in Dispatchers
  PROVE  HeldEvents(d) \in SUBSET Events
BY DEF IInv, TypeOK, HeldEvents, Rows

(* Giving a batch up leaves the dispatcher without a row. *)
LEMMA AbandonLocals ==
  ASSUME IInv, NEW d \in Dispatchers, NEW E \in SUBSET Events, Abandon(d, E), pc[d] # "halted"
  PROVE  /\ rows' = [rows EXCEPT ![d] = {}] /\ current' = [current EXCEPT ![d] = {}]
         /\ UNCHANGED <<job, handed, executions, forgotten, redelivered>>
         /\ abandoned' \in SUBSET Events
         /\ strikes' \in [Dispatchers -> 0..MaxStrikes]
         /\ \E place \in {"idle", "halted"} : pc' = [pc EXCEPT ![d] = place]
         /\ StrikesLeft'
<1>1. PICK terminal \in BOOLEAN :
        LET n == IF terminal THEN strikes[d] + 1 ELSE 0 IN
        /\ strikes' = [strikes EXCEPT ![d] = n]
        /\ pc' = [pc EXCEPT ![d] = IF n >= MaxStrikes THEN "halted" ELSE "idle"]
  BY DEF Abandon
<1>2. strikes[d] \in 0..MaxStrikes /\ strikes[d] < MaxStrikes
  BY DEF IInv, TypeOK, StrikesLeft
<1>3. abandoned' \in SUBSET Events
  BY ForgetTyped DEF Abandon
<1> DEFINE n == IF terminal THEN strikes[d] + 1 ELSE 0
<1>4. n \in 0..MaxStrikes
  BY <1>2, OutboxAssumption
<1>4a. strikes' \in [Dispatchers -> 0..MaxStrikes]
  BY <1>1, <1>4 DEF IInv, TypeOK
<1>4b. \E place \in {"idle", "halted"} : pc' = [pc EXCEPT ![d] = place]
  <2>1. CASE n >= MaxStrikes
    BY <1>1, <2>1
  <2>2. CASE ~(n >= MaxStrikes)
    BY <1>1, <2>2
  <2>. QED
    BY <2>1, <2>2
<1>5. StrikesLeft'
  BY <1>1, <1>2, OutboxAssumption DEF IInv, TypeOK, StrikesLeft
<1>. QED
  BY <1>3, <1>4a, <1>4b, <1>5 DEF Abandon, queueVars

-----------------------------------------------------------------------------
(* The UPDATE of claim_pending: the rows it takes were not held by anyone,    *)
(* because held rows are DISPATCHING or DISPATCHED.                           *)
LEMMA ClaimRows ==
  ASSUME IInv, NEW S \in SUBSET Claimable, Claim(S), UNCHANGED handed
  PROVE  /\ status' \in [Events -> Statuses] /\ attempts' \in [Events -> 0..MaxAttempts]
         /\ UNCHANGED available
         /\ \A e \in S : /\ e \in Events /\ attempts[e] < MaxAttempts
                         /\ status'[e] = "DISPATCHING" /\ attempts'[e] = attempts[e] + 1
         /\ \A e \in Events \ S : status'[e] = status[e] /\ attempts'[e] = attempts[e]
         /\ \A c \in Dispatchers : \A q \in Held(c) : q.event \in Events \ S
         /\ DispatchedWasHandedOver' /\ DeadLetterIsExhausted' /\ UntriedBeforeWrite'
<1>1. \A e \in S : e \in Events /\ status[e] \in {"PENDING", "FAILED"} /\ attempts[e] < MaxAttempts
  BY DEF Claimable, IInv, DeadLetterIsExhausted
<1>2. \A c \in Dispatchers : \A q \in Held(c) : q.event \in Events \ S
  BY <1>1, HeldRows
<1>. QED
  BY <1>1, <1>2, OutboxAssumption
  DEF Claim, IInv, TypeOK, Statuses, DispatchedWasHandedOver, DeadLetterIsExhausted, UntriedBeforeWrite

(* The claim the dispatcher hears of. *)
LEMMA ClaimStep ==
  ASSUME IInv, NEW d \in Dispatchers, ClaimPending(d)
  PROVE  IInv'
<1> USE OutboxAssumption
<1>1. PICK S \in SUBSET Claimable :
        /\ Claim(S)
        /\ rows' = [rows EXCEPT ![d] = {[event |-> e, attempts |-> attempts[e] + 1] : e \in S}]
  BY DEF ClaimPending
<1>2. /\ pc' = [pc EXCEPT ![d] = "connecting"]
      /\ pc[d] = "idle"
      /\ UNCHANGED <<current, strikes, abandoned, job, handed, executions, forgotten, redelivered, faults>>
  BY DEF ClaimPending, queueVars
<1>3. /\ status' \in [Events -> Statuses] /\ attempts' \in [Events -> 0..MaxAttempts]
      /\ UNCHANGED available
      /\ \A e \in S : /\ e \in Events /\ attempts[e] < MaxAttempts
                      /\ status'[e] = "DISPATCHING" /\ attempts'[e] = attempts[e] + 1
      /\ \A e \in Events \ S : status'[e] = status[e] /\ attempts'[e] = attempts[e]
      /\ DispatchedWasHandedOver' /\ DeadLetterIsExhausted' /\ UntriedBeforeWrite'
  BY <1>1, <1>2, ClaimRows
<1>6. \A c \in Dispatchers : \A q \in Held(c) : q.event \in Events \ S
  BY <1>1, <1>2, ClaimRows
<1>4. TypeOK'
  <2>2. \A e \in S : [event |-> e, attempts |-> attempts[e] + 1] \in Rows
    BY <1>3 DEF IInv, TypeOK, Rows
  <2>3. rows' \in [Dispatchers -> SUBSET Rows]
    BY <1>1, <2>2 DEF IInv, TypeOK
  <2>4. pc' \in [Dispatchers -> {"idle", "connecting", "looping", "marking", "failing", "halted"}]
    BY <1>2 DEF IInv, TypeOK
  <2>. QED
    BY <1>2, <1>3, <2>3, <2>4 DEF IInv, TypeOK
<1>5. \A c \in Dispatchers \ {d} : /\ Held(c)' = Held(c)
                                   /\ pc'[c] = pc[c] /\ current'[c] = current[c]
  BY <1>1, <1>2 DEF Held, IInv, TypeOK
<1> DEFINE Fresh == {[event |-> e, attempts |-> attempts[e] + 1] : e \in S}
<1>7. Held(d)' = Fresh \cup current[d]
  BY <1>1, <1>2 DEF Held, IInv, TypeOK
<1>7a. \A q \in Fresh : q.event \in S /\ q.attempts = attempts[q.event] + 1
  OBVIOUS
<1>7b. Held(d)' \subseteq Fresh \cup Held(d)
  BY <1>7 DEF Held
<1> HIDE DEF Fresh
<1>8. ExclusiveClaim'
  <2>1. ASSUME NEW r \in Held(d)'
        PROVE  status'[r.event] = "DISPATCHING" /\ r.attempts = attempts'[r.event]
    <3>1. CASE r \in Fresh
      BY <1>3, <1>7a, <3>1
    <3>2. CASE r \in Held(d)
      BY <1>2, <1>3, <1>6, <3>2, HeldRows
    <3>. QED
      BY <1>7b, <3>1, <3>2
  <2>2. ASSUME NEW c \in Dispatchers \ {d}, NEW r \in Held(c)'
        PROVE  /\ r.attempts = attempts'[r.event]
               /\ status'[r.event] = "DISPATCHING" \/ r \in Unheard(c)'
    <3>1. r \in Held(c) /\ r.event \in Events \ S
      BY <1>5, <1>6
    <3>2. status'[r.event] = status[r.event] /\ attempts'[r.event] = attempts[r.event]
      BY <1>3, <3>1
    <3>. QED
      BY <1>5, <3>1, <3>2 DEF IInv, ExclusiveClaim, Unheard
  <2>3. ASSUME NEW c \in Dispatchers, NEW b \in Dispatchers \ {c},
               NEW r \in Held(c)', NEW q \in Held(b)'
        PROVE  q.event # r.event
    BY <1>5, <1>6, <1>7a, <1>7b, <2>3 DEF IInv, ExclusiveClaim
  <2>. QED
    BY <2>1, <2>2, <2>3 DEF ExclusiveClaim
<1>10. HandedBeforeMark' /\ StrikesLeft'
  BY <1>2 DEF IInv, TypeOK, HandedBeforeMark, StrikesLeft
<1>11. CurrentLeftRows'
  <2>1. \A q \in current[d] : q.event \notin S
    BY <1>6 DEF Held
  <2>2. \A q \in Fresh : q.event \in S
    BY <1>7a
  <2>3. rows'[d] = Fresh
    BY <1>1 DEF Fresh, IInv, TypeOK
  <2>4. rows'[d] \cap current[d] = {}
    BY <2>1, <2>2, <2>3
  <2>5. \A c \in Dispatchers \ {d} : rows'[c] = rows[c]
    BY <1>1 DEF IInv, TypeOK
  <2>. QED
    BY <1>2, <2>4, <2>5 DEF IInv, TypeOK, CurrentLeftRows
<1>12. ClaimedTried'
  <2>1. \A c \in Dispatchers : \A q \in Held(c)' : q.event \in S \/ q \in Held(c)
    BY <1>5, <1>7a, <1>7b
  <2>. QED
    BY <1>3, <1>6, <2>1 DEF IInv, ClaimedTried, TypeOK
<1>. QED
  BY <1>3, <1>4, <1>8, <1>10, <1>11, <1>12 DEF IInv

(* A claim that raises: its rows, if it took any, are nobody's. *)
LEMMA ClaimRaisesStep ==
  ASSUME IInv, NEW d \in Dispatchers, ClaimRaises(d)
  PROVE  IInv'
<1>1. PICK S \in SUBSET Claimable : Claim(S) /\ Abandon(d, S)
  BY DEF ClaimRaises
<1>2. S \in SUBSET Events /\ pc[d] # "halted" /\ faults' \in 0..MaxFaults
  BY OutboxAssumption DEF ClaimRaises, Claimable, Inject, IInv, TypeOK
<1>3. /\ rows' = [rows EXCEPT ![d] = {}] /\ current' = [current EXCEPT ![d] = {}]
      /\ UNCHANGED <<job, handed, executions, forgotten, redelivered>>
      /\ abandoned' \in SUBSET Events
      /\ strikes' \in [Dispatchers -> 0..MaxStrikes]
      /\ \E place \in {"idle", "halted"} : pc' = [pc EXCEPT ![d] = place]
      /\ StrikesLeft'
  BY <1>1, <1>2, AbandonLocals
<1>4. /\ status' \in [Events -> Statuses] /\ attempts' \in [Events -> 0..MaxAttempts]
      /\ UNCHANGED available
      /\ \A e \in Events \ S : status'[e] = status[e] /\ attempts'[e] = attempts[e]
      /\ \A c \in Dispatchers : \A q \in Held(c) : q.event \in Events \ S
      /\ DispatchedWasHandedOver' /\ DeadLetterIsExhausted' /\ UntriedBeforeWrite'
  BY <1>1, <1>3, ClaimRows
<1>5. TypeOK'
  BY <1>2, <1>3, <1>4 DEF IInv, TypeOK
<1>6. Held(d)' = {} /\ \A c \in Dispatchers \ {d} : /\ Held(c)' = Held(c)
                                                    /\ pc'[c] = pc[c] /\ current'[c] = current[c]
  BY <1>3 DEF Held, IInv, TypeOK
<1>7. ExclusiveClaim'
  <2>1. ASSUME NEW c \in Dispatchers, NEW r \in Held(c)'
        PROVE  /\ r.attempts = attempts'[r.event]
               /\ status'[r.event] = "DISPATCHING" \/ r \in Unheard(c)'
    BY <1>4, <1>6 DEF IInv, ExclusiveClaim, Unheard
  <2>2. ASSUME NEW c \in Dispatchers, NEW b \in Dispatchers \ {c},
               NEW r \in Held(c)', NEW q \in Held(b)'
        PROVE  q.event # r.event
    BY <1>6 DEF IInv, ExclusiveClaim
  <2>. QED
    BY <2>1, <2>2 DEF ExclusiveClaim
<1>8. HandedBeforeMark' /\ CurrentLeftRows'
  BY <1>3 DEF IInv, TypeOK, HandedBeforeMark, CurrentLeftRows
<1>9. ClaimedTried'
  BY <1>4, <1>6 DEF IInv, ClaimedTried
<1>. QED
  BY <1>3, <1>4, <1>5, <1>7, <1>8, <1>9 DEF IInv

-----------------------------------------------------------------------------
(* A step of a batch that leaves the rows of the database alone: the          *)
(* dispatcher holds no row it did not hold before, and none at all if it      *)
(* leaves its except branch.                                                  *)
LEMMA Quiet ==
  ASSUME IInv, NEW d \in Dispatchers,
         UNCHANGED <<status, attempts>>,
         TypeOK', HandedBeforeMark', CurrentLeftRows', StrikesLeft',
         \A e \in Events : handed[e] => handed'[e],
         \A c \in Dispatchers \ {d} : pc'[c] = pc[c] /\ rows'[c] = rows[c] /\ current'[c] = current[c],
         Held(d)' \subseteq Held(d),
         Held(d)' = {} \/ pc[d] # "failing"
  PROVE  IInv'
<1>1. \A c \in Dispatchers \ {d} : Held(c)' = Held(c) /\ Unheard(c)' = Unheard(c)
  BY DEF Held, Unheard
<1>2. \A c \in Dispatchers : Held(c)' \subseteq Held(c)
  BY <1>1
<1>3. \A r \in Held(d)' : status'[r.event] = "DISPATCHING"
  BY HeldRows
<1>4. ExclusiveClaim'
  BY <1>1, <1>2, <1>3 DEF IInv, ExclusiveClaim
<1>. QED
  BY <1>2, <1>4 DEF IInv, DispatchedWasHandedOver, DeadLetterIsExhausted, UntriedBeforeWrite, ClaimedTried

(* The row of the iteration leaves the rows still to do. *)
LEMMA TakeLocals ==
  ASSUME IInv, NEW d \in Dispatchers, NEW r \in rows[d], Take(d, r)
  PROVE  /\ pc[d] = "looping" /\ r \in Rows /\ r.event \in Events
         /\ rows' \in [Dispatchers -> SUBSET Rows] /\ current' \in [Dispatchers -> SUBSET Rows]
         /\ current'[d] = {r}
         /\ \A c \in Dispatchers \ {d} : rows'[c] = rows[c] /\ current'[c] = current[c]
         /\ CurrentLeftRows' /\ Held(d)' \subseteq Held(d)
BY DEF Take, IInv, TypeOK, Rows, CurrentLeftRows, Held

(* What the queue's receiving a job does to its books. *)
LEMMA EnqueueTyped ==
  ASSUME IInv, NEW e \in Events, Enqueue(e)
  PROVE  /\ job' \in [Events -> {"absent", "queued", "running", "kept"}]
         /\ handed' \in [Events -> BOOLEAN] /\ handed'[e]
         /\ \A x \in Events : handed[x] => handed'[x]
         /\ UNCHANGED <<executions, forgotten, redelivered>>
BY DEF Enqueue, IInv, TypeOK

(* The steps that read or hand over, and write nothing. *)
LEMMA LocalSteps ==
  ASSUME IInv, NEW d \in Dispatchers,
         \/ ConnectRedis(d) \/ EnqueueJob(d) \/ EnqueueRaises(d) \/ EnqueueUnheard(d)
         \/ BatchDone(d) \/ EmptyPoll(d) \/ ConnectRaises(d) \/ HeartbeatRaises(d) \/ CrashRestart(d)
  PROVE  IInv'
<1> USE OutboxAssumption
<1>1. UNCHANGED <<status, attempts, available>>
  BY DEF ConnectRedis, EnqueueJob, EnqueueRaises, EnqueueUnheard, BatchDone, EmptyPoll,
         ConnectRaises, HeartbeatRaises, CrashRestart, dbVars
<1>2. CASE ConnectRedis(d) \/ BatchDone(d) \/ EmptyPoll(d)
  <2>1. /\ UNCHANGED <<rows, current, abandoned, job, handed, executions, forgotten, redelivered, faults>>
        /\ pc[d] # "failing"
    BY <1>2 DEF ConnectRedis, BatchDone, EmptyPoll, queueVars
  <2>2. TypeOK' /\ HandedBeforeMark' /\ CurrentLeftRows' /\ StrikesLeft'
        /\ \A c \in Dispatchers \ {d} : pc'[c] = pc[c]
    BY <1>1, <1>2, <2>1 DEF IInv, TypeOK, ConnectRedis, BatchDone, EmptyPoll, HandedBeforeMark,
                            CurrentLeftRows, StrikesLeft
  <2>3. Held(d)' = Held(d)
    BY <2>1 DEF Held
  <2>. QED
    BY <1>1, <2>1, <2>2, <2>3, Quiet
<1>3. CASE EnqueueJob(d) \/ EnqueueUnheard(d)
  <2>1. PICK r \in rows[d] : Take(d, r) /\ Enqueue(r.event)
    BY <1>3 DEF EnqueueJob, EnqueueUnheard
  <2>2. /\ pc' = [pc EXCEPT ![d] = "marking"] \/ pc' = [pc EXCEPT ![d] = "failing"]
        /\ UNCHANGED <<strikes, abandoned>> /\ faults' \in 0..MaxFaults
    BY <1>3 DEF EnqueueJob, EnqueueUnheard, Inject, IInv, TypeOK
  <2>3. /\ pc[d] = "looping" /\ r \in Rows /\ r.event \in Events
        /\ rows' \in [Dispatchers -> SUBSET Rows] /\ current' \in [Dispatchers -> SUBSET Rows]
        /\ current'[d] = {r}
        /\ \A c \in Dispatchers \ {d} : rows'[c] = rows[c] /\ current'[c] = current[c]
        /\ CurrentLeftRows' /\ Held(d)' \subseteq Held(d)
    BY <2>1, TakeLocals
  <2>4. /\ job' \in [Events -> {"absent", "queued", "running", "kept"}]
        /\ handed' \in [Events -> BOOLEAN] /\ handed'[r.event]
        /\ \A x \in Events : handed[x] => handed'[x]
        /\ UNCHANGED <<executions, forgotten, redelivered>>
    BY <2>1, <2>3, EnqueueTyped
  <2>5. TypeOK'
    BY <1>1, <2>2, <2>3, <2>4 DEF IInv, TypeOK
  <2>6. \A c \in Dispatchers : \A q \in current[c] : q.event \in Events
    BY DEF IInv, TypeOK, Rows
  <2>7. HandedBeforeMark' /\ StrikesLeft' /\ \A c \in Dispatchers \ {d} : pc'[c] = pc[c]
    BY <2>2, <2>3, <2>4, <2>6 DEF IInv, TypeOK, HandedBeforeMark, StrikesLeft
  <2>. QED
    BY <1>1, <2>3, <2>4, <2>5, <2>7, Quiet
<1>4. CASE EnqueueRaises(d)
  <2>1. PICK r \in rows[d] :
          /\ UNCHANGED faults \/ Inject("enqueue")
          /\ Take(d, r)
    BY <1>4 DEF EnqueueRaises
  <2>1a. faults' \in 0..MaxFaults
    BY <2>1 DEF Inject, IInv, TypeOK
  <2>2. /\ pc' = [pc EXCEPT ![d] = "failing"]
        /\ UNCHANGED <<strikes, abandoned, job, handed, executions, forgotten, redelivered>>
    BY <1>4 DEF EnqueueRaises, queueVars
  <2>3. /\ pc[d] = "looping"
        /\ rows' \in [Dispatchers -> SUBSET Rows] /\ current' \in [Dispatchers -> SUBSET Rows]
        /\ \A c \in Dispatchers \ {d} : rows'[c] = rows[c] /\ current'[c] = current[c]
        /\ CurrentLeftRows' /\ Held(d)' \subseteq Held(d)
    BY <2>1, TakeLocals
  <2>4. TypeOK'
    BY <1>1, <2>1a, <2>2, <2>3 DEF IInv, TypeOK
  <2>5. HandedBeforeMark' /\ StrikesLeft' /\ \A c \in Dispatchers \ {d} : pc'[c] = pc[c]
    BY <2>2, <2>3 DEF IInv, TypeOK, HandedBeforeMark, StrikesLeft
  <2>. QED
    BY <1>1, <2>2, <2>3, <2>4, <2>5, Quiet
<1>5. CASE ConnectRaises(d) \/ HeartbeatRaises(d)
  <2>1. PICK E \in SUBSET Events : Abandon(d, E)
    BY <1>5, HeldEventsTyped DEF ConnectRaises, HeartbeatRaises
  <2>2. pc[d] # "halted" /\ faults' \in 0..MaxFaults
    BY <1>5 DEF ConnectRaises, HeartbeatRaises, Inject, IInv, TypeOK
  <2>3. /\ rows' = [rows EXCEPT ![d] = {}] /\ current' = [current EXCEPT ![d] = {}]
        /\ UNCHANGED <<job, handed, executions, forgotten, redelivered>>
        /\ abandoned' \in SUBSET Events
        /\ strikes' \in [Dispatchers -> 0..MaxStrikes]
        /\ \E place \in {"idle", "halted"} : pc' = [pc EXCEPT ![d] = place]
        /\ StrikesLeft'
    BY <2>1, <2>2, AbandonLocals
  <2>4. TypeOK'
    BY <1>1, <2>2, <2>3 DEF IInv, TypeOK
  <2>5. /\ HandedBeforeMark' /\ CurrentLeftRows' /\ Held(d)' = {}
        /\ \A c \in Dispatchers \ {d} : pc'[c] = pc[c] /\ rows'[c] = rows[c] /\ current'[c] = current[c]
    BY <2>3 DEF IInv, TypeOK, HandedBeforeMark, CurrentLeftRows, Held
  <2>. QED
    BY <1>1, <2>3, <2>4, <2>5, Quiet
<1>6. CASE CrashRestart(d)
  <2>1. abandoned' \in SUBSET Events
    BY <1>6, HeldEventsTyped, ForgetTyped DEF CrashRestart
  <2>2. /\ TypeOK' /\ HandedBeforeMark' /\ CurrentLeftRows' /\ StrikesLeft' /\ Held(d)' = {}
        /\ UNCHANGED handed
        /\ \A c \in Dispatchers \ {d} : pc'[c] = pc[c] /\ rows'[c] = rows[c] /\ current'[c] = current[c]
    BY <1>6, <2>1 DEF IInv, TypeOK, CrashRestart, Inject, HandedBeforeMark, CurrentLeftRows,
                StrikesLeft, Held, dbVars, queueVars
  <2>. QED
    BY <1>1, <2>2, Quiet
<1>. QED
  BY <1>2, <1>3, <1>4, <1>5, <1>6

-----------------------------------------------------------------------------
(* What mark_failed writes. *)
LEMMA FailRowWrites ==
  ASSUME IInv, NEW d \in Dispatchers, NEW r \in current[d], FailRow(r)
  PROVE  \E next \in {"FAILED", "DEAD_LETTERED"} :
           /\ status' = [status EXCEPT ![r.event] = next]
           /\ next = "FAILED" => r.attempts < MaxAttempts
           /\ next = "DEAD_LETTERED" => r.attempts = MaxAttempts
           /\ available' \in SUBSET Events /\ UNCHANGED attempts
<1>1. r.attempts \in 0..MaxAttempts
  BY DEF IInv, TypeOK, Rows
<1>2. available' \in SUBSET Events /\ UNCHANGED attempts
  BY DEF FailRow, IInv, TypeOK
<1>3. CASE r.attempts >= MaxAttempts
  <2>1. status' = [status EXCEPT ![r.event] = "DEAD_LETTERED"]
    BY <1>3 DEF FailRow
  <2>. QED
    BY <1>1, <1>2, <1>3, <2>1, OutboxAssumption
<1>4. CASE r.attempts < MaxAttempts
  <2>0. ~(r.attempts >= MaxAttempts)
    BY <1>1, <1>4, OutboxAssumption
  <2>1. status' = [status EXCEPT ![r.event] = "FAILED"]
    BY <2>0 DEF FailRow
  <2>. QED
    BY <1>1, <1>2, <1>4, <2>1, OutboxAssumption
<1>. QED
  BY <1>1, <1>3, <1>4, OutboxAssumption

(* The row in progress is written by the dispatcher that holds it: no other   *)
(* held row is about the same event.  The dispatcher either drops the row or, *)
(* not having heard of its own mark, goes on to its except branch.            *)
LEMMA Write ==
  ASSUME IInv, NEW d \in Dispatchers, NEW r \in current[d],
         NEW next \in {"DISPATCHED", "FAILED", "DEAD_LETTERED"},
         status' = [status EXCEPT ![r.event] = next], UNCHANGED attempts,
         next = "DISPATCHED" => handed[r.event],
         next = "FAILED" => r.attempts < MaxAttempts,
         next = "DEAD_LETTERED" => r.attempts = MaxAttempts,
         UNCHANGED <<handed>>,
         TypeOK', HandedBeforeMark', CurrentLeftRows', StrikesLeft',
         \A c \in Dispatchers \ {d} : pc'[c] = pc[c] /\ rows'[c] = rows[c] /\ current'[c] = current[c],
         rows'[d] \subseteq rows[d],
         \/ current'[d] = {}
         \/ next = "DISPATCHED" /\ pc'[d] = "failing" /\ current'[d] = current[d]
  PROVE  IInv'
<1>1. r \in Held(d) /\ r.event \in Events /\ r.attempts = attempts[r.event]
  BY HeldRows DEF Held
<1>2. \A q \in current[d] : q = r
  BY DEF IInv, CurrentLeftRows
<1>3. \A q \in rows[d] : /\ q.event \in Events /\ q.event # r.event
                         /\ status[q.event] = "DISPATCHING" /\ q.attempts = attempts[q.event]
  <2>1. ASSUME NEW q \in rows[d]
        PROVE  /\ q.event \in Events /\ q.event # r.event
               /\ status[q.event] = "DISPATCHING" /\ q.attempts = attempts[q.event]
    <3>1. q \in Held(d) /\ q \notin current[d]
      BY DEF Held, IInv, CurrentLeftRows
    <3>2. q.event # r.event
      BY <1>1, <3>1, OneRowPerEvent DEF IInv
    <3>. QED
      BY <3>1, <3>2, HeldRows
  <2>. QED
    BY <2>1
<1>4. \A c \in Dispatchers \ {d} : \A q \in Held(c) : q.event \in Events /\ q.event # r.event
  BY <1>1, HeldRows DEF IInv, ExclusiveClaim
<1>5. \A c \in Dispatchers \ {d} : Held(c)' = Held(c)
  BY DEF Held
<1>6. Held(d)' \subseteq Held(d)
  BY DEF Held
<1>7. \A e \in Events \ {r.event} : status'[e] = status[e]
  BY DEF IInv, TypeOK
<1>8. status'[r.event] = next
  BY <1>1 DEF IInv, TypeOK
<1>9. ExclusiveClaim'
  <2>1. ASSUME NEW c \in Dispatchers \ {d}, NEW q \in Held(c)'
        PROVE  /\ q.attempts = attempts'[q.event]
               /\ status'[q.event] = "DISPATCHING" \/ q \in Unheard(c)'
    <3>1. q \in Held(c) /\ status'[q.event] = status[q.event]
      BY <1>4, <1>5, <1>7
    <3>. QED
      BY <3>1 DEF IInv, ExclusiveClaim, Unheard
  <2>2. ASSUME NEW q \in Held(d)'
        PROVE  /\ q.attempts = attempts'[q.event]
               /\ status'[q.event] = "DISPATCHING" \/ q \in Unheard(d)'
    <3>1. CASE q \in rows'[d]
      BY <1>3, <1>7, <3>1
    <3>2. CASE q \in current'[d]
      BY <1>1, <1>2, <1>8, <3>2 DEF Unheard
    <3>. QED
      BY <3>1, <3>2 DEF Held
  <2>3. ASSUME NEW c \in Dispatchers, NEW b \in Dispatchers \ {c},
               NEW p \in Held(c)', NEW q \in Held(b)'
        PROVE  q.event # p.event
    BY <1>5, <1>6 DEF IInv, ExclusiveClaim
  <2>. QED
    BY <2>1, <2>2, <2>3 DEF ExclusiveClaim
<1>10. DispatchedWasHandedOver' /\ UntriedBeforeWrite'
  BY <1>7, <1>8 DEF IInv, DispatchedWasHandedOver, UntriedBeforeWrite
<1>11. DeadLetterIsExhausted'
  BY <1>1, <1>7, <1>8 DEF IInv, DeadLetterIsExhausted
<1>12. ClaimedTried'
  BY <1>5, <1>6 DEF IInv, ClaimedTried
<1>. QED
  BY <1>9, <1>10, <1>11, <1>12 DEF IInv

(* mark_dispatched and mark_failed, heard of. *)
LEMMA MarkSteps ==
  ASSUME IInv, NEW d \in Dispatchers, MarkDispatched(d) \/ MarkFailed(d)
  PROVE  IInv'
<1>1. PICK r \in current[d], next \in {"DISPATCHED", "FAILED", "DEAD_LETTERED"} :
        /\ status' = [status EXCEPT ![r.event] = next]
        /\ next = "DISPATCHED" => handed[r.event]
        /\ next = "FAILED" => r.attempts < MaxAttempts
        /\ next = "DEAD_LETTERED" => r.attempts = MaxAttempts
        /\ available' \in SUBSET Events /\ UNCHANGED attempts
  <2>1. CASE MarkDispatched(d)
    BY <2>1 DEF MarkDispatched, IInv, TypeOK, HandedBeforeMark
  <2>2. CASE MarkFailed(d)
    <3>1. PICK r \in current[d] : FailRow(r)
      BY <2>2 DEF MarkFailed
    <3>. QED
      BY <3>1, FailRowWrites
  <2>. QED
    BY <2>1, <2>2
<1>2. /\ current' = [current EXCEPT ![d] = {}] /\ pc' = [pc EXCEPT ![d] = "looping"]
      /\ pc[d] # "halted"
      /\ UNCHANGED <<rows, strikes, abandoned, job, handed, executions, forgotten, redelivered, faults>>
  BY DEF MarkDispatched, MarkFailed, queueVars
<1>3. r.event \in Events
  BY DEF IInv, TypeOK, Rows
<1>4. TypeOK'
  BY <1>1, <1>2, <1>3 DEF IInv, TypeOK, Statuses
<1>5. /\ HandedBeforeMark' /\ CurrentLeftRows' /\ StrikesLeft' /\ current'[d] = {}
      /\ \A c \in Dispatchers \ {d} : pc'[c] = pc[c] /\ rows'[c] = rows[c] /\ current'[c] = current[c]
  BY <1>2 DEF IInv, TypeOK, HandedBeforeMark, CurrentLeftRows, StrikesLeft
<1>. QED
  BY <1>1, <1>2, <1>4, <1>5, Write

(* mark_dispatched raises, refused or committed. *)
LEMMA MarkDispatchedRaisesStep ==
  ASSUME IInv, NEW d \in Dispatchers, MarkDispatchedRaises(d)
  PROVE  IInv'
<1>1. /\ pc[d] = "marking" /\ pc' = [pc EXCEPT ![d] = "failing"] /\ faults' \in 0..MaxFaults
      /\ UNCHANGED <<attempts, available, rows, current, strikes, abandoned, job, handed,
                     executions, forgotten, redelivered>>
  BY OutboxAssumption DEF MarkDispatchedRaises, Inject, IInv, TypeOK, queueVars
<1>2. /\ HandedBeforeMark' /\ CurrentLeftRows' /\ StrikesLeft' /\ pc'[d] = "failing"
      /\ \A c \in Dispatchers \ {d} : pc'[c] = pc[c]
  BY <1>1 DEF IInv, TypeOK, HandedBeforeMark, CurrentLeftRows, StrikesLeft
<1>3. CASE UNCHANGED status
  <2>1. TypeOK' /\ Held(d)' = Held(d)
    BY <1>1, <1>3 DEF IInv, TypeOK, Held
  <2>. QED
    BY <1>1, <1>2, <1>3, <2>1, Quiet
<1>4. ASSUME NEW r \in current[d], status' = [status EXCEPT ![r.event] = "DISPATCHED"]
      PROVE  IInv'
  <2>1. r.event \in Events /\ handed[r.event]
    BY <1>1 DEF IInv, TypeOK, Rows, HandedBeforeMark
  <2>2. TypeOK'
    BY <1>1, <1>4, <2>1 DEF IInv, TypeOK, Statuses
  <2>. QED
    BY <1>1, <1>2, <1>4, <2>1, <2>2, Write
<1>. QED
  BY <1>3, <1>4 DEF MarkDispatchedRaises

(* mark_failed raises, refused or committed, and the batch is given up. *)
LEMMA MarkFailedRaisesStep ==
  ASSUME IInv, NEW d \in Dispatchers, MarkFailedRaises(d)
  PROVE  IInv'
<1>1. /\ pc[d] = "failing" /\ faults' \in 0..MaxFaults
      /\ HeldEvents(d) \in SUBSET Events /\ Abandon(d, HeldEvents(d))
  BY HeldEventsTyped, OutboxAssumption DEF MarkFailedRaises, Inject, IInv, TypeOK
<1>2. /\ rows' = [rows EXCEPT ![d] = {}] /\ current' = [current EXCEPT ![d] = {}]
      /\ UNCHANGED <<job, handed, executions, forgotten, redelivered>>
      /\ abandoned' \in SUBSET Events
      /\ strikes' \in [Dispatchers -> 0..MaxStrikes]
      /\ \E place \in {"idle", "halted"} : pc' = [pc EXCEPT ![d] = place]
      /\ StrikesLeft'
  BY <1>1, AbandonLocals
<1>3. /\ HandedBeforeMark' /\ CurrentLeftRows' /\ Held(d)' = {}
      /\ rows'[d] = {} /\ current'[d] = {}
      /\ \A c \in Dispatchers \ {d} : pc'[c] = pc[c] /\ rows'[c] = rows[c] /\ current'[c] = current[c]
  BY <1>2 DEF IInv, TypeOK, HandedBeforeMark, CurrentLeftRows, Held
<1>4. CASE UNCHANGED dbVars
  <2>1. TypeOK'
    BY <1>1, <1>2, <1>4 DEF IInv, TypeOK, dbVars
  <2>. QED
    BY <1>2, <1>3, <1>4, <2>1, Quiet DEF dbVars
<1>5. ASSUME NEW r \in current[d], FailRow(r)
      PROVE  IInv'
  <2>1. PICK next \in {"FAILED", "DEAD_LETTERED"} :
           /\ status' = [status EXCEPT ![r.event] = next]
           /\ next = "FAILED" => r.attempts < MaxAttempts
           /\ next = "DEAD_LETTERED" => r.attempts = MaxAttempts
           /\ available' \in SUBSET Events /\ UNCHANGED attempts
    BY <1>5, FailRowWrites
  <2>2. TypeOK'
    BY <1>1, <1>2, <2>1 DEF IInv, TypeOK, Statuses
  <2>. QED
    BY <1>2, <1>3, <2>1, <2>2, Write
<1>. QED
  BY <1>4, <1>5 DEF MarkFailedRaises

(* Every step preserves the inductive invariant. *)
LEMMA StepIInv == IInv /\ [Next]_vars => IInv'
<1> SUFFICES ASSUME IInv, [Next]_vars PROVE IInv'
  OBVIOUS
<1>1. ASSUME NEW e \in Events,
             \/ WriteOutbox(e) \/ BackoffElapses(e) \/ JobStarts(e) \/ JobRedelivered(e)
             \/ JobEnds(e) \/ ResultForgotten(e)
      PROVE  IInv'
  BY <1>1, EventSteps
<1>2. ASSUME NEW d \in Dispatchers, Dispatch(d) \/ DispatchFault(d)
      PROVE  IInv'
  BY <1>2, ClaimStep, ClaimRaisesStep, LocalSteps, MarkSteps, MarkDispatchedRaisesStep,
     MarkFailedRaisesStep DEF Dispatch, DispatchFault
<1>3. CASE UNCHANGED vars
  BY <1>3 DEF vars, dbVars, procVars, queueVars, IInv, TypeOK, ExclusiveClaim, Unheard,
     DispatchedWasHandedOver, DeadLetterIsExhausted, UntriedBeforeWrite, HandedBeforeMark,
     CurrentLeftRows, StrikesLeft, ClaimedTried, Held
<1>. QED
  BY <1>1, <1>2, <1>3 DEF Next

-----------------------------------------------------------------------------
(* The inductive invariant holds throughout: for any Events, Dispatchers,     *)
(* BatchLimit, MaxAttempts and any faults.                                    *)
THEOREM OutboxInvariant == Spec => []IInv
  BY InitIInv, StepIInv, PTL DEF Spec

(* The outbox's rows and the dispatchers' locals are well typed.              *)
THEOREM OutboxTyped == Spec => []TypeOK
<1>1. IInv => TypeOK
  BY DEF IInv
<1>. QED
  BY <1>1, OutboxInvariant, PTL

(* Two dispatchers never hold the same event, and the row a dispatcher marks  *)
(* is still the one it claimed, unless the mark it overwrites is its own.     *)
THEOREM ClaimsAreExclusive == Spec => []ExclusiveClaim
<1>1. IInv => ExclusiveClaim
  BY DEF IInv
<1>. QED
  BY <1>1, OutboxInvariant, PTL

(* No event is called DISPATCHED whose job the queue never received.          *)
THEOREM DispatchedImpliesHandedOver == Spec => []DispatchedWasHandedOver
<1>1. IInv => DispatchedWasHandedOver
  BY DEF IInv
<1>. QED
  BY <1>1, OutboxInvariant, PTL

(* No event is dead-lettered before its last attempt or tried after it.       *)
THEOREM DeadLettersAreExhausted == Spec => []DeadLetterIsExhausted
<1>1. IInv => DeadLetterIsExhausted
  BY DEF IInv
<1>. QED
  BY <1>1, OutboxInvariant, PTL
-----------------------------------------------------------------------------
(* The outbox implements JobDelivery: each step is a step of the abstract     *)
(* outbox or leaves its four variables alone.                                 *)
Outcomes == [e \in Events |-> Outcome(status[e])]

(* The initial rows are those of JobDelivery. *)
LEMMA InitDelivery == Init => Delivery!Init
BY DEF Init, Delivery!Init, Outcome, Doubted, Unheard

(* Only the dispatcher that moves can begin or end a doubt. *)
LEMMA DoubtMoves ==
  ASSUME NEW d \in Dispatchers, UNCHANGED status,
         \A c \in Dispatchers \ {d} : pc'[c] = pc[c] /\ current'[c] = current[c]
  PROVE  /\ Doubted \subseteq Doubted' \cup {r.event : r \in Unheard(d)}
         /\ Doubted' \subseteq Doubted \cup {r.event : r \in Unheard(d)'}
<1>1. \A c \in Dispatchers \ {d} : Unheard(c)' = Unheard(c)
  BY DEF Unheard
<1>. QED
  BY <1>1 DEF Doubted

(* A doubt ends without the row's being written again. *)
LEMMA DoubtEnds ==
  ASSUME IInv, NEW d \in Dispatchers, UNCHANGED <<status, attempts, handed>>,
         \A c \in Dispatchers \ {d} : pc'[c] = pc[c] /\ current'[c] = current[c],
         current'[d] = {}
  PROVE  UNCHANGED Delivery!vars \/ \E e \in Events : Delivery!Confirm(e)
<1>1. Unheard(d)' = {}
  BY DEF Unheard
<1>2. CASE Unheard(d) = {}
  BY <1>1, <1>2, DoubtMoves DEF Delivery!vars, Outcome
<1>3. ASSUME NEW r \in Unheard(d)
      PROVE  r.event \in Events /\ Delivery!Confirm(r.event)
  <2>1. /\ r \in current[d] /\ pc[d] = "failing" /\ status[r.event] = "DISPATCHED"
        /\ r \in Held(d) /\ r.event \in Events /\ r.event \in Doubted
    BY <1>3, HeldRows DEF Unheard, Held, Doubted
  <2>2. Unheard(d) = {r}
    BY <1>3, <2>1 DEF Unheard, IInv, CurrentLeftRows
  <2>3. r.event \notin Doubted'
    <3>1. ASSUME NEW c \in Dispatchers, NEW q \in Unheard(c)'
          PROVE  q.event # r.event
      <4>1. c # d
        BY <1>1
      <4>2. q \in Held(c)
        BY <4>1 DEF Unheard, Held
      <4>. QED
        BY <2>1, <4>1, <4>2 DEF IInv, ExclusiveClaim
    <3>. QED
      BY <3>1 DEF Doubted
  <2>4. Doubted' = Doubted \ {r.event}
    BY <1>1, <2>2, <2>3, DoubtMoves
  <2>. QED
    BY <2>1, <2>4 DEF Delivery!Confirm, Outcome
<1>. QED
  BY <1>2, <1>3

(* A step outside the except branch writes nothing and leaves no doubt. *)
LEMMA StutterDelivery ==
  ASSUME UNCHANGED <<status, attempts, handed>>, Doubted' = Doubted
  PROVE  UNCHANGED Delivery!vars
BY DEF Delivery!vars, Outcome

(* The write of the row in progress, seen from outside. *)
LEMMA WriteDelivery ==
  ASSUME IInv, NEW d \in Dispatchers, NEW r \in current[d],
         NEW next \in {"DISPATCHED", "FAILED", "DEAD_LETTERED"},
         status' = [status EXCEPT ![r.event] = next],
         \A c \in Dispatchers \ {d} : pc'[c] = pc[c] /\ current'[c] = current[c]
  PROVE  /\ r.event \in Events
         /\ Outcomes' = [Outcomes EXCEPT ![r.event] = Outcome(next)]
         /\ r.event \in Doubted <=> pc[d] = "failing" /\ status[r.event] = "DISPATCHED"
         /\ current'[d] = {} => Doubted' = Doubted \ {r.event}
         /\ current'[d] = current[d] /\ pc'[d] = "failing" /\ next = "DISPATCHED"
              => Doubted' = Doubted \cup {r.event}
<1>1. r \in Held(d) /\ r.event \in Events /\ status \in [Events -> Statuses]
  BY HeldRows DEF Held, IInv, TypeOK
<1>2. \A q \in current[d] : q = r
  BY DEF IInv, CurrentLeftRows
<1>3. \A c \in Dispatchers \ {d} : \A q \in current[c] : q.event \in Events /\ q.event # r.event
  BY <1>1, HeldRows DEF IInv, ExclusiveClaim, Held
<1>4. \A c \in Dispatchers \ {d} : Unheard(c)' = Unheard(c)
  BY <1>1, <1>3 DEF Unheard
<1>5. \A c \in Dispatchers \ {d} : \A q \in Unheard(c) : q.event # r.event
  BY <1>3 DEF Unheard
<1>6. Unheard(d) = IF pc[d] = "failing" /\ status[r.event] = "DISPATCHED" THEN {r} ELSE {}
  BY <1>2 DEF Unheard
<1>7. r.event \in Doubted <=> pc[d] = "failing" /\ status[r.event] = "DISPATCHED"
  BY <1>5, <1>6 DEF Doubted
<1>8. ASSUME current'[d] = {}
      PROVE  Doubted' = Doubted \ {r.event}
  <2>1. Unheard(d)' = {}
    BY <1>8 DEF Unheard
  <2>2. \A e : e \in Doubted' <=> e \in Doubted /\ e # r.event
    BY <1>4, <1>5, <1>6, <2>1 DEF Doubted
  <2>. QED
    BY <2>2
<1>9. ASSUME current'[d] = current[d], pc'[d] = "failing", next = "DISPATCHED"
      PROVE  Doubted' = Doubted \cup {r.event}
  <2>1. Unheard(d)' = {r}
    BY <1>1, <1>2, <1>9 DEF Unheard
  <2>2. \A e : e \in Doubted' <=> e \in Doubted \/ e = r.event
    BY <1>4, <1>5, <1>6, <2>1 DEF Doubted
  <2>. QED
    BY <2>2
<1>10. Outcomes' = [Outcomes EXCEPT ![r.event] = Outcome(next)]
  BY <1>1 DEF Outcomes, Outcome
<1>. QED
  BY <1>1, <1>7, <1>8, <1>9, <1>10

(* The write of mark_failed: the last attempt's gives the event up, an        *)
(* earlier one's leaves it waiting, and either undoes a delivery in doubt.    *)
LEMMA FailDelivery ==
  ASSUME IInv, NEW d \in Dispatchers, NEW r \in current[d], FailRow(r), pc[d] = "failing",
         \A c \in Dispatchers \ {d} : pc'[c] = pc[c] /\ current'[c] = current[c],
         current'[d] = {}, UNCHANGED handed
  PROVE  \/ UNCHANGED Delivery!vars
         \/ \E e \in Events : Delivery!GiveUp(e) \/ Delivery!TakeBack(e)
<1>1. PICK next \in {"DISPATCHED", "FAILED", "DEAD_LETTERED"} :
        /\ next # "DISPATCHED"
        /\ status' = [status EXCEPT ![r.event] = next]
        /\ next = "FAILED" => r.attempts < MaxAttempts
        /\ next = "DEAD_LETTERED" => r.attempts = MaxAttempts
        /\ UNCHANGED attempts
  BY FailRowWrites
<1>2. /\ r.event \in Events
      /\ Outcomes' = [Outcomes EXCEPT ![r.event] = Outcome(next)]
      /\ r.event \in Doubted <=> status[r.event] = "DISPATCHED"
      /\ Doubted' = Doubted \ {r.event}
  BY <1>1, WriteDelivery DEF Outcome
<1>3. /\ status[r.event] \in {"DISPATCHING", "DISPATCHED"} /\ r.attempts = attempts[r.event]
      /\ r.attempts \in 0..MaxAttempts
  BY HeldRows DEF Held, Rows
<1>4. Outcome(next) = IF attempts[r.event] = MaxAttempts THEN "dead" ELSE "waiting"
  BY <1>1, <1>3, OutboxAssumption DEF Outcome
<1>5. CASE status[r.event] = "DISPATCHED"
  <2>1. Outcomes[r.event] = "delivered"
    BY <1>2, <1>5 DEF Outcomes, Outcome
  <2>. QED
    BY <1>1, <1>2, <1>4, <1>5, <2>1 DEF Delivery!TakeBack, Outcomes
<1>6. CASE status[r.event] = "DISPATCHING"
  <2>1. Outcomes[r.event] = "waiting" /\ Doubted' = Doubted
    BY <1>2, <1>6 DEF Outcomes, Outcome
  <2>2. CASE attempts[r.event] = MaxAttempts
    BY <1>1, <1>2, <1>4, <2>1, <2>2 DEF Delivery!GiveUp, Outcomes
  <2>3. CASE attempts[r.event] # MaxAttempts
    <3>1. Outcomes' = Outcomes
      BY <1>2, <1>4, <2>1, <2>3 DEF Outcomes
    <3>. QED
      BY <1>1, <2>1, <3>1 DEF Delivery!vars, Outcomes
  <2>. QED
    BY <2>2, <2>3
<1>. QED
  BY <1>3, <1>5, <1>6

(* claim_pending's UPDATE, whether it is heard of or not. *)
LEMMA ClaimDelivery ==
  ASSUME IInv, NEW d \in Dispatchers, ClaimPending(d) \/ ClaimRaises(d)
  PROVE  \E S \in SUBSET Events : Delivery!Try(S)
<1>1. PICK S \in SUBSET Claimable : Claim(S)
  BY DEF ClaimPending, ClaimRaises
<1>2. UNCHANGED handed
  BY DEF ClaimPending, ClaimRaises, Abandon, queueVars
<1>3. \A e \in S : e \in Events /\ status[e] \in {"PENDING", "FAILED"} /\ attempts[e] < MaxAttempts
  BY DEF Claimable, IInv, DeadLetterIsExhausted
<1>4. \A e \in Events : Outcome(status'[e]) = Outcome(status[e])
  BY <1>1, <1>3 DEF Claim, Outcome
<1>5. pc[d] = "idle" /\ pc'[d] # "failing"
  BY DEF ClaimPending, ClaimRaises, Abandon, IInv, TypeOK
<1>6. \A c \in Dispatchers \ {d} : pc'[c] = pc[c] /\ current'[c] = current[c]
  BY DEF ClaimPending, ClaimRaises, Abandon, IInv, TypeOK
<1>7. \A c \in Dispatchers : Unheard(c)' = Unheard(c)
  <2>1. \A c \in Dispatchers : \A q \in current[c] : status'[q.event] = status[q.event]
    BY <1>1, <1>2, ClaimRows DEF Held
  <2>. QED
    BY <1>5, <1>6, <2>1 DEF Unheard
<1>8. Doubted' = Doubted
  BY <1>7 DEF Doubted
<1>9. Delivery!Try(S)
  BY <1>1, <1>2, <1>3, <1>4, <1>8 DEF Claim, Delivery!Try, Outcome
<1>. QED
  BY <1>3, <1>9

(* The job reaches the queue, whether the reply arrives or not. *)
LEMMA EnqueueDelivery ==
  ASSUME IInv, NEW d \in Dispatchers, EnqueueJob(d) \/ EnqueueUnheard(d)
  PROVE  \E e \in Events : Delivery!HandOver(e)
<1>1. PICK r \in rows[d] : Take(d, r) /\ Enqueue(r.event)
  BY DEF EnqueueJob, EnqueueUnheard
<1>2. /\ r \in Held(d) /\ r.event \in Events /\ pc[d] = "looping" /\ current'[d] = {r}
      /\ \A c \in Dispatchers \ {d} : current'[c] = current[c]
  BY <1>1, TakeLocals DEF Held
<1>3. status[r.event] = "DISPATCHING" /\ attempts[r.event] > 0
  BY <1>2, HeldRows DEF IInv, ClaimedTried
<1>4. /\ UNCHANGED <<status, attempts>> /\ handed' = [handed EXCEPT ![r.event] = TRUE]
      /\ \A c \in Dispatchers \ {d} : pc'[c] = pc[c]
  BY <1>1 DEF EnqueueJob, EnqueueUnheard, Enqueue, dbVars, IInv, TypeOK
<1>5. Unheard(d) = {} /\ Unheard(d)' = {}
  BY <1>2, <1>3, <1>4 DEF Unheard
<1>6. Doubted' = Doubted
  BY <1>2, <1>4, <1>5, DoubtMoves
<1>. QED
  BY <1>2, <1>3, <1>4, <1>6 DEF Delivery!HandOver, Outcome

(* mark_dispatched's write, whether it is heard of or not. *)
LEMMA MarkDelivery ==
  ASSUME IInv, NEW d \in Dispatchers, MarkDispatched(d) \/ MarkDispatchedRaises(d)
  PROVE  UNCHANGED Delivery!vars \/ \E e \in Events : Delivery!Deliver(e)
<1>1. /\ pc[d] = "marking" /\ UNCHANGED <<attempts, handed>>
      /\ \A c \in Dispatchers \ {d} : pc'[c] = pc[c] /\ current'[c] = current[c]
      /\ current'[d] = {} \/ (current'[d] = current[d] /\ pc'[d] = "failing")
  BY DEF MarkDispatched, MarkDispatchedRaises, queueVars, IInv, TypeOK
<1>2. ASSUME NEW r \in current[d], status' = [status EXCEPT ![r.event] = "DISPATCHED"]
      PROVE  \E e \in Events : Delivery!Deliver(e)
  <2>1. /\ r.event \in Events
        /\ Outcomes' = [Outcomes EXCEPT ![r.event] = Outcome("DISPATCHED")]
        /\ r.event \notin Doubted
        /\ Doubted' = Doubted \ {r.event} \/ Doubted' = Doubted \cup {r.event}
    BY <1>1, <1>2, WriteDelivery
  <2>2. status[r.event] = "DISPATCHING" /\ handed[r.event]
    BY <1>1, HeldRows DEF Held, IInv, HandedBeforeMark
  <2>3. Outcomes[r.event] = "waiting" /\ Outcome("DISPATCHED") = "delivered"
    BY <2>1, <2>2 DEF Outcomes, Outcome
  <2>4. Doubted' \in {Doubted, Doubted \cup {r.event}}
    BY <2>1
  <2>. QED
    BY <1>1, <2>1, <2>2, <2>3, <2>4 DEF Delivery!Deliver, Outcomes
<1>3. CASE MarkDispatchedRaises(d) /\ UNCHANGED status
  <2>1. Unheard(d) = {} /\ Unheard(d)' = {}
    <3>1. \A r \in current[d] : status[r.event] = "DISPATCHING"
      BY <1>1, HeldRows DEF Held
    <3>2. UNCHANGED current
      BY <1>3 DEF MarkDispatchedRaises
    <3>. QED
      BY <1>1, <1>3, <3>1, <3>2 DEF Unheard
  <2>. QED
    BY <1>1, <1>3, <2>1, DoubtMoves, StutterDelivery
<1>. QED
  BY <1>2, <1>3 DEF MarkDispatched, MarkDispatchedRaises

(* A batch that is given up, or a process that dies, lets a doubt stand. *)
LEMMA LeaveDelivery ==
  ASSUME IInv, NEW d \in Dispatchers,
         ConnectRaises(d) \/ HeartbeatRaises(d) \/ CrashRestart(d) \/ MarkFailed(d) \/ MarkFailedRaises(d)
  PROVE  \/ UNCHANGED Delivery!vars
         \/ \E e \in Events : Delivery!Confirm(e) \/ Delivery!GiveUp(e) \/ Delivery!TakeBack(e)
<1>1. /\ UNCHANGED handed /\ current'[d] = {}
      /\ \A c \in Dispatchers \ {d} : pc'[c] = pc[c] /\ current'[c] = current[c]
  BY DEF ConnectRaises, HeartbeatRaises, CrashRestart, MarkFailed, MarkFailedRaises, Abandon,
         queueVars, IInv, TypeOK
<1>2. CASE UNCHANGED dbVars
  BY <1>1, <1>2, DoubtEnds DEF dbVars
<1>3. CASE pc[d] = "failing" /\ \E r \in current[d] : FailRow(r)
  BY <1>1, <1>3, FailDelivery
<1>. QED
  BY <1>2, <1>3 DEF ConnectRaises, HeartbeatRaises, CrashRestart, MarkFailed, MarkFailedRaises

(* One step of the dispatcher or of its environment. *)
LEMMA StepDelivery == IInv /\ [Next]_vars => [Delivery!Next]_(Delivery!vars)
<1> SUFFICES ASSUME IInv, [Next]_vars PROVE [Delivery!Next]_(Delivery!vars)
  OBVIOUS
<1>1. ASSUME NEW e \in Events, WriteOutbox(e)
      PROVE  Delivery!Submit(e)
  <2>1. /\ status[e] = "ABSENT" /\ status' = [status EXCEPT ![e] = "PENDING"]
        /\ UNCHANGED <<attempts, handed, pc, current>>
    BY <1>1 DEF WriteOutbox, procVars, queueVars
  <2>2. \A d \in Dispatchers : \A r \in current[d] : r.event # e /\ r.event \in Events
    BY <2>1, HeldRows DEF Held
  <2>3. \A d \in Dispatchers : Unheard(d)' = Unheard(d)
    BY <2>1, <2>2 DEF Unheard, IInv, TypeOK
  <2>4. Doubted' = Doubted
    BY <2>3 DEF Doubted
  <2>. QED
    BY <2>1, <2>4 DEF Delivery!Submit, Outcome, IInv, TypeOK
<1>2. ASSUME NEW e \in Events,
             \/ BackoffElapses(e) \/ JobStarts(e) \/ JobRedelivered(e) \/ JobEnds(e)
             \/ ResultForgotten(e)
      PROVE  UNCHANGED Delivery!vars
  <2>1. UNCHANGED <<status, attempts, handed, pc, current>>
    BY <1>2 DEF BackoffElapses, JobStarts, JobRedelivered, JobEnds, ResultForgotten, queueVars,
                dbVars, procVars
  <2>. QED
    BY <2>1, StutterDelivery DEF Doubted, Unheard
<1>3. ASSUME NEW d \in Dispatchers,
             ConnectRedis(d) \/ EnqueueRaises(d) \/ BatchDone(d) \/ EmptyPoll(d)
      PROVE  UNCHANGED Delivery!vars
  <2>1. /\ UNCHANGED <<status, attempts, handed>> /\ pc[d] # "failing"
        /\ \A c \in Dispatchers \ {d} : pc'[c] = pc[c] /\ current'[c] = current[c]
    BY <1>3 DEF ConnectRedis, EnqueueRaises, BatchDone, EmptyPoll, Take, dbVars, queueVars, IInv, TypeOK
  <2>2. \A r \in current'[d] : r \in Held(d)
    BY <1>3 DEF ConnectRedis, EnqueueRaises, BatchDone, EmptyPoll, Take, Held, IInv, TypeOK
  <2>3. Unheard(d) = {} /\ Unheard(d)' = {}
    BY <2>1, <2>2, HeldRows DEF Unheard
  <2>. QED
    BY <2>1, <2>3, DoubtMoves, StutterDelivery
<1>4. CASE UNCHANGED vars
  BY <1>4, StutterDelivery DEF vars, dbVars, procVars, queueVars, Doubted, Unheard
<1>. QED
  BY <1>1, <1>2, <1>3, <1>4, ClaimDelivery, EnqueueDelivery, MarkDelivery, LeaveDelivery
  DEF Next, Dispatch, DispatchFault, Delivery!Next

(* Every behaviour of the outbox is one JobDelivery allows: final ends but    *)
(* for the delivery whose acknowledgement a dispatcher never received.        *)
THEOREM OutboxImplementsDelivery == Spec => ImplementsDelivery
BY OutboxInvariant, InitDelivery, StepDelivery, PTL DEF Spec, ImplementsDelivery, Delivery!Spec

(* Both ends of an event were earned. *)
THEOREM OutcomesEarned == Spec => []OutcomesAreEarned
BY DispatchedImpliesHandedOver, DeadLettersAreExhausted, PTL DEF OutcomesAreEarned
-----------------------------------------------------------------------------
(* The queue's books: what may still be run without a further cause, a job    *)
(* absent or queued, counts as run already.                                   *)
Pending(e) == IF job[e] \in {"absent", "queued"} THEN 1 ELSE 0

RunsAreCounted == \A e \in Events : executions[e] + Pending(e) <= 1 + forgotten[e] + redelivered[e]

(* A job handed over is in the queue or has run; one that was taken back has  *)
(* run before.                                                                *)
RunsAreKept ==
  \A e \in Events :
    /\ handed[e] => job[e] # "absent" \/ executions[e] > 0
    /\ job[e] \in {"running", "kept"} \/ redelivered[e] > 0 => executions[e] > 0

(* Only the queue's own steps open or close an entry; handing an event over   *)
(* again leaves the entry of a job the queue still knows.                     *)
LEMMA CountsStep ==
  IInv /\ RunsAreCounted /\ RunsAreKept /\ [Next]_vars => RunsAreCounted' /\ RunsAreKept'
<1> SUFFICES ASSUME IInv, RunsAreCounted, RunsAreKept, [Next]_vars
             PROVE  RunsAreCounted' /\ RunsAreKept'
  OBVIOUS
<1>t. /\ job \in [Events -> {"absent", "queued", "running", "kept"}]
      /\ handed \in [Events -> BOOLEAN] /\ executions \in [Events -> Nat]
      /\ forgotten \in [Events -> Nat] /\ redelivered \in [Events -> Nat]
  BY DEF IInv, TypeOK
<1>1. ASSUME UNCHANGED queueVars
      PROVE  RunsAreCounted' /\ RunsAreKept'
  BY <1>1 DEF queueVars, RunsAreCounted, RunsAreKept, Pending
<1>2. ASSUME NEW e \in Events, WriteOutbox(e) \/ BackoffElapses(e)
      PROVE  UNCHANGED queueVars
  BY <1>2 DEF WriteOutbox, BackoffElapses
<1>3. ASSUME NEW e \in Events, JobStarts(e)
      PROVE  RunsAreCounted' /\ RunsAreKept'
  BY <1>t, <1>3 DEF JobStarts, RunsAreCounted, RunsAreKept, Pending
<1>4. ASSUME NEW e \in Events, JobRedelivered(e)
      PROVE  RunsAreCounted' /\ RunsAreKept'
  BY <1>t, <1>4 DEF JobRedelivered, RunsAreCounted, RunsAreKept, Pending
<1>5. ASSUME NEW e \in Events, JobEnds(e)
      PROVE  RunsAreCounted' /\ RunsAreKept'
  BY <1>t, <1>5 DEF JobEnds, RunsAreCounted, RunsAreKept, Pending
<1>6. ASSUME NEW e \in Events, ResultForgotten(e)
      PROVE  RunsAreCounted' /\ RunsAreKept'
  BY <1>t, <1>6 DEF ResultForgotten, RunsAreCounted, RunsAreKept, Pending
<1>7. ASSUME NEW d \in Dispatchers, EnqueueJob(d) \/ EnqueueUnheard(d)
      PROVE  RunsAreCounted' /\ RunsAreKept'
  <2>1. PICK e \in Events : Enqueue(e)
    <3>1. \A r \in rows[d] : r.event \in Events
      BY DEF IInv, TypeOK, Rows
    <3>. QED
      BY <1>7, <3>1 DEF EnqueueJob, EnqueueUnheard
  <2>2. \A x \in Events : Pending(x)' = Pending(x)
    BY <1>t, <2>1 DEF Enqueue, Pending
  <2>3. RunsAreCounted'
    BY <2>1, <2>2 DEF Enqueue, RunsAreCounted
  <2>4. RunsAreKept'
    BY <1>t, <2>1 DEF Enqueue, RunsAreKept
  <2>. QED
    BY <2>3, <2>4
<1>8. ASSUME NEW d \in Dispatchers,
             \/ ClaimPending(d) \/ EmptyPoll(d) \/ ConnectRedis(d) \/ EnqueueRaises(d)
             \/ MarkDispatched(d) \/ MarkFailed(d) \/ BatchDone(d)
             \/ ClaimRaises(d) \/ ConnectRaises(d) \/ MarkDispatchedRaises(d)
             \/ MarkFailedRaises(d) \/ HeartbeatRaises(d) \/ CrashRestart(d)
      PROVE  UNCHANGED queueVars
  BY <1>8 DEF ClaimPending, EmptyPoll, ConnectRedis, EnqueueRaises, MarkDispatched, MarkFailed,
              BatchDone, ClaimRaises, ConnectRaises, MarkDispatchedRaises, MarkFailedRaises,
              HeartbeatRaises, CrashRestart, Abandon
<1>9. UNCHANGED vars => UNCHANGED queueVars
  BY DEF vars
<1>. QED
  BY <1>1, <1>2, <1>3, <1>4, <1>5, <1>6, <1>7, <1>8, <1>9 DEF Next, Dispatch, DispatchFault

(* A job handed over is queued or has run, and runs beyond its first only     *)
(* when ARQ let its id go or took it back, however often its event is         *)
(* claimed, crashed on, marked in vain and handed over again.                 *)
THEOREM RunsAreCaused == Spec => []RunsHaveCauses
<1>1. Init => RunsAreCounted /\ RunsAreKept
  BY DEF Init, RunsAreCounted, RunsAreKept, Pending
<1>2. IInv /\ RunsAreCounted /\ RunsAreKept => RunsHaveCauses
  BY DEF IInv, TypeOK, RunsAreCounted, RunsAreKept, Pending, RunsHaveCauses
<1>. QED
  BY <1>1, <1>2, CountsStep, OutboxInvariant, PTL DEF Spec
=============================================================================
