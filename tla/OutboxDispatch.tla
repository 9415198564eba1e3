--------------------------- MODULE OutboxDispatch ---------------------------
(* The transactional outbox of document ingestion: the web app inserts an     *)
(* event with the accepted version (apps/web/src/server/queue/outbox.ts), and *)
(* dispatcher processes (document_intelligence/outbox/dispatcher.py) claim    *)
(* events, enqueue ARQ jobs and record the result.  Postgres and Redis share  *)
(* no transaction, so every call below is a step of its own and may fail:     *)
(* either nothing happened, or the effect landed and only its acknowledgement *)
(* was lost (the transaction of db.py commits, then the connection breaks).   *)
(*                                                                            *)
(* Time is abstracted: an event whose "availableAt" has passed is in the set  *)
(* available; BackoffElapses puts it back after mark_failed moved the date.   *)
EXTENDS Naturals, FiniteSets

CONSTANTS Events,        \* outbox_event rows, one per processing run
          Malformed,     \* those with an unknown type or an incomplete payload
          Dispatchers,   \* dispatcher processes
          BatchLimit,    \* LIMIT of claim_pending
          MaxAttempts,   \* settings.outbox_max_attempts
          MaxStrikes,    \* consecutive terminal errors before SystemExit
          Faults,        \* kinds of failure the environment may inject
          MaxFaults      \* bound on the number of injected failures

ASSUME OutboxAssumption ==
  /\ Malformed \subseteq Events
  /\ BatchLimit \in Nat \ {0}
  /\ MaxAttempts \in Nat \ {0}
  /\ MaxStrikes \in Nat \ {0}
  /\ Faults \subseteq {"claim", "connect", "enqueue", "mark", "crash", "worker"}
  /\ MaxFaults \in Nat

VARIABLES
  status,      \* outbox_event.status, "ABSENT" before the insert commits
  attempts,    \* outbox_event.attempts
  available,   \* events with availableAt <= now
  pc,          \* where each dispatcher is inside dispatch_once
  rows,        \* claimed rows a dispatcher still has to handle
  current,     \* the row of the iteration in progress, a set of at most one
  strikes,     \* consecutive_terminal in run_loop
  abandoned,   \* history: events whose claimed row a failing batch forgot
  job,         \* the ARQ job with the event's idempotency key
  handed,      \* history: the queue has received the event's job
  executions,  \* history: how often a worker ran the event's job
  forgotten,   \* history: how often ARQ let the event's job id go (keep_result)
  redelivered, \* history: how often ARQ took a started job back into its queue
  faults       \* injected failures so far

dbVars     == <<status, attempts, available>>
procVars   == <<pc, rows, current, strikes, abandoned>>
queueVars  == <<job, handed, executions, forgotten, redelivered>>
vars       == <<dbVars, procVars, queueVars, faults>>

Statuses == {"ABSENT", "PENDING", "DISPATCHING", "DISPATCHED", "FAILED", "DEAD_LETTERED"}
Rows     == [event : Events, attempts : 0..MaxAttempts]
Settled  == {"DISPATCHED", "DEAD_LETTERED"}

Init ==
  /\ status = [e \in Events |-> "ABSENT"]
  /\ attempts = [e \in Events |-> 0]
  /\ available = {}
  /\ pc = [d \in Dispatchers |-> "idle"]
  /\ rows = [d \in Dispatchers |-> {}]
  /\ current = [d \in Dispatchers |-> {}]
  /\ strikes = [d \in Dispatchers |-> 0]
  /\ abandoned = {}
  /\ job = [e \in Events |-> "absent"]
  /\ handed = [e \in Events |-> FALSE]
  /\ executions = [e \in Events |-> 0]
  /\ forgotten = [e \in Events |-> 0]
  /\ redelivered = [e \in Events |-> 0]
  /\ faults = 0

Inject(kind) ==
  /\ kind \in Faults /\ faults < MaxFaults
  /\ faults' = faults + 1

-----------------------------------------------------------------------------
(* Mutant: the insert is an upsert that reopens a dispatched event. *)
WriteOutboxUpsert(e) ==
  /\ status[e] \in {"ABSENT", "DISPATCHED"}
  /\ status' = [status EXCEPT ![e] = "PENDING"]
  /\ available' = available \cup {e}
  /\ UNCHANGED <<attempts, procVars, queueVars, faults>>

(* The web app: the event is inserted in the transaction that accepts the     *)
(* upload or the retry, PENDING and available at once.                        *)
WriteOutbox(e) ==
  /\ status[e] = "ABSENT"
  /\ status' = [status EXCEPT ![e] = "PENDING"]
  /\ available' = available \cup {e}
  /\ UNCHANGED <<attempts, procVars, queueVars, faults>>

(* Time passes beyond the back-off date of a failed event. *)
BackoffElapses(e) ==
  /\ status[e] = "FAILED" /\ e \notin available
  /\ available' = available \cup {e}
  /\ UNCHANGED <<status, attempts, procVars, queueVars, faults>>

-----------------------------------------------------------------------------
(* dispatch_once, call by call.                                               *)

(* Mutant: rows being dispatched may be claimed too. *)
ClaimableInFlight ==
  {e \in Events : status[e] \in {"PENDING", "FAILED", "DISPATCHING"} /\ e \in available}

Claimable == {e \in Events : status[e] \in {"PENDING", "FAILED"} /\ e \in available}

(* The UPDATE of claim_pending. *)
Claim(S) ==
  /\ status' = [e \in Events |-> IF e \in S THEN "DISPATCHING" ELSE status[e]]
  /\ attempts' = [e \in Events |-> IF e \in S THEN attempts[e] + 1 ELSE attempts[e]]
  /\ UNCHANGED available

(* claim_pending: one UPDATE over FOR UPDATE SKIP LOCKED rows, so one step.   *)
(* It takes at most LIMIT rows; which ones it leaves depends on availableAt   *)
(* and on the rows that another claim has locked.                             *)
ClaimPending(d) ==
  /\ pc[d] = "idle"
  /\ \E S \in SUBSET Claimable :
       /\ S # {} /\ Cardinality(S) <= BatchLimit
       /\ Claim(S)
       /\ rows' = [rows EXCEPT ![d] = {[event |-> e, attempts |-> attempts[e] + 1] : e \in S}]
  /\ pc' = [pc EXCEPT ![d] = "connecting"]
  /\ UNCHANGED <<current, strikes, abandoned, queueVars, faults>>

(* Nothing to claim, or nothing that another dispatcher is not claiming. *)
EmptyPoll(d) ==
  /\ pc[d] = "idle" /\ (Claimable = {} \/ Dispatchers # {d})
  /\ strikes' = [strikes EXCEPT ![d] = 0]
  /\ UNCHANGED <<dbVars, pc, rows, current, abandoned, queueVars, faults>>

(* create_arq_redis, before the try block of the batch. *)
ConnectRedis(d) ==
  /\ pc[d] = "connecting"
  /\ pc' = [pc EXCEPT ![d] = "looping"]
  /\ UNCHANGED <<dbVars, rows, current, strikes, abandoned, queueVars, faults>>

(* The next row of the batch becomes the one in progress. *)
Take(d, r) ==
  /\ pc[d] = "looping"
  /\ rows' = [rows EXCEPT ![d] = @ \ {r}]
  /\ current' = [current EXCEPT ![d] = {r}]

(* Mutant: enqueue_job without _job_id, so ARQ cannot recognise the job. *)
EnqueueAnonymous(e) ==
  /\ job' = [job EXCEPT ![e] = "queued"]
  /\ handed' = [handed EXCEPT ![e] = TRUE]
  /\ UNCHANGED <<executions, forgotten, redelivered>>

(* enqueue_job: with _job_id = idempotencyKey ARQ ignores a job it already    *)
(* holds (external).                                                          *)
Enqueue(e) ==
  /\ job' = [job EXCEPT ![e] = IF @ = "absent" THEN "queued" ELSE @]
  /\ handed' = [handed EXCEPT ![e] = TRUE]
  /\ UNCHANGED <<executions, forgotten, redelivered>>

(* The next iteration: the row is checked, then enqueue_job is called. *)
EnqueueJob(d) ==
  /\ \E r \in rows[d] : r.event \notin Malformed /\ Take(d, r) /\ Enqueue(r.event)
  /\ pc' = [pc EXCEPT ![d] = "marking"]
  /\ UNCHANGED <<dbVars, strikes, abandoned, faults>>

(* The iteration raises before the job is in the queue. *)
EnqueueRaises(d) ==
  /\ \E r \in rows[d] :
       /\ IF r.event \in Malformed THEN UNCHANGED faults ELSE Inject("enqueue")
       /\ Take(d, r)
  /\ pc' = [pc EXCEPT ![d] = "failing"]
  /\ UNCHANGED <<dbVars, strikes, abandoned, queueVars>>

(* The job is in the queue, and the reply of Redis is lost. *)
EnqueueUnheard(d) ==
  /\ Inject("enqueue")
  /\ \E r \in rows[d] : r.event \notin Malformed /\ Take(d, r) /\ Enqueue(r.event)
  /\ pc' = [pc EXCEPT ![d] = "failing"]
  /\ UNCHANGED <<dbVars, strikes, abandoned>>

MarkDispatched(d) ==
  /\ pc[d] = "marking"
  /\ \E r \in current[d] : status' = [status EXCEPT ![r.event] = "DISPATCHED"]
  /\ current' = [current EXCEPT ![d] = {}]
  /\ pc' = [pc EXCEPT ![d] = "looping"]
  /\ UNCHANGED <<attempts, available, rows, strikes, abandoned, queueVars, faults>>

(* The database refuses mark_dispatched, or commits it without the dispatcher *)
(* hearing of it: the except branch handles a row whose job is already in the *)
(* queue, and which may say DISPATCHED.                                       *)
MarkDispatchedRaises(d) ==
  /\ pc[d] = "marking" /\ Inject("mark")
  /\ \/ UNCHANGED status
     \/ \E r \in current[d] : status' = [status EXCEPT ![r.event] = "DISPATCHED"]
  /\ pc' = [pc EXCEPT ![d] = "failing"]
  /\ UNCHANGED <<attempts, available, rows, current, strikes, abandoned, queueVars>>

(* Mutants: the last attempt is missed, and the status is not written at all. *)
FailRowEarly(r) ==
  /\ status' = [status EXCEPT ![r.event] =
                  IF r.attempts + 1 >= MaxAttempts THEN "DEAD_LETTERED" ELSE "FAILED"]
  /\ available' = available \ {r.event}
  /\ UNCHANGED attempts
FailRowUnwritten(r) == available' = available \ {r.event} /\ UNCHANGED <<status, attempts>>

(* The UPDATE of mark_failed decides from the attempts of the claimed row,    *)
(* not the stored ones, and has no condition on the row's present status.     *)
FailRow(r) ==
  /\ status' = [status EXCEPT ![r.event] =
                  IF r.attempts >= MaxAttempts THEN "DEAD_LETTERED" ELSE "FAILED"]
  /\ available' = available \ {r.event}
  /\ UNCHANGED attempts

MarkFailed(d) ==
  /\ pc[d] = "failing"
  /\ \E r \in current[d] : FailRow(r)
  /\ current' = [current EXCEPT ![d] = {}]
  /\ pc' = [pc EXCEPT ![d] = "looping"]
  /\ UNCHANGED <<rows, strikes, abandoned, queueVars, faults>>

(* The batch is done: dispatch_once returns and run_loop resets its count. *)
BatchDone(d) ==
  /\ pc[d] = "looping" /\ rows[d] = {}
  /\ pc' = [pc EXCEPT ![d] = "idle"]
  /\ strikes' = [strikes EXCEPT ![d] = 0]
  /\ UNCHANGED <<dbVars, rows, current, abandoned, queueVars, faults>>

(* An exception leaves dispatch_once: the rows in E are forgotten, nothing    *)
(* gives back those that are DISPATCHING.  run_loop counts consecutive        *)
(* terminal errors and halts.                                                 *)
Forget(E) == abandoned' = abandoned \cup {e \in E : status'[e] = "DISPATCHING"}

HeldEvents(d) == {r.event : r \in rows[d] \cup current[d]}

Abandon(d, E) ==
  /\ Forget(E)
  /\ rows' = [rows EXCEPT ![d] = {}]
  /\ current' = [current EXCEPT ![d] = {}]
  /\ \E terminal \in BOOLEAN :
       LET n == IF terminal THEN strikes[d] + 1 ELSE 0 IN
       /\ strikes' = [strikes EXCEPT ![d] = n]
       /\ pc' = [pc EXCEPT ![d] = IF n >= MaxStrikes THEN "halted" ELSE "idle"]
  /\ UNCHANGED queueVars

(* claim_pending, or the heartbeat of an empty poll: no row is claimed, or S  *)
(* is and the dispatcher never sees it.                                       *)
ClaimRaises(d) ==
  /\ pc[d] = "idle" /\ Inject("claim")
  /\ \E S \in SUBSET Claimable :
       Cardinality(S) <= BatchLimit /\ Claim(S) /\ Abandon(d, S)

ConnectRaises(d) ==
  /\ pc[d] = "connecting" /\ Inject("connect")
  /\ UNCHANGED dbVars /\ Abandon(d, HeldEvents(d))

(* mark_failed is refused, or committed without the dispatcher hearing of it. *)
MarkFailedRaises(d) ==
  /\ pc[d] = "failing" /\ Inject("mark")
  /\ UNCHANGED dbVars \/ \E r \in current[d] : FailRow(r)
  /\ Abandon(d, HeldEvents(d))

(* The heartbeat after the batch is a Redis call too. *)
HeartbeatRaises(d) ==
  /\ pc[d] = "looping" /\ rows[d] = {} /\ Inject("connect")
  /\ UNCHANGED dbVars /\ Abandon(d, {})

(* The process dies and its supervisor starts a new one. *)
CrashRestart(d) ==
  /\ pc[d] # "idle" /\ Inject("crash")
  /\ UNCHANGED dbVars /\ Forget(HeldEvents(d))
  /\ pc' = [pc EXCEPT ![d] = "idle"]
  /\ rows' = [rows EXCEPT ![d] = {}]
  /\ current' = [current EXCEPT ![d] = {}]
  /\ strikes' = [strikes EXCEPT ![d] = 0]
  /\ UNCHANGED queueVars

-----------------------------------------------------------------------------
(* ARQ and the worker (external): a queued job runs, its result is kept for   *)
(* keep_result seconds, then its key is free again.                           *)
JobStarts(e) ==
  /\ job[e] = "queued"
  /\ job' = [job EXCEPT ![e] = "running"]
  /\ executions' = [executions EXCEPT ![e] = @ + 1]
  /\ UNCHANGED <<dbVars, procVars, handed, forgotten, redelivered, faults>>

(* The worker dies or is cancelled, or its lease on the job runs out while it *)
(* is still at work: ARQ runs the job again under the same id.                *)
JobRedelivered(e) ==
  /\ job[e] = "running" /\ Inject("worker")
  /\ job' = [job EXCEPT ![e] = "queued"]
  /\ redelivered' = [redelivered EXCEPT ![e] = @ + 1]
  /\ UNCHANGED <<dbVars, procVars, handed, executions, forgotten>>

(* A run reports its end; so does one that outlived its redelivery, and ARQ   *)
(* itself, for a job that it has started too often (max_tries).               *)
JobEnds(e) ==
  /\ job[e] = "running" \/ (job[e] = "queued" /\ redelivered[e] > 0)
  /\ job' = [job EXCEPT ![e] = "kept"]
  /\ UNCHANGED <<dbVars, procVars, handed, executions, forgotten, redelivered, faults>>

ResultForgotten(e) ==
  /\ job[e] = "kept"
  /\ job' = [job EXCEPT ![e] = "absent"]
  /\ forgotten' = [forgotten EXCEPT ![e] = @ + 1]
  /\ UNCHANGED <<dbVars, procVars, handed, executions, redelivered, faults>>

-----------------------------------------------------------------------------
Dispatch(d) ==
  \/ ClaimPending(d) \/ EmptyPoll(d) \/ ConnectRedis(d) \/ EnqueueJob(d) \/ EnqueueRaises(d)
  \/ MarkDispatched(d) \/ MarkFailed(d) \/ BatchDone(d)

DispatchFault(d) ==
  \/ ClaimRaises(d) \/ ConnectRaises(d) \/ EnqueueUnheard(d) \/ MarkDispatchedRaises(d)
  \/ MarkFailedRaises(d) \/ HeartbeatRaises(d) \/ CrashRestart(d)

Next ==
  \/ \E e \in Events : WriteOutbox(e) \/ BackoffElapses(e)
                       \/ JobStarts(e) \/ JobRedelivered(e) \/ JobEnds(e)
                       \/ ResultForgotten(e)
  \/ \E d \in Dispatchers : Dispatch(d) \/ DispatchFault(d)

Spec == Init /\ [][Next]_vars

(* run_loop never stops polling, time passes, and the worker process runs;    *)
(* nothing obliges the web app to write or the environment to fail.           *)
Fairness ==
  /\ \A d \in Dispatchers : WF_vars(Dispatch(d))
  /\ \A e \in Events : WF_vars(BackoffElapses(e)) /\ WF_vars(JobStarts(e)) /\ WF_vars(JobEnds(e))

FairSpec == Spec /\ Fairness

-----------------------------------------------------------------------------
(* Type invariant of the rows, the dispatchers' locals and the queue. *)
TypeOK ==
  /\ status \in [Events -> Statuses]
  /\ attempts \in [Events -> 0..MaxAttempts]
  /\ available \in SUBSET Events
  /\ pc \in [Dispatchers -> {"idle", "connecting", "looping", "marking", "failing", "halted"}]
  /\ rows \in [Dispatchers -> SUBSET Rows]
  /\ current \in [Dispatchers -> SUBSET Rows]
  /\ strikes \in [Dispatchers -> 0..MaxStrikes]
  /\ abandoned \in SUBSET Events
  /\ job \in [Events -> {"absent", "queued", "running", "kept"}]
  /\ handed \in [Events -> BOOLEAN]
  /\ executions \in [Events -> Nat]
  /\ forgotten \in [Events -> Nat]
  /\ redelivered \in [Events -> Nat]
  /\ faults \in 0..MaxFaults

Held(d) == rows[d] \cup current[d]

(* The dispatcher's mark landed, and it is about to act as if it had not. *)
Unheard(d) == IF pc[d] = "failing" THEN {r \in current[d] : status[r.event] = "DISPATCHED"} ELSE {}

(* A row a dispatcher holds is as it was claimed, DISPATCHING with the same   *)
(* attempts, and no other dispatcher holds it: mark_dispatched and            *)
(* mark_failed, which write by id and check nothing, never overwrite what     *)
(* somebody else wrote (claim_pending's status filter and SKIP LOCKED).  The  *)
(* one thing they overwrite is the dispatcher's own DISPATCHED, when its      *)
(* acknowledgement was lost.                                                  *)
ExclusiveClaim ==
  \A d \in Dispatchers : \A r \in Held(d) :
    /\ status[r.event] = "DISPATCHING" \/ r \in Unheard(d)
    /\ r.attempts = attempts[r.event]
    /\ \A c \in Dispatchers \ {d} : \A q \in Held(c) : q.event # r.event

(* An event is DISPATCHED only after the queue received its job, whatever     *)
(* call failed in between (SECURITY.md: no accepted-but-never-queued job).    *)
DispatchedWasHandedOver ==
  \A e \in Events : status[e] = "DISPATCHED" => handed[e]

(* An event is dead-lettered only by its last attempt, and no event is        *)
(* claimed again after that attempt.                                          *)
DeadLetterIsExhausted ==
  \A e \in Events :
    /\ status[e] = "DEAD_LETTERED" => attempts[e] = MaxAttempts
    /\ status[e] \in {"PENDING", "FAILED"} => attempts[e] < MaxAttempts

(* The outbox as a whole keeps the promise of JobDelivery. *)
Outcome(s) ==
  CASE s = "ABSENT"        -> "none"
    [] s = "DISPATCHED"    -> "delivered"
    [] s = "DEAD_LETTERED" -> "dead"
    [] OTHER               -> "waiting"

Doubted == {r.event : r \in UNION {Unheard(d) : d \in Dispatchers}}

Delivery == INSTANCE JobDelivery
              WITH outcome <- [e \in Events |-> Outcome(status[e])],
                   tries   <- attempts,
                   handed  <- handed,
                   doubted <- Doubted

(* Every event's life is one JobDelivery allows: delivered only after the     *)
(* hand-over, given up only after the last try, and taken back, at most once  *)
(* per lost acknowledgement, only by the dispatcher that did not hear of it.  *)
ImplementsDelivery == Delivery!Spec

(* At least once, and no oftener than the queue has reasons for: a job handed *)
(* over is in ARQ or has run, and beyond its first run each one is due to ARQ *)
(* letting the id go (keep_result) or taking the job back (a worker's death), *)
(* never to dispatching the row again: the _job_id of enqueue_job makes the   *)
(* second dispatch after a lost mark harmless (ADR-025 "Delivery guarantee"). *)
RunsHaveCauses ==
  \A e \in Events :
    /\ handed[e] => job[e] # "absent" \/ executions[e] > 0
    /\ executions[e] <= 1 + forgotten[e] + redelivered[e]

(* Every committed event is eventually DISPATCHED or DEAD_LETTERED for good,  *)
(* unless the batch that had claimed it failed as a whole: rows that fail one *)
(* by one are retried to the end, also when a dispatcher has halted, and also *)
(* when a lost acknowledgement sends a DISPATCHED one round again.            *)
EventuallySettled ==
  \A e \in Events : status[e] = "PENDING" ~> ([](status[e] \in Settled) \/ e \in abandoned)

(* The claim of ADR-025 "Consequences": a committed event whose payload is    *)
(* well formed eventually reaches the queue or is given up on the record.     *)
NoLostJob ==
  \A e \in Events : status[e] = "PENDING" ~> (handed[e] \/ status[e] = "DEAD_LETTERED")

(* What the table says of an event's end was earned: nothing DISPATCHED that  *)
(* was not handed over, nothing DEAD_LETTERED before its last attempt.        *)
OutcomesAreEarned == DispatchedWasHandedOver /\ DeadLetterIsExhausted
=============================================================================
