------------------------------ MODULE RateLimit ------------------------------
(* One rate limit of apps/web/src/server/auth/rate-limit.ts: a counter with   *)
(* an expiry in Redis, and the process's memory, or nothing, when Redis does  *)
(* not answer.  Redis itself is external: INCR creates the key without an     *)
(* expiry, EXPIRE sets it, and a key that expires is gone.                    *)
EXTENDS Transactions

CONSTANT Limit  \* requests a window allows

ASSUME RateLimitAssumption == Limit \in Nat \ {0}

VARIABLES
  failsClosed,  \* the environment: production without ALLOW_DEV_DEFAULTS
  counter,      \* the Redis key: its count, 0 when it does not exist, and whether it expires
  bucket,       \* the memory bucket's count in the current window
  admitted,     \* history: requests each of the two has admitted in its current window
  cut           \* history: a call was cut off between INCR and EXPIRE

rateLimitVars == <<failsClosed, counter, bucket, admitted, cut>>

Counter(count, expires) == [count |-> count, expires |-> expires]
Admitted(redis, memory) == [redis |-> redis, memory |-> memory]

MaxCount == Limit + 2  \* bound: requests counted in a window

RateLimitInit ==
  /\ failsClosed \in BOOLEAN
  /\ counter = Counter(0, FALSE)
  /\ bucket = 0
  /\ admitted = Admitted(0, 0)
  /\ cut = FALSE

(* INCR.  The first request of a window goes on to EXPIRE.                    *)
Increment(h) ==
  /\ counter.count < MaxCount
  /\ counter' = Counter(counter.count + 1, counter.expires)
  /\ Begin(h, Work(IF counter.count = 0 THEN "expire" ELSE "answer", None, 0,
                   counter.count + 1, "none"))
  /\ UNCHANGED <<failsClosed, bucket, admitted, cut>>

SetExpiry(h) ==
  /\ Doing(h, "expire")
  /\ counter' = Counter(counter.count, TRUE)
  /\ work' = [work EXCEPT ![h] = Work("answer", None, 0, work[h].number, "none")]
  /\ UNCHANGED <<raced, failsClosed, bucket, admitted, cut>>

(* Mutant: the comparison lets one more request through. *)
AnswerOneMore(h) ==
  /\ Doing(h, "answer")
  /\ admitted' = IF work[h].number <= Limit + 1
                   THEN Admitted(admitted.redis + 1, admitted.memory) ELSE admitted
  /\ End(h)
  /\ UNCHANGED <<failsClosed, counter, bucket, cut>>

Answer(h) ==
  /\ Doing(h, "answer")
  /\ admitted' = IF work[h].number <= Limit
                   THEN Admitted(admitted.redis + 1, admitted.memory) ELSE admitted
  /\ End(h)
  /\ UNCHANGED <<failsClosed, counter, bucket, cut>>

(* Redis does not answer: the call falls back.  limitWithMemory counts within *)
(* the process, which is never shared.                                        *)
FallBack ==
  IF failsClosed THEN UNCHANGED <<bucket, admitted>>
  ELSE /\ bucket < MaxCount
       /\ bucket' = bucket + 1
       /\ admitted' = IF bucket + 1 <= Limit
                        THEN Admitted(admitted.redis, admitted.memory + 1) ELSE admitted

RedisRefuses ==
  /\ FallBack
  /\ AtOnce
  /\ UNCHANGED <<failsClosed, counter, cut>>

(* The connection is lost after INCR: the command that follows it fails.      *)
RedisLost(h) ==
  /\ Busy(h)
  /\ FallBack
  /\ cut' = (cut \/ Doing(h, "expire"))
  /\ End(h)
  /\ UNCHANGED <<failsClosed, counter>>

(* The web process stops after INCR.                                          *)
ProcessStops(h) ==
  /\ Busy(h)
  /\ cut' = (cut \/ Doing(h, "expire"))
  /\ End(h)
  /\ UNCHANGED <<failsClosed, counter, bucket, admitted>>

(* The windows end, of Redis's key and of the memory bucket, between requests *)
(* (one answered later still belongs to the window it was counted in).        *)
WindowEnds ==
  /\ counter.expires
  /\ Quiet
  /\ counter' = Counter(0, FALSE)
  /\ admitted' = Admitted(0, admitted.memory)
  /\ AtOnce
  /\ UNCHANGED <<failsClosed, bucket, cut>>

MemoryWindowEnds ==
  /\ bucket # 0
  /\ bucket' = 0
  /\ admitted' = Admitted(admitted.redis, 0)
  /\ AtOnce
  /\ UNCHANGED <<failsClosed, counter, cut>>

RateLimitNext ==
  \/ \E h \in Handlers : \/ Increment(h) \/ SetExpiry(h) \/ Answer(h)
                         \/ RedisLost(h) \/ ProcessStops(h)
  \/ RedisRefuses \/ WindowEnds \/ MemoryWindowEnds

RateLimitSpec ==
  TransactionsInit /\ RateLimitInit /\ [][RateLimitNext]_<<transactionVars, rateLimitVars>>

RateLimitTypeOK ==
  /\ failsClosed \in BOOLEAN
  /\ counter \in [count : 0 .. MaxCount, expires : BOOLEAN]
  /\ bucket \in 0 .. MaxCount
  /\ admitted \in [redis : Nat, memory : Nat]
  /\ cut \in BOOLEAN

-----------------------------------------------------------------------------
(* No window admits more than its limit, production admits nothing Redis did  *)
(* not count, and a counter that nobody is about to give an expiry, which     *)
(* blocks its key for good, is left only by a call that was cut off between   *)
(* INCR and EXPIRE.                                                           *)
LimitsHold ==
  /\ admitted.redis <= Limit /\ admitted.memory <= Limit
  /\ failsClosed => admitted.memory = 0
  /\ counter.count # 0 /\ ~counter.expires /\ ~cut => \E h \in Handlers : Doing(h, "expire")
==============================================================================
