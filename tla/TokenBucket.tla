---------------------------- MODULE TokenBucket ----------------------------
(***************************************************************************)
(* The rate limiter of the two HTTP services (src/ingest-api/app/          *)
(* ratelimit.py, src/query-api/app/ratelimit.py): the token bucket of one  *)
(* API key, kept in Redis by a Lua script, and the RateLimiter.check       *)
(* calls that run it.                                                      *)
(*                                                                         *)
(* Both services use the key `ratelimit:{key_id}`, so one bucket serves    *)
(* them all.  A call reads the clock, then waits for Redis: calls may      *)
(* reach the script in another order than that of the clocks they carry.   *)
(*                                                                         *)
(* Tokens are counted in parts: a token is `Minute` parts, and a bucket of *)
(* capacity c gains c parts per millisecond, which is the script's         *)
(* `elapsed / refill_ms_per_token` without its fractions.                  *)
(***************************************************************************)
EXTENDS Integers, Sequences

CONSTANTS
  Request,        \* calls of check() that may be in progress at once
  Process,        \* processes, each with a RateLimiter
  ProcessOf,      \* the process that serves a call
  Capacity,       \* rate_per_minute as the processes' cached keys have it
  MinCapacity,    \* a lower bound of Capacity
  MaxCapacity,    \* an upper bound of Capacity
  Minute,         \* 60000 ms
  Second,         \* 1000 ms
  Expiry,         \* EXPIRE: 120 s in ms
  Latency,        \* bound: ms from a call's clock reading to its script run
  MaxClock,       \* bound: ms that pass
  MaxRestarts     \* bound: Redis restarts

ASSUME ProcessAssumption == ProcessOf \in [Request -> Process]

ASSUME RateAssumption ==
  /\ MinCapacity \in Nat \ {0}
  /\ MaxCapacity \in Nat
  /\ MinCapacity <= MaxCapacity
  /\ Capacity \subseteq MinCapacity..MaxCapacity
  /\ Minute \in Nat \ {0}
  /\ Second \in Nat \ {0}

\* A bucket outlives the time it takes to fill, however late a call is.
ASSUME ExpiryAssumption ==
  /\ Latency \in Nat
  /\ Expiry \in Nat
  /\ Expiry >= Minute + Latency

ASSUME BoundAssumption ==
  /\ MaxClock \in Nat
  /\ MaxRestarts \in Nat

VARIABLES
  clock,      \* time.time() in ms, the same for all
  present,    \* Redis: the bucket's key exists
  tokens,     \* Redis: its tokens, in parts
  last_ms,    \* Redis: the clock of the last call
  expires,    \* Redis: when the key expires
  script,     \* Redis: the script is in its cache
  sha,        \* RateLimiter._sha is set, per process
  pc,         \* where each call is
  now_ms,     \* the clock a call carries
  capacity,   \* the capacity a call carries
  rewound,    \* history: ms by which calls set last_ms back
  grants,     \* history: when each call was allowed, in virtual time
  refused_at, \* history: the clock of the last refused call, if none was allowed since
  promises,   \* history: what refused callers were told since a call was allowed
  restarts    \* bound: Redis restarts so far

bucket == <<present, tokens, last_ms, expires>>
calls == <<sha, pc, now_ms, capacity>>
history == <<rewound, grants, refused_at, promises>>
vars == <<clock, bucket, script, calls, history, restarts>>

Full(c) == c * Minute
Least(a, b) == IF a <= b THEN a ELSE b
Most(a, b) == IF a >= b THEN a ELSE b

\* The script finds the bucket, or starts a full one.
Live == present /\ clock < expires
Tokens(c) == IF Live THEN tokens ELSE Full(c)
LastMs(now) == IF Live THEN last_ms ELSE now

Elapsed(now) == Most(0, now - LastMs(now))
Refilled(now, c) == Least(Full(c), Tokens(c) + Elapsed(now) * c)

\* math.ceil of the time in which a bucket gains what a token lacks.
RetryMs(parts, c) == (Minute - parts + c - 1) \div c

\* The Retry-After header of the answer 429, in seconds.
RetryAfter(ms) == Most(1, ms \div Second)

\* Time as the bucket sees it: a clock that stands still while the calls
\* that come in carry clocks it has seen already.
VirtualTime == last_ms + rewound

Init ==
  /\ clock = 0
  /\ present = FALSE
  /\ tokens = 0
  /\ last_ms = 0
  /\ expires = 0
  /\ script = FALSE
  /\ sha = [p \in Process |-> FALSE]
  /\ pc = [r \in Request |-> "idle"]
  /\ now_ms = [r \in Request |-> 0]
  /\ capacity = [r \in Request |-> MinCapacity]
  /\ rewound = 0
  /\ grants = <<>>
  /\ refused_at = 0
  /\ promises = {}
  /\ restarts = 0

-----------------------------------------------------------------------------

\* The call ends, and its locals with it.
Done(r) ==
  /\ pc' = [pc EXCEPT ![r] = "idle"]
  /\ now_ms' = [now_ms EXCEPT ![r] = 0]
  /\ capacity' = [capacity EXCEPT ![r] = MinCapacity]

Waiting(r) == pc[r] \in {"eval", "reload", "again"}

Tick ==
  /\ clock < MaxClock
  /\ \A r \in Request : Waiting(r) => clock - now_ms[r] < Latency
  /\ clock' = clock + 1
  /\ UNCHANGED <<bucket, script, calls, history, restarts>>

NothingPromised == refused_at' = 0 /\ promises' = {}

\* Redis keeps nothing over a restart, so its promises start anew.
RedisRestart ==
  /\ restarts < MaxRestarts
  /\ restarts' = restarts + 1
  /\ present' = FALSE
  /\ script' = FALSE
  /\ rewound' = 0
  /\ grants' = <<>>
  /\ NothingPromised
  /\ UNCHANGED <<clock, tokens, last_ms, expires, calls>>

\* check() with the rate of the caller's key.
Check(r, c) ==
  /\ pc[r] = "idle"
  /\ pc' = [pc EXCEPT ![r] = IF sha[ProcessOf[r]] THEN "ready" ELSE "load"]
  /\ capacity' = [capacity EXCEPT ![r] = c]
  /\ UNCHANGED <<clock, bucket, script, sha, now_ms, history, restarts>>

\* _script_sha() of a process that has no sha: SCRIPT LOAD.
LoadScript(r) ==
  /\ pc[r] \in {"load", "reload"}
  /\ script' = TRUE
  /\ sha' = [sha EXCEPT ![ProcessOf[r]] = TRUE]
  /\ pc' = [pc EXCEPT ![r] = IF @ = "load" THEN "ready" ELSE "again"]
  /\ UNCHANGED <<clock, bucket, now_ms, capacity, history, restarts>>

ReadClock(r) ==
  /\ pc[r] = "ready"
  /\ now_ms' = [now_ms EXCEPT ![r] = clock]
  /\ pc' = [pc EXCEPT ![r] = "eval"]
  /\ UNCHANGED <<clock, bucket, script, sha, capacity, history, restarts>>

\* The script is gone: the first time it is loaded again and the call is
\* retried, with the clock it had; the second time the error is raised.
NoScript(r) ==
  /\ pc[r] \in {"eval", "again"}
  /\ ~script
  /\ IF pc[r] = "eval"
     THEN /\ sha' = [sha EXCEPT ![ProcessOf[r]] = FALSE]
          /\ pc' = [pc EXCEPT ![r] = "reload"]
          /\ UNCHANGED <<now_ms, capacity>>
     ELSE Done(r) /\ UNCHANGED sha
  /\ UNCHANGED <<clock, bucket, script, history, restarts>>

\* The connection fails before the script has run.
CallFails(r) ==
  /\ pc[r] \in {"load", "eval", "reload", "again"}
  /\ Done(r)
  /\ UNCHANGED <<clock, bucket, script, sha, history, restarts>>

-----------------------------------------------------------------------------
(* The script, which Redis runs as one step.                               *)

CanEval(r) == pc[r] \in {"eval", "again"} /\ script

\* Mutated form: the key expires while its bucket is still filling.
Touched_Shortly(r) ==
  /\ present' = TRUE
  /\ last_ms' = now_ms[r]
  /\ expires' = clock + 1
  /\ rewound' = rewound + Most(0, LastMs(now_ms[r]) - now_ms[r])

\* HMSET last_ms and EXPIRE.
Touched(r) ==
  /\ present' = TRUE
  /\ last_ms' = now_ms[r]
  /\ expires' = clock + Expiry
  /\ rewound' = rewound + Most(0, LastMs(now_ms[r]) - now_ms[r])

Allow(r) ==
  LET refilled == Refilled(now_ms[r], capacity[r])
  IN  /\ CanEval(r)
      /\ refilled >= Minute
      /\ tokens' = refilled - Minute
      /\ Touched(r)
      /\ grants' = Append(grants, VirtualTime')
      /\ NothingPromised
      /\ Done(r)
      /\ UNCHANGED <<clock, script, sha, restarts>>

\* The caller is told to wait.  What callers with a higher rate were told is
\* void: the bucket has been refilled at a lower one.
Promised(r, ms) ==
  /\ refused_at' = now_ms[r]
  /\ promises' = {p \in promises : p.capacity <= capacity[r]} \cup
       {[capacity |-> capacity[r], due |-> now_ms[r] + (RetryAfter(ms) + 1) * Second]}

\* Mutated form: the fraction of a token gained is not kept.
Refuse_Forgets(r) ==
  LET refilled == Refilled(now_ms[r], capacity[r])
  IN  /\ CanEval(r)
      /\ refilled < Minute
      /\ tokens' = Tokens(capacity[r])
      /\ Touched(r)
      /\ Promised(r, RetryMs(refilled, capacity[r]))
      /\ Done(r)
      /\ UNCHANGED <<clock, script, sha, grants, restarts>>

Refuse(r) ==
  LET refilled == Refilled(now_ms[r], capacity[r])
  IN  /\ CanEval(r)
      /\ refilled < Minute
      /\ tokens' = refilled
      /\ Touched(r)
      /\ Promised(r, RetryMs(refilled, capacity[r]))
      /\ Done(r)
      /\ UNCHANGED <<clock, script, sha, grants, restarts>>

Next ==
  \/ Tick
  \/ RedisRestart
  \/ \E r \in Request :
       \/ \E c \in Capacity : Check(r, c)
       \/ LoadScript(r)
       \/ ReadClock(r)
       \/ NoScript(r)
       \/ CallFails(r)
       \/ Allow(r)
       \/ Refuse(r)

Spec == Init /\ [][Next]_vars

-----------------------------------------------------------------------------
(* Properties.                                                             *)

\* Every variable has its type; a bucket is never over the largest capacity.
TypeOK ==
  /\ clock \in 0..MaxClock
  /\ present \in BOOLEAN
  /\ tokens \in 0..Full(MaxCapacity)
  /\ last_ms \in 0..MaxClock
  /\ expires \in Nat
  /\ script \in BOOLEAN
  /\ sha \in [Process -> BOOLEAN]
  /\ pc \in [Request -> {"idle", "load", "ready", "eval", "reload", "again"}]
  /\ now_ms \in [Request -> 0..MaxClock]
  /\ capacity \in [Request -> MinCapacity..MaxCapacity]
  /\ rewound \in Nat
  /\ grants \in Seq(Nat)
  /\ refused_at \in 0..MaxClock
  /\ promises \subseteq [capacity : MinCapacity..MaxCapacity, due : Nat]
  /\ restarts \in 0..MaxRestarts

\* Parts of a token spent from the i-th of the grants on.
SpentSince(i) == (Len(grants) - i + 1) * Minute

\* "capacity = rate_per_minute, refill rate = rate/60 per second"
\* (ratelimit.py:18), in the bucket's own time: from any call allowed to any
\* later one, no more are allowed than a full bucket and what flows into it,
\* across expired keys, lost scripts and processes that disagree on the rate.
ConformsInVirtualTime ==
  \A i \in DOMAIN grants : \A j \in i..Len(grants) :
    (j - i + 1) * Minute
      <= Full(MaxCapacity) + MaxCapacity * (grants[j] - grants[i])

\* The limiter is no stricter than that: it refuses only a call that, with
\* the calls allowed since some earlier one, would exceed the smallest rate.
RefusesOnlyExcess ==
  promises # {} =>
    \E i \in DOMAIN grants :
      SpentSince(i) + Minute
        > Full(MinCapacity) + MinCapacity * (VirtualTime - grants[i])

\* A client that waits as long as its Retry-After header says and one second
\* more is not refused again, whoever else was refused in the meantime and
\* whether or not the bucket expired, unless a call was allowed or one with a
\* lower rate came.  The header alone is too short: it is cut to seconds.
PatientIsAllowed == \A p \in promises : refused_at < p.due
=============================================================================
