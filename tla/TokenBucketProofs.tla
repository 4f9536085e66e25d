------------------------ MODULE TokenBucketProofs ------------------------
(***************************************************************************)
(* Theorems about the token bucket, for any number of calls and processes, *)
(* any rates, and any length of a minute: what it allows is bounded, what  *)
(* it refuses would have exceeded the bound, and the wait that the caller  *)
(* is told is enough but for a second.  The argument about what is allowed *)
(* is in virtual time, which the script advances by just the `elapsed`     *)
(* that it credits; that about the wait is in the time of the calls.       *)
(***************************************************************************)
EXTENDS TokenBucket, SequenceTheorems, TLAPS

\* A call carries a clock that is not in the future and at most Latency old.
CallsAreRecent ==
  \A r \in Request :
    Waiting(r) => now_ms[r] <= clock /\ clock - now_ms[r] <= Latency

\* The key outlives its last call by Expiry, and calls were allowed only by
\* a bucket that exists.
KeyIsFresh ==
  /\ present => last_ms + Expiry <= expires
  /\ ~present => grants = <<>>

\* What was spent since a call, and what is left, came out of a full bucket
\* and what has flowed into it since.
SpentIsBounded ==
  \A i \in DOMAIN grants :
    /\ grants[i] <= VirtualTime
    /\ SpentSince(i) + tokens
         <= Full(MaxCapacity) + MaxCapacity * (VirtualTime - grants[i])

\* A bucket that is not full has been spent from.
LeftIsBounded ==
  present =>
    \/ tokens >= Full(MinCapacity)
    \/ \E i \in DOMAIN grants :
         SpentSince(i) + tokens
           >= Full(MinCapacity) + MinCapacity * (VirtualTime - grants[i])

\* A refusal stands for a bucket with less than a token, and what is in it
\* will be a token by the time each promise is due.
PromisesHold ==
  /\ promises # {} => present /\ tokens < Minute
  /\ \A p \in promises :
       /\ refused_at < p.due
       /\ tokens + (p.due - last_ms) * p.capacity >= Minute

IInv ==
  /\ TypeOK
  /\ CallsAreRecent
  /\ KeyIsFresh
  /\ SpentIsBounded
  /\ ConformsInVirtualTime
  /\ LeftIsBounded
  /\ PromisesHold

-----------------------------------------------------------------------------
(* Arithmetic.                                                             *)

\* Floor division by a positive number.
LEMMA Division ==
  ASSUME NEW n \in Int, NEW c \in Nat \ {0}
  PROVE  n \div c \in Int /\ c * (n \div c) <= n /\ n < c * (n \div c) + c
  BY SMT

\* Products grow with their first factor.
LEMMA Monotone ==
  ASSUME NEW a \in Nat, NEW b \in Nat, NEW x \in Nat, a <= b
  PROVE  a * x \in Nat /\ b * x \in Nat /\ a * x <= b * x
  BY SMT

\* Products distribute over sums and differences.
LEMMA Distribute ==
  ASSUME NEW x \in Int, NEW a \in Int, NEW b \in Int
  PROVE  /\ x * a \in Int
         /\ x * (a + b) = x * a + x * b
         /\ x * (a - b) = x * a - x * b
         /\ x * a = a * x
  BY SMT

\* math.ceil: the wait gains the parts that are missing, and just so.
LEMMA RetryFacts ==
  ASSUME NEW parts \in Nat, parts < Minute, NEW c \in Nat \ {0}
  PROVE  /\ RetryMs(parts, c) \in Nat
         /\ parts + RetryMs(parts, c) * c >= Minute
         /\ parts + (RetryMs(parts, c) - 1) * c < Minute
<1> DEFINE n == Minute - parts + c - 1
           q == n \div c
<1>1. Minute \in Nat  BY RateAssumption
<1>2. n \in Int /\ n >= c  BY <1>1
<1>3. q \in Int /\ c * q <= n /\ n < c * q + c  BY <1>2, Division
<1>4. q >= 1  BY <1>2, <1>3, SMT
<1>5. c * q = q * c /\ (q - 1) * c = q * c - c  BY <1>3, SMT
<1> QED  BY <1>1, <1>3, <1>4, <1>5 DEF RetryMs

\* The header and one second more are longer than the wait.
LEMMA HeaderFacts ==
  ASSUME NEW ms \in Nat
  PROVE  (RetryAfter(ms) + 1) * Second \in Nat /\ (RetryAfter(ms) + 1) * Second > ms
<1> DEFINE q == ms \div Second
           h == RetryAfter(ms)
<1>1. Second \in Nat \ {0}  BY RateAssumption
<1>2. q \in Int /\ Second * q <= ms /\ ms < Second * q + Second  BY <1>1, Division
<1>3. h \in Nat /\ q <= h  BY <1>2 DEF RetryAfter, Most
<1> HIDE DEF q, h
<1>4. q * Second <= h * Second /\ h * Second \in Nat  BY <1>1, <1>2, <1>3, SMT
<1>5. (h + 1) * Second = h * Second + Second /\ Second * q = q * Second
  BY <1>1, <1>2, <1>3, SMT
<1> QED  BY <1>1, <1>2, <1>3, <1>4, <1>5 DEF h

\* The constants, as the provers use them.
LEMMA Constants ==
  /\ Minute \in Nat \ {0}
  /\ Second \in Nat \ {0}
  /\ MinCapacity \in Nat \ {0}
  /\ MaxCapacity \in Nat
  /\ Latency \in Nat /\ Expiry \in Nat /\ Expiry >= Minute + Latency
  /\ MaxClock \in Nat
  /\ \A c \in MinCapacity..MaxCapacity :
       /\ c \in Nat \ {0}
       /\ Full(c) \in Nat
       /\ Full(c) <= Full(MaxCapacity)
       /\ Full(MinCapacity) <= Full(c)
       /\ Minute <= Full(c)
  /\ Full(MaxCapacity) \in Nat /\ Full(MinCapacity) \in Nat
  /\ Minute <= Full(MinCapacity)
<1>1. /\ Minute \in Nat \ {0} /\ Second \in Nat \ {0} /\ MinCapacity \in Nat \ {0} /\ MaxCapacity \in Nat
      /\ Latency \in Nat /\ Expiry \in Nat /\ Expiry >= Minute + Latency
      /\ MaxClock \in Nat
  BY RateAssumption, ExpiryAssumption, BoundAssumption
<1>2. ASSUME NEW c \in MinCapacity..MaxCapacity
      PROVE  /\ c \in Nat \ {0}
             /\ Full(c) \in Nat
             /\ Full(c) <= Full(MaxCapacity)
             /\ Full(MinCapacity) <= Full(c)
             /\ Minute <= Full(c)
  <2>1. c \in Nat /\ MinCapacity <= c /\ c <= MaxCapacity /\ 1 <= c  BY <1>1
  <2>2. Full(c) \in Nat /\ Full(c) <= Full(MaxCapacity)
    BY <1>1, <2>1, Monotone DEF Full
  <2>3. Full(MinCapacity) <= Full(c)  BY <1>1, <2>1, Monotone DEF Full
  <2>4. 1 * Minute <= c * Minute  BY <1>1, <2>1, Monotone
  <2> QED  BY <1>1, <2>1, <2>2, <2>3, <2>4 DEF Full
<1>3. Full(MaxCapacity) \in Nat /\ Full(MinCapacity) \in Nat
  BY <1>1, Monotone DEF Full
<1>4. 1 * Minute <= MinCapacity * Minute  BY <1>1, Monotone
<1> QED  BY <1>1, <1>2, <1>3, <1>4 DEF Full

\* A grant, and its place in the history.
LEMMA GrantType ==
  ASSUME TypeOK, NEW i \in DOMAIN grants
  PROVE  /\ grants[i] \in Nat
         /\ i \in 1..Len(grants) /\ Len(grants) \in Nat
         /\ SpentSince(i) \in Int
<1> DEFINE Grant == Nat
<1>1. grants \in Seq(Grant)  BY DEF TypeOK
<1> HIDE DEF Grant
<1>2. i \in 1..Len(grants) /\ Len(grants) \in Nat  BY <1>1
<1>6. grants[i] \in Grant  BY <1>1, <1>2, ElementOfSeq
<1>3. grants[i] \in Nat  BY <1>6 DEF Grant
<1>4. Len(grants) - i + 1 \in Int /\ Minute \in Int  BY <1>2, RateAssumption
<1>5. SpentSince(i) \in Int  BY <1>4, Distribute DEF SpentSince
<1> QED  BY <1>2, <1>3, <1>5

-----------------------------------------------------------------------------
(* What the script computes before it decides.                             *)

\* The refilled bucket is within the capacity that the call carries.
LEMMA RefilledType ==
  ASSUME TypeOK, NEW r \in Request
  PROVE  /\ Refilled(now_ms[r], capacity[r]) \in Nat
         /\ Refilled(now_ms[r], capacity[r]) <= Full(capacity[r])
<1> DEFINE now == now_ms[r]
           c == capacity[r]
<1>1. /\ now \in Nat /\ c \in MinCapacity..MaxCapacity /\ last_ms \in Nat
      /\ tokens \in Nat
  BY Constants DEF TypeOK
<1>2. c \in Nat /\ Full(c) \in Nat  BY <1>1, Constants
<1>3. Elapsed(now) \in Nat  BY <1>1 DEF Elapsed, Most, LastMs
<1>4. Tokens(c) \in Nat  BY <1>1, <1>2 DEF Tokens
<1>5. Elapsed(now) * c \in Nat  BY <1>2, <1>3, Monotone
<1> HIDE DEF now, c
<1>6. Refilled(now, c) \in Nat /\ Refilled(now, c) <= Full(c)
  BY <1>2, <1>4, <1>5 DEF Refilled, Least
<1> QED  BY <1>6 DEF now, c

\* The script on a bucket it finds: virtual time moves by `elapsed`.
LEMMA LiveStep ==
  ASSUME TypeOK, NEW r \in Request, Live, Touched(r)
  PROVE  LET e == Elapsed(now_ms[r]) IN
         /\ e \in Nat
         /\ VirtualTime \in Nat
         /\ VirtualTime' = VirtualTime + e
         /\ Refilled(now_ms[r], capacity[r])
              = Least(Full(capacity[r]), tokens + e * capacity[r])
<1>1. now_ms[r] \in Nat /\ last_ms \in Nat /\ rewound \in Nat
  BY Constants DEF TypeOK
<1> QED
  BY <1>1 DEF Elapsed, Most, LastMs, VirtualTime, Touched, Refilled, Tokens

\* The script on a bucket that has expired: it would be full by now.
LEMMA ExpiredStep ==
  ASSUME TypeOK, CallsAreRecent, KeyIsFresh, NEW r \in Request, CanEval(r),
         present, ~Live, Touched(r)
  PROVE  /\ VirtualTime \in Nat
         /\ VirtualTime' \in Nat
         /\ VirtualTime' >= VirtualTime + Minute
         /\ Refilled(now_ms[r], capacity[r]) = Full(capacity[r])
<1>1. /\ now_ms[r] \in Nat /\ last_ms \in Nat /\ rewound \in Nat /\ clock \in Nat
      /\ expires \in Nat /\ capacity[r] \in MinCapacity..MaxCapacity
  BY Constants DEF TypeOK
<1>2. clock >= expires /\ last_ms + Expiry <= expires
  BY <1>1 DEF Live, KeyIsFresh
<1>3. clock - now_ms[r] <= Latency
  BY DEF CallsAreRecent, CanEval, Waiting
<1>4. now_ms[r] >= last_ms + Minute  BY <1>1, <1>2, <1>3, Constants
<1>5. /\ LastMs(now_ms[r]) = now_ms[r] /\ Elapsed(now_ms[r]) = 0
      /\ Tokens(capacity[r]) = Full(capacity[r])
  BY <1>1 DEF LastMs, Elapsed, Most, Tokens
<1>6. last_ms' = now_ms[r] /\ rewound' = rewound
  BY <1>1, <1>5 DEF Touched, Most
<1>7. capacity[r] \in Nat /\ Full(capacity[r]) \in Nat  BY <1>1, Constants
<1>8. Refilled(now_ms[r], capacity[r]) = Full(capacity[r])
  BY <1>5, <1>7 DEF Refilled, Least
<1> QED  BY <1>1, <1>4, <1>6, <1>8, Constants DEF VirtualTime

\* What the script leaves to the call and to those after it is bounded from
\* above, as before it.
LEMMA ScriptIsBounded ==
  ASSUME TypeOK, CallsAreRecent, KeyIsFresh, SpentIsBounded,
         NEW r \in Request, CanEval(r), Touched(r), NEW i \in DOMAIN grants
  PROVE  /\ grants[i] <= VirtualTime'
         /\ SpentSince(i) + Refilled(now_ms[r], capacity[r])
              <= Full(MaxCapacity)
                   + MaxCapacity * (VirtualTime' - grants[i])
<1> DEFINE c == capacity[r]
           e == Elapsed(now_ms[r])
           R == Refilled(now_ms[r], c)
           g == grants[i]
           S == SpentSince(i)
           F == Full(MaxCapacity)
<1>1. present  BY DEF KeyIsFresh
<1>2. /\ c \in MinCapacity..MaxCapacity /\ g \in Nat /\ tokens \in Nat
      /\ R \in Nat /\ R <= Full(c)
  <2>1. R \in Nat /\ R <= Full(c)  BY RefilledType
  <2>2. g \in Nat  BY GrantType
  <2>3. c \in MinCapacity..MaxCapacity /\ tokens \in Nat  BY DEF TypeOK
  <2> QED  BY <2>1, <2>2, <2>3
<1>3. c \in Nat /\ c <= MaxCapacity /\ Full(c) <= F /\ Full(c) \in Nat /\ F \in Nat
  BY <1>2, Constants
<1>4. S \in Int  BY GrantType
<1>5. g <= VirtualTime /\ S + tokens <= F + MaxCapacity * (VirtualTime - g)
  BY DEF SpentIsBounded
<1>6. CASE Live
  <2>1. /\ e \in Nat /\ VirtualTime \in Nat /\ VirtualTime' = VirtualTime + e
        /\ R = Least(Full(c), tokens + e * c)
    BY <1>6, LiveStep
  <2>2. c * e <= MaxCapacity * e /\ c * e \in Nat /\ MaxCapacity * e \in Nat
    BY <1>3, <2>1, Constants, Monotone
  <2>3. e * c = c * e  BY <1>3, <2>1
  <2> HIDE DEF c, e, R, g, S, F
  <2>4. R <= tokens + MaxCapacity * e
    BY <1>2, <1>3, <2>1, <2>2, <2>3 DEF Least
  <2>5. /\ MaxCapacity * ((VirtualTime - g) + e)
             = MaxCapacity * (VirtualTime - g) + MaxCapacity * e
        /\ MaxCapacity * (VirtualTime - g) \in Int
    BY <1>2, <2>1, Constants, Distribute
  <2>6. VirtualTime' - g = (VirtualTime - g) + e  BY <1>2, <2>1
  <2>7. S + R <= F + MaxCapacity * (VirtualTime' - g)
    BY <1>2, <1>3, <1>4, <1>5, <2>2, <2>4, <2>5, <2>6
  <2>8. g <= VirtualTime'  BY <1>2, <1>5, <2>1
  <2> QED  BY <2>7, <2>8 DEF c, R, g, S, F
<1>7. CASE ~Live
  <2>1. /\ VirtualTime \in Nat /\ VirtualTime' \in Nat
        /\ VirtualTime' >= VirtualTime + Minute
        /\ R = Full(c)
    BY <1>1, <1>7, ExpiredStep
  <2> DEFINE d == VirtualTime' - VirtualTime
  <2>2. d \in Nat /\ Minute <= d
    <3>1. \A x, y \in Nat : y >= x + Minute => y - x \in Nat /\ Minute <= y - x
      BY RateAssumption
    <3> QED  BY <2>1, <3>1
  <2>3. Minute * MaxCapacity <= d * MaxCapacity  BY <2>2, Constants, Monotone
  <2>4. F <= MaxCapacity * d /\ MaxCapacity * d \in Int
    BY <2>2, <2>3, Constants, Distribute DEF Full
  <2> HIDE DEF c, R, g, S, F, d
  <2>5. /\ MaxCapacity * ((VirtualTime - g) + d)
             = MaxCapacity * (VirtualTime - g) + MaxCapacity * d
        /\ MaxCapacity * (VirtualTime - g) \in Int
    BY <1>2, <2>1, <2>2, Constants, Distribute
  <2>6. VirtualTime' - g = (VirtualTime - g) + d  BY <1>2, <2>1 DEF d
  <2>7. MaxCapacity * (VirtualTime' - g)
          = MaxCapacity * (VirtualTime - g) + MaxCapacity * d
    BY <2>5, <2>6
  <2>9. S + R <= F + MaxCapacity * (VirtualTime' - g)
    BY <1>2, <1>3, <1>4, <1>5, <2>1, <2>4, <2>5, <2>7
  <2>8. g <= VirtualTime'  BY <1>2, <1>5, <2>1, Constants
  <2> QED  BY <2>8, <2>9 DEF c, R, g, S, F
<1> QED  BY <1>6, <1>7

\* What the script finds left is bounded from below, as before it.
LEMMA ScriptIsGenerous ==
  ASSUME TypeOK, CallsAreRecent, KeyIsFresh, LeftIsBounded,
         NEW r \in Request, CanEval(r), Touched(r)
  PROVE  \/ Refilled(now_ms[r], capacity[r]) >= Full(MinCapacity)
         \/ \E i \in DOMAIN grants :
              SpentSince(i) + Refilled(now_ms[r], capacity[r])
                >= Full(MinCapacity)
                     + MinCapacity * (VirtualTime' - grants[i])
<1> DEFINE c == capacity[r]
           e == Elapsed(now_ms[r])
           R == Refilled(now_ms[r], c)
           F == Full(MinCapacity)
<1>1. /\ c \in MinCapacity..MaxCapacity /\ tokens \in Nat /\ R \in Nat
  <2>1. R \in Nat  BY RefilledType
  <2>2. c \in MinCapacity..MaxCapacity /\ tokens \in Nat  BY DEF TypeOK
  <2> QED  BY <2>1, <2>2
<1>2. /\ c \in Nat /\ MinCapacity <= c /\ F <= Full(c) /\ Full(c) \in Nat
      /\ F \in Nat /\ MinCapacity \in Nat
  BY <1>1, Constants
<1>3. CASE Live
  <2>1. /\ e \in Nat /\ VirtualTime \in Nat /\ VirtualTime' = VirtualTime + e
        /\ R = Least(Full(c), tokens + e * c)
    BY <1>3, LiveStep
  <2>2. MinCapacity * e <= c * e /\ MinCapacity * e \in Nat /\ c * e \in Nat
    BY <1>2, <2>1, Monotone
  <2>3. e * c = c * e  BY <1>2, <2>1
  <2>4. R >= F \/ R >= tokens + MinCapacity * e
    <3> HIDE DEF c, e, R, F
    <3> QED  BY <1>1, <1>2, <2>1, <2>2, <2>3 DEF Least
  <2>5. CASE R >= F  BY <2>5
  <2>6. CASE R >= tokens + MinCapacity * e
    <3>1. CASE tokens >= F
      BY <1>1, <1>2, <2>2, <2>6, <3>1
    <3>2. CASE ~(tokens >= F)
      <4>1. PICK i \in DOMAIN grants :
              SpentSince(i) + tokens
                >= F + MinCapacity * (VirtualTime - grants[i])
        BY <1>3, <3>2 DEF LeftIsBounded, Live
      <4> DEFINE g == grants[i]
                 S == SpentSince(i)
      <4>2. g \in Nat  BY GrantType
      <4>3. S \in Int  BY GrantType
      <4>4. S + tokens >= F + MinCapacity * (VirtualTime - g)  BY <4>1
      <4> HIDE DEF c, e, R, g, S, F
      <4>5. /\ MinCapacity * ((VirtualTime - g) + e)
                 = MinCapacity * (VirtualTime - g) + MinCapacity * e
            /\ MinCapacity * (VirtualTime - g) \in Int
        BY <1>2, <2>1, <4>2, Distribute
      <4>6. VirtualTime' - g = (VirtualTime - g) + e  BY <2>1, <4>2
      <4>7. S + R >= F + MinCapacity * (VirtualTime' - g)
        BY <1>1, <1>2, <2>2, <2>6, <4>3, <4>4, <4>5, <4>6
      <4> QED  BY <4>7 DEF c, R, g, S, F
    <3> QED  BY <3>1, <3>2
  <2> QED  BY <2>4, <2>5, <2>6
<1>4. CASE ~Live
  <2>1. Tokens(c) = Full(c) /\ LastMs(now_ms[r]) = now_ms[r]
    BY <1>4 DEF Tokens, LastMs
  <2>2. now_ms[r] \in Nat  BY DEF TypeOK
  <2>3. e = 0  BY <2>1, <2>2 DEF Elapsed, Most
  <2>4. R = Full(c)  BY <1>2, <2>1, <2>3 DEF Refilled, Least
  <2> QED  BY <1>2, <2>4
<1> QED  BY <1>3, <1>4

-----------------------------------------------------------------------------
(* Types.                                                                  *)

\* The initial state has its types.
LEMMA TypeInit == Init => TypeOK
<1> SUFFICES ASSUME Init PROVE TypeOK  OBVIOUS
<1>1. /\ 0 \in 0..MaxClock /\ 0 \in 0..MaxRestarts
      /\ MinCapacity \in MinCapacity..MaxCapacity
      /\ 0 \in 0..Full(MaxCapacity)
  BY Constants, BoundAssumption, RateAssumption
<1>2. <<>> \in Seq(Nat)  BY EmptySeq
<1> QED  BY <1>1, <1>2 DEF Init, TypeOK

\* The script keeps the types of what it writes.
LEMMA ScriptType ==
  ASSUME TypeOK, NEW r \in Request, Touched(r)
  PROVE  /\ present' \in BOOLEAN /\ last_ms' \in 0..MaxClock /\ expires' \in Nat
         /\ rewound' \in Nat /\ VirtualTime' \in Nat
         /\ Refilled(now_ms[r], capacity[r]) \in 0..Full(MaxCapacity)
<1>1. /\ now_ms[r] \in 0..MaxClock /\ last_ms \in 0..MaxClock /\ clock \in 0..MaxClock
      /\ rewound \in Nat /\ capacity[r] \in MinCapacity..MaxCapacity
  BY DEF TypeOK
<1>2. MaxClock \in Nat /\ Expiry \in Nat  BY Constants
<1>3. present' = TRUE /\ last_ms' = now_ms[r] /\ expires' = clock + Expiry
      /\ rewound' = rewound + Most(0, LastMs(now_ms[r]) - now_ms[r])
  BY DEF Touched
<1>4. Most(0, LastMs(now_ms[r]) - now_ms[r]) \in Nat
  BY <1>1, <1>2 DEF Most, LastMs
<1>5. rewound' \in Nat /\ expires' \in Nat /\ last_ms' \in Nat
  BY <1>1, <1>2, <1>3, <1>4
<1>6. Refilled(now_ms[r], capacity[r]) \in 0..Full(MaxCapacity)
  <2> DEFINE R == Refilled(now_ms[r], capacity[r])
  <2>1. R \in Nat /\ R <= Full(capacity[r])  BY RefilledType
  <2>2. /\ Full(capacity[r]) \in Nat /\ Full(MaxCapacity) \in Nat
        /\ Full(capacity[r]) <= Full(MaxCapacity)
    BY <1>1, Constants
  <2> HIDE DEF R
  <2>3. R \in 0..Full(MaxCapacity)  BY <2>1, <2>2
  <2> QED  BY <2>3 DEF R
<1>7. VirtualTime' = last_ms' + rewound'  BY DEF VirtualTime
<1>8. VirtualTime' \in Nat
  <2>1. \A x, y \in Nat : x + y \in Nat  OBVIOUS
  <2>2. last_ms' + rewound' \in Nat  BY <1>5, <2>1
  <2> QED  BY <1>7, <2>2
<1> QED  BY <1>1, <1>3, <1>5, <1>6, <1>8

\* The end of a call keeps the types of its locals.
LEMMA DoneType ==
  ASSUME TypeOK, NEW r \in Request, Done(r)
  PROVE  /\ pc' \in [Request -> {"idle", "load", "ready", "eval", "reload", "again"}]
         /\ now_ms' \in [Request -> 0..MaxClock]
         /\ capacity' \in [Request -> MinCapacity..MaxCapacity]
<1>1. MinCapacity \in MinCapacity..MaxCapacity  BY RateAssumption
<1>2. 0 \in 0..MaxClock  BY Constants
<1> QED  BY <1>1, <1>2 DEF TypeOK, Done

\* Every step keeps the types.
LEMMA TypeNext == TypeOK /\ [Next]_vars => TypeOK'
<1> SUFFICES ASSUME TypeOK, [Next]_vars PROVE TypeOK'  OBVIOUS
<1> USE DEF bucket, calls, history
<1>1. CASE Tick
  <2>1. clock + 1 \in 0..MaxClock  BY <1>1, Constants DEF Tick, TypeOK
  <2> QED  BY <1>1, <2>1 DEF Tick, TypeOK
<1>2. CASE RedisRestart
  <2>1. restarts + 1 \in 0..MaxRestarts
    BY <1>2, BoundAssumption DEF RedisRestart, TypeOK
  <2>2. <<>> \in Seq(Nat) /\ 0 \in 0..MaxClock  BY EmptySeq, Constants
  <2> QED  BY <1>2, <2>1, <2>2 DEF RedisRestart, NothingPromised, TypeOK
<1>3. ASSUME NEW r \in Request, NEW c \in Capacity, Check(r, c) PROVE TypeOK'
  <2>1. c \in MinCapacity..MaxCapacity  BY RateAssumption
  <2> QED  BY <1>3, <2>1 DEF Check, TypeOK
<1>4. ASSUME NEW r \in Request, LoadScript(r) PROVE TypeOK'
  BY <1>4 DEF LoadScript, TypeOK
<1>5. ASSUME NEW r \in Request, ReadClock(r) PROVE TypeOK'
  BY <1>5 DEF ReadClock, TypeOK
<1>6. ASSUME NEW r \in Request, NoScript(r) PROVE TypeOK'
  <2>1. CASE pc[r] = "eval"
    BY <1>6, <2>1 DEF NoScript, TypeOK
  <2>2. CASE pc[r] # "eval"
    BY <1>6, <2>2, DoneType DEF NoScript, TypeOK
  <2> QED  BY <2>1, <2>2
<1>7. ASSUME NEW r \in Request, CallFails(r) PROVE TypeOK'
  BY <1>7, DoneType DEF CallFails, TypeOK
<1>8. ASSUME NEW r \in Request, Allow(r) PROVE TypeOK'
  <2> DEFINE R == Refilled(now_ms[r], capacity[r])
  <2>1. /\ Touched(r) /\ Done(r) /\ R >= Minute /\ tokens' = R - Minute
        /\ grants' = Append(grants, VirtualTime')
        /\ NothingPromised
        /\ UNCHANGED <<clock, script, sha, restarts>>
    BY <1>8 DEF Allow
  <2>2. R \in 0..Full(MaxCapacity)  BY <2>1, ScriptType
  <2> HIDE DEF R
  <2>3. tokens' \in 0..Full(MaxCapacity)  BY <2>1, <2>2, Constants
  <2>4. grants' \in Seq(Nat)
    <3>1. VirtualTime' \in Nat
      BY <2>1, ScriptType DEF TypeOK
    <3> QED  BY <2>1, <3>1, AppendProperties DEF TypeOK
  <2>5. /\ refused_at' \in 0..MaxClock
        /\ promises' \subseteq [capacity : MinCapacity..MaxCapacity, due : Nat]
    BY <2>1, Constants DEF NothingPromised
  <2> QED  BY <2>1, <2>3, <2>4, <2>5, ScriptType, DoneType DEF TypeOK
<1>9. ASSUME NEW r \in Request, Refuse(r) PROVE TypeOK'
  <2> DEFINE R == Refilled(now_ms[r], capacity[r])
  <2>1. /\ Touched(r) /\ Done(r) /\ R < Minute /\ tokens' = R
        /\ Promised(r, RetryMs(R, capacity[r]))
        /\ UNCHANGED <<clock, script, sha, grants, restarts>>
    BY <1>9 DEF Refuse
  <2>2. R \in 0..Full(MaxCapacity)  BY <2>1, ScriptType
  <2>3. capacity[r] \in MinCapacity..MaxCapacity /\ now_ms[r] \in 0..MaxClock
    BY DEF TypeOK
  <2>4. capacity[r] \in Nat \ {0}  BY <2>3, Constants
  <2> HIDE DEF R
  <2>5. R \in Nat  BY <2>2, Constants
  <2>6. RetryMs(R, capacity[r]) \in Nat  BY <2>1, <2>4, <2>5, RetryFacts
  <2>7. now_ms[r] + (RetryAfter(RetryMs(R, capacity[r])) + 1) * Second \in Nat
    BY <2>3, <2>6, Constants, HeaderFacts
  <2>8. /\ refused_at' \in 0..MaxClock
        /\ promises' \subseteq [capacity : MinCapacity..MaxCapacity, due : Nat]
    BY <2>1, <2>3, <2>7 DEF Promised, TypeOK
  <2> QED  BY <2>1, <2>2, <2>8, ScriptType, DoneType DEF TypeOK
<1>10. CASE UNCHANGED vars
  BY <1>10 DEF vars, TypeOK
<1> QED
  BY <1>1, <1>2, <1>3, <1>4, <1>5, <1>6, <1>7, <1>8, <1>9, <1>10 DEF Next

-----------------------------------------------------------------------------
(* The inductive invariant.                                                *)

\* The initial state: no bucket and no grants.
LEMMA InvInit == Init => IInv
<1> SUFFICES ASSUME Init PROVE IInv  OBVIOUS
<1>1. TypeOK  BY TypeInit
<1>2. /\ grants = <<>> /\ ~present /\ promises = {}
      /\ \A r \in Request : pc[r] = "idle"
  BY DEF Init
<1> QED
  BY <1>1, <1>2 DEF IInv, CallsAreRecent, Waiting, KeyIsFresh, SpentIsBounded,
     ConformsInVirtualTime, LeftIsBounded, PromisesHold

\* A call's clock stays recent: time does not pass Latency, and what a call
\* carries changes only when it reads the clock.
LEMMA RecentNext == TypeOK /\ CallsAreRecent /\ [Next]_vars => CallsAreRecent'
<1> SUFFICES ASSUME TypeOK, CallsAreRecent, [Next]_vars,
                    NEW q \in Request, Waiting(q)'
             PROVE  now_ms'[q] <= clock' /\ clock' - now_ms'[q] <= Latency
  BY DEF CallsAreRecent
<1> USE DEF bucket, calls, history
<1>0. clock \in Nat /\ now_ms[q] \in Nat /\ Latency \in Nat
  BY Constants DEF TypeOK
<1>1. CASE Tick
  <2>1. Waiting(q) /\ now_ms' = now_ms /\ clock' = clock + 1
    BY <1>1 DEF Tick, Waiting
  <2>2. clock - now_ms[q] < Latency  BY <1>1, <2>1 DEF Tick
  <2>3. now_ms[q] <= clock  BY <2>1 DEF CallsAreRecent
  <2> QED  BY <1>0, <2>1, <2>2, <2>3
<1>2. ASSUME Waiting(q), UNCHANGED <<clock, now_ms>>
      PROVE  now_ms'[q] <= clock' /\ clock' - now_ms'[q] <= Latency
  BY <1>2 DEF CallsAreRecent
<1>3. CASE RedisRestart
  BY <1>2, <1>3 DEF RedisRestart, Waiting
<1>4. ASSUME NEW r \in Request, NEW c \in Capacity, Check(r, c)
      PROVE  now_ms'[q] <= clock' /\ clock' - now_ms'[q] <= Latency
  <2>1. Waiting(q)  BY <1>4 DEF Check, Waiting, TypeOK
  <2> QED  BY <1>2, <1>4, <2>1 DEF Check
<1>5. ASSUME NEW r \in Request, LoadScript(r)
      PROVE  now_ms'[q] <= clock' /\ clock' - now_ms'[q] <= Latency
  <2>1. Waiting(q)  BY <1>5 DEF LoadScript, Waiting, TypeOK
  <2> QED  BY <1>2, <1>5, <2>1 DEF LoadScript
<1>6. ASSUME NEW r \in Request, ReadClock(r)
      PROVE  now_ms'[q] <= clock' /\ clock' - now_ms'[q] <= Latency
  <2>1. CASE q = r
    <3>1. now_ms'[q] = clock /\ clock' = clock
      BY <1>6, <2>1 DEF ReadClock, TypeOK
    <3> QED  BY <1>0, <3>1
  <2>2. CASE q # r
    <3>1. Waiting(q) /\ now_ms'[q] = now_ms[q] /\ clock' = clock
      BY <1>6, <2>2 DEF ReadClock, Waiting, TypeOK
    <3> QED  BY <3>1 DEF CallsAreRecent
  <2> QED  BY <2>1, <2>2
<1>7. ASSUME NEW r \in Request, Done(r), clock' = clock
      PROVE  now_ms'[q] <= clock' /\ clock' - now_ms'[q] <= Latency
  <2>1. Waiting(q) /\ now_ms'[q] = now_ms[q]
    BY <1>7 DEF Done, Waiting, TypeOK
  <2> QED  BY <1>7, <2>1 DEF CallsAreRecent
<1>8. ASSUME NEW r \in Request, NoScript(r)
      PROVE  now_ms'[q] <= clock' /\ clock' - now_ms'[q] <= Latency
  <2>1. CASE pc[r] = "eval"
    <3>1. Waiting(q)  BY <1>8, <2>1 DEF NoScript, Waiting, TypeOK
    <3> QED  BY <1>2, <1>8, <2>1, <3>1 DEF NoScript
  <2>2. CASE pc[r] # "eval"
    BY <1>7, <1>8, <2>2 DEF NoScript
  <2> QED  BY <2>1, <2>2
<1>9. ASSUME NEW r \in Request, CallFails(r) \/ Allow(r) \/ Refuse(r)
      PROVE  now_ms'[q] <= clock' /\ clock' - now_ms'[q] <= Latency
  <2>1. Done(r) /\ clock' = clock  BY <1>9 DEF CallFails, Allow, Refuse
  <2> QED  BY <1>7, <2>1
<1>10. CASE UNCHANGED vars
  BY <1>2, <1>10 DEF vars, Waiting
<1> QED
  BY <1>1, <1>3, <1>4, <1>5, <1>6, <1>8, <1>9, <1>10 DEF Next

\* The parts of the invariant that speak of the bucket and its history.
BucketInv ==
  /\ KeyIsFresh
  /\ SpentIsBounded
  /\ ConformsInVirtualTime
  /\ LeftIsBounded
  /\ PromisesHold

\* A call that is allowed: the bucket pays for it.
LEMMA AllowInv ==
  ASSUME TypeOK, TypeOK', CallsAreRecent, BucketInv, NEW r \in Request, Allow(r)
  PROVE  BucketInv'
<1> DEFINE R == Refilled(now_ms[r], capacity[r])
<1>0. PICK n \in Nat : n = Len(grants)  BY SMTT(30) DEF TypeOK
<1>1. /\ CanEval(r) /\ Touched(r) /\ R >= Minute /\ tokens' = R - Minute
      /\ grants' = Append(grants, VirtualTime')
      /\ NothingPromised
  BY DEF Allow
<1>2. /\ R \in Nat /\ R <= Full(MaxCapacity) /\ VirtualTime' \in Nat
  <2>1. R \in 0..Full(MaxCapacity) /\ VirtualTime' \in Nat  BY <1>1, ScriptType
  <2> QED  BY <2>1, Constants
<1>3. Minute \in Nat /\ MaxCapacity \in Nat /\ MinCapacity \in Nat
      /\ Full(MaxCapacity) \in Nat /\ Full(MinCapacity) \in Nat
  BY Constants
<1>4. /\ Len(grants') = n + 1 /\ DOMAIN grants' = 1..(n + 1)
      /\ \A i \in 1..n : grants'[i] = grants[i]
      /\ grants'[n + 1] = VirtualTime'
      /\ DOMAIN grants = 1..n
  <2> DEFINE Grant == Nat
             m == VirtualTime'
  <2>1. grants \in Seq(Grant) /\ m \in Grant  BY <1>2 DEF TypeOK
  <2>2. grants' = Append(grants, m)  BY <1>1
  <2> HIDE DEF Grant, m
  <2>3. /\ Len(grants') = n + 1 /\ DOMAIN grants' = 1..(n + 1)
        /\ \A i \in 1..n : grants'[i] = grants[i]
        /\ grants'[n + 1] = m /\ DOMAIN grants = 1..n
    BY <1>0, <2>1, <2>2, AppendProperties, LenProperties
  <2> QED  BY <2>3 DEF m
<1>5. grants'[n + 1] = VirtualTime'  BY <1>4
<1>6. \A i \in 1..n : SpentSince(i) \in Int /\ SpentSince(i)' = SpentSince(i) + Minute
  <2> TAKE i \in 1..n
  <2>1. SpentSince(i) \in Int  BY <1>4, GrantType
  <2>2. SpentSince(i)' = ((n + 1) - i + 1) * Minute  BY <1>4 DEF SpentSince
  <2>3. SpentSince(i) = (n - i + 1) * Minute  BY <1>0 DEF SpentSince
  <2>4. n - i + 1 \in Int /\ (n + 1) - i + 1 = (n - i + 1) + 1  BY <1>3
  <2>5. ((n - i + 1) + 1) * Minute = (n - i + 1) * Minute + Minute
    BY <1>3, <2>4, SMT
  <2> QED  BY <2>1, <2>2, <2>3, <2>4, <2>5
<1>7. SpentSince(n + 1)' = Minute  BY <1>3, <1>4 DEF SpentSince
<1> HIDE DEF R
<1>8. KeyIsFresh'
  <2>1. last_ms' = now_ms[r] /\ expires' = clock + Expiry /\ present'
    BY <1>1 DEF Touched
  <2>2. now_ms[r] <= clock  BY <1>1 DEF CallsAreRecent, CanEval, Waiting
  <2>3. now_ms[r] \in Nat /\ clock \in Nat /\ Expiry \in Nat
    BY Constants DEF TypeOK
  <2> QED  BY <2>1, <2>2, <2>3 DEF KeyIsFresh
<1>9. ASSUME NEW i \in 1..(n + 1)
      PROVE  /\ grants'[i] <= VirtualTime'
             /\ SpentSince(i)' + tokens'
                  <= Full(MaxCapacity)
                       + MaxCapacity * (VirtualTime' - grants'[i])
  <2>1. CASE i = n + 1
    <3>1. VirtualTime' - grants'[i] = 0  BY <1>2, <1>5, <2>1
    <3>2. MaxCapacity * 0 = 0  BY <1>3
    <3>3. SpentSince(i)' + tokens' = R  BY <1>1, <1>2, <1>3, <1>7, <2>1
    <3> QED  BY <1>2, <1>3, <1>5, <2>1, <3>1, <3>2, <3>3
  <2>2. CASE i \in 1..n
    <3>1. /\ grants[i] <= VirtualTime'
          /\ SpentSince(i) + R
               <= Full(MaxCapacity)
                    + MaxCapacity * (VirtualTime' - grants[i])
      BY <1>1, <1>4, <2>2, ScriptIsBounded DEF BucketInv, R
    <3>2. SpentSince(i)' + tokens' = SpentSince(i) + R
      BY <1>1, <1>2, <1>3, <1>6, <2>2
    <3> QED  BY <1>4, <2>2, <3>1, <3>2
  <2> QED  BY <1>3, <2>1, <2>2
<1>10. SpentIsBounded'
  BY <1>4, <1>9 DEF SpentIsBounded
<1>11. ConformsInVirtualTime'
  <2> SUFFICES ASSUME NEW i \in 1..(n + 1), NEW j \in i..(n + 1)
               PROVE  (j - i + 1) * Minute
                        <= Full(MaxCapacity)
                             + MaxCapacity * (grants'[j] - grants'[i])
    BY <1>4 DEF ConformsInVirtualTime
  <2>1. CASE j = n + 1
    <3>1. SpentSince(i)' = (j - i + 1) * Minute  BY <1>4, <2>1 DEF SpentSince
    <3>2. grants'[j] = VirtualTime'  BY <1>5, <2>1
    <3>3. tokens' \in Nat  BY <1>1, <1>2, <1>3
    <3>4. grants'[i] \in Nat
      <4>1. CASE i = n + 1  BY <1>2, <1>5, <4>1
      <4>2. CASE i # n + 1
        <5>1. i \in 1..n  BY <4>2
        <5>2. grants[i] \in Nat  BY <1>4, <5>1, GrantType
        <5> QED  BY <1>4, <5>1, <5>2
      <4> QED  BY <4>1, <4>2
    <3>5. (j - i + 1) * Minute \in Int
      BY <1>3, Distribute
    <3>6. MaxCapacity * (VirtualTime' - grants'[i]) \in Int
      BY <1>2, <1>3, <3>4, Distribute
    <3>7. SpentSince(i)' + tokens'
            <= Full(MaxCapacity) + MaxCapacity * (VirtualTime' - grants'[i])
      BY <1>9
    <3> QED  BY <1>3, <3>1, <3>2, <3>3, <3>5, <3>6, <3>7
  <2>2. CASE j # n + 1
    <3>1. i \in 1..n /\ j \in i..n /\ j \in 1..n  BY <1>3, <2>2
    <3>2. j \in i..Len(grants)  BY <1>0, <3>1
    <3> QED  BY <1>4, <3>1, <3>2 DEF BucketInv, ConformsInVirtualTime
  <2> QED  BY <2>1, <2>2
<1>12. LeftIsBounded'
  <2>1. \/ R >= Full(MinCapacity)
        \/ \E i \in 1..n :
             SpentSince(i) + R
               >= Full(MinCapacity) + MinCapacity * (VirtualTime' - grants[i])
    BY <1>1, <1>4, ScriptIsGenerous DEF BucketInv, R
  <2>2. CASE R >= Full(MinCapacity)
    <3>1. VirtualTime' - grants'[n + 1] = 0
      <4>1. \A x \in Nat : x - x = 0  OBVIOUS
      <4>2. VirtualTime' - VirtualTime' = 0  BY <1>2, <4>1
      <4> QED  BY <1>5, <4>2
    <3>2. MinCapacity * 0 = 0  BY <1>3
    <3>3. SpentSince(n + 1)' + tokens' = R  BY <1>1, <1>2, <1>3, <1>7
    <3>4. SpentSince(n + 1)' + tokens'
            >= Full(MinCapacity) + MinCapacity * (VirtualTime' - grants'[n + 1])
      BY <1>2, <1>3, <2>2, <3>1, <3>2, <3>3
    <3>5. n + 1 \in DOMAIN grants'  BY <1>3, <1>4
    <3> QED  BY <3>4, <3>5 DEF LeftIsBounded
  <2>3. CASE \E i \in 1..n :
             SpentSince(i) + R
               >= Full(MinCapacity) + MinCapacity * (VirtualTime' - grants[i])
    <3>1. PICK i \in 1..n :
             SpentSince(i) + R
               >= Full(MinCapacity) + MinCapacity * (VirtualTime' - grants[i])
      BY <2>3
    <3>2. SpentSince(i)' + tokens' = SpentSince(i) + R
      BY <1>1, <1>2, <1>3, <1>6
    <3>3. SpentSince(i)' + tokens'
            >= Full(MinCapacity) + MinCapacity * (VirtualTime' - grants'[i])
      BY <1>4, <3>1, <3>2
    <3>4. i \in DOMAIN grants'  BY <1>3, <1>4
    <3> QED  BY <3>3, <3>4 DEF LeftIsBounded
  <2> QED  BY <2>1, <2>2, <2>3
<1>13. PromisesHold'
  BY <1>1 DEF PromisesHold, NothingPromised
<1> QED  BY <1>8, <1>10, <1>11, <1>12, <1>13 DEF BucketInv

\* A call that is refused: the bucket keeps what it has gained.
LEMMA RefuseInv ==
  ASSUME TypeOK, TypeOK', CallsAreRecent, BucketInv, NEW r \in Request, Refuse(r)
  PROVE  BucketInv'
<1> DEFINE R == Refilled(now_ms[r], capacity[r])
<1>1. /\ CanEval(r) /\ Touched(r) /\ R < Minute /\ tokens' = R /\ grants' = grants
      /\ Promised(r, RetryMs(R, capacity[r]))
  BY DEF Refuse
<1>2. \A i \in DOMAIN grants : SpentSince(i)' = SpentSince(i)
  BY <1>1 DEF SpentSince
<1>3. last_ms' = now_ms[r] /\ expires' = clock + Expiry /\ present'
  BY <1>1 DEF Touched
<1>4. KeyIsFresh'
  <2>1. now_ms[r] <= clock  BY <1>1 DEF CallsAreRecent, CanEval, Waiting
  <2>2. now_ms[r] \in Nat /\ clock \in Nat /\ Expiry \in Nat
    BY Constants DEF TypeOK
  <2> QED  BY <1>3, <2>1, <2>2 DEF KeyIsFresh
<1>5. SpentIsBounded'
  BY <1>1, <1>2, ScriptIsBounded DEF BucketInv, SpentIsBounded
<1>6. ConformsInVirtualTime'
  BY <1>1 DEF BucketInv, ConformsInVirtualTime
<1>7. LeftIsBounded'
  BY <1>1, <1>2, ScriptIsGenerous DEF BucketInv, LeftIsBounded
<1>8. PromisesHold'
  <2> DEFINE c == capacity[r]
             now == now_ms[r]
             new == [capacity |-> c, due |-> now + (RetryAfter(RetryMs(R, c)) + 1) * Second]
  <2>0. /\ c \in Nat \ {0} /\ c \in MinCapacity..MaxCapacity /\ now \in Nat /\ R \in Nat
        /\ Minute \in Nat /\ Minute <= Full(c) /\ Full(c) \in Nat
        /\ tokens \in Nat /\ last_ms \in Nat
    <3>1. R \in 0..Full(MaxCapacity)  BY <1>1, ScriptType
    <3>2. c \in MinCapacity..MaxCapacity /\ now \in 0..MaxClock  BY DEF TypeOK
    <3>3. tokens \in 0..Full(MaxCapacity) /\ last_ms \in 0..MaxClock  BY DEF TypeOK
    <3> HIDE DEF R, c, now
    <3> QED  BY <3>1, <3>2, <3>3, Constants
  <2>1. Live /\ R = tokens + Most(0, now - last_ms) * c
    <3>1. Elapsed(now) \in Nat  BY <2>0 DEF Elapsed, Most, LastMs
    <3>2. Elapsed(now) * c \in Nat  BY <2>0, <3>1, Monotone
    <3>3. R = Least(Full(c), Tokens(c) + Elapsed(now) * c)  BY DEF Refilled
    <3>4. Tokens(c) \in Nat  BY <2>0 DEF Tokens
    <3>5. R = Tokens(c) + Elapsed(now) * c /\ Tokens(c) < Minute
      BY <1>1, <2>0, <3>2, <3>3, <3>4 DEF Least
    <3>6. Live  BY <2>0, <3>5 DEF Tokens
    <3> QED  BY <3>5, <3>6 DEF Tokens, Elapsed, LastMs
  <2>2. /\ promises' = {p \in promises : p.capacity <= c} \cup {new}
        /\ refused_at' = now /\ tokens' = R /\ last_ms' = now
    BY <1>1, <1>3 DEF Promised
  <2>3. ASSUME NEW p \in promises, p.capacity <= c
        PROVE  now < p.due /\ R + (p.due - now) * p.capacity >= Minute
    <3> DEFINE k == p.capacity
               due == p.due
    <3>1. k \in Nat /\ due \in Nat /\ tokens + (due - last_ms) * k >= Minute
      BY Constants DEF TypeOK, BucketInv, PromisesHold
    <3> HIDE DEF k, due, c, now
    <3>2. k <= c  BY <2>3 DEF k
    <3> HIDE DEF R
    <3>3. R + (due - now) * k >= Minute
      <4> DEFINE el == Most(0, now - last_ms)
      <4>1. el \in Nat /\ now - last_ms <= el  BY <2>0 DEF Most
      <4>2. R = tokens + el * c /\ c \in Nat /\ R \in Nat  BY <2>0, <2>1
      <4> HIDE DEF el
      <4>3. k * el <= c * el /\ k * el \in Nat /\ c * el \in Nat
        BY <3>1, <3>2, <4>1, <4>2, Monotone
      <4>4. (now - last_ms) * k <= el * k  BY <2>0, <3>1, <4>1, SMT
      <4>5. /\ (due - last_ms) * k = (now - last_ms) * k + (due - now) * k
            /\ (now - last_ms) * k \in Int /\ (due - now) * k \in Int
        BY <2>0, <3>1, SMT
      <4>6. el * k = k * el /\ el * c = c * el  BY <3>1, <4>1, <4>2, SMT
      <4> QED  BY <2>0, <3>1, <4>2, <4>3, <4>4, <4>5, <4>6
    <3>4. due <= now => (due - now) * k <= 0  BY <2>0, <3>1, SMT
    <3>5. (due - now) * k \in Int  BY <2>0, <3>1, SMT
    <3>6. now < due  BY <1>1, <2>0, <3>1, <3>3, <3>4, <3>5
    <3> QED  BY <3>3, <3>6 DEF k, due
  <2>4. now < new.due /\ R + (new.due - now) * new.capacity >= Minute
    <3> DEFINE w == RetryMs(R, c)
               h == (RetryAfter(w) + 1) * Second
    <3>1. w \in Nat /\ R + w * c >= Minute /\ R + (w - 1) * c < Minute
      BY <1>1, <2>0, RetryFacts
    <3>2. h \in Nat /\ h > w  BY <3>1, HeaderFacts
    <3>3. new.due = now + h /\ new.capacity = c  OBVIOUS
    <3> HIDE DEF R, c, now, new, w, h
    <3>4. w * c <= h * c /\ w * c \in Nat /\ h * c \in Nat  BY <2>0, <3>1, <3>2, Monotone
    <3>5. new.due - now = h /\ now < new.due  BY <2>0, <3>1, <3>2, <3>3
    <3> QED  BY <2>0, <3>1, <3>3, <3>4, <3>5
  <2> HIDE DEF R, c, now, new
  <2>5. \A p \in promises' : now < p.due /\ R + (p.due - now) * p.capacity >= Minute
    BY <2>2, <2>3, <2>4
  <2> QED
    BY <1>1, <1>3, <2>2, <2>5 DEF PromisesHold
<1> QED  BY <1>4, <1>5, <1>6, <1>7, <1>8 DEF BucketInv

\* Every step keeps the invariant.
LEMMA InvNext == IInv /\ [Next]_vars => IInv'
<1> SUFFICES ASSUME IInv, [Next]_vars PROVE BucketInv'
  BY TypeNext, RecentNext DEF IInv, BucketInv
<1>1. TypeOK /\ TypeOK' /\ CallsAreRecent /\ CallsAreRecent' /\ BucketInv
  BY TypeNext, RecentNext DEF IInv, BucketInv
<1>2. ASSUME UNCHANGED <<present, tokens, last_ms, expires, rewound, grants, refused_at, promises>>
      PROVE  BucketInv'
  <2>1. VirtualTime' = VirtualTime /\ \A i \in DOMAIN grants : SpentSince(i)' = SpentSince(i)
    BY <1>2 DEF VirtualTime, SpentSince
  <2> QED
    BY <1>1, <1>2, <2>1 DEF BucketInv, KeyIsFresh, SpentIsBounded,
       ConformsInVirtualTime, LeftIsBounded, PromisesHold
<1>3. CASE RedisRestart
  <2>1. grants' = <<>> /\ ~present' /\ promises' = {}
    BY <1>3 DEF RedisRestart, NothingPromised
  <2>2. DOMAIN grants' = {}  BY <2>1
  <2>3. SpentIsBounded' /\ ConformsInVirtualTime'
    BY <2>2 DEF SpentIsBounded, ConformsInVirtualTime
  <2>4. KeyIsFresh' /\ LeftIsBounded' /\ PromisesHold'
    BY <2>1 DEF KeyIsFresh, LeftIsBounded, PromisesHold
  <2> QED  BY <2>3, <2>4 DEF BucketInv
<1>4. CASE Tick
  BY <1>2, <1>4 DEF Tick, bucket, history
<1>5. ASSUME NEW r \in Request, Allow(r) PROVE BucketInv'
  BY <1>1, <1>5, AllowInv
<1>6. ASSUME NEW r \in Request, Refuse(r) PROVE BucketInv'
  BY <1>1, <1>6, RefuseInv
<1>7. ASSUME NEW r \in Request,
             \/ \E c \in Capacity : Check(r, c)
             \/ LoadScript(r) \/ ReadClock(r) \/ NoScript(r) \/ CallFails(r)
      PROVE  BucketInv'
  <2>1. UNCHANGED <<present, tokens, last_ms, expires, rewound, grants, refused_at, promises>>
    BY <1>7 DEF Check, LoadScript, ReadClock, NoScript, CallFails, bucket, history
  <2> QED  BY <1>2, <2>1
<1>8. CASE UNCHANGED vars
  BY <1>2, <1>8 DEF vars, bucket, history
<1> QED
  BY <1>3, <1>4, <1>5, <1>6, <1>7, <1>8 DEF Next

-----------------------------------------------------------------------------
(* The theorems.                                                           *)

\* The invariant of the whole development.
THEOREM Invariance == Spec => []IInv
<1> QED  BY InvInit, InvNext, PTL DEF Spec

\* The bucket, the calls and the histories keep their types, and a bucket is
\* never over the largest capacity.
THEOREM TypesCorrect == Spec => []TypeOK
<1>1. IInv => TypeOK  BY DEF IInv
<1> QED  BY <1>1, Invariance, PTL

\* The limiter allows no more than rate and capacity, whatever the rates that
\* its processes have cached and however calls overtake one another.
THEOREM BucketConforms == Spec => []ConformsInVirtualTime
<1>1. IInv => ConformsInVirtualTime  BY DEF IInv
<1> QED  BY <1>1, Invariance, PTL

\* The limiter refuses only what would exceed the smallest rate.
THEOREM BucketIsGenerous == Spec => []RefusesOnlyExcess
<1>1. IInv => RefusesOnlyExcess
  <2> SUFFICES ASSUME IInv, promises # {}
               PROVE  \E i \in DOMAIN grants :
                        SpentSince(i) + Minute
                          > Full(MinCapacity) + MinCapacity * (VirtualTime - grants[i])
    BY DEF RefusesOnlyExcess
  <2>1. present /\ tokens < Minute  BY DEF IInv, PromisesHold
  <2>2. /\ tokens \in Nat /\ Minute \in Nat /\ Full(MinCapacity) \in Nat
        /\ Minute <= Full(MinCapacity) /\ MinCapacity \in Nat
        /\ last_ms \in Nat /\ rewound \in Nat
    BY Constants DEF IInv, TypeOK
  <2>3. PICK i \in DOMAIN grants :
          SpentSince(i) + tokens
            >= Full(MinCapacity) + MinCapacity * (VirtualTime - grants[i])
    BY <2>1, <2>2 DEF IInv, LeftIsBounded
  <2>4. SpentSince(i) \in Int /\ grants[i] \in Nat  BY GrantType DEF IInv
  <2>5. VirtualTime \in Nat  BY <2>2 DEF VirtualTime
  <2>6. MinCapacity * (VirtualTime - grants[i]) \in Int
    BY <2>2, <2>4, <2>5, Distribute
  <2>7. SpentSince(i) + Minute
          > Full(MinCapacity) + MinCapacity * (VirtualTime - grants[i])
    BY <2>1, <2>2, <2>3, <2>4, <2>6
  <2> QED  BY <2>7
<1> QED  BY <1>1, Invariance, PTL

\* The Retry-After header and one second more are enough, whatever other
\* refused calls, late ones among them, have done to the bucket since.
THEOREM PatientAreAllowed == Spec => []PatientIsAllowed
<1>1. IInv => PatientIsAllowed  BY DEF IInv, PromisesHold, PatientIsAllowed
<1> QED  BY <1>1, Invariance, PTL
=============================================================================
