------------------------- MODULE KeyedLimiterProofs -------------------------
(***************************************************************************)
(* KeyedLimiter for any keys, callers, periods, bursts and lateness: the   *)
(* sweeper keeps the map small, and the rate of a key survives the         *)
(* eviction of its bucket, given an idleTTL that covers its waiters.       *)
(***************************************************************************)
EXTENDS KeyedLimiter, FiniteSetTheorems, TLAPS

\* What a new bucket holds.
FullBucket == Full(NewLimiter(every, Burst, 0))

-----------------------------------------------------------------------------
(* Buckets. *)

\* One more period.
LEMMA OneMore ==
    ASSUME NEW m \in Nat, NEW n \in Nat
    PROVE  m * n \in Nat /\ (m + 1) * n = m * n + n
  OBVIOUS

\* NewLimiter makes a full bucket, which holds at least one token.
LEMMA NewIsFull ==
    ASSUME NEW e \in Nat, NEW b \in Int, NEW t \in Nat
    PROVE  /\ NewLimiter(e, b, t) \in Bucket(Nat)
           /\ NewLimiter(e, b, t).every = e /\ NewLimiter(e, b, t).last = t
           /\ NewLimiter(e, b, t).tokens = Full(NewLimiter(e, b, 0))
           /\ Full(NewLimiter(e, b, t)) = Full(NewLimiter(e, b, 0))
           /\ Full(NewLimiter(e, b, 0)) \in Nat /\ e <= Full(NewLimiter(e, b, 0))
  <1> DEFINE n == IF b < 1 THEN 1 ELSE b
             m == n - 1
  <1>1. n \in Nat \ {0} /\ m \in Nat /\ n = m + 1
    OBVIOUS
  <1>2. \A u : NewLimiter(e, b, u) = [every |-> e, burst |-> n, tokens |-> n * e, last |-> u]
    BY DEF NewLimiter
  <1> HIDE DEF n, m
  <1>3. n * e = m * e + e /\ m * e \in Nat
    BY <1>1, OneMore
  <1>4. n * e \in Nat /\ e <= n * e
    BY <1>3
  <1> QED BY <1>1, <1>2, <1>4 DEF Bucket, Full

\* The tokens of b at time t.
Tokens(b, t) ==
    IF b.tokens + (t - b.last) > Full(b) THEN Full(b) ELSE b.tokens + (t - b.last)

\* Refill credits the time and keeps everything else.
LEMMA RefillIs ==
    ASSUME NEW b \in Bucket(Nat), Full(b) \in Nat, NEW t \in Nat, b.last <= t
    PROVE  LET r == Refill(b, t) IN
           /\ r \in Bucket(Nat)
           /\ r.every = b.every /\ r.burst = b.burst /\ r.last = t
           /\ r.tokens = Tokens(b, t)
           /\ Full(r) = Full(b)
  <1> DEFINE v == Tokens(b, t)
             r == Refill(b, t)
  <1>1. v \in Nat
    BY DEF Bucket, Tokens
  <1>2. r = [b EXCEPT !.tokens = v, !.last = t]
    BY DEF Refill, Tokens
  <1> HIDE DEF v, r
  <1>3. /\ r \in Bucket(Nat) /\ r.every = b.every /\ r.burst = b.burst
        /\ r.last = t /\ r.tokens = v
    BY <1>1, <1>2 DEF Bucket
  <1> QED BY <1>3 DEF v, r, Full

\* Take removes one token.
LEMMA TakeIs ==
    ASSUME NEW b \in Bucket(Nat), HasToken(b)
    PROVE  LET r == Take(b) IN
           /\ r \in Bucket(Nat)
           /\ r.every = b.every /\ r.burst = b.burst /\ r.last = b.last
           /\ r.tokens = b.tokens - b.every
           /\ Full(r) = Full(b)
  BY DEF Bucket, Take, Full, HasToken

-----------------------------------------------------------------------------
(* Types, and what all buckets have in common. *)

\* Every bucket has the period and the burst of the limiter.
Alike ==
    \A b \in Buckets :
        /\ heap[b].every = every /\ Full(heap[b]) = FullBucket
        /\ heap[b].tokens <= FullBucket
        /\ heap[b].last <= now

\* The constants.
LEMMA Sizes ==
    /\ Burst \in Int /\ IdleTTL \in Int /\ MaxLate \in Nat /\ MaxTime \in Nat
    /\ Interval \in Nat \ {0}
    /\ NoKey \notin Keys /\ NoBucket \notin Buckets /\ Watched \in Keys
    /\ NoTick \notin Nat /\ Everys \subseteq Nat
  BY KeyedLimiterAssumption DEF Interval

\* A full bucket.
LEMMA FullIs ==
    ASSUME TypeOK
    PROVE  every \in Nat /\ FullBucket \in Nat /\ every <= FullBucket
  <1>1. every \in Nat
    BY KeyedLimiterAssumption DEF TypeOK
  <1> QED BY <1>1, Sizes, NewIsFull DEF FullBucket

\* A bucket made at time t.
LEMMA NewBucketIs ==
    ASSUME every \in Nat, NEW t \in Nat
    PROVE  /\ NewLimiter(every, Burst, t) \in Bucket(Nat)
           /\ NewLimiter(every, Burst, t).every = every
           /\ NewLimiter(every, Burst, t).last = t
           /\ NewLimiter(every, Burst, t).tokens = FullBucket
           /\ Full(NewLimiter(every, Burst, t)) = FullBucket
           /\ FullBucket \in Nat
  <1>1. Burst \in Int
    BY Sizes
  <1> QED BY <1>1, NewIsFull DEF FullBucket

\* A pass through Acquire by c, whose bucket has v tokens and becomes r: the
\* caller gets one, or learns when to come back.
Passes(c, r, v) ==
    /\ held[c] \in Buckets /\ key[c] \in Keys
    /\ v = Tokens(heap[held[c]], now) /\ v <= FullBucket
    /\ heap' = [heap EXCEPT ![held[c]] = r]
    /\ r.every = every /\ Full(r) = FullBucket /\ r.last = now
    /\ \/ /\ every <= v /\ r.tokens = v - every
          /\ Granted(key[c])
          /\ pc' = [pc EXCEPT ![c] = "idle"]
          /\ due' = [due EXCEPT ![c] = 0]
          /\ held' = [held EXCEPT ![c] = NoBucket]
          /\ key' = [key EXCEPT ![c] = NoKey]
       \/ /\ v < every /\ r.tokens = v
          /\ pc' = [pc EXCEPT ![c] = "sleep"]
          /\ due' = [due EXCEPT ![c] = now + (every - v)]
          /\ UNCHANGED <<granted, held, key>>
    /\ pc[c] = "try"
    /\ UNCHANGED <<now, every, limiters, lastAccess, sweepVars, done, calls, mark>>

\* Acquire is such a pass.
LEMMA AcquireIs ==
    ASSUME TypeOK, Alike, NEW c \in Callers, Acquire(c)
    PROVE  \E r \in Bucket(Nat), v \in Nat : Passes(c, r, v)
  <1> DEFINE b == heap[held[c]]
             f == Refill(b, now)
             v == Tokens(b, now)
  <1>1. held[c] \in Buckets /\ key[c] \in Keys /\ now \in Nat
    BY DEF TypeOK, Acquire
  <1>2. b \in Bucket(Nat) /\ Full(b) \in Nat /\ b.last <= now /\ b.every = every
        /\ Full(b) = FullBucket
    BY <1>1, FullIs DEF TypeOK, Alike
  <1>3. v \in Nat /\ v <= FullBucket
    BY <1>1, <1>2 DEF Bucket, Tokens
  <1>4. /\ f \in Bucket(Nat) /\ f.every = every /\ f.last = now
        /\ f.tokens = v /\ Full(f) = FullBucket
    BY <1>1, <1>2, RefillIs
  <1>7. /\ pc[c] = "try"
        /\ UNCHANGED <<now, every, limiters, lastAccess, sweepVars, done, calls, mark>>
    BY DEF Acquire
  <1> HIDE DEF f, v
  <1>5. CASE HasToken(f)
    <2>1. every <= v
      BY <1>4, <1>5 DEF HasToken
    <2>2. /\ Take(f) \in Bucket(Nat) /\ Take(f).every = every /\ Take(f).last = now
          /\ Take(f).tokens = v - every /\ Full(Take(f)) = FullBucket
      BY <1>4, <1>5, TakeIs
    <2>3. /\ heap' = [heap EXCEPT ![held[c]] = Take(f)]
          /\ Granted(key[c])
          /\ pc' = [pc EXCEPT ![c] = "idle"]
          /\ due' = [due EXCEPT ![c] = 0]
          /\ held' = [held EXCEPT ![c] = NoBucket]
          /\ key' = [key EXCEPT ![c] = NoKey]
      BY <1>5 DEF Acquire, f
    <2> QED BY <1>1, <1>3, <1>7, <2>1, <2>2, <2>3 DEF v, Passes
  <1>6. CASE ~HasToken(f)
    <2>1. v < every
      BY <1>3, <1>4, <1>6, FullIs DEF HasToken
    <2>2. Need(f) = every - v
      BY <1>4 DEF Need
    <2>3. /\ heap' = [heap EXCEPT ![held[c]] = f]
          /\ pc' = [pc EXCEPT ![c] = "sleep"]
          /\ due' = [due EXCEPT ![c] = now + Need(f)]
          /\ UNCHANGED <<granted, held, key>>
      BY <1>6 DEF Acquire, f
    <2> QED BY <1>1, <1>3, <1>4, <1>7, <2>1, <2>2, <2>3 DEF v, Passes
  <1> QED BY <1>5, <1>6

\* A call of Wait by c for key k, which gets bucket b: found or made; the caller
\* joins it unless it is canceled or there is no limit.
Asks(c, k, b) ==
    /\ pc[c] = "idle"
    /\ calls' = [calls EXCEPT ![c] = @ + 1]
    /\ lastAccess' = [lastAccess EXCEPT ![k] = now]
    /\ \/ limiters[k] = b /\ UNCHANGED <<heap, limiters>>
       \/ /\ limiters[k] = NoBucket
          /\ \A l \in Keys : limiters[l] # b
          /\ \A d \in Callers : held[d] # b
          /\ heap' = [heap EXCEPT ![b] = NewLimiter(every, Burst, now)]
          /\ limiters' = [limiters EXCEPT ![k] = b]
    /\ \/ /\ UNCHANGED <<pc, due, held, key>>
          /\ granted' = granted \/ (every = 0 /\ Granted(k))
       \/ /\ every > 0
          /\ pc' = [pc EXCEPT ![c] = "try"]
          /\ due' = [due EXCEPT ![c] = now]
          /\ held' = [held EXCEPT ![c] = b]
          /\ key' = [key EXCEPT ![c] = k]
          /\ UNCHANGED granted
    /\ UNCHANGED <<now, every, sweepVars, done, mark>>

\* Wait is such a call.
LEMMA WaitIs ==
    ASSUME TypeOK, NEW c \in Callers, NEW x \in Keys \cup {NoKey}, Wait(c, x)
    PROVE  \E k \in Keys, b \in Buckets : Asks(c, k, b)
  <1> DEFINE k == limiterKeyFrom(x)
  <1>1. k \in Keys
    BY KeyedLimiterAssumption DEF limiterKeyFrom
  <1>2. WaitKey(c, k)
    BY DEF Wait
  <1> HIDE DEF k
  <1>3. PICK b \in Buckets :
          /\ bucket(k, b)
          /\ \/ UNCHANGED <<pc, due, held, key, granted>>
             \/ every = 0 /\ Granted(k) /\ UNCHANGED <<pc, due, held, key>>
             \/ /\ every > 0
                /\ pc' = [pc EXCEPT ![c] = "try"]
                /\ due' = [due EXCEPT ![c] = now]
                /\ held' = [held EXCEPT ![c] = b]
                /\ key' = [key EXCEPT ![c] = k]
                /\ UNCHANGED granted
    BY <1>2 DEF WaitKey
  <1>4. \/ limiters[k] = b /\ UNCHANGED <<heap, limiters>>
        \/ /\ limiters[k] = NoBucket
           /\ \A l \in Keys : limiters[l] # b
           /\ \A d \in Callers : held[d] # b
           /\ heap' = [heap EXCEPT ![b] = NewLimiter(every, Burst, now)]
           /\ limiters' = [limiters EXCEPT ![k] = b]
    BY <1>3 DEF bucket, Fresh, Free
  <1>5. lastAccess' = [lastAccess EXCEPT ![k] = now]
    BY <1>3 DEF bucket
  <1>6. /\ pc[c] = "idle" /\ calls' = [calls EXCEPT ![c] = @ + 1]
        /\ UNCHANGED <<now, every, sweepVars, done, mark>>
    BY <1>2 DEF WaitKey
  <1> QED BY <1>1, <1>3, <1>4, <1>5, <1>6 DEF Asks

\* Every step keeps the types and Alike.
LEMMA TypeStep ==
    ASSUME TypeOK, Alike, [Next]_vars
    PROVE  TypeOK' /\ Alike'
  <1> USE Sizes
  <1>0. every' = every /\ FullBucket' = FullBucket
    <2>1. every' = every
      BY DEF Next, vars, Wait, WaitKey, Acquire, Wake, Abandon, Cancel, TickerFires, Sweep,
             SweepExits, Stop, Tick, OpenWindow
    <2> QED BY <2>1 DEF FullBucket
  <1>1. ASSUME NEW c \in Callers, NEW x \in Keys \cup {NoKey}, Wait(c, x)
        PROVE  TypeOK' /\ Alike'
    <2>1. PICK k \in Keys, b \in Buckets : Asks(c, k, b)
      BY <1>1, WaitIs
    <2> DEFINE r == NewLimiter(every, Burst, now)
    <2>2. /\ r \in Bucket(Nat) /\ r.every = every /\ r.last = now
          /\ r.tokens = FullBucket /\ Full(r) = FullBucket /\ FullBucket \in Nat
      <3>1. every \in Nat /\ now \in Nat /\ Burst \in Int
        BY FullIs DEF TypeOK
      <3> QED BY <3>1, NewBucketIs
    <2> HIDE DEF r
    <2>3. heap' \in [Buckets -> Bucket(Nat)] /\ Alike'
      <3>1. CASE UNCHANGED heap
        BY <3>1, <1>0, <2>1 DEF TypeOK, Alike, Asks
      <3>2. CASE heap' = [heap EXCEPT ![b] = r]
        BY <3>2, <1>0, <2>1, <2>2 DEF TypeOK, Alike, Asks
      <3> QED BY <2>1, <3>1, <3>2 DEF r, Asks
    <2>4. granted' \in Nat
      BY <2>1 DEF TypeOK, Granted, Asks
    <2>5. limiters' \in [Keys -> Buckets \cup {NoBucket}] /\ lastAccess' \in [Keys -> 0..now]
          /\ calls' \in [Callers -> Nat]
      BY <2>1 DEF TypeOK, Asks
    <2>6. /\ pc' \in [Callers -> {"idle", "try", "sleep"}]
          /\ due' \in [Callers -> Nat]
          /\ held' \in [Callers -> Buckets \cup {NoBucket}]
          /\ key' \in [Callers -> Keys \cup {NoKey}]
          /\ \A d \in Callers : pc'[d] # "idle" <=> held'[d] # NoBucket
          /\ \A d \in Callers : pc'[d] # "idle" <=> key'[d] # NoKey
      BY <2>1 DEF TypeOK, Asks
    <2> QED BY <2>1, <2>3, <2>4, <2>5, <2>6 DEF TypeOK, sweepVars, Asks
  <1>2. ASSUME NEW c \in Callers, Acquire(c) PROVE TypeOK' /\ Alike'
    <2>1. PICK r \in Bucket(Nat), v \in Nat : Passes(c, r, v)
      BY <1>2, AcquireIs
    <2>2. /\ pc[c] = "try" /\ held[c] \in Buckets
          /\ UNCHANGED <<now, every, limiters, lastAccess, sweepVars, done, calls, mark>>
      BY <2>1 DEF Passes
    <2>3. every \in Nat /\ FullBucket \in Nat /\ now \in Nat
      BY FullIs DEF TypeOK
    <2>4. r.tokens <= FullBucket
      BY <2>1, <2>3 DEF Passes
    <2>5. heap' \in [Buckets -> Bucket(Nat)] /\ Alike'
      BY <1>0, <2>1, <2>2, <2>3, <2>4 DEF TypeOK, Alike, Passes
    <2>6. granted' \in Nat
      BY <2>1 DEF TypeOK, Granted, Passes
    <2>7. /\ pc' \in [Callers -> {"idle", "try", "sleep"}]
          /\ due' \in [Callers -> Nat]
          /\ held' \in [Callers -> Buckets \cup {NoBucket}]
          /\ key' \in [Callers -> Keys \cup {NoKey}]
          /\ \A d \in Callers : pc'[d] # "idle" <=> held'[d] # NoBucket
          /\ \A d \in Callers : pc'[d] # "idle" <=> key'[d] # NoKey
      BY <2>1, <2>2, <2>3 DEF TypeOK, Passes
    <2> QED BY <2>2, <2>5, <2>6, <2>7 DEF TypeOK, sweepVars
  <1>3. ASSUME NEW c \in Callers, Wake(c) \/ Abandon(c) \/ Cancel(c) PROVE TypeOK' /\ Alike'
    <2>1. UNCHANGED <<now, every, heap, limiters, lastAccess, sweepVars, calls, history>>
      BY <1>3 DEF Wake, Abandon, Cancel
    <2>2. Alike'
      BY <1>0, <2>1 DEF Alike
    <2>3. /\ pc' \in [Callers -> {"idle", "try", "sleep"}]
          /\ due' \in [Callers -> Nat] /\ done' \subseteq Callers
          /\ held' \in [Callers -> Buckets \cup {NoBucket}]
          /\ key' \in [Callers -> Keys \cup {NoKey}]
          /\ \A d \in Callers : pc'[d] # "idle" <=> held'[d] # NoBucket
          /\ \A d \in Callers : pc'[d] # "idle" <=> key'[d] # NoKey
      BY <1>3 DEF Wake, Abandon, Cancel, TypeOK
    <2> QED BY <2>1, <2>2, <2>3 DEF TypeOK, sweepVars, history
  <1>4. CASE TickerFires \/ Sweep \/ SweepExits \/ Stop
    <2>1. UNCHANGED <<now, every, heap, lastAccess, callerVars, history>>
      BY <1>4 DEF TickerFires, Sweep, SweepExits, Stop
    <2>2. Alike'
      BY <1>0, <2>1 DEF Alike
    <2>3. /\ limiters' \in [Keys -> Buckets \cup {NoBucket}]
          /\ sweeper' \in {"none", "running", "exited"}
          /\ stopCh' \in BOOLEAN
          /\ nextTick' \in Nat
          /\ tick' \in (0..now) \cup {NoTick}
      <3>1. CASE TickerFires
        <4>1. nextTick' = nextTick + Interval /\ nextTick \in Nat
          BY <3>1 DEF TickerFires, TypeOK
        <4>2. tick' \in {now, tick} /\ UNCHANGED <<limiters, sweeper, stopCh>>
          BY <3>1 DEF TickerFires
        <4> QED BY <4>1, <4>2 DEF TypeOK
      <3>2. CASE Sweep
        BY <3>2 DEF Sweep, evictIdle, TypeOK
      <3>3. CASE SweepExits \/ Stop
        BY <3>3 DEF SweepExits, Stop, TypeOK
      <3> QED BY <1>4, <3>1, <3>2, <3>3
    <2> QED BY <2>1, <2>2, <2>3 DEF TypeOK, callerVars, history
  <1>5. CASE Tick
    <2>1. now' = now + 1 /\ now \in Nat
      BY <1>5 DEF Tick, TypeOK
    <2>2. UNCHANGED <<every, heap, limiters, lastAccess, sweepVars, callerVars, history>>
      BY <1>5 DEF Tick
    <2>3. 0..now \subseteq 0..now'
      BY <2>1
    <2>4. Alike'
      BY <1>0, <2>1, <2>2 DEF Alike, TypeOK, Bucket
    <2>5. lastAccess' \in [Keys -> 0..now'] /\ tick' \in (0..now') \cup {NoTick} /\ mark' \in 0..now'
      BY <2>2, <2>3 DEF TypeOK, sweepVars, history
    <2> QED BY <2>1, <2>2, <2>4, <2>5 DEF TypeOK, sweepVars, callerVars, history
  <1>6. CASE OpenWindow
    BY <1>0, <1>6 DEF OpenWindow, TypeOK, Alike, sweepVars, callerVars
  <1>7. CASE UNCHANGED vars
    BY <1>0, <1>7 DEF vars, TypeOK, Alike, sweepVars, callerVars, history
  <1> QED BY <1>1, <1>2, <1>3, <1>4, <1>5, <1>6, <1>7 DEF Next

\* The state of the limiter keeps its type, and all its buckets are alike: none
\* ever holds more than the burst, whoever keeps a pointer to it.
THEOREM KeyedTypeCorrect == Spec => [](TypeOK /\ Alike)
  <1>1. Init => TypeOK /\ Alike
    <2> SUFFICES ASSUME Init PROVE TypeOK /\ Alike
      OBVIOUS
    <2>1. every \in Nat
      BY KeyedLimiterAssumption DEF Init
    <2> DEFINE r == NewLimiter(every, Burst, 0)
    <2>2. r \in Bucket(Nat) /\ r.every = every /\ r.last = 0 /\ r.tokens = FullBucket
          /\ Full(r) = FullBucket /\ FullBucket \in Nat
      BY <2>1, NewBucketIs
    <2>3. heap = [b \in Buckets |-> r]
      BY DEF Init
    <2> HIDE DEF r
    <2>4. heap \in [Buckets -> Bucket(Nat)] /\ Alike
      BY <2>2, <2>3 DEF Init, Alike
    <2>5. nextTick \in Nat /\ now \in Nat /\ mark \in 0..now /\ granted \in Nat
      BY Sizes DEF Init
    <2>6. /\ every \in Everys
          /\ limiters \in [Keys -> Buckets \cup {NoBucket}]
          /\ lastAccess \in [Keys -> 0..now]
          /\ sweeper \in {"none", "running", "exited"}
          /\ tick \in (0..now) \cup {NoTick}
      BY DEF Init
    <2>8. stopCh \in BOOLEAN
      BY Zenon DEF Init
    <2>7. /\ pc \in [Callers -> {"idle", "try", "sleep"}]
          /\ due \in [Callers -> Nat] /\ calls \in [Callers -> Nat]
          /\ held \in [Callers -> Buckets \cup {NoBucket}]
          /\ key \in [Callers -> Keys \cup {NoKey}]
          /\ \A c \in Callers : pc[c] # "idle" <=> held[c] # NoBucket
          /\ \A c \in Callers : pc[c] # "idle" <=> key[c] # NoKey
          /\ done \subseteq Callers
      BY DEF Init
    <2> QED BY <2>4, <2>5, <2>6, <2>7, <2>8 DEF TypeOK
  <1> QED BY <1>1, TypeStep, PTL DEF Spec

-----------------------------------------------------------------------------
(* Who waits where, and until when. *)

\* No two keys share a bucket.
OneEach ==
    \A k, l \in Keys : limiters[k] # NoBucket /\ limiters[k] = limiters[l] => k = l

\* Nobody waits when there is no limit.
Unlimited == every = 0 => \A c \in Callers : pc[c] = "idle"

\* A caller's next attempt is within a period, and it is MaxLate late at most.
Punctual ==
    \A c \in Callers : pc[c] # "idle" => /\ now <= due[c] + MaxLate
                                         /\ due[c] <= now + every

Waiting == OneEach /\ Unlimited /\ Punctual

\* Every step keeps Waiting.
LEMMA WaitingStep ==
    ASSUME TypeOK, Alike, Waiting, [Next]_vars
    PROVE  Waiting'
  <1> USE Sizes
  <1>0. every \in Nat /\ FullBucket \in Nat /\ now \in Nat
    BY FullIs DEF TypeOK
  <1>1. ASSUME NEW c \in Callers, NEW x \in Keys \cup {NoKey}, Wait(c, x)
        PROVE  Waiting'
    <2>1. PICK k \in Keys, b \in Buckets : Asks(c, k, b)
      BY <1>1, WaitIs
    <2>2. OneEach'
      BY <2>1 DEF Asks, Waiting, OneEach, TypeOK
    <2>3. Unlimited'
      BY <1>0, <2>1 DEF Asks, Waiting, Unlimited, TypeOK
    <2>4. Punctual'
      BY <1>0, <2>1 DEF Asks, Waiting, Punctual, TypeOK
    <2> QED BY <2>2, <2>3, <2>4 DEF Waiting
  <1>2. ASSUME NEW c \in Callers, Acquire(c) PROVE Waiting'
    <2>1. PICK r \in Bucket(Nat), v \in Nat : Passes(c, r, v)
      BY <1>2, AcquireIs
    <2>2. OneEach'
      BY <2>1 DEF Passes, Waiting, OneEach
    <2>3. Unlimited'
      BY <1>0, <2>1 DEF Passes, Waiting, Unlimited, TypeOK
    <2>4. Punctual'
      BY <1>0, <2>1 DEF Passes, Waiting, Punctual, TypeOK
    <2> QED BY <2>2, <2>3, <2>4 DEF Waiting
  <1>3. ASSUME NEW c \in Callers, Wake(c) \/ Abandon(c) \/ Cancel(c) PROVE Waiting'
    <2>1. UNCHANGED <<now, every, limiters>>
      BY <1>3 DEF Wake, Abandon, Cancel
    <2>2. \A d \in Callers : pc'[d] # "idle" => pc[d] # "idle" /\ due'[d] = due[d]
      BY <1>3 DEF Wake, Abandon, Cancel, TypeOK
    <2>3. pc' \in [Callers -> {"idle", "try", "sleep"}]
      BY TypeStep, <1>3 DEF Next, TypeOK
    <2> QED BY <2>1, <2>2, <2>3 DEF Waiting, OneEach, Unlimited, Punctual
  <1>4. CASE TickerFires \/ Sweep \/ SweepExits \/ Stop
    <2>1. UNCHANGED <<now, every, callerVars>>
      BY <1>4 DEF TickerFires, Sweep, SweepExits, Stop
    <2>2. \A k \in Keys : limiters'[k] \in {limiters[k], NoBucket}
      BY <1>4 DEF TickerFires, Sweep, SweepExits, Stop, evictIdle
    <2> QED BY <2>1, <2>2 DEF Waiting, OneEach, Unlimited, Punctual, callerVars
  <1>5. CASE Tick
    <2>1. now' = now + 1 /\ UNCHANGED <<every, limiters, pc, due>>
      BY <1>5 DEF Tick, callerVars
    <2>2. \A c \in Callers : pc[c] # "idle" => now < due[c] + MaxLate
      BY <1>5 DEF Tick
    <2> QED BY <1>0, <2>1, <2>2 DEF Waiting, OneEach, Unlimited, Punctual, TypeOK
  <1>6. CASE OpenWindow \/ UNCHANGED vars
    BY <1>6 DEF OpenWindow, vars, callerVars, Waiting, OneEach, Unlimited, Punctual
  <1> QED BY <1>1, <1>2, <1>3, <1>4, <1>5, <1>6 DEF Next

\* The callers that wait for a token of k.
Waiters(k) == {c \in Callers : key[c] = k}

\* What a caller can put off the next token of its bucket.
Turn == every + MaxLate

\* The turns of k nobody has taken.
Spare(k) == (Cardinality(Callers) - Cardinality(Waiters(k))) * Turn

\* idleTTL covers a turn of every caller and a full bucket.
Long == FullBucket + Cardinality(Callers) * Turn <= IdleTTL + 1

\* A waiter's bucket stays in the map.
Attached == \A c \in Callers : key[c] # NoKey => limiters[key[c]] = held[c]

\* The bucket of k would have been empty, and its waiters come back, not much
\* later than it was last asked for.
Timely(k) ==
    limiters[k] # NoBucket =>
        /\ heap[limiters[k]].last - heap[limiters[k]].tokens <= lastAccess[k] + Spare(k)
        /\ \A c \in Callers : key[c] = k => due[c] <= lastAccess[k] + Spare(k) + every

\* What the bucket of Watched can grant now, a bucket yet to be made included.
Credit ==
    IF limiters[Watched] = NoBucket THEN FullBucket
    ELSE Tokens(heap[limiters[Watched]], now)

\* The grants of Watched and what its bucket still holds.
Metered == granted * every + Credit <= FullBucket + (now - mark)

Paced == Long => Attached /\ (\A k \in Keys : Timely(k)) /\ Metered

\* Turns as numbers.
LEMMA Turns ==
    ASSUME TypeOK, NEW k \in Keys
    PROVE  /\ Turn \in Nat /\ Spare(k) \in Nat
           /\ Cardinality(Callers) * Turn \in Nat
           /\ Spare(k) <= Cardinality(Callers) * Turn
           /\ \A c \in Callers :
                key[c] = k => Spare(k) + Turn <= Cardinality(Callers) * Turn
  <1> DEFINE n == Cardinality(Callers)
             w == Cardinality(Waiters(k))
             m == n - w
  <1>1. Turn \in Nat
    BY FullIs, Sizes DEF Turn
  <1>2. IsFiniteSet(Callers)
    BY KeyedLimiterAssumption
  <1>3. Waiters(k) \subseteq Callers
    BY DEF Waiters
  <1>4. IsFiniteSet(Waiters(k)) /\ n \in Nat /\ w \in Nat /\ w <= n
    BY <1>2, <1>3, FS_Subset, FS_CardinalityType
  <1>5. ASSUME NEW c \in Callers, key[c] = k PROVE w # 0
    BY <1>4, <1>5, FS_EmptySet DEF Waiters
  <1> HIDE DEF n, w
  <1>6. m \in Nat /\ n = m + w
    BY <1>4
  <1> HIDE DEF m
  <1>7. n * Turn = m * Turn + w * Turn /\ m * Turn \in Nat /\ w * Turn \in Nat /\ n * Turn \in Nat
    BY <1>1, <1>4, <1>6
  <1>8. w # 0 => Turn <= w * Turn
    <2> SUFFICES ASSUME w # 0 PROVE Turn <= w * Turn
      OBVIOUS
    <2>1. w - 1 \in Nat /\ w = (w - 1) + 1
      BY <1>4
    <2>2. (w - 1) * Turn \in Nat /\ ((w - 1) + 1) * Turn = (w - 1) * Turn + Turn
      BY <1>1, <2>1, OneMore
    <2> QED BY <1>1, <2>1, <2>2
  <1>9. Spare(k) = m * Turn
    BY DEF Spare, m, n, w
  <1> QED BY <1>1, <1>5, <1>7, <1>8, <1>9 DEF n

\* A waiter that leaves gives its turn back.
LEMMA Leaves ==
    ASSUME TypeOK, NEW c \in Callers, NEW k \in Keys, key[c] = k,
           key' = [key EXCEPT ![c] = NoKey], every' = every
    PROVE  /\ Spare(k)' = Spare(k) + Turn
           /\ \A l \in Keys : l # k => Spare(l)' = Spare(l)
  <1> DEFINE n == Cardinality(Callers)
             w == Cardinality(Waiters(k))
  <1>1. Turn \in Nat /\ Turn' = Turn
    BY FullIs, Sizes DEF Turn
  <1>2. IsFiniteSet(Callers)
    BY KeyedLimiterAssumption
  <1>3. Waiters(k) \subseteq Callers /\ c \in Waiters(k)
    BY DEF Waiters
  <1>4. IsFiniteSet(Waiters(k)) /\ n \in Nat /\ w \in Nat /\ w <= n
    BY <1>2, <1>3, FS_Subset, FS_CardinalityType
  <1>5. Waiters(k)' = Waiters(k) \ {c}
    BY Sizes DEF Waiters, TypeOK
  <1>6. Cardinality(Waiters(k)') = w - 1
    BY <1>3, <1>4, <1>5, FS_RemoveElement
  <1>7. Spare(k)' = (n - (w - 1)) * Turn
    BY <1>1, <1>6 DEF Spare
  <1>8. Spare(k) = (n - w) * Turn
    BY DEF Spare
  <1> HIDE DEF n, w
  <1>9. n - w \in Nat /\ n - (w - 1) = (n - w) + 1
    BY <1>4
  <1>10. ((n - w) + 1) * Turn = (n - w) * Turn + Turn
    BY <1>1, <1>9, OneMore
  <1>11. \A l \in Keys : l # k => Waiters(l)' = Waiters(l)
    BY Sizes DEF Waiters, TypeOK
  <1>12. \A l \in Keys : l # k => Spare(l)' = Spare(l)
    BY <1>1, <1>11 DEF Spare
  <1> QED BY <1>7, <1>8, <1>9, <1>10, <1>12

\* A caller that joins k, or does not, takes no turn of another key.
LEMMA Joins ==
    ASSUME TypeOK, NEW c \in Callers, NEW k \in Keys, key[c] = NoKey,
           key' = key \/ key' = [key EXCEPT ![c] = k], every' = every
    PROVE  \A l \in Keys : l # k => Spare(l)' = Spare(l)
  <1>1. Turn' = Turn
    BY DEF Turn
  <1>2. \A l \in Keys : l # k => Waiters(l)' = Waiters(l)
    BY Sizes DEF Waiters, TypeOK
  <1> QED BY <1>1, <1>2 DEF Spare

\* Nor does a step that leaves the callers alone.
LEMMA Stays ==
    ASSUME key' = key, every' = every
    PROVE  \A k \in Keys : Spare(k)' = Spare(k)
  BY DEF Spare, Waiters, Turn

\* Turns not taken, after a step as well.
LEMMA SpareType ==
    ASSUME NEW W \in SUBSET Callers, NEW t \in Nat
    PROVE  (Cardinality(Callers) - Cardinality(W)) * t \in Nat
  <1>1. IsFiniteSet(Callers)
    BY KeyedLimiterAssumption
  <1> DEFINE m == Cardinality(Callers) - Cardinality(W)
  <1>2. m \in Nat
    BY <1>1, FS_Subset, FS_CardinalityType
  <1> HIDE DEF m
  <1>3. m * t \in Nat
    BY <1>2
  <1> QED BY <1>3 DEF m

\* A step of Wait keeps Paced.
LEMMA PacedWait ==
    ASSUME TypeOK, Alike, Waiting, Paced, TypeOK', Alike', Long,
           NEW c \in Callers, NEW x \in Keys \cup {NoKey}, Wait(c, x)
    PROVE  Attached' /\ (\A l \in Keys : Timely(l)') /\ Metered'
  <1> USE Sizes
  <1>1. PICK k \in Keys, b \in Buckets : Asks(c, k, b)
    BY WaitIs
  <1>2. /\ every \in Nat /\ FullBucket \in Nat /\ now \in Nat /\ every' = every /\ now' = now
        /\ FullBucket' = FullBucket
    BY FullIs, <1>1 DEF TypeOK, Asks, FullBucket
  <1>3. key[c] = NoKey
    BY <1>1 DEF TypeOK, Asks
  <1>4. Attached /\ (\A l \in Keys : Timely(l)) /\ Metered
    BY DEF Paced
  <1>5. limiters'[k] = b
    BY <1>1 DEF Asks, TypeOK
  <1>6. \A l \in Keys : l # k => limiters'[l] = limiters[l] /\ lastAccess'[l] = lastAccess[l]
    BY <1>1 DEF Asks, TypeOK
  <1>7. \A l \in Keys : l # k /\ limiters[l] # NoBucket =>
          limiters[l] \in Buckets /\ heap'[limiters[l]] = heap[limiters[l]]
    BY <1>1 DEF Asks, TypeOK
  <1>8. Attached'
    <2>1. \A d \in Callers : key[d] # NoKey => limiters[key[d]] # NoBucket /\ key[d] \in Keys
      BY <1>4 DEF Attached, TypeOK
    <2>2. ASSUME NEW d \in Callers, d # c, key'[d] # NoKey PROVE limiters'[key'[d]] = held'[d]
      <3>1. key'[d] = key[d] /\ held'[d] = held[d]
        BY <1>1, <2>2 DEF Asks, TypeOK
      <3>2. limiters[key[d]] = held[d]
        BY <1>4, <2>2, <3>1 DEF Attached
      <3>3. limiters'[key[d]] = limiters[key[d]]
        BY <1>1, <2>1, <2>2, <3>1 DEF Asks, TypeOK
      <3> QED BY <3>1, <3>2, <3>3
    <2>3. key'[c] # NoKey => limiters'[key'[c]] = held'[c]
      BY <1>1, <1>3, <1>5 DEF Asks, TypeOK
    <2> QED BY <2>2, <2>3 DEF Attached
  <1>9. ASSUME NEW l \in Keys PROVE Timely(l)'
    <2>1. CASE l = k
      <3>1. Spare(k)' \in Nat
        <4>1. Turn' \in Nat /\ Waiters(k)' \in SUBSET Callers
          BY <1>2 DEF Turn, Waiters
        <4> QED BY <4>1, SpareType DEF Spare
      <3> DEFINE q == Spare(k)'
      <3> HIDE DEF q
      <3>2. lastAccess'[k] = now
        BY <1>1 DEF Asks, TypeOK
      <3>3. /\ heap'[b].last \in Nat /\ heap'[b].tokens \in Nat
            /\ heap'[b].last <= now
        BY <1>2 DEF TypeOK, Alike, Bucket
      <3>4. heap'[b].last - heap'[b].tokens <= now + q
        BY <1>2, <3>1, <3>3 DEF q
      <3>5. ASSUME NEW d \in Callers, key'[d] = k PROVE due'[d] <= now + q + every
        <4>1. due'[d] \in Nat /\ due'[d] <= now + every
          BY <1>1, <1>2, <3>5 DEF Asks, Waiting, Punctual, TypeOK
        <4> QED BY <1>2, <3>1, <4>1 DEF q
      <3> QED BY <1>2, <1>5, <2>1, <3>2, <3>4, <3>5 DEF Timely, q
    <2>2. CASE l # k
      <3>1. Spare(l)' = Spare(l)
        BY <1>1, <1>2, <1>3, <2>2, Joins DEF Asks
      <3>2. \A d \in Callers : key'[d] = l => key[d] = l /\ due'[d] = due[d]
        BY <1>1, <2>2 DEF Asks, TypeOK
      <3> QED BY <1>2, <1>4, <1>6, <1>7, <2>2, <3>1, <3>2 DEF Timely
    <2> QED BY <2>1, <2>2
  <1>10. Credit' = Credit
    <2>1. CASE k # Watched
      BY <1>2, <1>6, <1>7, <2>1 DEF Credit, Tokens
    <2>2. CASE k = Watched /\ UNCHANGED <<heap, limiters>>
      BY <1>2, <2>2 DEF Credit
    <2>3. CASE /\ k = Watched /\ limiters[k] = NoBucket
               /\ heap' = [heap EXCEPT ![b] = NewLimiter(every, Burst, now)]
      <3>1. heap'[b] = NewLimiter(every, Burst, now)
        BY <2>3 DEF TypeOK
      <3>2. /\ heap'[b].tokens = FullBucket /\ Full(heap'[b]) = FullBucket
            /\ heap'[b].last = now
        BY <1>2, <3>1, NewBucketIs
      <3>3. Tokens(heap'[b], now) = FullBucket
        BY <1>2, <3>2 DEF Tokens
      <3>4. Credit' = Tokens(heap'[b], now)
        BY <1>2, <1>5, <2>3 DEF Credit
      <3> QED BY <2>3, <3>3, <3>4 DEF Credit
    <2> QED BY <1>1, <2>1, <2>2, <2>3 DEF Asks
  <1>11. granted' * every = granted * every
    <2>1. granted' = granted \/ (every = 0 /\ granted' \in Nat /\ granted \in Nat)
      BY <1>1, <1>2 DEF Asks, Granted, TypeOK
    <2> QED BY <2>1
  <1>12. mark' = mark
    BY <1>1 DEF Asks
  <1> QED BY <1>2, <1>4, <1>8, <1>9, <1>10, <1>11, <1>12 DEF Metered

\* The tokens of a waiter's bucket.
LEMMA TokensIs ==
    ASSUME TypeOK, Alike, NEW b \in Buckets
    PROVE  LET v == Tokens(heap[b], now) IN
           /\ v \in Nat /\ v <= FullBucket
           /\ heap[b].last \in Nat /\ heap[b].tokens \in Nat
           /\ \/ v = FullBucket
              \/ v < FullBucket /\ now - v = heap[b].last - heap[b].tokens
  BY FullIs, SMTT(30) DEF Tokens, TypeOK, Alike, Bucket

\* A step of Acquire keeps Paced.
LEMMA PacedAcquire ==
    ASSUME TypeOK, Alike, Waiting, Paced, TypeOK', Alike', Long,
           NEW c \in Callers, Acquire(c)
    PROVE  Attached' /\ (\A l \in Keys : Timely(l)') /\ Metered'
  <1> USE Sizes
  <1>1. PICK r \in Bucket(Nat), v \in Nat : Passes(c, r, v)
    BY AcquireIs
  <1>0. PICK k \in Keys : k = key[c]
    BY <1>1 DEF Passes
  <1> DEFINE b == limiters[k]
             q == Spare(k)
  <1>2. /\ every \in Nat /\ FullBucket \in Nat /\ now \in Nat /\ every' = every /\ now' = now
        /\ FullBucket' = FullBucket /\ every <= FullBucket /\ MaxLate \in Nat
    BY FullIs, <1>1 DEF TypeOK, Passes, FullBucket
  <1>3. Attached /\ (\A l \in Keys : Timely(l)) /\ Metered
    BY DEF Paced
  <1>4. held[c] = b /\ b \in Buckets /\ b # NoBucket
    BY <1>0, <1>1, <1>3 DEF Passes, Attached
  <1>5. /\ limiters' = limiters /\ lastAccess' = lastAccess /\ mark' = mark
        /\ heap' = [heap EXCEPT ![b] = r] /\ r.last = now /\ Full(r) = FullBucket
        /\ v = Tokens(heap[b], now)
    BY <1>1, <1>4 DEF Passes
  <1>6. /\ v <= FullBucket
        /\ heap[b].last \in Nat /\ heap[b].tokens \in Nat
        /\ v < FullBucket => now - v = heap[b].last - heap[b].tokens
        /\ v = FullBucket \/ v < FullBucket
    BY <1>2, <1>4, <1>5, TokensIs DEF Passes
  <1>7. /\ heap[b].last - heap[b].tokens <= lastAccess[k] + q
        /\ due[c] <= lastAccess[k] + q + every
    BY <1>0, <1>3, <1>4 DEF Timely
  <1>8. now <= due[c] + MaxLate /\ due[c] \in Nat /\ lastAccess[k] \in Nat
    BY <1>1, <1>2, <1>4 DEF Waiting, Punctual, Passes, TypeOK
  <1>9. q \in Nat /\ Turn \in Nat /\ Turn = every + MaxLate
    BY <1>4, Turns DEF Turn
  <1>10. \A l \in Keys : l # k /\ limiters[l] # NoBucket =>
           limiters[l] \in Buckets /\ heap'[limiters[l]] = heap[limiters[l]]
    BY <1>4, <1>5 DEF Waiting, OneEach, TypeOK
  <1>11. heap'[b] = r
    BY <1>4, <1>5 DEF TypeOK
  <1>12. Attached'
    BY <1>1, <1>3, <1>5 DEF Attached, Passes, TypeOK
  <1>13. k # Watched => Credit' = Credit
    BY <1>2, <1>5, <1>10 DEF Credit
  <1>14. k = Watched => Credit = v
    BY <1>4, <1>5 DEF Credit
  <1>15. r.tokens \in Nat /\ (r.tokens <= FullBucket => Tokens(r, now) = r.tokens)
    BY <1>2, <1>5 DEF Tokens, Bucket
  <1>16. k = Watched => Credit' = Tokens(r, now)
    BY <1>2, <1>4, <1>5, <1>11 DEF Credit
  <1> HIDE DEF b, q
  <1>17. CASE every <= v
    <2>1. /\ r.tokens = v - every
          /\ key' = [key EXCEPT ![c] = NoKey] /\ due' = [due EXCEPT ![c] = 0]
          /\ Granted(k)
      BY <1>0, <1>1, <1>2, <1>17 DEF Passes
    <2>2. Spare(k)' = q + Turn /\ \A l \in Keys : l # k => Spare(l)' = Spare(l)
      BY <1>0, <1>2, <2>1, Leaves DEF q
    <2>3. now - (v - every) <= lastAccess[k] + (q + Turn)
      BY <1>2, <1>6, <1>7, <1>8, <1>9
    <2>4. \A d \in Callers, l \in Keys : key'[d] = l => key[d] = l /\ due'[d] = due[d] /\ due[d] \in Nat
      BY <2>1 DEF TypeOK
    <2>5. ASSUME NEW l \in Keys PROVE Timely(l)'
      <3>1. CASE l = k
        <4>1. \A d \in Callers : key[d] = k => due[d] <= lastAccess[k] + q + every
          BY <1>3, <1>4 DEF Timely, q, b
        <4>2. \A d \in Callers : key'[d] = k => due'[d] <= lastAccess[k] + (q + Turn) + every
          <5> SUFFICES ASSUME NEW d \in Callers, key'[d] = k
                       PROVE  due'[d] <= lastAccess[k] + (q + Turn) + every
            OBVIOUS
          <5>1. due'[d] = due[d] /\ due[d] \in Nat /\ due[d] <= lastAccess[k] + q + every
            BY <2>4, <4>1
          <5> QED BY <1>2, <1>8, <1>9, <5>1
        <4> QED BY <1>2, <1>5, <1>11, <2>1, <2>2, <2>3, <3>1, <4>2 DEF Timely, b
      <3>2. CASE l # k
        BY <1>2, <1>3, <1>5, <1>10, <2>2, <2>4, <3>2 DEF Timely
      <3> QED BY <3>1, <3>2
    <2>6. Metered'
      <3>1. CASE k = Watched
        <4>1. granted' = granted + 1 /\ granted \in Nat
          BY <2>1, <3>1 DEF Granted, TypeOK
        <4>2. (granted + 1) * every = granted * every + every /\ granted * every \in Nat
          BY <1>2, <4>1, OneMore
        <4>3. Credit' = v - every
          BY <1>2, <1>6, <1>15, <1>16, <2>1, <3>1
        <4>4. mark \in Nat
          BY DEF TypeOK
        <4> DEFINE g == granted * every
        <4>5. g + v <= FullBucket + (now - mark)
          BY <1>3, <1>14, <3>1 DEF Metered
        <4>6. granted' * every' = g + every
          BY <1>2, <4>1, <4>2
        <4> HIDE DEF g
        <4>7. g \in Nat
          BY <4>2 DEF g
        <4> QED BY <1>2, <1>5, <4>3, <4>4, <4>5, <4>6, <4>7 DEF Metered
      <3>2. CASE k # Watched
        BY <1>2, <1>3, <1>5, <1>13, <2>1, <3>2 DEF Metered, Granted
      <3> QED BY <3>1, <3>2
    <2> QED BY <1>12, <2>5, <2>6
  <1>18. CASE v < every
    <2>1. /\ r.tokens = v /\ due' = [due EXCEPT ![c] = now + (every - v)]
          /\ UNCHANGED <<granted, held, key>>
      BY <1>1, <1>2, <1>18 DEF Passes
    <2>2. \A l \in Keys : Spare(l)' = Spare(l)
      BY <1>2, <2>1, Stays
    <2>3. now - v <= lastAccess[k] + q
      BY <1>2, <1>6, <1>7, <1>18
    <2>4. now + (every - v) <= lastAccess[k] + q + every
      BY <1>2, <1>8, <1>9, <2>3
    <2>5. ASSUME NEW l \in Keys PROVE Timely(l)'
      <3>1. CASE l = k
        <4>1. \A d \in Callers : key[d] = k => due'[d] <= lastAccess[k] + q + every
          BY <1>3, <1>4, <2>1, <2>4 DEF Timely, q, b, TypeOK
        <4> QED BY <1>2, <1>4, <1>5, <1>11, <2>1, <2>2, <2>3, <3>1, <4>1 DEF Timely, b, q
      <3>2. CASE l # k
        <4>1. \A d \in Callers : key'[d] = l => key[d] = l /\ due'[d] = due[d]
          BY <1>0, <2>1, <3>2 DEF TypeOK
        <4> QED BY <1>2, <1>3, <1>5, <1>10, <2>2, <3>2, <4>1 DEF Timely
      <3> QED BY <3>1, <3>2
    <2>6. Credit' = Credit
      BY <1>2, <1>6, <1>13, <1>14, <1>15, <1>16, <2>1
    <2> QED BY <1>2, <1>3, <1>5, <1>12, <2>1, <2>5, <2>6 DEF Metered
  <1> QED BY <1>2, <1>17, <1>18

\* A sweep keeps Paced: the buckets it removes are full and nobody waits for them.
LEMMA PacedSweep ==
    ASSUME TypeOK, Alike, Waiting, Paced, Long, Sweep
    PROVE  Attached' /\ (\A l \in Keys : Timely(l)') /\ Metered'
  <1> USE Sizes
  <1>1. /\ UNCHANGED <<now, every, heap, lastAccess, callerVars, history>>
        /\ tick \in Nat /\ tick <= now
        /\ limiters' = [k \in Keys |-> IF tick - lastAccess[k] > IdleTTL
                                       THEN NoBucket ELSE limiters[k]]
    BY DEF Sweep, evictIdle, TypeOK
  <1>2. /\ every \in Nat /\ FullBucket \in Nat /\ now \in Nat /\ every <= FullBucket
        /\ every' = every /\ FullBucket' = FullBucket /\ mark \in Nat /\ granted \in Nat
    BY FullIs, <1>1 DEF TypeOK, FullBucket
  <1>3. Attached /\ (\A l \in Keys : Timely(l)) /\ Metered
    BY DEF Paced
  <1> DEFINE all == Cardinality(Callers) * Turn
  <1>4. FullBucket + all <= IdleTTL + 1
    BY DEF Long
  <1>5. \A k \in Keys : /\ Spare(k) \in Nat /\ Spare(k) <= all /\ all \in Nat /\ Turn \in Nat
                        /\ \A c \in Callers : key[c] = k => Spare(k) + Turn <= all
    BY Turns
  <1> HIDE DEF all
  <1>6. ASSUME NEW k \in Keys, tick - lastAccess[k] > IdleTTL, NEW c \in Callers, key[c] = k
        PROVE  FALSE
    <2>1. limiters[k] # NoBucket /\ pc[c] # "idle"
      BY <1>3, <1>6 DEF Attached, TypeOK
    <2>2. due[c] <= lastAccess[k] + Spare(k) + every
      BY <1>3, <1>6, <2>1 DEF Timely
    <2>3. now <= due[c] + MaxLate /\ due[c] \in Nat /\ lastAccess[k] \in Nat
      BY <1>2, <2>1 DEF Waiting, Punctual, TypeOK
    <2>4. Spare(k) + Turn <= all /\ Spare(k) \in Nat /\ all \in Nat /\ Turn = every + MaxLate
      BY <1>5, <1>6 DEF Turn
    <2>5. now <= lastAccess[k] + all
      BY <1>2, <2>2, <2>3, <2>4
    <2>6. FullBucket = 0
      BY <1>1, <1>2, <1>4, <1>6, <2>3, <2>4, <2>5
    <2>7. every = 0
      BY <1>2, <2>6
    <2> QED BY <2>1, <2>7 DEF Waiting, Unlimited
  <1>7. Attached'
    BY <1>1, <1>3, <1>6 DEF Attached, callerVars, TypeOK
  <1>8. \A l \in Keys : Timely(l)'
    <2>1. \A l \in Keys : Spare(l)' = Spare(l)
      BY <1>1, Stays DEF callerVars
    <2>2. \A l \in Keys : limiters'[l] # NoBucket => limiters'[l] = limiters[l]
      BY <1>1
    <2> QED BY <1>1, <1>3, <2>1, <2>2 DEF Timely, callerVars
  <1>9. Credit' <= Credit
    <2>1. CASE limiters'[Watched] = limiters[Watched]
      <3>1. Credit' = Credit
        BY <1>1, <1>2, <2>1 DEF Credit
      <3>2. Credit \in Nat
        BY <1>2, TokensIs DEF Credit, TypeOK
      <3> QED BY <3>1, <3>2
    <2>2. CASE limiters[Watched] # NoBucket /\ tick - lastAccess[Watched] > IdleTTL
      <3> DEFINE b == limiters[Watched]
                 v == Tokens(heap[b], now)
      <3>1. b \in Buckets
        BY <2>2 DEF TypeOK
      <3>2. /\ v \in Nat /\ v <= FullBucket
            /\ heap[b].last \in Nat /\ heap[b].tokens \in Nat
            /\ v < FullBucket => now - v = heap[b].last - heap[b].tokens
        BY <1>2, <3>1, TokensIs
      <3>3. heap[b].last - heap[b].tokens <= lastAccess[Watched] + Spare(Watched)
        BY <1>3, <2>2 DEF Timely
      <3>4. Spare(Watched) \in Nat /\ Spare(Watched) <= all /\ all \in Nat
            /\ lastAccess[Watched] \in Nat
        BY <1>5 DEF TypeOK
      <3>5. Credit = v
        BY <2>2 DEF Credit
      <3> HIDE DEF v, b
      <3>6. v = FullBucket
        BY <1>1, <1>2, <1>4, <2>2, <3>2, <3>3, <3>4
      <3>7. Credit' = FullBucket
        BY <1>1, <1>2, <2>2 DEF Credit
      <3> QED BY <1>2, <3>5, <3>6, <3>7
    <2> QED BY <1>1, <2>1, <2>2
  <1>10. Credit \in Nat /\ Credit' \in Nat /\ granted * every \in Nat
    <2>1. Credit \in Nat
      BY <1>2, TokensIs DEF Credit, TypeOK
    <2>2. Credit' \in {Credit, FullBucket}
      BY <1>1, <1>2 DEF Credit
    <2> QED BY <1>2, <2>1, <2>2, OneMore
  <1>11. Metered'
    <2>1. granted' * every' = granted * every /\ now' = now /\ mark' = mark
      BY <1>1, <1>2 DEF history
    <2> QED BY <1>2, <1>3, <1>9, <1>10, <2>1 DEF Metered
  <1> QED BY <1>7, <1>8, <1>11

\* The other steps keep Paced.
LEMMA PacedStep ==
    ASSUME TypeOK, Alike, Waiting, Paced, [Next]_vars
    PROVE  Paced'
  <1> USE Sizes
  <1>0. TypeOK' /\ Alike'
    BY TypeStep
  <1>1. every' = every
    BY DEF Next, vars, Wait, WaitKey, Acquire, Wake, Abandon, Cancel, TickerFires, Sweep,
           SweepExits, Stop, Tick, OpenWindow
  <1>2. every \in Nat /\ FullBucket \in Nat /\ now \in Nat /\ FullBucket' = FullBucket
    BY <1>1, FullIs DEF FullBucket, TypeOK
  <1>3. Long' <=> Long
    BY <1>1, <1>2 DEF Long, Turn
  <1> SUFFICES ASSUME Long PROVE Attached' /\ (\A l \in Keys : Timely(l)') /\ Metered'
    BY <1>3 DEF Paced
  <1>4. Attached /\ (\A l \in Keys : Timely(l)) /\ Metered
    BY DEF Paced
  <1>5. ASSUME UNCHANGED <<heap, limiters, lastAccess, key, held, due>>
        PROVE  Attached' /\ \A l \in Keys : Timely(l)'
    <2>1. \A l \in Keys : Spare(l)' = Spare(l)
      BY <1>1, <1>5, Stays
    <2> QED BY <1>1, <1>4, <1>5, <2>1 DEF Attached, Timely
  <1>6. ASSUME UNCHANGED <<now, heap, limiters, history>> PROVE Metered'
    BY <1>1, <1>2, <1>4, <1>6 DEF Metered, Credit, history
  <1>7. ASSUME NEW c \in Callers, Wake(c) \/ Cancel(c)
        PROVE  Attached' /\ (\A l \in Keys : Timely(l)') /\ Metered'
    BY <1>5, <1>6, <1>7 DEF Wake, Cancel
  <1>8. CASE TickerFires \/ SweepExits \/ Stop \/ UNCHANGED vars
    BY <1>5, <1>6, <1>8 DEF TickerFires, SweepExits, Stop, vars, callerVars
  <1>9. ASSUME NEW c \in Callers, Abandon(c)
        PROVE  Attached' /\ (\A l \in Keys : Timely(l)') /\ Metered'
    <2>0. PICK k \in Keys : k = key[c]
      BY <1>9 DEF Abandon, TypeOK
    <2>1. /\ UNCHANGED <<now, heap, limiters, lastAccess, history>>
          /\ due' = [due EXCEPT ![c] = 0]
          /\ held' = [held EXCEPT ![c] = NoBucket] /\ key' = [key EXCEPT ![c] = NoKey]
      BY <1>9 DEF Abandon
    <2>2. Spare(k)' = Spare(k) + Turn /\ \A l \in Keys : l # k => Spare(l)' = Spare(l)
      BY <1>1, <2>0, <2>1, Leaves
    <2>3. \A l \in Keys : Spare(l) \in Nat /\ Spare(l)' \in Nat /\ Spare(l) <= Spare(l)'
      BY <2>2, Turns
    <2>4. ASSUME NEW d \in Callers, key'[d] # NoKey
          PROVE  key'[d] = key[d] /\ due'[d] = due[d] /\ held'[d] = held[d] /\ due[d] \in Nat
      BY <2>1, <2>4 DEF TypeOK
    <2>5. Attached'
      BY <1>4, <2>1, <2>4 DEF Attached
    <2>6. ASSUME NEW l \in Keys, limiters[l] # NoBucket PROVE Timely(l)'
      <3> DEFINE b == heap[limiters[l]]
                 q == Spare(l)
                 p == Spare(l)'
      <3>1. b.last \in Nat /\ b.tokens \in Nat /\ lastAccess[l] \in Nat
        BY <2>6 DEF TypeOK, Bucket
      <3>2. b.last - b.tokens <= lastAccess[l] + q
        BY <1>4, <2>6 DEF Timely
      <3>3. q \in Nat /\ p \in Nat /\ q <= p
        BY <2>3
      <3>4. ASSUME NEW d \in Callers, key'[d] = l PROVE due'[d] <= lastAccess[l] + p + every
        <4>1. key[d] = l /\ due'[d] = due[d] /\ due[d] \in Nat
          BY <2>4, <3>4
        <4>2. due[d] <= lastAccess[l] + q + every
          BY <1>4, <2>6, <4>1 DEF Timely
        <4> HIDE DEF q, p
        <4> QED BY <1>2, <3>1, <3>3, <4>1, <4>2
      <3>5. b.last - b.tokens <= lastAccess[l] + p
        <4> HIDE DEF b, q, p
        <4> QED BY <3>1, <3>2, <3>3
      <3> QED BY <1>1, <2>1, <3>4, <3>5 DEF Timely
    <2>7. \A l \in Keys : limiters[l] = NoBucket => Timely(l)'
      BY <2>1 DEF Timely
    <2> QED BY <1>6, <2>1, <2>5, <2>6, <2>7
  <1>10. CASE Tick
    <2>1. now' = now + 1 /\ UNCHANGED <<heap, limiters, lastAccess, callerVars, history>>
      BY <1>10 DEF Tick
    <2>2. Credit \in Nat /\ Credit' \in Nat /\ Credit' <= Credit + 1
      <3>1. CASE limiters[Watched] = NoBucket
        BY <1>2, <2>1, <3>1 DEF Credit
      <3>2. CASE limiters[Watched] # NoBucket
        <4>1. limiters[Watched] \in Buckets
          BY <3>2 DEF TypeOK
        <4> DEFINE b == heap[limiters[Watched]]
        <4>2. /\ b.tokens \in Nat /\ b.last \in Nat /\ b.last <= now
              /\ Full(b) = FullBucket
          BY <4>1 DEF TypeOK, Alike, Bucket
        <4>3. Credit = Tokens(b, now) /\ Credit' = Tokens(b, now + 1)
          BY <2>1, <3>2 DEF Credit
        <4> QED BY <1>2, <4>2, <4>3 DEF Tokens
      <3> QED BY <3>1, <3>2
    <2>3. granted * every \in Nat /\ granted' * every' = granted * every /\ mark \in Nat /\ mark' = mark
      BY <1>1, <1>2, <2>1, OneMore DEF TypeOK, history
    <2>4. Metered'
      BY <1>2, <1>4, <2>1, <2>2, <2>3 DEF Metered
    <2> QED BY <1>5, <2>1, <2>4 DEF callerVars
  <1>11. CASE OpenWindow
    <2>1. /\ granted' = 0 /\ mark' = now
          /\ UNCHANGED <<now, heap, limiters, lastAccess, callerVars>>
      BY <1>11 DEF OpenWindow
    <2>2. Credit' = Credit /\ Credit \in Nat /\ Credit <= FullBucket
      BY <1>2, <2>1, TokensIs DEF Credit, TypeOK
    <2>3. Metered'
      BY <1>1, <1>2, <2>1, <2>2 DEF Metered
    <2> QED BY <1>5, <2>1, <2>3 DEF callerVars
  <1> QED BY <1>0, <1>7, <1>8, <1>9, <1>10, <1>11, PacedWait, PacedAcquire, PacedSweep DEF Next

\* For every period, burst, number of callers and lateness: if idleTTL covers the
\* callers' turns and a full bucket, no interleaving of WaitKey, the sweeper and
\* the sleepers takes a bucket from a caller that waits on it, and a key's grants
\* in any window stay within every / burst across the evictions of its bucket.
\* Nothing is said of a shorter idleTTL, with which the key may get two buckets.
THEOREM PerKeyRateHolds == Spec => []PerKeyRate
  <1>1. Init => Waiting /\ Paced
    <2> SUFFICES ASSUME Init PROVE Waiting /\ Paced
      OBVIOUS
    <2>1. every \in Nat /\ FullBucket \in Nat
      <3>1. every \in Nat
        BY Sizes DEF Init
      <3> QED BY <3>1, NewBucketIs
    <2>2. Waiting
      BY DEF Init, Waiting, OneEach, Unlimited, Punctual
    <2>3. Credit = FullBucket
      BY Sizes DEF Init, Credit
    <2>4. Metered
      BY <2>1, <2>3 DEF Init, Metered
    <2>5. Attached /\ \A k \in Keys : Timely(k)
      BY DEF Init, Attached, Timely
    <2> QED BY <2>2, <2>4, <2>5 DEF Paced
  <1>2. TypeOK /\ Alike /\ Paced => PerKeyRate
    <2> SUFFICES ASSUME TypeOK, Alike, Paced, Long
                 PROVE  /\ \A c \in Callers : pc[c] # "idle" => held[c] = limiters[key[c]]
                        /\ granted * every <= FullBucket + (now - mark)
      BY DEF PerKeyRate, FullBucket, Long, Turn
    <2>0. \A c \in Callers : pc[c] # "idle" => held[c] = limiters[key[c]]
      BY DEF Paced, Attached, TypeOK
    <2>1. Credit \in Nat
      BY FullIs, TokensIs, Sizes DEF Credit, TypeOK
    <2>2. granted * every \in Nat /\ FullBucket \in Nat /\ now \in Nat /\ mark \in Nat
      BY FullIs, OneMore DEF TypeOK
    <2> QED BY <2>0, <2>1, <2>2 DEF Paced, Metered
  <1> QED BY <1>1, <1>2, KeyedTypeCorrect, WaitingStep, PacedStep, PTL DEF Spec

-----------------------------------------------------------------------------
(* The sweeper. *)

\* The ticker is on time, a tick waits MaxLate at most, and a key still in the
\* map was asked for within idleTTL of the last sweep.
Ticking ==
    sweeper = "running" =>
        LET fired == nextTick - Interval IN
        /\ IdleTTL > 0
        /\ now <= nextTick /\ fired <= now
        /\ tick # NoTick => tick <= fired /\ now <= tick + MaxLate
        /\ \A k \in Keys : limiters[k] # NoBucket =>
             IF tick = NoTick THEN fired <= lastAccess[k] + IdleTTL + MaxLate
             ELSE tick <= lastAccess[k] + IdleTTL + MaxLate + Interval

\* Every step keeps Ticking.
LEMMA TickingStep ==
    ASSUME TypeOK, Ticking, [Next]_vars
    PROVE  Ticking'
  <1> USE Sizes
  <1> SUFFICES ASSUME sweeper' = "running" PROVE Ticking'
    BY DEF Ticking
  <1>1. sweeper = "running"
    BY DEF Next, vars, Wait, WaitKey, Acquire, Wake, Abandon, Cancel, TickerFires, Sweep,
           SweepExits, Stop, Tick, OpenWindow, sweepVars
  <1>2. now \in Nat /\ nextTick \in Nat /\ Interval \in Nat /\ lastAccess \in [Keys -> 0..now]
    BY DEF TypeOK
  <1>3. /\ IdleTTL > 0
        /\ now <= nextTick /\ nextTick - Interval <= now
        /\ tick # NoTick => tick <= nextTick - Interval /\ now <= tick + MaxLate
        /\ \A k \in Keys : limiters[k] # NoBucket =>
             IF tick = NoTick THEN nextTick - Interval <= lastAccess[k] + IdleTTL + MaxLate
             ELSE tick <= lastAccess[k] + IdleTTL + MaxLate + Interval
    BY <1>1 DEF Ticking
  <1>4. ASSUME UNCHANGED <<now, limiters, lastAccess, nextTick, tick>> PROVE Ticking'
    BY <1>3, <1>4 DEF Ticking
  <1>5. ASSUME NEW c \in Callers, NEW x \in Keys \cup {NoKey}, Wait(c, x) PROVE Ticking'
    <2>1. PICK k \in Keys, b \in Buckets : Asks(c, k, b)
      BY <1>5, WaitIs
    <2>2. now' = now /\ nextTick' = nextTick /\ tick' = tick /\ lastAccess'[k] = now
      BY <2>1 DEF Asks, sweepVars, TypeOK
    <2>3. \A l \in Keys : l # k => limiters'[l] = limiters[l] /\ lastAccess'[l] = lastAccess[l]
      BY <2>1 DEF Asks, TypeOK
    <2>4. IF tick = NoTick THEN nextTick - Interval <= now + IdleTTL + MaxLate
          ELSE tick <= now + IdleTTL + MaxLate + Interval
      BY <1>2, <1>3 DEF TypeOK
    <2> QED BY <1>3, <2>2, <2>3, <2>4 DEF Ticking
  <1>6. ASSUME NEW c \in Callers, Acquire(c) \/ Wake(c) \/ Abandon(c) \/ Cancel(c)
        PROVE  Ticking'
    BY <1>4, <1>6 DEF Acquire, Wake, Abandon, Cancel, sweepVars
  <1>7. CASE TickerFires
    <2>1. /\ UNCHANGED <<now, limiters, lastAccess>> /\ now = nextTick
          /\ nextTick' = nextTick + Interval
          /\ tick' = IF tick = NoTick THEN now ELSE tick
      BY <1>2, <1>3, <1>7 DEF TickerFires
    <2>2. tick' # NoTick /\ nextTick' - Interval = now
      BY <1>2, <2>1
    <2>3. CASE tick = NoTick
      <3>1. tick' = now
        BY <2>1, <2>3
      <3>2. \A k \in Keys : limiters[k] # NoBucket => now <= lastAccess[k] + IdleTTL + MaxLate + Interval
        BY <1>2, <1>3, <2>1, <2>3
      <3> QED BY <1>2, <1>3, <2>1, <2>2, <3>1, <3>2 DEF Ticking
    <2>4. CASE tick # NoTick
      <3>1. tick' = tick /\ tick \in Nat /\ tick <= now
        BY <2>1, <2>4 DEF TypeOK
      <3> QED BY <1>2, <1>3, <2>1, <2>2, <2>4, <3>1 DEF Ticking
    <2> QED BY <2>3, <2>4
  <1>8. CASE Sweep
    <2>1. /\ UNCHANGED <<now, lastAccess, nextTick>> /\ tick \in Nat /\ tick' = NoTick
          /\ tick # NoTick
      BY <1>8 DEF Sweep, TypeOK
    <2>2. \A k \in Keys : limiters'[k] # NoBucket => ~(tick - lastAccess[k] > IdleTTL)
      BY <1>8 DEF Sweep, evictIdle
    <2>3. \A k \in Keys : limiters'[k] # NoBucket =>
            nextTick - Interval <= lastAccess[k] + IdleTTL + MaxLate
      BY <1>2, <1>3, <2>1, <2>2
    <2> QED BY <1>3, <2>1, <2>3 DEF Ticking
  <1>9. CASE SweepExits
    BY <1>9 DEF SweepExits
  <1>10. CASE Tick
    <2>1. /\ now' = now + 1 /\ UNCHANGED <<limiters, lastAccess, nextTick, tick>>
          /\ now < nextTick /\ (tick # NoTick => now < tick + MaxLate)
      BY <1>1, <1>10 DEF Tick, sweepVars
    <2> QED BY <1>2, <1>3, <2>1 DEF Ticking, TypeOK
  <1>11. CASE Stop \/ OpenWindow \/ UNCHANGED vars
    BY <1>4, <1>11 DEF Stop, OpenWindow, vars, sweepVars
  <1> QED BY <1>5, <1>6, <1>7, <1>8, <1>9, <1>10, <1>11 DEF Next

\* For every idleTTL, interval and lateness: while the sweeper runs, a key leaves
\* the map within idleTTL and an interval of its last access, and what the
\* sweeper is late, twice.
THEOREM IdleBoundHolds == Spec => []IdleBound
  <1>1. Init => Ticking
    BY Sizes DEF Init, Ticking
  <1>2. TypeOK /\ Ticking => IdleBound
    <2> SUFFICES ASSUME TypeOK, Ticking, sweeper = "running",
                        NEW k \in Keys, limiters[k] # NoBucket
                 PROVE  now - lastAccess[k] <= IdleTTL + Interval + 2 * MaxLate
      BY DEF IdleBound
    <2>1. now \in Nat /\ nextTick \in Nat /\ lastAccess[k] \in Nat /\ tick \in Nat \cup {NoTick}
      BY DEF TypeOK
    <2>2. CASE tick = NoTick
      BY <2>1, <2>2, Sizes DEF Ticking
    <2>3. CASE tick # NoTick
      BY <2>1, <2>3, Sizes DEF Ticking
    <2> QED BY <2>2, <2>3
  <1> QED BY <1>1, <1>2, KeyedTypeCorrect, TickingStep, PTL DEF Spec
=============================================================================
