--------------------------- MODULE LimiterProofs ---------------------------
(***************************************************************************)
(* Type correctness, the rate bound and the wake-up bound of Limiter, for  *)
(* every set of callers, every period and burst and every bound.           *)
(***************************************************************************)
EXTENDS Limiter, TLAPS

-----------------------------------------------------------------------------
(* The operators of TokenBucket. *)

\* A product of naturals is a natural.
LEMMA ProductNat ==
    ASSUME NEW m \in Nat, NEW n \in Nat
    PROVE  m * n \in Nat
  OBVIOUS

\* One more grant costs one more period.
LEMMA OneMore ==
    ASSUME NEW m \in Nat, NEW n \in Nat
    PROVE  (m + 1) * n = m * n + n
  OBVIOUS

\* A bucket holds at least one token's worth when it is full.
LEMMA FullHoldsOne ==
    ASSUME NEW b \in Bucket(Nat)
    PROVE  /\ Full(b) \in Nat
           /\ b.every <= Full(b)
  <1> DEFINE n == b.burst - 1
  <1>1. b.burst \in Nat \ {0} /\ b.every \in Nat
    BY DEF Bucket
  <1>2. n \in Nat /\ b.burst = n + 1
    BY <1>1
  <1>3. (n + 1) * b.every = n * b.every + b.every
    BY <1>1, <1>2, OneMore
  <1>4. n * b.every \in Nat
    BY <1>1, <1>2, ProductNat
  <1> HIDE DEF n
  <1> QED
    BY <1>1, <1>2, <1>3, <1>4 DEF Full

\* Refill (the clamp included) keeps a bucket a bucket, never above burst.
LEMMA RefillType ==
    ASSUME NEW b \in Bucket(Nat), b.tokens <= Full(b),
           NEW t \in Nat, b.last <= t
    PROVE  /\ Refill(b, t) \in Bucket(Nat)
           /\ Refill(b, t).every = b.every
           /\ Refill(b, t).burst = b.burst
           /\ Refill(b, t).last = t
           /\ Full(Refill(b, t)) = Full(b)
           /\ Refill(b, t).tokens =
                IF b.tokens + (t - b.last) > Full(b)
                THEN Full(b) ELSE b.tokens + (t - b.last)
           /\ Refill(b, t).tokens <= Full(b)
  <1> DEFINE credit == b.tokens + (t - b.last)
             r == Refill(b, t)
             v == IF credit > Full(b) THEN Full(b) ELSE credit
  <1>1. Full(b) \in Nat
    BY FullHoldsOne
  <1>2. b.tokens \in Nat /\ b.last \in Nat /\ b = [every |-> b.every,
            burst |-> b.burst, tokens |-> b.tokens, last |-> b.last]
    BY DEF Bucket
  <1>3. v \in Nat /\ v <= Full(b)
    BY <1>1, <1>2
  <1>4. r = [b EXCEPT !.tokens = v, !.last = t]
    BY DEF Refill
  <1> HIDE DEF v, r
  <1>5. /\ r \in Bucket(Nat)
        /\ r.every = b.every
        /\ r.burst = b.burst
        /\ r.last = t
        /\ r.tokens = v
    BY <1>3, <1>4 DEF Bucket
  <1>6. Full(r) = Full(b)
    BY <1>5 DEF Full
  <1> QED
    BY <1>3, <1>5, <1>6 DEF r, v

\* Take removes exactly one token.
LEMMA TakeType ==
    ASSUME NEW b \in Bucket(Nat), b.tokens <= Full(b), HasToken(b)
    PROVE  /\ Take(b) \in Bucket(Nat)
           /\ Take(b).every = b.every
           /\ Take(b).burst = b.burst
           /\ Take(b).last = b.last
           /\ Full(Take(b)) = Full(b)
           /\ Take(b).tokens = b.tokens - b.every
           /\ Take(b).tokens <= Full(b)
  <1>1. Full(b) \in Nat
    BY FullHoldsOne
  <1> QED
    BY <1>1 DEF Bucket, Take, Full, HasToken

\* NewLimiter builds a full bucket with a positive burst.
LEMMA NewLimiterType ==
    ASSUME NEW e \in Nat, NEW b \in Int, NEW t \in Nat
    PROVE  /\ NewLimiter(e, b, t) \in Bucket(Nat)
           /\ NewLimiter(e, b, t).tokens = Full(NewLimiter(e, b, t))
           /\ NewLimiter(e, b, t).last = t
  <1> DEFINE n == IF b < 1 THEN 1 ELSE b
  <1>1. n \in Nat \ {0} /\ n \in Nat
    OBVIOUS
  <1>2. n * e \in Nat
    BY <1>1, ProductNat
  <1>3. NewLimiter(e, b, t) = [every |-> e, burst |-> n, tokens |-> n * e, last |-> t]
    BY DEF NewLimiter
  <1> HIDE DEF n
  <1> QED
    BY <1>1, <1>2, <1>3 DEF Bucket, Full

-----------------------------------------------------------------------------
(* Type correctness. *)

\* The bucket a caller sees after the refill of its pass through Acquire.
LEMMA RefillNow ==
    ASSUME TypeOK
    PROVE  LET b == Refill(lim, now) IN
           /\ b \in Bucket(Nat)
           /\ b.every = lim.every
           /\ b.last = now
           /\ Full(b) = Full(lim)
           /\ b.tokens = Available
           /\ b.tokens <= Full(b)
  <1>1. /\ lim \in Bucket(Nat)
        /\ lim.tokens <= Full(lim)
        /\ lim.last <= now
        /\ now \in Nat
    BY DEF TypeOK
  <1> QED
    BY <1>1, RefillType DEF Available

\* The type invariant of Limiter, which includes that the bucket of
\* ratelimit.go never holds more than burst tokens.
THEOREM TypeCorrect == Spec => []TypeOK
  <1>1. Init => TypeOK
    <2> SUFFICES ASSUME Init PROVE TypeOK
      OBVIOUS
    <2>1. PICK e \in Everys, b \in Bursts : lim = NewLimiter(e, b, 0)
      BY DEF Init
    <2>2. e \in Nat /\ b \in Int
      BY LimiterAssumption
    <2>3. lim \in Bucket(Nat) /\ lim.tokens = Full(lim) /\ lim.last = 0
      BY <2>1, <2>2, NewLimiterType
    <2>4. Full(lim) \in Nat
      BY <2>3, FullHoldsOne
    <2> QED
      BY <2>3, <2>4 DEF Init, TypeOK
  <1>2. TypeOK /\ [Next]_vars => TypeOK'
    <2> SUFFICES ASSUME TypeOK, [Next]_vars PROVE TypeOK'
      OBVIOUS
    <2> USE DEF TypeOK
    <2>1. ASSUME NEW c \in Callers, Enter(c) PROVE TypeOK'
      BY <2>1 DEF Enter
    <2>2. ASSUME NEW c \in Callers, Acquire(c) PROVE TypeOK'
      <3> DEFINE b == Refill(lim, now)
      <3>1. /\ b \in Bucket(Nat)
            /\ b.last = now
            /\ Full(b) = Full(lim)
            /\ b.tokens <= Full(b)
        BY RefillNow
      <3>2. CASE HasToken(b) /\ lim' = Take(b)
        <4>1. /\ lim' \in Bucket(Nat)
              /\ lim'.last = now
              /\ lim'.tokens <= Full(lim')
          BY <3>1, <3>2, TakeType
        <4> HIDE DEF b
        <4> QED
          BY <2>2, <3>2, <4>1 DEF Acquire, b
      <3>3. CASE ~HasToken(b) /\ lim' = b
        <4>1. Need(b) \in Nat
          BY <3>1, <3>3 DEF Need, HasToken, Bucket
        <4>2. b.tokens <= Full(b) /\ b.last <= now
          BY <3>1
        <4> HIDE DEF b
        <4> QED
          BY <2>2, <3>1, <3>3, <4>1, <4>2 DEF Acquire, b
      <3> QED
        BY <2>2, <3>2, <3>3 DEF Acquire
    <2>3. ASSUME NEW c \in Callers, Wake(c) PROVE TypeOK'
      BY <2>3 DEF Wake
    <2>4. ASSUME NEW c \in Callers, Abandon(c) PROVE TypeOK'
      BY <2>4 DEF Abandon
    <2>5. ASSUME NEW c \in Callers, Cancel(c) PROVE TypeOK'
      BY <2>5 DEF Cancel
    <2>6. CASE Tick
      <3>1. lim' = lim /\ lim.last \in Nat
        BY <2>6 DEF Tick, Bucket
      <3> QED
        BY <2>6, <3>1 DEF Tick
    <2>7. CASE OpenWindow
      BY <2>7 DEF OpenWindow
    <2>8. CASE UNCHANGED vars
      BY <2>8 DEF vars
    <2> QED
      BY <2>1, <2>2, <2>3, <2>4, <2>5, <2>6, <2>7, <2>8 DEF Next, Wait
  <1> QED
    BY <1>1, <1>2, PTL DEF Spec

-----------------------------------------------------------------------------
(* The rate bound. *)

\* A step that leaves the bucket, the clock and the history alone keeps the
\* allowance.
LEMMA AllowanceFrame ==
    ASSUME Allowance, UNCHANGED <<now, lim, mark, granted>>
    PROVE  Allowance'
  BY DEF Allowance, Available, Full

\* Grants plus what the bucket could hand out now never exceed the allowance of
\* the window: the inductive strengthening of RateBound.
THEOREM AllowanceHolds == Spec => []Allowance
  <1>1. Init => Allowance
    <2> SUFFICES ASSUME Init PROVE Allowance
      OBVIOUS
    <2>1. PICK e \in Everys, b \in Bursts : lim = NewLimiter(e, b, 0)
      BY DEF Init
    <2>2. e \in Nat /\ b \in Int
      BY LimiterAssumption
    <2>3. lim \in Bucket(Nat) /\ lim.tokens = Full(lim) /\ lim.last = 0
      BY <2>1, <2>2, NewLimiterType
    <2>4. Full(lim) \in Nat /\ lim.every \in Nat
      BY <2>3, FullHoldsOne DEF Bucket
    <2> QED
      BY <2>3, <2>4 DEF Init, Allowance, Available
  <1>2. TypeOK /\ Allowance /\ [Next]_vars => Allowance'
    <2> SUFFICES ASSUME TypeOK, Allowance, [Next]_vars PROVE Allowance'
      OBVIOUS
    <2>1. /\ lim \in Bucket(Nat) /\ lim.every \in Nat /\ lim.tokens \in Nat
          /\ lim.last \in Nat /\ lim.last <= now /\ lim.tokens <= Full(lim)
          /\ now \in Nat /\ mark \in Nat /\ mark <= now /\ granted \in Nat
      BY DEF TypeOK, Bucket
    <2>2. /\ Full(lim) \in Nat
          /\ granted * lim.every \in Nat
          /\ (granted + 1) * lim.every = granted * lim.every + lim.every
      BY <2>1, FullHoldsOne, ProductNat, OneMore
    <2>3. ASSUME NEW c \in Callers, Enter(c) PROVE Allowance'
      <3>1. CASE UNCHANGED granted
        BY <2>3, <3>1, AllowanceFrame DEF Enter
      <3>2. CASE lim.every = 0 /\ granted' = granted + 1
        <4>1. lim' = lim /\ now' = now /\ mark' = mark
          BY <2>3 DEF Enter
        <4>2. granted' * lim'.every = granted * lim.every
          BY <2>1, <2>2, <3>2, <4>1
        <4> QED
          BY <4>1, <4>2 DEF Allowance, Available, Full
      <3> QED
        BY <2>3, <3>1, <3>2 DEF Enter
    <2>4. ASSUME NEW c \in Callers, Acquire(c) PROVE Allowance'
      <3> DEFINE b == Refill(lim, now)
      <3>1. /\ b \in Bucket(Nat) /\ b.every = lim.every /\ b.last = now
            /\ Full(b) = Full(lim) /\ b.tokens = Available
            /\ b.tokens <= Full(b)
        BY RefillNow
      <3>2. now' = now /\ mark' = mark
        BY <2>4 DEF Acquire
      <3>3. CASE HasToken(b) /\ lim' = Take(b) /\ granted' = granted + 1
        <4>1. /\ lim'.every = lim.every /\ lim'.last = now
              /\ Full(lim') = Full(lim)
              /\ lim'.tokens = Available - lim.every
              /\ lim'.tokens <= Full(lim)
              /\ lim'.tokens \in Nat
          BY <3>1, <3>3, TakeType DEF Bucket
        <4>2. Available' = Available - lim.every
          BY <2>1, <2>2, <3>2, <4>1 DEF Available, Full
        <4>3. granted' * lim'.every = granted * lim.every + lim.every
          BY <2>2, <3>3, <4>1
        <4>4. Full(lim)' = Full(lim)
          BY <4>1 DEF Full
        <4>5. Available \in Nat
          BY <3>1 DEF Bucket
        <4> QED
          BY <2>1, <2>2, <3>2, <4>2, <4>3, <4>4, <4>5 DEF Allowance
      <3>4. CASE lim' = b /\ granted' = granted
        <4>1. Available \in Nat /\ Available <= Full(lim)
          BY <3>1 DEF Bucket
        <4>2. Full(lim)' = Full(lim)
          BY <3>1, <3>4 DEF Full
        <4>3. lim'.tokens = Available /\ lim'.last = now /\ lim'.every = lim.every
          BY <3>1, <3>4
        <4>4. Available' = Available
          BY <2>1, <2>2, <3>2, <4>1, <4>2, <4>3 DEF Available, Full
        <4> QED
          BY <3>2, <3>4, <4>2, <4>3, <4>4 DEF Allowance
      <3> QED
        BY <2>4, <3>3, <3>4 DEF Acquire
    <2>5. ASSUME NEW c \in Callers, Wake(c) \/ Abandon(c) \/ Cancel(c)
          PROVE Allowance'
      BY <2>5, AllowanceFrame DEF Wake, Abandon, Cancel
    <2>6. CASE Tick
      <3>1. now' = now + 1 /\ UNCHANGED <<lim, mark, granted>>
        BY <2>6 DEF Tick
      <3>2. /\ Available \in Nat /\ Available' \in Nat
            /\ Available' <= Available + 1
        BY <2>1, <2>2, <3>1 DEF Available, Full
      <3>3. Full(lim)' = Full(lim)
        BY <3>1 DEF Full
      <3> QED
        BY <2>1, <2>2, <3>1, <3>2, <3>3 DEF Allowance
    <2>7. CASE OpenWindow
      <3>1. now' = now /\ mark' = now /\ granted' = 0 /\ lim' = lim
        BY <2>7 DEF OpenWindow
      <3>2. Available' <= Full(lim)' /\ Available' \in Nat /\ Full(lim)' \in Nat
        BY <2>1, <2>2, <3>1 DEF Available, Full
      <3> QED
        BY <2>1, <3>1, <3>2 DEF Allowance
    <2>8. CASE UNCHANGED vars
      BY <2>8, AllowanceFrame DEF vars
    <2> QED
      BY <2>3, <2>4, <2>5, <2>6, <2>7, <2>8 DEF Next, Wait
  <1> QED
    BY <1>1, <1>2, TypeCorrect, PTL DEF Spec

\* NewLimiter's promise, for any number of callers: no window sees more than
\* burst grants plus one per elapsed period.
THEOREM RateBoundHolds == Spec => []RateBound
  <1>1. TypeOK /\ Allowance => RateBound
    <2> SUFFICES ASSUME TypeOK, Allowance PROVE RateBound
      OBVIOUS
    <2>1. /\ lim \in Bucket(Nat) /\ lim.every \in Nat /\ lim.tokens \in Nat
          /\ lim.last \in Nat /\ lim.last <= now
          /\ now \in Nat /\ mark \in Nat /\ granted \in Nat
      BY DEF TypeOK, Bucket
    <2>2. Full(lim) \in Nat /\ granted * lim.every \in Nat
      BY <2>1, FullHoldsOne, ProductNat
    <2>3. Available \in Nat
      BY <2>1, <2>2 DEF Available
    <2> QED
      BY <2>1, <2>2, <2>3 DEF Allowance, RateBound
  <1> QED
    BY <1>1, TypeCorrect, AllowanceHolds, PTL

-----------------------------------------------------------------------------
(* Nobody oversleeps. *)

\* A sleeping caller's timer is due no later than the next whole token, for
\* every interleaving of the callers (the loop of Wait).
THEOREM NoOversleepHolds == Spec => []NoOversleep
  <1>1. Init => NoOversleep
    BY DEF Init, NoOversleep
  <1>2. TypeOK /\ NoOversleep /\ [Next]_vars => NoOversleep'
    <2> SUFFICES ASSUME TypeOK, NoOversleep, [Next]_vars,
                        NEW d \in Callers, pc'[d] = "sleep"
                 PROVE  due'[d] <= lim'.last + Need(lim')
      BY DEF NoOversleep, Need
    <2>1. /\ lim \in Bucket(Nat) /\ lim.every \in Nat /\ lim.tokens \in Nat
          /\ lim.last \in Nat /\ lim.last <= now /\ lim.tokens <= Full(lim)
          /\ now \in Nat /\ due[d] \in Nat /\ Full(lim) \in Nat
      BY FullHoldsOne DEF TypeOK, Bucket
    <2>2. ASSUME lim' = lim, due'[d] = due[d], pc[d] = "sleep"
          PROVE  due'[d] <= lim'.last + Need(lim')
      BY <2>2 DEF NoOversleep, Need
    <2>3. ASSUME NEW c \in Callers, Enter(c)
          PROVE  due'[d] <= lim'.last + Need(lim')
      BY <2>2, <2>3 DEF Enter, TypeOK
    <2>4. ASSUME NEW c \in Callers, Acquire(c)
          PROVE  due'[d] <= lim'.last + Need(lim')
      <3> DEFINE b == Refill(lim, now)
      <3>1. /\ b \in Bucket(Nat) /\ b.every = lim.every /\ b.last = now
            /\ Full(b) = Full(lim) /\ b.tokens = Available
            /\ b.tokens <= Full(b)
        BY RefillNow
      <3>2. lim.last + Need(lim) <= b.last + Need(b)
        BY <2>1, <3>1 DEF Available, Need
      <3>3. b.last + Need(b) \in Int /\ lim.last + Need(lim) \in Int
        BY <2>1, <3>1 DEF Need, Bucket
      <3>4. CASE HasToken(b) /\ lim' = Take(b) /\ pc' = [pc EXCEPT ![c] = "idle"]
        <4>1. d # c /\ pc[d] = "sleep" /\ due'[d] = due[d]
          BY <2>4, <3>4 DEF Acquire, TypeOK
        <4>2. /\ lim'.last = b.last /\ lim'.every = b.every
              /\ lim'.tokens = b.tokens - b.every
          BY <3>1, <3>4, TakeType
        <4>3. b.last + Need(b) <= lim'.last + Need(lim')
          BY <2>1, <3>1, <4>2 DEF Need, Bucket
        <4>4. due[d] <= lim.last + Need(lim)
          BY <4>1 DEF NoOversleep, Need
        <4>5. lim'.last + Need(lim') \in Int
          BY <2>1, <3>1, <4>2 DEF Need, Bucket
        <4> HIDE DEF b
        <4> QED
          BY <2>1, <3>2, <3>3, <4>1, <4>3, <4>4, <4>5
      <3>5. CASE /\ lim' = b /\ pc' = [pc EXCEPT ![c] = "sleep"]
                 /\ due' = [due EXCEPT ![c] = now + Need(b)]
        <4>1. CASE d = c
          <5>1. due'[d] = b.last + Need(b)
            BY <3>1, <3>5, <4>1 DEF TypeOK
          <5> HIDE DEF b
          <5> QED
            BY <3>3, <3>5, <5>1
        <4>2. CASE d # c
          <5>1. pc[d] = "sleep" /\ due'[d] = due[d]
            BY <3>5, <4>2 DEF TypeOK
          <5>2. due[d] <= lim.last + Need(lim)
            BY <5>1 DEF NoOversleep, Need
          <5> HIDE DEF b
          <5> QED
            BY <2>1, <3>2, <3>3, <3>5, <5>1, <5>2
        <4> QED
          BY <4>1, <4>2
      <3> QED
        BY <2>4, <3>4, <3>5 DEF Acquire
    <2>5. ASSUME NEW c \in Callers, Wake(c)
          PROVE  due'[d] <= lim'.last + Need(lim')
      BY <2>2, <2>5 DEF Wake, TypeOK
    <2>6. ASSUME NEW c \in Callers, Abandon(c)
          PROVE  due'[d] <= lim'.last + Need(lim')
      BY <2>2, <2>6 DEF Abandon, TypeOK
    <2>7. ASSUME NEW c \in Callers, Cancel(c)
          PROVE  due'[d] <= lim'.last + Need(lim')
      BY <2>2, <2>7 DEF Cancel
    <2>8. CASE Tick \/ OpenWindow \/ UNCHANGED vars
      BY <2>2, <2>8 DEF Tick, OpenWindow, vars
    <2> QED
      BY <2>3, <2>4, <2>5, <2>6, <2>7, <2>8 DEF Next, Wait
  <1> QED
    BY <1>1, <1>2, TypeCorrect, PTL DEF Spec
=============================================================================
