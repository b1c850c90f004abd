------------------------- MODULE RetryPolicyProofs -------------------------
(***************************************************************************)
(* Facts about the integers of Int64 and the delays of RetryPolicy, for    *)
(* every width and every policy.                                           *)
(***************************************************************************)
EXTENDS RetryPolicy, FiniteSetTheorems, TLAPS

-----------------------------------------------------------------------------
(* Powers of two.  The provers know no recursion, but a power of two is    *)
(* the number of subsets of an interval.                                   *)

\* 2^n counts the subsets of 1..n.
LEMMA PowerCounts ==
    ASSUME NEW n \in Nat
    PROVE  IsFiniteSet(SUBSET (1..n)) /\ Cardinality(SUBSET (1..n)) = 2^n
  <1>1. IsFiniteSet(1..n) /\ Cardinality(1..n) = n
    BY FS_Interval
  <1> QED
    BY <1>1, FS_SUBSET

\* A power of two is a positive natural number.
LEMMA PowerPositive ==
    ASSUME NEW n \in Nat
    PROVE  2^n \in Nat /\ 2^n > 0
  <1>1. SUBSET (1..n) # {}
    OBVIOUS
  <1>2. Cardinality(SUBSET (1..n)) \in Nat /\ Cardinality(SUBSET (1..n)) # 0
    BY <1>1, PowerCounts, FS_CardinalityType, FS_EmptySet
  <1> QED
    BY <1>2, PowerCounts

\* One more bit doubles the range: half of the subsets of 1..(n + 1) contain
\* n + 1, and they correspond to the others.
LEMMA PowerDoubles ==
    ASSUME NEW n \in Nat
    PROVE  2^(n + 1) = 2 * 2^n
  <1> DEFINE S == SUBSET (1..n)
             T == {x \in SUBSET (1..(n + 1)) : n + 1 \in x}
             f == [x \in S |-> x \cup {n + 1}]
  <1>1. IsFiniteSet(S) /\ Cardinality(S) = 2^n
    BY PowerCounts
  <1>2. Cardinality(SUBSET (1..(n + 1))) = 2^(n + 1)
    BY PowerCounts
  <1>3. 1..(n + 1) = (1..n) \cup {n + 1} /\ n + 1 \notin 1..n
    OBVIOUS
  <1>4. f \in Bijection(S, T)
    <2>1. f \in [S -> T]
      BY <1>3
    <2>2. \A x, y \in S : f[x] = f[y] => x = y
      BY <1>3
    <2>3. \A t \in T : \E x \in S : f[x] = t
      <3> TAKE t \in T
      <3>1. t \ {n + 1} \in S /\ f[t \ {n + 1}] = t
        BY <1>3
      <3> QED
        BY <3>1
    <2> HIDE DEF f, S, T
    <2> QED
      BY <2>1, <2>2, <2>3 DEF Bijection, Injection, Surjection, IsInjective
  <1>5. IsFiniteSet(T) /\ Cardinality(T) = 2^n
    <2> HIDE DEF S, T, f
    <2> QED
      BY <1>1, <1>4, FS_Bijection DEF ExistsBijection
  <1>6. SUBSET (1..(n + 1)) = S \cup T /\ S \cap T = {}
    BY <1>3
  <1>7. Cardinality(S \cup T) = 2^n + 2^n - 0
    <2> HIDE DEF S, T, f
    <2> QED
      BY <1>1, <1>5, <1>6, FS_Union, FS_EmptySet
  <1>8. 2^n \in Nat
    BY PowerPositive
  <1>9. 2^(n + 1) = 2^n + 2^n - 0
    BY <1>2, <1>6, <1>7
  <1> QED
    BY <1>8, <1>9

-----------------------------------------------------------------------------
(* Wrap-around. *)

\* The range of the integers, for every width.
LEMMA Range64 ==
    /\ MaxInt \in Nat /\ MinInt \in Int /\ 2^W \in Nat /\ 2^(W + 1) \in Nat
    /\ 2^W > 0 /\ 2^(W + 1) = 2 * 2^W
    /\ MaxInt = 2^W - 1 /\ MinInt = 0 - 2^W
  <1>1. W \in Nat
    BY Int64Assumption
  <1>2. 2^W \in Nat /\ 2^W > 0 /\ 2^(W + 1) = 2 * 2^W
    BY <1>1, PowerPositive, PowerDoubles
  <1> QED
    BY <1>2 DEF MaxInt, MinInt

\* The residue of a number in the range, and just outside of it.
LEMMA Residue ==
    ASSUME NEW m \in Nat, m > 0, NEW n \in Int
    PROVE  /\ n % m \in Nat /\ n % m < m
           /\ 0 <= n /\ n < m => n % m = n
           /\ -m <= n /\ n < 0 => n % m = n + m
           /\ m <= n /\ n < 2 * m => n % m = n - m
  OBVIOUS

\* A sum, a difference or a product that wraps is still an int64.
LEMMA WrapFits ==
    ASSUME NEW n \in Int
    PROVE  Wrap(n) \in Int /\ Fits(Wrap(n))
  <1> DEFINE m == n % 2^(W + 1)
  <1>1. m \in Nat /\ m < 2^(W + 1)
    BY Range64, Residue
  <1>2. Wrap(n) = IF m > MaxInt THEN m - 2^(W + 1) ELSE m
    BY DEF Wrap
  <1> HIDE DEF m
  <1> QED
    BY <1>1, <1>2, Range64 DEF Fits

\* What fits does not change.
LEMMA WrapExact ==
    ASSUME NEW n \in Int, Fits(n)
    PROVE  Wrap(n) = n
  <1> DEFINE m == n % 2^(W + 1)
  <1>1. n \in MinInt..MaxInt
    BY DEF Fits
  <1>2. /\ 0 <= n => m = n
        /\ n < 0 => m = n + 2^(W + 1)
    BY <1>1, Range64, Residue
  <1>3. Wrap(n) = IF m > MaxInt THEN m - 2^(W + 1) ELSE m
    BY DEF Wrap
  <1> HIDE DEF m
  <1> QED
    BY <1>1, <1>2, <1>3, Range64

\* A sum or difference of two int64 that does not fit comes out on the other
\* side of zero.
LEMMA WrapOver ==
    ASSUME NEW n \in Int, 2 * MinInt <= n, n <= 2 * 2^W, ~Fits(n)
    PROVE  /\ n > MaxInt => Wrap(n) = n - 2^(W + 1)
           /\ n < MinInt => Wrap(n) = n + 2^(W + 1)
           /\ n > MaxInt \/ n < MinInt
  <1> DEFINE m == n % 2^(W + 1)
  <1>1. n > MaxInt \/ n < MinInt
    BY Range64 DEF Fits
  <1>2. /\ (0 <= n /\ n < 2^(W + 1)) => m = n
        /\ n < 0 => m = n + 2^(W + 1)
        /\ n = 2^(W + 1) => m = 0
    BY Range64, Residue
  <1>3. Wrap(n) = IF m > MaxInt THEN m - 2^(W + 1) ELSE m
    BY DEF Wrap
  <1> HIDE DEF m
  <1> QED
    BY <1>1, <1>2, <1>3, Range64

-----------------------------------------------------------------------------
(* backoff *)

\* The division test of backoff says exactly whether the shift overflows.
LEMMA ShiftTest ==
    ASSUME NEW b \in Nat, NEW p \in Nat, p > 0, NEW m \in Nat
    PROVE  b > m \div p <=> b * p > m
  OBVIOUS

\* The exponential value without its jitter: base doubled attempt times, as long
\* as that fits, never above a ceiling.
LEMMA GrowthExact ==
    ASSUME NEW base \in Int, base > 0, NEW ceiling \in Int, NEW attempt \in Nat
    PROVE  LET d == base * 2^attempt
               fits == d <= MaxInt /\ attempt < W - 1
           IN  /\ d \in Nat /\ d >= base
               /\ growth(base, ceiling, attempt) =
                     IF ceiling > 0
                     THEN IF fits THEN Min2(d, ceiling) ELSE ceiling
                     ELSE IF fits THEN d ELSE base
  <1> DEFINE p == 2^attempt
             d == base * p
  <1>1. p \in Nat /\ p > 0
    BY PowerPositive
  <1> HIDE DEF p
  <1>2. d \in Nat /\ d >= base
    BY <1>1
  <1>3. base > MaxInt \div p <=> d > MaxInt
    BY <1>1, Range64, ShiftTest
  <1>4. d <= MaxInt => Wrap(d) = d
    BY <1>2, Range64, WrapExact DEF Fits
  <1>5. W \in Nat
    BY Int64Assumption
  <1>6. growth(base, ceiling, attempt) =
          LET e == IF attempt >= W - 1 \/ base > MaxInt \div p
                   THEN IF ceiling <= 0 THEN base ELSE ceiling
                   ELSE Wrap(d)
          IN  IF ceiling > 0 /\ e > ceiling THEN ceiling ELSE e
    BY DEF growth, p
  <1>7. MaxInt \in Nat
    BY Range64
  <1> HIDE DEF d
  <1>8. growth(base, ceiling, attempt) =
          IF ceiling > 0
          THEN IF d <= MaxInt /\ attempt < W - 1 THEN Min2(d, ceiling) ELSE ceiling
          ELSE IF d <= MaxInt /\ attempt < W - 1 THEN d ELSE base
    BY <1>2, <1>3, <1>4, <1>5, <1>6, <1>7 DEF Min2
  <1> QED
    BY <1>2, <1>8 DEF d, p

\* The jitter stays between half of the value and the value, but for the floor,
\* and the ceiling has the last word.
LEMMA JitterBounds ==
    ASSUME NEW d \in Int, d > 0, NEW ceiling \in Int, NEW x \in jittered(d, ceiling)
    PROVE  /\ x \in Nat /\ x > 0
           /\ ceiling > 0 => x <= ceiling
           /\ (ceiling <= 0 \/ d <= ceiling) => d \div 2 <= x
           /\ x <= Max2(d, minBackoffFloor)
           /\ ceiling <= 0 => x >= minBackoffFloor
           /\ ceiling > 0 => x >= Min2(minBackoffFloor, ceiling)
  <1> DEFINE half == Max2(d \div 2, 1)
  <1>1. half \in Nat /\ half >= 1 /\ half >= d \div 2 /\ 2 * half - 1 <= d
    BY DEF Max2
  <1>2. PICK r \in 0..(half - 1) :
          x = LET f == Max2(half + r, minBackoffFloor)
              IN  IF ceiling > 0 /\ f > ceiling THEN ceiling ELSE f
    BY DEF jittered
  <1> HIDE DEF half
  <1>3. minBackoffFloor \in Nat
    BY RetryPolicyAssumption
  <1>4. d \div 2 \in Int /\ d \div 2 <= d
    OBVIOUS
  <1> QED
    BY <1>1, <1>2, <1>3, <1>4 DEF Max2, Min2

\* backoff with a base: the growth is positive, so every delay is a jittered one.
LEMMA BackoffJitters ==
    ASSUME NEW base \in Int, base > 0, NEW ceiling \in Int, NEW attempt \in Nat
    PROVE  /\ growth(base, ceiling, attempt) \in Nat
           /\ growth(base, ceiling, attempt) > 0
           /\ ceiling > 0 => growth(base, ceiling, attempt) <= ceiling
           /\ backoff(base, ceiling, attempt) =
                 jittered(growth(base, ceiling, attempt), ceiling)
  <1> DEFINE g == growth(base, ceiling, attempt)
             d == base * 2^attempt
  <1>1. d \in Nat /\ d >= base
    BY GrowthExact
  <1>2. g \in {IF ceiling > 0 THEN Min2(d, ceiling) ELSE d,
               IF ceiling > 0 THEN ceiling ELSE base}
    BY GrowthExact
  <1> HIDE DEF g, d
  <1>3. g \in Nat /\ g > 0 /\ (ceiling > 0 => g <= ceiling)
    BY <1>1, <1>2 DEF Min2
  <1>4. backoff(base, ceiling, attempt) = jittered(g, ceiling)
    BY <1>3 DEF backoff, g
  <1> QED
    BY <1>3, <1>4 DEF g

\* What run sleeps after a transient failure: at least what the server asked
\* for and at most maxDelay, which wins, when there is one; never nothing when
\* the policy has a base and the server was silent.
LEMMA DelayBounds ==
    ASSUME NEW base \in Int, NEW maxDelay \in Int, NEW attempt \in Nat,
           NEW h \in Nat \cup {noRetryAfter},
           NEW x \in delays(base, maxDelay, attempt, h)
    PROVE  /\ x \in Nat
           /\ maxDelay > 0 => x <= maxDelay /\ x >= Min2(h, maxDelay)
           /\ maxDelay <= 0 => x >= h
           /\ (h = noRetryAfter /\ base > 0) => x > 0
  <1> DEFINE asked == IF h >= 0 THEN {h} ELSE backoff(base, maxDelay, attempt)
  <1>1. PICK a \in asked : x = IF a > maxDelay /\ maxDelay > 0 THEN maxDelay ELSE a
    BY DEF delays
  <1> HIDE DEF asked
  <1>2. h \in Int /\ (h >= 0 \/ h = noRetryAfter) /\ noRetryAfter = -1
    BY DEF noRetryAfter
  <1>3. CASE h >= 0
    <2>1. a = h
      BY <1>3 DEF asked
    <2> QED
      BY <1>1, <1>2, <1>3, <2>1 DEF Min2
  <1>4. CASE ~(h >= 0)
    <2>1. a \in backoff(base, maxDelay, attempt)
      BY <1>4 DEF asked
    <2>2. CASE base > 0
      <3> DEFINE g == growth(base, maxDelay, attempt)
      <3>1. g \in Nat /\ g > 0 /\ backoff(base, maxDelay, attempt) = jittered(g, maxDelay)
        BY <2>2, BackoffJitters
      <3> HIDE DEF g
      <3>2. a \in Nat /\ a > 0
        BY <2>1, <3>1, JitterBounds
      <3> QED
        BY <1>1, <1>2, <1>4, <3>2 DEF Min2
    <2>3. CASE ~(base > 0)
      <3>1. a = 0
        BY <2>1, <2>3 DEF backoff
      <3> QED
        BY <1>1, <1>2, <1>4, <2>3, <3>1 DEF Min2
    <2> QED
      BY <2>2, <2>3
  <1> QED
    BY <1>3, <1>4

-----------------------------------------------------------------------------
(* parseRetryAfter *)

\* The clamp in seconds: the product never wraps, and is the lesser of the hint
\* and the cap.
LEMMA SecondsExact ==
    ASSUME NEW secs \in Nat
    PROVE  /\ fromSeconds(secs) = Min2(secs * Second, maxRetryAfter)
           /\ fromSeconds(secs) \in 0..maxRetryAfter
  <1> DEFINE cap == maxRetryAfter \div Second
             d == secs * Second
  <1>1. /\ Second \in Nat /\ Second > 0 /\ maxRetryAfter \in Nat
        /\ maxRetryAfter <= MaxInt
    BY RetryPolicyAssumption, Range64
  <1>2. d \in Nat
    BY <1>1
  <1>3. secs > cap <=> d > maxRetryAfter
    BY <1>1, ShiftTest
  <1>4. d <= maxRetryAfter => Wrap(d) = d
    BY <1>1, <1>2, Range64, WrapExact DEF Fits
  <1>5. fromSeconds(secs) = IF secs > cap THEN maxRetryAfter ELSE Wrap(d)
    BY DEF fromSeconds
  <1> HIDE DEF cap, d
  <1>6. fromSeconds(secs) = Min2(d, maxRetryAfter)
    BY <1>1, <1>2, <1>3, <1>4, <1>5 DEF Min2
  <1>7. Min2(d, maxRetryAfter) \in 0..maxRetryAfter
    BY <1>1, <1>2 DEF Min2
  <1> QED
    BY <1>6, <1>7 DEF d
=============================================================================
