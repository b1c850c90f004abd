-------------------------- MODULE AlgorithmsProofs --------------------------
(***************************************************************************)
(* The retry delays, the options, the LRU set and money against their      *)
(* references: for every width, policy, header, amount and text, for       *)
(* option lists of any length and any sequence of Has and Add.             *)
(***************************************************************************)
EXTENDS MCAlgorithms, RetryPolicyProofs, WellFoundedInduction

-----------------------------------------------------------------------------
(* An evaluation has its input and what the code makes of it. *)

\* The input is one of the enumerated ones, and the output that of its operation.
Evaluated ==
    /\ in \in Inputs
    /\ Of("backoff") => out = backoff(in.base, in.ceiling, in.attempt)
    /\ Of("header") => out = parseRetryAfter(in.h, in.x)
    /\ Of("add") => out = M!Add(in.a, in.b)
    /\ Of("sub") => out = M!Sub(in.a, in.b)
    /\ Of("mul") => out = M!Mul(in.a, in.n)
    /\ Of("parse") => out = M!ParseMajor(in.text, in.decimals)
    /\ Of("parseKopecks") => out = M!parseDecimalKopecks(in.text)
    /\ Of("string") => out = M!String(in.kopecks)

\* Every step keeps Evaluated.
THEOREM EvaluatedHolds == Spec => []Evaluated
  <1>1. Init => Evaluated
    BY DEF Init, Evaluated, Of
  <1>2. Evaluated /\ [Next]_vars => Evaluated'
    <2> SUFFICES ASSUME Evaluated, [Next]_vars PROVE Evaluated'
      OBVIOUS
    <2>1. CASE UNCHANGED <<in, out>>
      BY <2>1 DEF Evaluated, Of
    <2>2. CASE Evaluate
      <3>1. in' = in /\ out = Nil
        BY <2>2 DEF Evaluate
      <3> QED BY <2>2, <3>1 DEF Evaluate, Evaluated, Of
    <2> QED BY <2>1, <2>2 DEF Next, UseDeduper, vars
  <1> QED BY <1>1, <1>2, PTL DEF Spec

\* The inputs of the operations the theorems are about.
LEMMA InputsAre ==
    ASSUME in \in Inputs
    PROVE  /\ in.op = "backoff" => /\ in.base \in Bases /\ in.ceiling \in Ceilings
                                   /\ in.attempt \in Attempts
           /\ in.op = "header" => in.h \in Header(Signed) /\ in.x \in Header(Signed)
           /\ in.op \in {"add", "sub"} => in.a \in Money /\ in.b \in Money
           /\ in.op = "mul" => in.a \in Money /\ in.n \in Minors
  BY DEF Inputs

-----------------------------------------------------------------------------
(* Retry delays. *)

\* Every delay lies between half of the exponential value and the value, but for
\* the floor: neither the shift nor the clamp distorts it, at any width.
THEOREM EqualJitterHolds == Spec => []EqualJitter
  <1>1. Evaluated => EqualJitter
    <2> SUFFICES ASSUME Evaluated, Of("backoff"), in.base > 0, NEW x \in out
                 PROVE  Exponential \div 2 <= x /\ x <= Max2(Exponential, minBackoffFloor)
      BY DEF EqualJitter
    <2> DEFINE g == growth(in.base, in.ceiling, in.attempt)
    <2>1. in.base \in Int /\ in.ceiling \in Int /\ in.attempt \in Nat
      BY InputsAre, AlgorithmsAssumption DEF Evaluated, Of
    <2>2. g = Exponential
      BY <2>1, GrowthExact DEF Exponential
    <2>3. /\ g \in Nat /\ g > 0 /\ (in.ceiling > 0 => g <= in.ceiling)
          /\ out = jittered(g, in.ceiling)
      BY <2>1, BackoffJitters DEF Evaluated
    <2> HIDE DEF g
    <2>4. x \in jittered(g, in.ceiling)
      BY <2>3
    <2>5. (in.ceiling <= 0 \/ g <= in.ceiling) /\ g \in Int
      BY <2>1, <2>3
    <2>6. g \div 2 <= x /\ x <= Max2(g, minBackoffFloor)
      BY <2>1, <2>3, <2>4, <2>5, JitterBounds
    <2> QED BY <2>2, <2>6
  <1> QED BY <1>1, EvaluatedHolds, PTL

\* What parseRetryAfter makes of the header that counts.
LEMMA ParseIs ==
    ASSUME NEW h, NEW x, NEW v, v = IF h.kind = "absent" THEN x ELSE h
    PROVE  /\ v.kind = "int" /\ v.n >= 0 => parseRetryAfter(h, x) = fromSeconds(v.n)
           /\ v.kind = "date" => parseRetryAfter(h, x) = Min2(Max2(v.n, 0), maxRetryAfter)
           /\ ~(v.kind = "int" /\ v.n >= 0) /\ v.kind # "date" => parseRetryAfter(h, x) = noRetryAfter
  BY DEF parseRetryAfter

\* A positive hint stays positive and capped, however large its seconds are.
THEOREM HintSurvivesHolds == Spec => []HintSurvives
  <1>1. Evaluated => HintSurvives
    <2> DEFINE v == IF in.h.kind = "absent" THEN in.x ELSE in.h
    <2> SUFFICES ASSUME Evaluated, Of("header")
                 PROVE  /\ out \in {noRetryAfter} \cup 0..maxRetryAfter
                        /\ (v.kind = "int" /\ v.n > 0) => out = Min2(v.n * Second, maxRetryAfter)
      BY DEF HintSurvives
    <2>1. out = parseRetryAfter(in.h, in.x) /\ v \in Header(Signed)
      BY InputsAre DEF Evaluated, Of
    <2>2. \A n \in Signed : n \in Int
      BY AlgorithmsAssumption DEF Signed
    <2>3. v.n \in Int
      BY <2>1, <2>2 DEF Header
    <2> HIDE DEF v
    <2>4. /\ v.kind = "int" /\ v.n >= 0 => out = fromSeconds(v.n)
          /\ v.kind = "date" => out = Min2(Max2(v.n, 0), maxRetryAfter)
          /\ ~(v.kind = "int" /\ v.n >= 0) /\ v.kind # "date" => out = noRetryAfter
      BY <2>1, ParseIs DEF v
    <2>5. maxRetryAfter \in Nat
      BY RetryPolicyAssumption
    <2>6. CASE v.kind = "int" /\ v.n >= 0
      BY <2>3, <2>4, <2>6, SecondsExact
    <2>7. CASE v.kind = "date"
      BY <2>3, <2>4, <2>5, <2>7 DEF Min2, Max2
    <2>8. CASE ~(v.kind = "int" /\ v.n >= 0) /\ v.kind # "date"
      BY <2>3, <2>4, <2>8
    <2> QED BY <2>6, <2>7, <2>8
  <1> QED BY <1>1, EvaluatedHolds, PTL

-----------------------------------------------------------------------------
(* Money. *)

\* Division of naturals.
LEMMA DivBounds ==
    ASSUME NEW x \in Nat, NEW y \in Nat, y > 0
    PROVE  /\ x \div y \in Nat
           /\ (x \div y) * y <= x
           /\ x < (x \div y) * y + y
  OBVIOUS

\* The sign of a product.
LEMMA Signs ==
    ASSUME NEW x \in Int, NEW y \in Int
    PROVE  /\ (-x) * y = -(x * y) /\ x * (-y) = -(x * y)
           /\ x >= 0 /\ y >= 0 => x * y >= 0
  OBVIOUS

\* Go's quotient is off by less than the divisor.
LEMMA QuoNear ==
    ASSUME NEW a \in Int, NEW b \in Int, b # 0
    PROVE  /\ Quo(a, b) \in Int
           /\ -Abs(b) < a - Quo(a, b) * b
           /\ a - Quo(a, b) * b < Abs(b)
           /\ Abs(Quo(a, b)) * Abs(b) <= Abs(a)
  <1> DEFINE x == Abs(a)
             y == Abs(b)
             d == x \div y
             p == d * y
  <1>1. /\ x \in Nat /\ y \in Nat /\ y > 0
        /\ a = IF a < 0 THEN -x ELSE x
        /\ b = IF b < 0 THEN -y ELSE y
    BY DEF Abs
  <1> HIDE DEF x, y
  <1>2. d \in Nat /\ p <= x /\ x < p + y
    BY <1>1, DivBounds
  <1> HIDE DEF d
  <1>3. p \in Nat /\ (-d) * y = -p /\ d * (-y) = -p /\ (-d) * (-y) = p
    BY <1>1, <1>2, Signs
  <1>4. Quo(a, b) = IF (a < 0) = (b < 0) THEN d ELSE -d
    BY DEF Quo, x, y, d
  <1>5. Quo(a, b) * b = IF a < 0 THEN -p ELSE p
    BY <1>1, <1>2, <1>3, <1>4
  <1>6. Abs(Quo(a, b)) = d
    BY <1>2, <1>4 DEF Abs
  <1>7. Abs(Quo(a, b)) * Abs(b) = p
    BY <1>6 DEF y
  <1> HIDE DEF p
  <1>8. Quo(a, b) \in Int
    BY <1>2, <1>4
  <1>9. -y < a - Quo(a, b) * b /\ a - Quo(a, b) * b < y
    BY <1>1, <1>2, <1>3, <1>5
  <1> QED BY <1>2, <1>7, <1>8, <1>9 DEF x, y

\* A multiple of y that is smaller than y is zero.
LEMMA SmallMultiple ==
    ASSUME NEW k \in Int, NEW y \in Nat, y > 0, -y < k * y, k * y < y
    PROVE  k = 0
  <1>1. ASSUME k >= 1 PROVE FALSE
    <2>1. k - 1 \in Nat /\ (k - 1) * y >= 0 /\ (k - 1) * y = k * y - y
      BY <1>1
    <2> QED BY <2>1
  <1>2. ASSUME k <= -1 PROVE FALSE
    <2>1. -k - 1 \in Nat /\ (-k - 1) * y >= 0 /\ (-k - 1) * y = -(k * y) - y
      BY <1>2
    <2> QED BY <2>1
  <1> QED BY <1>1, <1>2

\* A product is divided exactly.
LEMMA QuoExact ==
    ASSUME NEW m \in Int, NEW n \in Int, n # 0
    PROVE  Quo(m * n, n) = m
  <1> DEFINE q == Quo(m * n, n)
             k == m - q
  <1>1. m * n \in Int
    OBVIOUS
  <1>2. q \in Int /\ -Abs(n) < m * n - q * n /\ m * n - q * n < Abs(n)
    BY <1>1, QuoNear
  <1> HIDE DEF q
  <1>3. m * n - q * n = k * n /\ k \in Int
    BY <1>2
  <1>4. Abs(n) \in Nat /\ Abs(n) > 0 /\ (n = Abs(n) \/ n = -Abs(n))
    BY DEF Abs
  <1> HIDE DEF k
  <1>5. k * n = k * Abs(n) \/ k * n = -(k * Abs(n))
    BY <1>3, <1>4, Signs
  <1>6. k * Abs(n) \in Int
    BY <1>3, <1>4
  <1>7. -Abs(n) < k * Abs(n) /\ k * Abs(n) < Abs(n)
    BY <1>2, <1>3, <1>4, <1>5, <1>6
  <1>8. k = 0
    BY <1>3, <1>4, <1>7, SmallMultiple
  <1> QED BY <1>2, <1>8 DEF k, q

\* What wraps is off by a multiple of 2^(W+1).
LEMMA WrapShifts ==
    ASSUME NEW n \in Int
    PROVE  \E k \in Int : Wrap(n) = n + k * 2^(W + 1)
  <1> DEFINE p == 2^(W + 1)
             j == n \div p
  <1>1. p \in Nat /\ p > 0
    BY Range64
  <1> HIDE DEF p
  <1>2. j \in Int /\ n % p = n - j * p
    BY <1>1
  <1> HIDE DEF j
  <1>3. (-j) * p = -(j * p) /\ (-j - 1) * p = -(j * p) - p /\ j * p \in Int
    BY <1>1, <1>2
  <1>4. Wrap(n) = IF n % p > MaxInt THEN (n % p) - p ELSE n % p
    BY DEF Wrap, p
  <1>5. n + (-j) * p = n - j * p /\ n + (-j - 1) * p = n - j * p - p
    BY <1>1, <1>2, <1>3
  <1>6. Wrap(n) = n + (-j) * p \/ Wrap(n) = n + (-j - 1) * p
    BY <1>2, <1>4, <1>5
  <1>7. -j \in Int /\ -j - 1 \in Int
    BY <1>2
  <1> QED BY <1>6, <1>7 DEF p

\* The integers of Money are those of this module.
LEMMA SameIntegers ==
    /\ \A n : M!Wrap(n) = Wrap(n)
    /\ M!MinInt = MinInt
    /\ \A a, b : M!Quo(a, b) = Quo(a, b)
  <1>1. M!MaxInt = MaxInt /\ M!MinInt = MinInt
    BY DEF M!MaxInt, MaxInt, M!MinInt, MinInt
  <1>2. ASSUME NEW n PROVE M!Wrap(n) = Wrap(n)
    BY <1>1 DEF M!Wrap, Wrap
  <1>3. ASSUME NEW a, NEW b PROVE M!Quo(a, b) = Quo(a, b)
    BY DEF M!Quo, Quo, M!Abs, Abs
  <1> QED BY <1>1, <1>2, <1>3

\* An amount is an int64.
LEMMA MinorFits ==
    ASSUME NEW a, a \in Minors
    PROVE  a \in Int /\ MinInt <= a /\ a <= MaxInt
  <1>1. Magnitudes \subseteq 0..MaxInt
    BY AlgorithmsAssumption
  <1> QED BY <1>1, Range64 DEF Minors

\* Add: the sign test finds every overflow and nothing else.
LEMMA AddExact ==
    ASSUME NEW a \in Money, NEW b \in Money
    PROVE  M!Add(a, b) = IF a.code = b.code /\ Fits(a.minor + b.minor)
                         THEN M!Ok(a.minor + b.minor) ELSE M!Err
  <1> DEFINE x == a.minor
             y == b.minor
             s == Wrap(x + y)
             p == 2^W
  <1>1. /\ x \in Int /\ MinInt <= x /\ x <= MaxInt
        /\ y \in Int /\ MinInt <= y /\ y <= MaxInt
    BY MinorFits DEF Money
  <1>2. /\ p \in Nat /\ p > 0 /\ MaxInt = p - 1 /\ MinInt = 0 - p /\ 2^(W + 1) = 2 * p
    BY Range64
  <1>3. M!Add(a, b) = IF a.code # b.code THEN M!Err
                      ELSE IF (x < 0) = (y < 0) /\ (x < 0) # (s < 0) THEN M!Err ELSE M!Ok(s)
    BY SameIntegers DEF M!Add
  <1>4. Fits(x + y) <=> -p <= x + y /\ x + y < p
    BY <1>1, <1>2 DEF Fits
  <1> HIDE DEF x, y, p
  <1>5. CASE Fits(x + y)
    <2>1. s = x + y
      BY <1>1, <1>5, WrapExact
    <2> HIDE DEF s
    <2>2. ~((x < 0) = (y < 0) /\ (x < 0) # (s < 0))
      BY <1>1, <2>1
    <2> QED BY <1>3, <1>5, <2>1, <2>2 DEF x, y
  <1>6. CASE ~Fits(x + y)
    <2>1. /\ x + y > MaxInt => s = x + y - 2 * p
          /\ x + y < MinInt => s = x + y + 2 * p
          /\ x + y > MaxInt \/ x + y < MinInt
      <3>1. x + y \in Int /\ 2 * MinInt <= x + y /\ x + y <= 2 * 2^W
        BY <1>1, <1>2 DEF p
      <3>2. /\ x + y > MaxInt => s = (x + y) - 2^(W + 1)
            /\ x + y < MinInt => s = (x + y) + 2^(W + 1)
            /\ x + y > MaxInt \/ x + y < MinInt
        BY <1>6, <3>1, WrapOver
      <3> QED BY <1>1, <1>2, <3>2
    <2> HIDE DEF s
    <2>2. (x < 0) = (y < 0) /\ (x < 0) # (s < 0)
      BY <1>1, <1>2, <2>1
    <2> QED BY <1>3, <1>6, <2>2 DEF x, y
  <1> QED BY <1>5, <1>6

\* Sub: the same for a difference.
LEMMA SubExact ==
    ASSUME NEW a \in Money, NEW b \in Money
    PROVE  M!Sub(a, b) = IF a.code = b.code /\ Fits(a.minor - b.minor)
                         THEN M!Ok(a.minor - b.minor) ELSE M!Err
  <1> DEFINE x == a.minor
             y == b.minor
             s == Wrap(x - y)
             p == 2^W
  <1>1. /\ x \in Int /\ MinInt <= x /\ x <= MaxInt
        /\ y \in Int /\ MinInt <= y /\ y <= MaxInt
    BY MinorFits DEF Money
  <1>2. /\ p \in Nat /\ p > 0 /\ MaxInt = p - 1 /\ MinInt = 0 - p /\ 2^(W + 1) = 2 * p
    BY Range64
  <1>3. M!Sub(a, b) = IF a.code # b.code THEN M!Err
                      ELSE IF (x < 0) # (y < 0) /\ (x < 0) # (s < 0) THEN M!Err ELSE M!Ok(s)
    BY SameIntegers DEF M!Sub
  <1> HIDE DEF x, y, p
  <1>4. CASE Fits(x - y)
    <2>1. s = x - y
      BY <1>1, <1>4, WrapExact
    <2> HIDE DEF s
    <2>2. ~((x < 0) # (y < 0) /\ (x < 0) # (s < 0))
      BY <1>1, <2>1
    <2> QED BY <1>3, <1>4, <2>1, <2>2 DEF x, y
  <1>5. CASE ~Fits(x - y)
    <2>1. /\ x - y > MaxInt => s = x - y - 2 * p
          /\ x - y < MinInt => s = x - y + 2 * p
          /\ x - y > MaxInt \/ x - y < MinInt
      <3>1. x - y \in Int /\ 2 * MinInt <= x - y /\ x - y <= 2 * 2^W
        BY <1>1, <1>2 DEF p
      <3> QED BY <1>2, <1>5, <3>1, WrapOver
    <2> HIDE DEF s
    <2>2. (x < 0) # (y < 0) /\ (x < 0) # (s < 0)
      BY <1>1, <1>2, <2>1
    <2> QED BY <1>3, <1>5, <2>2 DEF x, y
  <1> QED BY <1>4, <1>5

\* A product that does not fit is not undone by the division, but for the corner.
LEMMA MulTest ==
    ASSUME NEW m \in MinInt..MaxInt, NEW n \in MinInt..MaxInt, n # 0, ~Fits(m * n),
           ~(m = MinInt /\ n = -1)
    PROVE  Wrap(Quo(Wrap(m * n), n)) # m
  <1> DEFINE p == 2^W
             x == m * n
             r == Wrap(x)
             q == Quo(r, n)
             y == Abs(n)
  <1>1. /\ p \in Nat /\ p > 0 /\ MaxInt = p - 1 /\ MinInt = 0 - p /\ 2^(W + 1) = 2 * p
    BY Range64
  <1>2. x \in Int /\ r \in Int /\ MinInt <= r /\ r <= MaxInt
    BY WrapFits, Range64 DEF Fits
  <1>3. PICK k \in Int : r = x + k * (2 * p)
    BY <1>1, <1>2, WrapShifts
  <1>4. k # 0
    <2>1. k = 0 => r = x
      BY <1>1, <1>2, <1>3
    <2> QED BY <1>2, <2>1, WrapFits
  <1>5. /\ q \in Int /\ -y < r - q * n /\ r - q * n < y
        /\ Abs(q) * y <= Abs(r)
    BY <1>1, <1>2, QuoNear
  <1>6. y \in Nat /\ y > 0 /\ y <= p
    BY <1>1 DEF Abs
  <1> HIDE DEF q, y, r, x, p
  <1>7. n # 1
    BY <1>1, <1>2 DEF x, Fits
  <1>8. n # -1
    <2>1. n = -1 => x = -m /\ -m \in MinInt..MaxInt
      BY <1>1 DEF x
    <2> QED BY <2>1 DEF x, Fits
  <1>9. y >= 2
    BY <1>1, <1>7, <1>8 DEF y, Abs
  <1>10. Fits(q)
    <2> DEFINE z == Abs(q)
    <2>1. z \in Nat /\ Abs(r) <= p /\ (q = z \/ q = -z)
      BY <1>1, <1>2, <1>5 DEF Abs
    <2> HIDE DEF z
    <2>2. z * y >= 2 * z
      <3>1. y - 2 \in Nat /\ z * (y - 2) >= 0 /\ z * (y - 2) = z * y - 2 * z
        BY <1>6, <1>9, <2>1
      <3> QED BY <1>6, <2>1, <3>1
    <2>3. 2 * z <= p
      <3>1. z * y <= p /\ z * y \in Int
        BY <1>1, <1>2, <1>5, <1>6, <2>1 DEF z, Abs
      <3> QED BY <1>1, <2>1, <2>2, <3>1
    <2> QED BY <1>1, <2>1, <2>3 DEF Fits
  <1>11. Wrap(q) = q
    BY <1>5, <1>10, WrapExact
  <1>12. ASSUME q = m PROVE FALSE
    <2>1. r - q * n = k * (2 * p)
      BY <1>1, <1>2, <1>3, <1>12 DEF x
    <2>2. -(2 * p) < k * (2 * p) /\ k * (2 * p) < 2 * p
      BY <1>1, <1>5, <1>6, <2>1
    <2>3. 2 * p \in Nat /\ 2 * p > 0
      BY <1>1
    <2> QED BY <1>4, <2>2, <2>3, SmallMultiple
  <1> QED BY <1>11, <1>12 DEF q, r, x

\* Mul: the division test and the corner find every overflow and nothing else.
LEMMA MulExact ==
    ASSUME NEW a \in Money, NEW n \in Minors
    PROVE  M!Mul(a, n) = IF Fits(a.minor * n) THEN M!Ok(a.minor * n) ELSE M!Err
  <1> DEFINE m == a.minor
             r == Wrap(m * n)
             corner == (m = MinInt /\ n = -1) \/ (n = MinInt /\ m = -1)
  <1>1. m \in Int /\ n \in Int /\ m \in MinInt..MaxInt /\ n \in MinInt..MaxInt
    BY MinorFits, Range64 DEF Money
  <1>2. M!Mul(a, n) = IF m = 0 \/ n = 0 THEN M!Ok(0)
                      ELSE IF corner \/ Wrap(Quo(r, n)) # m THEN M!Err ELSE M!Ok(r)
    BY SameIntegers DEF M!Mul
  <1>3. /\ MaxInt \in Nat /\ MinInt \in Int /\ MinInt < 0 /\ -MinInt > MaxInt
    BY Range64
  <1>4. Fits(m * n) <=> MinInt <= m * n /\ m * n <= MaxInt
    BY <1>1, <1>3 DEF Fits
  <1> HIDE DEF m
  <1>5. CASE m = 0 \/ n = 0
    <2>1. m * n = 0
      BY <1>1, <1>5
    <2> QED BY <1>2, <1>3, <1>4, <1>5, <2>1 DEF m
  <1>6. CASE m # 0 /\ n # 0 /\ Fits(m * n)
    <2>1. m * n \in Int /\ r = m * n /\ Quo(m * n, n) = m /\ Wrap(m) = m
      BY <1>1, <1>6, WrapExact, QuoExact DEF Fits
    <2>2. ~corner
      <3>1. corner => m * n = -MinInt
        BY <1>1, <1>3
      <3> QED BY <1>3, <1>4, <1>6, <3>1
    <2> QED BY <1>2, <1>6, <2>1, <2>2 DEF m
  <1>7. CASE m # 0 /\ n # 0 /\ ~Fits(m * n)
    <2>1. corner \/ Wrap(Quo(r, n)) # m
      BY <1>1, <1>7, MulTest
    <2> QED BY <1>2, <1>7, <2>1 DEF m
  <1> QED BY <1>5, <1>6, <1>7

\* Add, Sub and Mul return the exact result, or an error exactly when it does not
\* fit or the currencies differ: for all amounts, at any width.
THEOREM ExactOrOverflowHolds == Spec => []ExactOrOverflow
  <1>1. Evaluated => ExactOrOverflow
    <2> SUFFICES ASSUME Evaluated PROVE ExactOrOverflow
      OBVIOUS
    <2>1. ASSUME in.op = "add", out # Nil PROVE ExactOrOverflow
      <3>1. in.a \in Money /\ in.b \in Money /\ out = M!Add(in.a, in.b)
        BY <2>1, InputsAre DEF Evaluated, Of
      <3>2. Exact = in.a.minor + in.b.minor
        BY <2>1 DEF Exact
      <3> QED BY <2>1, <3>1, <3>2, AddExact DEF ExactOrOverflow
    <2>2. ASSUME in.op = "sub", out # Nil PROVE ExactOrOverflow
      <3>1. in.a \in Money /\ in.b \in Money /\ out = M!Sub(in.a, in.b)
        BY <2>2, InputsAre DEF Evaluated, Of
      <3>2. Exact = in.a.minor - in.b.minor
        BY <2>2 DEF Exact
      <3> QED BY <2>2, <3>1, <3>2, SubExact DEF ExactOrOverflow
    <2>3. ASSUME in.op = "mul", out # Nil PROVE ExactOrOverflow
      <3>1. in.a \in Money /\ in.n \in Minors /\ out = M!Mul(in.a, in.n)
        BY <2>3, InputsAre DEF Evaluated, Of
      <3>2. Exact = in.a.minor * in.n
        BY <2>3 DEF Exact
      <3> QED BY <2>3, <3>1, <3>2, MulExact DEF ExactOrOverflow
    <2> QED BY <2>1, <2>2, <2>3 DEF ExactOrOverflow
  <1> QED BY <1>1, EvaluatedHolds, PTL

-----------------------------------------------------------------------------
(* The LRU set. *)

\* The list holds each id once, and what was used after an id is what stands
\* before it; an id that was forgotten has seen at least capacity others.
Recency ==
    /\ order \in Seq(Names) /\ Len(order) <= capacity
    /\ \A i, j \in DOMAIN order : order[i] = order[j] => i = j
    /\ added \subseteq Names
    /\ others \in [Names -> SUBSET Names]
    /\ \A i \in DOMAIN order : others[order[i]] = {order[j] : j \in 1..(i - 1)}
    /\ \A n \in added : n \notin D!Ids(order) =>
          IsFiniteSet(others[n]) /\ Cardinality(others[n]) >= capacity

\* The list after the use of an id that is in it.
LEMMA Moved ==
    ASSUME NEW o \in Seq(Names), NEW id \in D!Ids(o)
    PROVE  \E i \in 1..Len(o) :
             /\ o[i] = id
             /\ LET p == D!MoveToFront(o, id) IN
                /\ p \in Seq(Names) /\ Len(p) = Len(o)
                /\ p[1] = id
                /\ \A j \in 2..i : p[j] = o[j - 1]
                /\ \A j \in (i + 1)..Len(o) : p[j] = o[j]
  <1> DEFINE n == Len(o)
             p == D!MoveToFront(o, id)
             i == D!Index(o, id)
  <1>1. n \in Nat /\ DOMAIN o = 1..n /\ o \in [1..n -> Names]
    OBVIOUS
  <1>2. i \in 1..n /\ o[i] = id
    BY <1>1 DEF D!Ids, D!Index
  <1>3. p = [j \in 1..n |-> IF j = 1 THEN id ELSE IF j <= i THEN o[j - 1] ELSE o[j]]
    BY <1>1 DEF D!MoveToFront
  <1> HIDE DEF n, p, i
  <1>4. \A j \in 1..n : p[j] \in Names
    <2> SUFFICES ASSUME NEW j \in 1..n PROVE p[j] \in Names
      OBVIOUS
    <2>1. CASE j = 1
      BY <1>1, <1>2, <1>3, <2>1
    <2>2. CASE j # 1 /\ j <= i
      <3>1. j - 1 \in 1..n
        BY <1>1, <2>2
      <3> QED BY <1>1, <1>3, <2>2, <3>1
    <2>3. CASE j # 1 /\ ~(j <= i)
      BY <1>1, <1>3, <2>3
    <2> QED BY <2>1, <2>2, <2>3
  <1>5. p \in [1..n -> Names]
    BY <1>3, <1>4
  <1>6. p \in Seq(Names) /\ Len(p) = n
    BY <1>1, <1>5
  <1>7. p[1] = id /\ (\A j \in 2..i : p[j] = o[j - 1]) /\ (\A j \in (i + 1)..n : p[j] = o[j])
    BY <1>1, <1>2, <1>3
  <1> QED BY <1>2, <1>6, <1>7 DEF n, p

\* A use of an id that is in the list.
LEMMA RecencyMoves ==
    ASSUME Recency, NEW id \in D!Ids(order), order' = D!MoveToFront(order, id), D!Used(id),
           added' \subseteq added \cup {id}
    PROVE  Recency'
  <1> DEFINE n == Len(order)
  <1>1. /\ n \in Nat /\ DOMAIN order = 1..n /\ order \in [1..n -> Names]
        /\ \A i, j \in 1..n : order[i] = order[j] => i = j
        /\ \A i \in 1..n : others[order[i]] = {order[j] : j \in 1..(i - 1)}
        /\ n <= capacity
    BY DEF Recency
  <1>2. PICK i \in 1..n :
          /\ order[i] = id
          /\ order' \in Seq(Names) /\ Len(order') = n
          /\ order'[1] = id
          /\ \A j \in 2..i : order'[j] = order[j - 1]
          /\ \A j \in (i + 1)..n : order'[j] = order[j]
    BY Moved DEF Recency
  <1>3. id \in Names /\ DOMAIN order' = 1..n
    BY <1>1, <1>2
  <1>4. /\ others' \in [Names -> SUBSET Names]
        /\ others'[id] = {}
        /\ \A m \in Names : m # id => others'[m] = others[m] \cup {id}
    BY <1>3 DEF Recency, D!Used
  <1> HIDE DEF n
  \* Where every id has gone.
  <1>5. \A k \in 1..n : \/ k = i
                        \/ k < i /\ k + 1 \in 2..i /\ order'[k + 1] = order[k]
                        \/ k > i /\ order'[k] = order[k]
    <2> SUFFICES ASSUME NEW k \in 1..n, k # i
                 PROVE  \/ k < i /\ k + 1 \in 2..i /\ order'[k + 1] = order[k]
                        \/ k > i /\ order'[k] = order[k]
      OBVIOUS
    <2>1. CASE k < i
      <3>1. k + 1 \in 2..i /\ (k + 1) - 1 = k
        BY <1>1, <2>1
      <3> QED BY <1>2, <2>1, <3>1
    <2>2. CASE k > i
      BY <1>1, <1>2, <2>2
    <2> QED BY <1>1, <2>1, <2>2
  \* And where it comes from.
  <1>6. \A k \in 1..n : \/ k = 1 /\ order'[k] = id
                        \/ k \in 2..i /\ k - 1 \in 1..n /\ k - 1 < i /\ order'[k] = order[k - 1]
                        \/ k \in (i + 1)..n /\ order'[k] = order[k]
    <2> SUFFICES ASSUME NEW k \in 1..n, k # 1
                 PROVE  \/ k \in 2..i /\ k - 1 \in 1..n /\ k - 1 < i /\ order'[k] = order[k - 1]
                        \/ k \in (i + 1)..n /\ order'[k] = order[k]
      BY <1>2
    <2>1. CASE k <= i
      <3>1. k \in 2..i /\ k - 1 \in 1..n /\ k - 1 < i
        BY <1>1, <2>1
      <3> QED BY <1>2, <3>1
    <2>2. CASE k > i
      <3>1. k \in (i + 1)..n
        BY <1>1, <2>2
      <3> QED BY <1>2, <3>1
    <2> QED BY <1>1, <2>1, <2>2
  <1>7. D!Ids(order') = D!Ids(order)
    <2>1. \A k \in 1..n : \E l \in 1..n : order[k] = order'[l]
      <3> SUFFICES ASSUME NEW k \in 1..n PROVE \E l \in 1..n : order[k] = order'[l]
        OBVIOUS
      <3>1. CASE k = i
        BY <1>1, <1>2, <3>1
      <3>2. CASE k < i /\ k + 1 \in 2..i /\ order'[k + 1] = order[k]
        <4>1. k + 1 \in 1..n
          BY <1>1, <3>2
        <4> QED BY <3>2, <4>1
      <3>3. CASE k > i /\ order'[k] = order[k]
        BY <3>3
      <3> QED BY <1>5, <3>1, <3>2, <3>3
    <2>2. \A k \in 1..n : \E l \in 1..n : order'[k] = order[l]
      BY <1>2, <1>6
    <2>3. /\ D!Ids(order) = {order[k] : k \in 1..n}
          /\ D!Ids(order') = {order'[k] : k \in 1..n}
      BY <1>1, <1>3 DEF D!Ids
    <2>4. D!Ids(order) \subseteq D!Ids(order')
      BY <2>1, <2>3
    <2>5. D!Ids(order') \subseteq D!Ids(order)
      BY <2>2, <2>3
    <2> QED BY <2>4, <2>5
  <1>8. \A k, l \in 1..n : order'[k] = order'[l] => k = l
    <2> SUFFICES ASSUME NEW k \in 1..n, NEW l \in 1..n, k < l PROVE order'[k] # order'[l]
      BY <1>1
    <2>1. l # 1
      BY <1>1
    <2>2. \A a, b \in 1..n : a # b => order[a] # order[b]
      BY <1>1
    <2>3. CASE k = 1
      <3>1. CASE l \in 2..i /\ l - 1 \in 1..n /\ l - 1 < i /\ order'[l] = order[l - 1]
        <4>1. l - 1 # i /\ i \in 1..n
          BY <1>1, <3>1
        <4>2. order[l - 1] # order[i]
          BY <2>2, <3>1, <4>1
        <4> QED BY <1>2, <2>3, <3>1, <4>2
      <3>2. CASE l \in (i + 1)..n /\ order'[l] = order[l]
        <4>1. l # i
          BY <3>2
        <4> QED BY <1>2, <2>2, <2>3, <3>2, <4>1
      <3> QED BY <1>6, <2>1, <3>1, <3>2
    <2>4. CASE k # 1 /\ l <= i
      <3>1. /\ k - 1 \in 1..n /\ l - 1 \in 1..n /\ k - 1 # l - 1 /\ k \in 2..i /\ l \in 2..i
        BY <1>1, <2>4
      <3> QED BY <1>2, <2>2, <3>1
    <2>5. CASE k # 1 /\ l > i /\ k <= i
      <3>1. k - 1 \in 1..n /\ k \in 2..i /\ l \in (i + 1)..n /\ k - 1 # l
        BY <1>1, <2>5
      <3> QED BY <1>2, <2>2, <3>1
    <2>6. CASE k # 1 /\ l > i /\ k > i
      <3>1. k \in (i + 1)..n /\ l \in (i + 1)..n /\ k # l
        BY <1>1, <2>6
      <3> QED BY <1>2, <2>2, <3>1
    <2> QED BY <1>1, <2>3, <2>4, <2>5, <2>6
  <1>9. ASSUME NEW k \in 1..n
        PROVE  others'[order'[k]] = {order'[j] : j \in 1..(k - 1)}
    <2>1. CASE k = 1
      <3>1. 1..(k - 1) = {}
        BY <2>1
      <3> QED BY <1>2, <1>4, <2>1, <3>1
    <2>2. CASE k \in 2..i /\ k - 1 \in 1..n /\ k - 1 < i /\ order'[k] = order[k - 1]
      <3>1. order[k - 1] # id /\ order[k - 1] \in Names
        BY <1>1, <1>2, <2>2
      <3>2. others'[order'[k]] = {order[j] : j \in 1..(k - 2)} \cup {id}
        <4>1. others[order[k - 1]] = {order[j] : j \in 1..((k - 1) - 1)} /\ (k - 1) - 1 = k - 2
          BY <1>1, <2>2
        <4> QED BY <1>4, <2>2, <3>1, <4>1
      <3>3. \A j \in 1..(k - 2) : j + 1 \in 1..(k - 1) /\ order'[j + 1] = order[j]
        <4> SUFFICES ASSUME NEW j \in 1..(k - 2)
                     PROVE  j + 1 \in 1..(k - 1) /\ order'[j + 1] = order[j]
          OBVIOUS
        <4>1. j + 1 \in 1..(k - 1) /\ j + 1 \in 2..i /\ (j + 1) - 1 = j
          BY <1>1, <2>2
        <4> QED BY <1>2, <4>1
      <3>4. \A j \in 1..(k - 1) : j = 1 \/ (j - 1 \in 1..(k - 2) /\ order'[j] = order[j - 1])
        <4> SUFFICES ASSUME NEW j \in 1..(k - 1), j # 1
                     PROVE  j - 1 \in 1..(k - 2) /\ order'[j] = order[j - 1]
          OBVIOUS
        <4>1. j - 1 \in 1..(k - 2) /\ j \in 2..i
          BY <1>1, <2>2
        <4> QED BY <1>2, <4>1
      <3>5. 1 \in 1..(k - 1)
        BY <2>2
      <3>6. {order[j] : j \in 1..(k - 2)} \cup {id} \subseteq {order'[j] : j \in 1..(k - 1)}
        BY <1>2, <3>3, <3>5, SMTT(30)
      <3>7. {order'[j] : j \in 1..(k - 1)} \subseteq {order[j] : j \in 1..(k - 2)} \cup {id}
        BY <1>2, <3>4
      <3> QED BY <3>2, <3>6, <3>7
    <2>3. CASE k \in (i + 1)..n /\ order'[k] = order[k]
      <3>1. k # i /\ order[k] \in Names /\ order[k] # id
        BY <1>1, <1>2, <2>3
      <3>2. others'[order'[k]] = {order[j] : j \in 1..(k - 1)} \cup {id}
        BY <1>1, <1>4, <2>3, <3>1
      <3>3. i \in 1..(k - 1) /\ 1 \in 1..(k - 1)
        BY <1>1, <2>3
      <3>4. ASSUME NEW j \in 1..(k - 1) PROVE order[j] \in {order'[l] : l \in 1..(k - 1)}
        <4>0. j \in 1..n
          BY <1>1
        <4>1. CASE j = i
          BY <1>2, <3>3, <4>1
        <4>2. CASE j < i /\ j + 1 \in 2..i /\ order'[j + 1] = order[j]
          <5>1. j + 1 \in 1..(k - 1)
            BY <1>1, <2>3, <4>2
          <5> QED BY <4>2, <5>1
        <4>3. CASE j > i /\ order'[j] = order[j]
          BY <4>3
        <4> QED BY <1>5, <4>0, <4>1, <4>2, <4>3
      <3>5. ASSUME NEW j \in 1..(k - 1) PROVE order'[j] \in {order[l] : l \in 1..(k - 1)}
        <4>0. j \in 1..n
          BY <1>1
        <4>1. CASE j = 1
          BY <1>2, <3>3, <4>1
        <4>2. CASE j \in 2..i /\ j - 1 \in 1..n /\ order'[j] = order[j - 1]
          <5>1. j - 1 \in 1..(k - 1)
            BY <4>2
          <5> QED BY <4>2, <5>1
        <4>3. CASE order'[j] = order[j]
          BY <4>3
        <4> QED BY <1>6, <4>0, <4>1, <4>2, <4>3
      <3>6. id \in {order[j] : j \in 1..(k - 1)}
        BY <1>2, <3>3
      <3>7. {order[j] : j \in 1..(k - 1)} = {order'[j] : j \in 1..(k - 1)}
        BY <3>4, <3>5
      <3> QED BY <3>2, <3>6, <3>7
    <2> QED BY <1>6, <2>1, <2>2, <2>3
  <1>10. ASSUME NEW m \in added', m \notin D!Ids(order')
         PROVE  IsFiniteSet(others'[m]) /\ Cardinality(others'[m]) >= capacity
    <2>1. m \in added /\ m \notin D!Ids(order) /\ m # id /\ m \in Names
      BY <1>7, <1>10 DEF Recency
    <2>2. IsFiniteSet(others[m]) /\ Cardinality(others[m]) >= capacity
      BY <2>1 DEF Recency
    <2>3. others'[m] = others[m] \cup {id}
      BY <1>4, <2>1
    <2>4. /\ IsFiniteSet(others[m] \cup {id})
          /\ Cardinality(others[m] \cup {id}) = IF id \in others[m] THEN Cardinality(others[m])
                                                ELSE Cardinality(others[m]) + 1
      BY <2>2, FS_AddElement
    <2>5. Cardinality(others[m]) \in Nat
      BY <2>2, FS_CardinalityType
    <2> QED BY <2>2, <2>3, <2>4, <2>5, AlgorithmsAssumption
  <1>11. added' \subseteq Names
    BY <1>3 DEF Recency
  <1> QED BY <1>1, <1>2, <1>3, <1>4, <1>8, <1>9, <1>10, <1>11 DEF Recency

\* Concatenation.
LEMMA Concatenated ==
    ASSUME NEW S, NEW s \in Seq(S), NEW u \in Seq(S)
    PROVE  /\ s \o u \in Seq(S) /\ Len(s \o u) = Len(s) + Len(u)
           /\ \A i \in 1..Len(s) : (s \o u)[i] = s[i]
           /\ \A i \in 1..Len(u) : (s \o u)[Len(s) + i] = u[i]
  OBVIOUS

\* The first h of a list, and a new id before them.
LEMMA Pushed ==
    ASSUME NEW o \in Seq(Names), NEW id \in Names, NEW h \in 0..Len(o)
    PROVE  LET p == <<id>> \o SubSeq(o, 1, h) IN
           /\ p \in Seq(Names) /\ Len(p) = h + 1
           /\ p[1] = id
           /\ \A j \in 1..h : p[j + 1] = o[j]
  <1> DEFINE q == SubSeq(o, 1, h)
             one == <<id>>
  <1>1. q \in Seq(Names) /\ Len(q) = h /\ h \in Nat /\ \A j \in 1..h : q[j] = o[j]
    OBVIOUS
  <1>2. one \in Seq(Names) /\ Len(one) = 1 /\ one[1] = id
    OBVIOUS
  <1> HIDE DEF q, one
  <1>3. /\ one \o q \in Seq(Names) /\ Len(one \o q) = Len(one) + Len(q)
        /\ \A i \in 1..Len(one) : (one \o q)[i] = one[i]
        /\ \A i \in 1..Len(q) : (one \o q)[Len(one) + i] = q[i]
    <2>1. one \in Seq(Names) /\ q \in Seq(Names)
      BY <1>1, <1>2
    <2> QED BY <2>1, Concatenated
  <1>4. PICK p : p = one \o q
    OBVIOUS
  <1>5. /\ p \in Seq(Names) /\ Len(p) = 1 + h
        /\ \A i \in 1..1 : p[i] = one[i]
        /\ \A i \in 1..h : p[1 + i] = o[i]
    BY <1>1, <1>2, <1>3, <1>4
  <1>6. \A j \in 1..h : j + 1 = 1 + j
    BY <1>1
  <1>7. Len(p) = h + 1 /\ p[1] = id /\ \A j \in 1..h : p[j + 1] = o[j]
    BY <1>1, <1>2, <1>5, <1>6
  <1> QED BY <1>4, <1>5, <1>7 DEF one, q

\* A new id goes before the first h of the list; what is cut off stood last in a
\* full list.
Pushing(id, h) ==
    /\ id \in Names /\ id \notin D!Ids(order) /\ D!Used(id)
    /\ added' = added \cup {id}
    /\ h \in Nat /\ h <= Len(order) /\ h < capacity
    /\ h # Len(order) => h = Len(order) - 1 /\ Len(order) = capacity
    /\ order' \in Seq(Names) /\ Len(order') = h + 1 /\ order'[1] = id
    /\ \A j \in 1..h : order'[j + 1] = order[j]

\* That keeps the list and its history in step.
LEMMA RecencyPushes ==
    ASSUME Recency, NEW id, NEW h, Pushing(id, h)
    PROVE  Recency'
  <1>0. capacity \in Nat /\ Len(order) \in Nat
    BY AlgorithmsAssumption DEF Recency
  <1>1. PICK n \in Nat : n = Len(order)
    BY <1>0
  <1>2. /\ DOMAIN order = 1..n /\ order \in [1..n -> Names] /\ order \in Seq(Names)
        /\ \A i, j \in 1..n : order[i] = order[j] => i = j
        /\ n <= capacity
    BY <1>1 DEF Recency
  <1>02. \A i \in 1..n : others[order[i]] = {order[j] : j \in 1..(i - 1)}
    BY <1>2 DEF Recency
  <1>3. /\ id \in Names /\ id \notin D!Ids(order) /\ added' = added \cup {id}
        /\ order' \in Seq(Names) /\ Len(order') = h + 1
        /\ order'[1] = id /\ \A j \in 1..h : order'[j + 1] = order[j]
    BY DEF Pushing
  <1>4. h \in Nat /\ h <= n /\ h < capacity /\ (h # n => h = n - 1 /\ n = capacity)
    BY <1>1 DEF Pushing
  <1>04. DOMAIN order' = 1..(h + 1)
    BY <1>3, <1>4
  <1>5. \A j \in 1..h : j \in 1..n /\ order'[j + 1] = order[j] /\ order[j] # id
    <2>1. \A j \in 1..h : j \in 1..n
      BY <1>1, <1>4
    <2>2. \A j \in 1..n : order[j] # id
      BY <1>2, <1>3 DEF D!Ids
    <2> QED BY <1>3, <2>1, <2>2
  <1>6. \A k \in 1..(h + 1) : k = 1 \/ (k - 1 \in 1..h /\ order'[k] = order[k - 1])
    <2> SUFFICES ASSUME NEW k \in 1..(h + 1), k # 1
                 PROVE  k - 1 \in 1..h /\ order'[k] = order[k - 1]
      OBVIOUS
    <2>1. k - 1 \in 1..h /\ (k - 1) + 1 = k
      BY <1>4
    <2>2. order'[(k - 1) + 1] = order[k - 1]
      BY <1>5, <2>1
    <2> QED BY <2>1, <2>2
  <1>7. /\ others' \in [Names -> SUBSET Names]
        /\ others'[id] = {}
        /\ \A m \in Names : m # id => others'[m] = others[m] \cup {id}
    BY <1>3 DEF Recency, D!Used, Pushing
  <1>8. \A k, l \in 1..(h + 1) : order'[k] = order'[l] => k = l
    <2> SUFFICES ASSUME NEW k \in 1..(h + 1), NEW l \in 1..(h + 1), order'[k] = order'[l]
                 PROVE  k = l
      OBVIOUS
    <2>1. CASE k # 1 /\ l # 1
      <3>1. k - 1 \in 1..n /\ l - 1 \in 1..n /\ order[k - 1] = order[l - 1]
        BY <1>5, <1>6, <2>1
      <3>2. k - 1 = l - 1
        BY <1>2, <3>1
      <3> QED BY <3>2
    <2>2. CASE k = 1 \/ l = 1
      <3>1. \A m \in 1..(h + 1) : m # 1 => order'[m] # id
        BY <1>5, <1>6
      <3> QED BY <1>3, <2>2, <3>1
    <2> QED BY <2>1, <2>2
  <1>9. ASSUME NEW k \in 1..(h + 1)
        PROVE  others'[order'[k]] = {order'[j] : j \in 1..(k - 1)}
    <2>1. CASE k = 1
      <3>1. 1..(k - 1) = {}
        BY <2>1
      <3> QED BY <1>3, <1>7, <2>1, <3>1
    <2>2. CASE k # 1
      <3>1. k - 1 \in 1..h /\ k - 1 \in 1..n /\ order'[k] = order[k - 1] /\ order[k - 1] # id
        BY <1>5, <1>6, <2>2
      <3>2. others'[order'[k]] = {order[j] : j \in 1..(k - 2)} \cup {id}
        <4>1. others[order[k - 1]] = {order[j] : j \in 1..((k - 1) - 1)} /\ (k - 1) - 1 = k - 2
          BY <1>02, <3>1, SMTT(30)
        <4>2. order[k - 1] \in Names
          BY <1>2, <3>1
        <4> QED BY <1>7, <3>1, <4>1, <4>2
      <3>3. \A j \in 1..(k - 2) : j + 1 \in 1..(k - 1) /\ order'[j + 1] = order[j]
        <4>1. \A j \in 1..(k - 2) : j + 1 \in 1..(k - 1) /\ j \in 1..h
          BY <1>4
        <4> QED BY <1>5, <4>1
      <3>4. \A j \in 1..(k - 1) : j = 1 \/ (j - 1 \in 1..(k - 2) /\ order'[j] = order[j - 1])
        <4>1. \A j \in 1..(k - 1) : j \in 1..(h + 1) /\ (j = 1 \/ j - 1 \in 1..(k - 2))
          BY <1>4
        <4> QED BY <1>6, <4>1
      <3>5. 1 \in 1..(k - 1)
        BY <2>2
      <3>6. {order[j] : j \in 1..(k - 2)} \cup {id} \subseteq {order'[j] : j \in 1..(k - 1)}
        BY <1>3, <3>3, <3>5
      <3>7. {order'[j] : j \in 1..(k - 1)} \subseteq {order[j] : j \in 1..(k - 2)} \cup {id}
        BY <1>3, <3>4
      <3> QED BY <3>2, <3>6, <3>7
    <2> QED BY <2>1, <2>2
  <1>10. id \in D!Ids(order') /\ \A j \in 1..h : order[j] \in D!Ids(order')
    <2>1. 1 \in DOMAIN order' /\ \A j \in 1..h : j + 1 \in DOMAIN order'
      BY <1>4, <1>04
    <2> QED BY <1>3, <1>5, <2>1 DEF D!Ids
  <1>11. ASSUME NEW m \in added', m \notin D!Ids(order')
         PROVE  IsFiniteSet(others'[m]) /\ Cardinality(others'[m]) >= capacity
    <2>1. m \in added /\ m # id /\ m \in Names
      BY <1>3, <1>10, <1>11 DEF Recency
    <2>2. others'[m] = others[m] \cup {id}
      BY <1>7, <2>1
    <2>3. CASE m \notin D!Ids(order)
      <3>1. IsFiniteSet(others[m]) /\ Cardinality(others[m]) >= capacity
        BY <2>1, <2>3 DEF Recency
      <3>2. /\ IsFiniteSet(others[m] \cup {id})
            /\ Cardinality(others[m] \cup {id}) = IF id \in others[m] THEN Cardinality(others[m])
                                                  ELSE Cardinality(others[m]) + 1
        BY <3>1, FS_AddElement
      <3>3. Cardinality(others[m]) \in Nat
        BY <3>1, FS_CardinalityType
      <3> QED BY <1>0, <2>2, <3>1, <3>2, <3>3
    <2>4. CASE m \in D!Ids(order)
      <3>1. PICK k \in 1..n : m = order[k]
        BY <1>2, <2>4 DEF D!Ids
      <3>2. k = n /\ n = capacity
        <4>1. k \notin 1..h
          BY <1>10, <1>11, <3>1
        <4> QED BY <1>1, <1>4, <3>1, <4>1
      <3> DEFINE A == {order[j] : j \in 1..(n - 1)}
                 f == [j \in 1..(n - 1) |-> order[j]]
      <3>3. others[m] = A
        BY <1>02, <3>1, <3>2
      <3>4. n - 1 \in Nat /\ IsFiniteSet(1..(n - 1)) /\ Cardinality(1..(n - 1)) = n - 1
        <4>1. n - 1 \in Nat
          BY <1>1, <3>1
        <4>2. PICK m1 \in Nat : m1 = n - 1
          BY <4>1
        <4>3. IsFiniteSet(1..m1) /\ Cardinality(1..m1) = m1
          BY FS_Interval
        <4> QED BY <4>1, <4>2, <4>3
      <3>5. \A j \in 1..(n - 1) : j \in 1..n
        BY <1>1
      <3>6. f \in Bijection(1..(n - 1), A)
        BY <1>2, <3>5 DEF Bijection, Injection, Surjection, IsInjective
      <3>7. ExistsBijection(1..(n - 1), A)
        BY <3>6 DEF ExistsBijection
      <3> HIDE DEF A
      <3>8. IsFiniteSet(A) /\ Cardinality(A) = n - 1
        BY <3>4, <3>7, FS_Bijection
      <3>9. id \notin A
        BY <1>2, <1>3, <3>5 DEF A, D!Ids
      <3>10. IsFiniteSet(A \cup {id}) /\ Cardinality(A \cup {id}) = (n - 1) + 1
        BY <3>8, <3>9, FS_AddElement
      <3> QED BY <1>1, <2>2, <3>2, <3>3, <3>10
    <2> QED BY <2>3, <2>4
  <1>12. added' \subseteq Names
    BY <1>3 DEF Recency
  <1>13. h + 1 <= capacity
    BY <1>0, <1>4
  <1> QED BY <1>3, <1>04, <1>7, <1>8, <1>9, <1>11, <1>12, <1>13 DEF Recency

\* Has and Add keep the list and its history in step.
LEMMA RecencyStep ==
    ASSUME Recency, NEW id \in Names \cup {NoId}, D!DoHas(id) \/ D!DoAdd(id)
    PROVE  Recency'
  <1>1. CASE UNCHANGED <<order, added, others>>
    BY <1>1 DEF Recency, D!Ids
  <1>2. CASE id \in D!Ids(order) /\ id # NoId
    <2>1. order' = D!MoveToFront(order, id) /\ D!Used(id) /\ added' \subseteq added \cup {id}
      BY <1>2 DEF D!DoHas, D!DoAdd, D!Has, D!TouchedByHas, D!Add
    <2> QED BY <1>2, <2>1, RecencyMoves
  <1>3. CASE id \notin D!Ids(order) /\ id # NoId /\ D!DoAdd(id)
    <2>1. /\ id \in Names /\ D!Used(id) /\ added' = added \cup {id}
          /\ order' = <<id>> \o (IF Len(order) = capacity THEN SubSeq(order, 1, Len(order) - 1)
                                 ELSE order)
      BY <1>3 DEF D!DoAdd, D!Add, D!PushFront, D!RemoveBack
    <2>2. /\ order \in Seq(Names) /\ Len(order) \in Nat /\ Len(order) <= capacity
          /\ capacity \in Nat \ {0}
      BY AlgorithmsAssumption DEF Recency
    <2>0. SubSeq(order, 1, Len(order)) = order
      BY <2>2
    <2> DEFINE h == IF Len(order) = capacity THEN Len(order) - 1 ELSE Len(order)
    <2>3. /\ h \in Nat /\ h <= Len(order) /\ h < capacity
          /\ h # Len(order) => h = Len(order) - 1 /\ Len(order) = capacity
      <3>1. PICK n \in Nat : n = Len(order) /\ n <= capacity
        BY <2>2
      <3> QED BY <2>2, <3>1
    <2>4. order' = <<id>> \o SubSeq(order, 1, h)
      BY <2>0, <2>1
    <2> HIDE DEF h
    <2>5. /\ order' \in Seq(Names) /\ Len(order') = h + 1 /\ order'[1] = id
          /\ \A j \in 1..h : order'[j + 1] = order[j]
      <3>1. h \in 0..Len(order)
        BY <2>2, <2>3
      <3> QED BY <2>1, <2>2, <2>4, <3>1, Pushed
    <2>6. Pushing(id, h)
      BY <1>3, <2>1, <2>3, <2>5 DEF Pushing
    <2> QED BY <2>6, RecencyPushes
  <1> QED
    BY <1>1, <1>2, <1>3 DEF D!DoHas, D!DoAdd, D!Has, D!TouchedByHas, D!Add

\* An id that was added is remembered until at least capacity other ids were used
\* after it, for every capacity and any calls of Has and Add: what the webhook
\* handlers rely on when they take a redelivery for a duplicate.
THEOREM RecentRememberedHolds == Spec => []RecentRemembered
  <1>1. Init => Recency
    BY AlgorithmsAssumption DEF Init, D!Init, Recency
  <1>2. Recency /\ [Next]_vars => Recency'
    <2> SUFFICES ASSUME Recency, [Next]_vars PROVE Recency'
      OBVIOUS
    <2>1. CASE UNCHANGED <<order, added, others>>
      BY <2>1 DEF Recency, D!Ids
    <2>2. CASE D!Next
      BY <2>2, RecencyStep DEF D!Next
    <2> QED BY <2>1, <2>2 DEF Next, Evaluate, UseDeduper, vars
  <1>3. Recency => RecentRemembered
    <2> SUFFICES ASSUME Recency, NEW n \in added, Cardinality(others[n]) < capacity,
                        n \notin D!Ids(order)
                 PROVE  FALSE
      BY DEF RecentRemembered, D!RecentRemembered, D!Cardinality, Cardinality
    <2>0. IsFiniteSet(others[n]) /\ Cardinality(others[n]) >= capacity
      BY DEF Recency
    <2>1. Cardinality(others[n]) \in Nat /\ Cardinality(others[n]) >= capacity
      BY <2>0, FS_CardinalityType
    <2> QED BY <2>1, AlgorithmsAssumption
  <1> QED BY <1>1, <1>2, <1>3, PTL DEF Spec

-----------------------------------------------------------------------------
(* Options: the passes of New. *)

\* A set of natural numbers has a least element: what induction is used for here.
LEMMA LeastNumber ==
    ASSUME NEW S, S \subseteq Nat, S # {}
    PROVE  \E m \in S : \A k \in S : m <= k
  <1> DEFINE F == {0..n : n \in S}
             R == StrictSubsetOrdering(Nat)
  <1>1. F \subseteq FiniteSubsetsOf(Nat) /\ F # {}
    <2>1. ASSUME NEW n \in S PROVE 0..n \in SUBSET Nat /\ IsFiniteSet(0..n)
      BY FS_Interval
    <2> QED BY <2>1 DEF FiniteSubsetsOf
  <1>2. IsWellFoundedOn(R, FiniteSubsetsOf(Nat))
    BY FS_StrictSubsetOrderingWellFounded
  <1> HIDE DEF F, R
  <1>3. PICK I \in F : \A J \in F : <<J, I>> \notin R
    BY <1>1, <1>2, WFMin
  <1>4. PICK m \in S : I = 0..m
    BY DEF F
  <1>5. ASSUME NEW k \in S, k < m PROVE FALSE
    <2>1. 0..k \in F
      BY DEF F
    <2>2. 0..k \subseteq 0..m /\ 0..k # 0..m
      BY <1>5, SMT
    <2>3. 0..k \in SUBSET Nat /\ 0..m \in SUBSET Nat
      OBVIOUS
    <2>4. <<0..k, 0..m>> \in R
      BY <2>2, <2>3 DEF R, StrictSubsetOrdering
    <2> QED BY <1>3, <1>4, <2>1, <2>4
  <1> QED BY <1>5

\* The client after each of the first m options.
Passes(after, c, opts, m) ==
    after = [n \in 0..m |-> IF n = 0 THEN c ELSE Apply(after[n - 1], opts[n])]

\* There is such a function: the recursion of Applied is sound.
LEMMA PassExists ==
    ASSUME NEW c, NEW opts, NEW n \in Nat
    PROVE  \E after : Passes(after, c, opts, n)
  <1> DEFINE Bads == {m \in Nat : ~\E after : Passes(after, c, opts, m)}
  <1> SUFFICES ASSUME Bads # {} PROVE FALSE
    OBVIOUS
  <1>1. PICK m \in Bads : \A k \in Bads : m <= k
    BY LeastNumber
  <1>2. m # 0
    <2>1. Passes([k \in 0..0 |-> c], c, opts, 0)
      BY DEF Passes
    <2> QED BY <1>1, <2>1
  <1>3. m - 1 \in Nat /\ m - 1 \notin Bads
    BY <1>1, <1>2
  <1>4. PICK g : Passes(g, c, opts, m - 1)
    BY <1>3
  <1> DEFINE f == [k \in 0..m |-> IF k < m THEN g[k] ELSE Apply(g[m - 1], opts[m])]
  <1>5. \A k \in 0..(m - 1) : f[k] = g[k] /\ k \in 0..m
    BY <1>1
  <1>6. \A k \in 0..(m - 1) : g[k] = IF k = 0 THEN c ELSE Apply(g[k - 1], opts[k])
    BY <1>4 DEF Passes
  <1>7. \A k \in 0..m : f[k] = IF k = 0 THEN c ELSE Apply(f[k - 1], opts[k])
    <2> SUFFICES ASSUME NEW k \in 0..m
                 PROVE  f[k] = IF k = 0 THEN c ELSE Apply(f[k - 1], opts[k])
      OBVIOUS
    <2>1. CASE k = m
      <3>1. f[m - 1] = g[m - 1]
        BY <1>3, <1>5
      <3> QED BY <1>2, <2>1, <3>1
    <2>2. CASE k # m /\ k # 0
      <3>1. k \in 0..(m - 1) /\ k - 1 \in 0..(m - 1)
        BY <1>1, <2>2
      <3>2. f[k] = g[k] /\ f[k - 1] = g[k - 1]
        BY <1>5, <3>1
      <3> QED BY <1>6, <2>2, <3>1, <3>2
    <2>3. CASE k # m /\ k = 0
      <3>1. k \in 0..(m - 1)
        BY <1>3, <2>3
      <3> QED BY <1>5, <1>6, <2>3, <3>1
    <2> QED BY <2>1, <2>2, <2>3
  <1>8. f = [k \in 0..m |-> f[k]]
    OBVIOUS
  <1> HIDE DEF f
  <1>9. Passes(f, c, opts, m)
    BY <1>7, <1>8 DEF Passes
  <1> QED BY <1>1, <1>9

\* A pass, as the sequence of the clients after each option.
Run(f, c, opts) ==
    /\ f[0] = c
    /\ \A n \in 1..Len(opts) : f[n] = Apply(f[n - 1], opts[n])

\* Applied is where such a sequence ends.
LEMMA AppliedRuns ==
    ASSUME NEW S, NEW opts \in Seq(S), NEW c
    PROVE  \E f : Run(f, c, opts) /\ Applied(c, opts) = f[Len(opts)]
  <1> DEFINE n == Len(opts)
             f == CHOOSE after : Passes(after, c, opts, n)
  <1>1. n \in Nat
    OBVIOUS
  <1>2. Passes(f, c, opts, n)
    BY <1>1, PassExists
  <1>3. Applied(c, opts) = f[n]
    BY DEF Applied, Passes
  <1> HIDE DEF n, f
  <1>4. \A k \in 0..n : f[k] = IF k = 0 THEN c ELSE Apply(f[k - 1], opts[k])
    BY <1>2 DEF Passes
  <1>5. f[0] = c /\ \A k \in 1..n : f[k] = Apply(f[k - 1], opts[k])
    <2>1. 0 \in 0..n /\ \A k \in 1..n : k \in 0..n /\ k # 0
      BY <1>1
    <2> QED BY <1>4, <2>1
  <1> QED BY <1>3, <1>5 DEF Run, n

\* The options of the packages run first.
LEMMA OwnRunsFirst ==
    ASSUME NEW S, NEW own \in Seq(S), NEW opts \in Seq(S), NEW c
    PROVE  \E f, g : /\ Run(f, c, own) /\ Run(g, f[Len(own)], opts)
                     /\ Applied(c, own \o opts) = g[Len(opts)]
  <1> DEFINE k == Len(own)
             n == Len(opts)
             all == own \o opts
  <1>1. /\ all \in Seq(S) /\ Len(all) = k + n
        /\ \A i \in 1..k : all[i] = own[i]
        /\ \A i \in 1..n : all[k + i] = opts[i]
    BY Concatenated
  <1>2. k \in Nat /\ n \in Nat
    OBVIOUS
  <1> HIDE DEF all
  <1>3. PICK f : Run(f, c, all) /\ Applied(c, all) = f[Len(all)]
    BY <1>1, AppliedRuns
  <1> HIDE DEF k, n
  <1>4. f[0] = c /\ \A i \in 1..(k + n) : f[i] = Apply(f[i - 1], all[i])
    BY <1>1, <1>3 DEF Run
  <1>5. Run(f, c, own)
    <2>1. \A i \in 1..k : i \in 1..(k + n)
      BY <1>2
    <2>2. \A i \in 1..k : f[i] = Apply(f[i - 1], own[i])
      BY <1>1, <1>4, <2>1
    <2> QED BY <1>4, <2>2 DEF Run, k
  <1> DEFINE g == [i \in 0..n |-> f[k + i]]
  <1>6. g[0] = f[k] /\ g[n] = f[k + n]
    BY <1>2
  <1>7. \A i \in 1..n : g[i] = Apply(g[i - 1], opts[i])
    <2> SUFFICES ASSUME NEW i \in 1..n PROVE g[i] = Apply(g[i - 1], opts[i])
      OBVIOUS
    <2>1. k + i \in 1..(k + n) /\ (k + i) - 1 = k + (i - 1) /\ i \in 0..n /\ i - 1 \in 0..n
      BY <1>2
    <2>2. f[k + i] = Apply(f[k + (i - 1)], all[k + i])
      BY <1>4, <2>1
    <2>3. g[i] = f[k + i] /\ g[i - 1] = f[k + (i - 1)] /\ all[k + i] = opts[i]
      BY <1>1, <2>1
    <2> QED BY <2>2, <2>3
  <1> HIDE DEF g
  <1>8. Run(g, f[k], opts)
    BY <1>6, <1>7 DEF Run, n
  <1>9. Applied(c, all) = g[n]
    BY <1>1, <1>3, <1>6
  <1> QED BY <1>5, <1>8, <1>9 DEF k, n, all

-----------------------------------------------------------------------------
(* Options: what an option does to a client. *)

\* The clients New can build.
Things == Objects \cup {"default", "new", "Public", "Personal", "TokenAuth", "RequestIDAuth", Nil}

Hosts == {"https://api.monobank.ua", "https://corp-api.monobank.ua", "BaseURLProduction",
          "https", "local", "remote", "broken"}

URLs == [name : Hosts, parses : BOOLEAN, https : BOOLEAN, loopback : BOOLEAN]

Clients ==
    [http : [kind : {"client", "doer"}, of : Things, transport : Things],
     auth : Things, baseURL : URLs,
     retry : [maxAttempts : Int, baseDelay : Int, maxDelay : Int],
     limiter : Things, userAgent : Things, logger : Things, onReq : Things, onResp : Things,
     unsafeRetries : BOOLEAN, allowInsecureBaseURL : BOOLEAN,
     optErr : {"none", "ErrInvalidURL", "ErrInsecureBaseURL"}]

\* The options a caller or a package can pass.
Settings ==
    [opt : {"WithBaseURL"}, v : URLs]
    \cup [opt : {"WithInsecureBaseURL", "WithUnsafeRetries"}, v : BOOLEAN]
    \cup [opt : {"WithRetry"}, v : [attempts : Int, base : Int, max : Int]]
    \cup [opt : {"WithHTTPClient", "WithHTTPDoer", "WithRoundTripper"}, v : Things]
    \cup [opt : {"WithAuth", "WithLogger", "WithRequestHook", "WithResponseHook"}, v : Things]
    \cup [opt : {"WithUserAgent", "WithRateLimiter"}, v : Things]

\* o sets what name sets.
Sets(o, name) == o.opt = name /\ o.v # Nil

\* Every option by itself: which field it sets, and that it leaves the others.
LEMMA ApplyIs ==
    ASSUME NEW c \in Clients, NEW o \in Settings
    PROVE  LET d == Apply(c, o) IN
           /\ d \in Clients
           /\ d.auth = IF Sets(o, "WithAuth") THEN o.v ELSE c.auth
           /\ d.limiter = IF Sets(o, "WithRateLimiter") THEN o.v ELSE c.limiter
           /\ d.unsafeRetries = IF Sets(o, "WithUnsafeRetries") THEN o.v ELSE c.unsafeRetries
           /\ d.allowInsecureBaseURL =
                 IF Sets(o, "WithInsecureBaseURL") THEN o.v ELSE c.allowInsecureBaseURL
           /\ d.http = IF Sets(o, "WithHTTPClient") \/ Sets(o, "WithHTTPDoer")
                          \/ Sets(o, "WithRoundTripper")
                       THEN httpOptions(c, o).http ELSE c.http
           /\ d.retry = IF o.opt = "WithRetry" THEN WithRetry(c, o.v).retry ELSE c.retry
           /\ d.baseURL = IF o.opt = "WithBaseURL" THEN WithBaseURL(c, o.v).baseURL ELSE c.baseURL
           /\ d.optErr = IF o.opt = "WithBaseURL" THEN WithBaseURL(c, o.v).optErr ELSE c.optErr
  <1> DEFINE Fields(d) ==
           /\ d \in Clients
           /\ d.auth = IF Sets(o, "WithAuth") THEN o.v ELSE c.auth
           /\ d.limiter = IF Sets(o, "WithRateLimiter") THEN o.v ELSE c.limiter
           /\ d.unsafeRetries = IF Sets(o, "WithUnsafeRetries") THEN o.v ELSE c.unsafeRetries
           /\ d.allowInsecureBaseURL =
                 IF Sets(o, "WithInsecureBaseURL") THEN o.v ELSE c.allowInsecureBaseURL
           /\ d.http = IF Sets(o, "WithHTTPClient") \/ Sets(o, "WithHTTPDoer")
                          \/ Sets(o, "WithRoundTripper")
                       THEN httpOptions(c, o).http ELSE c.http
           /\ d.retry = IF o.opt = "WithRetry" THEN WithRetry(c, o.v).retry ELSE c.retry
           /\ d.baseURL = IF o.opt = "WithBaseURL" THEN WithBaseURL(c, o.v).baseURL ELSE c.baseURL
           /\ d.optErr = IF o.opt = "WithBaseURL" THEN WithBaseURL(c, o.v).optErr ELSE c.optErr
  <1>1. CASE o \in [opt : {"WithBaseURL"}, v : URLs]
    <2>1. o.opt = "WithBaseURL" /\ o.v \in URLs
      BY <1>1
    <2>2. Apply(c, o) = WithBaseURL(c, o.v)
      BY <2>1 DEF Apply
    <2>3. Fields(WithBaseURL(c, o.v))
      BY <2>1 DEF WithBaseURL, SetBaseURL, isInsecureBaseURL, Clients, Sets
    <2> QED BY <2>2, <2>3
  <1>2. CASE o \in [opt : {"WithInsecureBaseURL", "WithUnsafeRetries"}, v : BOOLEAN]
    <2>1. o.opt \in {"WithInsecureBaseURL", "WithUnsafeRetries"} /\ o.v \in BOOLEAN /\ o.v # Nil
      BY <1>2, OptionsAssumption
    <2>2. CASE o.opt = "WithInsecureBaseURL"
      <3>1. Apply(c, o) = [c EXCEPT !.allowInsecureBaseURL = o.v]
        BY <2>2 DEF Apply, WithInsecureBaseURL
      <3>2. Fields([c EXCEPT !.allowInsecureBaseURL = o.v])
        BY <2>1, <2>2 DEF Clients, Sets
      <3> QED BY <3>1, <3>2
    <2>3. CASE o.opt = "WithUnsafeRetries"
      <3>1. Apply(c, o) = [c EXCEPT !.unsafeRetries = o.v]
        BY <2>1, <2>3 DEF Apply, limits
      <3>2. Fields([c EXCEPT !.unsafeRetries = o.v])
        BY <2>1, <2>3 DEF Clients, Sets
      <3> QED BY <3>1, <3>2
    <2> QED BY <2>1, <2>2, <2>3
  <1>3. CASE o \in [opt : {"WithRetry"}, v : [attempts : Int, base : Int, max : Int]]
    <2>1. o.opt = "WithRetry" /\ o.v \in [attempts : Int, base : Int, max : Int]
      BY <1>3
    <2>2. Apply(c, o) = WithRetry(c, o.v)
      BY <2>1 DEF Apply
    <2>3. defaultBaseDelay \in Int /\ defaultMaxDelay \in Int
      BY OptionsAssumption
    <2>4. \E r \in [maxAttempts : Int, baseDelay : Int, maxDelay : Int] :
             WithRetry(c, o.v) = [c EXCEPT !.retry = r]
      <3> DEFINE or(given, current, default) ==
                    IF given > 0 THEN given ELSE IF current = 0 THEN default ELSE current
                 plain == [maxAttempts |-> o.v.attempts,
                           baseDelay |-> or(o.v.base, c.retry.baseDelay, defaultBaseDelay),
                           maxDelay |-> or(o.v.max, c.retry.maxDelay, defaultMaxDelay)]
      <3>1. c.retry.baseDelay \in Int /\ c.retry.maxDelay \in Int
        BY DEF Clients
      <3>2. plain \in [maxAttempts : Int, baseDelay : Int, maxDelay : Int]
        BY <2>1, <2>3, <3>1
      <3>3. defaultRetry \in [maxAttempts : Int, baseDelay : Int, maxDelay : Int]
        BY <2>3 DEF defaultRetry
      <3>4. WithRetry(c, o.v) = [c EXCEPT !.retry = IF o.v.attempts = 0 THEN defaultRetry ELSE plain]
        BY DEF WithRetry, Clients
      <3> HIDE DEF plain
      <3> QED BY <3>2, <3>3, <3>4
    <2>5. Fields(WithRetry(c, o.v))
      BY <2>1, <2>4 DEF Clients, Sets
    <2> QED BY <2>2, <2>5
  <1>4. CASE o \in [opt : {"WithHTTPClient", "WithHTTPDoer", "WithRoundTripper"}, v : Things]
    <2>1. o.opt \in {"WithHTTPClient", "WithHTTPDoer", "WithRoundTripper"} /\ o.v \in Things
      BY <1>4
    <2>2. Apply(c, o) = httpOptions(c, o)
      BY <2>1 DEF Apply
    <2>3. CASE o.v = Nil
      BY <2>1, <2>2, <2>3 DEF httpOptions, Sets
    <2>4. CASE o.v # Nil
      <3>1. \E h \in [kind : {"client", "doer"}, of : Things, transport : Things] :
               httpOptions(c, o) = [c EXCEPT !.http = h]
        <4> DEFINE H == [kind : {"client", "doer"}, of : Things, transport : Things]
                   h == [kind |-> IF o.opt = "WithHTTPDoer" THEN "doer" ELSE "client",
                         of |-> IF o.opt = "WithRoundTripper"
                                THEN IF c.http.kind = "client" THEN c.http.of ELSE "new"
                                ELSE o.v,
                         transport |-> o.v]
        <4>1. c.http.of \in Things /\ "new" \in Things
          BY DEF Clients, Things
        <4>2. h \in H
          BY <2>1, <4>1
        <4>3. httpOptions(c, o) = [c EXCEPT !.http = h]
          <5>1. CASE o.opt = "WithHTTPClient"
            BY <2>4, <5>1 DEF httpOptions
          <5>2. CASE o.opt = "WithHTTPDoer"
            BY <2>4, <5>2 DEF httpOptions
          <5>3. CASE o.opt = "WithRoundTripper"
            BY <2>4, <5>3 DEF httpOptions, Clients
          <5> QED BY <2>1, <5>1, <5>2, <5>3
        <4> HIDE DEF h
        <4> QED BY <4>2, <4>3
      <3>2. Fields(httpOptions(c, o))
        BY <2>1, <2>4, <3>1 DEF Clients, Sets
      <3> QED BY <2>2, <3>2
    <2> QED BY <2>3, <2>4
  <1>5. CASE o \in [opt : {"WithAuth", "WithLogger", "WithRequestHook", "WithResponseHook"}, v : Things]
    <2>1. o.opt \in {"WithAuth", "WithLogger", "WithRequestHook", "WithResponseHook"} /\ o.v \in Things
      BY <1>5
    <2>2. Apply(c, o) = attachments(c, o)
      BY <2>1 DEF Apply
    <2>3. Fields(attachments(c, o))
      BY <2>1 DEF attachments, Clients, Sets
    <2> QED BY <2>2, <2>3
  <1>6. CASE o \in [opt : {"WithUserAgent", "WithRateLimiter"}, v : Things]
    <2>1. o.opt \in {"WithUserAgent", "WithRateLimiter"} /\ o.v \in Things
      BY <1>6
    <2>2. Apply(c, o) = limits(c, o)
      BY <2>1 DEF Apply
    <2>3. Fields(limits(c, o))
      BY <2>1 DEF limits, Clients, Sets
    <2> QED BY <2>2, <2>3
  <1> QED BY <1>1, <1>2, <1>3, <1>4, <1>5, <1>6 DEF Settings

-----------------------------------------------------------------------------
(* Options: the last one of a name. *)

\* The largest element.
LEMMA MaxIs ==
    ASSUME NEW S \in SUBSET Nat, NEW m \in S, \A k \in S : k <= m
    PROVE  Max(S) = m
  <1> DEFINE P(x) == x \in S /\ \A k \in S : x >= k
  <1>1. P(m)
    OBVIOUS
  <1>2. \A x : P(x) => x = m
    OBVIOUS
  <1>3. Max(S) = CHOOSE x : P(x)
    BY DEF Max
  <1> HIDE DEF P
  <1> QED BY <1>1, <1>2, <1>3

\* A nonempty set of positions up to n has a largest one.
LEMMA MaxExists ==
    ASSUME NEW n \in Nat, NEW S \in SUBSET (1..n), S # {}
    PROVE  Max(S) \in S /\ \A k \in S : k <= Max(S)
  <1> DEFINE B == {j \in Nat : \A k \in S : k <= j}
  <1>1. n \in B
    OBVIOUS
  <1>2. PICK m \in B : \A j \in B : m <= j
    BY <1>1, LeastNumber
  <1>3. m \in S
    <2> SUFFICES ASSUME m \notin S PROVE FALSE
      OBVIOUS
    <2>1. \A k \in S : k \in 1..n /\ k <= m /\ k # m
      BY <1>2
    <2>2. PICK k \in S : TRUE
      OBVIOUS
    <2>3. m - 1 \in B
      BY <1>2, <2>1, <2>2
    <2> QED BY <1>2, <2>3
  <1>4. S \in SUBSET Nat /\ \A k \in S : k <= m
    BY <1>2
  <1>5. Max(S) = m
    BY <1>3, <1>4, MaxIs
  <1> QED BY <1>3, <1>4, <1>5

\* The positions up to n that set what name sets, and the last such argument.
Upto(opts, name, n) == {i \in 1..n : Sets(opts[i], name)}
Final(opts, name, n, init) ==
    IF Upto(opts, name, n) = {} THEN init ELSE opts[Max(Upto(opts, name, n))].v

\* One more option.
LEMMA UptoStep ==
    ASSUME NEW opts, NEW name, NEW n \in Nat, n > 0
    PROVE  /\ Upto(opts, name, 0) = {}
           /\ Upto(opts, name, n) =
                 IF Sets(opts[n], name) THEN Upto(opts, name, n - 1) \cup {n}
                 ELSE Upto(opts, name, n - 1)
  <1>1. 1..n = (1..(n - 1)) \cup {n}
    OBVIOUS
  <1> QED BY <1>1 DEF Upto

\* One more option: the last argument of its name becomes the final one.
LEMMA FinalStep ==
    ASSUME NEW opts, NEW name, NEW init, NEW n \in Nat, n > 0
    PROVE  Final(opts, name, n, init) =
              IF Sets(opts[n], name) THEN opts[n].v ELSE Final(opts, name, n - 1, init)
  <1>1. ASSUME Sets(opts[n], name) PROVE Final(opts, name, n, init) = opts[n].v
    <2> DEFINE S == Upto(opts, name, n)
    <2>1. n \in S /\ S \in SUBSET Nat /\ \A k \in S : k <= n
      BY <1>1 DEF Upto
    <2>2. Max(S) = n /\ S # {}
      BY <2>1, MaxIs
    <2> QED BY <2>2 DEF Final
  <1> QED BY <1>1, UptoStep DEF Final

-----------------------------------------------------------------------------
(* Options: the client after the first n of them. *)

\* Where a client was set, whether a transport was put around it since, the
\* client or doer that counts and which of the two it is.
ClientsAt(opts, n) == Upto(opts, "WithHTTPClient", n) \cup Upto(opts, "WithHTTPDoer", n)
Wrapped(opts, n) == \E i \in Upto(opts, "WithRoundTripper", n) : \A j \in ClientsAt(opts, n) : j < i
Base(opts, n) == IF ClientsAt(opts, n) = {} THEN "default" ELSE opts[Max(ClientsAt(opts, n))].v
Doer(opts, n) == ClientsAt(opts, n) # {} /\ opts[Max(ClientsAt(opts, n))].opt = "WithHTTPDoer"

\* One more option.
LEMMA BaseStep ==
    ASSUME NEW opts, NEW n \in Nat, n > 0
    PROVE  /\ ~Wrapped(opts, 0) /\ Base(opts, 0) = "default" /\ ~Doer(opts, 0)
           /\ Sets(opts[n], "WithHTTPClient") \/ Sets(opts[n], "WithHTTPDoer") =>
                 /\ ~Wrapped(opts, n) /\ Base(opts, n) = opts[n].v
                 /\ Doer(opts, n) <=> opts[n].opt = "WithHTTPDoer"
           /\ ~(Sets(opts[n], "WithHTTPClient") \/ Sets(opts[n], "WithHTTPDoer")) =>
                 /\ Base(opts, n) = Base(opts, n - 1)
                 /\ Doer(opts, n) <=> Doer(opts, n - 1)
                 /\ Wrapped(opts, n) <=>
                       (Sets(opts[n], "WithRoundTripper") \/ Wrapped(opts, n - 1))
  <1> DEFINE B(k) == ClientsAt(opts, k)
             T(k) == Upto(opts, "WithRoundTripper", k)
  <1>1. B(0) = {} /\ T(0) = {}
    BY DEF ClientsAt, Upto
  <1>2. B(n) = IF Sets(opts[n], "WithHTTPClient") \/ Sets(opts[n], "WithHTTPDoer")
               THEN B(n - 1) \cup {n} ELSE B(n - 1)
    <2>1. /\ Upto(opts, "WithHTTPClient", n) =
                IF Sets(opts[n], "WithHTTPClient") THEN Upto(opts, "WithHTTPClient", n - 1) \cup {n}
                ELSE Upto(opts, "WithHTTPClient", n - 1)
          /\ Upto(opts, "WithHTTPDoer", n) =
                IF Sets(opts[n], "WithHTTPDoer") THEN Upto(opts, "WithHTTPDoer", n - 1) \cup {n}
                ELSE Upto(opts, "WithHTTPDoer", n - 1)
      BY UptoStep
    <2> QED BY <2>1 DEF ClientsAt
  <1>3. T(n) = IF Sets(opts[n], "WithRoundTripper") THEN T(n - 1) \cup {n} ELSE T(n - 1)
    BY UptoStep
  <1>4. B(n) \in SUBSET (1..n) /\ T(n) \in SUBSET (1..n) /\ B(n - 1) \in SUBSET (1..(n - 1))
    BY DEF ClientsAt, Upto
  <1>5. ~Wrapped(opts, 0) /\ Base(opts, 0) = "default" /\ ~Doer(opts, 0)
    BY <1>1 DEF Wrapped, Base, Doer
  <1>6. ASSUME Sets(opts[n], "WithHTTPClient") \/ Sets(opts[n], "WithHTTPDoer")
        PROVE  /\ ~Wrapped(opts, n) /\ Base(opts, n) = opts[n].v
               /\ Doer(opts, n) <=> opts[n].opt = "WithHTTPDoer"
    <2>1. n \in B(n)
      BY <1>2, <1>6
    <2>2. B(n) \in SUBSET Nat /\ \A k \in B(n) : k <= n
      BY <1>4
    <2>3. Max(B(n)) = n
      BY <2>1, <2>2, MaxIs
    <2>4. \A i \in T(n) : ~(n < i)
      BY <1>4
    <2> QED BY <2>1, <2>3, <2>4 DEF Wrapped, Base, Doer
  <1>7. ASSUME ~(Sets(opts[n], "WithHTTPClient") \/ Sets(opts[n], "WithHTTPDoer"))
        PROVE  /\ Base(opts, n) = Base(opts, n - 1)
               /\ Doer(opts, n) <=> Doer(opts, n - 1)
               /\ Wrapped(opts, n) <=> (Sets(opts[n], "WithRoundTripper") \/ Wrapped(opts, n - 1))
    <2>1. B(n) = B(n - 1)
      BY <1>2, <1>7
    <2>2. \A j \in B(n - 1) : j < n
      BY <1>4
    <2> QED BY <1>3, <2>1, <2>2 DEF Wrapped, Base, Doer
  <1> QED BY <1>5, <1>6, <1>7

\* What every pass of New makes of the options it has seen, s being the client
\* it started from.
Configured(c, s, opts, n) ==
    /\ c \in Clients
    /\ c.auth = Final(opts, "WithAuth", n, s.auth)
    /\ c.limiter = Final(opts, "WithRateLimiter", n, s.limiter)
    /\ c.unsafeRetries = Final(opts, "WithUnsafeRetries", n, s.unsafeRetries)
    /\ c.allowInsecureBaseURL =
          Final(opts, "WithInsecureBaseURL", n, s.allowInsecureBaseURL)
    /\ c.http.transport =
          IF Wrapped(opts, n) THEN Final(opts, "WithRoundTripper", n, Nil) ELSE Base(opts, n)
    /\ c.http.of = IF Wrapped(opts, n) /\ Doer(opts, n) THEN "new" ELSE Base(opts, n)
    /\ c.http.kind = IF ~Wrapped(opts, n) /\ Doer(opts, n) THEN "doer" ELSE "client"

\* Delays that make a pause: never negative, and positive once WithRetry was used.
Paused(c) ==
    /\ c.retry.baseDelay \in Nat /\ c.retry.maxDelay \in Nat /\ c.retry.maxAttempts \in Int
    /\ c.retry.maxAttempts # 0 => c.retry.baseDelay > 0 /\ c.retry.maxDelay > 0

\* One more option keeps the settings what the options so far say.
LEMMA ConfiguredStep ==
    ASSUME NEW c, NEW s, NEW S, NEW opts \in Seq(S), NEW n \in 1..Len(opts),
           opts[n] \in Settings, Configured(c, s, opts, n - 1)
    PROVE  Configured(Apply(c, opts[n]), s, opts, n)
  <1> DEFINE o == opts[n]
             d == Apply(c, o)
             based == Sets(o, "WithHTTPClient") \/ Sets(o, "WithHTTPDoer")
  <1>0. n \in Nat /\ n > 0
    OBVIOUS
  <1>1. /\ d \in Clients
        /\ d.auth = IF Sets(o, "WithAuth") THEN o.v ELSE c.auth
        /\ d.limiter = IF Sets(o, "WithRateLimiter") THEN o.v ELSE c.limiter
        /\ d.unsafeRetries = IF Sets(o, "WithUnsafeRetries") THEN o.v ELSE c.unsafeRetries
        /\ d.allowInsecureBaseURL =
              IF Sets(o, "WithInsecureBaseURL") THEN o.v ELSE c.allowInsecureBaseURL
        /\ d.http = IF Sets(o, "WithHTTPClient") \/ Sets(o, "WithHTTPDoer")
                       \/ Sets(o, "WithRoundTripper")
                    THEN httpOptions(c, o).http ELSE c.http
    BY ApplyIs DEF Configured
  <1>2. /\ Final(opts, "WithAuth", n, s.auth) =
              IF Sets(o, "WithAuth") THEN o.v ELSE Final(opts, "WithAuth", n - 1, s.auth)
        /\ Final(opts, "WithRateLimiter", n, s.limiter) =
              IF Sets(o, "WithRateLimiter") THEN o.v
              ELSE Final(opts, "WithRateLimiter", n - 1, s.limiter)
        /\ Final(opts, "WithUnsafeRetries", n, s.unsafeRetries) =
              IF Sets(o, "WithUnsafeRetries") THEN o.v
              ELSE Final(opts, "WithUnsafeRetries", n - 1, s.unsafeRetries)
        /\ Final(opts, "WithInsecureBaseURL", n, s.allowInsecureBaseURL) =
              IF Sets(o, "WithInsecureBaseURL") THEN o.v
              ELSE Final(opts, "WithInsecureBaseURL", n - 1, s.allowInsecureBaseURL)
        /\ Final(opts, "WithRoundTripper", n, Nil) =
              IF Sets(o, "WithRoundTripper") THEN o.v
              ELSE Final(opts, "WithRoundTripper", n - 1, Nil)
    BY <1>0, FinalStep
  <1>3. /\ based =>
              /\ ~Wrapped(opts, n) /\ Base(opts, n) = o.v
              /\ Doer(opts, n) <=> o.opt = "WithHTTPDoer"
        /\ ~based =>
              /\ Base(opts, n) = Base(opts, n - 1)
              /\ Doer(opts, n) <=> Doer(opts, n - 1)
              /\ Wrapped(opts, n) <=> (Sets(o, "WithRoundTripper") \/ Wrapped(opts, n - 1))
    BY <1>0, BaseStep
  <1>4. c \in Clients
    BY DEF Configured
  <1> HIDE DEF d
  <1>5. /\ d.auth = Final(opts, "WithAuth", n, s.auth)
        /\ d.limiter = Final(opts, "WithRateLimiter", n, s.limiter)
        /\ d.unsafeRetries = Final(opts, "WithUnsafeRetries", n, s.unsafeRetries)
        /\ d.allowInsecureBaseURL =
              Final(opts, "WithInsecureBaseURL", n, s.allowInsecureBaseURL)
    BY <1>1, <1>2 DEF Configured
  <1>6. /\ d.http.transport =
              IF Wrapped(opts, n) THEN Final(opts, "WithRoundTripper", n, Nil) ELSE Base(opts, n)
        /\ d.http.of = IF Wrapped(opts, n) /\ Doer(opts, n) THEN "new" ELSE Base(opts, n)
        /\ d.http.kind = IF ~Wrapped(opts, n) /\ Doer(opts, n) THEN "doer" ELSE "client"
    <2>1. CASE Sets(o, "WithHTTPClient")
      <3>1. d.http = [kind |-> "client", of |-> o.v, transport |-> o.v]
        BY <1>1, <1>4, <2>1 DEF httpOptions, Sets, Clients
      <3>2. o.opt # "WithHTTPDoer"
        BY <2>1 DEF Sets
      <3> QED BY <1>3, <2>1, <3>1, <3>2
    <2>2. CASE Sets(o, "WithHTTPDoer")
      <3>1. d.http = [kind |-> "doer", of |-> o.v, transport |-> o.v]
        BY <1>1, <1>4, <2>2 DEF httpOptions, Sets, Clients
      <3>2. o.opt = "WithHTTPDoer"
        BY <2>2 DEF Sets
      <3> QED BY <1>3, <2>2, <3>1, <3>2
    <2>3. CASE Sets(o, "WithRoundTripper")
      <3>1. d.http = [kind |-> "client",
                      of |-> IF c.http.kind = "client" THEN c.http.of ELSE "new",
                      transport |-> o.v]
        BY <1>1, <1>4, <2>3 DEF httpOptions, Sets, Clients
      <3>2. ~based
        BY <2>3 DEF Sets
      <3>3. Final(opts, "WithRoundTripper", n, Nil) = o.v
        BY <1>2, <2>3
      <3> HIDE DEF based
      <3> QED BY <1>3, <2>3, <3>1, <3>2, <3>3 DEF Configured
    <2>4. CASE ~based /\ ~Sets(o, "WithRoundTripper")
      <3>1. d.http = c.http
        BY <1>1, <2>4
      <3>2. Final(opts, "WithRoundTripper", n, Nil) = Final(opts, "WithRoundTripper", n - 1, Nil)
        BY <1>2, <2>4
      <3> QED BY <1>3, <2>4, <3>1, <3>2 DEF Configured
    <2> QED BY <2>1, <2>2, <2>3, <2>4
  <1> QED BY <1>1, <1>5, <1>6 DEF Configured, d

\* No option makes a policy that does not pause.
LEMMA PausedStep ==
    ASSUME NEW c \in Clients, NEW o \in Settings, Paused(c)
    PROVE  Paused(Apply(c, o))
  <1> DEFINE d == Apply(c, o)
  <1>1. d.retry = IF o.opt = "WithRetry" THEN WithRetry(c, o.v).retry ELSE c.retry
    BY ApplyIs
  <1> HIDE DEF d
  <1>2. ASSUME o.opt = "WithRetry" PROVE Paused(d)
    <2>1. o.v \in [attempts : Int, base : Int, max : Int]
      BY <1>2 DEF Settings
    <2> DEFINE or(given, current, default) ==
                  IF given > 0 THEN given ELSE IF current = 0 THEN default ELSE current
               plain == [maxAttempts |-> o.v.attempts,
                         baseDelay |-> or(o.v.base, c.retry.baseDelay, defaultBaseDelay),
                         maxDelay |-> or(o.v.max, c.retry.maxDelay, defaultMaxDelay)]
    <2>2. d.retry = IF o.v.attempts = 0 THEN defaultRetry ELSE plain
      BY <1>1, <1>2 DEF WithRetry, Clients
    <2>3. \A g \in Int, u \in Nat, e \in Nat \ {0} : or(g, u, e) \in Nat /\ or(g, u, e) > 0
      OBVIOUS
    <2> HIDE DEF or
    <2>4. defaultBaseDelay \in Nat \ {0} /\ defaultMaxDelay \in Nat \ {0}
      BY OptionsAssumption
    <2>5. ASSUME o.v.attempts = 0 PROVE Paused(d)
      BY <2>2, <2>4, <2>5 DEF Paused, defaultRetry
    <2>6. ASSUME o.v.attempts # 0 PROVE Paused(d)
      <3>1. /\ or(o.v.base, c.retry.baseDelay, defaultBaseDelay) \in Nat
            /\ or(o.v.base, c.retry.baseDelay, defaultBaseDelay) > 0
            /\ or(o.v.max, c.retry.maxDelay, defaultMaxDelay) \in Nat
            /\ or(o.v.max, c.retry.maxDelay, defaultMaxDelay) > 0
        BY <2>1, <2>3, <2>4 DEF Paused
      <3> QED BY <2>1, <2>2, <2>6, <3>1 DEF Paused
    <2> QED BY <2>5, <2>6
  <1>3. ASSUME o.opt # "WithRetry" PROVE Paused(d)
    BY <1>1, <1>3 DEF Paused
  <1> QED BY <1>2, <1>3 DEF d

\* A pass of New as a whole.
LEMMA RunConfigured ==
    ASSUME NEW opts \in Seq(Settings), NEW s, NEW f, Run(f, s, opts),
           Configured(s, s, opts, 0), Paused(s)
    PROVE  \A n \in 0..Len(opts) : Configured(f[n], s, opts, n) /\ Paused(f[n])
  <1> DEFINE N == Len(opts)
             Bads == {n \in 0..N : ~(Configured(f[n], s, opts, n) /\ Paused(f[n]))}
  <1>0. N \in Nat /\ \A n \in 1..N : opts[n] \in Settings
    OBVIOUS
  <1>1. f[0] = s /\ \A n \in 1..N : f[n] = Apply(f[n - 1], opts[n])
    BY DEF Run
  <1> SUFFICES ASSUME Bads # {} PROVE FALSE
    OBVIOUS
  <1>2. Bads \subseteq Nat
    BY <1>0
  <1>3. PICK n \in Bads : \A k \in Bads : n <= k
    BY <1>2, LeastNumber
  <1>4. n # 0
    BY <1>1, <1>3
  <1>5. n \in 1..N /\ n - 1 \in 0..N /\ ~(n <= n - 1)
    BY <1>0, <1>3, <1>4
  <1>6. Configured(f[n - 1], s, opts, n - 1) /\ Paused(f[n - 1])
    BY <1>3, <1>5
  <1>7. Configured(f[n], s, opts, n)
    BY <1>0, <1>1, <1>5, <1>6, ConfiguredStep
  <1>8. Paused(f[n])
    BY <1>0, <1>1, <1>5, <1>6, PausedStep DEF Configured
  <1> QED BY <1>3, <1>7, <1>8

\* The client before the caller's options: allow is what the first pass found
\* out, auth the package's own.
Fresh(c, allow, auth) ==
    /\ c \in Clients
    /\ c.http = [kind |-> "client", of |-> "default", transport |-> "default"]
    /\ c.auth = auth /\ c.limiter = Nil /\ c.unsafeRetries = FALSE
    /\ c.retry = [maxAttempts |-> 0, baseDelay |-> 0, maxDelay |-> 0]
    /\ c.allowInsecureBaseURL = allow
    /\ ~isInsecureBaseURL(c.baseURL) /\ c.optErr = "none"

\* A fresh client is configured by no options.
LEMMA FreshConfigured ==
    ASSUME NEW c, NEW allow, NEW auth, NEW opts, Fresh(c, allow, auth)
    PROVE  Configured(c, c, opts, 0) /\ Paused(c)
  <1>1. \A name : Upto(opts, name, 0) = {}
    BY DEF Upto
  <1>2. ~Wrapped(opts, 0) /\ Base(opts, 0) = "default" /\ ~Doer(opts, 0)
    BY <1>1 DEF Wrapped, Base, Doer, ClientsAt
  <1>3. Paused(c)
    BY DEF Fresh, Paused
  <1> QED BY <1>1, <1>2, <1>3 DEF Configured, Final, Fresh

\* The packages' own options leave it so.
LEMMA FreshOwn ==
    ASSUME NEW c, NEW allow, NEW auth, Fresh(c, allow, auth)
    PROVE  /\ \A v \in {"Personal", "TokenAuth", "RequestIDAuth"} :
                 /\ Option("WithAuth", v) \in Settings
                 /\ Fresh(Apply(c, Option("WithAuth", v)), allow, v)
           /\ \A name \in Hosts :
                 LET u == Option("WithBaseURL", Url(name, TRUE, TRUE, FALSE)) IN
                 u \in Settings /\ Fresh(Apply(c, u), allow, auth)
  <1>1. ASSUME NEW v \in {"Personal", "TokenAuth", "RequestIDAuth"}
        PROVE  /\ Option("WithAuth", v) \in Settings
               /\ Fresh(Apply(c, Option("WithAuth", v)), allow, v)
    <2> DEFINE o == Option("WithAuth", v)
    <2>1. o = [opt |-> "WithAuth", v |-> v] /\ v \in Things /\ v # Nil
      BY OptionsAssumption DEF Option, Things
    <2>2. o \in Settings
      BY <2>1 DEF Settings
    <2>3. Apply(c, o) = [c EXCEPT !.auth = v]
      BY <2>1 DEF Apply, attachments
    <2> QED BY <2>1, <2>2, <2>3 DEF Fresh, Clients
  <1>2. ASSUME NEW name \in Hosts
        PROVE  LET u == Option("WithBaseURL", Url(name, TRUE, TRUE, FALSE)) IN
               u \in Settings /\ Fresh(Apply(c, u), allow, auth)
    <2> DEFINE w == [name |-> name, parses |-> TRUE, https |-> TRUE, loopback |-> FALSE]
               o == Option("WithBaseURL", Url(name, TRUE, TRUE, FALSE))
    <2>1. o = [opt |-> "WithBaseURL", v |-> w] /\ w \in URLs /\ w.parses /\ w.https
      BY DEF Option, Url, URLs
    <2> HIDE DEF w, o
    <2>2. o \in Settings
      BY <2>1 DEF Settings
    <2>3. Apply(c, o) = [c EXCEPT !.baseURL = w]
      BY <2>1 DEF Apply, WithBaseURL, SetBaseURL, isInsecureBaseURL
    <2>4. Fresh([c EXCEPT !.baseURL = w], allow, auth)
      BY <2>1 DEF Fresh, Clients, isInsecureBaseURL
    <2> QED BY <2>2, <2>3, <2>4 DEF o
  <1> QED BY <1>1, <1>2

\* The Client before any option.
LEMMA ClientIs == client \in Clients /\ Fresh(client, FALSE, "Public")
  <1>1. defaultBaseURL \in URLs /\ ~isInsecureBaseURL(defaultBaseURL)
    <2>1. \A name \in Hosts : /\ Url(name, TRUE, TRUE, FALSE) \in URLs
                             /\ ~isInsecureBaseURL(Url(name, TRUE, TRUE, FALSE))
      BY DEF Url, URLs, isInsecureBaseURL
    <2>2. defaultBaseURL = Url("https://api.monobank.ua", TRUE, TRUE, FALSE)
      BY DEF defaultBaseURL
    <2>3. "https://api.monobank.ua" \in Hosts
      BY DEF Hosts
    <2> QED BY <2>1, <2>2, <2>3
  <1>2. {"default", "Public", Nil} \subseteq Things
    BY DEF Things
  <1> QED BY <1>1, <1>2 DEF client, Clients, Fresh

\* After a package's own options the client is fresh, with the package's auth.
Starts(own, auth) ==
    \A b \in BOOLEAN : \A f :
        Run(f, [client EXCEPT !.allowInsecureBaseURL = b], own) => Fresh(f[Len(own)], b, auth)

\* c is where the second pass over opts ends: it started from a fresh client, with
\* what WithInsecureBaseURL says last.
Ends(c, opts, auth) ==
    \E s, g : /\ Fresh(s, Final(opts, "WithInsecureBaseURL", Len(opts), FALSE), auth)
              /\ Run(g, s, opts) /\ c = g[Len(opts)]

\* New with a package's own options before the caller's: two passes, of which the
\* first only finds out what WithInsecureBaseURL says last.
LEMMA Constructed ==
    ASSUME NEW own \in Seq(Settings), NEW opts \in Seq(Settings), NEW auth, Starts(own, auth)
    PROVE  Ends(New(own \o opts), opts, auth)
  <1> DEFINE n == Len(opts)
             start(b) == [client EXCEPT !.allowInsecureBaseURL = b]
             probe == Applied(client, own \o opts)
  <1>1. client = start(FALSE)
    BY ClientIs DEF Clients, Fresh
  <1>2. PICK f, g : Run(f, client, own) /\ Run(g, f[Len(own)], opts) /\ probe = g[n]
    BY OwnRunsFirst
  <1>3. Fresh(f[Len(own)], FALSE, auth)
    BY <1>1, <1>2 DEF Starts
  <1>4. n \in 0..n
    OBVIOUS
  <1>5. Configured(g[n], f[Len(own)], opts, n)
    BY <1>2, <1>3, <1>4, RunConfigured, FreshConfigured
  <1>6. /\ probe.allowInsecureBaseURL = Final(opts, "WithInsecureBaseURL", n, FALSE)
        /\ probe.allowInsecureBaseURL \in BOOLEAN
    BY <1>2, <1>3, <1>5 DEF Configured, Fresh, Clients
  <1>7. New(own \o opts) = Applied(start(probe.allowInsecureBaseURL), own \o opts)
    BY DEF New
  <1> HIDE DEF probe, n
  <1>8. PICK h, k : /\ Run(h, start(probe.allowInsecureBaseURL), own)
                    /\ Run(k, h[Len(own)], opts)
                    /\ Applied(start(probe.allowInsecureBaseURL), own \o opts) = k[Len(opts)]
    BY OwnRunsFirst
  <1>9. Fresh(h[Len(own)], probe.allowInsecureBaseURL, auth)
    BY <1>6, <1>8 DEF Starts
  <1> QED BY <1>6, <1>7, <1>8, <1>9 DEF n, Ends

-----------------------------------------------------------------------------
(* Options: what the packages build. *)

\* The auth a package sets itself.
OwnAuth(package) ==
    CASE package = "monobank"    -> "Public"
      [] package = "personal"    -> "Personal"
      [] package = "openbanking" -> "RequestIDAuth"
      [] OTHER                   -> "TokenAuth"

\* Every option of an input is one, and every base URL a real argument.
LEMMA OptionsAre ==
    ASSUME in \in Inputs, in.op = "new"
    PROVE  /\ in.package \in {"monobank", "personal", "business", "acquiring", "openbanking"}
           /\ in.opts \in Seq(Settings)
           /\ DOMAIN in.opts = 1..Len(in.opts)
           /\ \A i \in 1..Len(in.opts) :
                 in.opts[i].opt = "WithBaseURL" => in.opts[i].v # Nil
  <1>1. /\ in.package \in {"monobank", "personal", "business", "acquiring", "openbanking"}
        /\ in.opts \in SeqOf(OptionSet, MaxOptions)
    BY DEF Inputs
  <1>2. PICK m \in 0..MaxOptions : in.opts \in [1..m -> OptionSet]
    BY <1>1 DEF SeqOf
  <1>3. m \in Nat
    <2>1. MaxOptions \in Nat
      BY AlgorithmsAssumption
    <2> QED BY <1>2, <2>1
  <1>4. BaseURLs \subseteq URLs
    BY DEF BaseURLs, URLs, Url, http, Hosts
  <1>5. RetryAttempts \subseteq Int /\ RetryDelays \subseteq Int
    BY AlgorithmsAssumption
  <1>6. Objects \subseteq Things /\ Nil \in Things
    BY DEF Things
  <1>7. OptionSet \subseteq Settings
    <2> SUFFICES ASSUME NEW o \in OptionSet PROVE o \in Settings
      OBVIOUS
    <2>1. CASE o \in [opt : {"WithBaseURL"}, v : BaseURLs]
      BY <1>4, <2>1 DEF Settings
    <2>2. CASE o \in [opt : {"WithInsecureBaseURL", "WithUnsafeRetries"}, v : BOOLEAN]
      BY <2>2 DEF Settings
    <2>3. CASE o \in [opt : {"WithRetry"},
                      v : [attempts : RetryAttempts, base : RetryDelays, max : RetryDelays]]
      <3>1. o.v \in [attempts : Int, base : Int, max : Int]
        BY <1>5, <2>3
      <3> QED BY <2>3, <3>1 DEF Settings
    <2>4. CASE o \in [opt : {"WithHTTPClient", "WithAuth"}, v : Objects \cup {Nil}]
      BY <1>6, <2>4 DEF Settings
    <2>5. CASE o \in [opt : {"WithHTTPDoer", "WithRoundTripper", "WithLogger", "WithRequestHook",
                             "WithResponseHook", "WithUserAgent", "WithRateLimiter"}, v : Objects]
      BY <1>6, <2>5 DEF Settings
    <2> QED BY <2>1, <2>2, <2>3, <2>4, <2>5 DEF OptionSet
  <1>8. ASSUME NEW o \in OptionSet, o.opt = "WithBaseURL" PROVE o.v # Nil
    <2>1. o.v \in BaseURLs
      BY <1>8 DEF OptionSet
    <2>2. \A u \in BaseURLs : u # Nil
      BY AlgorithmsAssumption
    <2> QED BY <2>1, <2>2
  <1>9. in.opts \in Seq(OptionSet) /\ Len(in.opts) = m
    BY <1>2, <1>3
  <1>10. in.opts \in Seq(Settings)
    BY <1>7, <1>9
  <1> QED BY <1>1, <1>2, <1>8, <1>9, <1>10

\* The client Built returns: the end of a pass over the caller's options.
LEMMA BuiltIs ==
    ASSUME in \in Inputs, in.op = "new"
    PROVE  Ends(Built, in.opts, OwnAuth(in.package))
  <1> DEFINE start(b) == [client EXCEPT !.allowInsecureBaseURL = b]
             auth(v) == Option("WithAuth", v)
             url(name) == Option("WithBaseURL", Url(name, TRUE, TRUE, FALSE))
             Goal == Ends(Built, in.opts, OwnAuth(in.package))
  <1>1. in.opts \in Seq(Settings)
    BY OptionsAre
  <1>2. \A b \in BOOLEAN : Fresh(start(b), b, "Public")
    BY ClientIs DEF Fresh, Clients
  <1>3. \A v \in {"Personal", "TokenAuth", "RequestIDAuth"} : \A name \in Hosts :
           auth(v) \in Settings /\ url(name) \in Settings
    BY ClientIs, FreshOwn
  <1> HIDE DEF start, auth, url
  <1>4. ASSUME in.package = "monobank" PROVE Goal
    <2>1. <<>> \in Seq(Settings) /\ Len(<<>>) = 0 /\ <<>> \o in.opts = in.opts
      BY <1>1
    <2>2. \A b \in BOOLEAN : \A f : Run(f, start(b), <<>>) => Fresh(f[0], b, "Public")
      BY <1>2 DEF Run
    <2>3. OwnAuth(in.package) = "Public" /\ Built = New(<<>> \o in.opts)
      BY <1>4, <2>1 DEF OwnAuth, Built
    <2>4. Starts(<<>>, "Public")
      BY <2>1, <2>2 DEF Starts, start
    <2> QED BY <1>1, <2>1, <2>3, <2>4, Constructed
  <1>5. ASSUME in.package = "personal" PROVE Goal
    <2> DEFINE own == <<auth("Personal")>>
    <2>1. own \in Seq(Settings) /\ Len(own) = 1 /\ own[1] = auth("Personal")
      BY <1>3 DEF Hosts
    <2> HIDE DEF own
    <2>2. ASSUME NEW b \in BOOLEAN, NEW f, Run(f, start(b), own) PROVE Fresh(f[1], b, "Personal")
      <3>1. f[0] = start(b) /\ f[1] = Apply(f[0], auth("Personal"))
        BY <2>1, <2>2 DEF Run
      <3> QED BY <1>2, <3>1, FreshOwn DEF auth
    <2>3. OwnAuth(in.package) = "Personal" /\ Built = New(own \o in.opts)
      BY <1>5 DEF OwnAuth, Built, personalNew, own, auth
    <2>4. Starts(own, "Personal")
      BY <2>1, <2>2 DEF Starts, start
    <2> QED BY <1>1, <2>1, <2>3, <2>4, Constructed
  <1>6. ASSUME NEW v \in {"TokenAuth", "RequestIDAuth"}, NEW name \in Hosts,
               OwnAuth(in.package) = v, Built = New(<<url(name), auth(v)>> \o in.opts)
        PROVE  Goal
    <2> DEFINE own == <<url(name), auth(v)>>
    <2>1. own \in Seq(Settings) /\ Len(own) = 2 /\ own[1] = url(name) /\ own[2] = auth(v)
      BY <1>3
    <2>0. Built = New(own \o in.opts)
      BY <1>6
    <2> HIDE DEF own
    <2>2. ASSUME NEW b \in BOOLEAN, NEW f, Run(f, start(b), own) PROVE Fresh(f[2], b, v)
      <3>1. f[0] = start(b) /\ f[1] = Apply(f[0], url(name)) /\ f[2] = Apply(f[1], auth(v))
        BY <2>1, <2>2 DEF Run
      <3>2. Fresh(f[1], b, "Public")
        BY <1>2, <3>1, FreshOwn DEF url
      <3> QED BY <3>1, <3>2, FreshOwn DEF auth
    <2>4. Starts(own, v)
      BY <2>1, <2>2 DEF Starts, start
    <2> QED BY <1>1, <1>6, <2>0, <2>1, <2>4, Constructed
  <1>7. ASSUME in.package = "business" PROVE Goal
    <2>1. OwnAuth(in.package) = "TokenAuth"
      BY <1>7 DEF OwnAuth
    <2>2. Built = New(<<url("https://corp-api.monobank.ua"), auth("TokenAuth")>> \o in.opts)
      BY <1>7 DEF Built, businessNew, url, auth
    <2>3. "https://corp-api.monobank.ua" \in Hosts
      BY DEF Hosts
    <2> HIDE DEF Goal
    <2> QED BY <1>6, <2>1, <2>2, <2>3
  <1>8. ASSUME in.package = "acquiring" PROVE Goal
    <2>1. OwnAuth(in.package) = "TokenAuth"
      BY <1>8 DEF OwnAuth
    <2>2. Built = New(<<url("https://api.monobank.ua"), auth("TokenAuth")>> \o in.opts)
      BY <1>8 DEF Built, acquiringNew, defaultBaseURL, url, auth
    <2>3. "https://api.monobank.ua" \in Hosts
      BY DEF Hosts
    <2> HIDE DEF Goal
    <2> QED BY <1>6, <2>1, <2>2, <2>3
  <1>9. ASSUME in.package = "openbanking" PROVE Goal
    <2>1. OwnAuth(in.package) = "RequestIDAuth"
      BY <1>9 DEF OwnAuth
    <2>2. Built = New(<<url("BaseURLProduction"), auth("RequestIDAuth")>> \o in.opts)
      BY <1>9 DEF Built, openbankingNew, url, auth
    <2>3. "BaseURLProduction" \in Hosts
      BY DEF Hosts
    <2> HIDE DEF Goal
    <2> QED BY <1>6, <2>1, <2>2, <2>3
  <1>10. in.package \in {"monobank", "personal", "business", "acquiring", "openbanking"}
    BY OptionsAre
  <1> QED BY <1>4, <1>5, <1>7, <1>8, <1>9, <1>10

\* What New returned is what the packages build from these options.
Returned == in \in Inputs /\ (Of("new") => out = Built)

\* Every step keeps Returned.
THEOREM ReturnedHolds == Spec => []Returned
  <1>1. Init => Returned
    BY DEF Init, Returned, Of
  <1>2. Returned /\ [Next]_vars => Returned'
    <2> SUFFICES ASSUME Returned, [Next]_vars PROVE Returned'
      OBVIOUS
    <2>1. CASE UNCHANGED <<in, out>>
      BY <2>1 DEF Returned, Of, Built
    <2>2. CASE Evaluate
      <3>1. in' = in /\ (in.op = "new" => out' = Built)
        BY <2>2 DEF Evaluate
      <3> QED BY <3>1 DEF Returned, Of, Built
    <2> QED BY <2>1, <2>2 DEF Next, UseDeduper, vars
  <1> QED BY <1>1, <1>2, PTL DEF Spec

\* The client New returned, and the settings of its options.
LEMMA ReturnedIs ==
    ASSUME Returned, Of("new")
    PROVE  /\ \E s : /\ Configured(out, s, in.opts, Len(in.opts)) /\ Paused(out)
                     /\ Fresh(s, Final(in.opts, "WithInsecureBaseURL", Len(in.opts), FALSE),
                              OwnAuth(in.package))
           /\ \A name : At(name) = Upto(in.opts, name, Len(in.opts))
           /\ \A name, init : Given(name, init) = Final(in.opts, name, Len(in.opts), init)
  <1>1. in \in Inputs /\ in.op = "new" /\ out = Built
    BY DEF Returned, Of
  <1>2. in.opts \in Seq(Settings) /\ DOMAIN in.opts = 1..Len(in.opts)
    BY <1>1, OptionsAre
  <1>3. \A name : At(name) = Upto(in.opts, name, Len(in.opts))
    BY <1>2 DEF At, Upto, Sets
  <1>4. \A name, init : Given(name, init) = Final(in.opts, name, Len(in.opts), init)
    BY <1>3 DEF Given, Final
  <1>5. Ends(out, in.opts, OwnAuth(in.package))
    BY <1>1, BuiltIs
  <1>6. PICK s, g : /\ Fresh(s, Final(in.opts, "WithInsecureBaseURL", Len(in.opts), FALSE),
                             OwnAuth(in.package))
                    /\ Run(g, s, in.opts) /\ out = g[Len(in.opts)]
    BY <1>5 DEF Ends
  <1>7. Configured(s, s, in.opts, 0) /\ Paused(s)
    BY <1>6, FreshConfigured
  <1>8. Len(in.opts) \in 0..Len(in.opts)
    BY <1>2
  <1>9. Configured(out, s, in.opts, Len(in.opts)) /\ Paused(out)
    BY <1>2, <1>6, <1>7, <1>8, RunConfigured
  <1> QED BY <1>3, <1>4, <1>6, <1>9

\* A client that retries without a Retry-After pauses, whatever options New was
\* given and in whatever order, at any attempt.
THEOREM NoInstantRetryHolds == Spec => []NoInstantRetry
  <1>1. Returned => NoInstantRetry
    <2> SUFFICES ASSUME Returned, Of("new"), out.retry.maxAttempts > 1,
                        NEW attempt \in 0..(out.retry.maxAttempts - 2),
                        NEW d \in delays(out.retry.baseDelay, out.retry.maxDelay, attempt,
                                         noRetryAfter)
                 PROVE  d >= Min2(minBackoffFloor, out.retry.maxDelay) /\ d > 0
      BY DEF NoInstantRetry
    <2> DEFINE b == out.retry.baseDelay
               m == out.retry.maxDelay
               g == growth(b, m, attempt)
    <2>1. Paused(out)
      BY ReturnedIs
    <2>2. b \in Nat /\ m \in Nat /\ b > 0 /\ m > 0 /\ attempt \in Nat
      BY <2>1 DEF Paused
    <2> HIDE DEF b, m
    <2>3. g \in Nat /\ g > 0 /\ backoff(b, m, attempt) = jittered(g, m)
      <3>1. b \in Int /\ b > 0 /\ m \in Int /\ attempt \in Nat
        BY <2>2
      <3> QED BY <3>1, BackoffJitters, Zenon
    <2> HIDE DEF g
    <2>4. PICK x \in backoff(b, m, attempt) : d = IF x > m /\ m > 0 THEN m ELSE x
      BY DEF delays, noRetryAfter, b, m
    <2>5. x \in jittered(g, m)
      BY <2>3, <2>4
    <2>6. x \in Nat /\ x > 0 /\ x <= m /\ x >= Min2(minBackoffFloor, m)
      BY <2>2, <2>3, <2>5, JitterBounds
    <2>7. d = x
      BY <2>2, <2>4, <2>6
    <2> QED BY <2>6, <2>7 DEF m
  <1> QED BY <1>1, ReturnedHolds, PTL

\* Of every setting the last one counts, and WithRoundTripper keeps the client it
\* finds, for option lists of every length.
THEOREM AsConfiguredHolds == Spec => []AsConfigured
  <1>1. Returned => AsConfigured
    <2> SUFFICES ASSUME Returned, Of("new") PROVE AsConfigured
      BY DEF AsConfigured
    <2> DEFINE n == Len(in.opts)
               bases == At("WithHTTPClient") \cup At("WithHTTPDoer")
               wrapped == \E i \in At("WithRoundTripper") : \A j \in bases : j < i
               base == IF bases = {} THEN "default" ELSE in.opts[Max(bases)].v
               doer == bases # {} /\ in.opts[Max(bases)].opt = "WithHTTPDoer"
    <2>1. /\ \A name : At(name) = Upto(in.opts, name, n)
          /\ \A name, init : Given(name, init) = Final(in.opts, name, n, init)
      BY ReturnedIs
    <2>2. PICK s : /\ Configured(out, s, in.opts, n)
                   /\ Fresh(s, Final(in.opts, "WithInsecureBaseURL", n, FALSE),
                            OwnAuth(in.package))
      BY ReturnedIs
    <2>3. bases = ClientsAt(in.opts, n)
      BY <2>1 DEF ClientsAt
    <2> HIDE DEF n, bases
    <2>4. /\ wrapped <=> Wrapped(in.opts, n)
          /\ base = Base(in.opts, n)
          /\ doer <=> Doer(in.opts, n)
      BY <2>1, <2>3 DEF Wrapped, Base, Doer
    <2> HIDE DEF wrapped, base, doer
    <2>5. /\ out.auth = Given("WithAuth", OwnAuth(in.package))
          /\ out.limiter = Given("WithRateLimiter", Nil)
          /\ out.unsafeRetries = Given("WithUnsafeRetries", FALSE)
      BY <2>1, <2>2 DEF Configured, Fresh
    <2>6. /\ out.http.transport = IF wrapped THEN Given("WithRoundTripper", Nil) ELSE base
          /\ out.http.of = IF wrapped /\ doer THEN "new" ELSE base
      BY <2>1, <2>2, <2>4 DEF Configured
    <2> QED BY <2>5, <2>6 DEF AsConfigured, OwnAuth, wrapped, base, doer, bases
  <1> QED BY <1>1, ReturnedHolds, PTL

-----------------------------------------------------------------------------
(* Options: the guard of the base URL. *)

\* WithInsecureBaseURL(true) is among the options; it is given at most once; a URL
\* the guard lets through.
Permit(opts) == \E i \in Upto(opts, "WithInsecureBaseURL", Len(opts)) : opts[i].v = TRUE
Single(opts) ==
    \A i, j \in Upto(opts, "WithInsecureBaseURL", Len(opts)) : i = j
Fine(u, permit) == u.parses /\ (isInsecureBaseURL(u) => permit)

\* What the second pass keeps, s being the client it started from: no insecure URL
\* without a permit, the last URL or an error, and no error without a reason.
Guarded(c, s, opts, n) ==
    /\ c.allowInsecureBaseURL => Permit(opts)
    /\ isInsecureBaseURL(c.baseURL) => Permit(opts)
    /\ c.optErr = "none" => c.baseURL = Final(opts, "WithBaseURL", n, s.baseURL)
    /\ Single(opts) =>
          /\ c.allowInsecureBaseURL <=> Permit(opts)
          /\ c.optErr = "none" <=>
                \A i \in Upto(opts, "WithBaseURL", n) : Fine(opts[i].v, Permit(opts))

\* One more option keeps the guard of the base URL.
LEMMA GuardedStep ==
    ASSUME NEW opts \in Seq(Settings), NEW n \in 1..Len(opts), NEW c \in Clients, NEW s,
           opts[n].opt = "WithBaseURL" => opts[n].v # Nil,
           Guarded(c, s, opts, n - 1)
    PROVE  Guarded(Apply(c, opts[n]), s, opts, n)
  <1> DEFINE o == opts[n]
             d == Apply(c, o)
             P == Permit(opts)
  <1>0. n \in Nat /\ n > 0 /\ o \in Settings
    OBVIOUS
  <1>1. /\ d \in Clients
        /\ d.allowInsecureBaseURL =
              IF Sets(o, "WithInsecureBaseURL") THEN o.v ELSE c.allowInsecureBaseURL
        /\ d.baseURL = IF o.opt = "WithBaseURL" THEN WithBaseURL(c, o.v).baseURL ELSE c.baseURL
        /\ d.optErr = IF o.opt = "WithBaseURL" THEN WithBaseURL(c, o.v).optErr ELSE c.optErr
    BY <1>0, ApplyIs
  <1>2. Upto(opts, "WithBaseURL", n) =
           IF Sets(o, "WithBaseURL") THEN Upto(opts, "WithBaseURL", n - 1) \cup {n}
           ELSE Upto(opts, "WithBaseURL", n - 1)
    BY <1>0, UptoStep
  <1>3. Final(opts, "WithBaseURL", n, s.baseURL) =
           IF Sets(o, "WithBaseURL") THEN o.v ELSE Final(opts, "WithBaseURL", n - 1, s.baseURL)
    BY <1>0, FinalStep
  <1>4. Sets(o, "WithInsecureBaseURL") =>
           /\ n \in Upto(opts, "WithInsecureBaseURL", Len(opts))
           /\ o.v \in BOOLEAN
    BY <1>0 DEF Upto, Sets, Settings
  <1>5. c.allowInsecureBaseURL \in BOOLEAN
    BY DEF Clients
  <1> HIDE DEF d
  <1>6. /\ d.allowInsecureBaseURL => P
        /\ Single(opts) => (d.allowInsecureBaseURL <=> P)
    <2>1. CASE Sets(o, "WithInsecureBaseURL")
      <3>1. n \in Upto(opts, "WithInsecureBaseURL", Len(opts)) /\ o.v \in BOOLEAN
        BY <1>4, <2>1
      <3>2. d.allowInsecureBaseURL = o.v
        BY <1>1, <2>1
      <3>3. o.v = TRUE => P
        BY <3>1 DEF Permit
      <3>4. Single(opts) /\ P => o.v = TRUE
        BY <3>1 DEF Permit, Single
      <3> QED BY <3>1, <3>2, <3>3, <3>4
    <2>2. CASE ~Sets(o, "WithInsecureBaseURL")
      BY <1>1, <2>2 DEF Guarded
    <2> QED BY <2>1, <2>2
  <1>7. CASE o.opt = "WithBaseURL"
    <2> DEFINE u == o.v
               all(m) == \A i \in Upto(opts, "WithBaseURL", m) : Fine(opts[i].v, P)
    <2>1. Sets(o, "WithBaseURL") /\ u \in URLs
      BY <1>0, <1>7 DEF Sets, Settings
    <2>2. /\ Final(opts, "WithBaseURL", n, s.baseURL) = u
          /\ all(n) <=> all(n - 1) /\ Fine(u, P)
      BY <1>2, <1>3, <2>1
    <2>3. u.parses \in BOOLEAN /\ isInsecureBaseURL(u) \in BOOLEAN
      BY <2>1 DEF URLs, isInsecureBaseURL
    <2> HIDE DEF all, u
    <2>4. d.baseURL = WithBaseURL(c, u).baseURL /\ d.optErr = WithBaseURL(c, u).optErr
      BY <1>1, <1>7 DEF u
    <2>g. /\ c.allowInsecureBaseURL => P
          /\ isInsecureBaseURL(c.baseURL) => P
          /\ Single(opts) => /\ c.allowInsecureBaseURL <=> P
                             /\ c.optErr = "none" <=> all(n - 1)
      BY DEF Guarded, all
    <2>5. CASE isInsecureBaseURL(u) /\ ~c.allowInsecureBaseURL
      <3>1. d.baseURL = c.baseURL /\ d.optErr = "ErrInsecureBaseURL"
        BY <2>4, <2>5 DEF WithBaseURL, Clients
      <3>2. Single(opts) => ~Fine(u, P)
        BY <2>5, <2>g DEF Fine
      <3> QED BY <1>6, <2>2, <2>g, <3>1, <3>2 DEF Guarded, all, d
    <2>6. CASE ~(isInsecureBaseURL(u) /\ ~c.allowInsecureBaseURL) /\ u.parses
      <3>1. d.baseURL = u /\ d.optErr = c.optErr
        BY <2>4, <2>6 DEF WithBaseURL, SetBaseURL, Clients
      <3>2. (isInsecureBaseURL(u) => P) /\ Fine(u, P)
        BY <2>6, <2>g DEF Fine
      <3> QED BY <1>6, <2>2, <2>g, <3>1, <3>2 DEF Guarded, all, d
    <2>7. CASE ~(isInsecureBaseURL(u) /\ ~c.allowInsecureBaseURL) /\ ~u.parses
      <3>1. d.baseURL = c.baseURL /\ d.optErr # "none"
        BY <2>4, <2>7 DEF WithBaseURL, SetBaseURL, Clients
      <3>2. ~Fine(u, P)
        BY <2>7 DEF Fine
      <3> QED BY <1>6, <2>2, <2>g, <3>1, <3>2 DEF Guarded, all, d
    <2> QED BY <2>5, <2>6, <2>7
  <1>8. CASE o.opt # "WithBaseURL"
    <2>1. ~Sets(o, "WithBaseURL")
      BY <1>8 DEF Sets
    <2>2. d.baseURL = c.baseURL /\ d.optErr = c.optErr
      BY <1>1, <1>8
    <2>3. /\ Final(opts, "WithBaseURL", n, s.baseURL) = Final(opts, "WithBaseURL", n - 1, s.baseURL)
          /\ Upto(opts, "WithBaseURL", n) = Upto(opts, "WithBaseURL", n - 1)
      BY <1>2, <1>3, <2>1
    <2> QED BY <1>6, <2>2, <2>3 DEF Guarded, d
  <1> QED BY <1>7, <1>8

\* The second pass starts guarded: what the first pass found out is a permit.
LEMMA GuardedStart ==
    ASSUME NEW opts \in Seq(Settings), NEW s, NEW auth,
           Fresh(s, Final(opts, "WithInsecureBaseURL", Len(opts), FALSE), auth)
    PROVE  Guarded(s, s, opts, 0)
  <1> DEFINE I == Upto(opts, "WithInsecureBaseURL", Len(opts))
  <1>1. Upto(opts, "WithBaseURL", 0) = {}
    BY DEF Upto
  <1>2. /\ s.allowInsecureBaseURL = IF I = {} THEN FALSE ELSE opts[Max(I)].v
        /\ s.allowInsecureBaseURL \in BOOLEAN
    BY DEF Fresh, Final, Clients
  <1>3. I \in SUBSET (1..Len(opts)) /\ Len(opts) \in Nat
    BY DEF Upto
  <1>4. I # {} => Max(I) \in I
    BY <1>3, MaxExists
  <1> HIDE DEF I
  <1>5. s.allowInsecureBaseURL => Permit(opts)
    BY <1>2, <1>4 DEF Permit, I
  <1>6. Single(opts) /\ Permit(opts) => s.allowInsecureBaseURL
    <2> SUFFICES ASSUME Single(opts), Permit(opts) PROVE s.allowInsecureBaseURL
      OBVIOUS
    <2>1. PICK i \in I : opts[i].v = TRUE
      BY DEF Permit, I
    <2>2. Max(I) = i
      BY <1>4, <2>1 DEF Single, I
    <2> QED BY <1>2, <2>1, <2>2
  <1>7. ~isInsecureBaseURL(s.baseURL) /\ s.optErr = "none"
    BY DEF Fresh
  <1> QED BY <1>1, <1>5, <1>6, <1>7 DEF Guarded, Final

\* The second pass as a whole.
LEMMA RunGuarded ==
    ASSUME NEW opts \in Seq(Settings), NEW s, NEW f, Run(f, s, opts),
           \A n \in 0..Len(opts) : f[n] \in Clients,
           \A n \in 1..Len(opts) : opts[n].opt = "WithBaseURL" => opts[n].v # Nil,
           Guarded(s, s, opts, 0)
    PROVE  \A n \in 0..Len(opts) : Guarded(f[n], s, opts, n)
  <1> DEFINE N == Len(opts)
             Bads == {n \in 0..N : ~Guarded(f[n], s, opts, n)}
  <1>0. N \in Nat
    OBVIOUS
  <1>1. f[0] = s /\ \A n \in 1..N : f[n] = Apply(f[n - 1], opts[n])
    BY DEF Run
  <1> SUFFICES ASSUME Bads # {} PROVE FALSE
    OBVIOUS
  <1>2. Bads \subseteq Nat
    BY <1>0
  <1>3. PICK n \in Bads : \A k \in Bads : n <= k
    BY <1>2, LeastNumber
  <1>4. n # 0
    BY <1>1, <1>3
  <1>5. n \in 1..N /\ n - 1 \in 0..N /\ ~(n <= n - 1)
    BY <1>0, <1>3, <1>4
  <1>6. Guarded(f[n - 1], s, opts, n - 1) /\ f[n - 1] \in Clients
    BY <1>3, <1>5
  <1>7. opts[n].opt = "WithBaseURL" => opts[n].v # Nil
    BY <1>5
  <1>8. Guarded(f[n], s, opts, n)
    BY <1>1, <1>5, <1>6, <1>7, GuardedStep
  <1> QED BY <1>3, <1>8

\* The token never goes to a plain http host without a permit, and a URL that is
\* refused makes Do fail, wherever the options stand and however many they are.
THEOREM BaseURLGuardHolds == Spec => []BaseURLGuard
  <1>1. Returned => BaseURLGuard
    <2> SUFFICES ASSUME Returned, Of("new") PROVE BaseURLGuard
      BY DEF BaseURLGuard
    <2> DEFINE opts == in.opts
               n == Len(in.opts)
               I == At("WithInsecureBaseURL")
               U == At("WithBaseURL")
               urls == {in.opts[i].v : i \in U}
               flags == {in.opts[i].v : i \in I}
               wanted == Given("WithBaseURL", out.baseURL)
    <2>1. in \in Inputs /\ in.op = "new" /\ out = Built
      BY DEF Returned, Of
    <2>2. /\ opts \in Seq(Settings)
          /\ \A i \in 1..Len(opts) : opts[i].opt = "WithBaseURL" => opts[i].v # Nil
      BY <2>1, OptionsAre
    <2>3. PICK s, g : /\ Fresh(s, Final(opts, "WithInsecureBaseURL", Len(opts), FALSE),
                               OwnAuth(in.package))
                      /\ Run(g, s, opts) /\ out = g[Len(opts)]
      BY <2>1, BuiltIs DEF Ends
    <2>4. \A k \in 0..Len(opts) : g[k] \in Clients
      <3>1. Configured(s, s, opts, 0) /\ Paused(s)
        BY <2>3, FreshConfigured
      <3>2. \A k \in 0..Len(opts) : Configured(g[k], s, opts, k)
        BY <2>2, <2>3, <3>1, RunConfigured
      <3> QED BY <3>2 DEF Configured
    <2>5. n \in Nat /\ n \in 0..Len(opts)
      BY <2>2
    <2>6. Guarded(out, s, opts, n)
      BY <2>2, <2>3, <2>4, <2>5, GuardedStart, RunGuarded
    <2>7. /\ U = Upto(opts, "WithBaseURL", n)
          /\ I = Upto(opts, "WithInsecureBaseURL", n)
          /\ wanted = Final(opts, "WithBaseURL", n, out.baseURL)
      BY ReturnedIs
    <2>8. Permit(opts) <=> TRUE \in flags
      BY <2>7 DEF Permit
    <2>9. Cardinality(I) <= 1 => Single(opts)
      <3> SUFFICES ASSUME Cardinality(I) <= 1, NEW i \in I, NEW j \in I, i # j PROVE FALSE
        BY <2>7 DEF Single
      <3>1. IsFiniteSet(I)
        <4>1. IsFiniteSet(1..n) /\ I \in SUBSET (1..n)
          BY <2>5, <2>7, FS_Interval DEF Upto
        <4> QED BY <4>1, FS_Subset
      <3>2. IsFiniteSet({i}) /\ Cardinality({i}) = 1
        BY FS_Singleton
      <3>3. Cardinality({i} \cup {j}) = 2
        BY <3>2, FS_AddElement, SMTT(30)
      <3>4. ({i} \cup {j}) \in SUBSET I
        OBVIOUS
      <3>5. Cardinality({i} \cup {j}) <= Cardinality(I)
        BY <3>1, <3>4, FS_Subset
      <3>6. Cardinality(I) \in Nat
        BY <3>1, FS_CardinalityType
      <3> QED BY <3>3, <3>5, <3>6
    <2>10. isInsecureBaseURL(out.baseURL) => TRUE \in flags
      BY <2>6, <2>8 DEF Guarded
    <2>11. out.optErr = "none" => out.baseURL = wanted
      BY <2>6, <2>7 DEF Guarded, Final
    <2>12. ASSUME Cardinality(I) <= 1
           PROVE  out.optErr = "none" <=>
                     \A u \in urls : u.parses /\ (isInsecureBaseURL(u) => TRUE \in flags)
      <3>1. out.optErr = "none" <=> \A i \in U : Fine(opts[i].v, Permit(opts))
        BY <2>6, <2>7, <2>9, <2>12 DEF Guarded
      <3>2. \A u \in urls : Fine(u, Permit(opts)) <=>
                              u.parses /\ (isInsecureBaseURL(u) => TRUE \in flags)
        BY <2>8 DEF Fine
      <3> HIDE DEF flags
      <3> QED BY <3>1, <3>2
    <2> HIDE DEF flags, urls, wanted, U
    <2> QED BY <2>10, <2>11, <2>12 DEF BaseURLGuard, flags, urls, wanted, U
  <1> QED BY <1>1, ReturnedHolds, PTL
-----------------------------------------------------------------------------
(* Money: the parsers.  Induction over the digits of a text is induction over    *)
(* the numbers up to its length.                                                 *)


\* Induction over the first n numbers, with a set in place of a predicate.
LEMMA UpTo ==
    ASSUME NEW n \in Nat, NEW S, 0 \in S, \A k \in 1..n : k - 1 \in S => k \in S
    PROVE  \A k \in 0..n : k \in S
  <1> DEFINE Bads == {k \in 0..n : k \notin S}
  <1> SUFFICES ASSUME Bads # {} PROVE FALSE
    OBVIOUS
  <1>1. Bads \subseteq Nat
    OBVIOUS
  <1>2. \E m \in Bads : \A k \in Bads : m <= k
    <2> HIDE DEF Bads
    <2> QED BY <1>1, LeastNumber
  <1>3. PICK m \in Bads : \A k \in Bads : m <= k
    BY <1>2
  <1>4. m \in 1..n /\ m - 1 \in 0..n /\ ~(m <= m - 1)
    BY <1>3
  <1> QED BY <1>3, <1>4

\* A loop of n passes whose body is the function step, and its states.
Loops(r, S, b, n, step) ==
    /\ r \in [0..n -> S]
    /\ r[0] = b
    /\ \A k \in 1..n : r[k] = step[<<r[k - 1], k>>]

\* Such a loop has a state after every pass.
LEMMA Loop ==
    ASSUME NEW S, NEW b \in S, NEW n \in Nat, NEW step \in [S \X (1..n) -> S]
    PROVE  \E r : Loops(r, S, b, n, step)
  <1> DEFINE Ran(r, m) == r[0] = b /\ \A k \in 1..m : r[k] = step[<<r[k - 1], k>>]
             T == {m \in 0..n : \E r \in [0..n -> S] : Ran(r, m)}
  <1>1. 0 \in T
    <2> DEFINE r == [k \in 0..n |-> b]
    <2>1. r \in [0..n -> S] /\ r[0] = b
      OBVIOUS
    <2>2. 1..0 = {} /\ 0 \in 0..n
      OBVIOUS
    <2> HIDE DEF r
    <2>3. Ran(r, 0)
      BY <2>1, <2>2
    <2> QED BY <2>1, <2>2, <2>3
  <1>2. ASSUME NEW m \in 1..n, m - 1 \in T PROVE m \in T
    <2>1. PICK r \in [0..n -> S] : Ran(r, m - 1)
      BY <1>2
    <2> DEFINE x == step[<<r[m - 1], m>>]
               q == [r EXCEPT ![m] = x]
    <2>2. m - 1 \in 0..n /\ m \in 0..n /\ m - 1 # m /\ 0 # m
      OBVIOUS
    <2>3. x \in S
      BY <2>1, <2>2
    <2> HIDE DEF x
    <2>4. q \in [0..n -> S]
      BY <2>1, <2>2, <2>3
    <2>5. \A k \in 0..n : q[k] = IF k = m THEN x ELSE r[k]
      BY <2>1, <2>2
    <2> HIDE DEF q
    <2>6. q[0] = b
      BY <2>1, <2>2, <2>5
    <2>7. ASSUME NEW k \in 1..m PROVE q[k] = step[<<q[k - 1], k>>]
      <3>1. k \in 0..n /\ k - 1 \in 0..n /\ k - 1 # m
        BY <2>7
      <3>2. CASE k = m
        BY <2>5, <3>1, <3>2 DEF x
      <3>3. CASE k # m
        <4>1. k \in 1..(m - 1)
          BY <2>7, <3>3
        <4> QED BY <2>1, <2>5, <3>1, <3>3, <4>1
      <3> QED BY <3>2, <3>3
    <2> QED BY <2>2, <2>4, <2>6, <2>7
  <1>3. n \in T
    <2>1. n \in 0..n
      OBVIOUS
    <2> HIDE DEF T
    <2> QED BY <1>1, <1>2, <2>1, UpTo
  <1> QED BY <1>3 DEF Loops

\* The digits of a number, most significant first: f[k] after k of them.
Spells(f, s) == f[0] = 0 /\ \A k \in 1..Len(s) : f[k] = f[k - 1] * 10 + s[k]

\* Number is where such a count ends.
LEMMA NumberIs ==
    ASSUME NEW s \in Seq(0..9)
    PROVE  \E f \in [0..Len(s) -> Nat] : Spells(f, s) /\ M!Number(s) = f[Len(s)]
  <1> DEFINE n == Len(s)
             step == [x \in Nat \X (1..n) |-> x[1] * 10 + s[x[2]]]
             Eq(g) == g = [k \in 0..n |-> IF k = 0 THEN 0 ELSE g[k - 1] * 10 + s[k]]
  <1>1. n \in Nat /\ \A k \in 1..n : s[k] \in 0..9
    OBVIOUS
  <1> HIDE DEF n
  <1>2. step \in [Nat \X (1..n) -> Nat]
    <2> SUFFICES ASSUME NEW x \in Nat \X (1..n) PROVE x[1] * 10 + s[x[2]] \in Nat
      OBVIOUS
    <2>1. x[1] \in Nat /\ x[2] \in 1..n
      OBVIOUS
    <2>2. s[x[2]] \in 0..9
      BY <1>1, <2>1
    <2> QED BY <2>1, <2>2
  <1>3. \A x \in Nat : \A k \in 1..n : step[<<x, k>>] = x * 10 + s[k]
    OBVIOUS
  <1> HIDE DEF step
  <1>4. PICK r : Loops(r, Nat, 0, n, step)
    BY <1>1, <1>2, Loop
  <1>5. \A k \in 1..n : k \in 0..n /\ k - 1 \in 0..n /\ k # 0
    BY <1>1
  <1>6. \A k \in 1..n : r[k] = r[k - 1] * 10 + s[k]
    BY <1>3, <1>4, <1>5 DEF Loops
  <1>7. Eq(r)
    <2>1. \A k \in 0..n : r[k] = IF k = 0 THEN 0 ELSE r[k - 1] * 10 + s[k]
      <3> SUFFICES ASSUME NEW k \in 0..n
                   PROVE  r[k] = IF k = 0 THEN 0 ELSE r[k - 1] * 10 + s[k]
        OBVIOUS
      <3>1. k = 0 \/ k \in 1..n
        BY <1>1
      <3> QED BY <1>4, <1>6, <3>1 DEF Loops
    <2> QED BY <1>4, <2>1 DEF Loops
  <1> DEFINE g == CHOOSE h : Eq(h)
  <1>8. Eq(g)
    BY <1>7
  <1>9. M!Number(s) = g[n]
    BY DEF M!Number, n
  <1> HIDE DEF g
  <1>10. g[0] = 0 /\ \A k \in 1..n : g[k] = g[k - 1] * 10 + s[k]
    <2>1. \A k \in 0..n : g[k] = IF k = 0 THEN 0 ELSE g[k - 1] * 10 + s[k]
      BY <1>8
    <2>2. 0 \in 0..n
      BY <1>1
    <2> QED BY <1>5, <2>1, <2>2
  <1>11. \A k \in 0..n : k \in {j \in 0..n : g[j] \in Nat}
    <2> DEFINE T == {j \in 0..n : g[j] \in Nat}
    <2>1. 0 \in T
      BY <1>1, <1>10
    <2>2. \A k \in 1..n : k - 1 \in T => k \in T
      <3> SUFFICES ASSUME NEW k \in 1..n, g[k - 1] \in Nat PROVE g[k] \in Nat
        BY <1>5
      <3>1. s[k] \in 0..9 /\ g[k] = g[k - 1] * 10 + s[k]
        BY <1>1, <1>10
      <3>2. \A a \in Nat : \A d \in 0..9 : a * 10 + d \in Nat
        OBVIOUS
      <3> QED BY <3>1, <3>2
    <2> HIDE DEF T
    <2>3. \A k \in 0..n : k \in T
      BY <1>1, <2>1, <2>2, UpTo
    <2> QED BY <2>3 DEF T
  <1>12. n \in 0..n
    BY <1>1
  <1>13. g \in [0..n -> Nat]
    BY <1>8, <1>11
  <1> QED BY <1>9, <1>10, <1>13 DEF Spells, n
\* The powers of ten up to k.
Tens(p, k) == p[0] = 1 /\ \A j \in 1..k : p[j] = p[j - 1] * 10

\* TenTo computes such a table.
LEMMA TenToIs ==
    ASSUME NEW n \in Nat
    PROVE  \E p \in [0..n -> Nat] : Tens(p, n) /\ M!TenTo(n) = p[n]
  <1> DEFINE step == [x \in Nat \X (1..n) |-> x[1] * 10]
             Eq(g) == g = [k \in 0..n |-> IF k = 0 THEN 1 ELSE g[k - 1] * 10]
  <1>1. step \in [Nat \X (1..n) -> Nat]
    OBVIOUS
  <1>2. \A x \in Nat : \A k \in 1..n : step[<<x, k>>] = x * 10
    OBVIOUS
  <1> HIDE DEF step
  <1>3. PICK r : Loops(r, Nat, 1, n, step)
    BY <1>1, Loop
  <1>4. \A k \in 1..n : k \in 0..n /\ k - 1 \in 0..n /\ k # 0
    OBVIOUS
  <1>5. \A k \in 1..n : r[k] = r[k - 1] * 10
    BY <1>2, <1>3, <1>4 DEF Loops
  <1>6. Eq(r)
    <2>1. \A k \in 0..n : r[k] = IF k = 0 THEN 1 ELSE r[k - 1] * 10
      <3> SUFFICES ASSUME NEW k \in 0..n PROVE r[k] = IF k = 0 THEN 1 ELSE r[k - 1] * 10
        OBVIOUS
      <3>1. k = 0 \/ k \in 1..n
        OBVIOUS
      <3> QED BY <1>3, <1>5, <3>1 DEF Loops
    <2> QED BY <1>3, <2>1 DEF Loops
  <1> DEFINE g == CHOOSE h : Eq(h)
  <1>7. Eq(g)
    BY <1>6
  <1>8. M!TenTo(n) = g[n]
    BY DEF M!TenTo
  <1> HIDE DEF g
  <1>9. g[0] = 1 /\ \A k \in 1..n : g[k] = g[k - 1] * 10
    <2>1. \A k \in 0..n : g[k] = IF k = 0 THEN 1 ELSE g[k - 1] * 10
      BY <1>7
    <2> QED BY <1>4, <2>1
  <1>10. \A k \in 0..n : k \in {j \in 0..n : g[j] \in Nat}
    <2> DEFINE T == {j \in 0..n : g[j] \in Nat}
    <2>1. 0 \in T
      BY <1>9
    <2>2. \A k \in 1..n : k - 1 \in T => k \in T
      BY <1>4, <1>9
    <2> HIDE DEF T
    <2>3. \A k \in 0..n : k \in T
      BY <2>1, <2>2, UpTo
    <2> QED BY <2>3 DEF T
  <1>11. g \in [0..n -> Nat]
    BY <1>7, <1>10
  <1> QED BY <1>8, <1>9, <1>11 DEF Tens

\* Any such table has the same entries.
LEMMA TensAgree ==
    ASSUME NEW n \in Nat, NEW p, NEW q, Tens(p, n), Tens(q, n)
    PROVE  \A k \in 0..n : p[k] = q[k]
  <1> DEFINE S == {k \in 0..n : p[k] = q[k]}
  <1>1. 0 \in S
    BY DEF Tens
  <1>2. \A k \in 1..n : k - 1 \in S => k \in S
    BY DEF Tens
  <1>3. \A k \in 0..n : k \in S
    <2> HIDE DEF S
    <2> QED BY <1>1, <1>2, UpTo
  <1> QED BY <1>3

\* TenTo(0).
LEMMA TenZero == M!TenTo(0) = 1
  <1>1. 0 \in Nat
    OBVIOUS
  <1> QED BY <1>1, TenToIs DEF Tens

\* TenTo grows tenfold.
LEMMA TenNext ==
    ASSUME NEW n \in Nat
    PROVE  M!TenTo(n) \in Nat /\ M!TenTo(n + 1) = 10 * M!TenTo(n)
  <1>1. n + 1 \in Nat
    OBVIOUS
  <1>2. PICK p \in [0..n -> Nat] : Tens(p, n) /\ M!TenTo(n) = p[n]
    BY TenToIs
  <1>3. PICK q \in [0..(n + 1) -> Nat] : Tens(q, n + 1) /\ M!TenTo(n + 1) = q[n + 1]
    BY <1>1, TenToIs
  <1>4. Tens(q, n)
    BY <1>3 DEF Tens
  <1>5. n \in 0..n /\ n + 1 \in 1..(n + 1) /\ (n + 1) - 1 = n
    OBVIOUS
  <1>6. p[n] = q[n]
    BY <1>2, <1>4, <1>5, TensAgree
  <1>7. q[n + 1] = q[n] * 10
    BY <1>3, <1>5 DEF Tens
  <1> QED BY <1>2, <1>3, <1>5, <1>6, <1>7

\* A power of ten is positive.
LEMMA TenPositive ==
    ASSUME NEW n \in Nat
    PROVE  M!TenTo(n) \in Nat /\ M!TenTo(n) >= 1
  <1> DEFINE S == {k \in 0..n : M!TenTo(k) >= 1}
  <1>1. 0 \in S
    BY TenZero
  <1>2. ASSUME NEW k \in 1..n, k - 1 \in S PROVE k \in S
    <2>1. k - 1 \in Nat /\ (k - 1) + 1 = k /\ k \in 0..n
      OBVIOUS
    <2>2. M!TenTo(k - 1) \in Nat /\ M!TenTo(k) = 10 * M!TenTo(k - 1)
      BY <2>1, TenNext
    <2> QED BY <1>2, <2>1, <2>2
  <1>3. \A k \in 0..n : k \in S
    <2> HIDE DEF S
    <2> QED BY <1>1, <1>2, UpTo
  <1> QED BY <1>3, TenNext

\* Powers of ten multiply.
LEMMA TenSum ==
    ASSUME NEW a \in Nat, NEW b \in Nat
    PROVE  M!TenTo(a + b) = M!TenTo(a) * M!TenTo(b)
  <1> DEFINE S == {k \in 0..b : M!TenTo(a + k) = M!TenTo(a) * M!TenTo(k)}
  <1>1. 0 \in S
    <2>1. a + 0 = a /\ M!TenTo(a) * 1 = M!TenTo(a)
      BY TenPositive
    <2> QED BY <2>1, TenZero
  <1>2. ASSUME NEW k \in 1..b, k - 1 \in S PROVE k \in S
    <2>1. k - 1 \in Nat /\ (k - 1) + 1 = k /\ k \in 0..b
      OBVIOUS
    <2>2. a + (k - 1) \in Nat /\ (a + (k - 1)) + 1 = a + k
      OBVIOUS
    <2>3. M!TenTo(k - 1) \in Nat /\ M!TenTo(k) = 10 * M!TenTo(k - 1)
      BY <2>1, TenNext
    <2>4. M!TenTo(a + k) = 10 * M!TenTo(a + (k - 1))
      BY <2>2, TenNext
    <2>5. M!TenTo(a) \in Nat
      BY TenPositive
    <2>6. \A x, y \in Nat : 10 * (x * y) = x * (10 * y)
      OBVIOUS
    <2>7. M!TenTo(a + (k - 1)) = M!TenTo(a) * M!TenTo(k - 1)
      BY <1>2
    <2> QED BY <2>1, <2>3, <2>4, <2>5, <2>6, <2>7
  <1>3. \A k \in 0..b : k \in S
    <2> HIDE DEF S
    <2> QED BY <1>1, <1>2, UpTo
  <1> QED BY <1>3
\* Only the digits decide.
LEMMA SpellsAgree ==
    ASSUME NEW s \in Seq(0..9), NEW f, NEW g, Spells(f, s), Spells(g, s)
    PROVE  \A k \in 0..Len(s) : f[k] = g[k]
  <1> DEFINE S == {k \in 0..Len(s) : f[k] = g[k]}
  <1>1. 0 \in S
    BY DEF Spells
  <1>2. \A k \in 1..Len(s) : k - 1 \in S => k \in S
    BY DEF Spells
  <1>3. \A k \in 0..Len(s) : k \in S
    <2>1. Len(s) \in Nat
      OBVIOUS
    <2> HIDE DEF S
    <2> QED BY <1>1, <1>2, <2>1, UpTo
  <1> QED BY <1>3

\* So Number is what any count of the digits ends with.
LEMMA SpelledNumber ==
    ASSUME NEW s \in Seq(0..9), NEW f, Spells(f, s)
    PROVE  /\ M!Number(s) = f[Len(s)]
           /\ \A k \in 0..Len(s) : f[k] \in Nat
  <1>1. PICK g \in [0..Len(s) -> Nat] : Spells(g, s) /\ M!Number(s) = g[Len(s)]
    BY NumberIs
  <1>2. \A k \in 0..Len(s) : f[k] = g[k]
    BY <1>1, SpellsAgree
  <1>3. Len(s) \in 0..Len(s)
    OBVIOUS
  <1> QED BY <1>1, <1>2, <1>3

\* The first j digits are the leading part of the number.
LEMMA Leading ==
    ASSUME NEW s \in Seq(0..9), NEW f, Spells(f, s), NEW j \in 0..Len(s)
    PROVE  \A i \in 0..(Len(s) - j) :
              /\ f[j] * M!TenTo(i) <= f[j + i]
              /\ f[j + i] < f[j] * M!TenTo(i) + M!TenTo(i)
  <1> DEFINE n == Len(s)
             S == {i \in 0..(n - j) : /\ f[j] * M!TenTo(i) <= f[j + i]
                                      /\ f[j + i] < f[j] * M!TenTo(i) + M!TenTo(i)}
  <1>1. n \in Nat /\ n - j \in Nat /\ j \in 0..n /\ \A k \in 0..n : f[k] \in Nat
    BY SpelledNumber
  <1>2. 0 \in S
    <2>1. f[j] \in Nat /\ j + 0 = j
      BY <1>1
    <2> QED BY <1>1, <2>1, TenZero
  <1>3. ASSUME NEW i \in 1..(n - j), i - 1 \in S PROVE i \in S
    <2> DEFINE t == M!TenTo(i - 1)
               a == f[j]
               b == f[j + (i - 1)]
    <2>1. i - 1 \in Nat /\ (i - 1) + 1 = i /\ i \in 0..(n - j)
      BY <1>1
    <2>2. j + i \in 1..n /\ j + (i - 1) \in 0..n /\ (j + i) - 1 = j + (i - 1)
      BY <1>1
    <2>3. t \in Nat /\ M!TenTo(i) = 10 * t
      BY <2>1, TenNext
    <2>4. f[j + i] = b * 10 + s[j + i] /\ s[j + i] \in 0..9
      BY <2>2 DEF Spells
    <2>5. a \in Nat /\ b \in Nat
      BY <1>1, <2>2
    <2>6. a * t <= b /\ b < a * t + t
      BY <1>3
    <2> HIDE DEF t, a, b
    <2>7. a * t \in Nat /\ a * (10 * t) = 10 * (a * t)
      BY <2>3, <2>5
    <2>8. \A x, d \in Nat : d <= 9 /\ x <= b /\ b < x + t =>
              10 * x <= b * 10 + d /\ b * 10 + d < 10 * x + 10 * t
      BY <2>3, <2>5
    <2>9. s[j + i] \in Nat /\ s[j + i] <= 9
      BY <2>4
    <2>10. a * M!TenTo(i) <= f[j + i] /\ f[j + i] < a * M!TenTo(i) + M!TenTo(i)
      BY <2>3, <2>4, <2>6, <2>7, <2>8, <2>9
    <2> QED BY <2>1, <2>10 DEF a
  <1>4. \A i \in 0..(n - j) : i \in S
    <2> HIDE DEF S
    <2> QED BY <1>1, <1>2, <1>3, UpTo
  <1> QED BY <1>4

\* A number is no smaller than its leading parts.
LEMMA Grows ==
    ASSUME NEW s \in Seq(0..9), NEW f, Spells(f, s), NEW j \in 0..Len(s)
    PROVE  /\ f[j] \in Nat /\ f[j] <= M!Number(s)
           /\ j < Len(s) => 10 * f[j] <= M!Number(s)
  <1> DEFINE n == Len(s)
             i == n - j
  <1>1. n \in Nat /\ i \in 0..(n - j) /\ i \in Nat /\ j + i = n
    OBVIOUS
  <1>2. f[j] \in Nat /\ f[n] = M!Number(s)
    BY SpelledNumber
  <1>3. f[j] * M!TenTo(i) <= f[j + i]
    BY <1>1, Leading
  <1>4. M!TenTo(i) \in Nat /\ M!TenTo(i) >= 1
    BY <1>1, TenPositive
  <1>5. f[n] \in Nat
    BY <1>1, SpelledNumber
  <1>6. ASSUME j < n PROVE M!TenTo(i) >= 10
    <2>1. i - 1 \in Nat /\ (i - 1) + 1 = i
      BY <1>1, <1>6
    <2>2. M!TenTo(i - 1) \in Nat /\ M!TenTo(i - 1) >= 1
      BY <2>1, TenPositive
    <2>3. M!TenTo(i) = 10 * M!TenTo(i - 1)
      BY <2>1, TenNext
    <2> QED BY <2>2, <2>3
  <1>7. \A a, t, c \in Nat : t >= c => a * t >= c * a
    <2> SUFFICES ASSUME NEW a \in Nat, NEW t \in Nat, NEW c \in Nat, t >= c
                 PROVE  a * t >= c * a
      OBVIOUS
    <2>1. t - c \in Nat /\ a * (t - c) \in Nat /\ a * t = a * (t - c) + c * a
      OBVIOUS
    <2> QED BY <2>1
  <1>8. f[j] * M!TenTo(i) >= 1 * f[j]
    BY <1>2, <1>4, <1>7
  <1>9. j < n => f[j] * M!TenTo(i) >= 10 * f[j]
    BY <1>2, <1>4, <1>6, <1>7
  <1>10. f[j] * M!TenTo(i) \in Nat /\ f[j] * M!TenTo(i) <= f[n]
    BY <1>1, <1>2, <1>3, <1>4
  <1> QED BY <1>2, <1>5, <1>8, <1>9, <1>10

\* The number of two texts, one after the other.
LEMMA Joined ==
    ASSUME NEW s \in Seq(0..9), NEW t \in Seq(0..9)
    PROVE  /\ M!Number(s) \in Nat /\ M!Number(t) \in Nat
           /\ M!Number(s \o t) = M!Number(s) * M!TenTo(Len(t)) + M!Number(t)
  <1> DEFINE n == Len(s)
             m == Len(t)
  <1>1. PICK f \in [0..n -> Nat] : Spells(f, s) /\ M!Number(s) = f[n]
    BY NumberIs
  <1>2. PICK g \in [0..m -> Nat] : Spells(g, t) /\ M!Number(t) = g[m]
    BY NumberIs
  <1>3. s \o t \in Seq(0..9) /\ Len(s \o t) = n + m
    OBVIOUS
  <1>4. PICK h \in [0..(n + m) -> Nat] : Spells(h, s \o t) /\ M!Number(s \o t) = h[n + m]
    BY <1>3, NumberIs
  <1>5. Spells(h, s)
    <2>1. \A k \in 1..n : k \in 1..(n + m) /\ (s \o t)[k] = s[k]
      OBVIOUS
    <2> QED BY <1>3, <1>4, <2>1 DEF Spells
  <1>6. h[n] = M!Number(s)
    BY <1>5, SpelledNumber
  <1> DEFINE a == h[n]
             S == {k \in 0..m : h[n + k] = a * M!TenTo(k) + g[k]}
  <1>7. a \in Nat /\ n \in Nat /\ m \in Nat
    <2>1. n \in 0..(n + m)
      OBVIOUS
    <2> QED BY <1>4, <2>1
  <1>8. 0 \in S
    <2>1. h[n + 0] = a /\ g[0] = 0 /\ a * 1 + 0 = a
      BY <1>2, <1>7 DEF Spells
    <2> QED BY <1>7, <2>1, TenZero
  <1>9. ASSUME NEW k \in 1..m, k - 1 \in S PROVE k \in S
    <2> DEFINE p == M!TenTo(k - 1)
               b == g[k - 1]
    <2>1. k - 1 \in Nat /\ (k - 1) + 1 = k /\ k \in 0..m /\ k - 1 \in 0..m
      BY <1>7
    <2>2. n + k \in 1..(n + m) /\ (n + k) - 1 = n + (k - 1) /\ (s \o t)[n + k] = t[k]
      BY <1>7
    <2>3. t[k] \in 0..9
      BY <1>7
    <2>4. p \in Nat /\ M!TenTo(k) = 10 * p
      BY <2>1, TenNext
    <2>5. h[n + k] = h[n + (k - 1)] * 10 + t[k]
      BY <1>3, <1>4, <2>2 DEF Spells
    <2>6. g[k] = b * 10 + t[k] /\ b \in Nat
      BY <1>2, <2>1 DEF Spells
    <2>7. h[n + (k - 1)] = a * p + b
      BY <1>9
    <2> HIDE DEF p, b, a
    <2>8. (a * p + b) * 10 + t[k] = a * (10 * p) + (b * 10 + t[k])
      BY <1>7, <2>3, <2>4, <2>6, SMTT(30)
    <2> QED BY <2>1, <2>4, <2>5, <2>6, <2>7, <2>8
  <1>10. \A k \in 0..m : k \in S
    <2> HIDE DEF S
    <2> QED BY <1>7, <1>8, <1>9, UpTo
  <1>11. m \in 0..m /\ n \in 0..n
    BY <1>7
  <1> QED BY <1>1, <1>2, <1>4, <1>6, <1>10, <1>11
-----------------------------------------------------------------------------
(* The loops of ParseMajor. *)

\* The characters of a text.
Characters == 0..9 \cup {Minus, Bad}

\* The states of the loop over the integer part.
Reads(r, s) == r[0] = M!Ok(0) /\ \A k \in 1..Len(s) : r[k] = M!accumulate(r[k - 1], s[k])

\* accumulate returns a result.
LEMMA AccumulateIs ==
    ASSUME NEW r \in [ok : BOOLEAN, n : Int], NEW d \in Characters
    PROVE  M!accumulate(r, d) \in [ok : BOOLEAN, n : Int]
  <1>1. CASE d \in {Minus, Bad}
    BY <1>1 DEF M!accumulate, M!Err
  <1>2. CASE d \notin {Minus, Bad}
    <2>1. d \in Int /\ r.n \in Int
      BY <1>2 DEF Characters
    <2>2. r.n * 10 + d \in Int
      BY <2>1
    <2>3. Wrap(r.n * 10 + d) \in Int
      BY <2>2, WrapFits
    <2> QED BY <2>3, SameIntegers DEF M!accumulate, M!Err, M!Ok
  <1> QED BY <1>1, <1>2

\* readInt is the last state of its loop.
LEMMA ReadIntIs ==
    ASSUME NEW s \in Seq(Characters)
    PROVE  \E r : Reads(r, s) /\ M!readInt(s) = r[Len(s)]
  <1> DEFINE n == Len(s)
             R == [ok : BOOLEAN, n : Int]
             step == [x \in R \X (1..n) |-> M!accumulate(x[1], s[x[2]])]
             Eq(g) == g = [k \in 0..n |-> IF k = 0 THEN M!Ok(0)
                                          ELSE M!accumulate(g[k - 1], s[k])]
  <1>1. n \in Nat /\ \A k \in 1..n : s[k] \in Characters
    OBVIOUS
  <1>2. M!Ok(0) \in R
    BY DEF M!Ok
  <1> HIDE DEF n, R
  <1>3. step \in [R \X (1..n) -> R]
    <2> SUFFICES ASSUME NEW x \in R \X (1..n) PROVE M!accumulate(x[1], s[x[2]]) \in R
      OBVIOUS
    <2>1. x[1] \in R /\ x[2] \in 1..n
      OBVIOUS
    <2>2. s[x[2]] \in Characters
      BY <1>1, <2>1
    <2> QED BY <2>1, <2>2, AccumulateIs DEF R
  <1>4. \A x \in R : \A k \in 1..n : step[<<x, k>>] = M!accumulate(x, s[k])
    OBVIOUS
  <1> HIDE DEF step
  <1>5. PICK r : Loops(r, R, M!Ok(0), n, step)
    BY <1>1, <1>2, <1>3, Loop
  <1>6. \A k \in 1..n : k \in 0..n /\ k - 1 \in 0..n /\ k # 0
    BY <1>1
  <1>7. \A k \in 1..n : r[k] = M!accumulate(r[k - 1], s[k])
    BY <1>4, <1>5, <1>6 DEF Loops
  <1>8. Eq(r)
    <2>1. \A k \in 0..n : r[k] = IF k = 0 THEN M!Ok(0) ELSE M!accumulate(r[k - 1], s[k])
      <3> SUFFICES ASSUME NEW k \in 0..n
                   PROVE  r[k] = IF k = 0 THEN M!Ok(0) ELSE M!accumulate(r[k - 1], s[k])
        OBVIOUS
      <3>1. k = 0 \/ k \in 1..n
        BY <1>1
      <3> QED BY <1>5, <1>7, <3>1 DEF Loops
    <2> QED BY <1>5, <2>1 DEF Loops
  <1> DEFINE g == CHOOSE h : Eq(h)
  <1>9. Eq(g)
    BY <1>8
  <1>10. M!readInt(s) = g[n]
    BY DEF M!readInt, n
  <1> HIDE DEF g
  <1>11. g[0] = M!Ok(0) /\ \A k \in 1..n : g[k] = M!accumulate(g[k - 1], s[k])
    <2>1. \A k \in 0..n : g[k] = IF k = 0 THEN M!Ok(0) ELSE M!accumulate(g[k - 1], s[k])
      BY <1>9
    <2>2. 0 \in 0..n
      BY <1>1
    <2> QED BY <1>6, <2>1, <2>2
  <1> QED BY <1>10, <1>11 DEF Reads, n

\* The states of the loop over the fraction.
ReadsFrac(r, s) == r[0] = 0 /\ \A k \in 1..Len(s) : r[k] = Wrap(r[k - 1] * 10 + s[k])

\* readFrac is the last state of its loop.
LEMMA ReadFracIs ==
    ASSUME NEW s \in Seq(0..9)
    PROVE  \E r : ReadsFrac(r, s) /\ M!readFrac(s) = r[Len(s)]
  <1> DEFINE n == Len(s)
             step == [x \in Int \X (1..n) |-> Wrap(x[1] * 10 + s[x[2]])]
             Eq(g) == g = [k \in 0..n |-> IF k = 0 THEN 0 ELSE Wrap(g[k - 1] * 10 + s[k])]
  <1>1. n \in Nat /\ \A k \in 1..n : s[k] \in 0..9
    OBVIOUS
  <1> HIDE DEF n
  <1>2. step \in [Int \X (1..n) -> Int]
    <2> SUFFICES ASSUME NEW x \in Int \X (1..n) PROVE Wrap(x[1] * 10 + s[x[2]]) \in Int
      OBVIOUS
    <2>1. x[1] \in Int /\ x[2] \in 1..n
      OBVIOUS
    <2>2. s[x[2]] \in 0..9
      BY <1>1, <2>1
    <2>3. x[1] * 10 + s[x[2]] \in Int
      BY <2>1, <2>2
    <2> QED BY <2>3, WrapFits
  <1>3. \A x \in Int : \A k \in 1..n : step[<<x, k>>] = Wrap(x * 10 + s[k])
    OBVIOUS
  <1> HIDE DEF step
  <1>4. PICK r : Loops(r, Int, 0, n, step)
    <2>1. 0 \in Int
      OBVIOUS
    <2> QED BY <1>1, <1>2, <2>1, Loop
  <1>5. \A k \in 1..n : k \in 0..n /\ k - 1 \in 0..n /\ k # 0
    BY <1>1
  <1>6. \A k \in 1..n : r[k] = Wrap(r[k - 1] * 10 + s[k])
    BY <1>3, <1>4, <1>5 DEF Loops
  <1>7. Eq(r)
    <2>1. \A k \in 0..n : r[k] = IF k = 0 THEN 0 ELSE Wrap(r[k - 1] * 10 + s[k])
      <3> SUFFICES ASSUME NEW k \in 0..n
                   PROVE  r[k] = IF k = 0 THEN 0 ELSE Wrap(r[k - 1] * 10 + s[k])
        OBVIOUS
      <3>1. k = 0 \/ k \in 1..n
        BY <1>1
      <3> QED BY <1>4, <1>6, <3>1 DEF Loops
    <2> QED BY <1>4, <2>1 DEF Loops
  <1> DEFINE g == CHOOSE h : Eq(h)
  <1>8. Eq(g)
    BY <1>7
  <1>9. M!readFrac(s) = g[n]
    BY SameIntegers DEF M!readFrac, n
  <1> HIDE DEF g
  <1>10. g[0] = 0 /\ \A k \in 1..n : g[k] = Wrap(g[k - 1] * 10 + s[k])
    <2>1. \A k \in 0..n : g[k] = IF k = 0 THEN 0 ELSE Wrap(g[k - 1] * 10 + s[k])
      BY <1>8
    <2>2. 0 \in 0..n
      BY <1>1
    <2> QED BY <1>5, <2>1, <2>2
  <1> QED BY <1>9, <1>10 DEF ReadsFrac, n
\* Just beyond the greatest integer lies the least one.
LEMMA WrapTop ==
    ASSUME NEW x \in Nat, x <= 2^W
    PROVE  /\ x < 2^W => Wrap(x) = x
           /\ x = 2^W => Wrap(x) = MinInt
           /\ Wrap(-x) = -x
  <1>1. /\ 2^W \in Nat /\ 2^W > 0 /\ MaxInt = 2^W - 1 /\ MinInt = -(2^W)
        /\ 2^(W + 1) = 2 * 2^W
    BY Range64 DEF MaxInt, MinInt
  <1>2. ASSUME x < 2^W PROVE Wrap(x) = x
    <2>1. Fits(x)
      BY <1>1, <1>2 DEF Fits
    <2> QED BY <2>1, WrapExact
  <1>3. ASSUME x = 2^W PROVE Wrap(x) = MinInt
    <2>1. x \in Int /\ ~Fits(x) /\ 2 * MinInt <= x /\ x <= 2 * 2^W /\ x > MaxInt
      BY <1>1, <1>3 DEF Fits
    <2>2. Wrap(x) = x - 2^(W + 1)
      BY <2>1, WrapOver
    <2> QED BY <1>1, <1>3, <2>2
  <1>4. Wrap(-x) = -x
    <2>1. -x \in Int /\ Fits(-x)
      BY <1>1 DEF Fits
    <2> QED BY <2>1, WrapExact
  <1> QED BY <1>2, <1>3, <1>4

\* A digit is neither of the other characters.
LEMMA DigitsOnly ==
    ASSUME NEW d \in 0..9
    PROVE  d \notin {Minus, Bad}
  BY AlgorithmsAssumption

\* One digit: exact while it fits, refused at 2^W.
LEMMA AccumulateExact ==
    ASSUME NEW a \in Nat, NEW d \in 0..9, a * 10 + d <= 2^W, a < 2^W
    PROVE  /\ a * 10 + d < 2^W => M!accumulate(M!Ok(a), d) = M!Ok(a * 10 + d)
           /\ a * 10 + d = 2^W => M!accumulate(M!Ok(a), d) = M!Err
  <1> DEFINE x == a * 10 + d
  <1>1. x \in Nat /\ x >= a
    OBVIOUS
  <1>2. 2^W \in Nat /\ MinInt \in Int /\ MinInt < 0
    BY Range64 DEF MinInt
  <1>3. M!accumulate(M!Ok(a), d) = IF Wrap(x) < a THEN M!Err ELSE M!Ok(Wrap(x))
    BY DigitsOnly, SameIntegers DEF M!accumulate, M!Ok
  <1>4. x < 2^W => Wrap(x) = x
    BY <1>1, WrapTop
  <1>5. x = 2^W => Wrap(x) = MinInt
    BY <1>1, WrapTop
  <1> HIDE DEF x
  <1>6. x < 2^W => ~(Wrap(x) < a)
    BY <1>1, <1>4
  <1>7. x = 2^W => Wrap(x) < a
    BY <1>1, <1>2, <1>5
  <1> QED BY <1>3, <1>4, <1>6, <1>7 DEF x

\* readInt up to the limit.
LEMMA ReadIntExact ==
    ASSUME NEW s \in Seq(0..9), M!Number(s) <= 2^W
    PROVE  /\ M!Number(s) < 2^W => M!readInt(s) = M!Ok(M!Number(s))
           /\ M!Number(s) = 2^W => ~M!readInt(s).ok
  <1> DEFINE n == Len(s)
             N == M!Number(s)
  <1>1. PICK f \in [0..n -> Nat] : Spells(f, s) /\ N = f[n]
    BY NumberIs
  <1>2. s \in Seq(Characters)
    BY DEF Characters
  <1>3. PICK r : Reads(r, s) /\ M!readInt(s) = r[n]
    BY <1>2, ReadIntIs
  <1>4. n \in Nat /\ n \in 0..n /\ N \in Nat
    BY <1>1
  <1>5. 2^W \in Nat /\ 2^W > 0
    BY Range64
  <1>6. ASSUME NEW k \in 0..n, k < n PROVE f[k] \in Nat /\ f[k] < 2^W
    <2>1. f[k] \in Nat /\ 10 * f[k] <= N
      BY <1>1, <1>6, Grows
    <2> QED BY <1>4, <1>5, <2>1
  <1>7. ASSUME NEW k \in 1..n, r[k - 1] = M!Ok(f[k - 1])
        PROVE  /\ f[k] < 2^W => r[k] = M!Ok(f[k])
               /\ f[k] = 2^W => r[k] = M!Err
    <2>1. k - 1 \in 0..n /\ k - 1 < n /\ k \in 0..n /\ s[k] \in 0..9
      BY <1>4
    <2>2. f[k - 1] \in Nat /\ f[k - 1] < 2^W
      BY <1>6, <2>1
    <2>3. f[k] = f[k - 1] * 10 + s[k]
      BY <1>1 DEF Spells
    <2>4. f[k] \in Nat /\ f[k] <= N
      BY <1>1, <2>1, Grows
    <2>5. f[k] <= 2^W
      BY <1>4, <1>5, <2>4
    <2>6. r[k] = M!accumulate(M!Ok(f[k - 1]), s[k])
      BY <1>3, <1>7 DEF Reads
    <2>7. f[k - 1] * 10 + s[k] <= 2^W
      BY <2>3, <2>5
    <2>8. f[k] < 2^W => M!accumulate(M!Ok(f[k - 1]), s[k]) = M!Ok(f[k])
      BY <2>1, <2>2, <2>3, <2>7, AccumulateExact
    <2>9. f[k] = 2^W => M!accumulate(M!Ok(f[k - 1]), s[k]) = M!Err
      BY <2>1, <2>2, <2>3, <2>7, AccumulateExact
    <2> QED BY <2>6, <2>8, <2>9
  <1> DEFINE S == {k \in 0..n : f[k] < 2^W => r[k] = M!Ok(f[k])}
  <1>8. 0 \in S
    BY <1>1, <1>3, <1>4 DEF Spells, Reads
  <1>9. ASSUME NEW k \in 1..n, k - 1 \in S PROVE k \in S
    <2>1. k - 1 \in 0..n /\ k - 1 < n /\ k \in 0..n
      BY <1>4
    <2>2. r[k - 1] = M!Ok(f[k - 1])
      BY <1>6, <1>9, <2>1
    <2> QED BY <1>7, <2>1, <2>2
  <1>10. \A k \in 0..n : k \in S
    <2> HIDE DEF S
    <2> QED BY <1>4, <1>8, <1>9, UpTo
  <1>11. ASSUME N = 2^W PROVE ~r[n].ok
    <2>1. n # 0
      <3>1. f[0] = 0
        BY <1>1 DEF Spells
      <3> QED BY <1>1, <1>5, <1>11, <3>1
    <2>2. n \in 1..n /\ n - 1 \in 0..n /\ n - 1 < n
      BY <1>4, <2>1
    <2>3. r[n - 1] = M!Ok(f[n - 1])
      BY <1>6, <1>10, <2>2
    <2>4. r[n] = M!Err
      BY <1>1, <1>7, <1>11, <2>2, <2>3
    <2> QED BY <2>4 DEF M!Err
  <1>12. N < 2^W => r[n] = M!Ok(N)
    BY <1>1, <1>4, <1>10
  <1> QED BY <1>3, <1>11, <1>12

\* A bad character is final.
LEMMA ReadIntBad ==
    ASSUME NEW s \in Seq(Characters), ~M!Valid(s)
    PROVE  ~M!readInt(s).ok
  <1> DEFINE n == Len(s)
  <1>1. PICK r : Reads(r, s) /\ M!readInt(s) = r[n]
    BY ReadIntIs
  <1>2. PICK b \in 1..n : s[b] \in {Minus, Bad}
    BY DEF M!Valid
  <1>3. n \in Nat /\ n \in 0..n /\ b <= n
    BY <1>2
  <1> DEFINE S == {k \in 0..n : b <= k => ~r[k].ok}
  <1>4. 0 \in S
    BY <1>2
  <1>5. ASSUME NEW k \in 1..n, k - 1 \in S PROVE k \in S
    <2>1. r[k] = M!accumulate(r[k - 1], s[k])
      BY <1>1 DEF Reads
    <2>2. CASE k = b
      <3>1. r[k] = M!Err
        BY <1>2, <2>1, <2>2 DEF M!accumulate
      <3> QED BY <3>1 DEF M!Err
    <2>3. CASE k # b
      <3>1. ASSUME b <= k PROVE ~r[k].ok
        <4>1. b <= k - 1
          BY <1>2, <2>3, <3>1
        <4>2. ~r[k - 1].ok
          BY <1>5, <4>1
        <4>3. r[k] = M!Err
          BY <2>1, <4>2 DEF M!accumulate
        <4> QED BY <4>3 DEF M!Err
      <3> QED BY <3>1
    <2> QED BY <2>2, <2>3
  <1>6. \A k \in 0..n : k \in S
    <2> HIDE DEF S
    <2> QED BY <1>3, <1>4, <1>5, UpTo
  <1> QED BY <1>1, <1>3, <1>6

\* readFrac has no test, and needs none up to the limit.
LEMMA ReadFracWraps ==
    ASSUME NEW s \in Seq(0..9), M!Number(s) <= 2^W
    PROVE  M!readFrac(s) = Wrap(M!Number(s))
  <1> DEFINE n == Len(s)
             N == M!Number(s)
  <1>1. PICK f \in [0..n -> Nat] : Spells(f, s) /\ N = f[n]
    BY NumberIs
  <1>2. PICK r : ReadsFrac(r, s) /\ M!readFrac(s) = r[n]
    BY ReadFracIs
  <1>3. n \in Nat /\ n \in 0..n /\ N \in Nat
    BY <1>1
  <1>4. 2^W \in Nat /\ 2^W > 0
    BY Range64
  <1> DEFINE S == {k \in 0..n : r[k] = Wrap(f[k])}
  <1>5. 0 \in S
    <2>1. 0 \in Nat /\ 0 < 2^W /\ 0 <= 2^W
      BY <1>4
    <2>2. Wrap(0) = 0
      BY <2>1, WrapTop
    <2> QED BY <1>1, <1>2, <1>3, <2>2 DEF Spells, ReadsFrac
  <1>6. ASSUME NEW k \in 1..n, k - 1 \in S PROVE k \in S
    <2>1. k - 1 \in 0..n /\ k - 1 < n /\ k \in 0..n
      BY <1>3
    <2>2. f[k - 1] \in Nat /\ 10 * f[k - 1] <= N
      BY <1>1, <2>1, Grows
    <2>3. f[k - 1] < 2^W /\ f[k - 1] <= 2^W
      BY <1>3, <1>4, <2>2
    <2>4. Wrap(f[k - 1]) = f[k - 1]
      BY <2>2, <2>3, WrapTop
    <2>5. r[k] = Wrap(r[k - 1] * 10 + s[k]) /\ f[k] = f[k - 1] * 10 + s[k]
      BY <1>1, <1>2 DEF ReadsFrac, Spells
    <2> QED BY <1>6, <2>1, <2>4, <2>5
  <1>7. \A k \in 0..n : k \in S
    <2> HIDE DEF S
    <2> QED BY <1>3, <1>5, <1>6, UpTo
  <1> QED BY <1>1, <1>2, <1>3, <1>7
\* A valid text has digits only.
LEMMA ValidDigits ==
    ASSUME NEW s \in Seq(Characters), M!Valid(s)
    PROVE  s \in Seq(0..9)
  <1>1. \A k \in 1..Len(s) : s[k] \in 0..9
    BY DEF M!Valid, Characters
  <1> QED BY <1>1

\* A positive factor does not make a natural number smaller.
LEMMA Factor ==
    ASSUME NEW a \in Nat, NEW t \in Nat, t >= 1
    PROVE  a * t \in Nat /\ a <= a * t /\ (a > 0 /\ a * t <= a => t = 1)
  <1>1. t - 1 \in Nat /\ a * (t - 1) \in Nat /\ a * t = a * (t - 1) + a
    OBVIOUS
  <1>2. ASSUME a > 0, a * t <= a PROVE t = 1
    <2>1. a * (t - 1) = 0
      BY <1>1, <1>2
    <2>2. ASSUME t - 1 > 0 PROVE a * (t - 1) > 0
      BY <1>1, <1>2, <2>2
    <2> QED BY <1>1, <2>1, <2>2
  <1> QED BY <1>1, <1>2

\* The last step of both parsers: what wraps once and is negated is exact, the
\* least amount included.
LEMMA Signed64 ==
    ASSUME NEW x \in Nat, x <= 2^W
    PROVE  /\ x < 2^W => Wrap(x) = x
           /\ Wrap(-Wrap(x)) = -x
  <1>1. 2^W \in Nat /\ 2^W > 0 /\ MinInt = -(2^W)
    BY Range64 DEF MinInt
  <1>2. CASE x < 2^W
    BY <1>2, WrapTop
  <1>3. CASE x = 2^W
    <2>1. Wrap(x) = MinInt /\ -MinInt = x
      BY <1>1, <1>3, WrapTop
    <2> QED BY <1>1, <1>3, <2>1
  <1> QED BY <1>1, <1>2, <1>3

\* The amount before its sign: integer part and fraction, each wrapped.
LEMMA MinorIs ==
    ASSUME NEW A \in Nat, NEW F \in Nat, NEW e \in Nat, e >= 1, A + F * e <= 2^W
    PROVE  Wrap(A + Wrap(Wrap(F) * e)) = Wrap(A + F * e)
  <1> DEFINE B == F * e
             P == 2^W
  <1>1. P \in Nat /\ P > 0 /\ MinInt = -P
    BY Range64 DEF MinInt
  <1>2. B \in Nat /\ F <= B /\ (F > 0 /\ B <= F => e = 1)
    BY Factor
  <1> HIDE DEF P
  <1>3. F <= P /\ B <= P
    BY <1>1, <1>2 DEF P
  <1>4. Wrap(Wrap(F) * e) = Wrap(B)
    <2>1. CASE F < P
      <3>1. Wrap(F) = F
        BY <1>3, <2>1, WrapTop DEF P
      <3> QED BY <3>1
    <2>2. CASE F = P
      <3>1. e = 1 /\ B = P
        BY <1>1, <1>2, <1>3, <2>2
      <3>2. Wrap(F) = -P /\ Wrap(B) = -P
        BY <1>1, <1>2, <1>3, <2>2, <3>1, WrapTop DEF P
      <3>3. Wrap(-P) = -P
        <4>1. P <= 2^W
          BY <1>1 DEF P
        <4> QED BY <1>1, <4>1, WrapTop
      <3>4. (-P) * 1 = -P
        BY <1>1
      <3> QED BY <3>1, <3>2, <3>3, <3>4
    <2> QED BY <1>1, <1>3, <2>1, <2>2
  <1>5. CASE B < P
    <2>1. Wrap(B) = B
      BY <1>2, <1>3, <1>5, WrapTop DEF P
    <2> QED BY <1>4, <2>1
  <1>6. CASE B = P
    <2>1. A = 0
      BY <1>1, <1>2, <1>6 DEF P
    <2>2. Wrap(B) = -P
      BY <1>1, <1>2, <1>3, <1>6, WrapTop DEF P
    <2>3. Wrap(-P) = -P
      <3>1. P <= 2^W
        BY <1>1 DEF P
      <3> QED BY <1>1, <3>1, WrapTop
    <2>4. 0 + (-P) = -P /\ A + B = B
      BY <1>1, <1>2, <2>1
    <2> HIDE DEF B
    <2>5. Wrap(A + Wrap(Wrap(F) * e)) = Wrap(0 + (-P))
      BY <1>4, <2>1, <2>2
    <2>6. Wrap(A + B) = -P
      BY <2>2, <2>4
    <2> QED BY <2>3, <2>4, <2>5, <2>6 DEF B
  <1> QED BY <1>1, <1>2, <1>3, <1>5, <1>6
\* A text as both parsers split it.
IsText(t) ==
    /\ t.int \in Seq(Characters) /\ t.frac \in Seq(Characters)
    /\ t.frac # <<>> => t.point

\* An amount that fits, without its sign.
LEMMA FitsMagnitude ==
    ASSUME NEW x \in Nat
    PROVE  /\ Fits(-x) => x <= 2^W
           /\ Fits(x) => x < 2^W /\ x <= 2^W
  <1>1. 2^W \in Nat /\ MaxInt = 2^W - 1 /\ MinInt = -(2^W)
    BY Range64 DEF MinInt
  <1> QED BY <1>1 DEF Fits

\* What ParseMajor must refuse it refuses.
LEMMA ParseMajorRefuses ==
    ASSUME NEW t, IsText(t), NEW decimals \in Nat,
           ~(Spelled(t) /\ Len(t.frac) <= decimals)
    PROVE  ~M!ParseMajor(t, decimals).ok
  <1>1. t.int \in Seq(Characters) /\ t.frac \in Seq(Characters)
    BY DEF IsText
  <1>2. Len(t.frac) \in Nat
    BY <1>1
  <1>3. \/ t.int = <<>> /\ t.frac = <<>>
        \/ Len(t.frac) > decimals
        \/ ~M!Valid(t.int)
        \/ ~M!Valid(t.frac)
    <2>1. t.int \o t.frac = <<>> => t.int = <<>> /\ t.frac = <<>>
      BY <1>1
    <2> QED BY <1>2, <2>1 DEF Spelled
  <1>4. ~M!Valid(t.int) => ~M!readInt(t.int).ok
    BY <1>1, ReadIntBad
  <1>5. M!ParseMajor(t, decimals) = M!Err
    BY <1>3, <1>4 DEF M!ParseMajor
  <1> QED BY <1>5 DEF M!Err

\* What it spells, in units of 10^-places.
LEMMA ValueIs ==
    ASSUME NEW t, IsText(t), Spelled(t), NEW places \in Nat, Len(t.frac) <= places
    PROVE  LET e == M!TenTo(places - Len(t.frac))
               x == M!Number(t.int) * M!TenTo(places) + M!Number(t.frac) * e
           IN  /\ e \in Nat /\ e >= 1
               /\ M!TenTo(places) \in Nat /\ M!TenTo(places) >= 1
               /\ M!Number(t.int) \in Nat /\ M!Number(t.frac) \in Nat
               /\ Value(t, places) = IF t.sign = "-" THEN -x ELSE x
  <1> DEFINE k == Len(t.frac)
             e == M!TenTo(places - k)
             T == M!TenTo(places)
             I == M!Number(t.int)
             F == M!Number(t.frac)
             J == M!TenTo(k)
  <1>1. t.int \in Seq(0..9) /\ t.frac \in Seq(0..9)
    BY ValidDigits DEF IsText, Spelled
  <1>2. k \in Nat /\ places - k \in Nat /\ k + (places - k) = places
    BY <1>1
  <1>3. e \in Nat /\ e >= 1
    BY <1>2, TenPositive
  <1>4. T \in Nat /\ T >= 1
    BY TenPositive
  <1>5. J \in Nat
    BY <1>2, TenPositive
  <1>6. T = J * e
    BY <1>2, TenSum
  <1>7. I \in Nat /\ F \in Nat /\ M!Number(t.int \o t.frac) = I * J + F
    BY <1>1, Joined
  <1>8. Value(t, places) = IF t.sign = "-" THEN -(M!Number(t.int \o t.frac) * e)
                           ELSE M!Number(t.int \o t.frac) * e
    BY DEF Value
  <1>9. (I * J + F) * e = I * T + F * e
    <2> HIDE DEF I, J, F, e, T
    <2> QED BY <1>3, <1>5, <1>6, <1>7
  <1> QED BY <1>3, <1>4, <1>7, <1>8, <1>9

\* ParseMajor is exact up to the limits.
LEMMA ParseMajorExact ==
    ASSUME NEW t, IsText(t), NEW decimals \in Nat, Spelled(t), Len(t.frac) <= decimals,
           Fits(Value(t, decimals))
    PROVE  \/ M!ParseMajor(t, decimals) = M!Ok(Value(t, decimals))
           \/ Value(t, decimals) = MinInt /\ ~M!ParseMajor(t, decimals).ok
  <1> DEFINE e == M!TenTo(decimals - Len(t.frac))
             T == M!TenTo(decimals)
             I == M!Number(t.int)
             F == M!Number(t.frac)
             P == 2^W
             x == I * T + F * e
             v == Value(t, decimals)
             out1 == M!ParseMajor(t, decimals)
  <1>1. /\ e \in Nat /\ e >= 1 /\ T \in Nat /\ T >= 1 /\ I \in Nat /\ F \in Nat
        /\ v = IF t.sign = "-" THEN -x ELSE x
    BY ValueIs
  <1>2. t.int \in Seq(0..9) /\ t.frac \in Seq(0..9)
    BY ValidDigits DEF IsText, Spelled
  <1>3. Fits(v)
    OBVIOUS
  <1>4. P \in Nat /\ P > 0 /\ MinInt = -P
    BY Range64 DEF MinInt
  <1>5. I * T \in Nat /\ F * e \in Nat /\ I <= I * T /\ F <= F * e
    BY <1>1, Factor
  <1>6. ~(t.int = <<>> /\ t.frac = <<>>) /\ ~(Len(t.frac) > decimals) /\ M!Valid(t.frac)
    <2>1. t.int = <<>> /\ t.frac = <<>> => t.int \o t.frac = <<>>
      BY <1>2
    <2>2. ~(Len(t.frac) > decimals)
      BY <1>2
    <2> QED BY <2>1, <2>2 DEF Spelled
  <1>7. out1 = IF ~M!readInt(t.int).ok THEN M!Err
               ELSE LET frac == Wrap(M!readFrac(t.frac) * e)
                        minor == Wrap(M!readInt(t.int).n * T + frac)
                    IN  M!Ok(IF t.sign = "-" THEN Wrap(-minor) ELSE minor)
    BY <1>6, SameIntegers DEF M!ParseMajor
  <1> HIDE DEF out1, v, P, T, e, I, F
  <1>8. x \in Nat /\ x <= P /\ (x = P => t.sign = "-")
    <2>1. x \in Nat
      BY <1>5
    <2> HIDE DEF x
    <2>2. Fits(-x) => x <= P
      BY <2>1, FitsMagnitude DEF P
    <2>3. Fits(x) => x < P /\ x <= P
      BY <2>1, FitsMagnitude DEF P
    <2> QED BY <1>1, <1>3, <1>4, <2>1, <2>2, <2>3
  <1>9. I <= P /\ F <= P
    BY <1>1, <1>4, <1>5, <1>8
  <1>10. CASE I = P
    <2>1. x = P
      BY <1>1, <1>4, <1>5, <1>8, <1>10
    <2>2. v = MinInt
      BY <1>1, <1>4, <1>8, <2>1
    <2>3. ~M!readInt(t.int).ok
      BY <1>2, <1>9, <1>10, ReadIntExact DEF I, P
    <2>4. ~out1.ok
      BY <1>7, <2>3 DEF M!Err
    <2> QED BY <2>2, <2>4 DEF v, out1
  <1>11. CASE I < P
    <2>1. M!readInt(t.int) = M!Ok(I)
      BY <1>2, <1>9, <1>11, ReadIntExact DEF I, P
    <2>2. M!readFrac(t.frac) = Wrap(F)
      BY <1>2, <1>9, ReadFracWraps DEF F, P
    <2>3. M!readInt(t.int).ok /\ M!readInt(t.int).n = I
      BY <2>1 DEF M!Ok
    <2> DEFINE minor == Wrap(I * T + Wrap(Wrap(F) * e))
    <2>4. out1 = M!Ok(IF t.sign = "-" THEN Wrap(-minor) ELSE minor)
      BY <1>7, <2>2, <2>3
    <2>5. minor = Wrap(x)
      <3> DEFINE A == I * T
      <3>1. A \in Nat /\ A + F * e <= 2^W
        BY <1>5, <1>8 DEF P
      <3> HIDE DEF A
      <3>2. Wrap(A + Wrap(Wrap(F) * e)) = Wrap(A + F * e)
        BY <1>1, <3>1, MinorIs
      <3> QED BY <3>2 DEF A
    <2> HIDE DEF minor, x
    <2>6. x < P => Wrap(x) = x
      BY <1>8, Signed64 DEF P
    <2>7. Wrap(-Wrap(x)) = -x
      BY <1>8, Signed64 DEF P
    <2>8. CASE t.sign = "-"
      <3>1. out1 = M!Ok(v)
        BY <1>1, <2>4, <2>5, <2>7, <2>8
      <3> QED BY <3>1 DEF out1, v
    <2>9. CASE t.sign # "-"
      <3>1. x < P
        BY <1>4, <1>8, <2>9
      <3>2. out1 = M!Ok(v)
        BY <1>1, <2>4, <2>5, <2>6, <2>9, <3>1
      <3> QED BY <3>2 DEF out1, v
    <2> QED BY <2>8, <2>9
  <1> QED BY <1>1, <1>4, <1>9, <1>10, <1>11
-----------------------------------------------------------------------------
(* parseDecimalKopecks. *)

\* No digits spell zero.
LEMMA NoDigits == M!Number(<<>>) = 0
  <1>1. <<>> \in Seq(0..9) /\ Len(<<>>) = 0
    OBVIOUS
  <1>2. PICK f \in [0..Len(<<>>) -> Nat] : Spells(f, <<>>) /\ M!Number(<<>>) = f[Len(<<>>)]
    BY <1>1, NumberIs
  <1> QED BY <1>1, <1>2 DEF Spells

\* ParseInt of digits whose number fits.
LEMMA ParseIntDigits ==
    ASSUME NEW s \in Seq(0..9), s # <<>>, M!Number(s) < 2^W
    PROVE  M!ParseInt(s) = M!Ok(M!Number(s))
  <1>1. M!Number(s) \in Nat
    BY Joined
  <1>2. 1 \in DOMAIN s
    OBVIOUS
  <1>3. \A i \in DOMAIN s : s[i] \in 0..9
    OBVIOUS
  <1>4. \A i \in DOMAIN s : s[i] \notin {Minus, Bad}
    BY <1>3, DigitsOnly
  <1>5. M!Valid(s) /\ s[1] # Minus
    BY <1>2, <1>4 DEF M!Valid
  <1>6. M!Fits(M!Number(s))
    <2>1. M!MinInt = -(2^W) /\ M!MaxInt = 2^W - 1 /\ 2^W \in Nat
      BY Range64 DEF M!MinInt, M!MaxInt
    <2> QED BY <1>1, <2>1 DEF M!Fits
  <1> QED BY <1>5, <1>6 DEF M!ParseInt

\* Two digits are less than a hundred.
LEMMA TwoDigits ==
    ASSUME NEW s \in Seq(0..9), NEW f, Spells(f, s), Len(s) >= 2
    PROVE  f[2] \in 0..99
  <1>1. \A i \in 1..Len(s) : s[i] \in 0..9
    OBVIOUS
  <1>2. 1 \in 1..Len(s) /\ 2 \in 1..Len(s) /\ 1 - 1 = 0 /\ 2 - 1 = 1
    OBVIOUS
  <1>3. s[1] \in 0..9 /\ s[2] \in 0..9
    BY <1>1, <1>2
  <1>4. f[0] = 0 /\ f[1] = f[0] * 10 + s[1] /\ f[2] = f[1] * 10 + s[2]
    BY <1>2 DEF Spells
  <1>5. \A x, y \in 0..9 : 0 * 10 + x = x /\ x * 10 + y \in 0..99
    OBVIOUS
  <1>6. f[1] = s[1]
    <2>1. f[1] = 0 * 10 + s[1]
      BY <1>4
    <2> QED BY <1>3, <1>5, <2>1
  <1>7. f[2] = s[1] * 10 + s[2]
    BY <1>4, <1>6
  <1>8. s[1] * 10 + s[2] \in 0..99
    <2> DEFINE x == s[1]
               y == s[2]
    <2>1. x \in 0..9 /\ y \in 0..9
      BY <1>3
    <2> HIDE DEF x, y
    <2>2. x * 10 + y \in 0..99
      BY <2>1
    <2> QED BY <2>2 DEF x, y
  <1> QED BY <1>7, <1>8

\* The tens that occur: 10, 100, and what they leave of a long fraction.
LEMMA SmallTens == M!TenTo(1) = 10 /\ M!TenTo(2) = 100
  <1>1. M!TenTo(1) = 10
    <2>1. 0 \in Nat /\ 0 + 1 = 1
      OBVIOUS
    <2>2. M!TenTo(0 + 1) = 10 * M!TenTo(0)
      BY <2>1, TenNext
    <2> QED BY <2>1, <2>2, TenZero
  <1>2. M!TenTo(2) = 100
    <2>1. 1 \in Nat /\ 1 + 1 = 2
      OBVIOUS
    <2>2. M!TenTo(1 + 1) = 10 * M!TenTo(1)
      BY <2>1, TenNext
    <2> QED BY <1>1, <2>1, <2>2
  <1> QED BY <1>1, <1>2

\* The powers around the third digit of k digits.
LEMMA LongTens ==
    ASSUME NEW k \in Nat, k >= 3
    PROVE  /\ M!TenTo(k - 3) \in Nat /\ M!TenTo(k - 3) >= 1
           /\ M!TenTo(k - 2) = 10 * M!TenTo(k - 3)
           /\ M!TenTo(k) = 1000 * M!TenTo(k - 3)
  <1>1. k - 3 \in Nat /\ k - 2 \in Nat /\ (k - 3) + 1 = k - 2 /\ (k - 2) + 2 = k /\ 2 \in Nat
    OBVIOUS
  <1>2. M!TenTo(k - 3) \in Nat /\ M!TenTo(k - 3) >= 1
    BY <1>1, TenPositive
  <1>3. M!TenTo((k - 3) + 1) = 10 * M!TenTo(k - 3)
    BY <1>1, TenNext
  <1>4. M!TenTo((k - 2) + 2) = M!TenTo(k - 2) * M!TenTo(2)
    BY <1>1, TenSum
  <1> QED BY <1>1, <1>2, <1>3, <1>4, SmallTens

\* c kopecks are what a fraction comes to: exactly, or rounded half up.
Rounded(c, s) ==
    LET k == Len(s)
        F == M!Number(s)
    IN  IF k <= 2 THEN c = F * M!TenTo(2 - k)
        ELSE /\ c * M!TenTo(k - 2) <= F + 5 * M!TenTo(k - 3)
             /\ F + 5 * M!TenTo(k - 3) < c * M!TenTo(k - 2) + M!TenTo(k - 2)

\* Looking at the third digit alone rounds correctly.
LEMMA LongFraction ==
    ASSUME NEW s \in Seq(0..9), Len(s) > 2
    PROVE  \E c \in 0..100 : M!fraction(s) = M!Ok(c) /\ Rounded(c, s)
  <1> DEFINE k == Len(s)
             two == SubSeq(s, 1, 2)
             a == M!Number(two)
             q == M!TenTo(k - 3)
             F == M!Number(s)
             d == s[3]
             c == IF d >= 5 THEN a + 1 ELSE a
  <1>1. PICK f \in [0..k -> Nat] : Spells(f, s) /\ F = f[k]
    BY NumberIs
  <1>2. two \in Seq(0..9) /\ Len(two) = 2 /\ two # <<>> /\ \A i \in 1..2 : two[i] = s[i]
    OBVIOUS
  <1>3. Spells(f, two)
    <2>1. f[0] = 0 /\ f[1] = f[1 - 1] * 10 + s[1] /\ f[2] = f[2 - 1] * 10 + s[2]
      BY <1>1 DEF Spells
    <2> QED BY <1>2, <2>1 DEF Spells
  <1>4. a = f[2]
    BY <1>2, <1>3, SpelledNumber
  <1>5. a \in 0..99
    <2>1. Len(two) >= 2
      BY <1>2
    <2>2. f[2] \in 0..99
      BY <1>2, <1>3, <2>1, TwoDigits
    <2> QED BY <1>4, <2>2
  <1>6. d \in 0..9
    OBVIOUS
  <1>7. f[3] = a * 10 + d
    <2>1. f[3] = f[3 - 1] * 10 + s[3]
      BY <1>1 DEF Spells
    <2> QED BY <1>4, <2>1
  <1>8. k \in Nat /\ k >= 3 /\ 3 \in 0..k /\ k - 3 \in 0..(k - 3) /\ 3 + (k - 3) = k
    OBVIOUS
  <1>9. f[3] * q <= F /\ F < f[3] * q + q
    BY <1>1, <1>8, Leading
  <1>10. q \in Nat /\ q >= 1 /\ M!TenTo(k - 2) = 10 * q
    BY <1>8, LongTens
  <1>11. M!ParseInt(two) = M!Ok(a)
    <2>1. a < 2^W
      <3>1. 100 <= MaxInt
        BY AlgorithmsAssumption
      <3> HIDE DEF a
      <3> QED BY <1>5, <3>1, Range64
    <2> QED BY <1>2, <2>1, ParseIntDigits
  <1>12. F \in Nat
    BY <1>1, <1>8
  <1>13. M!fraction(s) = M!Ok(c)
    <2>1. s # <<>> /\ ~(Len(s) = 1) /\ Len(s) > 2
      OBVIOUS
    <2>2. M!Valid(<<s[3]>>)
      <3>1. d \notin {Minus, Bad}
        BY <1>6, DigitsOnly
      <3>2. \A i \in DOMAIN <<s[3]>> : <<s[3]>>[i] = d
        OBVIOUS
      <3> QED BY <3>1, <3>2 DEF M!Valid
    <2>3. M!fraction(s) = IF d >= 5 /\ M!ParseInt(two).ok THEN M!Ok(M!ParseInt(two).n + 1)
                          ELSE M!ParseInt(two)
      BY <2>1, <2>2 DEF M!fraction
    <2>4. M!ParseInt(two).ok /\ M!ParseInt(two).n = a
      BY <1>11 DEF M!Ok
    <2> QED BY <1>11, <2>3, <2>4
  <1> HIDE DEF a, q, F, d
  <1>14. c \in 0..100
    BY <1>5, <1>6
  <1>15. c * (10 * q) <= F + 5 * q /\ F + 5 * q < c * (10 * q) + 10 * q
    <2> DEFINE b == a * q
               g == d * q
    <2>1. b \in Nat /\ g \in Nat
      BY <1>5, <1>6, <1>10
    <2>2. f[3] * q = 10 * b + g
      BY <1>5, <1>6, <1>7, <1>10
    <2>3. (a + 1) * (10 * q) = 10 * b + 10 * q /\ a * (10 * q) = 10 * b
      BY <1>5, <1>10
    <2>6. 10 * b + g <= F /\ F < 10 * b + g + q
      BY <1>9, <2>2
    <2>4. CASE d >= 5
      <3>1. g >= 5 * q /\ g <= 9 * q
        BY <1>6, <1>10, <2>4
      <3>2. c * (10 * q) = 10 * b + 10 * q
        BY <2>3, <2>4
      <3> HIDE DEF b, g, c
      <3> QED BY <1>10, <1>12, <2>1, <2>6, <3>1, <3>2
    <2>5. CASE ~(d >= 5)
      <3>1. g >= 0 /\ g <= 4 * q
        BY <1>6, <1>10, <2>5
      <3>2. c * (10 * q) = 10 * b
        BY <2>3, <2>5
      <3> HIDE DEF b, g, c
      <3> QED BY <1>10, <1>12, <2>1, <2>6, <3>1, <3>2
    <2> QED BY <2>4, <2>5
  <1>16. Rounded(c, s)
    <2>1. ~(k <= 2)
      BY <1>8
    <2> HIDE DEF c
    <2> QED BY <1>10, <1>15, <2>1 DEF Rounded, q, F
  <1> HIDE DEF c
  <1> QED BY <1>13, <1>14, <1>16
\* A fraction of up to two digits is padded, not rounded.
LEMMA ShortFraction ==
    ASSUME NEW s \in Seq(0..9), Len(s) <= 2
    PROVE  \E c \in 0..100 : M!fraction(s) = M!Ok(c) /\ Rounded(c, s)
  <1>1. 100 < 2^W
    <2>1. 100 <= MaxInt
      BY AlgorithmsAssumption
    <2> QED BY <2>1, Range64
  <1>2. Len(s) = 0 \/ Len(s) = 1 \/ Len(s) = 2
    <2>1. Len(s) \in Nat /\ Len(s) <= 2
      OBVIOUS
    <2>2. \A n \in Nat : n <= 2 => n = 0 \/ n = 1 \/ n = 2
      OBVIOUS
    <2> QED BY <2>1, <2>2, Zenon
  <1>6. Len(s) # 0 => s # <<>>
    OBVIOUS
  <1>3. CASE Len(s) = 0
    <2>1. s = <<>>
      BY <1>3
    <2>2. M!fraction(s) = M!Ok(0)
      BY <2>1 DEF M!fraction
    <2>3. M!Number(s) = 0
      BY <2>1, NoDigits
    <2>4. M!TenTo(2 - Len(s)) \in Nat
      <3>1. 2 - Len(s) \in Nat
        OBVIOUS
      <3> QED BY <3>1, TenPositive
    <2>5. 0 = M!Number(s) * M!TenTo(2 - Len(s))
      BY <2>3, <2>4
    <2>6. Rounded(0, s)
      BY <2>5 DEF Rounded
    <2>7. 0 \in 0..100
      OBVIOUS
    <2> QED BY <2>2, <2>6, <2>7
  <1>4. CASE Len(s) = 1
    <2> DEFINE p == s \o <<0>>
               c == M!Number(p)
    <2>1. p \in Seq(0..9) /\ p # <<>> /\ Len(p) = 2 /\ <<0>> \in Seq(0..9) /\ Len(<<0>>) = 1
      <3>1. <<0>> \in Seq(0..9) /\ Len(<<0>>) = 1
        OBVIOUS
      <3>2. p \in Seq(0..9) /\ Len(p) = Len(s) + 1
        BY <3>1
      <3>3. p # <<>>
        BY <1>4, <3>2
      <3> QED BY <1>4, <3>1, <3>2, <3>3
    <2>2. PICK f \in [0..Len(p) -> Nat] : Spells(f, p) /\ c = f[Len(p)]
      BY <2>1, NumberIs
    <2>3. c \in 0..99
      <3>1. Len(p) >= 2
        BY <2>1
      <3>2. f[2] \in 0..99
        BY <2>1, <2>2, <3>1, TwoDigits
      <3> QED BY <2>1, <2>2, <3>2
    <2>4. c = M!Number(s) * M!TenTo(1) + M!Number(<<0>>) /\ M!Number(s) \in Nat
      BY <2>1, Joined
    <2>5. M!Number(<<0>>) = 0
      <3>1. PICK h \in [0..Len(<<0>>) -> Nat] :
                Spells(h, <<0>>) /\ M!Number(<<0>>) = h[Len(<<0>>)]
        BY <2>1, NumberIs
      <3>2. h[0] = 0 /\ h[1] = h[1 - 1] * 10 + 0
        BY <3>1 DEF Spells
      <3>3. h[1] = 0
        BY <3>2
      <3> QED BY <2>1, <3>1, <3>3
    <2>6. c = M!Number(s) * M!TenTo(2 - Len(s))
      <3>1. 2 - Len(s) = 1
        BY <1>4
      <3> HIDE DEF c
      <3> QED BY <2>4, <2>5, <3>1, SmallTens
    <2>7. M!ParseInt(p) = M!Ok(c)
      <3>1. c < 2^W
        <4> HIDE DEF c
        <4> QED BY <1>1, <2>3, Range64
      <3> QED BY <2>1, <3>1, ParseIntDigits
    <2>8. M!fraction(s) = M!Ok(c)
      <3>1. s # <<>>
        BY <1>4, <1>6
      <3> QED BY <1>4, <2>7, <3>1 DEF M!fraction
    <2> HIDE DEF c
    <2>9. Rounded(c, s)
      BY <2>6 DEF Rounded
    <2>10. c \in 0..100
      BY <2>3
    <2> QED BY <2>8, <2>9, <2>10
  <1>5. CASE Len(s) = 2
    <2> DEFINE c == M!Number(s)
    <2>1. PICK f \in [0..Len(s) -> Nat] : Spells(f, s) /\ c = f[Len(s)]
      BY NumberIs
    <2>2. c \in 0..99
      <3>1. Len(s) >= 2
        BY <1>5
      <3>2. f[2] \in 0..99
        BY <2>1, <3>1, TwoDigits
      <3> QED BY <1>5, <2>1, <3>2
    <2>3. SubSeq(s, 1, 2) = s
      BY <1>5
    <2>4. M!ParseInt(s) = M!Ok(c)
      <3>1. c < 2^W
        <4> HIDE DEF c
        <4> QED BY <1>1, <2>2, Range64
      <3>2. s # <<>>
        BY <1>5, <1>6
      <3> QED BY <3>1, <3>2, ParseIntDigits
    <2>5. M!fraction(s) = M!Ok(c)
      <3>1. s # <<>> /\ ~(Len(s) = 1) /\ ~(Len(s) > 2)
        BY <1>5, <1>6
      <3> QED BY <2>3, <2>4, <3>1 DEF M!fraction
    <2>6. Rounded(c, s)
      <3>1. 2 - Len(s) = 0 /\ Len(s) <= 2
        BY <1>5
      <3>2. c = M!Number(s) * M!TenTo(2 - Len(s))
        BY <2>2, <3>1, TenZero
      <3> HIDE DEF c
      <3> QED BY <3>1, <3>2 DEF Rounded
    <2> HIDE DEF c
    <2>7. c \in 0..100
      BY <2>2
    <2> QED BY <2>5, <2>6, <2>7
  <1> QED BY <1>2, <1>3, <1>4, <1>5

\* fraction rounds correctly at every length.
LEMMA FractionIs ==
    ASSUME NEW s \in Seq(0..9)
    PROVE  \E c \in 0..100 : M!fraction(s) = M!Ok(c) /\ Rounded(c, s)
  <1>1. Len(s) <= 2 \/ Len(s) > 2
    OBVIOUS
  <1> QED BY <1>1, ShortFraction, LongFraction

\* The quotient between two multiples.
LEMMA DivIs ==
    ASSUME NEW x \in Nat, NEW b \in Nat, b >= 1, NEW c \in Nat,
           c * b <= x, x < c * b + b
    PROVE  x \div b = c
  <1> DEFINE y == x \div b
  <1>1. y \in Nat /\ y * b <= x /\ x < y * b + b
    BY DivBounds
  <1> HIDE DEF y
  <1>2. ASSUME y < c PROVE FALSE
    <2>1. c - y - 1 \in Nat /\ (c - y - 1) * b \in Nat /\ c * b = y * b + b + (c - y - 1) * b
      BY <1>1, <1>2
    <2>2. y * b \in Nat
      BY <1>1
    <2> QED BY <1>1, <2>1, <2>2
  <1>3. ASSUME c < y PROVE FALSE
    <2>1. y - c - 1 \in Nat /\ (y - c - 1) * b \in Nat /\ y * b = c * b + b + (y - c - 1) * b
      BY <1>1, <1>3
    <2>2. c * b \in Nat
      OBVIOUS
    <2> QED BY <1>1, <2>1, <2>2
  <1> QED BY <1>1, <1>2, <1>3 DEF y

\* The kopecks a text spells.
LEMMA KopecksAre ==
    ASSUME NEW t, IsText(t), Spelled(t), NEW c \in 0..100, Rounded(c, t.frac)
    PROVE  Value(t, 2) = IF t.sign = "-" THEN -(M!Number(t.int) * 100 + c)
                         ELSE M!Number(t.int) * 100 + c
  <1> DEFINE k == Len(t.frac)
             I == M!Number(t.int)
             F == M!Number(t.frac)
  <1>1. t.int \in Seq(0..9) /\ t.frac \in Seq(0..9)
    BY ValidDigits DEF IsText, Spelled
  <1>2. k \in Nat
    BY <1>1
  <1>3. I \in Nat /\ F \in Nat /\ M!Number(t.int \o t.frac) = I * M!TenTo(k) + F
    BY <1>1, Joined
  <1>4. CASE k <= 2
    <2> DEFINE e == M!TenTo(2 - k)
    <2>1. Value(t, 2) = IF t.sign = "-" THEN -(I * M!TenTo(2) + F * e) ELSE I * M!TenTo(2) + F * e
      <3>1. 2 \in Nat
        OBVIOUS
      <3> QED BY <1>4, <3>1, ValueIs
    <2>2. c = F * e
      BY <1>4 DEF Rounded
    <2>3. I * M!TenTo(2) + F * e = I * 100 + c
      BY <2>2, SmallTens
    <2> QED BY <2>1, <2>3
  <1>5. CASE k > 2
    <2> DEFINE q == M!TenTo(k - 3)
               N == M!Number(t.int \o t.frac)
               J == M!TenTo(k)
               R == M!TenTo(k - 2)
               x == N + 5 * q
               y == I * 100 + c
    <2>1. k >= 3 /\ ~(k <= 2) /\ k - 2 - 1 = k - 3
      BY <1>2, <1>5
    <2>2. q \in Nat /\ q >= 1 /\ R = 10 * q /\ J = 1000 * q
      <3> HIDE DEF k
      <3>1. /\ M!TenTo(k - 3) \in Nat /\ M!TenTo(k - 3) >= 1
            /\ M!TenTo(k - 2) = 10 * M!TenTo(k - 3)
            /\ M!TenTo(k) = 1000 * M!TenTo(k - 3)
        BY <1>2, <2>1, LongTens
      <3> QED BY <3>1
    <2>3. c * R <= F + 5 * q /\ F + 5 * q < c * R + R
      BY <2>1 DEF Rounded
    <2>4. Value(t, 2) = IF t.sign = "-" THEN -(x \div R) ELSE x \div R
      BY <2>1 DEF Value
    <2>5. N = I * J + F
      BY <1>3
    <2> HIDE DEF q, N, J, R, I, F
    <2>6. x = I * (1000 * q) + F + 5 * q
      BY <1>3, <2>2, <2>5
    <2>7. y * R = I * (1000 * q) + c * R /\ I * (1000 * q) \in Nat /\ c * R \in Nat
      BY <1>3, <2>2
    <2>8. x \in Nat /\ y \in Nat /\ R \in Nat /\ R >= 1
      BY <1>3, <2>2, <2>6, <2>7
    <2> DEFINE z == I * (1000 * q)
               w == c * R
    <2> HIDE DEF x, y
    <2>9. x = z + F + 5 * q /\ y * R = z + w /\ z \in Nat /\ w \in Nat
          /\ w <= F + 5 * q /\ F + 5 * q < w + R
      BY <2>3, <2>6, <2>7
    <2> HIDE DEF z, w
    <2>10. y * R <= x /\ x < y * R + R
      BY <1>3, <2>2, <2>8, <2>9
    <2>11. x \div R = y
      BY <2>8, <2>10, DivIs
    <2> QED BY <2>4, <2>11 DEF y, I
  <1> QED BY <1>2, <1>4, <1>5
\* parseDecimalKopecks is exact up to the limits, the least amount included.
LEMMA KopecksExact ==
    ASSUME NEW t, IsText(t), Spelled(t), Fits(Value(t, 2))
    PROVE  M!parseDecimalKopecks(t) = M!Ok(Value(t, 2))
  <1> DEFINE I == M!Number(t.int)
             P == 2^W
             v == Value(t, 2)
             hr == IF t.int = <<>> THEN M!Ok(0) ELSE M!ParseInt(t.int)
             kop == M!fraction(t.frac)
             total == Wrap(hr.n * 100 + kop.n)
  <1>1. t.int \in Seq(0..9) /\ t.frac \in Seq(0..9)
    BY ValidDigits DEF IsText, Spelled
  <1>2. PICK c \in 0..100 : kop = M!Ok(c) /\ Rounded(c, t.frac)
    BY <1>1, FractionIs
  <1> DEFINE x == I * 100 + c
  <1>3. v = IF t.sign = "-" THEN -x ELSE x
    BY <1>2, KopecksAre
  <1>4. I \in Nat
    BY <1>1, Joined
  <1>5. P \in Nat /\ P > 0
    BY Range64
  <1>6. M!parseDecimalKopecks(t) =
          IF (t.int = <<>> /\ ~t.point) \/ ~hr.ok \/ ~kop.ok \/ hr.n < 0 THEN M!Err
          ELSE M!Ok(IF t.sign = "-" THEN Wrap(-total) ELSE total)
    BY SameIntegers DEF M!parseDecimalKopecks
  <1>7. ~(t.int = <<>> /\ ~t.point)
    <2>1. t.int = <<>> /\ t.frac = <<>> => t.int \o t.frac = <<>>
      BY <1>1
    <2> QED BY <2>1 DEF IsText, Spelled
  <1>8. Fits(v)
    OBVIOUS
  <1> HIDE DEF I, P, v, kop
  <1>9. x \in Nat /\ x <= P /\ (t.sign # "-" => x < P)
    <2>1. x \in Nat
      BY <1>4
    <2> HIDE DEF x
    <2>2. Fits(-x) => x <= P
      BY <2>1, FitsMagnitude DEF P
    <2>3. Fits(x) => x < P /\ x <= P
      BY <2>1, FitsMagnitude DEF P
    <2> QED BY <1>3, <1>8, <2>1, <2>2, <2>3
  <1>10. I < P
    BY <1>4, <1>5, <1>9
  <1>11. hr = M!Ok(I)
    <2>1. CASE t.int = <<>>
      BY <2>1, NoDigits DEF I
    <2>2. CASE t.int # <<>>
      BY <1>1, <1>10, <2>2, ParseIntDigits DEF I, P
    <2> QED BY <2>1, <2>2
  <1> HIDE DEF hr
  <1>12. hr.ok /\ hr.n = I /\ kop.ok /\ kop.n = c
    BY <1>2, <1>11 DEF M!Ok
  <1>13. ~(hr.n < 0)
    BY <1>4, <1>12
  <1>14. total = Wrap(x)
    BY <1>12
  <1> HIDE DEF total, x
  <1>15. M!parseDecimalKopecks(t) = M!Ok(IF t.sign = "-" THEN Wrap(-total) ELSE total)
    BY <1>6, <1>7, <1>12, <1>13
  <1>16. x < P => Wrap(x) = x
    BY <1>9, Signed64 DEF P
  <1>17. Wrap(-Wrap(x)) = -x
    BY <1>9, Signed64 DEF P
  <1>18. M!parseDecimalKopecks(t) = M!Ok(v)
    <2>1. CASE t.sign = "-"
      BY <1>3, <1>14, <1>15, <1>17, <2>1
    <2>2. CASE t.sign # "-"
      BY <1>3, <1>9, <1>14, <1>15, <1>16, <2>2
    <2> QED BY <2>1, <2>2
  <1> QED BY <1>18 DEF v

\* String writes hryvnias and kopecks that add up.
LEMMA StringExact ==
    ASSUME NEW a \in Minors, a # MinInt
    PROVE  LET s == M!String(a)
           IN  /\ s.kop \in 0..99 /\ s.hr >= 0
               /\ a = IF s.neg THEN -(100 * s.hr + s.kop) ELSE 100 * s.hr + s.kop
  <1> DEFINE x == IF a < 0 THEN -a ELSE a
  <1>1. a \in Int /\ MinInt <= a /\ a <= MaxInt
    BY MinorFits
  <1>2. x \in Nat /\ x < 2^W
    BY <1>1, Range64
  <1>3. IF a < 0 THEN Wrap(-a) = x ELSE a = x
    <2>1. CASE a < 0
      <3>1. -a \in Nat /\ -a < 2^W /\ -a <= 2^W
        BY <1>1, <1>2, <2>1, Range64
      <3> QED BY <2>1, <3>1, WrapTop
    <2>2. CASE ~(a < 0)
      BY <2>2
    <2> QED BY <2>1, <2>2
  <1> HIDE DEF x
  <1>4. Quo(x, 100) = x \div 100
    BY <1>2 DEF Quo, Abs
  <1>5. M!String(a) = [neg |-> a < 0, hr |-> x \div 100, kop |-> x - 100 * (x \div 100)]
    BY <1>3, <1>4, SameIntegers DEF M!String
  <1>6. x \div 100 \in Nat /\ x - 100 * (x \div 100) \in 0..99
    BY <1>2
  <1>7. a = IF a < 0 THEN -x ELSE x
    BY <1>1 DEF x
  <1>8. 100 * (x \div 100) + (x - 100 * (x \div 100)) = x
    BY <1>2, <1>6
  <1> DEFINE s == M!String(a)
  <1>9. /\ s.hr = x \div 100 /\ s.kop = x - 100 * (x \div 100)
    BY <1>5
  <1>10. CASE a < 0
    <2>1. s.neg
      <3>1. M!String(a) = [neg |-> TRUE, hr |-> x \div 100, kop |-> x - 100 * (x \div 100)]
        BY <1>5, <1>10
      <3> QED BY <3>1
    <2> HIDE DEF s
    <2> QED BY <1>6, <1>7, <1>8, <1>9, <1>10, <2>1 DEF s
  <1>11. CASE ~(a < 0)
    <2>1. ~s.neg
      <3>1. M!String(a) = [neg |-> FALSE, hr |-> x \div 100, kop |-> x - 100 * (x \div 100)]
        <4>1. (a < 0) = FALSE
          BY <1>11
        <4> QED BY <1>5, <4>1, Zenon
      <3> QED BY <3>1
    <2> HIDE DEF s
    <2> QED BY <1>6, <1>7, <1>8, <1>9, <1>11, <2>1 DEF s
  <1> QED BY <1>10, <1>11

\* The texts of the inputs are split ones.
LEMMA TextsAre ==
    ASSUME NEW t \in Texts
    PROVE  IsText(t)
  <1>1. PICK i \in Nat, f \in Nat : t \in M!Texts(Digits, i, f)
    <2>1. IntDigits \in Nat /\ FracDigits \in Nat /\ LongFrac \in Nat /\ 1 \in Nat
      BY AlgorithmsAssumption
    <2> QED BY <2>1 DEF Texts
  <1>2. Digits \cup {Minus, Bad} \subseteq Characters
    BY AlgorithmsAssumption DEF Characters
  <1>3. ASSUME NEW m \in Nat, NEW s \in SeqOf(Digits \cup {Minus, Bad}, m)
        PROVE  s \in Seq(Characters)
    <2>1. PICK k \in 0..m : s \in [1..k -> Digits \cup {Minus, Bad}]
      BY DEF SeqOf
    <2>2. k \in Nat /\ s \in [1..k -> Characters]
      BY <1>2, <2>1
    <2> QED BY <2>2
  <1>4. /\ t.int \in SeqOf(Digits \cup {Minus, Bad}, i)
        /\ t.frac \in SeqOf(Digits \cup {Minus, Bad}, f)
        /\ t.point \/ t.frac = <<>>
    BY <1>1 DEF M!Texts, M!SeqOf, SeqOf
  <1> QED BY <1>3, <1>4 DEF IsText

\* ParseMajor and parseDecimalKopecks read every text of an amount that fits without
\* losing or shifting a kopeck, and ParseMajor refuses what it would have to round:
\* for texts of any length, any number of decimals and any width.
THEOREM ParseExactHolds == Spec => []ParseExact
  <1>1. Evaluated => ParseExact
    <2> SUFFICES ASSUME Evaluated PROVE ParseExact
      OBVIOUS
    <2>1. ASSUME Of("parse")
          PROVE  LET fine == Spelled(in.text) /\ Len(in.text.frac) <= in.decimals
                     value == Value(in.text, in.decimals)
                 IN  /\ ~fine => ~out.ok
                     /\ fine /\ Fits(value) =>
                           out = M!Ok(value) \/ (value = MinInt /\ ~out.ok)
      <3>1. out = M!ParseMajor(in.text, in.decimals) /\ in.op = "parse" /\ in \in Inputs
        BY <2>1 DEF Evaluated, Of
      <3>2. in.text \in Texts /\ in.decimals \in Decimals
        BY <3>1 DEF Inputs
      <3>3. in.decimals \in Nat
        BY <3>2, AlgorithmsAssumption
      <3>4. IsText(in.text)
        BY <3>2, TextsAre
      <3>5. ~(Spelled(in.text) /\ Len(in.text.frac) <= in.decimals) => ~out.ok
        BY <3>1, <3>3, <3>4, ParseMajorRefuses
      <3>6. Spelled(in.text) /\ Len(in.text.frac) <= in.decimals
            /\ Fits(Value(in.text, in.decimals)) =>
               \/ out = M!Ok(Value(in.text, in.decimals))
               \/ Value(in.text, in.decimals) = MinInt /\ ~out.ok
        BY <3>1, <3>3, <3>4, ParseMajorExact
      <3> QED BY <3>5, <3>6
    <2>2. ASSUME Of("parseKopecks"), Spelled(in.text), Fits(Value(in.text, 2))
          PROVE  out = M!Ok(Value(in.text, 2))
      <3>1. out = M!parseDecimalKopecks(in.text) /\ in.op = "parseKopecks" /\ in \in Inputs
        BY <2>2 DEF Evaluated, Of
      <3>2. in.text \in Texts
        BY <3>1 DEF Inputs
      <3>3. IsText(in.text)
        BY <3>2, TextsAre
      <3> QED BY <2>2, <3>1, <3>3, KopecksExact
    <2>3. ASSUME Of("string"), in.kopecks # MinInt
          PROVE  /\ out.kop \in 0..99 /\ out.hr >= 0
                 /\ in.kopecks = IF out.neg THEN -(100 * out.hr + out.kop)
                                 ELSE 100 * out.hr + out.kop
      <3>1. out = M!String(in.kopecks) /\ in.op = "string" /\ in \in Inputs
        BY <2>3 DEF Evaluated, Of
      <3>2. in.kopecks \in Minors
        BY <3>1 DEF Inputs
      <3> QED BY <2>3, <3>1, <3>2, StringExact
    <2> QED BY <2>1, <2>2, <2>3 DEF ParseExact
  <1> QED BY <1>1, EvaluatedHolds, PTL
=============================================================================
