---------------------------- MODULE RetryPolicy ----------------------------
(***************************************************************************)
(* The pure part of retry.go: the delay before the next attempt.           *)
(*                                                                         *)
(* Durations are int64 nanoseconds in the code.  A header is a record of   *)
(* what its value parses as.                                               *)
(***************************************************************************)
EXTENDS Int64

CONSTANTS minBackoffFloor,  \* 50 ms
          maxRetryAfter,    \* 24 h, in durations
          Second            \* time.Second in durations

ASSUME RetryPolicyAssumption ==
    /\ minBackoffFloor \in Nat
    /\ Second \in Nat \ {0}
    /\ maxRetryAfter \in Nat
    /\ maxRetryAfter % Second = 0
    /\ maxRetryAfter < 2^W

\* "header missing or unparseable"
noRetryAfter == -1

-----------------------------------------------------------------------------

\* Seeded fault: shift first, without the overflow check.
growthUnchecked(base, ceiling, attempt) ==
    LET d == Wrap(base * 2^attempt)
    IN  IF ceiling > 0 /\ d > ceiling THEN ceiling ELSE d

\* backoff up to the jitter: base << attempt, ceiling when the shift would
\* overflow, base when there is no ceiling either.
growth(base, ceiling, attempt) ==
    LET d == IF attempt >= W - 1 \/ base > MaxInt \div 2^attempt
             THEN IF ceiling <= 0 THEN base ELSE ceiling
             ELSE Wrap(base * 2^attempt)
    IN  IF ceiling > 0 /\ d > ceiling THEN ceiling ELSE d

\* The equal jitter: every value half + rand(half) can have, floored, then
\* clamped to the ceiling.
jittered(d, ceiling) ==
    LET half == Max2(d \div 2, 1)
        at(j) == LET f == Max2(j, minBackoffFloor)
                 IN  IF ceiling > 0 /\ f > ceiling THEN ceiling ELSE f
    IN  {at(half + r) : r \in 0..(half - 1)}

\* backoff(base, ceiling, attempt): the set of delays it can return.
backoff(base, ceiling, attempt) ==
    IF base <= 0 THEN {0}
    ELSE LET d == growth(base, ceiling, attempt)
         IN  IF d <= 0 THEN {0} ELSE jittered(d, ceiling)

-----------------------------------------------------------------------------

\* What a header value can be: absent, a decimal integer that fits an int, an
\* HTTP date so far from now, or anything else.
Header(N) == [kind : {"absent", "garbage"}, n : {0}]
             \cup [kind : {"int", "date"}, n : N]

\* Seeded fault: the ceiling is checked after the multiplication.
fromSecondsLate(secs) == Min2(Wrap(secs * Second), maxRetryAfter)

\* "Clamp in seconds, before the multiply."
fromSeconds(secs) ==
    IF secs > maxRetryAfter \div Second THEN maxRetryAfter
    ELSE Wrap(secs * Second)

\* parseRetryAfter: Retry-After, and only when it is absent the header corp-api
\* sends.  A negative number is no HTTP date either.
parseRetryAfter(h, x) ==
    LET v == IF h.kind = "absent" THEN x ELSE h IN
    CASE v.kind = "int" /\ v.n >= 0 -> fromSeconds(v.n)
      [] v.kind = "date"            -> Min2(Max2(v.n, 0), maxRetryAfter)
      [] OTHER                      -> noRetryAfter

\* Seeded fault: a Retry-After of the server is overridden by the backoff.
delaysIgnoringHint(base, maxDelay, attempt, retryAfter) ==
    backoff(base, maxDelay, attempt)

\* Seeded fault: the server's Retry-After is not capped.
delaysUncapped(base, maxDelay, attempt, retryAfter) ==
    IF retryAfter >= 0 THEN {retryAfter} ELSE backoff(base, maxDelay, attempt)

\* The delay run sleeps after a transient failure that carried retryAfter.
delays(base, maxDelay, attempt, retryAfter) ==
    LET asked == IF retryAfter >= 0 THEN {retryAfter}
                 ELSE backoff(base, maxDelay, attempt)
    IN  {IF d > maxDelay /\ maxDelay > 0 THEN maxDelay ELSE d : d \in asked}
=============================================================================
