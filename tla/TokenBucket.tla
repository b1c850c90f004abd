---------------------------- MODULE TokenBucket ----------------------------
(***************************************************************************)
(* The token bucket of ratelimit.go as pure operators on a bucket record.  *)
(*                                                                         *)
(* The code keeps tokens as a float64 number of tokens that grows by       *)
(* elapsed/every.  Here tokens counts units of 1/every of a token, so one  *)
(* token is `every' units and one unit accrues per unit of time: the same  *)
(* quantity, in integers.  every = 0 stands for the code's every <= 0 (no  *)
(* limit).                                                                 *)
(***************************************************************************)
EXTENDS Integers

\* The Limiter struct.
Bucket(T) == [every : Nat, burst : Nat \ {0}, tokens : Nat, last : T]

\* NewLimiter: burst < 1 is normalised to 1 and the bucket starts full.
NewLimiter(every, burst, t) ==
    LET n == IF burst < 1 THEN 1 ELSE burst
    IN  [every |-> every, burst |-> n, tokens |-> n * every, last |-> t]

\* The tokens a full bucket holds.
Full(b) == b.burst * b.every

\* Seeded fault: the clamp to burst is missing.
RefillUnclamped(b, t) ==
    [b EXCEPT !.tokens = @ + (t - b.last), !.last = t]

\* Seeded fault: only whole periods are credited while last moves to now.
RefillWholePeriods(b, t) ==
    LET credit == b.tokens + ((t - b.last) \div b.every) * b.every
    IN  [b EXCEPT !.tokens = IF credit > Full(b) THEN Full(b) ELSE credit,
                  !.last = t]

\* The first half of an iteration of Wait: credit the elapsed time, clamp to burst.
Refill(b, t) ==
    LET credit == b.tokens + (t - b.last)
    IN  [b EXCEPT !.tokens = IF credit > Full(b) THEN Full(b) ELSE credit,
                  !.last = t]

\* Seeded fault: an empty bucket passes the test too.
HasTokenEmpty(b) == b.tokens >= 0

\* The test of Wait: a whole token is there.
HasToken(b) == b.tokens >= b.every

Take(b) == [b EXCEPT !.tokens = @ - b.every]

\* Seeded fault: sleep a whole period, not the missing part of it.
NeedWhole(b) == b.every

\* How long Wait sleeps before it tries again: the missing part of a token.
Need(b) == b.every - b.tokens
=============================================================================
