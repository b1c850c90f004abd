------------------------------ MODULE Limiter ------------------------------
(***************************************************************************)
(* ratelimit.go, type Limiter: several goroutines share one token bucket   *)
(* and block in Wait until they get a token or their context is canceled.  *)
(*                                                                         *)
(* The body of the loop between mu.Lock and mu.Unlock is one step; the     *)
(* sleep in the select is a state of its own in which other callers, the   *)
(* clock and cancellation interleave.  Nothing orders the sleepers: a      *)
(* caller that wakes competes with every other caller, newcomers included. *)
(***************************************************************************)
EXTENDS TokenBucket

CONSTANTS Callers,     \* the goroutines that call Wait
          Everys,      \* the values of every that NewLimiter is called with
          Bursts,      \* the values of burst that NewLimiter is called with
          MaxTime,     \* bound: the clock stops here
          LastCall,    \* bound: no call of Wait starts after this time
          MaxCalls,    \* bound: how many times each goroutine calls Wait
          MaxLate      \* bound: how late a goroutine or a due timer may run

ASSUME LimiterAssumption ==
    /\ Everys \subseteq Nat
    /\ Bursts \subseteq Int
    /\ {MaxTime, LastCall, MaxCalls, MaxLate} \subseteq Nat

VARIABLES now,       \* the monotonic clock
          lim,       \* the Limiter
          pc,        \* where each caller is: outside, at the loop head, asleep
          due,       \* from when a caller can run again: its timer, or its entry
          done,      \* callers whose context is canceled
          calls,     \* how many calls each caller has made
          mark,      \* history: when the observed window opened
          granted    \* history: how many Waits returned nil since then

vars == <<now, lim, pc, due, done, calls, mark, granted>>

TypeOK ==
    /\ now \in Nat
    /\ lim \in Bucket(Nat)
    /\ lim.tokens <= Full(lim)
    /\ lim.last <= now
    /\ pc \in [Callers -> {"idle", "try", "sleep"}]
    /\ due \in [Callers -> Nat]
    /\ done \subseteq Callers
    /\ calls \in [Callers -> Nat]
    /\ mark \in Nat
    /\ mark <= now
    /\ granted \in Nat

Init ==
    /\ now = 0
    /\ \E e \in Everys, b \in Bursts : lim = NewLimiter(e, b, 0)
    /\ pc = [c \in Callers |-> "idle"]
    /\ due = [c \in Callers |-> 0]
    /\ done = {}
    /\ calls = [c \in Callers |-> 0]
    /\ mark = 0
    /\ granted = 0

-----------------------------------------------------------------------------

\* Wait is entered: the context is checked before anything else, then a
\* limiter without a limit returns at once.
Enter(c) ==
    /\ pc[c] = "idle"
    /\ calls[c] < MaxCalls
    /\ now <= LastCall
    /\ calls' = [calls EXCEPT ![c] = @ + 1]
    /\ \/ c \in done /\ UNCHANGED <<pc, due, granted>>
       \/ /\ c \notin done
          /\ lim.every = 0
          /\ granted' = granted + 1
          /\ UNCHANGED <<pc, due>>
       \/ /\ c \notin done
          /\ lim.every > 0
          /\ pc' = [pc EXCEPT ![c] = "try"]
          /\ due' = [due EXCEPT ![c] = now]
          /\ UNCHANGED granted
    /\ UNCHANGED <<now, lim, done, mark>>

\* One pass through the critical section: refill, then take a token and return
\* or release the lock and go to sleep for what is missing.  The context is not
\* looked at here.
Acquire(c) ==
    LET b == Refill(lim, now) IN
    /\ pc[c] = "try"
    /\ \/ /\ HasToken(b)
          /\ lim' = Take(b)
          /\ pc' = [pc EXCEPT ![c] = "idle"]
          /\ due' = [due EXCEPT ![c] = 0]
          /\ granted' = granted + 1
       \/ /\ ~HasToken(b)
          /\ lim' = b
          /\ pc' = [pc EXCEPT ![c] = "sleep"]
          /\ due' = [due EXCEPT ![c] = now + Need(b)]
          /\ UNCHANGED granted
    /\ UNCHANGED <<now, done, calls, mark>>

\* The timer branch of the select; it may be taken late, and even when the
\* context is canceled too (select picks any ready case).
Wake(c) ==
    /\ pc[c] = "sleep"
    /\ now >= due[c]
    /\ pc' = [pc EXCEPT ![c] = "try"]
    /\ UNCHANGED <<now, lim, due, done, calls, mark, granted>>

\* The ctx.Done branch of the select: Wait returns ctx.Err().
Abandon(c) ==
    /\ pc[c] = "sleep"
    /\ c \in done
    /\ pc' = [pc EXCEPT ![c] = "idle"]
    /\ due' = [due EXCEPT ![c] = 0]
    /\ UNCHANGED <<now, lim, done, calls, mark, granted>>

\* The caller's context is canceled, at any point of its call.
Cancel(c) ==
    /\ c \notin done
    /\ done' = done \cup {c}
    /\ UNCHANGED <<now, lim, pc, due, calls, mark, granted>>

\* Time passes, though never so far that a caller that can run is more than
\* MaxLate late.
Tick ==
    /\ now < MaxTime
    /\ \A c \in Callers : pc[c] # "idle" => now < due[c] + MaxLate
    /\ now' = now + 1
    /\ UNCHANGED <<lim, pc, due, done, calls, mark, granted>>

\* History only: an observer starts counting grants from here.
OpenWindow ==
    /\ mark < now
    /\ mark' = now
    /\ granted' = 0
    /\ UNCHANGED <<now, lim, pc, due, done, calls>>

Wait(c) == Enter(c) \/ Acquire(c) \/ Wake(c) \/ Abandon(c)

Next ==
    \/ \E c \in Callers : Wait(c) \/ Cancel(c)
    \/ Tick
    \/ OpenWindow

Spec == Init /\ [][Next]_vars

\* The clock advances, a goroutine inside Wait is scheduled, and a due timer or
\* a closed Done channel is delivered.  Entering Wait and canceling are the
\* user's choice.
Fairness ==
    /\ WF_vars(Tick)
    /\ \A c \in Callers : WF_vars(Acquire(c)) /\ WF_vars(Wake(c) \/ Abandon(c))

FairSpec == Spec /\ Fairness

-----------------------------------------------------------------------------

\* The promise of NewLimiter ("one request every every with short bursts up to
\* burst"): over any window, however the callers interleave, sleep and give up,
\* at most burst plus one per elapsed `every' Waits return nil.
RateBound ==
    granted * lim.every <= Full(lim) + (now - mark)

\* What RateBound rests on: grants so far and what the bucket could hand out
\* now stay within the allowance of the window.
Available ==
    IF lim.tokens + (now - lim.last) > Full(lim)
    THEN Full(lim) ELSE lim.tokens + (now - lim.last)

Allowance ==
    granted * lim.every + Available <= Full(lim) + (now - mark)

\* A sleeper's timer is never set past the moment at which the bucket will hold
\* a whole token again, whatever the others did meanwhile: nobody sleeps while
\* a token is there for the taking and only its timer is missing.
NoOversleep ==
    \A c \in Callers :
        pc[c] = "sleep" => due[c] <= lim.last + (lim.every - lim.tokens)

\* Every call of Wait returns: with a token, or with the context's error.  The
\* callers make finitely many calls, so a sleeper cannot be overtaken forever.
WaitReturns ==
    \A c \in Callers : (pc[c] # "idle") ~> (pc[c] = "idle")
=============================================================================
