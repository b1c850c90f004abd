---------------------------- MODULE KeyedLimiter ----------------------------
(***************************************************************************)
(* ratelimit.go, type KeyedLimiter: one token bucket per key, created on   *)
(* first use and removed from the map by a background sweeper once it has  *)
(* not been asked for during idleTTL.                                      *)
(*                                                                         *)
(* A caller keeps the *Limiter it was given while it waits, so a bucket    *)
(* may leave the map under a caller that still sleeps on it.  Buckets are  *)
(* heap objects; the pool is large enough that one is always free.         *)
(***************************************************************************)
EXTENDS TokenBucket, FiniteSets

CONSTANTS Callers,    \* the goroutines that call Wait or WaitKey
          Keys,       \* the bucket keys
          Watched,    \* the key whose rate is observed
          DefaultKey, \* the "" key, used when the context carries none
          NoKey,      \* a context without WithLimiterKey
          Buckets,    \* the pool of Limiter objects
          NoBucket,   \* nil
          Everys,     \* the values of every that NewKeyedLimiter is called with
          Burst, IdleTTL,   \* its other arguments
          Second,     \* the least interval between two sweeps
          NoTick,     \* the ticker's channel is empty
          MaxTime,    \* bound: the clock stops here
          LastCall,   \* bound: no call starts after this time
          MaxCalls,   \* bound: calls per goroutine
          MaxLate     \* bound: how late a goroutine that can run may run

ASSUME KeyedLimiterAssumption ==
    /\ {DefaultKey, Watched} \subseteq Keys
    /\ NoKey \notin Keys
    /\ NoBucket \notin Buckets
    /\ IsFiniteSet(Keys) /\ IsFiniteSet(Callers)
    /\ Buckets = 1..Cardinality(Buckets)
    /\ Cardinality(Buckets) >= Cardinality(Keys) + Cardinality(Callers)
    /\ Everys \subseteq Nat
    /\ {Burst, IdleTTL} \subseteq Int
    /\ NoTick \notin Nat
    /\ Second \in Nat \ {0}
    /\ {MaxTime, LastCall, MaxCalls, MaxLate} \subseteq Nat

VARIABLES now,        \* the monotonic clock
          every,      \* k.every (burst and idleTTL are constants)
          heap,       \* the Limiter objects
          limiters,   \* k.limiters: the bucket of each key, or NoBucket
          lastAccess, \* keyedBucket.lastAccess
          sweeper,    \* the sweep goroutine: "none", "running" or "exited"
          stopCh,     \* stopCh is closed
          nextTick,   \* when the ticker fires next
          tick,       \* the ticker's channel (capacity one)
          pc, due, done, calls,    \* the callers, as in Limiter
          held,       \* the bucket a caller waits on
          key,        \* history: the key it was asked for
          mark, granted            \* history: the window and the grants of Watched

callerVars == <<pc, due, done, calls, held, key>>
sweepVars == <<sweeper, stopCh, nextTick, tick>>
history == <<mark, granted>>
vars == <<now, every, heap, limiters, lastAccess, sweepVars, callerVars, history>>

\* sweep's interval: half the TTL, at least a second.
Interval ==
    LET half == IdleTTL \div 2 IN IF half < Second THEN Second ELSE half

TypeOK ==
    /\ now \in Nat /\ mark \in 0..now
    /\ every \in Everys
    /\ heap \in [Buckets -> Bucket(Nat)]
    /\ limiters \in [Keys -> Buckets \cup {NoBucket}]
    /\ lastAccess \in [Keys -> 0..now]
    /\ sweeper \in {"none", "running", "exited"}
    /\ stopCh \in BOOLEAN
    /\ nextTick \in Nat
    /\ tick \in (0..now) \cup {NoTick}
    /\ pc \in [Callers -> {"idle", "try", "sleep"}]
    /\ due \in [Callers -> Nat]
    /\ calls \in [Callers -> Nat]
    /\ held \in [Callers -> Buckets \cup {NoBucket}]
    /\ key \in [Callers -> Keys \cup {NoKey}]
    /\ \A c \in Callers : pc[c] # "idle" <=> held[c] # NoBucket
    /\ \A c \in Callers : pc[c] # "idle" <=> key[c] # NoKey
    /\ done \subseteq Callers
    /\ granted \in Nat

Init ==
    /\ now = 0
    /\ every \in Everys
    /\ heap = [b \in Buckets |-> NewLimiter(every, Burst, 0)]
    /\ limiters = [k \in Keys |-> NoBucket]
    /\ lastAccess = [k \in Keys |-> 0]
    /\ sweeper = IF IdleTTL > 0 THEN "running" ELSE "none"
    /\ stopCh = FALSE
    /\ nextTick = Interval
    /\ tick = NoTick
    /\ pc = [c \in Callers |-> "idle"]
    /\ due = [c \in Callers |-> 0]
    /\ done = {}
    /\ calls = [c \in Callers |-> 0]
    /\ held = [c \in Callers |-> NoBucket]
    /\ key = [c \in Callers |-> NoKey]
    /\ mark = 0
    /\ granted = 0

-----------------------------------------------------------------------------

\* Objects no map entry and no caller refers to.
Free == {b \in Buckets : /\ \A k \in Keys : limiters[k] # b
                         /\ \A c \in Callers : held[c] # b}

\* A free object to allocate.
Fresh(b) == b \in Free /\ \A f \in Free : b <= f

\* The observer counts the grants of Watched.
Granted(k) == granted' = IF k = Watched THEN granted + 1 ELSE granted

\* Wait takes the key from the context, "" when there is none.
limiterKeyFrom(k) == IF k = NoKey THEN DefaultKey ELSE k

\* Seeded fault: lastAccess is only set when the bucket is created.
bucketNoTouch(k, b) ==
    /\ IF limiters[k] # NoBucket
       THEN b = limiters[k] /\ UNCHANGED <<heap, limiters, lastAccess>>
       ELSE /\ Fresh(b)
            /\ heap' = [heap EXCEPT ![b] = NewLimiter(every, Burst, now)]
            /\ limiters' = [limiters EXCEPT ![k] = b]
            /\ lastAccess' = [lastAccess EXCEPT ![k] = now]

\* bucket(key): find or create the key's Limiter and note the access, under mu.
bucket(k, b) ==
    /\ IF limiters[k] # NoBucket
       THEN b = limiters[k] /\ UNCHANGED <<heap, limiters>>
       ELSE /\ Fresh(b)
            /\ heap' = [heap EXCEPT ![b] = NewLimiter(every, Burst, now)]
            /\ limiters' = [limiters EXCEPT ![k] = b]
    /\ lastAccess' = [lastAccess EXCEPT ![k] = now]

\* WaitKey: the bucket is looked up before Limiter.Wait looks at the context,
\* so a canceled call still touches it.
WaitKey(c, k) ==
    /\ pc[c] = "idle"
    /\ calls[c] < MaxCalls
    /\ now <= LastCall
    /\ calls' = [calls EXCEPT ![c] = @ + 1]
    /\ \E b \in Buckets :
         /\ bucket(k, b)
         /\ \/ c \in done /\ UNCHANGED <<pc, due, held, key, granted>>
            \/ /\ c \notin done
               /\ every = 0
               /\ Granted(k)
               /\ UNCHANGED <<pc, due, held, key>>
            \/ /\ c \notin done
               /\ every > 0
               /\ pc' = [pc EXCEPT ![c] = "try"]
               /\ due' = [due EXCEPT ![c] = now]
               /\ held' = [held EXCEPT ![c] = b]
               /\ key' = [key EXCEPT ![c] = k]
               /\ UNCHANGED granted
    /\ UNCHANGED <<now, every, sweepVars, done, mark>>

\* Wait of the RateLimiter interface.
Wait(c, ctxKey) == WaitKey(c, limiterKeyFrom(ctxKey))

\* A pass through the loop of Limiter.Wait on the bucket the caller holds.
Acquire(c) ==
    LET b == Refill(heap[held[c]], now) IN
    /\ pc[c] = "try"
    /\ \/ /\ HasToken(b)
          /\ heap' = [heap EXCEPT ![held[c]] = Take(b)]
          /\ Granted(key[c])
          /\ pc' = [pc EXCEPT ![c] = "idle"]
          /\ due' = [due EXCEPT ![c] = 0]
          /\ held' = [held EXCEPT ![c] = NoBucket]
          /\ key' = [key EXCEPT ![c] = NoKey]
       \/ /\ ~HasToken(b)
          /\ heap' = [heap EXCEPT ![held[c]] = b]
          /\ pc' = [pc EXCEPT ![c] = "sleep"]
          /\ due' = [due EXCEPT ![c] = now + Need(b)]
          /\ UNCHANGED <<granted, held, key>>
    /\ UNCHANGED <<now, every, limiters, lastAccess, sweepVars, done, calls, mark>>

Wake(c) ==
    /\ pc[c] = "sleep"
    /\ now >= due[c]
    /\ pc' = [pc EXCEPT ![c] = "try"]
    /\ UNCHANGED <<now, every, heap, limiters, lastAccess, sweepVars, due, done, calls,
                   held, key, history>>

Abandon(c) ==
    /\ pc[c] = "sleep"
    /\ c \in done
    /\ pc' = [pc EXCEPT ![c] = "idle"]
    /\ due' = [due EXCEPT ![c] = 0]
    /\ held' = [held EXCEPT ![c] = NoBucket]
    /\ key' = [key EXCEPT ![c] = NoKey]
    /\ UNCHANGED <<now, every, heap, limiters, lastAccess, sweepVars, done, calls, history>>

Cancel(c) ==
    /\ c \notin done
    /\ done' = done \cup {c}
    /\ UNCHANGED <<now, every, heap, limiters, lastAccess, sweepVars, pc, due, calls,
                   held, key, history>>

-----------------------------------------------------------------------------

\* The ticker sends the time into its channel and drops the tick when the
\* sweeper has not taken the previous one.
TickerFires ==
    /\ sweeper = "running"
    /\ now >= nextTick
    /\ tick' = IF tick = NoTick THEN now ELSE tick
    /\ nextTick' = nextTick + Interval
    /\ UNCHANGED <<now, every, heap, limiters, lastAccess, sweeper, stopCh, callerVars,
                   history>>

\* Seeded fault: the idle buckets are found and not deleted.
evictIdleKept(t) == limiters' = limiters

\* evictIdle(now): drop every bucket not asked for during idleTTL.
evictIdle(t) ==
    limiters' = [k \in Keys |-> IF t - lastAccess[k] > IdleTTL
                                THEN NoBucket ELSE limiters[k]]

\* The tick branch of sweep; the time compared with is the tick's, which is
\* stale when the sweeper runs late.
Sweep ==
    /\ sweeper = "running"
    /\ tick # NoTick
    /\ evictIdle(tick)
    /\ tick' = NoTick
    /\ UNCHANGED <<now, every, heap, lastAccess, sweeper, stopCh, nextTick, callerVars,
                   history>>

\* The stopCh branch of sweep; select may prefer a pending tick.
SweepExits ==
    /\ sweeper = "running"
    /\ stopCh
    /\ sweeper' = "exited"
    /\ tick' = NoTick
    /\ UNCHANGED <<now, every, heap, limiters, lastAccess, stopCh, nextTick, callerVars,
                   history>>

\* Stop closes stopCh, once.
Stop ==
    /\ ~stopCh
    /\ stopCh' = TRUE
    /\ UNCHANGED <<now, every, heap, limiters, lastAccess, sweeper, nextTick, tick,
                   callerVars, history>>

\* Time passes while no goroutine that can run is more than MaxLate late; the
\* runtime fires the ticker on time.
Tick ==
    /\ now < MaxTime
    /\ \A c \in Callers : pc[c] # "idle" => now < due[c] + MaxLate
    /\ sweeper = "running" =>
         /\ now < nextTick
         /\ tick # NoTick => now < tick + MaxLate
    /\ now' = now + 1
    /\ UNCHANGED <<every, heap, limiters, lastAccess, sweepVars, callerVars,
                   history>>

\* History only: count the grants of Watched from here.  One opening, at any
\* time, covers every window.
OpenWindow ==
    /\ mark = 0
    /\ mark < now
    /\ mark' = now
    /\ granted' = 0
    /\ UNCHANGED <<now, every, heap, limiters, lastAccess, sweepVars, callerVars>>

Next ==
    \/ \E c \in Callers :
         \/ \E k \in Keys \cup {NoKey} : Wait(c, k)
         \/ Acquire(c) \/ Wake(c) \/ Abandon(c) \/ Cancel(c)
    \/ TickerFires \/ Sweep \/ SweepExits \/ Stop \/ Tick
    \/ OpenWindow

Spec == Init /\ [][Next]_vars

-----------------------------------------------------------------------------

\* One key, one rate, across evictions and re-creations of its bucket: given an
\* idleTTL that lets every waiter get its token and the bucket fill again first,
\* the sweeper takes no bucket away from a caller that waits on it, so nobody is
\* given a second one, and the calls of a key obey the every / burst of
\* NewLimiter over any window.  The premise is the caller's business, the code
\* does not check it: waiting is no access, so with a shorter idleTTL evictIdle
\* removes a bucket under its waiters, the next call gets a full one, and the key
\* exceeds its rate.
PerKeyRate ==
    LET full == Full(NewLimiter(every, Burst, 0)) IN
    full + Cardinality(Callers) * (every + MaxLate) <= IdleTTL + 1 =>
        /\ \A c \in Callers : pc[c] # "idle" => held[c] = limiters[key[c]]
        /\ granted * every <= full + (now - mark)

\* The sweeper keeps the map from growing: while it runs, no key stays in the
\* map after idleTTL plus one interval without an access, and what the sweeper is
\* late: once with the last sweep, during which a tick may have been dropped, and
\* once with the next.
IdleBound ==
    sweeper = "running" =>
        \A k \in Keys : limiters[k] # NoBucket =>
            now - lastAccess[k] <= IdleTTL + Interval + 2 * MaxLate
=============================================================================
