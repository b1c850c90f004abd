---------------------------- MODULE WebhookBase ----------------------------
(***************************************************************************)
(* What the webhook handlers of package webhook and package acquiring have *)
(* in common: the cached bank key and its throttled, coalesced refresh;    *)
(* deduplication around the user's OnEvent; and their environment, the     *)
(* bank that signs, delivers and redelivers, loses answers and rotates its *)
(* key, and a process that restarts.                                       *)
(*                                                                         *)
(* A request is served by a goroutine (a member of Reqs) whose steps end   *)
(* where the code unlocks, calls out, or answers.  Keys are numbered in    *)
(* the order the bank introduces them; the time unit is arbitrary.         *)
(***************************************************************************)
EXTENDS LRU, Integers, FiniteSets

CONSTANTS Reqs,          \* the goroutines net/http can run at once
          Events,        \* the events the bank has to deliver
          Unknown,       \* those of a type this version of the SDK does not know
          Malformed,     \* those whose body does not parse
          None,
          MinRefresh,    \* minRefreshInterval (30 s)
          RetryGap,      \* the bank redelivers no sooner than this (60 s)
          MaxFetch,      \* bound: how long a call to the key endpoint may take
          Durable,       \* the Deduper survives a restart (not the in-memory one)
          MaxTime, MaxDeliveries, MaxRotations, MaxFailures, MaxRestarts, MaxStrays
                         \* bounds on what the environment does

ASSUME WebhookAssumption ==
    /\ Unknown \subseteq Events /\ Malformed \subseteq Events
    /\ None \notin Events \cup Reqs
    /\ {RetryGap, MaxFetch} \subseteq Nat /\ MinRefresh \in Nat \ {0}
    /\ {MaxTime, MaxDeliveries, MaxRotations, MaxFailures, MaxRestarts, MaxStrays}
         \subseteq Nat
    /\ Durable \in BOOLEAN

VARIABLES now,
          bankKey, rotatedAt,      \* the bank's signing key, and since when
          key, lastRefreshAt,      \* the handler's cache: h.key, h.lastRefreshAt
          flight,                  \* the leader of the singleflight call, or None
          pc, msg, snap, got, since, status,   \* the goroutines
          dedup,                   \* the Deduper
          deliveries, sentAt, acked,   \* the bank's view of each event
          processed,               \* history: successful runs of OnEvent per event
          excused,                 \* history: events delivered while still in progress,
                                   \* or cut off by a crash between OnEvent and Add
          call,                    \* history: the last call of the key endpoint
          failed,                  \* history: requests whose refresh ended with an error
          failures, restarts, strays

cache == <<key, lastRefreshAt, flight>>
bank == <<bankKey, rotatedAt, deliveries, sentAt, acked>>
history == <<processed, excused, call, failed, failures, restarts, strays>>
vars == <<now, cache, bank, pc, msg, snap, got, since, status, dedup, history>>

\* Long enough ago for anything that is measured from it.
Never == 0 - (MinRefresh + MaxFetch + 1)

NoCall == [at |-> Never, ok |-> FALSE]

\* What a request looks like before its signature is checked: a POST with the
\* header that can make the handler look for a new key (X-Key-Id; a decodable
\* X-Sign), one without, and the requests that are answered right away.
Forms == {"post", "plain", "get", "put", "oversize", "broken"}

\* A request that is not the bank's has key 0.
Messages == [event : Events \cup {None}, key : Nat, at : Nat,
             form : Forms]

PCs == {"idle", "arrived", "outer", "enter", "lead", "fetch", "fetched", "stored",
        "joined", "refreshed", "unrefreshed", "parsed", "handle", "add", "reply"}

\* The Deduper holds ids, no more than fit, and never the empty one.
Kept(order) ==
    /\ order \in Seq(Ids(order))
    /\ Len(order) <= capacity /\ NoId \notin Ids(order)

TypeOK ==
    /\ now \in 0..MaxTime
    /\ bankKey \in 1..(MaxRotations + 1)
    /\ rotatedAt \in {Never} \cup 0..now
    /\ key \in 1..bankKey
    /\ lastRefreshAt \in {Never} \cup 0..now
    /\ flight \in Reqs \cup {None}
    /\ pc \in [Reqs -> PCs]
    /\ DOMAIN msg = Reqs
    /\ \A r \in Reqs : pc[r] # "idle" => msg[r] \in Messages
    /\ snap \in [Reqs -> 0..bankKey] /\ got \in [Reqs -> 0..bankKey]
    /\ since \in [Reqs -> 0..now]
    /\ status \in [Reqs -> Nat]
    /\ Kept(dedup)
    /\ deliveries \in [Events -> 0..MaxDeliveries]
    /\ acked \subseteq Events
    /\ processed \in [Events -> Nat]
    /\ excused \subseteq Events \cup {None}
    /\ call \in [at : {Never} \cup 0..now, ok : BOOLEAN]
    /\ failed \subseteq Reqs
    /\ failures \in Nat /\ restarts \in Nat /\ strays \in Nat

Init ==
    /\ now = 0
    /\ bankKey = 1 /\ rotatedAt = Never
    /\ key = 1 /\ lastRefreshAt = Never /\ flight = None
    /\ pc = [r \in Reqs |-> "idle"]
    /\ msg = [r \in Reqs |-> None]
    /\ snap = [r \in Reqs |-> 0]
    /\ got = [r \in Reqs |-> 0]
    /\ since = [r \in Reqs |-> 0]
    /\ status = [r \in Reqs |-> 0]
    /\ dedup = <<>>
    /\ deliveries = [e \in Events |-> 0]
    /\ sentAt = [e \in Events |-> 0]
    /\ acked = {}
    /\ processed = [e \in Events |-> 0]
    /\ excused = {}
    /\ call = NoCall
    /\ failed = {} /\ failures = 0 /\ restarts = 0 /\ strays = 0

-----------------------------------------------------------------------------
(* The environment. *)

Busy(e) == \E r \in Reqs : pc[r] # "idle" /\ msg[r].event = e

\* External: the bank delivers an event, signed with its current key, and again
\* after RetryGap as long as it has seen no 200, whether or not the previous
\* delivery is still being processed.
Deliver(r, e) ==
    /\ pc[r] = "idle"
    /\ e \notin acked
    /\ deliveries[e] < MaxDeliveries
    /\ deliveries[e] > 0 => now >= sentAt[e] + RetryGap
    /\ pc' = [pc EXCEPT ![r] = "arrived"]
    /\ msg' = [msg EXCEPT ![r] =
                 [event |-> e, key |-> bankKey, at |-> now, form |-> "post"]]
    /\ deliveries' = [deliveries EXCEPT ![e] = @ + 1]
    /\ sentAt' = [sentAt EXCEPT ![e] = now]
    /\ excused' = IF Busy(e) THEN excused \cup {e} ELSE excused
    /\ UNCHANGED <<now, cache, bankKey, rotatedAt, acked, snap, got, since, status,
                   dedup, processed, call, failed, failures, restarts, strays>>

\* External: any other HTTP request that reaches the URL.
Stray(r, f) ==
    /\ pc[r] = "idle"
    /\ strays < MaxStrays
    /\ strays' = strays + 1
    /\ pc' = [pc EXCEPT ![r] = "arrived"]
    /\ msg' = [msg EXCEPT ![r] = [event |-> None, key |-> 0, at |-> now, form |-> f]]
    /\ UNCHANGED <<now, cache, bank, snap, got, since, status, dedup, processed,
                   excused, call, failed, failures, restarts>>

\* External: the bank starts to sign with a new key.
Rotate ==
    /\ bankKey <= MaxRotations
    /\ bankKey' = bankKey + 1
    /\ rotatedAt' = now
    /\ UNCHANGED <<now, cache, deliveries, sentAt, acked, pc, msg, snap, got, since,
                   status, dedup, history>>

\* The answer is on its way: the bank gets it, or the connection breaks.
ReplyEnds(r) ==
    /\ pc[r] = "reply"
    /\ pc' = [pc EXCEPT ![r] = "idle"]
    /\ msg' = [msg EXCEPT ![r] = None]
    /\ status' = [status EXCEPT ![r] = 0]
    /\ \/ UNCHANGED acked
       \/ /\ status[r] = 200 /\ msg[r].event # None
          /\ acked' = acked \cup {msg[r].event}
    /\ failed' = failed \ {r}
    /\ UNCHANGED <<now, cache, bankKey, rotatedAt, deliveries, sentAt, snap, got,
                   since, dedup, processed, excused, call, failures, restarts, strays>>

\* The process dies and comes back: NewHandler fetches the key, leaves
\* lastRefreshAt at zero, and an in-memory deduper starts empty.
Restart ==
    /\ restarts < MaxRestarts
    /\ restarts' = restarts + 1
    /\ key' = bankKey /\ lastRefreshAt' = Never /\ flight' = None
    /\ pc' = [r \in Reqs |-> "idle"]
    /\ msg' = [r \in Reqs |-> None]
    /\ snap' = [r \in Reqs |-> 0]
    /\ got' = [r \in Reqs |-> 0]
    /\ since' = [r \in Reqs |-> 0]
    /\ status' = [r \in Reqs |-> 0]
    /\ dedup' = IF Durable THEN dedup ELSE <<>>
    /\ call' = NoCall
    /\ excused' = excused \cup {msg[r].event : r \in {q \in Reqs : pc[q] = "add"}}
    /\ failed' = {}
    /\ UNCHANGED <<now, bank, processed, failures, strays>>

\* Time passes; a call to the key endpoint takes at most MaxFetch.
Tick ==
    /\ now < MaxTime
    /\ \A r \in Reqs : pc[r] \in {"fetch", "fetched", "stored"} =>
                          now < since[r] + MaxFetch
    /\ now' = now + 1
    /\ UNCHANGED <<cache, bank, pc, msg, snap, got, since, status, dedup, history>>

-----------------------------------------------------------------------------
(* refreshCoalesced: throttle, singleflight, throttle again, fetch, stamp. *)

Throttled == now - lastRefreshAt < MinRefresh

\* The outer check: a recent refresh is good enough, go on with its key.
RefreshOuter(r) ==
    /\ pc[r] = "outer"
    /\ pc' = [pc EXCEPT ![r] = IF Throttled THEN "refreshed" ELSE "enter"]
    /\ UNCHANGED <<now, cache, bank, msg, snap, got, since, status, dedup, history>>

\* Seeded fault: no singleflight, every caller fetches for itself.
RefreshJoinNone(r) ==
    /\ pc[r] = "enter"
    /\ pc' = [pc EXCEPT ![r] = "lead"]
    /\ flight' = r
    /\ UNCHANGED <<now, key, lastRefreshAt, bank, msg, snap, got, since, status,
                   dedup, history>>

\* refreshGroup.Do: the first caller leads, the others wait for its result.
RefreshJoin(r) ==
    /\ pc[r] = "enter"
    /\ IF flight = None
       THEN flight' = r /\ pc' = [pc EXCEPT ![r] = "lead"]
       ELSE pc' = [pc EXCEPT ![r] = "joined"] /\ UNCHANGED flight
    /\ UNCHANGED <<now, key, lastRefreshAt, bank, msg, snap, got, since, status,
                   dedup, history>>

\* Seeded fault: only the leader learns that the call is over.
FinishAlone(r, next) ==
    /\ flight' = None
    /\ pc' = [pc EXCEPT ![r] = next]

\* The end of the singleflight call: leader and followers get the same result.
Finish(r, next) ==
    /\ flight' = None
    /\ pc' = [q \in Reqs |-> IF q = r \/ pc[q] = "joined" THEN next ELSE pc[q]]

\* Seeded fault: the double check is missing.
RefreshInnerUnchecked(r) ==
    /\ pc[r] = "lead"
    /\ pc' = [pc EXCEPT ![r] = "fetch"]
    /\ since' = [since EXCEPT ![r] = now]
    /\ call' = [at |-> now, ok |-> FALSE]
    /\ UNCHANGED flight
    /\ UNCHANGED <<now, key, lastRefreshAt, bank, msg, snap, got, status, dedup,
                   processed, excused, failed, failures, restarts, strays>>

\* The double check inside the call, then Keys.ServerKey / Keys.PubKey is called.
RefreshInner(r) ==
    /\ pc[r] = "lead"
    /\ \/ Throttled /\ Finish(r, "refreshed") /\ UNCHANGED <<since, call>>
       \/ /\ ~Throttled
          /\ pc' = [pc EXCEPT ![r] = "fetch"]
          /\ since' = [since EXCEPT ![r] = now]
          /\ call' = [at |-> now, ok |-> FALSE]
          /\ UNCHANGED flight
    /\ UNCHANGED <<now, key, lastRefreshAt, bank, msg, snap, got, status, dedup,
                   processed, excused, failed, failures, restarts, strays>>

\* The bank reads its key to answer; the answer may arrive later.
FetchAnswered(r) ==
    /\ pc[r] = "fetch"
    /\ pc' = [pc EXCEPT ![r] = "fetched"]
    /\ got' = [got EXCEPT ![r] = bankKey]
    /\ UNCHANGED <<now, cache, bank, msg, snap, since, status, dedup, history>>

\* The call fails, or the leader's request context is canceled: everybody who
\* waits gets the error, and lastRefreshAt stays as it was.
FetchFails(r) ==
    /\ pc[r] \in {"fetch", "fetched"}
    /\ failures < MaxFailures
    /\ failures' = failures + 1
    /\ failed' = failed \cup {q \in Reqs : q = r \/ pc[q] = "joined"}
    /\ Finish(r, "unrefreshed")
    /\ got' = [got EXCEPT ![r] = 0]
    /\ since' = [since EXCEPT ![r] = 0]
    /\ UNCHANGED <<now, key, lastRefreshAt, bank, msg, snap, status, dedup,
                   processed, excused, call, restarts, strays>>

\* refresh stores the key under mu.
StoreKey(r) ==
    /\ pc[r] = "fetched"
    /\ pc' = [pc EXCEPT ![r] = "stored"]
    /\ key' = got[r]
    /\ call' = [call EXCEPT !.ok = TRUE]
    /\ UNCHANGED <<now, lastRefreshAt, flight, bank, msg, snap, got, since, status,
                   dedup, processed, excused, failed, failures, restarts, strays>>

\* lastRefreshAt is stamped after the fact, and the call is over.
StampRefresh(r) ==
    /\ pc[r] = "stored"
    /\ lastRefreshAt' = now
    /\ got' = [got EXCEPT ![r] = 0]
    /\ since' = [since EXCEPT ![r] = 0]
    /\ Finish(r, "refreshed")
    /\ UNCHANGED <<now, key, bank, msg, snap, status, dedup, history>>

RefreshCoalesced(r) ==
    \/ RefreshOuter(r) \/ RefreshJoin(r) \/ RefreshInner(r)
    \/ FetchAnswered(r) \/ FetchFails(r) \/ StoreKey(r) \/ StampRefresh(r)

-----------------------------------------------------------------------------
(* After the signature: dedup, OnEvent, dedup. *)

Respond(r, s) ==
    /\ pc' = [pc EXCEPT ![r] = "reply"]
    /\ status' = [status EXCEPT ![r] = s]
    /\ snap' = [snap EXCEPT ![r] = 0]

\* What ServeHTTP answers before it looks at the key.
EarlyStatus == [get |-> 200, put |-> 405, oversize |-> 413, broken |-> 400]

\* Seeded fault: the id is recorded before OnEvent runs.
LookUpAndRecord(r, id) ==
    /\ dedup' = Add(dedup, id)
    /\ IF Has(dedup, id) THEN Respond(r, 200)
       ELSE pc' = [pc EXCEPT ![r] = "handle"] /\ UNCHANGED <<status, snap>>

\* Dedup.Has: a known id is acknowledged at once; an empty id is never known.
LookUp(r, id) ==
    /\ dedup' = TouchedByHas(dedup, id)
    /\ IF Has(dedup, id) THEN Respond(r, 200)
       ELSE pc' = [pc EXCEPT ![r] = "handle"] /\ UNCHANGED <<status, snap>>

\* OnEvent returns: nil, or an error that is answered with 500.
OnEvent(r) ==
    /\ pc[r] = "handle"
    /\ \/ /\ pc' = [pc EXCEPT ![r] = "add"]
          /\ processed' = [processed EXCEPT ![msg[r].event] = @ + 1]
          /\ UNCHANGED <<status, snap>>
       \/ Respond(r, 500) /\ UNCHANGED processed
    /\ UNCHANGED <<now, cache, bank, msg, got, since, dedup, excused, call,
                   failed, failures, restarts, strays>>

\* Dedup.Add, only now, and the 200.
Record(r, id) ==
    /\ pc[r] = "add"
    /\ dedup' = Add(dedup, id)
    /\ Respond(r, 200)
    /\ UNCHANGED <<now, cache, bank, msg, got, since, history>>

-----------------------------------------------------------------------------
(* Properties. *)

\* The handler never goes back to an older bank key: concurrent refreshes whose
\* answers arrive out of order cannot overwrite a newer key.
KeyNeverGoesBack == [][key' >= key]_vars

FetchStarts == \E r \in Reqs : pc[r] # "fetch" /\ pc'[r] = "fetch"

\* minRefreshInterval, as far as the code keeps it: after a refresh that
\* succeeded the key endpoint is left alone for MinRefresh, however many waves
\* of requests had already passed the outer check of refreshCoalesced.
PausedAfterSuccess ==
    [][FetchStarts /\ call.ok => now >= call.at + MinRefresh]_vars

\* A call of the key endpoint is in progress.  Nothing in the handler ends it:
\* the default http.Client has no timeout, and the followers of a singleflight
\* call do not watch their own contexts.
Fetching(r) == pc[r] \in {"fetch", "fetched"}

\* Every request is answered unless a call of the key endpoint hangs: as long as
\* each of those calls ends, with a key or an error, no goroutine is left waiting
\* for a refresh that somebody else leads.
Answered ==
    (\A q \in Reqs : []<>~Fetching(q))
        => \A r \in Reqs : (pc[r] # "idle") ~> (pc[r] = "idle")
=============================================================================
