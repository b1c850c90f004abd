---------------------------- MODULE WebhookProofs ----------------------------
(***************************************************************************)
(* The two webhook handlers, for any number of goroutines, events, keys,   *)
(* rotations, failures and restarts.                                       *)
(*                                                                         *)
(* First what they share: the LRU set keeps its shape; only the leader of  *)
(* the singleflight call touches the cached key, so the key never goes     *)
(* back and the key endpoint is left alone after a success; and a key that *)
(* is out of date has not been so for long.  The steps of ServeHTTP enter  *)
(* through LocalStep, which both handlers are shown to refine.  Then what  *)
(* is true of webhook.Handler, and of acquiring.WebhookHandler: why a      *)
(* genuine delivery may be refused, and what an acknowledgement says.      *)
(*                                                                         *)
(* No proof about one handler cites the assumption of the other.           *)
(***************************************************************************)
EXTENDS WebhookHandler, AcquiringHandler, FiniteSetTheorems, TLAPS

-----------------------------------------------------------------------------
(* The LRU set. *)

\* The list holds no id twice.
Distinct(order) == \A i, j \in DOMAIN order : order[i] = order[j] => i = j

\* index[id] is the position of id.
LEMMA IndexPoints ==
    ASSUME NEW order, NEW id \in Ids(order)
    PROVE  Index(order, id) \in DOMAIN order /\ order[Index(order, id)] = id
  BY DEF Ids, Index

\* MoveToFront keeps the ids, each once, and puts the one that was used first.
LEMMA MoveToFrontKeeps ==
    ASSUME NEW order, order \in Seq(Ids(order)), NEW id \in Ids(order)
    PROVE  /\ MoveToFront(order, id) \in Seq(Ids(order))
           /\ Len(MoveToFront(order, id)) = Len(order)
           /\ Ids(MoveToFront(order, id)) = Ids(order)
           /\ Distinct(order) => Distinct(MoveToFront(order, id))
  <1> DEFINE i == Index(order, id)
             n == Len(order)
             moved == MoveToFront(order, id)
  <1>1. n \in Nat /\ DOMAIN order = 1..n /\ order \in [1..n -> Ids(order)]
    OBVIOUS
  <1>2. i \in 1..n /\ order[i] = id
    BY <1>1, IndexPoints
  <1>3. moved = [j \in 1..n |-> IF j = 1 THEN id
                                ELSE IF j <= i THEN order[j - 1] ELSE order[j]]
    BY <1>1 DEF MoveToFront
  <1> HIDE DEF i, n, moved
  <1>4. /\ DOMAIN moved = 1..n
        /\ moved[1] = id
        /\ \A j \in 2..i : moved[j] = order[j - 1]
        /\ \A j \in (i + 1)..n : moved[j] = order[j]
    BY <1>1, <1>2, <1>3
  <1>5. \A j \in 1..n : moved[j] \in Ids(order)
    <2> SUFFICES ASSUME NEW j \in 1..n PROVE moved[j] \in Ids(order)
      OBVIOUS
    <2>1. j = 1 \/ j \in 2..i \/ j \in (i + 1)..n
      BY <1>1, <1>2
    <2> QED BY <1>1, <1>2, <1>4, <2>1
  <1>6. moved \in Seq(Ids(order)) /\ Len(moved) = n
    <2>1. moved \in [1..n -> Ids(order)]
      BY <1>3, <1>4, <1>5
    <2> QED BY <1>1, <2>1
  <1>7. Ids(moved) \subseteq Ids(order)
    BY <1>4, <1>5 DEF Ids
  <1>8. Ids(order) \subseteq Ids(moved)
    <2> SUFFICES ASSUME NEW k \in 1..n PROVE order[k] \in Ids(moved)
      BY <1>1 DEF Ids
    <2>1. CASE k = i
      <3>1. 1 \in 1..n
        BY <1>1, <1>2
      <3>2. moved[1] = order[k]
        BY <1>2, <1>4, <2>1
      <3> QED BY <1>4, <3>1, <3>2 DEF Ids
    <2>2. CASE k < i
      <3>1. k + 1 \in 2..i /\ k + 1 \in 1..n /\ k + 1 - 1 = k
        BY <1>1, <1>2, <2>2
      <3>2. moved[k + 1] = order[k]
        BY <1>4, <3>1
      <3> QED BY <1>4, <3>1, <3>2 DEF Ids
    <2>3. CASE k > i
      <3>1. k \in (i + 1)..n
        BY <1>1, <1>2, <2>3
      <3> QED BY <1>4, <3>1 DEF Ids
    <2> QED BY <1>1, <1>2, <2>1, <2>2, <2>3
  <1>9. Distinct(order) => Distinct(moved)
    <2> SUFFICES ASSUME \A k, l \in 1..n : order[k] = order[l] => k = l,
                        NEW j \in 1..n, NEW h \in 1..n, j < h
                 PROVE  moved[j] # moved[h]
      BY <1>1, <1>4 DEF Distinct
    <2>1. CASE j = 1
      <3>1. \/ h \in 2..i /\ h - 1 \in 1..n /\ h - 1 # i
            \/ h \in (i + 1)..n /\ h # i
        BY <1>1, <1>2, <2>1
      <3> QED BY <1>2, <1>4, <2>1, <3>1
    <2>2. CASE j # 1 /\ h <= i
      <3>1. j \in 2..i /\ h \in 2..i /\ j - 1 \in 1..n /\ h - 1 \in 1..n /\ j - 1 # h - 1
        BY <1>1, <1>2, <2>2
      <3> QED BY <1>4, <3>1
    <2>3. CASE j # 1 /\ h > i
      <3>1. h \in (i + 1)..n /\ (\/ j \in 2..i /\ j - 1 \in 1..n /\ j - 1 # h
                                 \/ j \in (i + 1)..n /\ j # h)
        BY <1>1, <1>2, <2>3
      <3> QED BY <1>4, <3>1
    <2> QED BY <1>1, <1>2, <2>1, <2>2, <2>3
  <1> QED BY <1>6, <1>7, <1>8, <1>9 DEF moved, n

\* PushFront of a new id.
LEMMA PushFrontKeeps ==
    ASSUME NEW order, order \in Seq(Ids(order)), NEW id
    PROVE  /\ PushFront(order, id) \in Seq(Ids(order) \cup {id})
           /\ Len(PushFront(order, id)) = Len(order) + 1
           /\ Ids(PushFront(order, id)) = Ids(order) \cup {id}
           /\ Distinct(order) /\ id \notin Ids(order) => Distinct(PushFront(order, id))
  <1> DEFINE n == Len(order)
             T == Ids(order) \cup {id}
             pushed == PushFront(order, id)
  <1>1. n \in Nat /\ DOMAIN order = 1..n /\ \A k \in 1..n : order[k] \in Ids(order)
    BY DEF Ids
  <1>2. order \in Seq(T) /\ <<id>> \in Seq(T)
    <2>1. order \in [1..n -> T]
      BY <1>1
    <2> QED BY <1>1, <2>1
  <1>3. /\ pushed \in Seq(T) /\ Len(pushed) = n + 1
        /\ pushed[1] = id /\ \A j \in 2..(n + 1) : pushed[j] = order[j - 1]
    BY <1>1, <1>2 DEF PushFront
  <1>4. DOMAIN pushed = 1..(n + 1)
    BY <1>1, <1>3
  <1> HIDE DEF n, T, pushed
  <1>5. Ids(pushed) \subseteq T
    BY <1>3, <1>4 DEF Ids
  <1>6. T \subseteq Ids(pushed)
    <2>1. id \in Ids(pushed)
      <3>1. 1 \in 1..(n + 1)
        BY <1>1
      <3> QED BY <1>3, <1>4, <3>1 DEF Ids
    <2>2. ASSUME NEW k \in 1..n PROVE order[k] \in Ids(pushed)
      <3>1. k + 1 \in 2..(n + 1) /\ k + 1 \in 1..(n + 1) /\ k + 1 - 1 = k
        BY <1>1
      <3>2. pushed[k + 1] = order[k]
        BY <1>3, <3>1
      <3> QED BY <1>4, <3>1, <3>2 DEF Ids
    <2> QED BY <1>1, <2>1, <2>2 DEF Ids, T
  <1>7. Distinct(order) /\ id \notin Ids(order) => Distinct(pushed)
    <2> SUFFICES ASSUME \A k, l \in 1..n : order[k] = order[l] => k = l,
                        id \notin Ids(order),
                        NEW j \in 1..(n + 1), NEW h \in 1..(n + 1), j < h
                 PROVE  pushed[j] # pushed[h]
      BY <1>1, <1>4 DEF Distinct
    <2>1. h \in 2..(n + 1) /\ h - 1 \in 1..n
      BY <1>1
    <2>2. CASE j = 1
      BY <1>1, <1>3, <2>1, <2>2
    <2>3. CASE j # 1
      <3>1. j \in 2..(n + 1) /\ j - 1 \in 1..n /\ j - 1 # h - 1
        BY <1>1, <2>3
      <3> QED BY <1>3, <2>1, <3>1
    <2> QED BY <2>2, <2>3
  <1> QED BY <1>3, <1>5, <1>6, <1>7 DEF pushed, n, T

\* Removing the element at the back.
LEMMA RemoveBackKeeps ==
    ASSUME NEW order, order \in Seq(Ids(order)), Len(order) > 0
    PROVE  /\ RemoveBack(order) \in Seq(Ids(RemoveBack(order)))
           /\ Len(RemoveBack(order)) = Len(order) - 1
           /\ Ids(RemoveBack(order)) \subseteq Ids(order)
           /\ Distinct(order) => Distinct(RemoveBack(order))
  <1> DEFINE n == Len(order)
             rest == RemoveBack(order)
  <1>1. n \in Nat \ {0} /\ DOMAIN order = 1..n
    OBVIOUS
  <1>2. /\ rest \in Seq(Ids(order)) /\ Len(rest) = n - 1
        /\ \A j \in 1..(n - 1) : rest[j] = order[j]
    BY <1>1 DEF RemoveBack
  <1>3. DOMAIN rest = 1..(n - 1)
    BY <1>1, <1>2
  <1> HIDE DEF n, rest
  <1>4. rest \in Seq(Ids(rest))
    <2>1. \A j \in 1..(n - 1) : rest[j] \in Ids(rest)
      BY <1>3 DEF Ids
    <2>2. rest = [j \in 1..(n - 1) |-> rest[j]]
      BY <1>2, <1>3
    <2>3. rest \in [1..(n - 1) -> Ids(rest)] /\ n - 1 \in Nat
      BY <1>1, <2>1, <2>2
    <2> QED BY <2>3
  <1>5. Ids(rest) \subseteq Ids(order)
    <2> SUFFICES ASSUME NEW j \in 1..(n - 1) PROVE rest[j] \in Ids(order)
      BY <1>3 DEF Ids
    <2>1. j \in 1..n
      BY <1>1
    <2> QED BY <1>1, <1>2, <2>1 DEF Ids
  <1>6. Distinct(order) => Distinct(rest)
    BY <1>1, <1>2, <1>3 DEF Distinct
  <1> QED BY <1>2, <1>4, <1>5, <1>6 DEF n, rest

\* Add keeps a well-formed list so; it brings in nothing but the id, and forgets
\* nothing unless a new id meets a full list.
LEMMA AddKeeps ==
    ASSUME NEW order, Kept(order), NEW id
    PROVE  /\ Kept(Add(order, id))
           /\ Ids(Add(order, id)) \subseteq Ids(order) \cup ({id} \ {NoId})
           /\ id # NoId => id \in Ids(Add(order, id))
           /\ (id \in Ids(order) \/ Len(order) # capacity) =>
                 Ids(order) \subseteq Ids(Add(order, id))
           /\ Distinct(order) => Distinct(Add(order, id))
  <1>1. /\ order \in Seq(Ids(order)) /\ Len(order) \in Nat
        /\ Len(order) <= capacity /\ NoId \notin Ids(order)
    BY DEF Kept
  <1>2. CASE id = NoId
    BY <1>2 DEF Add, Kept
  <1>3. CASE id # NoId /\ id \in Ids(order)
    BY <1>1, <1>3, MoveToFrontKeeps DEF Add, Kept
  <1>4. CASE id # NoId /\ id \notin Ids(order)
    <2> DEFINE rest == IF Len(order) = capacity THEN RemoveBack(order) ELSE order
    <2>1. /\ rest \in Seq(Ids(rest)) /\ Len(rest) \in Nat /\ Len(rest) + 1 <= capacity
          /\ Ids(rest) \subseteq Ids(order)
          /\ Len(order) # capacity => rest = order
          /\ Distinct(order) => Distinct(rest)
      BY <1>1, RemoveBackKeeps, LRUAssumption
    <2>2. Add(order, id) = PushFront(rest, id)
      BY <1>4 DEF Add
    <2> HIDE DEF rest
    <2>3. /\ PushFront(rest, id) \in Seq(Ids(rest) \cup {id})
          /\ Len(PushFront(rest, id)) = Len(rest) + 1
          /\ Ids(PushFront(rest, id)) = Ids(rest) \cup {id}
          /\ Distinct(rest) /\ id \notin Ids(rest) => Distinct(PushFront(rest, id))
      BY <2>1, PushFrontKeeps
    <2>4. Kept(PushFront(rest, id))
      BY <1>1, <1>4, <2>1, <2>3 DEF Kept
    <2> QED BY <1>1, <1>4, <2>1, <2>2, <2>3, <2>4
  <1> QED BY <1>2, <1>3, <1>4

\* Has only reorders the list.
LEMMA TouchKeeps ==
    ASSUME NEW order, Kept(order), NEW id
    PROVE  /\ Kept(TouchedByHas(order, id))
           /\ Ids(TouchedByHas(order, id)) = Ids(order)
           /\ Distinct(order) => Distinct(TouchedByHas(order, id))
  BY MoveToFrontKeeps DEF TouchedByHas, Has, Kept

-----------------------------------------------------------------------------
(* The steps of a handler, as far as the shared state is concerned. *)

\* What an iteration of ServeHTTP outside of refreshCoalesced may do: a request
\* goes to a refresh with the key it has just read, is accepted because its
\* signature fits some key, looked up, handled and answered.
Course ==
    {<<"arrived", "outer">>, <<"arrived", "parsed">>, <<"arrived", "reply">>,
     <<"refreshed", "parsed">>, <<"refreshed", "reply">>,
     <<"unrefreshed", "parsed">>, <<"unrefreshed", "reply">>,
     <<"parsed", "handle">>, <<"parsed", "reply">>,
     <<"handle", "add">>, <<"handle", "reply">>, <<"add", "reply">>}

LocalStep(r) ==
    /\ \E p \in PCs :
         /\ <<pc[r], p>> \in Course
         /\ pc' = [pc EXCEPT ![r] = p]
         /\ p = "outer" => snap'[r] >= 1
         /\ p = "parsed" => msg[r].key >= 1
    /\ \E k \in 0..bankKey : snap' = [snap EXCEPT ![r] = k]
    /\ \E s \in Nat : status' = [status EXCEPT ![r] = s]
    /\ Kept(dedup) => Kept(dedup')
    /\ processed \in [Events -> Nat] => processed' \in [Events -> Nat]
    /\ UNCHANGED <<now, cache, bank, msg, got, since, excused, call, failed, failures, restarts,
                   strays>>

\* A step of either handler or of its environment.
BaseStep ==
    \/ \E r \in Reqs : \/ LocalStep(r) \/ RefreshCoalesced(r) \/ ReplyEnds(r)
                       \/ \E e \in Events : Deliver(r, e)
                       \/ \E f \in Forms : Stray(r, f)
    \/ Rotate \/ Restart \/ Tick

\* The constants' assumptions in the form the proofs use.
LEMMA Bounds ==
    /\ MinRefresh \in Nat /\ MinRefresh >= 1 /\ MaxFetch \in Nat /\ RetryGap \in Nat
    /\ MaxTime \in Nat /\ MaxDeliveries \in Nat /\ MaxRotations \in Nat
    /\ Never \in Int /\ Never < 0
  BY WebhookAssumption DEF Never

\* Init satisfies TypeOK.
LEMMA InitTypes == Init => TypeOK
  <1> SUFFICES ASSUME Init PROVE TypeOK
    OBVIOUS
  <1>1. Ids(<<>>) = {}
    BY DEF Ids
  <1>2. Kept(<<>>)
    BY <1>1, LRUAssumption DEF Kept
  <1>3. call \in [at : {Never} \cup 0..now, ok : BOOLEAN]
    BY DEF Init, NoCall
  <1> QED BY <1>2, <1>3, Bounds DEF Init, TypeOK, PCs

\* Finish changes only where the leader and its followers are.
LEMMA FinishTypes ==
    ASSUME pc \in [Reqs -> PCs], NEW r \in Reqs, NEW next \in PCs, Finish(r, next)
    PROVE  /\ flight' = None /\ pc' \in [Reqs -> PCs] /\ pc'[r] = next
           /\ \A q \in Reqs : pc'[q] = (IF q = r \/ pc[q] = "joined" THEN next ELSE pc[q])
  BY DEF Finish

\* A moment of an earlier time is one of a later time.
LEMMA Later ==
    ASSUME NEW t \in Nat, NEW u \in Nat, t <= u
    PROVE  ({Never} \cup 0..t) \subseteq ({Never} \cup 0..u) /\ 0..t \subseteq 0..u
  OBVIOUS

\* A key that was fetched is no older than the cached one.
Ahead == \A r \in Reqs : pc[r] = "fetched" => key <= got[r]

\* Every step keeps the types.
LEMMA BaseTypes ==
    ASSUME TypeOK, Ahead, BaseStep
    PROVE  TypeOK'
  <1> USE Bounds
  <1>1. ASSUME NEW r \in Reqs, LocalStep(r) PROVE TypeOK'
    <2>1. UNCHANGED <<now, bankKey, rotatedAt, key, lastRefreshAt, flight, msg, got, since,
                      deliveries, acked, excused, call, failed, failures, restarts, strays>>
      BY <1>1 DEF LocalStep, cache, bank
    <2>2. Kept(dedup') /\ processed' \in [Events -> Nat]
      BY <1>1 DEF LocalStep, TypeOK
    <2>3. snap' \in [Reqs -> 0..bankKey] /\ status' \in [Reqs -> Nat]
      BY <1>1 DEF LocalStep, TypeOK
    <2>4. pc' \in [Reqs -> PCs] /\ pc[r] # "idle" /\ \A q \in Reqs \ {r} : pc'[q] = pc[q]
      BY <1>1 DEF LocalStep, TypeOK, Course
    <2>5. \A q \in Reqs : pc'[q] # "idle" => msg[q] \in Messages
      BY <2>4 DEF TypeOK
    <2> QED BY <2>1, <2>2, <2>3, <2>4, <2>5 DEF TypeOK
  <1>2. ASSUME NEW r \in Reqs, RefreshCoalesced(r) PROVE TypeOK'
    <2>0. /\ "outer" \in PCs /\ "enter" \in PCs /\ "lead" \in PCs /\ "fetch" \in PCs
          /\ "fetched" \in PCs /\ "stored" \in PCs /\ "joined" \in PCs
          /\ "refreshed" \in PCs /\ "unrefreshed" \in PCs
      BY DEF PCs
    <2>1. CASE RefreshOuter(r)
      BY <2>0, <2>1 DEF RefreshOuter, TypeOK, cache, bank, history
    <2>2. CASE RefreshJoin(r)
      BY <2>0, <2>2 DEF RefreshJoin, TypeOK, cache, bank, history
    <2>3. CASE RefreshInner(r)
      <3>1. CASE Finish(r, "refreshed") /\ UNCHANGED <<since, call>>
        BY <2>0, <2>3, <3>1, FinishTypes DEF RefreshInner, TypeOK, cache, bank, history
      <3>2. CASE /\ pc' = [pc EXCEPT ![r] = "fetch"] /\ since' = [since EXCEPT ![r] = now]
                 /\ call' = [at |-> now, ok |-> FALSE] /\ UNCHANGED flight
        BY <2>0, <2>3, <3>2 DEF RefreshInner, TypeOK, cache, bank, history
      <3> QED BY <2>3, <3>1, <3>2 DEF RefreshInner
    <2>4. CASE FetchAnswered(r)
      BY <2>0, <2>4 DEF FetchAnswered, TypeOK, cache, bank, history
    <2>5. CASE FetchFails(r)
      BY <2>0, <2>5, FinishTypes DEF FetchFails, TypeOK, cache, bank, history
    <2>6. CASE StoreKey(r)
      <3>1. key' \in 1..bankKey
        BY <2>6 DEF StoreKey, TypeOK, Ahead
      <3>2. call' = [call EXCEPT !.ok = TRUE] /\ call' \in [at : {Never} \cup 0..now, ok : BOOLEAN]
        BY <2>6 DEF StoreKey, TypeOK
      <3> QED BY <2>0, <2>6, <3>1, <3>2 DEF StoreKey, TypeOK, cache, bank, history
    <2>7. CASE StampRefresh(r)
      BY <2>0, <2>7, FinishTypes DEF StampRefresh, TypeOK, cache, bank, history
    <2> QED BY <1>2, <2>1, <2>2, <2>3, <2>4, <2>5, <2>6, <2>7 DEF RefreshCoalesced
  <1>3. ASSUME NEW r \in Reqs, ReplyEnds(r) PROVE TypeOK'
    BY <1>3 DEF ReplyEnds, TypeOK, cache, bank, history, PCs, Messages
  <1>4. ASSUME NEW r \in Reqs, NEW e \in Events, Deliver(r, e) PROVE TypeOK'
    BY <1>4 DEF Deliver, TypeOK, cache, bank, history, PCs, Messages, Forms
  <1>5. ASSUME NEW r \in Reqs, NEW f \in Forms, Stray(r, f) PROVE TypeOK'
    BY <1>5 DEF Stray, TypeOK, cache, bank, history, PCs, Messages, Forms
  <1>6. CASE Rotate
    BY <1>6 DEF Rotate, TypeOK, cache, bank, history
  <1>7. CASE Restart
    <2>1. Kept(<<>>)
      BY LRUAssumption DEF Kept, Ids
    <2>2. excused' \subseteq Events \cup {None}
      <3>1. \A q \in Reqs : pc[q] = "add" => msg[q].event \in Events \cup {None}
        BY DEF TypeOK, Messages
      <3> QED BY <1>7, <3>1 DEF Restart, TypeOK
    <2>3. call' \in [at : {Never} \cup 0..now, ok : BOOLEAN]
      BY <1>7 DEF Restart, NoCall
    <2> QED BY <1>7, <2>1, <2>2, <2>3 DEF Restart, TypeOK, cache, bank, history, PCs
  <1>8. CASE Tick
    BY <1>8, Later DEF Tick, TypeOK, cache, bank, history
  <1> QED BY <1>1, <1>2, <1>3, <1>4, <1>5, <1>6, <1>7, <1>8 DEF BaseStep

-----------------------------------------------------------------------------
(* The refresh. *)

\* Only the leader of the singleflight call is in it.
Leading ==
    \A r \in Reqs : pc[r] \in {"lead", "fetch", "fetched", "stored"} => flight = r

\* The stamp of a successful call is set, or about to be by its leader.
Stamped == call.ok => \/ call.at <= lastRefreshAt
                      \/ \E r \in Reqs : pc[r] = "stored"

Coalesced == TypeOK /\ Leading /\ Ahead /\ Stamped

\* Where a request is after a local step: nowhere in a refresh but at its start.
LEMMA LocalCourse ==
    ASSUME TypeOK, NEW r \in Reqs, LocalStep(r)
    PROVE  /\ pc[r] \in {"arrived", "refreshed", "unrefreshed", "parsed", "handle", "add"}
           /\ pc'[r] \in {"outer", "parsed", "handle", "add", "reply"}
           /\ \A q \in Reqs \ {r} : pc'[q] = pc[q]
           /\ pc'[r] = "outer" => snap'[r] >= 1
           /\ pc'[r] = "parsed" => msg[r].key >= 1
           /\ pc'[r] = "handle" => pc[r] = "parsed"
           /\ pc'[r] = "add" => pc[r] = "handle"
           /\ \A q \in Reqs \ {r} : snap'[q] = snap[q] /\ status'[q] = status[q]
           /\ UNCHANGED <<now, bankKey, rotatedAt, key, lastRefreshAt, flight, msg, got,
                          since, deliveries, acked, excused, call, failed, failures, restarts, strays>>
  BY DEF LocalStep, TypeOK, Course, cache, bank

\* At most one goroutine leads a refresh.
LEMMA LeadingStep ==
    ASSUME Coalesced, BaseStep
    PROVE  Leading'
  <1> USE DEF Coalesced
  <1>0. None \notin Reqs
    BY WebhookAssumption
  <1>1. ASSUME NEW r \in Reqs, LocalStep(r) PROVE Leading'
    BY <1>1, LocalCourse DEF Leading
  <1>2. ASSUME NEW r \in Reqs, RefreshCoalesced(r) PROVE Leading'
    <2>1. CASE RefreshOuter(r)
      BY <2>1 DEF RefreshOuter, TypeOK, Leading, cache
    <2>2. CASE RefreshJoin(r)
      BY <1>0, <2>2 DEF RefreshJoin, TypeOK, Leading
    <2>3. ASSUME Finish(r, "refreshed") \/ Finish(r, "unrefreshed"),
                 pc[r] \in {"lead", "fetch", "fetched", "stored"}
          PROVE  Leading'
      BY <1>0, <2>3 DEF Finish, TypeOK, Leading
    <2>4. CASE RefreshInner(r)
      BY <1>0, <2>3, <2>4 DEF RefreshInner, TypeOK, Leading
    <2>5. CASE FetchAnswered(r)
      BY <2>5 DEF FetchAnswered, TypeOK, Leading, cache
    <2>6. CASE FetchFails(r)
      BY <2>3, <2>6 DEF FetchFails
    <2>7. CASE StoreKey(r)
      BY <2>7 DEF StoreKey, TypeOK, Leading
    <2>8. CASE StampRefresh(r)
      BY <2>3, <2>8 DEF StampRefresh
    <2> QED BY <1>2, <2>1, <2>2, <2>4, <2>5, <2>6, <2>7, <2>8 DEF RefreshCoalesced
  <1>3. ASSUME NEW r \in Reqs, ReplyEnds(r) PROVE Leading'
    BY <1>3 DEF ReplyEnds, TypeOK, Leading, cache
  <1>4. ASSUME NEW r \in Reqs, NEW e \in Events, Deliver(r, e) PROVE Leading'
    BY <1>4 DEF Deliver, TypeOK, Leading, cache
  <1>5. ASSUME NEW r \in Reqs, NEW f \in Forms, Stray(r, f) PROVE Leading'
    BY <1>5 DEF Stray, TypeOK, Leading, cache
  <1>6. CASE Rotate \/ Tick
    BY <1>6 DEF Rotate, Tick, Leading, cache
  <1>7. CASE Restart
    BY <1>7 DEF Restart, Leading
  <1> QED BY <1>1, <1>2, <1>3, <1>4, <1>5, <1>6, <1>7 DEF BaseStep

\* What was fetched is not older than what is cached.
LEMMA AheadStep ==
    ASSUME Coalesced, BaseStep
    PROVE  Ahead'
  <1> USE DEF Coalesced
  <1>1. ASSUME NEW r \in Reqs, LocalStep(r) PROVE Ahead'
    BY <1>1, LocalCourse DEF Ahead
  <1>2. ASSUME NEW r \in Reqs, RefreshCoalesced(r) PROVE Ahead'
    <2>1. CASE RefreshOuter(r) \/ RefreshJoin(r)
      BY <2>1 DEF RefreshOuter, RefreshJoin, TypeOK, Ahead, cache
    <2>4. CASE RefreshInner(r)
      BY <2>4 DEF RefreshInner, Finish, TypeOK, Ahead
    <2>5. CASE FetchAnswered(r)
      BY <2>5 DEF FetchAnswered, TypeOK, Ahead, cache
    <2>6. CASE FetchFails(r)
      BY <2>6 DEF FetchFails, Finish, TypeOK, Ahead
    <2>7. CASE StoreKey(r)
      BY <2>7 DEF StoreKey, TypeOK, Ahead, Leading
    <2>8. CASE StampRefresh(r)
      BY <2>8 DEF StampRefresh, Finish, TypeOK, Ahead
    <2> QED BY <1>2, <2>1, <2>4, <2>5, <2>6, <2>7, <2>8 DEF RefreshCoalesced
  <1>3. ASSUME NEW r \in Reqs, ReplyEnds(r) PROVE Ahead'
    BY <1>3 DEF ReplyEnds, TypeOK, Ahead, cache
  <1>4. ASSUME NEW r \in Reqs, NEW e \in Events, Deliver(r, e) PROVE Ahead'
    BY <1>4 DEF Deliver, TypeOK, Ahead, cache
  <1>5. ASSUME NEW r \in Reqs, NEW f \in Forms, Stray(r, f) PROVE Ahead'
    BY <1>5 DEF Stray, TypeOK, Ahead, cache
  <1>6. CASE Rotate \/ Tick
    BY <1>6 DEF Rotate, Tick, Ahead, cache
  <1>7. CASE Restart
    BY <1>7 DEF Restart, Ahead
  <1> QED BY <1>1, <1>2, <1>3, <1>4, <1>5, <1>6, <1>7 DEF BaseStep

\* A success is stamped before anyone else may lead.
LEMMA StampedStep ==
    ASSUME Coalesced, BaseStep
    PROVE  Stamped'
  <1> USE DEF Coalesced
  <1> USE Bounds
  <1>1. ASSUME NEW r \in Reqs, LocalStep(r) PROVE Stamped'
    BY <1>1, LocalCourse DEF Stamped
  <1>2. ASSUME NEW r \in Reqs, RefreshCoalesced(r) PROVE Stamped'
    <2>1. CASE RefreshOuter(r) \/ RefreshJoin(r)
      BY <2>1 DEF RefreshOuter, RefreshJoin, TypeOK, Stamped, cache, history
    <2>4. CASE RefreshInner(r)
      BY <2>4 DEF RefreshInner, Finish, TypeOK, Stamped
    <2>5. CASE FetchAnswered(r)
      BY <2>5 DEF FetchAnswered, TypeOK, Stamped, cache, history
    <2>6. CASE FetchFails(r)
      BY <2>6 DEF FetchFails, Finish, TypeOK, Stamped
    <2>7. CASE StoreKey(r)
      BY <2>7 DEF StoreKey, TypeOK, Stamped
    <2>8. CASE StampRefresh(r)
      BY <2>8 DEF StampRefresh, TypeOK, Stamped, history
    <2> QED BY <1>2, <2>1, <2>4, <2>5, <2>6, <2>7, <2>8 DEF RefreshCoalesced
  <1>3. ASSUME NEW r \in Reqs, ReplyEnds(r) PROVE Stamped'
    BY <1>3 DEF ReplyEnds, TypeOK, Stamped, cache, history
  <1>4. ASSUME NEW r \in Reqs, NEW e \in Events, Deliver(r, e) PROVE Stamped'
    BY <1>4 DEF Deliver, TypeOK, Stamped, cache
  <1>5. ASSUME NEW r \in Reqs, NEW f \in Forms, Stray(r, f) PROVE Stamped'
    BY <1>5 DEF Stray, TypeOK, Stamped, cache
  <1>6. CASE Rotate \/ Tick
    BY <1>6 DEF Rotate, Tick, Stamped, cache, history
  <1>7. CASE Restart
    BY <1>7 DEF Restart, Stamped, NoCall
  <1> QED BY <1>1, <1>2, <1>3, <1>4, <1>5, <1>6, <1>7 DEF BaseStep

\* The refresh invariant holds at the start and is kept.
LEMMA CoalescedInit == Init => Coalesced
  <1> SUFFICES ASSUME Init PROVE Coalesced
    OBVIOUS
  <1> QED BY InitTypes DEF Init, Coalesced, Leading, Ahead, Stamped, NoCall

\* Every step keeps the invariant of the singleflight call.
LEMMA CoalescedStep ==
    ASSUME Coalesced, BaseStep
    PROVE  Coalesced'
  BY BaseTypes, LeadingStep, AheadStep, StampedStep DEF Coalesced

\* So does a stuttering step.
LEMMA CoalescedStutter ==
    ASSUME Coalesced, UNCHANGED vars
    PROVE  Coalesced'
  <1>1. UNCHANGED <<now, key, lastRefreshAt, flight, bankKey, rotatedAt, deliveries, acked,
                    pc, msg, snap, got, since, status, dedup, processed, excused, call,
                    failed, failures, restarts, strays>>
    BY DEF vars, cache, bank, history
  <1> QED BY <1>1 DEF Coalesced, TypeOK, Leading, Ahead, Stamped

\* No step replaces the key by an older one: it is stored by the leader, whose
\* answer is not older than what is cached, or read afresh by a restart.
LEMMA KeyForward ==
    ASSUME Coalesced, BaseStep
    PROVE  key' >= key
  <1> USE DEF Coalesced
  <1>1. ASSUME NEW r \in Reqs, LocalStep(r) PROVE key' >= key
    BY <1>1, LocalCourse DEF TypeOK
  <1>2. ASSUME NEW r \in Reqs, RefreshCoalesced(r) PROVE key' >= key
    BY <1>2 DEF RefreshCoalesced, RefreshOuter, RefreshJoin, RefreshInner, FetchAnswered,
                FetchFails, StoreKey, StampRefresh, cache, TypeOK, Ahead
  <1>3. ASSUME NEW r \in Reqs,
               ReplyEnds(r) \/ (\E e \in Events : Deliver(r, e)) \/ (\E f \in Forms : Stray(r, f))
        PROVE  key' >= key
    BY <1>3 DEF ReplyEnds, Deliver, Stray, cache, TypeOK
  <1>4. CASE Rotate \/ Restart \/ Tick
    BY <1>4 DEF Rotate, Restart, Tick, cache, TypeOK
  <1> QED BY <1>1, <1>2, <1>3, <1>4 DEF BaseStep

\* A fetch starts only in RefreshInner, past the check of lastRefreshAt.
LEMMA PausedStep ==
    ASSUME Coalesced, BaseStep, FetchStarts, call.ok
    PROVE  now >= call.at + MinRefresh
  <1> USE DEF Coalesced
  <1> USE Bounds
  <1>0. PICK q \in Reqs : pc[q] # "fetch" /\ pc'[q] = "fetch"
    BY DEF FetchStarts
  <1>1. ASSUME NEW r \in Reqs, LocalStep(r) PROVE FALSE
    BY <1>0, <1>1, LocalCourse
  <1>2. ASSUME NEW r \in Reqs, RefreshCoalesced(r) PROVE RefreshInner(r) /\ q = r /\ ~Throttled
    BY <1>0, <1>2 DEF RefreshCoalesced, RefreshOuter, RefreshJoin, RefreshInner, FetchAnswered,
                      FetchFails, StoreKey, StampRefresh, Finish, TypeOK
  <1>3. ASSUME NEW r \in Reqs,
               ReplyEnds(r) \/ (\E e \in Events : Deliver(r, e)) \/ (\E f \in Forms : Stray(r, f))
        PROVE  FALSE
    BY <1>0, <1>3 DEF ReplyEnds, Deliver, Stray, TypeOK
  <1>4. ASSUME Rotate \/ Restart \/ Tick PROVE FALSE
    BY <1>0, <1>4 DEF Rotate, Restart, Tick, TypeOK
  <1>5. PICK r \in Reqs : RefreshInner(r) /\ ~Throttled
    BY <1>1, <1>2, <1>3, <1>4 DEF BaseStep
  <1>6. call.at <= lastRefreshAt
    BY <1>5 DEF Stamped, Leading, RefreshInner
  <1> QED BY <1>5, <1>6 DEF Throttled, TypeOK

-----------------------------------------------------------------------------
(* A key that is out of date. *)

\* A request in progress is a delivery, signed with a key the bank had by then,
\* or a stray, which fits no key.
Genuine ==
    \A r \in Reqs : pc[r] # "idle" =>
        /\ msg[r].key <= bankKey /\ msg[r].at <= now
        /\ \/ msg[r].event \in Events /\ msg[r].key >= 1 /\ msg[r].form = "post"
           \/ msg[r].event = None /\ msg[r].key = 0

\* A call of the key endpoint takes no longer than MaxFetch.
InTime ==
    \A r \in Reqs : pc[r] \in {"fetch", "fetched", "stored"} => now <= since[r] + MaxFetch

\* A call that returns an old key began before the rotation.
Predates ==
    \A r \in Reqs : (\/ pc[r] = "fetched" /\ got[r] < bankKey
                     \/ pc[r] = "stored" /\ key < bankKey) => since[r] <= rotatedAt

\* So the last refresh of an old key ended within MaxFetch of the rotation.
Outdated == key < bankKey => lastRefreshAt <= rotatedAt + MaxFetch

\* And a request that has waited for the refresh in vain came soon after it.
Waited ==
    \A r \in Reqs :
        (pc[r] = "refreshed" /\ msg[r].key = bankKey /\ key < bankKey) =>
            msg[r].at < rotatedAt + MinRefresh + MaxFetch

\* Who is on the error path has waited for a fetch that failed.
Unfailed == \A r \in Reqs : pc[r] = "unrefreshed" => r \in failed

Recent == Genuine /\ InTime /\ Predates /\ Outdated /\ Waited /\ Unfailed

\* Recent holds at the start.
LEMMA RecentInit == Init => Recent
  <1> SUFFICES ASSUME Init PROVE Recent
    OBVIOUS
  <1> QED BY Bounds DEF Init, Recent, Genuine, InTime, Predates, Outdated, Waited, Unfailed

\* A stuttering step keeps Recent.
LEMMA RecentStutter ==
    ASSUME Recent, UNCHANGED vars
    PROVE  Recent'
  <1>1. UNCHANGED <<now, key, lastRefreshAt, bankKey, rotatedAt, pc, msg, got, since, failed>>
    BY DEF vars, cache, bank, history
  <1> QED BY <1>1 DEF Recent, Genuine, InTime, Predates, Outdated, Waited, Unfailed

\* The messages in progress are the bank's or fit no key.
LEMMA GenuineStep ==
    ASSUME Coalesced, Genuine, BaseStep
    PROVE  Genuine'
  <1> USE DEF Coalesced
  <1>1. ASSUME NEW r \in Reqs, LocalStep(r) PROVE Genuine'
    <2>1. pc[r] # "idle" /\ UNCHANGED <<bankKey, now, msg>>
          /\ \A q \in Reqs \ {r} : pc'[q] = pc[q]
      BY <1>1, LocalCourse
    <2> QED BY <2>1 DEF Genuine
  <1>2. ASSUME NEW r \in Reqs, RefreshCoalesced(r) PROVE Genuine'
    <2>1. UNCHANGED <<bankKey, now, msg>> /\ \A q \in Reqs : pc'[q] # "idle" => pc[q] # "idle"
      BY <1>2 DEF RefreshCoalesced, RefreshOuter, RefreshJoin, RefreshInner, FetchAnswered,
                  FetchFails, StoreKey, StampRefresh, Finish, TypeOK, bank
    <2> QED BY <2>1 DEF Genuine
  <1>3. ASSUME NEW r \in Reqs, ReplyEnds(r) PROVE Genuine'
    BY <1>3 DEF ReplyEnds, Genuine, TypeOK
  <1>4. ASSUME NEW r \in Reqs, NEW e \in Events, Deliver(r, e) PROVE Genuine'
    BY <1>4 DEF Deliver, Genuine, TypeOK
  <1>5. ASSUME NEW r \in Reqs, NEW f \in Forms, Stray(r, f) PROVE Genuine'
    BY <1>5 DEF Stray, Genuine, TypeOK, bank
  <1>6. ASSUME Rotate \/ Restart \/ Tick PROVE Genuine'
    <2>1. \A q \in Reqs : pc[q] # "idle" => msg[q].key \in Nat /\ msg[q].at \in Nat
      BY DEF TypeOK, Messages
    <2>2. now' \in Int /\ now' >= now /\ bankKey' \in Int /\ bankKey' >= bankKey
      BY <1>6 DEF Rotate, Restart, Tick, TypeOK, bank
    <2>3. \A q \in Reqs : pc'[q] # "idle" => pc[q] # "idle" /\ msg'[q] = msg[q]
      BY <1>6 DEF Rotate, Restart, Tick, TypeOK
    <2>4. now \in Int /\ bankKey \in Int
      BY DEF TypeOK
    <2> HIDE DEF Coalesced
    <2> QED BY <2>1, <2>2, <2>3, <2>4 DEF Genuine
  <1> QED BY <1>1, <1>2, <1>3, <1>4, <1>5, <1>6 DEF BaseStep

\* The time of a message in progress.
LEMMA MessageTimes ==
    ASSUME TypeOK
    PROVE  \A r \in Reqs : pc[r] # "idle" => msg[r].key \in Nat /\ msg[r].at \in Nat
  BY DEF TypeOK, Messages

\* The end of a refresh that found the throttle closed, or the call it led.
LEMMA WaitedFinish ==
    ASSUME Coalesced, Recent, NEW r \in Reqs, Finish(r, "refreshed"), pc[r] # "idle",
           UNCHANGED <<key, bankKey, rotatedAt, msg>>,
           key < bankKey => now < rotatedAt + MinRefresh + MaxFetch
    PROVE  Waited'
  <1> SUFFICES ASSUME NEW q \in Reqs, pc'[q] = "refreshed", msg[q].key = bankKey, key < bankKey
               PROVE  msg[q].at < rotatedAt + MinRefresh + MaxFetch
    BY DEF Waited
  <1>1. CASE q = r \/ pc[q] = "joined"
    BY <1>1, Bounds, MessageTimes DEF Recent, Genuine, Coalesced, TypeOK
  <1>2. CASE ~(q = r \/ pc[q] = "joined")
    BY <1>2 DEF Finish, Recent, Waited, Coalesced, TypeOK
  <1> QED BY <1>1, <1>2

\* A refresh that is throttled, or that ends, with an old key in the cache is not
\* far from the rotation.
LEMMA ThrottledSoon ==
    ASSUME Coalesced, Recent, Throttled, key < bankKey
    PROVE  now < rotatedAt + MinRefresh + MaxFetch
  BY Bounds DEF Coalesced, TypeOK, Recent, Outdated, Throttled

\* A leader that stores a key already outdated fetched it shortly before the rotation.
LEMMA StampedSoon ==
    ASSUME Coalesced, Recent, NEW r \in Reqs, pc[r] = "stored", key < bankKey
    PROVE  now <= rotatedAt + MaxFetch /\ now < rotatedAt + MinRefresh + MaxFetch
  <1>1. now \in Int /\ since[r] \in Int /\ rotatedAt \in Int
    BY Bounds DEF Coalesced, TypeOK
  <1> QED BY <1>1, Bounds DEF Recent, InTime, Predates

\* The refresh's steps keep what is said about an outdated key.
LEMMA RecentRefresh ==
    ASSUME Coalesced, Recent, NEW r \in Reqs, RefreshCoalesced(r)
    PROVE  InTime' /\ Predates' /\ Outdated' /\ Waited' /\ Unfailed'
  <1> USE Bounds
  <1> USE DEF Coalesced, Recent
  <1>1. CASE RefreshOuter(r)
    <2>1. UNCHANGED <<now, key, lastRefreshAt, bankKey, rotatedAt, msg, got, since, failed>>
      BY <1>1 DEF RefreshOuter, cache, bank, history
    <2>2. pc'[r] \in {"refreshed", "enter"} /\ \A q \in Reqs \ {r} : pc'[q] = pc[q]
      BY <1>1 DEF RefreshOuter, TypeOK
    <2>3. InTime' /\ Predates' /\ Outdated' /\ Unfailed'
      BY <2>1, <2>2 DEF InTime, Predates, Outdated, Unfailed
    <2>4. Waited'
      <3>1. pc[r] # "idle" /\ (pc'[r] = "refreshed" => Throttled)
        BY <1>1 DEF RefreshOuter, TypeOK
      <3>2. ASSUME pc'[r] = "refreshed", msg[r].key = bankKey, key < bankKey
            PROVE  msg[r].at < rotatedAt + MinRefresh + MaxFetch
        BY <3>1, <3>2, ThrottledSoon, MessageTimes DEF Genuine, TypeOK
      <3> QED BY <2>1, <2>2, <3>2 DEF Waited
    <2> QED BY <2>3, <2>4
  <1>2. CASE RefreshJoin(r)
    <2>1. UNCHANGED <<now, key, lastRefreshAt, bankKey, rotatedAt, msg, got, since, failed>>
      BY <1>2 DEF RefreshJoin, bank, history
    <2>2. pc'[r] \in {"lead", "joined"} /\ \A q \in Reqs \ {r} : pc'[q] = pc[q]
      BY <1>2 DEF RefreshJoin, TypeOK
    <2> QED BY <2>1, <2>2 DEF InTime, Predates, Outdated, Waited, Unfailed
  <1>3. CASE RefreshInner(r)
    <2>1. UNCHANGED <<now, key, lastRefreshAt, bankKey, rotatedAt, msg, got, failed>>
          /\ pc[r] = "lead"
      BY <1>3 DEF RefreshInner, bank
    <2>2. CASE Throttled /\ Finish(r, "refreshed") /\ UNCHANGED <<since, call>>
      <3>1. Waited'
        BY <2>1, <2>2, ThrottledSoon, WaitedFinish
      <3>2. \A q \in Reqs : pc'[q] = "refreshed" \/ pc'[q] = pc[q]
        BY <2>2 DEF Finish
      <3> QED BY <2>1, <2>2, <3>1, <3>2 DEF InTime, Predates, Outdated, Unfailed
    <2>3. CASE pc' = [pc EXCEPT ![r] = "fetch"] /\ since' = [since EXCEPT ![r] = now]
      BY <2>1, <2>3 DEF InTime, Predates, Outdated, Waited, Unfailed, TypeOK
    <2> QED BY <1>3, <2>2, <2>3 DEF RefreshInner
  <1>4. CASE FetchAnswered(r)
    <2>1. UNCHANGED <<now, key, lastRefreshAt, bankKey, rotatedAt, msg, since, failed>>
          /\ pc[r] = "fetch"
      BY <1>4 DEF FetchAnswered, cache, bank, history
    <2>2. /\ pc'[r] = "fetched" /\ got'[r] = bankKey
          /\ \A q \in Reqs \ {r} : pc'[q] = pc[q] /\ got'[q] = got[q]
      BY <1>4 DEF FetchAnswered, TypeOK
    <2> QED BY <2>1, <2>2 DEF InTime, Predates, Outdated, Waited, Unfailed, TypeOK
  <1>5. CASE FetchFails(r)
    <2>1. UNCHANGED <<now, key, lastRefreshAt, bankKey, rotatedAt, msg>>
          /\ failed' = failed \cup {q \in Reqs : q = r \/ pc[q] = "joined"}
      BY <1>5 DEF FetchFails, bank
    <2>2. /\ \A q \in Reqs \ {r} : got'[q] = got[q] /\ since'[q] = since[q]
          /\ \A q \in Reqs : pc'[q] = "unrefreshed" \/ (q # r /\ pc'[q] = pc[q])
      BY <1>5 DEF FetchFails, Finish, TypeOK
    <2>3. Unfailed'
      <3> SUFFICES ASSUME NEW q \in Reqs, pc'[q] = "unrefreshed" PROVE q \in failed'
        BY DEF Unfailed
      <3>1. q = r \/ pc[q] = "joined" \/ pc[q] = "unrefreshed"
        BY <1>5 DEF FetchFails, Finish
      <3> QED BY <2>1, <3>1 DEF Unfailed
    <2> QED BY <2>1, <2>2, <2>3 DEF InTime, Predates, Outdated, Waited, TypeOK
  <1>6. CASE StoreKey(r)
    <2>1. UNCHANGED <<now, lastRefreshAt, bankKey, rotatedAt, msg, got, since, failed>>
          /\ pc[r] = "fetched" /\ key' = got[r]
      BY <1>6 DEF StoreKey, bank
    <2>2. pc'[r] = "stored" /\ \A q \in Reqs \ {r} : pc'[q] = pc[q]
      BY <1>6 DEF StoreKey, TypeOK
    <2>3. key' \in Int /\ key <= key' /\ bankKey \in Int /\ key \in Int
      BY <2>1 DEF TypeOK, Ahead
    <2>4. \A q \in Reqs \ {r} : pc[q] # "stored" /\ pc[q] # "fetched"
      BY <2>1 DEF Leading
    <2> QED BY <2>1, <2>2, <2>3, <2>4 DEF InTime, Predates, Outdated, Waited, Unfailed
  <1>7. CASE StampRefresh(r)
    <2>1. UNCHANGED <<now, key, bankKey, rotatedAt, msg, failed>>
          /\ pc[r] = "stored" /\ lastRefreshAt' = now
      BY <1>7 DEF StampRefresh, bank, history
    <2>2. /\ \A q \in Reqs \ {r} : got'[q] = got[q] /\ since'[q] = since[q]
          /\ \A q \in Reqs : pc'[q] = "refreshed" \/ (q # r /\ pc'[q] = pc[q])
      BY <1>7 DEF StampRefresh, Finish, TypeOK
    <2>3. Waited'
      BY <1>7, <2>1, StampedSoon, WaitedFinish DEF StampRefresh
    <2>4. Outdated'
      BY <2>1, StampedSoon DEF Outdated
    <2> QED BY <2>1, <2>2, <2>3, <2>4 DEF InTime, Predates, Unfailed
  <1> QED BY <1>1, <1>2, <1>3, <1>4, <1>5, <1>6, <1>7 DEF RefreshCoalesced

\* Every step keeps what is said about an outdated key.
LEMMA RecentStep ==
    ASSUME Coalesced, Recent, BaseStep
    PROVE  Recent'
  <1> USE Bounds
  <1> DEFINE Rest == InTime' /\ Predates' /\ Outdated' /\ Waited' /\ Unfailed'
  <1> SUFFICES Rest
    BY GenuineStep DEF Recent
  <1> USE DEF Coalesced, Recent
  <1>1. ASSUME NEW r \in Reqs, LocalStep(r) PROVE Rest
    <2>1. /\ UNCHANGED <<now, key, lastRefreshAt, bankKey, rotatedAt, msg, got, since, failed>>
          /\ \A q \in Reqs : pc'[q] \in {"outer", "parsed", "handle", "add", "reply"}
                             \/ pc'[q] = pc[q]
      BY <1>1, LocalCourse
    <2> QED BY <2>1 DEF InTime, Predates, Outdated, Waited, Unfailed
  <1>2. ASSUME NEW r \in Reqs, RefreshCoalesced(r) PROVE Rest
    BY <1>2, RecentRefresh
  <1>3. ASSUME NEW r \in Reqs,
               ReplyEnds(r) \/ (\E e \in Events : Deliver(r, e)) \/ (\E f \in Forms : Stray(r, f))
        PROVE  Rest
    <2>1. /\ UNCHANGED <<now, key, lastRefreshAt, bankKey, rotatedAt, got, since>>
          /\ \A q \in Reqs : \/ pc'[q] \in {"idle", "arrived"}
                             \/ pc'[q] = pc[q] /\ msg'[q] = msg[q] /\ (q \in failed => q \in failed')
      BY <1>3 DEF ReplyEnds, Deliver, Stray, TypeOK, cache, bank, history
    <2> QED BY <2>1 DEF InTime, Predates, Outdated, Waited, Unfailed
  <1>4. ASSUME Rotate PROVE Rest
    <2>1. /\ UNCHANGED <<now, key, lastRefreshAt, pc, msg, got, since, failed>>
          /\ bankKey' = bankKey + 1 /\ rotatedAt' = now
      BY <1>4 DEF Rotate, cache, history
    <2>2. Waited'
      BY <2>1, MessageTimes DEF Waited, Genuine, TypeOK
    <2> QED BY <2>1, <2>2 DEF InTime, Predates, Outdated, Unfailed, TypeOK
  <1>5. ASSUME Restart PROVE Rest
    <2>1. key' = bankKey /\ bankKey' = bankKey /\ \A q \in Reqs : pc'[q] = "idle"
      BY <1>5 DEF Restart, bank
    <2> QED BY <2>1 DEF InTime, Predates, Outdated, Waited, Unfailed, TypeOK
  <1>6. ASSUME Tick PROVE Rest
    <2>1. /\ UNCHANGED <<key, lastRefreshAt, bankKey, rotatedAt, pc, msg, got, since, failed>>
          /\ now' = now + 1
          /\ \A q \in Reqs : pc[q] \in {"fetch", "fetched", "stored"} => now < since[q] + MaxFetch
      BY <1>6 DEF Tick, cache, bank, history
    <2> QED BY <2>1 DEF InTime, Predates, Outdated, Waited, Unfailed, TypeOK
  <1> QED BY <1>1, <1>2, <1>3, <1>4, <1>5, <1>6 DEF BaseStep

-----------------------------------------------------------------------------
(* What passed the signature. *)

\* A request in a refresh remembers a real key, and one past the signature is a
\* delivery of the bank.
Authentic ==
    \A r \in Reqs :
        /\ pc[r] \in {"outer", "enter", "lead", "fetch", "fetched", "stored", "joined",
                      "refreshed", "unrefreshed"} => snap[r] >= 1
        /\ pc[r] \in {"parsed", "handle", "add"} => msg[r].event \in Events

\* Authentic holds at the start.
LEMMA AuthenticInit == Init => Authentic
  BY DEF Init, Authentic

\* A stuttering step keeps Authentic.
LEMMA AuthenticStutter ==
    ASSUME Authentic, UNCHANGED vars
    PROVE  Authentic'
  BY DEF Authentic, vars

\* Every step keeps Authentic.
LEMMA AuthenticStep ==
    ASSUME Coalesced, Genuine, Authentic, BaseStep
    PROVE  Authentic'
  <1> USE DEF Coalesced
  <1>1. ASSUME NEW r \in Reqs, LocalStep(r) PROVE Authentic'
    <2>1. msg' = msg /\ pc[r] # "idle" /\ \A q \in Reqs \ {r} : pc'[q] = pc[q] /\ snap'[q] = snap[q]
      BY <1>1, LocalCourse
    <2>2. /\ pc'[r] \in {"outer", "parsed", "handle", "add", "reply"}
          /\ pc'[r] = "outer" => snap'[r] >= 1
      BY <1>1, LocalCourse
    <2>3. pc'[r] \in {"parsed", "handle", "add"} => msg[r].event \in Events
      BY <1>1, <2>1, LocalCourse, MessageTimes DEF Authentic, Genuine
    <2> QED BY <2>1, <2>2, <2>3 DEF Authentic
  <1>2. ASSUME NEW r \in Reqs, RefreshCoalesced(r) PROVE Authentic'
    <2> DEFINE R == {"outer", "enter", "lead", "fetch", "fetched", "stored", "joined",
                     "refreshed", "unrefreshed"}
    <2>1. UNCHANGED <<msg, snap>>
      BY <1>2 DEF RefreshCoalesced, RefreshOuter, RefreshJoin, RefreshInner, FetchAnswered,
                  FetchFails, StoreKey, StampRefresh
    <2>2. \A q \in Reqs : pc'[q] = pc[q] \/ (pc[q] \in R /\ pc'[q] \in R)
      BY <1>2 DEF RefreshCoalesced, RefreshOuter, RefreshJoin, RefreshInner, FetchAnswered,
                  FetchFails, StoreKey, StampRefresh, Finish, TypeOK
    <2> QED BY <2>1, <2>2 DEF Authentic
  <1>3. ASSUME NEW r \in Reqs,
               ReplyEnds(r) \/ (\E e \in Events : Deliver(r, e)) \/ (\E f \in Forms : Stray(r, f))
        PROVE  Authentic'
    <2>1. /\ snap' = snap
          /\ \A q \in Reqs : \/ pc'[q] \in {"idle", "arrived"}
                             \/ pc'[q] = pc[q] /\ msg'[q] = msg[q]
      BY <1>3 DEF ReplyEnds, Deliver, Stray, TypeOK
    <2> QED BY <2>1 DEF Authentic
  <1>4. ASSUME Rotate \/ Restart \/ Tick PROVE Authentic'
    BY <1>4 DEF Rotate, Restart, Tick, Authentic
  <1> QED BY <1>1, <1>2, <1>3, <1>4 DEF BaseStep

-----------------------------------------------------------------------------
(* What both handlers have in hand. *)

Shared == Coalesced /\ Recent /\ Authentic

\* Shared holds at the start.
LEMMA SharedInit == Init => Shared
  BY CoalescedInit, RecentInit, AuthenticInit DEF Shared

\* Every step keeps Shared.
LEMMA SharedStep ==
    ASSUME Shared, BaseStep
    PROVE  Shared'
  <1>1. Genuine
    BY DEF Shared, Recent
  <1> QED BY <1>1, CoalescedStep, RecentStep, AuthenticStep DEF Shared

\* So does a stuttering step.
LEMMA SharedStutter ==
    ASSUME Shared, UNCHANGED vars
    PROVE  Shared'
  BY CoalescedStutter, RecentStutter, AuthenticStutter DEF Shared

\* The two steps of ServeHTTP that the handlers share are local ones.
LEMMA RespondLocal ==
    ASSUME TypeOK, NEW r \in Reqs, NEW s \in Nat, Respond(r, s),
           pc[r] \in {"arrived", "refreshed", "unrefreshed", "parsed", "handle", "add"},
           Kept(dedup'), processed' \in [Events -> Nat],
           UNCHANGED <<now, cache, bank, msg, got, since, excused, call, failed, failures, restarts,
                       strays>>
    PROVE  LocalStep(r)
  <1>1. <<pc[r], "reply">> \in Course /\ "reply" \in PCs
    BY DEF Course, PCs
  <1>2. 0 \in 0..bankKey
    BY DEF TypeOK
  <1> QED BY <1>1, <1>2 DEF Respond, LocalStep

\* The callback is a LocalStep.
LEMMA OnEventLocal ==
    ASSUME TypeOK, NEW r \in Reqs, OnEvent(r)
    PROVE  LocalStep(r)
  <1>1. Kept(dedup') /\ pc[r] = "handle"
    BY DEF OnEvent, TypeOK
  <1>2. CASE Respond(r, 500) /\ UNCHANGED processed
    BY <1>1, <1>2, RespondLocal DEF OnEvent, TypeOK
  <1>3. CASE /\ pc' = [pc EXCEPT ![r] = "add"]
             /\ processed' = [processed EXCEPT ![msg[r].event] = @ + 1]
             /\ UNCHANGED <<status, snap>>
    <2>1. <<pc[r], "add">> \in Course /\ "add" \in PCs
      BY <1>1 DEF Course, PCs
    <2>2. processed' \in [Events -> Nat]
      <3> DEFINE e == msg[r].event
      <3>1. processed \in [Events -> Nat] /\ processed' = [processed EXCEPT ![e] = processed[e] + 1]
        BY <1>3 DEF TypeOK
      <3> HIDE DEF e
      <3>2. \A x \in Events : processed'[x] \in Nat
        BY <3>1
      <3> QED BY <3>1, <3>2
    <2>3. snap[r] \in 0..bankKey /\ snap' = [snap EXCEPT ![r] = snap[r]]
          /\ status[r] \in Nat /\ status' = [status EXCEPT ![r] = status[r]]
      BY <1>3 DEF TypeOK
    <2>4. UNCHANGED <<now, cache, bank, msg, got, since, excused, call, failed, failures, restarts,
                      strays>>
      BY DEF OnEvent
    <2> QED BY <1>1, <1>3, <2>1, <2>2, <2>3, <2>4 DEF LocalStep
  <1> QED BY <1>2, <1>3 DEF OnEvent

\* So is recording the id.
LEMMA RecordLocal ==
    ASSUME TypeOK, NEW r \in Reqs, NEW id, Record(r, id)
    PROVE  LocalStep(r)
  <1>1. Kept(dedup')
    BY AddKeeps DEF Record, TypeOK
  <1> QED BY <1>1, RespondLocal DEF Record, TypeOK, history

\* Passing from one place to the next without an answer.
LEMMA PassLocal ==
    ASSUME TypeOK, NEW r \in Reqs, NEW p \in PCs, <<pc[r], p>> \in Course,
           pc' = [pc EXCEPT ![r] = p], UNCHANGED status,
           NEW k \in 0..bankKey, snap' = [snap EXCEPT ![r] = k],
           p = "outer" => k >= 1, p = "parsed" => msg[r].key >= 1,
           Kept(dedup'), processed' \in [Events -> Nat],
           UNCHANGED <<now, cache, bank, msg, got, since, excused, call, failed, failures, restarts,
                       strays>>
    PROVE  LocalStep(r)
  <1>1. status[r] \in Nat /\ status' = [status EXCEPT ![r] = status[r]] /\ snap'[r] = k
    BY DEF TypeOK
  <1> QED BY <1>1 DEF LocalStep

\* So is looking the id up.
LEMMA LookUpLocal ==
    ASSUME TypeOK, NEW r \in Reqs, NEW id, LookUp(r, id), pc[r] = "parsed",
           UNCHANGED <<now, cache, bank, msg, got, since, history>>
    PROVE  LocalStep(r)
  <1>1. Kept(dedup') /\ processed' \in [Events -> Nat]
    BY TouchKeeps DEF LookUp, TypeOK, history
  <1>2. UNCHANGED <<now, cache, bank, msg, got, since, excused, call, failed, failures, restarts, strays>>
    BY DEF history
  <1>3. CASE Respond(r, 200)
    BY <1>1, <1>2, <1>3, RespondLocal
  <1>4. CASE pc' = [pc EXCEPT ![r] = "handle"] /\ UNCHANGED <<status, snap>>
    <2>1. <<pc[r], "handle">> \in Course /\ "handle" \in PCs
      BY DEF Course, PCs
    <2>2. snap[r] \in 0..bankKey /\ snap' = [snap EXCEPT ![r] = snap[r]]
      BY <1>4 DEF TypeOK
    <2> QED BY <1>1, <1>2, <1>4, <2>1, <2>2, PassLocal
  <1> QED BY <1>3, <1>4 DEF LookUp

-----------------------------------------------------------------------------
(* What the other steps leave alone. *)

\* The steps of the environment and of the refresh.
EnvStep ==
    \/ \E r \in Reqs : \/ RefreshCoalesced(r) \/ ReplyEnds(r)
                       \/ \E e \in Events : Deliver(r, e)
                       \/ \E f \in Forms : Stray(r, f)
    \/ Rotate \/ Restart \/ Tick

\* They bring no request past its signature and answer none; an answer that is
\* waiting stays as it is, and one to a current delivery sees no rotation.
LEMMA EnvFrame ==
    ASSUME Shared, EnvStep, NEW q \in Reqs, pc'[q] \in {"parsed", "handle", "add", "reply"}
    PROVE  /\ pc'[q] = pc[q] /\ msg'[q] = msg[q] /\ status'[q] = status[q]
           /\ msg[q].key = bankKey' => UNCHANGED <<bankKey, rotatedAt>>
           /\ q \in failed => q \in failed'
           /\ now' >= now
  <1>1. TypeOK /\ Genuine /\ \A p \in Reqs : pc[p] # "idle" => msg[p].key \in Nat
    BY MessageTimes DEF Shared, Coalesced, Recent
  <1>2. ASSUME NEW r \in Reqs, RefreshCoalesced(r)
        PROVE  /\ pc'[q] = pc[q] /\ msg' = msg /\ status' = status
               /\ UNCHANGED <<bankKey, rotatedAt, now>> /\ failed \subseteq failed'
    <2>1. UNCHANGED <<msg, status, bankKey, rotatedAt, now>> /\ failed \subseteq failed'
      BY <1>1, <1>2 DEF RefreshCoalesced, RefreshOuter, RefreshJoin, RefreshInner,
               FetchAnswered, FetchFails, StoreKey, StampRefresh, bank, history, TypeOK
    <2>2. pc'[q] = pc[q]
      BY <1>1, <1>2 DEF RefreshCoalesced, RefreshOuter, RefreshJoin, RefreshInner,
               FetchAnswered, FetchFails, StoreKey, StampRefresh, Finish, TypeOK
    <2> QED BY <2>1, <2>2
  <1>3. ASSUME NEW r \in Reqs,
               ReplyEnds(r) \/ (\E e \in Events : Deliver(r, e)) \/ (\E f \in Forms : Stray(r, f))
        PROVE  /\ pc'[q] = pc[q] /\ msg'[q] = msg[q] /\ status'[q] = status[q]
               /\ UNCHANGED <<bankKey, rotatedAt, now>> /\ (q \in failed => q \in failed')
    BY <1>1, <1>3 DEF ReplyEnds, Deliver, Stray, TypeOK, bank, history
  <1>4. ASSUME Rotate
        PROVE  /\ UNCHANGED <<pc, msg, status, now, failed>>
               /\ msg[q].key # bankKey'
    BY <1>1, <1>4 DEF Rotate, history, Genuine, TypeOK
  <1>5. ASSUME Restart PROVE FALSE
    BY <1>5 DEF Restart
  <1>6. ASSUME Tick
        PROVE  UNCHANGED <<pc, msg, status, bankKey, rotatedAt, failed>> /\ now' >= now
    BY <1>1, <1>6 DEF Tick, history, bank, TypeOK
  <1>7. now \in Nat
    BY <1>1 DEF TypeOK
  <1> QED BY <1>2, <1>3, <1>4, <1>5, <1>6, <1>7 DEF EnvStep

\* They run no callback and record nothing; only a restart may empty the Deduper.
LEMMA EnvDedup ==
    ASSUME EnvStep
    PROVE  /\ processed' = processed
           /\ \/ dedup' = dedup /\ restarts' = restarts
              \/ /\ Restart /\ restarts' = restarts + 1
                 /\ dedup' = IF Durable THEN dedup ELSE <<>>
  <1>1. ASSUME NEW r \in Reqs, RefreshCoalesced(r) PROVE UNCHANGED <<processed, dedup, restarts>>
    BY <1>1 DEF RefreshCoalesced, RefreshOuter, RefreshJoin, RefreshInner,
                FetchAnswered, FetchFails, StoreKey, StampRefresh, history
  <1>2. ASSUME NEW r \in Reqs,
               ReplyEnds(r) \/ (\E e \in Events : Deliver(r, e)) \/ (\E f \in Forms : Stray(r, f))
        PROVE  UNCHANGED <<processed, dedup, restarts>>
    BY <1>2 DEF ReplyEnds, Deliver, Stray, history
  <1>3. ASSUME Rotate \/ Tick PROVE UNCHANGED <<processed, dedup, restarts>>
    BY <1>3 DEF Rotate, Tick, history
  <1>4. ASSUME Restart
        PROVE  processed' = processed /\ restarts' = restarts + 1
               /\ dedup' = IF Durable THEN dedup ELSE <<>>
    BY <1>4 DEF Restart
  <1> QED BY <1>1, <1>2, <1>3, <1>4 DEF EnvStep

\* The bank counts an event as acknowledged when a 200 reaches it.
LEMMA EnvAcked ==
    ASSUME EnvStep, NEW e, e \in acked', e \notin acked
    PROVE  \E r \in Reqs : pc[r] = "reply" /\ status[r] = 200 /\ msg[r].event = e /\ e # None
  <1>1. ASSUME NEW r \in Reqs, RefreshCoalesced(r) PROVE acked' = acked
    BY <1>1 DEF RefreshCoalesced, RefreshOuter, RefreshJoin, RefreshInner,
                FetchAnswered, FetchFails, StoreKey, StampRefresh, bank
  <1>2. ASSUME NEW r \in Reqs, (\E d \in Events : Deliver(r, d)) \/ (\E f \in Forms : Stray(r, f))
        PROVE  acked' = acked
    BY <1>2 DEF Deliver, Stray, bank
  <1>3. ASSUME Rotate \/ Restart \/ Tick PROVE acked' = acked
    BY <1>3 DEF Rotate, Restart, Tick, bank
  <1>4. PICK r \in Reqs : ReplyEnds(r)
    BY <1>1, <1>2, <1>3 DEF EnvStep
  <1> QED BY <1>4 DEF ReplyEnds

-----------------------------------------------------------------------------
(* The handler's steps are local steps. *)

\* The verdict on a signature checked with a real key.
LEMMA VerdictLocal ==
    ASSUME TypeOK, NEW r \in Reqs, NEW k \in Nat, k >= 1, Verdict(r, k),
           pc[r] \in {"arrived", "refreshed", "unrefreshed"},
           UNCHANGED <<now, cache, bank, msg, got, since, dedup, history>>
    PROVE  LocalStep(r)
  <1>1. Kept(dedup') /\ processed' \in [Events -> Nat]
    BY DEF TypeOK, history
  <1>2. UNCHANGED <<now, cache, bank, msg, got, since, excused, call, failed, failures, restarts, strays>>
    BY DEF history
  <1>3. CASE msg[r].key = k
    <2>1. <<pc[r], "parsed">> \in Course /\ "parsed" \in PCs /\ 0 \in 0..bankKey
      BY DEF Course, PCs, TypeOK
    <2> QED BY <1>1, <1>2, <1>3, <2>1, PassLocal DEF Verdict
  <1>4. CASE msg[r].key # k
    BY <1>1, <1>2, <1>4, RespondLocal DEF Verdict
  <1> QED BY <1>3, <1>4

\* The head of ServeHTTP.
LEMMA StartLocal ==
    ASSUME TypeOK, NEW r \in Reqs, Start(r)
    PROVE  LocalStep(r)
  <1>1. Kept(dedup') /\ processed' \in [Events -> Nat] /\ pc[r] = "arrived"
        /\ UNCHANGED <<now, cache, bank, msg, got, since, dedup, history>>
    BY DEF TypeOK, history, Start
  <1>2. UNCHANGED <<excused, call, failed, failures, restarts, strays>> /\ key \in Nat /\ key >= 1
    BY <1>1 DEF history, TypeOK
  <1>3. ASSUME msg[r].form \in DOMAIN EarlyStatus, Respond(r, EarlyStatus[msg[r].form])
        PROVE  LocalStep(r)
    <2>1. EarlyStatus[msg[r].form] \in Nat
      BY <1>3 DEF EarlyStatus
    <2> QED BY <1>1, <1>2, <1>3, <2>1, RespondLocal
  <1>4. ASSUME Verdict(r, key) PROVE LocalStep(r)
    BY <1>1, <1>2, <1>4, VerdictLocal
  <1>5. ASSUME pc' = [pc EXCEPT ![r] = "outer"], snap' = [snap EXCEPT ![r] = key],
               UNCHANGED status
        PROVE  LocalStep(r)
    <2>1. <<pc[r], "outer">> \in Course /\ "outer" \in PCs /\ key \in 0..bankKey
      BY <1>1 DEF Course, PCs, TypeOK
    <2> QED BY <1>1, <1>2, <1>5, <2>1, PassLocal
  <1> QED BY <1>3, <1>4, <1>5 DEF Start

\* The return from the refresh is a LocalStep.
LEMMA RefreshedLocal ==
    ASSUME TypeOK, Authentic, NEW r \in Reqs, Refreshed(r)
    PROVE  LocalStep(r)
  <1>1. key \in Nat /\ key >= 1 /\ snap[r] \in Nat
    BY DEF TypeOK
  <1>2. pc[r] = "unrefreshed" => snap[r] >= 1
    BY DEF Authentic
  <1> QED BY <1>1, <1>2, VerdictLocal DEF Refreshed

\* So is the step after parsing.
LEMMA ParsedLocal ==
    ASSUME TypeOK, NEW r \in Reqs, Parsed(r)
    PROVE  LocalStep(r)
  <1>1. pc[r] = "parsed" /\ UNCHANGED <<now, cache, bank, msg, got, since, history>>
    BY DEF Parsed
  <1>2. ASSUME NEW s \in Nat, Respond(r, s), UNCHANGED dedup PROVE LocalStep(r)
    BY <1>1, <1>2, RespondLocal DEF TypeOK, history
  <1>3. ASSUME LookUp(r, IdOf(msg[r].event)) PROVE LocalStep(r)
    BY <1>1, <1>3, LookUpLocal
  <1> QED BY <1>2, <1>3 DEF Parsed

\* Every step of ServeHTTP is a local step.
LEMMA ServeHTTPBase ==
    ASSUME Shared, NEW r \in Reqs, ServeHTTP(r)
    PROVE  LocalStep(r) \/ RefreshCoalesced(r)
  <1>1. TypeOK /\ Authentic
    BY DEF Shared, Coalesced
  <1> QED BY <1>1, StartLocal, RefreshedLocal, ParsedLocal, OnEventLocal, RecordLocal
          DEF ServeHTTP

\* Every step is.
LEMMA NextBase ==
    ASSUME Shared, Next
    PROVE  BaseStep
  BY ServeHTTPBase DEF Next, BaseStep

\* Everything said of the shared state holds: who leads the
\* refresh, how old the key is, what passed the signature.
THEOREM SharedHolds == Spec => []Shared
  <1>1. Init => Shared
    BY SharedInit
  <1>2. Shared /\ [Next]_vars => Shared'
    BY NextBase, SharedStep, SharedStutter
  <1> QED BY <1>1, <1>2, PTL DEF Spec

\* The handler's state keeps its type: the cached key is one the bank has had,
\* and the Deduper never grows past its capacity nor holds the empty id.
THEOREM WebhookTypeCorrect == Spec => []TypeOK
  <1>1. Shared => TypeOK
    BY DEF Shared, Coalesced
  <1> QED BY <1>1, SharedHolds, PTL

\* refreshCoalesced: however the answers of the key endpoint are delayed, the
\* cached key is never replaced by an older one.
THEOREM KeyNeverGoesBackHolds == Spec => KeyNeverGoesBack
  <1>1. Shared /\ [Next]_vars => [key' >= key]_vars
    <2> SUFFICES ASSUME Shared, Next PROVE key' >= key
      OBVIOUS
    <2> QED BY NextBase, KeyForward DEF Shared
  <1> QED BY <1>1, SharedHolds, PTL DEF Spec, KeyNeverGoesBack

\* refreshCoalesced: after a refresh that succeeded the endpoint is not called
\* for minRefreshInterval, however many requests had passed the outer check.
THEOREM PausedAfterSuccessHolds == Spec => PausedAfterSuccess
  <1>1. Shared /\ [Next]_vars => [FetchStarts /\ call.ok => now >= call.at + MinRefresh]_vars
    <2> SUFFICES ASSUME Shared, Next, FetchStarts, call.ok
                 PROVE  now >= call.at + MinRefresh
      OBVIOUS
    <2> QED BY NextBase, PausedStep DEF Shared
  <1> QED BY <1>1, SharedHolds, PTL DEF Spec, PausedAfterSuccess

-----------------------------------------------------------------------------
(* The outage after a rotation. *)

\* A step is one of a goroutine in ServeHTTP outside the refresh, or of the rest.
LEMMA NextSplit ==
    ASSUME Next
    PROVE  \/ EnvStep
           \/ \E r \in Reqs : \/ Start(r) \/ Refreshed(r) \/ Parsed(r) \/ OnEvent(r)
                              \/ Record(r, IdOf(msg[r].event))
  BY DEF Next, ServeHTTP, EnvStep

\* No genuine delivery is answered with 401 by any other step than Refreshed.
LEMMA RefusedOnlyThere ==
    ASSUME Shared, NEW r \in Reqs, pc'[r] = "reply", status'[r] = 401, msg[r].key = bankKey,
           Start(r) \/ Parsed(r) \/ OnEvent(r) \/ Record(r, IdOf(msg[r].event))
    PROVE  FALSE
  <1>1. TypeOK /\ bankKey >= 1 /\ bankKey \in Nat
    BY DEF Shared, Coalesced, TypeOK
  <1>2. CASE Start(r)
    <2>1. msg[r].form = "post"
      BY <1>1, <1>2 DEF Start, Shared, Recent, Genuine
    <2>2. pc'[r] # "reply"
      BY <1>1, <1>2, <2>1 DEF Start, Verdict, EarlyStatus, TypeOK
    <2> QED BY <2>2
  <1>3. CASE Parsed(r) \/ OnEvent(r) \/ Record(r, IdOf(msg[r].event))
    <2>1. pc[r] # "reply" /\ status \in [Reqs -> Nat] /\ pc \in [Reqs -> PCs]
      BY <1>1, <1>3 DEF Parsed, OnEvent, Record, TypeOK
    <2>2. ASSUME NEW s \in {200, 400, 500}, Respond(r, s) PROVE FALSE
      BY <2>1, <2>2 DEF Respond
    <2> QED BY <1>3, <2>1, <2>2 DEF Parsed, OnEvent, Record, LookUp
  <1> QED BY <1>2, <1>3

\* Once a rotation is older than the throttle of minRefreshInterval plus one
\* fetch, a genuine delivery is turned away only if the fetch it led or waited for
\* itself ended with an error, whatever failed before or elsewhere.
THEOREM OutageBoundedHolds == Spec => []OutageBounded
  <1>1. Init => OutageBounded
    BY DEF Init, OutageBounded
  <1>2. Shared /\ OutageBounded /\ [Next]_vars => OutageBounded'
    <2> SUFFICES ASSUME Shared, OutageBounded, [Next]_vars, NEW q \in Reqs,
                        pc'[q] = "reply", status'[q] = 401, msg'[q].key = bankKey', q \notin failed'
                 PROVE  msg'[q].at < rotatedAt' + MinRefresh + MaxFetch
      BY DEF OutageBounded
    <2>1. CASE EnvStep
      <3>1. /\ pc[q] = "reply" /\ msg'[q] = msg[q] /\ status[q] = 401 /\ q \notin failed
            /\ bankKey' = bankKey /\ rotatedAt' = rotatedAt
        BY <2>1, EnvFrame
      <3> QED BY <3>1 DEF OutageBounded
    <2>2. ASSUME NEW r \in Reqs,
                 \/ Start(r) \/ Refreshed(r) \/ Parsed(r) \/ OnEvent(r)
                 \/ Record(r, IdOf(msg[r].event))
          PROVE  msg'[q].at < rotatedAt' + MinRefresh + MaxFetch
      <3>1. TypeOK /\ Authentic
        BY DEF Shared, Coalesced
      <3>2. LocalStep(r)
        BY <2>2, <3>1, StartLocal, RefreshedLocal, ParsedLocal, OnEventLocal, RecordLocal
      <3>3. UNCHANGED <<msg, bankKey, rotatedAt, failed>>
        BY <3>1, <3>2, LocalCourse
      <3>4. CASE q # r
        <4>1. pc'[q] = pc[q] /\ status'[q] = status[q]
          BY <3>1, <3>2, <3>4, LocalCourse
        <4> QED BY <3>3, <4>1 DEF OutageBounded
      <3>5. CASE q = r
        <4>1. Refreshed(q)
          BY <2>2, <3>3, <3>5, RefusedOnlyThere
        <4>2. pc[q] = "refreshed" /\ Verdict(q, key)
          BY <3>3, <4>1 DEF Refreshed, Shared, Recent, Unfailed
        <4>3. key # bankKey
          BY <3>1, <3>3, <4>2 DEF Verdict, TypeOK
        <4>4. key < bankKey
          BY <3>1, <4>3 DEF TypeOK
        <4> QED BY <3>3, <4>2, <4>4 DEF Shared, Recent, Waited
      <3> QED BY <3>4, <3>5
    <2>3. CASE UNCHANGED vars
      BY <2>3 DEF vars, bank, history, OutageBounded
    <2> QED BY <2>1, <2>2, <2>3, NextSplit
  <1> QED BY <1>1, <1>2, SharedHolds, PTL DEF Spec

-----------------------------------------------------------------------------
(* What an acknowledgement says. *)

\* The events the Deduper can know.
Recordable == Events \ (Anonymous \cup Malformed \cup Unknown)

\* What is recorded was processed, and is recorded once.
Recorded ==
    /\ \A id \in Ids(dedup) : id \in Recordable /\ processed[id] >= 1
    /\ Distinct(dedup)

\* A request about to be recorded or acknowledged is one whose event was
\* processed, by itself or by an earlier delivery, or is of an unknown type.
Answering ==
    \A r \in Reqs :
        /\ pc[r] \in {"handle", "add"} => msg[r].event \notin Malformed \cup Unknown
        /\ pc[r] = "add" => processed[msg[r].event] >= 1
        /\ (pc[r] = "reply" /\ status[r] = 200 /\ msg[r].event # None) =>
              msg[r].event \in Events /\ (msg[r].event \in Unknown \/ processed[msg[r].event] >= 1)

Acknowledged == Recorded /\ Answering /\ AckedWasProcessed

\* Acknowledged holds at the start.
LEMMA AcknowledgedInit == Init => Acknowledged
  BY DEF Init, Acknowledged, Recorded, Answering, AckedWasProcessed, Ids, Distinct

\* The environment and the refresh.
LEMMA AcknowledgedEnv ==
    ASSUME Shared, Acknowledged, EnvStep
    PROVE  Acknowledged'
  <1>1. processed' = processed /\ (dedup' = dedup \/ dedup' = <<>>)
    BY EnvDedup
  <1>2. Recorded'
    BY <1>1 DEF Acknowledged, Recorded, Ids, Distinct
  <1>3. Answering'
    <2> SUFFICES ASSUME NEW q \in Reqs, pc'[q] \in {"handle", "add", "reply"}
                 PROVE  pc'[q] = pc[q] /\ msg'[q] = msg[q] /\ status'[q] = status[q]
      BY <1>1 DEF Acknowledged, Answering
    <2> QED BY EnvFrame
  <1>4. AckedWasProcessed'
    <2> SUFFICES ASSUME NEW e \in acked', e \notin Unknown PROVE processed[e] >= 1
      BY <1>1 DEF AckedWasProcessed
    <2>1. CASE e \in acked
      BY <2>1 DEF Acknowledged, AckedWasProcessed
    <2>2. CASE e \notin acked
      BY <2>2, EnvAcked DEF Acknowledged, Answering
    <2> QED BY <2>1, <2>2
  <1> QED BY <1>2, <1>3, <1>4 DEF Acknowledged

\* A local step that runs no callback and records nothing new.
LEMMA AcknowledgedLocal ==
    ASSUME Shared, Acknowledged, NEW r \in Reqs, LocalStep(r), processed' = processed,
           Recorded',
           pc'[r] = "handle" => msg[r].event \notin Malformed \cup Unknown,
           pc'[r] # "add",
           (pc'[r] = "reply" /\ status'[r] = 200 /\ msg[r].event # None) =>
              msg[r].event \in Events /\ (msg[r].event \in Unknown \/ processed[msg[r].event] >= 1)
    PROVE  Acknowledged'
  <1>1. /\ UNCHANGED <<msg, acked>>
        /\ \A q \in Reqs \ {r} : pc'[q] = pc[q] /\ status'[q] = status[q]
    BY LocalCourse DEF Shared, Coalesced
  <1>2. Answering'
    BY <1>1 DEF Acknowledged, Answering
  <1>3. AckedWasProcessed'
    BY <1>1 DEF Acknowledged, AckedWasProcessed
  <1> QED BY <1>2, <1>3 DEF Acknowledged

\* What each step of ServeHTTP answers.
LEMMA Responds ==
    ASSUME TypeOK, NEW r \in Reqs, NEW s, Respond(r, s)
    PROVE  pc'[r] = "reply" /\ status'[r] = s
  BY DEF Respond, TypeOK

\* The local steps keep Acknowledged.
LEMMA AcknowledgedServe ==
    ASSUME Shared, Acknowledged, NEW r \in Reqs,
           \/ Start(r) \/ Refreshed(r) \/ Parsed(r) \/ OnEvent(r)
           \/ Record(r, IdOf(msg[r].event))
    PROVE  Acknowledged'
  <1>1. TypeOK /\ Authentic /\ Genuine /\ Recorded /\ Answering
    BY DEF Shared, Coalesced, Recent, Acknowledged
  <1>2. LocalStep(r)
    BY <1>1, StartLocal, RefreshedLocal, ParsedLocal, OnEventLocal, RecordLocal
  <1> DEFINE e == msg[r].event
  <1>3. CASE Start(r)
    <2>1. UNCHANGED <<dedup, processed>>
      BY <1>3 DEF Start, history
    <2>2. pc'[r] \in {"outer", "parsed", "reply"}
      BY <1>1, <1>3, Responds DEF Start, Verdict, TypeOK
    <2>3. e # None => pc'[r] # "reply" \/ status'[r] = 401
      BY <1>1, <1>3, Responds DEF Start, Verdict, EarlyStatus, Genuine, TypeOK
    <2>4. Recorded'
      BY <1>1, <2>1 DEF Recorded
    <2> QED BY <1>2, <2>1, <2>2, <2>3, <2>4, AcknowledgedLocal
  <1>4. CASE Refreshed(r)
    <2>1. UNCHANGED <<dedup, processed>>
      BY <1>4 DEF Refreshed, history
    <2>2. pc'[r] = "parsed" \/ (pc'[r] = "reply" /\ status'[r] = 401)
      BY <1>1, <1>4, Responds DEF Refreshed, Verdict, TypeOK
    <2>3. Recorded'
      BY <1>1, <2>1 DEF Recorded
    <2> QED BY <1>2, <2>1, <2>2, <2>3, AcknowledgedLocal
  <1>5. CASE Parsed(r)
    <2>1. processed' = processed /\ pc[r] = "parsed" /\ e \in Events
      BY <1>1, <1>5 DEF Parsed, history, Authentic
    <2>2. CASE e \in Unknown /\ Respond(r, 200) /\ UNCHANGED dedup
      <3>1. Recorded' /\ pc'[r] = "reply"
        BY <1>1, <2>1, <2>2, Responds DEF Recorded
      <3> QED BY <1>2, <2>1, <2>2, <3>1, AcknowledgedLocal
    <2>3. CASE e \in Malformed \ Unknown /\ Respond(r, 400) /\ UNCHANGED dedup
      <3>1. Recorded' /\ pc'[r] = "reply" /\ status'[r] = 400
        BY <1>1, <2>1, <2>3, Responds DEF Recorded
      <3> QED BY <1>2, <2>1, <2>3, <3>1, AcknowledgedLocal
    <2>4. CASE e \notin Unknown \cup Malformed /\ LookUp(r, IdOf(e))
      <3>1. Recorded'
        <4>1. Kept(dedup) /\ dedup' = TouchedByHas(dedup, IdOf(e))
          BY <1>1, <2>4 DEF TypeOK, LookUp
        <4>2. Ids(dedup') = Ids(dedup) /\ (Distinct(dedup) => Distinct(dedup'))
          BY <4>1, TouchKeeps
        <4> QED BY <1>1, <2>1, <4>2 DEF Recorded
      <3>2. CASE Has(dedup, IdOf(e))
        <4>1. IdOf(e) = e /\ processed[e] >= 1
          BY <1>1, <2>1, <3>2 DEF Has, Recorded, IdOf
        <4>2. pc'[r] = "reply"
          BY <1>1, <2>4, <3>2, Responds DEF LookUp
        <4> QED BY <1>2, <2>1, <3>1, <4>1, <4>2, AcknowledgedLocal
      <3>3. CASE ~Has(dedup, IdOf(e))
        <4>1. pc'[r] = "handle"
          BY <1>1, <2>4, <3>3 DEF LookUp, TypeOK
        <4> QED BY <1>2, <2>1, <2>4, <3>1, <4>1, AcknowledgedLocal
      <3> QED BY <3>2, <3>3
    <2> QED BY <1>5, <2>2, <2>3, <2>4 DEF Parsed
  <1>6. CASE OnEvent(r)
    <2>1. dedup' = dedup /\ pc[r] = "handle" /\ e \in Events /\ e \notin Malformed \cup Unknown
      BY <1>1, <1>6 DEF OnEvent, Authentic, Answering
    <2>2. CASE Respond(r, 500) /\ UNCHANGED processed
      <3>1. Recorded' /\ pc'[r] = "reply" /\ status'[r] = 500
        BY <1>1, <2>1, <2>2, Responds DEF Recorded
      <3> QED BY <1>2, <2>2, <3>1, AcknowledgedLocal
    <2>3. CASE pc' = [pc EXCEPT ![r] = "add"] /\ processed' = [processed EXCEPT ![e] = @ + 1]
      <3>1. processed'[e] >= 1 /\ \A f \in Events : processed[f] >= 1 => processed'[f] >= 1
        BY <1>1, <2>1, <2>3 DEF TypeOK
      <3>2. UNCHANGED <<msg, acked>> /\ pc'[r] = "add"
            /\ \A q \in Reqs \ {r} : pc'[q] = pc[q] /\ status'[q] = status[q]
        BY <1>1, <1>2, <2>3, LocalCourse DEF TypeOK
      <3>3. Recorded'
        BY <1>1, <2>1, <3>1 DEF Recorded, Recordable
      <3>4. Answering'
        <4> SUFFICES ASSUME NEW q \in Reqs, q # r
                     PROVE  /\ pc[q] = "add" => processed'[msg[q].event] >= 1
                            /\ (pc[q] = "reply" /\ status[q] = 200 /\ msg[q].event # None) =>
                                  \/ msg[q].event \in Unknown
                                  \/ processed'[msg[q].event] >= 1
          BY <1>1, <2>1, <3>1, <3>2 DEF Answering
        <4> QED BY <1>1, <3>1 DEF Answering, Authentic
      <3>5. AckedWasProcessed'
        BY <1>1, <3>1, <3>2 DEF Acknowledged, AckedWasProcessed, TypeOK
      <3> QED BY <3>3, <3>4, <3>5 DEF Acknowledged
    <2> QED BY <1>6, <2>2, <2>3 DEF OnEvent
  <1>7. CASE Record(r, IdOf(e))
    <2>1. /\ processed' = processed /\ pc[r] = "add" /\ e \in Events
          /\ e \notin Malformed \cup Unknown /\ processed[e] >= 1
      BY <1>1, <1>7 DEF Record, history, Authentic, Answering
    <2>2. pc'[r] = "reply"
      BY <1>1, <1>7, Responds DEF Record
    <2>3. Recorded'
      <3>1. Kept(dedup) /\ dedup' = Add(dedup, IdOf(e))
        BY <1>1, <1>7 DEF Record, TypeOK
      <3>2. /\ Ids(dedup') \subseteq Ids(dedup) \cup ({IdOf(e)} \ {NoId})
            /\ Distinct(dedup) => Distinct(dedup')
        BY <3>1, AddKeeps
      <3>3. IdOf(e) # NoId => IdOf(e) \in Recordable /\ processed[IdOf(e)] >= 1
        BY <2>1 DEF IdOf, Recordable
      <3> QED BY <1>1, <2>1, <3>2, <3>3 DEF Recorded
    <2> QED BY <1>2, <2>1, <2>2, <2>3, AcknowledgedLocal
  <1> QED BY <1>3, <1>4, <1>5, <1>6, <1>7

\* The invariant behind AckedWasProcessed: Deduper, goroutines and bank agree on
\* what was processed.
THEOREM AcknowledgedHolds == Spec => []Acknowledged
  <1>1. Shared /\ Acknowledged /\ [Next]_vars => Acknowledged'
    <2>1. ASSUME Acknowledged, UNCHANGED vars PROVE Acknowledged'
      BY <2>1 DEF vars, bank, history, Acknowledged, Recorded, Answering, AckedWasProcessed
    <2> QED BY <2>1, NextSplit, AcknowledgedEnv, AcknowledgedServe
  <1> QED BY <1>1, AcknowledgedInit, SharedHolds, PTL DEF Spec

\* The reason for Add after OnEvent: the bank never reads a 200 for an event that
\* OnEvent has not processed, whatever fails, overlaps, repeats or restarts.
THEOREM AckedWasProcessedHolds == Spec => []AckedWasProcessed
  <1>1. Acknowledged => AckedWasProcessed
    BY DEF Acknowledged
  <1> QED BY <1>1, AcknowledgedHolds, PTL

-----------------------------------------------------------------------------
(* Once per event. *)

\* An event that is not excused is in the hands of one goroutine at most.
Sole ==
    \A r, q \in Reqs :
        (/\ pc[r] # "idle" /\ pc[q] # "idle"
         /\ msg[r].event = msg[q].event /\ msg[r].event \in Events \ excused) => r = q

\* The Deduper has room for every event, and has not lost its memory.
Remembers == Cardinality(Recordable) <= capacity /\ (Durable \/ restarts = 0)

\* What was processed is recorded, or about to be; what is about to be processed
\* was not.
Once ==
    Remembers => \A e \in Events \ (excused \cup Anonymous) :
        /\ processed[e] <= 1
        /\ processed[e] = 1 =>
              e \in Ids(dedup) \/ \E r \in Reqs : pc[r] = "add" /\ msg[r].event = e
        /\ \A r \in Reqs : (pc[r] = "handle" /\ msg[r].event = e) => processed[e] = 0

\* With room for every event the set is never full when a new one comes.
LEMMA RoomLeft ==
    ASSUME TypeOK, Recorded, Cardinality(Recordable) <= capacity,
           NEW id \in Recordable, id \notin Ids(dedup)
    PROVE  Len(dedup) # capacity
  <1> DEFINE n == Len(dedup)
             S == Ids(dedup)
  <1>1. dedup \in [1..n -> S] /\ n \in Nat /\ DOMAIN dedup = 1..n
    BY DEF TypeOK, Kept
  <1>2. dedup \in Bijection(1..n, S)
    BY <1>1 DEF Recorded, Distinct, Ids, Bijection, Injection, Surjection, IsInjective
  <1> HIDE DEF n
  <1>3. IsFiniteSet(1..n) /\ Cardinality(1..n) = n
    <2>1. 1 \in Int /\ n \in Int
      BY <1>1
    <2>2. IsFiniteSet(1..n) /\ Cardinality(1..n) = IF 1 > n THEN 0 ELSE n - 1 + 1
      BY <2>1, FS_Interval
    <2> QED BY <1>1, <2>2
  <1>4. IsFiniteSet(S) /\ Cardinality(S) = n
    BY <1>2, <1>3, FS_Bijection DEF ExistsBijection
  <1>5. IsFiniteSet(Recordable)
    BY HandlerAssumption, FS_Subset DEF Recordable
  <1>6. S \subseteq Recordable \ {id}
    BY DEF Recorded
  <1>7. IsFiniteSet(Recordable \ {id}) /\ Cardinality(Recordable \ {id}) = Cardinality(Recordable) - 1
    BY <1>5, FS_RemoveElement
  <1>8. Cardinality(S) <= Cardinality(Recordable \ {id})
    BY <1>6, <1>7, FS_Subset
  <1>9. Cardinality(Recordable) \in Nat /\ capacity \in Nat
    BY <1>5, FS_CardinalityType, LRUAssumption
  <1>10. n # capacity
    BY <1>1, <1>4, <1>7, <1>8, <1>9
  <1> QED BY <1>10 DEF n

\* The environment: a redelivery that overlaps, and a crash before Add, excuse
\* their events.
LEMMA SoleEnv ==
    ASSUME Shared, Sole, EnvStep
    PROVE  Sole'
  <1>1. TypeOK
    BY DEF Shared, Coalesced
  <1>2. ASSUME NEW r \in Reqs, RefreshCoalesced(r) PROVE Sole'
    <2>1. UNCHANGED <<msg, excused>>
      BY <1>2 DEF RefreshCoalesced, RefreshOuter, RefreshJoin, RefreshInner,
                  FetchAnswered, FetchFails, StoreKey, StampRefresh, history
    <2>2. \A q \in Reqs : pc'[q] # "idle" => pc[q] # "idle"
      BY <1>1, <1>2 DEF RefreshCoalesced, RefreshOuter, RefreshJoin, RefreshInner,
                  FetchAnswered, FetchFails, StoreKey, StampRefresh, Finish, TypeOK
    <2> QED BY <2>1, <2>2 DEF Sole
  <1>3. ASSUME NEW r \in Reqs, ReplyEnds(r) PROVE Sole'
    BY <1>1, <1>3 DEF ReplyEnds, history, TypeOK, Sole
  <1>4. ASSUME NEW r \in Reqs, NEW e \in Events, Deliver(r, e) PROVE Sole'
    <2>1. /\ pc'[r] # "idle" /\ msg'[r].event = e
          /\ \A q \in Reqs \ {r} : pc'[q] = pc[q] /\ msg'[q] = msg[q]
          /\ excused' = IF Busy(e) THEN excused \cup {e} ELSE excused
      BY <1>1, <1>4 DEF Deliver, TypeOK
    <2>2. \A q \in Reqs \ {r} : pc'[q] # "idle" /\ msg'[q].event = e => e \in excused'
      BY <2>1 DEF Busy
    <2>3. excused \subseteq excused'
      BY <2>1
    <2> QED BY <2>1, <2>2, <2>3 DEF Sole
  <1>5. ASSUME NEW r \in Reqs, NEW f \in Forms, Stray(r, f) PROVE Sole'
    <2>1. /\ msg'[r].event = None /\ excused' = excused
          /\ \A q \in Reqs \ {r} : pc'[q] = pc[q] /\ msg'[q] = msg[q]
      BY <1>1, <1>5 DEF Stray, TypeOK
    <2> QED BY <2>1, WebhookAssumption DEF Sole
  <1>6. ASSUME Rotate \/ Tick PROVE Sole'
    BY <1>6 DEF Rotate, Tick, history, Sole
  <1>7. ASSUME Restart PROVE Sole'
    BY <1>7 DEF Restart, Sole
  <1> QED BY <1>2, <1>3, <1>4, <1>5, <1>6, <1>7 DEF EnvStep

\* The local steps keep Sole.
LEMMA SoleLocal ==
    ASSUME Shared, Sole, NEW r \in Reqs, LocalStep(r)
    PROVE  Sole'
  <1>1. /\ UNCHANGED <<msg, excused>> /\ pc[r] # "idle"
        /\ \A q \in Reqs \ {r} : pc'[q] = pc[q]
    BY LocalCourse DEF Shared, Coalesced
  <1> QED BY <1>1 DEF Sole

\* Excuses are never withdrawn, and a crash before Add is one.
LEMMA EnvExcused ==
    ASSUME EnvStep
    PROVE  /\ excused \subseteq excused'
           /\ Restart => \A q \in Reqs : pc[q] = "add" => msg[q].event \in excused'
  <1>1. ASSUME NEW r \in Reqs, RefreshCoalesced(r) PROVE excused' = excused
    BY <1>1 DEF RefreshCoalesced, RefreshOuter, RefreshJoin, RefreshInner,
                FetchAnswered, FetchFails, StoreKey, StampRefresh, history
  <1>2. ASSUME NEW r \in Reqs,
               ReplyEnds(r) \/ (\E e \in Events : Deliver(r, e)) \/ (\E f \in Forms : Stray(r, f))
        PROVE  excused \subseteq excused'
    BY <1>2 DEF ReplyEnds, Deliver, Stray, history
  <1>3. ASSUME Rotate \/ Tick PROVE excused' = excused
    BY <1>3 DEF Rotate, Tick, history
  <1>4. ASSUME Restart
        PROVE  excused \subseteq excused'
               /\ \A q \in Reqs : pc[q] = "add" => msg[q].event \in excused'
    BY <1>4 DEF Restart
  <1> QED BY <1>1, <1>2, <1>3, <1>4 DEF EnvStep

\* Other than by a restart, a goroutine about to record stays where it is.
LEMMA EnvAdd ==
    ASSUME Shared, EnvStep, ~Restart, NEW q \in Reqs, pc[q] = "add"
    PROVE  pc'[q] = "add" /\ msg'[q] = msg[q]
  <1>1. TypeOK
    BY DEF Shared, Coalesced
  <1>2. ASSUME NEW r \in Reqs, RefreshCoalesced(r) PROVE pc'[q] = "add" /\ msg' = msg
    BY <1>1, <1>2 DEF RefreshCoalesced, RefreshOuter, RefreshJoin, RefreshInner,
                FetchAnswered, FetchFails, StoreKey, StampRefresh, Finish, TypeOK
  <1>3. ASSUME NEW r \in Reqs,
               ReplyEnds(r) \/ (\E e \in Events : Deliver(r, e)) \/ (\E f \in Forms : Stray(r, f))
        PROVE  pc'[q] = "add" /\ msg'[q] = msg[q]
    BY <1>1, <1>3 DEF ReplyEnds, Deliver, Stray, TypeOK
  <1>4. ASSUME Rotate \/ Tick PROVE UNCHANGED <<pc, msg>>
    BY <1>4 DEF Rotate, Tick
  <1> QED BY <1>2, <1>3, <1>4 DEF EnvStep

\* The environment and the refresh keep Once.
LEMMA OnceEnv ==
    ASSUME Shared, Once, EnvStep
    PROVE  Once'
  <1>1. TypeOK
    BY DEF Shared, Coalesced
  <1> SUFFICES ASSUME Remembers', NEW e \in Events, e \notin excused', e \notin Anonymous
               PROVE  /\ processed'[e] <= 1
                      /\ processed'[e] = 1 =>
                            \/ e \in Ids(dedup')
                            \/ \E r \in Reqs : pc'[r] = "add" /\ msg'[r].event = e
                      /\ \A r \in Reqs : (pc'[r] = "handle" /\ msg'[r].event = e) =>
                                             processed'[e] = 0
    BY DEF Once
  <1>2. processed' = processed /\ e \notin excused
    BY EnvDedup, EnvExcused
  <1>3. Remembers /\ dedup' = dedup
    BY <1>1, EnvDedup DEF Remembers, TypeOK
  <1>4. /\ processed[e] <= 1
        /\ processed[e] = 1 =>
              e \in Ids(dedup) \/ \E r \in Reqs : pc[r] = "add" /\ msg[r].event = e
        /\ \A r \in Reqs : (pc[r] = "handle" /\ msg[r].event = e) => processed[e] = 0
    BY <1>2, <1>3 DEF Once
  <1>5. \A r \in Reqs : pc[r] = "add" /\ msg[r].event = e =>
                            pc'[r] = "add" /\ msg'[r].event = e
    BY EnvExcused, EnvAdd
  <1>6. \A r \in Reqs : pc'[r] = "handle" => pc[r] = "handle" /\ msg'[r] = msg[r]
    BY EnvFrame
  <1> QED BY <1>2, <1>3, <1>4, <1>5, <1>6

\* The steps of ServeHTTP.
LEMMA OnceServe ==
    ASSUME Shared, Acknowledged, Sole, Once, NEW r \in Reqs,
           \/ Start(r) \/ Refreshed(r) \/ Parsed(r) \/ OnEvent(r)
           \/ Record(r, IdOf(msg[r].event))
    PROVE  Once'
  <1>1. TypeOK /\ Authentic /\ Genuine /\ Recorded /\ Answering
    BY DEF Shared, Coalesced, Recent, Acknowledged
  <1>2. LocalStep(r)
    BY <1>1, StartLocal, RefreshedLocal, ParsedLocal, OnEventLocal, RecordLocal
  <1>3. /\ UNCHANGED <<msg, excused, restarts>> /\ pc[r] # "idle"
        /\ \A q \in Reqs \ {r} : pc'[q] = pc[q]
    BY <1>1, <1>2, LocalCourse
  <1> DEFINE d == msg[r].event
  <1> SUFFICES ASSUME Remembers, NEW e \in Events, e \notin excused, e \notin Anonymous
               PROVE  /\ processed'[e] <= 1
                      /\ processed'[e] = 1 =>
                            \/ e \in Ids(dedup')
                            \/ \E q \in Reqs : pc'[q] = "add" /\ msg[q].event = e
                      /\ \A q \in Reqs : (pc'[q] = "handle" /\ msg[q].event = e) =>
                                             processed'[e] = 0
    BY <1>3 DEF Once, Remembers
  <1>4. /\ processed[e] <= 1 /\ processed[e] \in Nat
        /\ processed[e] = 1 =>
              e \in Ids(dedup) \/ \E q \in Reqs : pc[q] = "add" /\ msg[q].event = e
        /\ \A q \in Reqs : (pc[q] = "handle" /\ msg[q].event = e) => processed[e] = 0
    BY <1>1 DEF Once, TypeOK
  <1>5. CASE Start(r) \/ Refreshed(r)
    <2>1. UNCHANGED <<dedup, processed>> /\ pc[r] \in {"arrived", "refreshed", "unrefreshed"}
      BY <1>5 DEF Start, Refreshed, history
    <2>2. pc'[r] # "handle"
      BY <1>1, <1>2, <2>1, LocalCourse
    <2> QED BY <1>3, <1>4, <2>1, <2>2
  <1>6. CASE Parsed(r)
    <2>1. processed' = processed /\ pc[r] = "parsed" /\ pc'[r] # "add"
      BY <1>1, <1>2, <1>6, LocalCourse DEF Parsed, history
    <2>2. Ids(dedup') = Ids(dedup)
      BY <1>1, <1>6, TouchKeeps DEF Parsed, LookUp, TypeOK
    <2>3. ASSUME pc'[r] = "handle", d = e PROVE processed[e] = 0
      <3>1. ~Has(dedup, IdOf(e))
        BY <1>1, <1>6, <2>3, Responds DEF Parsed, LookUp
      <3>2. e \notin Ids(dedup)
        BY <3>1, HandlerAssumption DEF Has, IdOf
      <3>3. \A q \in Reqs : ~(pc[q] = "add" /\ msg[q].event = e)
        BY <1>3, <2>1, <2>3 DEF Sole
      <3> QED BY <1>4, <3>2, <3>3
    <2> QED BY <1>3, <1>4, <2>1, <2>2, <2>3
  <1>7. CASE OnEvent(r)
    <2>1. dedup' = dedup /\ pc[r] = "handle" /\ pc'[r] # "handle"
      BY <1>1, <1>2, <1>7, LocalCourse DEF OnEvent
    <2>2. CASE UNCHANGED processed
      BY <1>3, <1>4, <2>1, <2>2
    <2>3. CASE pc' = [pc EXCEPT ![r] = "add"] /\ processed' = [processed EXCEPT ![d] = @ + 1]
      <3>1. pc'[r] = "add"
        BY <1>1, <2>3 DEF TypeOK
      <3>2. CASE d = e
        <4>1. processed[e] = 0 /\ processed'[e] = 1
          BY <1>1, <1>4, <2>1, <2>3, <3>2 DEF TypeOK
        <4>2. \A q \in Reqs : pc[q] = "handle" /\ msg[q].event = e => q = r
          BY <1>3, <3>2 DEF Sole
        <4> QED BY <1>3, <2>1, <3>1, <3>2, <4>1, <4>2
      <3>3. CASE d # e
        <4>1. processed'[e] = processed[e]
          BY <1>1, <2>3, <3>3 DEF TypeOK
        <4> QED BY <1>3, <1>4, <2>1, <3>1, <3>3, <4>1
      <3> QED BY <3>2, <3>3
    <2> QED BY <1>7, <2>2, <2>3 DEF OnEvent
  <1>8. CASE Record(r, IdOf(d))
    <2>1. /\ processed' = processed /\ pc[r] = "add" /\ dedup' = Add(dedup, IdOf(d))
          /\ d \in Events \ (Malformed \cup Unknown)
      BY <1>1, <1>8 DEF Record, history, Authentic, Answering
    <2>2. pc'[r] = "reply"
      BY <1>1, <1>8, Responds DEF Record
    <2>3. Kept(dedup)
      BY <1>1 DEF TypeOK
    <2>4. Ids(dedup) \subseteq Ids(dedup')
      <3>1. CASE d \in Anonymous
        BY <2>1, <3>1 DEF IdOf, Add
      <3>2. CASE d \notin Anonymous
        <4>1. d \in Recordable /\ IdOf(d) = d
          BY <2>1, <3>2 DEF Recordable, IdOf
        <4>2. d \in Ids(dedup) \/ Len(dedup) # capacity
          BY <1>1, <4>1, RoomLeft DEF Remembers
        <4> QED BY <2>1, <2>3, <4>1, <4>2, AddKeeps
      <3> QED BY <3>1, <3>2
    <2>5. d = e => e \in Ids(dedup')
      BY <2>1, <2>3, AddKeeps, HandlerAssumption DEF IdOf
    <2> QED BY <1>3, <1>4, <2>1, <2>2, <2>4, <2>5
  <1> QED BY <1>5, <1>6, <1>7, <1>8

\* The invariant behind OnceIfSequential.
THEOREM OnceHolds == Spec => [](Sole /\ Once)
  <1>1. Init => Sole /\ Once
    BY DEF Init, Sole, Once
  <1>2. Shared /\ Acknowledged /\ Sole /\ Once /\ [Next]_vars => Sole' /\ Once'
    <2> SUFFICES ASSUME Shared, Acknowledged, Sole, Once, [Next]_vars PROVE Sole' /\ Once'
      OBVIOUS
    <2>1. CASE EnvStep
      BY <2>1, SoleEnv, OnceEnv
    <2>2. ASSUME NEW r \in Reqs,
                 \/ Start(r) \/ Refreshed(r) \/ Parsed(r) \/ OnEvent(r)
                 \/ Record(r, IdOf(msg[r].event))
          PROVE  Sole' /\ Once'
      <3>1. TypeOK /\ Authentic
        BY DEF Shared, Coalesced
      <3>2. LocalStep(r)
        BY <2>2, <3>1, StartLocal, RefreshedLocal, ParsedLocal, OnEventLocal, RecordLocal
      <3> QED BY <2>2, <3>2, SoleLocal, OnceServe
    <2>3. CASE UNCHANGED vars
      BY <2>3 DEF vars, history, Sole, Once, Remembers
    <2> QED BY <2>1, <2>2, <2>3, NextSplit
  <1> QED BY <1>1, <1>2, SharedHolds, AcknowledgedHolds, PTL DEF Spec

\* The package's promise: with a Deduper that has room and keeps its memory,
\* redeliveries, lost answers, failed callbacks and restarts do not make OnEvent
\* process an event twice, unless its deliveries overlap or a crash falls between
\* OnEvent and Add.
THEOREM OnceIfSequentialHolds == Spec => []OnceIfSequential
  <1>1. Once => OnceIfSequential
    BY DEF Once, OnceIfSequential, Remembers, Recordable
  <1> QED BY <1>1, OnceHolds, PTL

-----------------------------------------------------------------------------
(* The handler's steps are local steps. *)

\* The steps of ServeHTTP outside of refreshCoalesced.
AcqLocal(r) ==
    \/ AcqStart(r) \/ AcqRefreshed(r) \/ AcqParsed(r) \/ OnEvent(r)
    \/ Record(r, DedupKey(msg[r].event))

\* The verdict with a real key.
LEMMA VerifiedLocal ==
    ASSUME TypeOK, NEW r \in Reqs, NEW k \in Nat, k >= 1, Verified(r, k),
           pc[r] \in {"arrived", "refreshed", "unrefreshed"},
           UNCHANGED <<now, cache, bank, msg, got, since, dedup, history>>
    PROVE  LocalStep(r)
  <1>1. Kept(dedup') /\ processed' \in [Events -> Nat]
    BY DEF TypeOK, history
  <1>2. UNCHANGED <<now, cache, bank, msg, got, since, excused, call, failed, failures, restarts, strays>>
    BY DEF history
  <1>3. CASE msg[r].key = k /\ Fresh(msg[r].event)
    <2>1. <<pc[r], "parsed">> \in Course /\ "parsed" \in PCs /\ 0 \in 0..bankKey
      BY DEF Course, PCs, TypeOK
    <2> QED BY <1>1, <1>2, <1>3, <2>1, PassLocal DEF Verified
  <1>4. CASE ~(msg[r].key = k /\ Fresh(msg[r].event))
    BY <1>1, <1>2, <1>4, RespondLocal DEF Verified
  <1> QED BY <1>3, <1>4

\* Start: the signature against the cached key, or the refresh.
LEMMA AcqStartLocal ==
    ASSUME TypeOK, NEW r \in Reqs, AcqStart(r)
    PROVE  LocalStep(r)
  <1>1. Kept(dedup') /\ processed' \in [Events -> Nat] /\ pc[r] = "arrived"
        /\ UNCHANGED <<now, cache, bank, msg, got, since, dedup, history>>
    BY DEF TypeOK, history, AcqStart
  <1>2. UNCHANGED <<excused, call, failed, failures, restarts, strays>> /\ key \in Nat /\ key >= 1
    BY <1>1 DEF history, TypeOK
  <1>3. ASSUME NEW s \in Nat, Respond(r, s) PROVE LocalStep(r)
    BY <1>1, <1>2, <1>3, RespondLocal
  <1>4. ASSUME msg[r].form \in DOMAIN EarlyStatus PROVE EarlyStatus[msg[r].form] \in Nat
    BY <1>4 DEF EarlyStatus
  <1>5. ASSUME Verified(r, key) PROVE LocalStep(r)
    BY <1>1, <1>2, <1>5, VerifiedLocal
  <1>6. ASSUME pc' = [pc EXCEPT ![r] = "outer"], snap' = [snap EXCEPT ![r] = key],
               UNCHANGED status
        PROVE  LocalStep(r)
    <2>1. <<pc[r], "outer">> \in Course /\ "outer" \in PCs /\ key \in 0..bankKey
      BY <1>1 DEF Course, PCs, TypeOK
    <2> QED BY <1>1, <1>2, <1>6, <2>1, PassLocal
  <1> QED BY <1>3, <1>4, <1>5, <1>6 DEF AcqStart

\* Each of the local steps is a LocalStep.
LEMMA AcqLocalBase ==
    ASSUME Shared, NEW r \in Reqs, AcqLocal(r)
    PROVE  LocalStep(r)
  <1>1. TypeOK /\ Authentic
    BY DEF Shared, Coalesced
  <1>2. CASE AcqRefreshed(r)
    <2>1. key \in Nat /\ key >= 1 /\ snap[r] \in Nat /\ (pc[r] = "unrefreshed" => snap[r] >= 1)
      BY <1>1 DEF TypeOK, Authentic
    <2> QED BY <1>1, <1>2, <2>1, VerifiedLocal DEF AcqRefreshed
  <1>3. CASE AcqParsed(r)
    <2>1. pc[r] = "parsed" /\ UNCHANGED <<now, cache, bank, msg, got, since, history>>
      BY <1>3 DEF AcqParsed
    <2>2. CASE Respond(r, 400) /\ UNCHANGED dedup
      BY <1>1, <2>1, <2>2, RespondLocal DEF TypeOK, history
    <2>3. CASE LookUp(r, DedupKey(msg[r].event))
      BY <1>1, <2>1, <2>3, LookUpLocal
    <2> QED BY <1>3, <2>2, <2>3 DEF AcqParsed
  <1> QED BY <1>1, <1>2, <1>3, AcqStartLocal, OnEventLocal, RecordLocal DEF AcqLocal

\* A step is one of a goroutine in ServeHTTP outside the refresh, or of the rest.
LEMMA AcqNextSplit ==
    ASSUME AcqNext
    PROVE  /\ EnvStep \/ \E r \in Reqs : AcqLocal(r) /\ UNCHANGED <<MaxAge, modified>>
           /\ MaxAge' = MaxAge
  <1>1. ASSUME NEW r \in Reqs, AcqServeHTTP(r)
        PROVE  RefreshCoalesced(r) \/ (AcqLocal(r) /\ UNCHANGED <<MaxAge, modified>>)
    BY <1>1 DEF AcqServeHTTP, AcqRefreshCoalesced, AcqProcess, AcqLocal
  <1>2. ASSUME NEW r \in Reqs, NEW e \in Events, AcqDeliver(r, e) PROVE Deliver(r, e)
    BY <1>2 DEF AcqDeliver
  <1>3. MaxAge' = MaxAge
    BY DEF AcqNext, AcqServeHTTP, AcqDeliver
  <1> QED BY <1>1, <1>2, <1>3 DEF AcqNext, EnvStep

\* Every step of the handler is a local or a shared one.
LEMMA AcqNextBase ==
    ASSUME Shared, AcqNext
    PROVE  BaseStep
  BY AcqNextSplit, AcqLocalBase DEF EnvStep, BaseStep

\* What is said of the shared state holds here as well.
THEOREM AcqSharedHolds == AcqSpec => []Shared
  <1>1. AcqInit => Shared
    BY SharedInit DEF AcqInit
  <1>2. Shared /\ [AcqNext]_acqVars => Shared'
    BY AcqNextBase, SharedStep, SharedStutter DEF acqVars
  <1> QED BY <1>1, <1>2, PTL DEF AcqSpec

\* The acquiring handler's copy of refreshCoalesced never replaces the key by an
\* older one.
THEOREM AcqKeyNeverGoesBack == AcqSpec => KeyNeverGoesBack
  <1>1. Shared /\ [AcqNext]_acqVars => [key' >= key]_vars
    <2> SUFFICES ASSUME Shared, [AcqNext]_acqVars, ~UNCHANGED vars PROVE key' >= key
      OBVIOUS
    <2>1. AcqNext
      BY DEF acqVars
    <2> QED BY <2>1, AcqNextBase, KeyForward DEF Shared
  <1> QED BY <1>1, AcqSharedHolds, PTL DEF AcqSpec, KeyNeverGoesBack

-----------------------------------------------------------------------------
(* Why a genuine delivery may be refused. *)

\* A delivery in progress is counted, so its date does not change any more.
Dated ==
    /\ MaxAge \in Nat /\ modified \in [Events -> Nat]
    /\ \A r \in Reqs : (pc[r] # "idle" /\ msg[r].event \in Events) => deliveries[msg[r].event] > 0

\* The deliveries of the environment and the date they carry.
LEMMA DatedStep ==
    ASSUME Shared, Dated, AcqNext
    PROVE  /\ Dated'
           /\ \A e \in Events : deliveries[e] > 0 => modified'[e] = modified[e]
  <1>1. TypeOK /\ None \notin Events
    BY WebhookAssumption DEF Shared, Coalesced
  <1>2. ASSUME NEW r \in Reqs, AcqServeHTTP(r)
        PROVE  UNCHANGED <<MaxAge, modified, deliveries, msg>>
               /\ \A q \in Reqs : pc'[q] # "idle" => pc[q] # "idle"
    <2>1. CASE AcqLocal(r) /\ UNCHANGED <<MaxAge, modified>>
      BY <1>1, <2>1, AcqLocalBase, LocalCourse
    <2>2. CASE RefreshCoalesced(r) /\ UNCHANGED <<MaxAge, modified>>
      <3>1. UNCHANGED <<deliveries, msg>>
        BY <2>2 DEF RefreshCoalesced, RefreshOuter, RefreshJoin, RefreshInner,
               FetchAnswered, FetchFails, StoreKey, StampRefresh, bank
      <3>2. \A q \in Reqs : pc'[q] # "idle" => pc[q] # "idle"
        BY <1>1, <2>2 DEF RefreshCoalesced, RefreshOuter, RefreshJoin, RefreshInner,
               FetchAnswered, FetchFails, StoreKey, StampRefresh, Finish, TypeOK
      <3> QED BY <2>2, <3>1, <3>2
    <2> QED BY <1>2, <2>1, <2>2 DEF AcqServeHTTP, AcqRefreshCoalesced, AcqProcess, AcqLocal
  <1>3. ASSUME NEW r \in Reqs, ReplyEnds(r) /\ UNCHANGED <<MaxAge, modified>>
        PROVE  /\ UNCHANGED <<MaxAge, modified, deliveries>>
               /\ \A q \in Reqs : pc'[q] # "idle" => pc[q] # "idle" /\ msg'[q] = msg[q]
    BY <1>1, <1>3 DEF ReplyEnds, TypeOK
  <1>4. ASSUME NEW r \in Reqs, NEW e \in Events, AcqDeliver(r, e)
        PROVE  /\ Dated' /\ \A d \in Events : deliveries[d] > 0 => modified'[d] = modified[d]
    <2>1. /\ pc'[r] # "idle" /\ msg'[r].event = e
          /\ \A q \in Reqs \ {r} : pc'[q] = pc[q] /\ msg'[q] = msg[q]
      BY <1>1, <1>4 DEF AcqDeliver, Deliver, TypeOK
    <2>2. deliveries'[e] > 0 /\ \A d \in Events : deliveries[d] > 0 => deliveries'[d] > 0
      BY <1>1, <1>4, Bounds DEF AcqDeliver, Deliver, TypeOK
    <2>3. /\ modified' \in [Events -> Nat] /\ MaxAge' = MaxAge
          /\ \A d \in Events : deliveries[d] > 0 => modified'[d] = modified[d]
      BY <1>1, <1>4, Bounds DEF AcqDeliver, Dated, TypeOK
    <2> QED BY <2>1, <2>2, <2>3 DEF Dated
  <1>5. ASSUME NEW r \in Reqs, NEW f \in Forms, Stray(r, f) /\ UNCHANGED <<MaxAge, modified>>
        PROVE  /\ UNCHANGED <<MaxAge, modified, deliveries>> /\ msg'[r].event = None
               /\ \A q \in Reqs \ {r} : pc'[q] = pc[q] /\ msg'[q] = msg[q]
    BY <1>1, <1>5 DEF Stray, TypeOK, bank
  <1>6. ASSUME (Rotate \/ Restart \/ Tick) /\ UNCHANGED <<MaxAge, modified>>
        PROVE  /\ UNCHANGED <<MaxAge, modified, deliveries>>
               /\ \A q \in Reqs : pc'[q] # "idle" => pc[q] # "idle" /\ msg'[q] = msg[q]
    BY <1>6 DEF Rotate, Restart, Tick, bank
  <1>7. ASSUME UNCHANGED <<MaxAge, modified, deliveries>>,
               \A q \in Reqs : pc'[q] # "idle" => pc[q] # "idle" /\ msg'[q] = msg[q]
        PROVE  Dated'
    BY <1>7 DEF Dated
  <1>8. ASSUME NEW r \in Reqs, UNCHANGED <<MaxAge, modified, deliveries>>, msg'[r].event = None,
               \A q \in Reqs \ {r} : pc'[q] = pc[q] /\ msg'[q] = msg[q]
        PROVE  Dated'
    BY <1>1, <1>8 DEF Dated
  <1> QED BY <1>2, <1>3, <1>4, <1>5, <1>6, <1>7, <1>8 DEF AcqNext

\* The date of a delivery in progress is fixed.
THEOREM DatedHolds == AcqSpec => []Dated
  <1>1. AcqInit => Dated
    BY AcquiringAssumption DEF AcqInit, Init, Dated
  <1>2. Shared /\ Dated /\ [AcqNext]_acqVars => Dated'
    <2>1. ASSUME Dated, UNCHANGED acqVars PROVE Dated'
      BY <2>1 DEF acqVars, vars, bank, Dated
    <2> QED BY <2>1, DatedStep
  <1> QED BY <1>1, <1>2, AcqSharedHolds, PTL DEF AcqSpec

\* A body that is no longer fresh stays so.
LEMMA StaleStays ==
    ASSUME Dated, now \in Nat, now' \in Nat, now' >= now, MaxAge' = MaxAge,
           NEW e \in Events, modified'[e] = modified[e], ~Fresh(e)
    PROVE  ~Fresh(e)'
  BY DEF Fresh, Dated

\* What a step that answers puts into the answer.
LEMMA AcqResponds ==
    ASSUME TypeOK, NEW r \in Reqs, NEW s, Respond(r, s)
    PROVE  pc'[r] = "reply" /\ status'[r] = s
  BY DEF Respond, TypeOK

\* The steps that answer a genuine delivery with 401 have a reason.
LEMMA RefusedLocal ==
    ASSUME Shared, NEW r \in Reqs, AcqLocal(r), pc'[r] = "reply", status'[r] = 401,
           msg[r].key = bankKey, r \notin failed
    PROVE  \/ msg[r].at < rotatedAt + MinRefresh + MaxFetch
           \/ ~Fresh(msg[r].event)
  <1>1. TypeOK /\ bankKey >= 1 /\ bankKey \in Nat
    BY DEF Shared, Coalesced, TypeOK
  <1>2. CASE AcqStart(r)
    <2>1. msg[r].form = "post"
      BY <1>1, <1>2 DEF AcqStart, Shared, Recent, Genuine
    <2>2. "post" \notin DOMAIN EarlyStatus
      BY DEF EarlyStatus
    <2> QED BY <1>1, <1>2, <2>1, <2>2 DEF AcqStart, Verified, TypeOK
  <1>3. CASE AcqRefreshed(r)
    <2>1. pc[r] = "refreshed" /\ Verified(r, key)
      BY <1>3 DEF AcqRefreshed, Shared, Recent, Unfailed
    <2>2. CASE Fresh(msg[r].event)
      <3>1. key # bankKey
        BY <1>1, <2>1, <2>2 DEF Verified, TypeOK
      <3>2. key < bankKey
        BY <1>1, <3>1 DEF TypeOK
      <3> QED BY <2>1, <3>2 DEF Shared, Recent, Waited
    <2> QED BY <2>2
  <1>4. CASE AcqParsed(r) \/ OnEvent(r) \/ Record(r, DedupKey(msg[r].event))
    <2>1. ASSUME NEW s \in {200, 400, 500}, Respond(r, s) PROVE FALSE
      BY <1>1, <2>1, AcqResponds
    <2>2. pc \in [Reqs -> PCs]
      BY <1>1 DEF TypeOK
    <2> QED BY <1>4, <2>1, <2>2 DEF AcqParsed, OnEvent, Record, LookUp
  <1> QED BY <1>2, <1>3, <1>4 DEF AcqLocal

\* A genuine delivery is refused only within the throttle plus one fetch of a
\* rotation, because the fetch it led or waited for ended with an error, or
\* because its body is too old or undated for MaxAge.
THEOREM RefusedForReasonHolds == AcqSpec => []RefusedForReason
  <1>1. AcqInit => RefusedForReason
    BY DEF AcqInit, Init, RefusedForReason
  <1>2. Shared /\ Dated /\ RefusedForReason /\ [AcqNext]_acqVars => RefusedForReason'
    <2> SUFFICES ASSUME Shared, Dated, RefusedForReason, AcqNext, NEW q \in Reqs,
                        (/\ pc[q] = "reply" /\ status[q] = 401
                         /\ msg[q].key = bankKey /\ q \notin failed)'
                 PROVE  (\/ msg[q].at < rotatedAt + MinRefresh + MaxFetch
                         \/ ~Fresh(msg[q].event))'
      <3>1. ASSUME RefusedForReason, UNCHANGED acqVars PROVE RefusedForReason'
        BY <3>1 DEF acqVars, vars, bank, history, RefusedForReason, Fresh
      <3> QED BY <3>1 DEF RefusedForReason
    <2>1. TypeOK /\ now \in Nat /\ bankKey \in Nat /\ bankKey >= 1
      BY DEF Shared, Coalesced, TypeOK
    <2>2. TypeOK'
      BY AcqNextBase, SharedStep DEF Shared, Coalesced
    <2>3. MaxAge' = MaxAge /\ \A e \in Events : deliveries[e] > 0 => modified'[e] = modified[e]
      BY AcqNextSplit, DatedStep
    <2>4. ASSUME UNCHANGED <<bankKey, rotatedAt>>, msg'[q] = msg[q], now' >= now, pc[q] # "idle",
                 \/ msg[q].at < rotatedAt + MinRefresh + MaxFetch
                 \/ ~Fresh(msg[q].event)
          PROVE  (\/ msg[q].at < rotatedAt + MinRefresh + MaxFetch
                  \/ ~Fresh(msg[q].event))'
      <3>1. PICK e \in Events : e = msg[q].event
        BY <2>1, <2>4 DEF Shared, Recent, Genuine
      <3>2. modified'[e] = modified[e]
        BY <2>3, <2>4, <3>1 DEF Dated
      <3>3. now' \in Nat
        BY <2>2 DEF TypeOK
      <3>4. ~Fresh(e) => ~Fresh(e)'
        BY <2>1, <2>3, <2>4, <3>2, <3>3, StaleStays
      <3> QED BY <2>4, <3>1, <3>4 DEF Fresh
    <2>5. CASE EnvStep
      <3>1. /\ pc[q] = "reply" /\ msg'[q] = msg[q] /\ status[q] = 401 /\ q \notin failed
            /\ bankKey' = bankKey /\ rotatedAt' = rotatedAt /\ now' >= now
        BY <2>5, EnvFrame
      <3>2. \/ msg[q].at < rotatedAt + MinRefresh + MaxFetch
            \/ ~Fresh(msg[q].event)
        BY <3>1 DEF RefusedForReason
      <3> QED BY <2>4, <3>1, <3>2
    <2>6. ASSUME NEW r \in Reqs, AcqLocal(r)
          PROVE  (\/ msg[q].at < rotatedAt + MinRefresh + MaxFetch
                  \/ ~Fresh(msg[q].event))'
      <3>1. LocalStep(r)
        BY <2>6, AcqLocalBase
      <3>2. UNCHANGED <<msg, bankKey, rotatedAt, failed, now>> /\ pc[r] # "idle" /\ now' >= now
        BY <2>1, <3>1, LocalCourse
      <3>3. CASE q = r
        <4>1. \/ msg[q].at < rotatedAt + MinRefresh + MaxFetch
              \/ ~Fresh(msg[q].event)
          BY <2>6, <3>2, <3>3, RefusedLocal
        <4> QED BY <2>4, <3>2, <3>3, <4>1
      <3>4. CASE q # r
        <4>1. pc[q] = "reply" /\ status[q] = 401
          BY <2>1, <3>1, <3>4, LocalCourse
        <4>2. \/ msg[q].at < rotatedAt + MinRefresh + MaxFetch
              \/ ~Fresh(msg[q].event)
          BY <3>2, <4>1 DEF RefusedForReason
        <4> QED BY <2>4, <3>2, <4>1, <4>2
      <3> QED BY <3>3, <3>4
    <2> QED BY <2>5, <2>6, AcqNextSplit
  <1> QED BY <1>1, <1>2, AcqSharedHolds, DatedHolds, PTL DEF AcqSpec

-----------------------------------------------------------------------------
(* What an acknowledgement says. *)

\* Some state with the key of e was processed.
Seen(e) == \E f \in Events : processed[f] >= 1 /\ DedupKey(f) = DedupKey(e)

\* DedupKey tells invoices and dates apart.
LEMMA DedupKeyInjective ==
    ASSUME NEW e \in Events, NEW f \in Events, DedupKey(e) = DedupKey(f)
    PROVE  e.invoice = f.invoice /\ e.date = f.date
  BY AcquiringAssumption DEF DedupKey

\* What is recorded is the key of a state that was processed.
AcqRecorded == \A id \in Ids(dedup) : \E f \in Events : processed[f] >= 1 /\ DedupKey(f) = id

\* What is about to be recorded was processed, and what is acknowledged was, or
\* a state with the same key.
AcqAnswering ==
    \A r \in Reqs :
        /\ pc[r] = "add" => processed[msg[r].event] >= 1
        /\ (pc[r] = "reply" /\ status[r] = 200 /\ msg[r].event # None) =>
              msg[r].event \in Events /\ Seen(msg[r].event)

AcqAcked == \A e \in acked : e \in Events /\ Seen(e)

AcqAcknowledged == AcqRecorded /\ AcqAnswering /\ AcqAcked

\* Processing more never undoes this.
LEMMA SeenStays ==
    ASSUME \A f \in Events : processed[f] >= 1 => processed'[f] >= 1, NEW e
    PROVE  Seen(e) => Seen(e)'
  BY DEF Seen, DedupKey

\* The environment and the refresh keep Acknowledged.
LEMMA AcqAcknowledgedEnv ==
    ASSUME Shared, AcqAcknowledged, EnvStep
    PROVE  AcqAcknowledged'
  <1>1. processed' = processed /\ (dedup' = dedup \/ dedup' = <<>>)
    BY EnvDedup
  <1>2. AcqRecorded'
    BY <1>1 DEF AcqAcknowledged, AcqRecorded, Ids
  <1>3. AcqAnswering'
    <2> SUFFICES ASSUME NEW q \in Reqs, pc'[q] \in {"add", "reply"}
                 PROVE  pc'[q] = pc[q] /\ msg'[q] = msg[q] /\ status'[q] = status[q]
      BY <1>1 DEF AcqAcknowledged, AcqAnswering, Seen
    <2> QED BY EnvFrame
  <1>4. AcqAcked'
    <2> SUFFICES ASSUME NEW e \in acked' PROVE e \in Events /\ Seen(e)
      BY <1>1 DEF AcqAcked, Seen
    <2>1. CASE e \in acked
      BY <2>1 DEF AcqAcknowledged, AcqAcked
    <2>2. CASE e \notin acked
      BY <2>2, EnvAcked DEF AcqAcknowledged, AcqAnswering
    <2> QED BY <2>1, <2>2
  <1> QED BY <1>2, <1>3, <1>4 DEF AcqAcknowledged

\* A local step that runs no callback and records nothing new.
LEMMA AcqAcknowledgedLocal ==
    ASSUME Shared, AcqAcknowledged, NEW r \in Reqs, LocalStep(r), processed' = processed,
           AcqRecorded', pc'[r] # "add",
           (pc'[r] = "reply" /\ status'[r] = 200 /\ msg[r].event # None) =>
              msg[r].event \in Events /\ Seen(msg[r].event)
    PROVE  AcqAcknowledged'
  <1>1. /\ UNCHANGED <<msg, acked>>
        /\ \A q \in Reqs \ {r} : pc'[q] = pc[q] /\ status'[q] = status[q]
    BY LocalCourse DEF Shared, Coalesced
  <1>2. AcqAnswering'
    BY <1>1 DEF AcqAcknowledged, AcqAnswering, Seen
  <1>3. AcqAcked'
    BY <1>1 DEF AcqAcknowledged, AcqAcked, Seen
  <1> QED BY <1>2, <1>3 DEF AcqAcknowledged

\* The local steps keep Acknowledged.
LEMMA AcqAcknowledgedServe ==
    ASSUME Shared, AcqAcknowledged, NEW r \in Reqs, AcqLocal(r)
    PROVE  AcqAcknowledged'
  <1>1. TypeOK /\ Authentic /\ Genuine /\ AcqRecorded /\ AcqAnswering
    BY DEF Shared, Coalesced, Recent, AcqAcknowledged
  <1>2. LocalStep(r)
    BY AcqLocalBase
  <1> DEFINE e == msg[r].event
  <1>3. CASE AcqStart(r) \/ AcqRefreshed(r)
    <2>1. UNCHANGED <<dedup, processed>> /\ pc[r] \in {"arrived", "refreshed", "unrefreshed"}
      BY <1>3 DEF AcqStart, AcqRefreshed, history
    <2>2. pc'[r] # "add"
      BY <1>1, <1>2, <2>1, LocalCourse
    <2>3. e # None => pc'[r] # "reply" \/ status'[r] = 401
      <3>1. CASE AcqStart(r)
        <4>1. e # None => msg[r].form = "post"
          BY <1>1, <3>1 DEF AcqStart, Genuine
        <4>2. "post" \notin DOMAIN EarlyStatus
          BY DEF EarlyStatus
        <4> QED BY <1>1, <3>1, <4>1, <4>2, AcqResponds DEF AcqStart, Verified, TypeOK
      <3>2. CASE AcqRefreshed(r)
        BY <1>1, <3>2, AcqResponds DEF AcqRefreshed, Verified, TypeOK
      <3> QED BY <1>3, <3>1, <3>2
    <2>4. AcqRecorded'
      BY <1>1, <2>1 DEF AcqRecorded
    <2> QED BY <1>2, <2>1, <2>2, <2>3, <2>4, AcqAcknowledgedLocal
  <1>4. CASE AcqParsed(r)
    <2>1. processed' = processed /\ pc[r] = "parsed" /\ e \in Events
      BY <1>1, <1>4 DEF AcqParsed, history, Authentic
    <2>2. pc'[r] # "add"
      BY <1>1, <1>2, <2>1, LocalCourse
    <2>3. AcqRecorded'
      <3>1. Kept(dedup)
        BY <1>1 DEF TypeOK
      <3>2. Ids(dedup') = Ids(dedup)
        BY <1>4, <3>1, TouchKeeps DEF AcqParsed, LookUp
      <3> QED BY <1>1, <2>1, <3>2 DEF AcqRecorded
    <2>4. (pc'[r] = "reply" /\ status'[r] = 200) => Seen(e)
      <3>1. CASE Respond(r, 400)
        BY <1>1, <3>1, AcqResponds
      <3>2. CASE LookUp(r, DedupKey(e)) /\ Has(dedup, DedupKey(e))
        BY <1>1, <3>2 DEF Has, AcqRecorded, Seen
      <3>3. CASE LookUp(r, DedupKey(e)) /\ ~Has(dedup, DedupKey(e))
        BY <1>1, <3>3 DEF LookUp, TypeOK
      <3> QED BY <1>4, <3>1, <3>2, <3>3 DEF AcqParsed
    <2> QED BY <1>2, <2>1, <2>2, <2>3, <2>4, AcqAcknowledgedLocal
  <1>5. CASE OnEvent(r)
    <2>1. dedup' = dedup /\ pc[r] = "handle" /\ e \in Events
      BY <1>1, <1>5 DEF OnEvent, Authentic
    <2>2. CASE Respond(r, 500) /\ UNCHANGED processed
      <3>1. AcqRecorded' /\ pc'[r] = "reply" /\ status'[r] = 500
        BY <1>1, <2>1, <2>2, AcqResponds DEF AcqRecorded
      <3> QED BY <1>2, <2>2, <3>1, AcqAcknowledgedLocal
    <2>3. CASE pc' = [pc EXCEPT ![r] = "add"] /\ processed' = [processed EXCEPT ![e] = @ + 1]
      <3>1. processed'[e] >= 1 /\ \A f \in Events : processed[f] >= 1 => processed'[f] >= 1
        BY <1>1, <2>1, <2>3 DEF TypeOK
      <3>2. UNCHANGED <<msg, acked>> /\ pc'[r] = "add"
            /\ \A q \in Reqs \ {r} : pc'[q] = pc[q] /\ status'[q] = status[q]
        BY <1>1, <1>2, <2>3, LocalCourse DEF TypeOK
      <3>3. AcqRecorded'
        BY <1>1, <2>1, <3>1 DEF AcqRecorded, DedupKey
      <3>4. AcqAnswering'
        <4> SUFFICES ASSUME NEW q \in Reqs
                     PROVE  /\ (q # r /\ pc[q] = "add") => processed'[msg[q].event] >= 1
                            /\ (pc[q] = "reply" /\ status[q] = 200 /\ msg[q].event # None) =>
                                  msg[q].event \in Events /\ Seen(msg[q].event)'
          BY <3>1, <3>2 DEF AcqAnswering
        <4>1. (q # r /\ pc[q] = "add") => processed'[msg[q].event] >= 1
          BY <1>1, <3>1 DEF AcqAnswering, Authentic
        <4>2. (pc[q] = "reply" /\ status[q] = 200 /\ msg[q].event # None) =>
                  msg[q].event \in Events /\ Seen(msg[q].event)
          BY <1>1 DEF AcqAnswering
        <4>3. Seen(msg[q].event) => Seen(msg[q].event)'
          BY <3>1, <3>2 DEF Seen, DedupKey
        <4> QED BY <4>1, <4>2, <4>3
      <3>5. AcqAcked'
        BY <3>1, <3>2, SeenStays DEF AcqAcknowledged, AcqAcked
      <3> QED BY <3>3, <3>4, <3>5 DEF AcqAcknowledged
    <2> QED BY <1>5, <2>2, <2>3 DEF OnEvent
  <1>6. CASE Record(r, DedupKey(e))
    <2>1. processed' = processed /\ pc[r] = "add" /\ e \in Events /\ processed[e] >= 1
      BY <1>1, <1>6 DEF Record, history, Authentic, AcqAnswering
    <2>2. pc'[r] = "reply"
      BY <1>1, <1>6, AcqResponds DEF Record
    <2>3. AcqRecorded'
      <3>1. Kept(dedup) /\ dedup' = Add(dedup, DedupKey(e))
        BY <1>1, <1>6 DEF Record, TypeOK
      <3>2. Ids(dedup') \subseteq Ids(dedup) \cup {DedupKey(e)}
        BY <3>1, AddKeeps
      <3> QED BY <1>1, <2>1, <3>2 DEF AcqRecorded, DedupKey
    <2>4. Seen(e)
      BY <2>1 DEF Seen
    <2> QED BY <1>2, <2>1, <2>2, <2>3, <2>4, AcqAcknowledgedLocal
  <1> QED BY <1>3, <1>4, <1>5, <1>6 DEF AcqLocal

\* The invariant behind AckedStateProcessed.
THEOREM AcqAcknowledgedHolds == AcqSpec => []AcqAcknowledged
  <1>1. AcqInit => AcqAcknowledged
    BY DEF AcqInit, Init, AcqAcknowledged, AcqRecorded, AcqAnswering, AcqAcked, Ids
  <1>2. Shared /\ AcqAcknowledged /\ [AcqNext]_acqVars => AcqAcknowledged'
    <2>1. ASSUME AcqAcknowledged, UNCHANGED acqVars PROVE AcqAcknowledged'
      BY <2>1 DEF acqVars, vars, bank, history, AcqAcknowledged, AcqRecorded, AcqAnswering,
                  AcqAcked, Seen
    <2> QED BY <2>1, AcqNextSplit, AcqAcknowledgedEnv, AcqAcknowledgedServe
  <1> QED BY <1>1, <1>2, AcqSharedHolds, PTL DEF AcqSpec

\* The bank never reads a 200 for an invoice state unless OnEvent has processed a
\* state of that invoice with that date.
THEOREM AckedStateProcessedHolds == AcqSpec => []AckedStateProcessed
  <1>1. AcqAcknowledged => AckedStateProcessed
    BY DedupKeyInjective DEF AcqAcknowledged, AcqAcked, Seen, AckedStateProcessed
  <1> QED BY <1>1, AcqAcknowledgedHolds, PTL
==============================================================================
