--------------------------- MODULE WebhookHandler ---------------------------
(***************************************************************************)
(* webhook.Handler (webhook/handler.go), the receiver of the personal and  *)
(* corporate API's events: a request names its key in X-Key-Id, and a name *)
(* other than the cached one makes the handler fetch the key before it     *)
(* checks the signature.                                                   *)
(***************************************************************************)
EXTENDS WebhookBase

CONSTANT Anonymous      \* the events whose Transaction.ID is empty

ASSUME HandlerAssumption ==
    /\ Anonymous \subseteq Events /\ NoId \notin Events
    /\ IsFiniteSet(Events)

\* Verify with key k (a stray request's signature fits no key).
Verdict(r, k) ==
    IF msg[r].key = k
    THEN /\ pc' = [pc EXCEPT ![r] = "parsed"]
         /\ snap' = [snap EXCEPT ![r] = 0]
         /\ UNCHANGED status
    ELSE Respond(r, 401)

\* ServeHTTP up to the signature, or up to the refresh when the request names a
\* key other than the cached one; snap keeps the key read under mu.
Start(r) ==
    /\ pc[r] = "arrived"
    /\ \/ msg[r].form \in DOMAIN EarlyStatus /\ Respond(r, EarlyStatus[msg[r].form])
       \/ msg[r].form = "plain" /\ Verdict(r, key)
       \/ /\ msg[r].form = "post" /\ msg[r].key = key
          /\ Verdict(r, key)
       \/ /\ msg[r].form = "post" /\ msg[r].key # key
          /\ pc' = [pc EXCEPT ![r] = "outer"]
          /\ snap' = [snap EXCEPT ![r] = key]
          /\ UNCHANGED status
    /\ UNCHANGED <<now, cache, bank, msg, got, since, dedup, history>>

\* Seeded fault: the key is not read again after the refresh.
RefreshedStale(r) ==
    /\ pc[r] \in {"refreshed", "unrefreshed"}
    /\ Verdict(r, snap[r])
    /\ UNCHANGED <<now, cache, bank, msg, got, since, dedup, history>>

\* After refreshCoalesced: nil means the key is read again, an error that the
\* old one is used.
Refreshed(r) ==
    /\ \/ pc[r] = "refreshed" /\ Verdict(r, key)
       \/ pc[r] = "unrefreshed" /\ Verdict(r, snap[r])
    /\ UNCHANGED <<now, cache, bank, msg, got, since, dedup, history>>

\* Transaction.ID
IdOf(e) == IF e \in Anonymous THEN NoId ELSE e

\* Parse: an unknown type is acknowledged (OnUnknownType), a body that does not
\* parse is not; then Dedup.Has.
Parsed(r) ==
    /\ pc[r] = "parsed"
    /\ \/ msg[r].event \in Unknown /\ Respond(r, 200) /\ UNCHANGED dedup
       \/ msg[r].event \in Malformed \ Unknown /\ Respond(r, 400) /\ UNCHANGED dedup
       \/ msg[r].event \notin Unknown \cup Malformed /\ LookUp(r, IdOf(msg[r].event))
    /\ UNCHANGED <<now, cache, bank, msg, got, since, history>>

ServeHTTP(r) ==
    \/ Start(r) \/ RefreshCoalesced(r) \/ Refreshed(r)
    \/ Parsed(r) \/ OnEvent(r) \/ Record(r, IdOf(msg[r].event))

Next ==
    \/ \E r \in Reqs : \/ ServeHTTP(r) \/ ReplyEnds(r)
                       \/ \E e \in Events : Deliver(r, e)
                       \/ \E f \in Forms : Stray(r, f)
    \/ Rotate \/ Restart \/ Tick

Spec == Init /\ [][Next]_vars

\* A goroutine that can run does, OnEvent returns, and answers leave the machine;
\* nothing makes a call of the key endpoint end.
FairSpec ==
    /\ Spec
    /\ \A r \in Reqs : /\ WF_vars(~Fetching(r) /\ ServeHTTP(r))
                       /\ WF_vars(ReplyEnds(r))

-----------------------------------------------------------------------------

\* After a rotation, a genuine delivery is turned away for one of two reasons
\* only: it came before the throttle (handler.go:23) plus one fetch, of MaxFetch
\* at most, had passed since the rotation; or the very fetch it led or waited for
\* ended with an error, which refuses it with the old key, or its context did.
\* An earlier failure, or somebody else's, is no reason.
OutageBounded ==
    \A r \in Reqs :
        (/\ pc[r] = "reply" /\ status[r] = 401
         /\ msg[r].key = bankKey /\ r \notin failed)
        => msg[r].at < rotatedAt + MinRefresh + MaxFetch

\* The reason for Add after OnEvent (webhook/dedup.go): the bank is never told
\* 200 for an event OnEvent has not processed, in spite of failed runs,
\* redeliveries and restarts.
AckedWasProcessed == \A e \in acked \ Unknown : processed[e] >= 1

\* An event whose deliveries do not overlap is processed once, lost answers,
\* failed runs and restarts included, as long as the Deduper remembers; the one
\* other excuse is a crash after OnEvent and before Add.
OnceIfSequential ==
    \A e \in Events \ (excused \cup Anonymous) :
        (/\ Cardinality(Events \ (Anonymous \cup Malformed \cup Unknown)) <= capacity
         /\ Durable \/ restarts = 0)
        => processed[e] <= 1
=============================================================================
