-------------------------- MODULE AcquiringHandler --------------------------
(***************************************************************************)
(* acquiring.WebhookHandler (acquiring/handler.go), the receiver of invoice*)
(* state changes.  Acquiring webhooks do not name their key, so a bad      *)
(* signature is what makes the handler fetch it; MaxAge optionally rejects *)
(* old payloads; and the dedup key is made of the invoice and its          *)
(* modifiedDate.                                                           *)
(*                                                                         *)
(* An event is a record of an invoice (NoId when empty), the state it      *)
(* reports, and its modifiedDate (NoDate when missing).  All deliveries of *)
(* an event have the same body.                                            *)
(***************************************************************************)
EXTENDS WebhookBase

CONSTANTS MaxAges,    \* the values of MaxAge; 0: no freshness check
          NoDate

ASSUME AcquiringAssumption ==
    /\ MaxAges \subseteq Nat
    \* no invoice id has the form of an id with a date (a '|' in it)
    /\ \A e, f \in Events : e.invoice # <<f.invoice, f.date>>

VARIABLES MaxAge,     \* the option the handler was made with
          modified    \* when the bank made each event's body: its modifiedDate

acqVars == <<vars, MaxAge, modified>>

AcqInit == Init /\ MaxAge \in MaxAges /\ modified = [e \in Events |-> 0]

\* Seeded fault: the date is left out of the key.
DedupKeyInvoice(inv) == inv.invoice

\* invoiceId|modifiedDate, or invoiceId alone without a date.
DedupKey(inv) ==
    IF inv.date = NoDate THEN inv.invoice ELSE <<inv.invoice, inv.date>>

\* VerifyWebhookFresh: the body has a readable modifiedDate, not too long ago.
Fresh(e) ==
    MaxAge > 0 => /\ e \notin Malformed
                  /\ e.date # NoDate
                  /\ now - modified[e] <= MaxAge

\* The end of verify: the signature checked with key k, then the freshness.
Verified(r, k) ==
    IF msg[r].key = k /\ Fresh(msg[r].event)
    THEN /\ pc' = [pc EXCEPT ![r] = "parsed"]
         /\ snap' = [snap EXCEPT ![r] = 0]
         /\ UNCHANGED status
    ELSE Respond(r, 401)

\* ServeHTTP up to the verdict, or up to the refresh that follows a bad
\* signature.  A signature that is not base64 ("plain") asks for no refresh.
AcqStart(r) ==
    /\ pc[r] = "arrived"
    /\ \/ msg[r].form \in DOMAIN EarlyStatus /\ Respond(r, EarlyStatus[msg[r].form])
       \/ msg[r].form = "plain" /\ Respond(r, 401)
       \/ /\ msg[r].form = "post" /\ msg[r].key = key
          /\ Verified(r, key)
       \/ /\ msg[r].form = "post" /\ msg[r].key # key
          /\ pc' = [pc EXCEPT ![r] = "outer"]
          /\ snap' = [snap EXCEPT ![r] = key]
          /\ UNCHANGED status
    /\ UNCHANGED <<now, cache, bank, msg, got, since, dedup, history>>

\* Seeded fault: the signature is not checked again with the key just fetched.
AcqRefreshedStale(r) ==
    /\ pc[r] \in {"refreshed", "unrefreshed"}
    /\ Verified(r, snap[r])
    /\ UNCHANGED <<now, cache, bank, msg, got, since, dedup, history>>

\* After refreshCoalesced: with a new key the signature is checked again;
\* otherwise, or after an error, the first verdict stands.
AcqRefreshed(r) ==
    /\ \/ pc[r] = "refreshed" /\ Verified(r, key)
       \/ pc[r] = "unrefreshed" /\ Verified(r, snap[r])
    /\ UNCHANGED <<now, cache, bank, msg, got, since, dedup, history>>

\* ParseWebhook, then Dedup.Has.
AcqParsed(r) ==
    /\ pc[r] = "parsed"
    /\ \/ msg[r].event \in Malformed /\ Respond(r, 400) /\ UNCHANGED dedup
       \/ msg[r].event \notin Malformed /\ LookUp(r, DedupKey(msg[r].event))
    /\ UNCHANGED <<now, cache, bank, msg, got, since, history>>

\* The two handlers have the same refreshCoalesced, line for line.
AcqRefreshCoalesced(r) == RefreshCoalesced(r)

\* OnEvent, then Dedup.Add with the key of Dedup.Has.
AcqProcess(r) == OnEvent(r) \/ Record(r, DedupKey(msg[r].event))

AcqServeHTTP(r) ==
    /\ \/ AcqStart(r) \/ AcqRefreshCoalesced(r) \/ AcqRefreshed(r)
       \/ AcqParsed(r) \/ AcqProcess(r)
    /\ UNCHANGED <<MaxAge, modified>>

\* External: the date of an event is that of its first delivery.
AcqDeliver(r, e) ==
    /\ Deliver(r, e)
    /\ modified' = IF deliveries[e] = 0 THEN [modified EXCEPT ![e] = now] ELSE modified
    /\ UNCHANGED MaxAge

AcqNext ==
    \/ \E r \in Reqs : \/ AcqServeHTTP(r)
                       \/ ReplyEnds(r) /\ UNCHANGED <<MaxAge, modified>>
                       \/ \E e \in Events : AcqDeliver(r, e)
                       \/ \E f \in Forms : Stray(r, f) /\ UNCHANGED <<MaxAge, modified>>
    \/ (Rotate \/ Restart \/ Tick) /\ UNCHANGED <<MaxAge, modified>>

AcqSpec == AcqInit /\ [][AcqNext]_acqVars

-----------------------------------------------------------------------------

\* A genuine delivery is refused for one of three reasons only: a rotation no
\* longer ago than the throttle plus one fetch of MaxFetch at most, an error of
\* the very fetch it led or waited for, or a body that has outlived MaxAge or has
\* no date to tell.
RefusedForReason ==
    \A r \in Reqs :
        (/\ pc[r] = "reply" /\ status[r] = 401
         /\ msg[r].key = bankKey /\ r \notin failed)
        => \/ msg[r].at < rotatedAt + MinRefresh + MaxFetch
           \/ ~Fresh(msg[r].event)

\* The key decides which deliveries are the same: the bank is never told 200
\* unless OnEvent has processed a state with the same key, and a dated state is
\* never taken for another one.
AckedStateProcessed ==
    \A e \in acked :
        \E f \in Events : /\ processed[f] >= 1
                          /\ f.invoice = e.invoice /\ f.date = e.date

\* DedupKey's comment taken at its word: two deliveries with the same invoice
\* and date "should run OnEvent once".
OnceAlways ==
    \A e \in Events :
        (/\ e.date # NoDate
         /\ Cardinality(Events) <= capacity /\ restarts = 0)
        => processed[e] <= 1
=============================================================================
