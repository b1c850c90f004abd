----------------------------- MODULE MCClientDo -----------------------------
(***************************************************************************)
(* ClientDo for TLC.  The clients and requests of an instance are cut down *)
(* to the combinations a run is about.                                     *)
(***************************************************************************)
EXTENDS ClientDo, TLC

CONSTANTS Alone, Other,  \* the two calls
          First, Second2 \* the two operations

Faults == (IF client.optErr THEN 1 ELSE 0) + (IF client.baseURL THEN 0 ELSE 1)
          + (IF req[Alone].fault # "none" THEN 1 ELSE 0)

Refused == [op |-> Second2, method |-> "GET", keyed |-> FALSE, body |-> "none",
            out |-> FALSE, fault |-> "nil"]

\* Requests built by a user of Client.Do: a method that is never retried, a body
\* that only Do can replay, and everything that is wrong before a request is sent.
OwnRequests ==
    {r \in Requests :
        /\ r.op = First /\ ~r.out /\ r.fault # "check"
        /\ \/ r.method = "TRACE" /\ r.body = "none" /\ ~r.keyed
           \/ r.method = "POST" /\ r.body = "stream" /\ r.fault \in {"none", "read"}}

\* One call that matters, with every client; the other, of another operation,
\* is rejected.  unsafeRetries matters to POST only; the limiter is the same for
\* every method.
OneCall ==
    /\ req \in {[c \in Calls |-> IF c = Alone THEN r ELSE Refused] :
                  r \in OwnRequests \cup {a \in ApiRequests : a.op = First}}
    /\ client \in {k \in Clients : k.maxAttempts # 2 /\ ~(k.limited /\ k.unsafeRetries)}
    /\ client.unsafeRetries => req[Alone].method = "POST" /\ ~req[Alone].keyed
    /\ client.limited => req[Alone].method \in {"GET", "TRACE"}
    /\ Faults <= 1

\* A call of the installment client.
Installment ==
    /\ req \in {[c \in Calls |-> IF c = Alone THEN r ELSE Refused] :
                  r \in {a \in InstallmentRequests : a.op = First}}
    /\ client = InstallmentClient

\* Two calls of one operation under its key.
TwoCalls ==
    /\ req = [c \in Calls |-> [op |-> First, method |-> "POST", keyed |-> TRUE,
                               body |-> "none", out |-> TRUE, fault |-> "none"]]
    /\ client = [optErr |-> FALSE, baseURL |-> TRUE, unsafeRetries |-> FALSE,
                 limited |-> FALSE, maxAttempts |-> 2]

MCInit == (OneCall \/ Installment \/ TwoCalls) /\ Init

MCSpec == MCInit /\ [][Next]_vars
MCFairSpec == MCSpec /\ Fairness
=============================================================================
