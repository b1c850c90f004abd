------------------------------ MODULE ClientDo ------------------------------
(***************************************************************************)
(* Client.Do (client.go) with the retry loop of retry.go: concurrent calls *)
(* that each perform one operation at the bank.  A call checks the client  *)
(* and the request, then attempts: wait for the limiter, rewind the body,  *)
(* send, classify the answer, sleep, again.                                *)
(*                                                                         *)
(* The network and the bank are external: a request may be executed before *)
(* or after the answer, also when the client only sees a 5xx, a transport  *)
(* error or its own cancellation.  A bank that is sent an Idempotency-Key  *)
(* executes the operation once.  Catalogue says which requests the API's   *)
(* methods send; a method's own checks come before Do.                     *)
(***************************************************************************)
EXTENDS RetryPolicy, Catalogue

CONSTANTS Calls,        \* concurrent calls of Do
          Ops,          \* the operations they perform at the bank
          Methods,      \* the HTTP methods in use
          Attempts,     \* the values of retry.maxAttempts
          baseDelay, maxDelay,   \* the rest of the retryPolicy
          Hints,        \* the Retry-After values of the bank, noRetryAfter excepted
          Bodies,       \* which kinds of request body occur
          None          \* no result yet

\* What Do can return.
Results == {"nil", "rejected", "ctx", "status", "transport", "decode"}

ASSUME ClientDoAssumption ==
    /\ Attempts \subseteq Int
    /\ {baseDelay, maxDelay} \subseteq Int
    /\ Hints \subseteq Nat
    /\ Bodies \subseteq {"none", "replayable", "stream"}
    /\ None \notin Results

VARIABLES client,    \* the Client value: optErr, baseURL, unsafeRetries, limiter, retry
          req,       \* each call's request
          pc,        \* where each call is
          body,      \* what req.Body still holds
          getBody,   \* req.GetBody is set
          attempt,   \* the loop variable i of run
          sent,      \* requests handed to the transport, per call
          tokens,    \* limiter tokens obtained, per call
          canceled,  \* calls whose context is canceled
          hint, delay,   \* the last transient answer's Retry-After and the sleep chosen
          slept,     \* how long each call has slept since SetAuth signed its request
          result,    \* what Do returned
          network,   \* requests on their way to, or inside, the bank
          executed   \* how often the bank performed each operation

vars == <<client, req, pc, body, getBody, attempt, sent, tokens, canceled, hint, delay,
          slept, result, network, executed>>

Clients == [optErr : BOOLEAN, baseURL : BOOLEAN, unsafeRetries : BOOLEAN,
            limited : BOOLEAN, maxAttempts : Attempts]

\* A request: which operation, its method, whether Idempotency-Key is set, its
\* body, whether the answer is decoded, and what is wrong with it before it is
\* sent ("check": the API method itself refuses its arguments).
Requests == [op : Ops, method : Methods, keyed : BOOLEAN, body : Bodies, out : BOOLEAN,
             fault : {"none", "nil", "absolute", "auth", "read", "check"}]

\* A request on the wire: the call, its attempt, the body, and whether the bank has
\* performed it.
Messages == [call : Calls, n : Nat, body : {"full", "consumed"}, done : BOOLEAN]

\* The request of an API method for operation o.
RequestOf(o, e, fault) ==
    [op |-> o, method |-> e.method, keyed |-> e.keyed, body |-> e.body, out |-> e.out,
     fault |-> fault]

Refusals(e) == IF e.checks = {} THEN {"none"} ELSE {"none", "check"}

ApiRequests ==
    UNION {{RequestOf(o, e, f) : o \in Ops, f \in Refusals(e)} : e \in CoreEndpoints}

\* The installment client, New and doJSON: one attempt, no limiter, and a base
\* URL that New has accepted.
InstallmentClient == [optErr |-> FALSE, baseURL |-> TRUE, unsafeRetries |-> FALSE,
                      limited |-> FALSE, maxAttempts |-> 0]

InstallmentRequests ==
    UNION {{RequestOf(o, e, f) : o \in Ops, f \in Refusals(e)} : e \in InstallmentEndpoints}

\* Every number of attempts Do may make.
Budget == IF client.maxAttempts < 1 THEN 1 ELSE client.maxAttempts

TypeOK ==
    /\ client \in Clients
    /\ req \in [Calls -> Requests]
    /\ pc \in [Calls -> {"idle", "wait", "ready", "flight", "sleep", "done"}]
    /\ body \in [Calls -> {"full", "consumed"}]
    /\ getBody \in [Calls -> BOOLEAN]
    /\ attempt \in [Calls -> 0..(Budget - 1)]
    /\ \A c \in Calls : pc[c] = "sleep" => attempt[c] < Budget - 1
    /\ {sent, tokens, delay, slept} \subseteq [Calls -> Nat]
    /\ canceled \subseteq Calls
    /\ hint \in [Calls -> Hints \cup {noRetryAfter}]
    /\ result \in [Calls -> Results \cup {None}]
    /\ network \subseteq Messages
    /\ executed \in [Ops -> Nat]

Init ==
    /\ client \in Clients
    /\ req \in [Calls -> Requests]
    /\ pc = [c \in Calls |-> "idle"]
    /\ body = [c \in Calls |-> "full"]
    /\ getBody = [c \in Calls |-> req[c].body = "replayable"]
    /\ attempt = [c \in Calls |-> 0]
    /\ sent = [c \in Calls |-> 0]
    /\ tokens = [c \in Calls |-> 0]
    /\ canceled = {}
    /\ hint = [c \in Calls |-> noRetryAfter]
    /\ delay = [c \in Calls |-> 0]
    /\ slept = [c \in Calls |-> 0]
    /\ result = [c \in Calls |-> None]
    /\ network = {}
    /\ executed = [o \in Ops |-> 0]

-----------------------------------------------------------------------------

Return(c, r) ==
    /\ pc' = [pc EXCEPT ![c] = "done"]
    /\ result' = [result EXCEPT ![c] = r]

\* Seeded fault: every method is retried.
shouldRetryAll(r) == TRUE

\* shouldRetry: which requests run may repeat.
shouldRetry(r) ==
    \/ r.method \in {"GET", "HEAD", "PUT", "DELETE", "OPTIONS"}
    \/ /\ r.method \in {"POST", "PATCH"}
       /\ client.unsafeRetries \/ r.keyed

\* The head of Do: the sticky option error, the request, the base URL, the
\* absolute-URL guard, SetAuth, buffering the body.
Do(c) ==
    /\ pc[c] = "idle"
    /\ IF client.optErr \/ ~client.baseURL \/ req[c].fault # "none"
       THEN /\ Return(c, "rejected")
            /\ UNCHANGED getBody
       ELSE /\ pc' = [pc EXCEPT ![c] = "wait"]
            /\ getBody' = [getBody EXCEPT ![c] = @ \/ req[c].body = "stream"]
            /\ UNCHANGED result
    /\ UNCHANGED <<slept, client, req, body, attempt, sent, tokens, canceled, hint, delay,
                   network, executed>>

\* limiter.Wait inside attemptFn returned nil; without a limiter nothing waits.
LimiterGrants(c) ==
    /\ pc[c] = "wait"
    /\ pc' = [pc EXCEPT ![c] = "ready"]
    /\ tokens' = IF client.limited THEN [tokens EXCEPT ![c] = @ + 1] ELSE tokens
    /\ UNCHANGED <<slept, client, req, body, getBody, attempt, sent, canceled, hint, delay,
                   result, network, executed>>

\* Seeded fault: a canceled context does not end the wait.
LimiterRefusesNever(c) == FALSE /\ UNCHANGED vars

\* limiter.Wait returned the context's error: not transient, so Do returns it.
LimiterRefuses(c) ==
    /\ pc[c] = "wait"
    /\ client.limited
    /\ c \in canceled
    /\ Return(c, "ctx")
    /\ UNCHANGED <<slept, client, req, body, getBody, attempt, sent, tokens, canceled, hint,
                   delay, network, executed>>

\* Seeded fault: the body is not rewound before a retry.
rewoundNot(c) == body[c]

\* What req.Body holds when attempt hands it to the transport: GetBody, set by
\* net/http or by Do itself for an arbitrary reader, rewinds it.
rewound(c) == IF getBody[c] THEN "full" ELSE body[c]

\* attempt up to http.Do: rewind the body and send it.  The transport refuses a
\* request whose context is already canceled.
Send(c) ==
    /\ pc[c] = "ready"
    /\ \/ /\ c \in canceled
          /\ Return(c, "transport")
          /\ UNCHANGED <<body, sent, network>>
       \/ /\ c \notin canceled
          /\ pc' = [pc EXCEPT ![c] = "flight"]
          /\ sent' = [sent EXCEPT ![c] = @ + 1]
          /\ network' = network \cup
                {[call |-> c, n |-> sent[c] + 1, body |-> rewound(c), done |-> FALSE]}
          /\ body' = IF req[c].body = "none" THEN body
                     ELSE [body EXCEPT ![c] = "consumed"]
          /\ UNCHANGED result
    /\ UNCHANGED <<slept, client, req, getBody, attempt, tokens, canceled, hint, delay,
                   executed>>

\* The call's request of the current attempt.
Pending(c) == {m \in network : m.call = c /\ m.n = sent[c]}

\* External: the bank performs the operation of a request it holds, at any time,
\* also long after the client stopped waiting; a key is honoured once.
Execute(m) ==
    LET r == req[m.call] IN
    /\ ~m.done
    /\ network' = (network \ {m}) \cup {[m EXCEPT !.done = TRUE]}
    /\ executed' = IF r.keyed /\ executed[r.op] > 0 THEN executed
                   ELSE [executed EXCEPT ![r.op] = @ + 1]
    /\ UNCHANGED <<slept, client, req, pc, body, getBody, attempt, sent, tokens, canceled,
                   hint, delay, result>>

-----------------------------------------------------------------------------

\* An expected status: only after the operation was performed.  A body that is
\* wanted may still fail to decode.
AnswerExpected(c) ==
    /\ pc[c] = "flight"
    /\ \E m \in Pending(c) : m.done /\ network' = network \ {m}
    /\ \E r \in {"nil"} \cup (IF req[c].out THEN {"decode"} ELSE {}) : Return(c, r)
    /\ UNCHANGED <<slept, client, req, body, getBody, attempt, sent, tokens, canceled, hint,
                   delay, executed>>

\* An unexpected status that is not transient: an APIError, returned at once.
\* The bank refused the request.
AnswerRefused(c) ==
    /\ pc[c] = "flight"
    /\ \E m \in Pending(c) : ~m.done /\ network' = network \ {m}
    /\ Return(c, "status")
    /\ UNCHANGED <<slept, client, req, body, getBody, attempt, sent, tokens, canceled, hint,
                   delay, executed>>

\* run after a transient failure: return it on the last attempt, otherwise
\* sleep for the delay.
afterTransient(c, h) ==
    /\ hint' = [hint EXCEPT ![c] = h]
    /\ IF attempt[c] < Budget - 1 /\ shouldRetry(req[c])
       THEN /\ \E d \in delays(baseDelay, maxDelay, attempt[c], h) :
                 delay' = [delay EXCEPT ![c] = d]
            /\ pc' = [pc EXCEPT ![c] = "sleep"]
            /\ UNCHANGED result
       ELSE Return(c, "status") /\ UNCHANGED delay

\* A 429 (never performed) or a 5xx (perhaps performed, perhaps later).
AnswerTransient(c, h) ==
    /\ pc[c] = "flight"
    /\ \/ UNCHANGED network
       \/ \E m \in Pending(c) : network' = network \ {m}
    /\ afterTransient(c, h)
    /\ UNCHANGED <<slept, client, req, body, getBody, attempt, sent, tokens, canceled,
                   executed>>

\* http.Do failed: the connection broke or the context ended, whatever the bank
\* did with the request.  Returned as it is, never retried.
TransportError(c) ==
    /\ pc[c] = "flight"
    /\ Return(c, "transport")
    /\ UNCHANGED <<slept, client, req, body, getBody, attempt, sent, tokens, canceled, hint,
                   delay, network, executed>>

\* Seeded fault: the limiter is asked once per call instead of once per attempt.
RetryWithoutToken(c) ==
    /\ pc[c] = "sleep"
    /\ attempt' = [attempt EXCEPT ![c] = @ + 1]
    /\ slept' = [slept EXCEPT ![c] = @ + delay[c]]
    /\ pc' = [pc EXCEPT ![c] = "ready"]
    /\ UNCHANGED <<client, req, body, getBody, sent, tokens, canceled, hint, delay, result,
                   network, executed>>

\* The timer branch of run's select; possible also when the context is canceled.
Retry(c) ==
    /\ pc[c] = "sleep"
    /\ attempt' = [attempt EXCEPT ![c] = @ + 1]
    /\ slept' = [slept EXCEPT ![c] = @ + delay[c]]
    /\ pc' = [pc EXCEPT ![c] = "wait"]
    /\ UNCHANGED <<client, req, body, getBody, sent, tokens, canceled, hint, delay, result,
                   network, executed>>

\* The ctx.Done branch of run's select.
StopRetrying(c) ==
    /\ pc[c] = "sleep"
    /\ c \in canceled
    /\ Return(c, "ctx")
    /\ UNCHANGED <<slept, client, req, body, getBody, attempt, sent, tokens, canceled, hint,
                   delay, network, executed>>

Cancel(c) ==
    /\ pc[c] # "done"
    /\ c \notin canceled
    /\ canceled' = canceled \cup {c}
    /\ UNCHANGED <<slept, client, req, pc, body, getBody, attempt, sent, tokens, hint,
                   delay, result, network, executed>>

Next ==
    \/ \E c \in Calls :
         \/ Do(c) \/ LimiterGrants(c) \/ LimiterRefuses(c) \/ Send(c)
         \/ AnswerExpected(c) \/ AnswerRefused(c) \/ TransportError(c)
         \/ \E h \in Hints \cup {noRetryAfter} : AnswerTransient(c, h)
         \/ Retry(c) \/ StopRetrying(c) \/ Cancel(c)
    \/ \E m \in network : Execute(m)

Spec == Init /\ [][Next]_vars

\* A canceled context ends the limiter's wait, the transport's wait and the
\* sleep; the goroutine itself is scheduled.  Nothing makes the bank answer or
\* the limiter grant: the default http.Client has no timeout.
Fairness ==
    \A c \in Calls :
        /\ WF_vars(Do(c)) /\ WF_vars(Send(c)) /\ WF_vars(LimiterRefuses(c))
        /\ WF_vars(LimiterGrants(c) /\ ~client.limited)
        /\ WF_vars(TransportError(c) /\ c \in canceled)
        /\ WF_vars(Retry(c) \/ StopRetrying(c))

FairSpec == Spec /\ Fairness

-----------------------------------------------------------------------------

\* Calls of one operation all carry its key, or it has a single call.
KeyDiscipline(o) ==
    LET of == {c \in Calls : req[c].op = o}
    IN  (\A c, d \in of : c = d) \/ \A c \in of : req[c].keyed

Unsafe(m) == m \notin {"GET", "HEAD", "PUT", "DELETE", "OPTIONS"}

\* The operations the abstract specification lets the bank perform again.
MayRepeat ==
    {o \in Ops : client.unsafeRetries \/ ~KeyDiscipline(o)
                 \/ \E c \in Calls : req[c].op = o /\ ~Unsafe(req[c].method)}

Phase(c) == IF pc[c] = "idle" THEN "new"
            ELSE IF result[c] = None THEN "live"
            ELSE IF result[c] = "nil" THEN "ok"
            ELSE IF result[c] = "rejected" THEN "rejected"
            ELSE "failed"

Abstract == INSTANCE Promise WITH
    op <- [c \in Calls |-> req[c].op], mayRepeat <- MayRepeat,
    phase <- [c \in Calls |-> Phase(c)], effects <- executed

\* Do implements Promise (shouldRetry: "a retry loop after 502/504 can create a
\* duplicate operation"): a POST or PATCH is performed at most once, with a key
\* also across concurrent calls, unless WithUnsafeRetries; Do returns nil only
\* for an operation the bank has performed; a call that fails its checks, also
\* those of the API method, has no effect.
KeepsPromise == Abstract!Spec

AddProfiles ==
    {Profile(e) : e \in {x \in CoreEndpoints \cup InstallmentEndpoints : x.name \in Adds}}

\* No method of the API that moves money or creates something (Adds) is ever
\* performed twice by one call, whatever the network does: its method or its
\* Idempotency-Key keeps it out of the retry loop or makes the repeat harmless.
AddsOnce ==
    \A c \in Calls :
        (/\ Profile(req[c]) \in AddProfiles
         /\ ~client.unsafeRetries
         /\ \A d \in Calls \ {c} : req[d].op # req[c].op)
        => executed[req[c].op] <= 1

\* The headers of a request are set once per Do, so a retry carries the X-Time
\* and X-Sign of the first attempt: the sleeps between them, which the server's
\* Retry-After influences, must not add up beyond what maxDelay allows.  Waits for
\* the limiter and for answers are not counted: they age the signature further,
\* and only the context bounds them.
SignatureAge ==
    (maxDelay > 0) =>
        \A c \in Calls : pc[c] = "flight" => slept[c] <= (Budget - 1) * maxDelay

\* The comment in Do ("so retries also consume a token"): with a limiter, the
\* requests put on the wire never outnumber the tokens obtained.
TokenPerAttempt ==
    client.limited => \A c \in Calls : sent[c] <= tokens[c]

\* Every attempt carries the whole body, although the transport consumed it in
\* the attempt before ("Reset the body before each attempt").
BodyIntact ==
    \A m \in network : m.body = "full"

\* A retry never comes sooner than the server's hint or the policy's maxDelay,
\* whichever is less, and a policy with a base never retries instantly unasked.
HintOrCeiling ==
    \A c \in Calls : pc[c] = "sleep" =>
        /\ maxDelay > 0 => delay[c] >= Min2(hint[c], maxDelay)
        /\ maxDelay <= 0 => delay[c] >= hint[c]
        /\ (hint[c] = noRetryAfter /\ baseDelay > 0) => delay[c] > 0

\* A canceled call returns, wherever it is blocked ("Context cancellation exits
\* immediately").
CanceledReturns ==
    \A c \in Calls : (c \in canceled) ~> (pc[c] = "done")
=============================================================================
