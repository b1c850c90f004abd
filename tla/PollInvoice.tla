----------------------------- MODULE PollInvoice -----------------------------
(***************************************************************************)
(* Client.PollInvoice (acquiring/reconcile.go): callers poll one invoice   *)
(* until it is final, through a client that otelmonobank.WithTracer traces.*)
(* A poll is a call of InvoiceStatus, which the client may retry; every    *)
(* attempt runs the request hook before and the response hook after it.    *)
(*                                                                         *)
(* Time is discrete.  The bank moves the invoice, answers a request with   *)
(* the state of some moment of the call, or not at all; a caller may be    *)
(* canceled.                                                               *)
(***************************************************************************)
EXTENDS Naturals, FiniteSets, SpanStore

CONSTANTS Pollers,
          defaultPollInterval, minPollInterval,
          Options,      \* the PollOptions in use
          Moves,        \* the bank's transitions between states of the invoice
          MaxAttempts,  \* the attempts of one call of InvoiceStatus
          MaxTime,      \* bound: the clock stops here; every deadline lies before it
          MaxPolls,     \* bound: the calls of InvoiceStatus of each poller
          Cancelable,   \* the pollers whose caller may cancel
          Responses,    \* whose request a response carries: see responseHook
          None

InvoiceStatus == {"created", "processing", "hold", "success", "failure", "reversed", "expired"}

IsTerminal(s) == s \in {"success", "failure", "reversed", "expired"}

ASSUME PollAssumption ==
    /\ {minPollInterval, defaultPollInterval, MaxAttempts, MaxTime} \subseteq Nat \ {0}
    /\ MaxPolls \in [Pollers -> Nat] /\ Cancelable \subseteq Pollers
    /\ minPollInterval <= defaultPollInterval
    /\ Options \subseteq [Interval : Nat, Timeout : Nat, TreatHoldAsTerminal : BOOLEAN]
    /\ Responses \subseteq {"same", "other", "nil"}
    /\ None \notin Nat \cup InvoiceStatus

\* External: the bank leaves a final state only to reverse a success, and a hold
\* only to capture or to reverse it.
ASSUME BankAssumption ==
    \A s, t \in InvoiceStatus : <<s, t>> \in Moves =>
        /\ IsTerminal(s) => s = "success" /\ t = "reversed"
        /\ s = "hold" => t \in {"success", "reversed"}

VARIABLES now,
          invoice,   \* the bank's state of the invoice
          opts, pc, deadline, timer, last, result,   \* per poller
          polls,     \* per poller: the calls of InvoiceStatus so far
          polledAt,  \* per poller: when the last call ended, None before the first
          attempt,   \* per poller: the attempts of the current call
          served,    \* per poller: the state the bank put into its answer
          canceled,  \* pollers whose context is canceled
          store,     \* the span store
          missed,    \* requests whose last response carried another request
          crossed,   \* pollers in flight at one time with another
          guessed,   \* the most recent span was taken for an attempt of these
          strayed    \* some span was ended by another request, or lost its outcome

tracing == <<store, missed, crossed, guessed, strayed>>
vars == <<now, invoice, opts, pc, deadline, timer, last, result, polls, polledAt,
          attempt, served, canceled, tracing>>

terminal(p, s) == IsTerminal(s) \/ (opts[p].TreatHoldAsTerminal /\ s = "hold")

\* Seeded fault: the floor is not applied.
intervalUnclamped(o) == IF o.Interval = 0 THEN defaultPollInterval ELSE o.Interval

\* The pause between two polls.
interval(o) ==
    LET i == IF o.Interval = 0 THEN defaultPollInterval ELSE o.Interval
    IN  IF i < minPollInterval THEN minPollInterval ELSE i

Init ==
    /\ now = 0
    /\ invoice = "created"
    /\ opts \in [Pollers -> Options]
    /\ pc = [p \in Pollers |-> "idle"]
    /\ deadline = [p \in Pollers |-> None]
    /\ timer = [p \in Pollers |-> 0]
    /\ last = [p \in Pollers |-> None]
    /\ result = [p \in Pollers |-> None]
    /\ polls = [p \in Pollers |-> 0]
    /\ polledAt = [p \in Pollers |-> None]
    /\ attempt = [p \in Pollers |-> 0]
    /\ served = [p \in Pollers |-> None]
    /\ canceled = {}
    /\ store = newSpanStore
    /\ missed = {} /\ crossed = {}
    /\ guessed = FALSE /\ strayed = FALSE

-----------------------------------------------------------------------------
(* The bank, the clock and the caller's context: external.                 *)

InvoiceMoves ==
    \E s \in InvoiceStatus :
        <<invoice, s>> \in Moves /\ invoice' = s
    /\ UNCHANGED <<now, opts, pc, deadline, timer, last, result, polls, polledAt, attempt,
                   served, canceled, tracing>>

Tick ==
    /\ now < MaxTime
    /\ now' = now + 1
    /\ UNCHANGED <<invoice, opts, pc, deadline, timer, last, result, polls, polledAt,
                   attempt, served, canceled, tracing>>

Cancel(p) ==
    /\ pc[p] # "done" /\ p \in Cancelable \ canceled
    /\ canceled' = canceled \cup {p}
    /\ UNCHANGED <<now, invoice, opts, pc, deadline, timer, last, result, polls,
                   polledAt, attempt, served, tracing>>

\* The bank reads the invoice to answer a request.
Serve(p) ==
    /\ pc[p] = "flight" /\ served[p] = None
    /\ served' = [served EXCEPT ![p] = invoice]
    /\ UNCHANGED <<now, invoice, opts, pc, deadline, timer, last, result, polls,
                   polledAt, attempt, canceled, tracing>>

-----------------------------------------------------------------------------
(* The hooks of WithTracer.  The request of a poller's call is <<p, polls>>*)
(* for all its attempts; its spans are numbered by the attempt.            *)

Request(p) == <<p, polls'[p]>>
Span(p) == <<p, polls'[p], attempt'[p]>>
InFlight == {p \in Pollers : pc[p] = "flight"}

\* requestHook: close what an earlier attempt left, then open a span.
requestHook(p) ==
    /\ store' = set(pop(store, Request(p)), Request(p), Span(p))
    /\ strayed' = (strayed \/ Request(p) \in DOMAIN store.m \ missed)
    /\ missed' = missed \ {Request(p)}
    /\ crossed' = IF InFlight = {} THEN crossed ELSE crossed \cup InFlight \cup {p}
    /\ UNCHANGED guessed

\* The span of request r, if it is there, ends with the outcome of p's attempt.
Ends(p, r) ==
    strayed' = (strayed \/ (/\ r \in DOMAIN store.m
                            /\ store.m[r] # <<p, polls[p], attempt[p]>>))

\* responseHook pops by resp.Request, which is what the Doer put there: the
\* client's own request ("same"), or another one ("other": the copy net/http
\* sends when the http.Client has a Timeout, or the last hop of a redirect),
\* which is not in the store.  Without it ("nil", a Doer that leaves it out), and
\* without a response at all ("none"), it takes the most recent span.
responseHook(p, resp) ==
    LET own == <<p, polls[p]>> IN
    /\ \/ /\ resp = "same"
          /\ store' = pop(store, own) /\ Ends(p, own)
          /\ UNCHANGED <<missed, guessed>>
       \/ /\ resp = "other"
          /\ missed' = missed \cup {own}
          /\ UNCHANGED <<store, strayed, guessed>>
       \/ /\ resp \in {"nil", "none"}
          /\ \/ store.recent = <<>> /\ UNCHANGED <<store, strayed>>
             \/ /\ store.recent # <<>>
                /\ store' = popAny(store) /\ Ends(p, Last(store.recent))
          /\ guessed' = (guessed \/ p \in crossed)
          /\ UNCHANGED missed
    /\ crossed' = crossed \ {p}

-----------------------------------------------------------------------------

Return(p, err, inv) ==
    /\ pc' = [pc EXCEPT ![p] = "done"]
    /\ result' = [result EXCEPT ![p] = [err |-> err, inv |-> inv]]

\* The locals of a call that returns are gone.
Gone(p) ==
    /\ last' = [last EXCEPT ![p] = None]
    /\ served' = [served EXCEPT ![p] = None]
    /\ timer' = [timer EXCEPT ![p] = 0]
    /\ polledAt' = [polledAt EXCEPT ![p] = None]
    /\ attempt' = [attempt EXCEPT ![p] = 0]

Expired(p) == deadline[p] # None /\ now >= deadline[p]
CtxDone(p) == p \in canceled \/ Expired(p)

\* What ctx.Err() says: whichever came first; both may have.
CtxErrs(p) == (IF p \in canceled THEN {"Canceled"} ELSE {})
              \cup (IF Expired(p) THEN {"DeadlineExceeded"} ELSE {})

\* The head of PollInvoice: the identifier, the deadline, a timer that fires at once.
Start(p) ==
    /\ pc[p] = "idle"
    /\ now + opts[p].Timeout <= MaxTime
    /\ \/ Return(p, "ErrEmptyID", None) /\ UNCHANGED <<deadline, timer>>
       \/ /\ pc' = [pc EXCEPT ![p] = "select"]
          /\ deadline' = IF opts[p].Timeout = 0 THEN deadline
                         ELSE [deadline EXCEPT ![p] = now + opts[p].Timeout]
          /\ timer' = [timer EXCEPT ![p] = now]
          /\ UNCHANGED result
    /\ UNCHANGED <<now, invoice, opts, last, polls, polledAt, attempt, served, canceled,
                   tracing>>

\* Seeded fault: any end of the context is reported as the timeout.
StopAlwaysTimeout(p) ==
    /\ pc[p] = "select"
    /\ CtxDone(p)
    /\ Return(p, "ErrPollTimeout", last[p])
    /\ Gone(p)
    /\ UNCHANGED <<now, invoice, opts, deadline, polls, canceled, tracing>>

\* The ctx.Done branch of the select.
Stop(p) ==
    /\ pc[p] = "select"
    /\ \E e \in CtxErrs(p) :
         Return(p, IF e = "DeadlineExceeded" THEN "ErrPollTimeout" ELSE e, last[p])
    /\ Gone(p)
    /\ UNCHANGED <<now, invoice, opts, deadline, polls, canceled, tracing>>

\* An attempt: the hook, then the transport.
Send(p) ==
    /\ pc' = [pc EXCEPT ![p] = "flight"]
    /\ served' = [served EXCEPT ![p] = None]
    /\ requestHook(p)

\* The timer branch, possible also when the context is done: InvoiceStatus.
Poll(p) ==
    /\ pc[p] = "select" /\ timer[p] <= now
    /\ polls[p] < MaxPolls[p]
    /\ polls' = [polls EXCEPT ![p] = @ + 1]
    /\ attempt' = [attempt EXCEPT ![p] = 1]
    /\ Send(p)
    /\ UNCHANGED <<now, invoice, opts, deadline, timer, last, result, polledAt, canceled>>

\* The answer: return a final state, or set the timer again.
Answer(p) ==
    /\ pc[p] = "flight" /\ served[p] # None
    /\ \E resp \in Responses : responseHook(p, resp)
    /\ \/ /\ terminal(p, served[p])
          /\ Return(p, "nil", served[p])
          /\ Gone(p)
       \/ /\ ~terminal(p, served[p])
          /\ last' = [last EXCEPT ![p] = served[p]]
          /\ polledAt' = [polledAt EXCEPT ![p] = now]
          /\ timer' = [timer EXCEPT ![p] = now + interval(opts[p])]
          /\ pc' = [pc EXCEPT ![p] = "select"]
          /\ served' = [served EXCEPT ![p] = None]
          /\ UNCHANGED <<result, attempt>>
    /\ UNCHANGED <<now, invoice, opts, deadline, polls, canceled>>

\* A status that is not 200: final, or transient with attempts left.
AnswerBad(p) ==
    /\ pc[p] = "flight"
    /\ \E resp \in Responses : responseHook(p, resp)
    /\ \/ Return(p, "APIError", None) /\ Gone(p)
       \/ /\ attempt[p] < MaxAttempts
          /\ pc' = [pc EXCEPT ![p] = "backoff"]
          /\ UNCHANGED <<result, last, served, timer, polledAt, attempt>>
    /\ UNCHANGED <<now, invoice, opts, deadline, polls, canceled>>

\* Seeded fault: the context is not passed to the request.
TransportErrorBlind(p) ==
    /\ pc[p] = "flight" /\ ~CtxDone(p)
    /\ responseHook(p, "none")
    /\ Return(p, "transport", None)
    /\ Gone(p)
    /\ UNCHANGED <<now, invoice, opts, deadline, polls, canceled>>

\* The transport fails: the connection, or the context that ended.
TransportError(p) ==
    /\ pc[p] = "flight"
    /\ responseHook(p, "none")
    /\ \E e \in CtxErrs(p) \cup {"transport"} : Return(p, e, None)
    /\ Gone(p)
    /\ UNCHANGED <<now, invoice, opts, deadline, polls, canceled>>

\* The client's own retry, after any delay, or the context that ends its sleep.
Retry(p) ==
    /\ pc[p] = "backoff"
    /\ attempt' = [attempt EXCEPT ![p] = @ + 1]
    /\ UNCHANGED polls
    /\ Send(p)
    /\ UNCHANGED <<now, invoice, opts, deadline, timer, last, result, polledAt, canceled>>

StopRetrying(p) ==
    /\ pc[p] = "backoff"
    /\ \E e \in CtxErrs(p) : Return(p, e, None)
    /\ Gone(p)
    /\ UNCHANGED <<now, invoice, opts, deadline, polls, canceled, tracing>>

Next ==
    \/ InvoiceMoves \/ Tick
    \/ \E p \in Pollers :
         \/ Start(p) \/ Stop(p) \/ Poll(p) \/ Serve(p) \/ Answer(p) \/ AnswerBad(p)
         \/ TransportError(p) \/ Retry(p) \/ StopRetrying(p) \/ Cancel(p)

Spec == Init /\ [][Next]_vars

\* Time passes, the goroutine runs, and a context that is done ends the
\* transport's wait and both selects.  Nothing makes the bank answer.
Fairness ==
    /\ WF_vars(Tick)
    /\ \A p \in Pollers :
         /\ WF_vars(Start(p)) /\ WF_vars(Stop(p))
         /\ WF_vars(TransportError(p) /\ CtxDone(p))
         /\ WF_vars(Retry(p)) /\ WF_vars(StopRetrying(p))

FairSpec == Spec /\ Fairness

-----------------------------------------------------------------------------

Errors == {"nil", "ErrEmptyID", "ErrPollTimeout", "APIError", "transport", "Canceled",
           "DeadlineExceeded"}

HistoryOK ==
    /\ missed \subseteq Pollers \X Nat /\ crossed \subseteq Pollers
    /\ guessed \in BOOLEAN /\ strayed \in BOOLEAN

TypeOK ==
    /\ now \in Nat
    /\ invoice \in InvoiceStatus
    /\ opts \in [Pollers -> Options]
    /\ pc \in [Pollers -> {"idle", "select", "flight", "backoff", "done"}]
    /\ deadline \in [Pollers -> Nat \cup {None}] /\ timer \in [Pollers -> Nat]
    /\ last \in [Pollers -> InvoiceStatus \cup {None}]
    /\ served \in [Pollers -> InvoiceStatus \cup {None}]
    /\ result \in [Pollers -> {None} \cup [err : Errors, inv : InvoiceStatus \cup {None}]]
    /\ polls \in [Pollers -> Nat] /\ attempt \in [Pollers -> 0..MaxAttempts]
    /\ polledAt \in [Pollers -> Nat \cup {None}]
    /\ canceled \subseteq Pollers
    /\ HistoryOK
    /\ \A p \in Pollers :
         /\ polls[p] <= MaxPolls[p]
         /\ pc[p] # "done" => result[p] = None
         /\ pc[p] = "backoff" => attempt[p] < MaxAttempts

\* PollInvoice's contract ("the terminal InvoiceStatusResponse and nil on
\* success", ErrPollTimeout "before Timeout"): the state it returns with nil was
\* reached at the bank and is still the invoice's state, unless it was captured
\* or reversed since, and is one the caller waits for; a timeout is reported only
\* when the time is really over, and never when a final state has already been
\* seen.
ResultIsReal ==
    \A p \in Pollers : result[p] # None =>
        /\ result[p].err = "nil" =>
             /\ terminal(p, result[p].inv)
             /\ \/ invoice = result[p].inv
                \/ result[p].inv \in {"success", "hold"} /\ invoice = "reversed"
                \/ result[p].inv = "hold" /\ invoice = "success"
        /\ result[p].err = "ErrPollTimeout" =>
             /\ Expired(p)
             /\ result[p].inv # None => ~terminal(p, result[p].inv)

\* PollOptions.Interval ("values below 500ms are raised to 500ms to stay friendly
\* to the rate limiter"): a poll never starts sooner than the floor after the
\* answer of the one before, whatever the options and the races of the select.
PollSpacing ==
    [][\A p \in Pollers : (polls'[p] # polls[p] /\ polledAt[p] # None) =>
            now >= polledAt[p] + minPollInterval]_vars

\* A poll with a Timeout returns, although the bank may never answer.
PollEnds == \A p \in Pollers : (deadline[p] # None) ~> (pc[p] = "done")

\* The span store of WithTracer under concurrent calls: the order lists exactly
\* the stored requests, once each, so popAny takes a stored span (a nil span would
\* panic in End), and no span is stored twice.  Unless popAny was used for an
\* attempt that was in flight together with another, every span ends with the
\* outcome of its own attempt, and the store holds the spans of the attempts in
\* flight and of those whose response carried another request, no others.
\* Both exceptions are real and contradict the comments of the code: concurrent
\* calls that fail end each other's spans (otel.go:102-104 calls the most recent
\* one "correct"), and the spans of missed are removed by nothing but a retry of
\* the same request (otel.go:67-70: the map "never grows unbounded"), since
\* resp.Request is not always "the original *http.Request" (otel.go:96-97).
SpansSound ==
    /\ Range(store.recent) = DOMAIN store.m
    /\ Len(store.recent) = Cardinality(DOMAIN store.m)
    /\ \A r, q \in DOMAIN store.m : store.m[r] = store.m[q] => r = q
    /\ ~guessed =>
         /\ ~strayed
         /\ DOMAIN store.m = missed \cup {<<p, polls[p]>> : p \in InFlight}
         /\ \A p \in InFlight : store.m[<<p, polls[p]>>] = <<p, polls[p], attempt[p]>>
=============================================================================
