-------------------------- MODULE PollInvoiceProofs --------------------------
(***************************************************************************)
(* PollInvoice for any number of callers, any options and polls, and any   *)
(* bank that keeps to BankAssumption: what a caller is told is true, polls *)
(* keep their distance, and the span store of WithTracer stays sound.      *)
(***************************************************************************)
EXTENDS PollInvoice, FiniteSetTheorems, SequenceTheorems, TLAPS

-----------------------------------------------------------------------------
(* The type invariant. *)

\* The pause between two polls is at least the floor.
LEMMA IntervalFloor ==
    ASSUME NEW o \in Options
    PROVE  interval(o) \in Nat /\ interval(o) >= minPollInterval
  BY PollAssumption DEF interval

\* ctx.Err() is one of two errors, and DeadlineExceeded means the time is over.
LEMMA CtxErrsAre ==
    ASSUME NEW p, NEW e \in CtxErrs(p)
    PROVE  /\ e \in {"Canceled", "DeadlineExceeded"}
           /\ e = "DeadlineExceeded" => Expired(p)
  BY DEF CtxErrs

\* The variables of the hooks do not matter to a caller.
untraced == <<now, invoice, opts, pc, deadline, timer, last, result, polls, polledAt,
              attempt, served, canceled>>

\* The result record of a call that returns.
LEMMA ReturnTyped ==
    ASSUME TypeOK, NEW p \in Pollers, NEW err \in Errors, NEW inv \in InvoiceStatus \cup {None},
           Return(p, err, inv)
    PROVE  /\ pc' \in [Pollers -> {"idle", "select", "flight", "backoff", "done"}]
           /\ result' \in [Pollers -> {None} \cup [err : Errors, inv : InvoiceStatus \cup {None}]]
           /\ pc'[p] = "done" /\ result'[p] = [err |-> err, inv |-> inv]
           /\ \A q \in Pollers \ {p} : pc'[q] = pc[q] /\ result'[q] = result[q]
  BY DEF TypeOK, Return

\* The locals of a call that returns.
LEMMA GoneTyped ==
    ASSUME TypeOK, NEW p \in Pollers, Gone(p)
    PROVE  /\ last' \in [Pollers -> InvoiceStatus \cup {None}]
           /\ served' \in [Pollers -> InvoiceStatus \cup {None}]
           /\ timer' \in [Pollers -> Nat] /\ polledAt' \in [Pollers -> Nat \cup {None}]
           /\ attempt' \in [Pollers -> 0..MaxAttempts]
           /\ last'[p] = None /\ served'[p] = None /\ polledAt'[p] = None
           /\ \A q \in Pollers \ {p} :
                /\ last'[q] = last[q] /\ served'[q] = served[q] /\ timer'[q] = timer[q]
                /\ polledAt'[q] = polledAt[q] /\ attempt'[q] = attempt[q]
  BY PollAssumption DEF TypeOK, Gone

\* A call that returns: the rest of its state stays.
Finish(p, err, inv) ==
    /\ Return(p, err, inv) /\ Gone(p)
    /\ UNCHANGED <<now, invoice, opts, deadline, polls, canceled>>
    /\ HistoryOK'

\* A call that returns keeps the types.
LEMMA FinishTyped ==
    ASSUME TypeOK, NEW p \in Pollers, NEW err \in Errors, NEW inv \in InvoiceStatus \cup {None},
           Finish(p, err, inv)
    PROVE  TypeOK'
  <1>1. Return(p, err, inv) /\ Gone(p)
    BY DEF Finish
  <1>2. /\ now' \in Nat /\ invoice' \in InvoiceStatus /\ opts' \in [Pollers -> Options]
        /\ deadline' \in [Pollers -> Nat \cup {None}] /\ polls' \in [Pollers -> Nat]
        /\ canceled' \subseteq Pollers /\ HistoryOK'
    BY DEF Finish, TypeOK
  <1>3. \A q \in Pollers : /\ polls'[q] <= MaxPolls[q]
                           /\ pc'[q] # "done" => result'[q] = None
                           /\ pc'[q] = "backoff" => attempt'[q] < MaxAttempts
    <2> SUFFICES ASSUME NEW q \in Pollers
                 PROVE  /\ polls'[q] <= MaxPolls[q]
                        /\ pc'[q] # "done" => result'[q] = None
                        /\ pc'[q] = "backoff" => attempt'[q] < MaxAttempts
      OBVIOUS
    <2>1. polls' = polls /\ polls[q] <= MaxPolls[q]
      BY DEF Finish, TypeOK
    <2>2. CASE q = p
      BY <1>1, <2>1, <2>2, ReturnTyped
    <2>3. CASE q # p
      <3>1. pc'[q] = pc[q] /\ result'[q] = result[q] /\ attempt'[q] = attempt[q]
        BY <1>1, <2>3, ReturnTyped, GoneTyped
      <3> QED BY <2>1, <3>1 DEF TypeOK
    <2> QED BY <2>2, <2>3
  <1> QED BY <1>1, <1>2, <1>3, ReturnTyped, GoneTyped DEF TypeOK

\* The hooks keep the types of their histories.
LEMMA HooksTyped ==
    ASSUME TypeOK, NEW p \in Pollers,
           requestHook(p) \/ (\E resp : responseHook(p, resp)) \/ UNCHANGED tracing
    PROVE  HistoryOK'
  <1>1. CASE requestHook(p)
    BY <1>1 DEF TypeOK, HistoryOK, requestHook, InFlight
  <1>2. CASE \E resp : responseHook(p, resp)
    <2>1. <<p, polls[p]>> \in Pollers \X Nat
      BY DEF TypeOK
    <2> QED BY <1>2, <2>1 DEF TypeOK, HistoryOK, responseHook, Ends
  <1>3. CASE UNCHANGED tracing
    BY <1>3 DEF TypeOK, HistoryOK, tracing
  <1> QED BY <1>1, <1>2, <1>3

\* How an ending step of a call finishes it.
LEMMA Finishes ==
    ASSUME TypeOK, NEW p \in Pollers
    PROVE  /\ Stop(p) => \/ Finish(p, "Canceled", last[p])
                         \/ Expired(p) /\ Finish(p, "ErrPollTimeout", last[p])
           /\ TransportError(p) \/ StopRetrying(p)
                => \E e \in {"Canceled", "DeadlineExceeded", "transport"} : Finish(p, e, None)
           /\ Answer(p) => \/ served[p] # None /\ terminal(p, served[p]) /\ Finish(p, "nil", served[p])
                           \/ pc'[p] = "select"
           /\ AnswerBad(p) => \/ Finish(p, "APIError", None)
                              \/ pc'[p] = "backoff"
  <1> USE HooksTyped DEF Finish
  <1>1. Stop(p) => \/ Finish(p, "Canceled", last[p])
                   \/ Expired(p) /\ Finish(p, "ErrPollTimeout", last[p])
    <2> SUFFICES ASSUME Stop(p) PROVE \/ Finish(p, "Canceled", last[p])
                                      \/ Expired(p) /\ Finish(p, "ErrPollTimeout", last[p])
      OBVIOUS
    <2>1. PICK e \in CtxErrs(p) : Return(p, IF e = "DeadlineExceeded" THEN "ErrPollTimeout" ELSE e, last[p])
      BY DEF Stop
    <2>2. e = "Canceled" \/ (e = "DeadlineExceeded" /\ Expired(p))
      BY CtxErrsAre
    <2>3. Gone(p) /\ UNCHANGED <<now, invoice, opts, deadline, polls, canceled, tracing>>
      BY DEF Stop
    <2> QED BY <2>1, <2>2, <2>3
  <1>2. TransportError(p) \/ StopRetrying(p)
            => \E e \in {"Canceled", "DeadlineExceeded", "transport"} : Finish(p, e, None)
    <2> SUFFICES ASSUME TransportError(p) \/ StopRetrying(p)
                 PROVE  \E e \in {"Canceled", "DeadlineExceeded", "transport"} : Finish(p, e, None)
      OBVIOUS
    <2>1. PICK e \in CtxErrs(p) \cup {"transport"} : Return(p, e, None)
      BY DEF TransportError, StopRetrying
    <2>2. e \in {"Canceled", "DeadlineExceeded", "transport"}
      BY CtxErrsAre
    <2>3. Gone(p) /\ UNCHANGED <<now, invoice, opts, deadline, polls, canceled>>
      BY DEF TransportError, StopRetrying
    <2>4. HistoryOK'
      BY DEF TransportError, StopRetrying
    <2> QED BY <2>1, <2>2, <2>3, <2>4
  <1>3. Answer(p) => \/ served[p] # None /\ terminal(p, served[p]) /\ Finish(p, "nil", served[p])
                     \/ pc'[p] = "select"
    BY DEF Answer, TypeOK
  <1>4. AnswerBad(p) => \/ Finish(p, "APIError", None)
                        \/ pc'[p] = "backoff"
    BY DEF AnswerBad, TypeOK
  <1> QED BY <1>1, <1>2, <1>3, <1>4

\* What the step of an answer that is not final does.
LEMMA AnswerAgain ==
    ASSUME TypeOK, NEW p \in Pollers, Answer(p), pc'[p] = "select"
    PROVE  /\ served[p] # None /\ pc[p] = "flight" /\ ~terminal(p, served[p])
           /\ last' = [last EXCEPT ![p] = served[p]]
           /\ polledAt' = [polledAt EXCEPT ![p] = now]
           /\ timer' = [timer EXCEPT ![p] = now + interval(opts[p])]
           /\ pc' = [pc EXCEPT ![p] = "select"]
           /\ served' = [served EXCEPT ![p] = None]
           /\ UNCHANGED <<result, attempt, now, invoice, opts, deadline, polls, canceled>>
  <1>1. ~Return(p, "nil", served[p])
    BY DEF Return, TypeOK
  <1> QED BY <1>1 DEF Answer

\* What the step of a transient error status does.
LEMMA AnswerBadAgain ==
    ASSUME TypeOK, NEW p \in Pollers, AnswerBad(p), pc'[p] = "backoff"
    PROVE  /\ pc[p] = "flight" /\ attempt[p] < MaxAttempts
           /\ pc' = [pc EXCEPT ![p] = "backoff"]
           /\ UNCHANGED <<result, last, served, timer, polledAt, attempt, now, invoice, opts,
                          deadline, polls, canceled>>
  <1>1. ~Return(p, "APIError", None)
    BY DEF Return, TypeOK
  <1> QED BY <1>1 DEF AnswerBad

\* What the head of PollInvoice does.
LEMMA StartDoes ==
    ASSUME TypeOK, NEW p \in Pollers, Start(p)
    PROVE  /\ pc[p] = "idle" /\ now + opts[p].Timeout \in Nat
           /\ UNCHANGED <<now, invoice, opts, last, polls, polledAt, attempt, served, canceled,
                          tracing>>
           /\ \/ Return(p, "ErrEmptyID", None) /\ UNCHANGED <<deadline, timer>>
              \/ /\ pc' = [pc EXCEPT ![p] = "select"] /\ timer' = [timer EXCEPT ![p] = now]
                 /\ deadline' = deadline \/ deadline' = [deadline EXCEPT ![p] = now + opts[p].Timeout]
                 /\ UNCHANGED result
  BY PollAssumption DEF Start, TypeOK

\* The steps of a call that goes on.
LEMMA GoesOnTyped ==
    ASSUME TypeOK, NEW p \in Pollers,
           \/ Start(p) \/ Poll(p) \/ Serve(p) \/ Retry(p) \/ Cancel(p)
           \/ Answer(p) /\ pc'[p] = "select"
           \/ AnswerBad(p) /\ pc'[p] = "backoff"
    PROVE  TypeOK'
  <1> USE PollAssumption
  <1>1. CASE Start(p)
    <2>1. CASE Return(p, "ErrEmptyID", None) /\ UNCHANGED <<deadline, timer>>
      <3>1. "ErrEmptyID" \in Errors /\ None \in InvoiceStatus \cup {None}
        BY DEF Errors
      <3> QED BY <1>1, <2>1, <3>1, StartDoes, ReturnTyped, ZenonT(30) DEF TypeOK, tracing, HistoryOK
    <2>2. CASE /\ pc' = [pc EXCEPT ![p] = "select"] /\ timer' = [timer EXCEPT ![p] = now]
               /\ deadline' = deadline \/ deadline' = [deadline EXCEPT ![p] = now + opts[p].Timeout]
               /\ UNCHANGED result
      <3>1. now + opts[p].Timeout \in Nat
        BY <1>1, StartDoes
      <3>2. deadline' \in [Pollers -> Nat \cup {None}] /\ timer' \in [Pollers -> Nat]
        BY <2>2, <3>1 DEF TypeOK
      <3> QED BY <1>1, <2>2, <3>2, StartDoes DEF TypeOK, tracing, HistoryOK
    <2> QED BY <1>1, <2>1, <2>2, StartDoes
  <1>2. CASE Poll(p)
    <2>1. HistoryOK'
      BY <1>2, HooksTyped DEF Poll, Send
    <2>2. polls[p] + 1 \in Nat /\ polls[p] + 1 <= MaxPolls[p] /\ 1 \in 0..MaxAttempts
      BY <1>2 DEF Poll, TypeOK
    <2> QED BY <1>2, <2>1, <2>2 DEF Poll, Send, TypeOK
  <1>3. CASE Serve(p)
    BY <1>3 DEF Serve, TypeOK, tracing, HistoryOK
  <1>4. CASE Retry(p)
    <2>1. HistoryOK'
      BY <1>4, HooksTyped DEF Retry, Send
    <2>2. attempt[p] + 1 \in 0..MaxAttempts
      BY <1>4 DEF Retry, TypeOK
    <2> QED BY <1>4, <2>1, <2>2 DEF Retry, Send, TypeOK
  <1>5. CASE Cancel(p)
    BY <1>5 DEF Cancel, TypeOK, tracing, HistoryOK
  <1>6. CASE Answer(p) /\ pc'[p] = "select"
    <2>1. HistoryOK'
      BY <1>6, HooksTyped DEF Answer
    <2>2. opts[p] \in Options /\ now + interval(opts[p]) \in Nat
      BY IntervalFloor DEF TypeOK
    <2>3. /\ last' \in [Pollers -> InvoiceStatus \cup {None}]
          /\ served' \in [Pollers -> InvoiceStatus \cup {None}]
          /\ timer' \in [Pollers -> Nat] /\ polledAt' \in [Pollers -> Nat \cup {None}]
      <3>1. /\ last' = [last EXCEPT ![p] = served[p]]
            /\ polledAt' = [polledAt EXCEPT ![p] = now]
            /\ timer' = [timer EXCEPT ![p] = now + interval(opts[p])]
            /\ served' = [served EXCEPT ![p] = None]
        BY <1>6, AnswerAgain
      <3> QED BY <2>2, <3>1 DEF TypeOK
    <2>4. /\ pc' = [pc EXCEPT ![p] = "select"] /\ pc[p] = "flight"
          /\ UNCHANGED <<result, attempt, now, invoice, opts, deadline, polls, canceled>>
      BY <1>6, AnswerAgain
    <2>5. \A q \in Pollers : /\ polls'[q] <= MaxPolls[q]
                             /\ pc'[q] # "done" => result'[q] = None
                             /\ pc'[q] = "backoff" => attempt'[q] < MaxAttempts
      BY <2>4 DEF TypeOK
    <2> QED BY <2>1, <2>3, <2>4, <2>5 DEF TypeOK
  <1>7. CASE AnswerBad(p) /\ pc'[p] = "backoff"
    <2>1. HistoryOK'
      BY <1>7, HooksTyped DEF AnswerBad
    <2> QED BY <1>7, <2>1, AnswerBadAgain DEF TypeOK
  <1> QED BY <1>1, <1>2, <1>3, <1>4, <1>5, <1>6, <1>7

\* A step either finishes a call, lets it go on, or is of the bank or the clock.
LEMMA PollNextSplit ==
    ASSUME TypeOK, Next
    PROVE  \/ InvoiceMoves \/ Tick
           \/ \E p \in Pollers :
                \/ \E err \in Errors, inv \in InvoiceStatus \cup {None} :
                     /\ Finish(p, err, inv)
                     /\ err = "nil" => served[p] = inv /\ inv # None /\ terminal(p, inv)
                     /\ err = "ErrPollTimeout" => Expired(p) /\ inv = last[p]
                \/ Start(p) \/ Poll(p) \/ Serve(p) \/ Retry(p) \/ Cancel(p)
                \/ Answer(p) /\ pc'[p] = "select"
                \/ AnswerBad(p) /\ pc'[p] = "backoff"
  <1>1. SUFFICES ASSUME NEW p \in Pollers,
                        \/ Stop(p) \/ Answer(p) \/ AnswerBad(p) \/ TransportError(p)
                        \/ StopRetrying(p),
                        ~(Answer(p) /\ pc'[p] = "select"),
                        ~(AnswerBad(p) /\ pc'[p] = "backoff")
                 PROVE  \E err \in Errors, inv \in InvoiceStatus \cup {None} :
                           /\ Finish(p, err, inv)
                           /\ err = "nil" => served[p] = inv /\ inv # None /\ terminal(p, inv)
                           /\ err = "ErrPollTimeout" => Expired(p) /\ inv = last[p]
    BY DEF Next
  <1>2. last[p] \in InvoiceStatus \cup {None} /\ served[p] \in InvoiceStatus \cup {None}
    BY DEF TypeOK
  <1>3. CASE Stop(p)
    BY <1>2, <1>3, Finishes DEF Errors
  <1>4. CASE TransportError(p) \/ StopRetrying(p)
    BY <1>4, Finishes DEF Errors
  <1>5. CASE Answer(p)
    BY <1>1, <1>2, <1>5, Finishes DEF Errors
  <1>6. CASE AnswerBad(p)
    BY <1>1, <1>6, Finishes DEF Errors
  <1> QED BY <1>1, <1>3, <1>4, <1>5, <1>6

\* Every step keeps the types.
LEMMA PollTyped ==
    ASSUME TypeOK, [Next]_vars
    PROVE  TypeOK'
  <1>1. CASE UNCHANGED vars
    BY <1>1 DEF vars, tracing, TypeOK, HistoryOK
  <1>2. CASE InvoiceMoves
    BY <1>2 DEF InvoiceMoves, TypeOK, tracing, HistoryOK
  <1>3. CASE Tick
    BY <1>3 DEF Tick, TypeOK, tracing, HistoryOK
  <1> QED BY <1>1, <1>2, <1>3, PollNextSplit, FinishTyped, GoesOnTyped

\* The types, from the first state and over every step.
THEOREM PollTypeCorrect == Spec => []TypeOK
  <1>1. Init => TypeOK
    <2> SUFFICES ASSUME Init PROVE TypeOK
      OBVIOUS
    <2>1. /\ now \in Nat /\ invoice \in InvoiceStatus /\ opts \in [Pollers -> Options]
          /\ canceled \subseteq Pollers /\ HistoryOK
      BY DEF Init, InvoiceStatus, HistoryOK
    <2>2. /\ pc \in [Pollers -> {"idle", "select", "flight", "backoff", "done"}]
          /\ deadline \in [Pollers -> Nat \cup {None}] /\ timer \in [Pollers -> Nat]
          /\ last \in [Pollers -> InvoiceStatus \cup {None}]
          /\ served \in [Pollers -> InvoiceStatus \cup {None}]
          /\ result \in [Pollers -> {None} \cup [err : Errors, inv : InvoiceStatus \cup {None}]]
          /\ polls \in [Pollers -> Nat] /\ polledAt \in [Pollers -> Nat \cup {None}]
      BY DEF Init
    <2>3. attempt \in [Pollers -> 0..MaxAttempts]
      BY PollAssumption DEF Init
    <2>4. \A p \in Pollers : polls[p] <= MaxPolls[p] /\ result[p] = None /\ pc[p] # "backoff"
      BY PollAssumption DEF Init
    <2> QED BY <2>1, <2>2, <2>3, <2>4 DEF TypeOK
  <1> QED BY <1>1, PollTyped, PTL DEF Spec

-----------------------------------------------------------------------------
(* The distance between two polls. *)

\* A caller that waits for its timer has set it at least the floor after its last
\* answer.
Spaced ==
    \A p \in Pollers :
        /\ pc[p] = "idle" => polledAt[p] = None
        /\ (pc[p] = "select" /\ polledAt[p] # None) =>
             timer[p] >= polledAt[p] + minPollInterval

\* Every step keeps Spaced: only an answer sets polledAt, and it sets the timer too.
LEMMA SpacedStep ==
    ASSUME TypeOK, Spaced, Next
    PROVE  Spaced'
  <1> USE PollAssumption DEF Spaced
  <1>1. CASE InvoiceMoves \/ Tick
    BY <1>1 DEF InvoiceMoves, Tick
  <1>2. ASSUME NEW p \in Pollers, NEW err \in Errors, NEW inv \in InvoiceStatus \cup {None},
               Finish(p, err, inv)
        PROVE  Spaced'
    <2>1. Return(p, err, inv) /\ Gone(p)
      BY <1>2 DEF Finish
    <2>2. pc'[p] = "done" /\ \A q \in Pollers \ {p} : pc'[q] = pc[q]
      BY <2>1, ReturnTyped
    <2>3. \A q \in Pollers \ {p} : polledAt'[q] = polledAt[q] /\ timer'[q] = timer[q]
      BY <2>1, GoneTyped
    <2> QED BY <2>2, <2>3
  <1>3. ASSUME NEW p \in Pollers, Start(p) PROVE Spaced'
    <2>1. CASE Return(p, "ErrEmptyID", None) /\ UNCHANGED <<deadline, timer>>
      BY <1>3, <2>1, StartDoes DEF Return, TypeOK
    <2>2. CASE pc' = [pc EXCEPT ![p] = "select"] /\ timer' = [timer EXCEPT ![p] = now]
      <3>1. polledAt[p] = None
        BY <1>3, StartDoes
      <3> QED BY <1>3, <2>2, <3>1, StartDoes DEF TypeOK
    <2> QED BY <1>3, <2>1, <2>2, StartDoes
  <1>4. ASSUME NEW p \in Pollers, Poll(p) \/ Retry(p) PROVE Spaced'
    BY <1>4 DEF Poll, Retry, Send, TypeOK
  <1>5. ASSUME NEW p \in Pollers, Serve(p) \/ Cancel(p) PROVE Spaced'
    BY <1>5 DEF Serve, Cancel
  <1>6. ASSUME NEW p \in Pollers, Answer(p), pc'[p] = "select" PROVE Spaced'
    <2>1. opts[p] \in Options /\ interval(opts[p]) \in Nat /\ interval(opts[p]) >= minPollInterval
      BY IntervalFloor DEF TypeOK
    <2> QED BY <1>6, <2>1, AnswerAgain DEF TypeOK
  <1>7. ASSUME NEW p \in Pollers, AnswerBad(p), pc'[p] = "backoff" PROVE Spaced'
    BY <1>7, AnswerBadAgain DEF TypeOK
  <1> QED BY <1>1, <1>2, <1>3, <1>4, <1>5, <1>6, <1>7, PollNextSplit

\* The invariant behind PollSpacing.
THEOREM SpacedHolds == Spec => []Spaced
  <1>1. Init => Spaced
    BY DEF Init, Spaced
  <1>2. TypeOK /\ Spaced /\ [Next]_vars => Spaced'
    <2>1. Spaced /\ UNCHANGED vars => Spaced'
      BY DEF vars, Spaced
    <2> QED BY <2>1, SpacedStep
  <1> QED BY <1>1, <1>2, PollTypeCorrect, PTL DEF Spec

\* Only Poll counts a poll.
LEMMA OnlyPollCounts ==
    ASSUME TypeOK, [Next]_vars, NEW p \in Pollers, polls'[p] # polls[p]
    PROVE  pc[p] = "select" /\ timer[p] <= now
  <1>1. ASSUME UNCHANGED polls PROVE FALSE
    BY <1>1
  <1>2. PICK q \in Pollers : Poll(q)
    <2>1. CASE UNCHANGED vars
      BY <1>1, <2>1 DEF vars
    <2>2. CASE InvoiceMoves \/ Tick
      BY <1>1, <2>2 DEF InvoiceMoves, Tick
    <2>3. ASSUME NEW q \in Pollers, NEW err, NEW inv, Finish(q, err, inv) PROVE FALSE
      BY <1>1, <2>3 DEF Finish
    <2>4. ASSUME NEW q \in Pollers, Start(q) \/ Serve(q) \/ Retry(q) \/ Cancel(q) PROVE FALSE
      BY <1>1, <2>4 DEF Start, Serve, Retry, Cancel
    <2>5. ASSUME NEW q \in Pollers, Answer(q) \/ AnswerBad(q) PROVE FALSE
      BY <1>1, <2>5 DEF Answer, AnswerBad
    <2> QED BY <2>1, <2>2, <2>3, <2>4, <2>5, PollNextSplit
  <1>3. p = q
    BY <1>2 DEF Poll, TypeOK
  <1> QED BY <1>2, <1>3 DEF Poll

\* Two polls of a caller are at least the floor apart, whatever the options and
\* the races of the select.
THEOREM PollSpacingHolds == Spec => PollSpacing
  <1> DEFINE Apart == \A p \in Pollers : (polls'[p] # polls[p] /\ polledAt[p] # None) =>
                            now >= polledAt[p] + minPollInterval
  <1>1. TypeOK /\ Spaced /\ [Next]_vars => [Apart]_vars
    <2> SUFFICES ASSUME TypeOK, Spaced, [Next]_vars, NEW p \in Pollers,
                        polls'[p] # polls[p], polledAt[p] # None
                 PROVE  now >= polledAt[p] + minPollInterval
      OBVIOUS
    <2>1. pc[p] = "select" /\ timer[p] <= now
      BY OnlyPollCounts
    <2>2. timer[p] >= polledAt[p] + minPollInterval
      BY <2>1 DEF Spaced
    <2>3. timer[p] \in Nat /\ polledAt[p] \in Nat /\ now \in Nat /\ minPollInterval \in Nat
      BY PollAssumption DEF TypeOK
    <2> QED BY <2>1, <2>2, <2>3
  <1>2. Spec => [][Apart]_vars
    BY <1>1, PollTypeCorrect, SpacedHolds, PTL DEF Spec
  <1> QED BY <1>2 DEF PollSpacing

-----------------------------------------------------------------------------
(* What a caller is told. *)

\* The invoice is in state s, or has left it in a way that BankAssumption allows.
Still(s) ==
    \/ invoice = s
    \/ s \in {"success", "hold"} /\ invoice = "reversed"
    \/ s = "hold" /\ invoice = "success"

\* A state that can end a poll, once read, stays true; one that was kept as the
\* last answer did not end it; and what was returned is real.
Seen ==
    /\ \A p \in Pollers : (IsTerminal(served[p]) \/ served[p] = "hold") => Still(served[p])
    /\ \A p \in Pollers : last[p] # None => ~terminal(p, last[p])
    /\ ResultIsReal

\* The bank cannot make such a state untrue.
LEMMA StillMoves ==
    ASSUME NEW s, invoice \in InvoiceStatus, IsTerminal(s) \/ s = "hold", Still(s), InvoiceMoves
    PROVE  Still(s)'
  <1>1. PICK t \in InvoiceStatus : <<invoice, t>> \in Moves /\ invoice' = t
    BY DEF InvoiceMoves
  <1>2. /\ IsTerminal(invoice) => invoice = "success" /\ t = "reversed"
        /\ invoice = "hold" => t \in {"success", "reversed"}
    BY <1>1, BankAssumption
  <1> QED BY <1>1, <1>2 DEF Still, IsTerminal

\* ResultIsReal, for one caller.
LEMMA RealAre ==
    ASSUME NEW p \in Pollers
    PROVE  ResultIsReal => (result[p] # None =>
             /\ result[p].err = "nil" => terminal(p, result[p].inv) /\ Still(result[p].inv)
             /\ result[p].err = "ErrPollTimeout" =>
                  Expired(p) /\ (result[p].inv # None => ~terminal(p, result[p].inv)))
  BY DEF ResultIsReal, Still

\* A move of the bank keeps what the callers have seen and been told true.
LEMMA SeenBank ==
    ASSUME TypeOK, Seen, InvoiceMoves
    PROVE  Seen'
  <1>1. invoice \in InvoiceStatus
        /\ UNCHANGED <<now, opts, deadline, last, result, served>>
    BY DEF InvoiceMoves, TypeOK
  <1>2. \A p \in Pollers : (IsTerminal(served'[p]) \/ served'[p] = "hold") => Still(served[p])'
    BY <1>1, StillMoves DEF Seen
  <1>3. \A p \in Pollers : last'[p] # None => ~terminal(p, last[p])'
    BY <1>1 DEF Seen, terminal
  <1>4. ASSUME NEW p \in Pollers, result[p] # None, result[p].err = "nil"
        PROVE  Still(result[p].inv)'
    <2>1. terminal(p, result[p].inv) /\ Still(result[p].inv)
      BY <1>4, RealAre DEF Seen
    <2> QED BY <1>1, <2>1, StillMoves DEF terminal, Still
  <1>5. ResultIsReal'
    <2> SUFFICES ASSUME NEW p \in Pollers, result[p] # None
                 PROVE  (/\ result[p].err = "nil" => terminal(p, result[p].inv) /\ Still(result[p].inv)
                         /\ result[p].err = "ErrPollTimeout" =>
                              Expired(p) /\ (result[p].inv # None => ~terminal(p, result[p].inv)))'
      BY <1>1 DEF ResultIsReal, Still
    <2>1. result'[p] = result[p] /\ opts' = opts /\ now' = now /\ deadline' = deadline
      BY <1>1
    <2>2. (terminal(p, result[p].inv))' = terminal(p, result[p].inv) /\ Expired(p)' = Expired(p)
      BY <2>1 DEF terminal, Expired
    <2> QED BY <1>4, <2>1, <2>2, RealAre DEF Seen
  <1> QED BY <1>1, <1>2, <1>3, <1>5 DEF Seen

\* What a caller may be told in a step: nothing new, or a result that is real.
Told(q) ==
    \/ result'[q] = result[q] /\ (result[q] = None \/ deadline'[q] = deadline[q])
    \/ /\ result'[q].err = "nil"
       /\ terminal(q, result'[q].inv) /\ Still(result'[q].inv)
    \/ /\ result'[q].err = "ErrPollTimeout"
       /\ Expired(q) /\ deadline'[q] = deadline[q]
       /\ result'[q].inv # None => ~terminal(q, result'[q].inv)
    \/ result'[q].err \notin {"nil", "ErrPollTimeout"}

\* While the bank does not move, the clock is not turned back and what is told is
\* real, Seen stays.
LEMMA SeenFrame ==
    ASSUME TypeOK, Seen, UNCHANGED <<invoice, opts>>, now' \in Nat, now' >= now,
           \A q \in Pollers : served'[q] \in {served[q], None, invoice},
           \A q \in Pollers : last'[q] \in {last[q], None} \/ ~terminal(q, last'[q]),
           \A q \in Pollers : Told(q)
    PROVE  Seen'
  <1>1. ASSUME NEW p \in Pollers, IsTerminal(served'[p]) \/ served'[p] = "hold"
        PROVE  Still(served[p])'
    <2>1. served'[p] # None
      BY <1>1, PollAssumption DEF IsTerminal, InvoiceStatus
    <2>2. served'[p] \in {served[p], invoice}
      BY <2>1
    <2> QED BY <1>1, <2>2 DEF Seen, Still
  <1>2. ASSUME NEW p \in Pollers, last'[p] # None PROVE ~terminal(p, last[p])'
    BY <1>2 DEF Seen, terminal
  <1>3. ASSUME NEW p \in Pollers, Expired(p), deadline'[p] = deadline[p] PROVE Expired(p)'
    BY <1>3 DEF Expired, TypeOK
  <1>4. ASSUME NEW p \in Pollers, result'[p] # None
        PROVE  (/\ result[p].err = "nil" => terminal(p, result[p].inv) /\ Still(result[p].inv)
                /\ result[p].err = "ErrPollTimeout" =>
                     Expired(p) /\ (result[p].inv # None => ~terminal(p, result[p].inv)))'
    <2>1. opts' = opts /\ invoice' = invoice
      OBVIOUS
    <2>2. CASE result'[p] = result[p] /\ (result[p] = None \/ deadline'[p] = deadline[p])
      <3>1. result[p] # None /\ deadline'[p] = deadline[p]
        BY <1>4, <2>2
      <3> QED BY <1>3, <2>1, <2>2, <3>1, RealAre DEF Seen, terminal, Still
    <2>3. CASE /\ result'[p].err = "nil"
               /\ terminal(p, result'[p].inv) /\ Still(result'[p].inv)
      BY <2>1, <2>3 DEF terminal, Still
    <2>4. CASE /\ result'[p].err = "ErrPollTimeout"
               /\ Expired(p) /\ deadline'[p] = deadline[p]
               /\ result'[p].inv # None => ~terminal(p, result'[p].inv)
      BY <1>3, <2>1, <2>4 DEF terminal
    <2>5. CASE result'[p].err \notin {"nil", "ErrPollTimeout"}
      BY <2>5
    <2> QED BY <2>2, <2>3, <2>4, <2>5 DEF Told
  <1>5. ResultIsReal'
    BY <1>4 DEF ResultIsReal, Still
  <1> QED BY <1>1, <1>2, <1>5 DEF Seen

\* Every step keeps Seen.
LEMMA SeenStep ==
    ASSUME TypeOK, Seen, Next
    PROVE  Seen'
  <1>1. CASE InvoiceMoves
    BY <1>1, SeenBank
  <1>2. CASE Tick
    BY <1>2, SeenFrame DEF Tick, TypeOK, Told
  <1>3. ASSUME NEW p \in Pollers, NEW err \in Errors, NEW inv \in InvoiceStatus \cup {None},
               Finish(p, err, inv),
               err = "nil" => served[p] = inv /\ inv # None /\ terminal(p, inv),
               err = "ErrPollTimeout" => Expired(p) /\ inv = last[p]
        PROVE  Seen'
    <2>1. /\ UNCHANGED <<invoice, opts, deadline>> /\ now' = now /\ now \in Nat
          /\ Return(p, err, inv) /\ Gone(p)
      BY <1>3 DEF Finish, TypeOK
    <2>2. /\ last'[p] = None /\ served'[p] = None
          /\ result'[p] = [err |-> err, inv |-> inv]
          /\ \A q \in Pollers \ {p} : /\ last'[q] = last[q] /\ served'[q] = served[q]
                                      /\ result'[q] = result[q]
      BY <2>1, ReturnTyped, GoneTyped
    <2>3. Told(p)
      <3>1. result'[p].err = err /\ result'[p].inv = inv
        BY <2>2
      <3>2. CASE err = "nil"
        <4>1. Still(inv)
          BY <1>3, <3>2 DEF Seen, terminal
        <4> QED BY <1>3, <3>1, <3>2, <4>1 DEF Told
      <3>3. CASE err = "ErrPollTimeout"
        <4>1. inv # None => ~terminal(p, inv)
          BY <1>3, <3>3 DEF Seen
        <4> QED BY <1>3, <2>1, <3>1, <3>3, <4>1 DEF Told
      <3> QED BY <3>1, <3>2, <3>3 DEF Told
    <2>4. ASSUME NEW q \in Pollers
          PROVE  served'[q] \in {served[q], None} /\ last'[q] \in {last[q], None} /\ Told(q)
      BY <2>1, <2>2, <2>3 DEF Told
    <2> QED BY <2>1, <2>4, SeenFrame
  <1>4. ASSUME NEW p \in Pollers, Start(p) PROVE Seen'
    <2>1. UNCHANGED <<now, invoice, opts, served, last>> /\ now \in Nat
      BY <1>4, StartDoes DEF TypeOK
    <2>2. ASSUME NEW q \in Pollers PROVE Told(q)
      <3>1. result[p] = None
        BY <1>4, StartDoes DEF TypeOK
      <3>2. CASE Return(p, "ErrEmptyID", None) /\ UNCHANGED <<deadline, timer>>
        BY <3>2 DEF Return, Told, TypeOK
      <3>3. CASE /\ deadline' = deadline \/ deadline' = [deadline EXCEPT ![p] = now + opts[p].Timeout]
                 /\ UNCHANGED result
        BY <3>1, <3>3 DEF Told, TypeOK
      <3> QED BY <1>4, <3>2, <3>3, StartDoes
    <2> QED BY <2>1, <2>2, SeenFrame
  <1>5. ASSUME NEW p \in Pollers, Poll(p) \/ Retry(p) \/ Serve(p) \/ Cancel(p) PROVE Seen'
    <2>1. UNCHANGED <<now, invoice, opts, deadline, result, last>> /\ now \in Nat
      BY <1>5 DEF Poll, Retry, Serve, Cancel, TypeOK
    <2>2. \A q \in Pollers : served'[q] \in {served[q], None, invoice}
      BY <1>5 DEF Poll, Retry, Serve, Cancel, Send, TypeOK
    <2> QED BY <2>1, <2>2, SeenFrame DEF Told
  <1>6. ASSUME NEW p \in Pollers, Answer(p), pc'[p] = "select" PROVE Seen'
    <2>1. UNCHANGED <<now, invoice, opts, deadline, result>> /\ now \in Nat
      BY <1>6, AnswerAgain DEF TypeOK
    <2>2. \A q \in Pollers : served'[q] \in {served[q], None, invoice}
      BY <1>6, AnswerAgain DEF TypeOK
    <2>3. \A q \in Pollers : last'[q] = last[q] \/ ~terminal(q, last'[q])
      BY <1>6, AnswerAgain DEF TypeOK
    <2> QED BY <2>1, <2>2, <2>3, SeenFrame DEF Told
  <1>7. ASSUME NEW p \in Pollers, AnswerBad(p), pc'[p] = "backoff" PROVE Seen'
    <2>1. UNCHANGED <<now, invoice, opts, deadline, result, served, last>> /\ now \in Nat
      BY <1>7, AnswerBadAgain DEF TypeOK
    <2> QED BY <2>1, SeenFrame DEF Told
  <1> QED BY <1>1, <1>2, <1>3, <1>4, <1>5, <1>6, <1>7, PollNextSplit

\* The invariant behind ResultIsReal.
THEOREM SeenHolds == Spec => []Seen
  <1>1. Init => Seen
    <2> SUFFICES ASSUME Init PROVE Seen
      OBVIOUS
    <2>1. \A p \in Pollers : served[p] = None /\ last[p] = None /\ result[p] = None
      BY DEF Init
    <2>2. ~IsTerminal(None) /\ None # "hold"
      BY PollAssumption DEF IsTerminal, InvoiceStatus
    <2> QED BY <2>1, <2>2 DEF Seen, ResultIsReal
  <1>2. TypeOK /\ Seen /\ [Next]_vars => Seen'
    <2>1. ASSUME TypeOK, Seen, UNCHANGED vars PROVE Seen'
      <3>1. UNCHANGED <<invoice, opts, now, served, last, result, deadline>> /\ now \in Nat
        BY <2>1 DEF vars, TypeOK
      <3> QED BY <2>1, <3>1, SeenFrame DEF Told
    <2> QED BY <2>1, SeenStep
  <1> QED BY <1>1, <1>2, PollTypeCorrect, PTL DEF Spec

\* PollInvoice's contract: the state it returns with nil was reached at the bank
\* and is still the invoice's state, unless it was captured or reversed since, and
\* is one the caller waits for; a timeout is reported only when the time is over,
\* and never when a final state has already been seen.
THEOREM ResultIsRealHolds == Spec => []ResultIsReal
  <1>1. Seen => ResultIsReal
    BY DEF Seen
  <1> QED BY <1>1, SeenHolds, PTL

-----------------------------------------------------------------------------
(* The operations of the span store. *)

\* The order lists exactly the stored requests, once each.
Ordered(s) ==
    /\ s = [m |-> s.m, recent |-> s.recent]
    /\ s.m = [x \in DOMAIN s.m |-> s.m[x]]
    /\ s.recent \in Seq(DOMAIN s.m)
    /\ \A r \in DOMAIN s.m : \E i \in DOMAIN s.recent : s.recent[i] = r
    /\ \A i, j \in DOMAIN s.recent : s.recent[i] = s.recent[j] => i = j

\* append(recent[:i], recent[i+1:]...), element by element.
LEMMA RemoveAtIs ==
    ASSUME NEW S, NEW q \in Seq(S), NEW i \in 1..Len(q)
    PROVE  /\ RemoveAt(q, i) \in Seq(S) /\ Len(RemoveAt(q, i)) = Len(q) - 1
           /\ \A j \in 1..(Len(q) - 1) : RemoveAt(q, i)[j] = IF j < i THEN q[j] ELSE q[j + 1]
  <1> DEFINE a == SubSeq(q, 1, i - 1)
             b == SubSeq(q, i + 1, Len(q))
  <1>1. a \in Seq(S) /\ Len(a) = i - 1 /\ \A j \in 1..(i - 1) : a[j] = q[j]
    OBVIOUS
  <1>2. b \in Seq(S) /\ Len(b) = Len(q) - i /\ \A j \in 1..(Len(q) - i) : b[j] = q[i + j]
    OBVIOUS
  <1> HIDE DEF a, b
  <1>3. /\ a \o b \in Seq(S) /\ Len(a \o b) = Len(q) - 1
        /\ \A j \in 1..(Len(q) - 1) : (a \o b)[j] = IF j <= i - 1 THEN a[j] ELSE b[j - (i - 1)]
    <2>1. a \o b \in Seq(S) /\ Len(a \o b) = Len(a) + Len(b)
      <3>1. a \in Seq(S) /\ b \in Seq(S)
        BY <1>1, <1>2
      <3> QED BY <3>1
    <2>2. \A j \in 1..(Len(a) + Len(b)) : (a \o b)[j] = IF j <= Len(a) THEN a[j] ELSE b[j - Len(a)]
      BY <1>1, <1>2
    <2>3. Len(a) + Len(b) = Len(q) - 1 /\ Len(a) = i - 1
      BY <1>1, <1>2
    <2> QED BY <2>1, <2>2, <2>3
  <1>4. ASSUME NEW j \in 1..(Len(q) - 1)
        PROVE  (a \o b)[j] = IF j < i THEN q[j] ELSE q[j + 1]
    <2>1. CASE j < i
      BY <1>1, <1>3, <2>1
    <2>2. CASE ~(j < i)
      <3>1. j - (i - 1) \in 1..(Len(q) - i) /\ i + (j - (i - 1)) = j + 1
        BY <2>2
      <3> QED BY <1>2, <1>3, <2>2, <3>1
    <2> QED BY <2>1, <2>2
  <1> QED BY <1>3, <1>4 DEF RemoveAt, a, b

\* recent[:len(recent)-1], element by element.
LEMMA FrontIs ==
    ASSUME NEW S, NEW q \in Seq(S), Len(q) > 0
    PROVE  /\ Front(q) \in Seq(S) /\ Len(Front(q)) = Len(q) - 1
           /\ \A j \in 1..(Len(q) - 1) : Front(q)[j] = q[j]
  <1> DEFINE n == Len(q) - 1
  <1>1. n \in Nat /\ 1 \in Int /\ n \in Int /\ \A j \in 1..n : q[j] \in S
    OBVIOUS
  <1> HIDE DEF n
  <1>2. /\ SubSeq(q, 1, n) \in Seq(S)
        /\ Len(SubSeq(q, 1, n)) = IF 1 <= n THEN n - 1 + 1 ELSE 0
        /\ \A j \in 1..(n - 1 + 1) : SubSeq(q, 1, n)[j] = q[1 + j - 1]
    BY <1>1, SubSeqProperties
  <1>3. n - 1 + 1 = n /\ \A j \in 1..n : 1 + j - 1 = j
    BY <1>1
  <1>4. SubSeq(q, 1, n) \in Seq(S) /\ Len(SubSeq(q, 1, n)) = n /\ \A j \in 1..n : SubSeq(q, 1, n)[j] = q[j]
    BY <1>1, <1>2, <1>3
  <1> QED BY <1>4 DEF Front, n

\* Taking the request at position i out of the map and out of the order.
LEMMA RemovedOrdered ==
    ASSUME NEW s, Ordered(s), NEW i \in 1..Len(s.recent), NEW t,
           t = [m |-> [x \in DOMAIN s.m \ {s.recent[i]} |-> s.m[x]],
                recent |-> RemoveAt(s.recent, i)]
    PROVE  /\ Ordered(t)
           /\ DOMAIN t.m = DOMAIN s.m \ {s.recent[i]}
           /\ \A x \in DOMAIN t.m : t.m[x] = s.m[x]
  <1> DEFINE q == s.recent
             n == Len(q)
             S == DOMAIN s.m
             D == S \ {q[i]}
             w == RemoveAt(q, i)
  <1>1. /\ q \in Seq(S) /\ n \in Nat /\ DOMAIN q = 1..n /\ i \in 1..n
        /\ \A r \in S : \E j \in 1..n : q[j] = r
        /\ \A j, k \in 1..n : q[j] = q[k] => j = k
    BY DEF Ordered
  <1>2. t.m = [x \in D |-> s.m[x]] /\ t.recent = w /\ t = [m |-> t.m, recent |-> t.recent]
    OBVIOUS
  <1>3. DOMAIN t.m = D /\ \A x \in D : t.m[x] = s.m[x]
    BY <1>2
  <1>4. t.m = [x \in DOMAIN t.m |-> t.m[x]]
    BY <1>2
  <1> HIDE DEF q, S
  <1>5. /\ w \in Seq(S) /\ Len(w) = n - 1
        /\ \A j \in 1..(n - 1) : w[j] = IF j < i THEN q[j] ELSE q[j + 1]
    BY <1>1, RemoveAtIs, ZenonT(30)
  <1>6. DOMAIN w = 1..(n - 1)
    BY <1>5
  <1> HIDE DEF w, n, D
  <1>7. ASSUME NEW j \in 1..(n - 1) PROVE w[j] \in D
    <2>1. CASE j < i
      <3>1. j \in 1..n /\ j # i /\ w[j] = q[j]
        BY <1>1, <1>5, <2>1
      <3> QED BY <1>1, <3>1 DEF D
    <2>2. CASE ~(j < i)
      <3>1. j + 1 \in 1..n /\ j + 1 # i /\ w[j] = q[j + 1]
        BY <1>1, <1>5, <2>2
      <3> QED BY <1>1, <3>1 DEF D
    <2> QED BY <2>1, <2>2
  <1>8. w \in Seq(D)
    <2>1. w \in [1..(n - 1) -> D]
      <3>1. w \in [1..(n - 1) -> S]
        BY <1>5, <1>6
      <3> QED BY <1>6, <1>7, <3>1
    <2>2. n - 1 \in Nat
      BY <1>1
    <2> QED BY <2>1, <2>2
  <1>9. ASSUME NEW r \in D PROVE \E j \in 1..(n - 1) : w[j] = r
    <2>1. PICK k \in 1..n : q[k] = r
      BY <1>1 DEF D
    <2>2. k # i
      BY <2>1 DEF D
    <2>3. CASE k < i
      <3>1. k \in 1..(n - 1)
        BY <1>1, <2>3
      <3> QED BY <1>5, <2>1, <2>3, <3>1
    <2>4. CASE k > i
      <3>1. k - 1 \in 1..(n - 1) /\ ~(k - 1 < i) /\ k - 1 + 1 = k
        BY <1>1, <2>4
      <3>2. w[k - 1] = q[k]
        BY <1>5, <3>1
      <3> QED BY <2>1, <3>1, <3>2
    <2> QED BY <1>1, <2>2, <2>3, <2>4
  <1>10. ASSUME NEW j \in 1..(n - 1), NEW k \in 1..(n - 1), w[j] = w[k] PROVE j = k
    <2> DEFINE at(x) == IF x < i THEN x ELSE x + 1
    <2>1. at(j) \in 1..n /\ at(k) \in 1..n /\ w[j] = q[at(j)] /\ w[k] = q[at(k)]
      BY <1>1, <1>5
    <2>2. at(j) = at(k)
      BY <1>1, <1>10, <2>1
    <2> QED BY <1>1, <2>2
  <1>11. Ordered(t)
    <2>1. t.recent \in Seq(DOMAIN t.m) /\ DOMAIN t.recent = 1..(n - 1)
      BY <1>2, <1>3, <1>6, <1>8
    <2>2. \A r \in DOMAIN t.m : \E j \in DOMAIN t.recent : t.recent[j] = r
      BY <1>2, <1>3, <1>9, <2>1, ZenonT(30)
    <2>3. \A j, k \in DOMAIN t.recent : t.recent[j] = t.recent[k] => j = k
      BY <1>2, <1>10, <2>1, ZenonT(30)
    <2> QED BY <1>2, <1>4, <2>1, <2>2, <2>3 DEF Ordered
  <1> QED BY <1>3, <1>11 DEF D, S, q

\* pop takes out the request, wherever it is in the order.
LEMMA PopKeeps ==
    ASSUME NEW s, Ordered(s), NEW r
    PROVE  /\ Ordered(pop(s, r))
           /\ DOMAIN pop(s, r).m = DOMAIN s.m \ {r}
           /\ \A x \in DOMAIN pop(s, r).m : pop(s, r).m[x] = s.m[x]
  <1>1. CASE r \notin DOMAIN s.m
    BY <1>1 DEF pop
  <1>2. CASE r \in DOMAIN s.m
    <2> DEFINE at == {i \in DOMAIN s.recent : s.recent[i] = r}
    <2>1. PICK k \in DOMAIN s.recent : s.recent[k] = r
      BY <1>2 DEF Ordered
    <2>2. DOMAIN s.recent = 1..Len(s.recent)
      BY DEF Ordered
    <2>3. at = {k}
      BY <2>1 DEF Ordered
    <2>4. (CHOOSE i \in at : \A j \in at : i <= j) = k
      BY <2>2, <2>3
    <2>5. without(s.recent, r) = RemoveAt(s.recent, k)
      BY <2>3, <2>4 DEF without
    <2>6. pop(s, r) = [m |-> [x \in DOMAIN s.m \ {s.recent[k]} |-> s.m[x]],
                       recent |-> RemoveAt(s.recent, k)]
      BY <1>2, <2>1, <2>5 DEF pop
    <2>7. k \in 1..Len(s.recent)
      BY <2>2
    <2> QED BY <2>1, <2>6, <2>7, RemovedOrdered
  <1> QED BY <1>1, <1>2

\* popAny takes out a stored request.
LEMMA PopAnyKeeps ==
    ASSUME NEW s, Ordered(s), s.recent # <<>>
    PROVE  /\ Ordered(popAny(s))
           /\ Last(s.recent) \in DOMAIN s.m
           /\ DOMAIN popAny(s).m = DOMAIN s.m \ {Last(s.recent)}
           /\ \A x \in DOMAIN popAny(s).m : popAny(s).m[x] = s.m[x]
  <1> DEFINE q == s.recent
             n == Len(q)
             S == DOMAIN s.m
  <1>1. q \in Seq(S) /\ n \in Nat /\ n > 0
    BY DEF Ordered
  <1>2. Last(q) = q[n] /\ q[n] \in S /\ n \in 1..n
    BY <1>1 DEF Last
  <1>3. Front(q) = RemoveAt(q, n)
    <2> HIDE DEF q, S
    <2>1. /\ Front(q) \in Seq(S) /\ Len(Front(q)) = n - 1
          /\ \A j \in 1..(n - 1) : Front(q)[j] = q[j]
      BY <1>1, FrontIs
    <2>2. /\ RemoveAt(q, n) \in Seq(S) /\ Len(RemoveAt(q, n)) = n - 1
          /\ \A j \in 1..(n - 1) : RemoveAt(q, n)[j] = q[j]
      BY <1>1, <1>2, RemoveAtIs
    <2> HIDE DEF n
    <2> QED BY <2>1, <2>2
  <1>4. popAny(s) = [m |-> [x \in DOMAIN s.m \ {q[n]} |-> s.m[x]], recent |-> RemoveAt(q, n)]
    BY <1>2, <1>3 DEF popAny
  <1>5. n \in 1..Len(s.recent)
    BY <1>2
  <1>6. /\ Ordered(popAny(s)) /\ DOMAIN popAny(s).m = DOMAIN s.m \ {s.recent[n]}
        /\ \A x \in DOMAIN popAny(s).m : popAny(s).m[x] = s.m[x]
    <2> HIDE DEF n
    <2> QED BY <1>4, <1>5, RemovedOrdered
  <1> QED BY <1>2, <1>6

\* set appends a new request, and keeps the place of one that is there.
LEMMA SetKeeps ==
    ASSUME NEW s, Ordered(s), NEW r, NEW span
    PROVE  /\ Ordered(set(s, r, span))
           /\ DOMAIN set(s, r, span).m = DOMAIN s.m \cup {r}
           /\ \A x \in DOMAIN s.m \cup {r} :
                set(s, r, span).m[x] = IF x = r THEN span ELSE s.m[x]
  <1> DEFINE t == set(s, r, span)
             q == s.recent
             n == Len(q)
             S == DOMAIN s.m
             D == S \cup {r}
  <1>1. /\ q \in Seq(S) /\ n \in Nat /\ DOMAIN q = 1..n
        /\ \A x \in S : \E j \in 1..n : q[j] = x
        /\ \A j, k \in 1..n : q[j] = q[k] => j = k
    BY DEF Ordered
  <1>2. /\ t = [m |-> t.m, recent |-> t.recent]
        /\ t.m = [x \in D |-> IF x = r THEN span ELSE s.m[x]]
        /\ t.recent = IF r \in S THEN q ELSE Append(q, r)
    BY DEF set
  <1> HIDE DEF t, q, S
  <1>3. DOMAIN t.m = D /\ t.m = [x \in DOMAIN t.m |-> t.m[x]]
    BY <1>2
  <1>4. CASE r \in S
    <2>1. D = S /\ t.recent = q
      BY <1>2, <1>4
    <2>2. Ordered(t)
      BY <1>1, <1>2, <1>3, <2>1 DEF Ordered
    <2> QED BY <1>2, <1>3, <2>2 DEF t, S
  <1>5. CASE r \notin S
    <2>1. q \in Seq(D)
      BY <1>1
    <2>2. /\ t.recent \in Seq(D) /\ DOMAIN t.recent = 1..(n + 1)
          /\ t.recent[n + 1] = r /\ \A j \in 1..n : t.recent[j] = q[j]
      BY <1>1, <1>2, <1>5, <2>1
    <2>3. \A j \in 1..n : q[j] \in S /\ j \in 1..(n + 1)
      BY <1>1
    <2>4. n + 1 \in 1..(n + 1) /\ \A j \in 1..(n + 1) : j = n + 1 \/ j \in 1..n
      BY <1>1
    <2> HIDE DEF n, D
    <2>5. \A x \in D : \E i \in 1..(n + 1) : t.recent[i] = x
      BY <1>1, <2>2, <2>3, <2>4 DEF D
    <2>6. \A i, j \in 1..(n + 1) : t.recent[i] = t.recent[j] => i = j
      BY <1>1, <1>5, <2>2, <2>3, <2>4
    <2>7. Ordered(t)
      BY <1>2, <1>3, <2>2, <2>5, <2>6 DEF Ordered
    <2> QED BY <1>2, <1>3, <2>7 DEF t, S, D
  <1> QED BY <1>4, <1>5

\* A request that is new to the store becomes the most recent one.
LEMMA SetIsLast ==
    ASSUME NEW s, Ordered(s), NEW r, r \notin DOMAIN s.m, NEW span
    PROVE  Last(set(s, r, span).recent) = r
  <1>1. s.recent \in Seq(DOMAIN s.m) /\ set(s, r, span).recent = Append(s.recent, r)
    BY DEF Ordered, set
  <1> QED BY <1>1 DEF Last

-----------------------------------------------------------------------------
(* The spans of concurrent calls. *)

\* A stored span is one of its request.
Numbered ==
    \A r \in DOMAIN store.m : \E q \in Pollers, n \in Nat, a \in Nat :
        r = <<q, n>> /\ store.m[r] = <<q, n, a>>

\* The span of p's attempt is stored under its request.
Own(p) ==
    /\ <<p, polls[p]>> \in DOMAIN store.m
    /\ store.m[<<p, polls[p]>>] = <<p, polls[p], attempt[p]>>
    /\ <<p, polls[p]>> \notin missed

\* An attempt in flight that met no other is the only one, and its span the most
\* recent.
Alone(p) == p \notin crossed => InFlight = {p} /\ Last(store.recent) = <<p, polls[p]>>

\* While popAny had no choice, no span went astray, and what is stored is what is
\* in flight and what was missed.
Kept ==
    ~guessed => /\ ~strayed
                /\ DOMAIN store.m = missed \cup {<<p, polls[p]>> : p \in InFlight}
                /\ \A p \in InFlight : Own(p) /\ Alone(p)

\* The inductive invariant of the span store.
Stored == Ordered(store) /\ Numbered /\ Kept

\* The calls of the others go on.
Others(p) ==
    \A q \in Pollers \ {p} :
        pc'[q] = pc[q] /\ polls'[q] = polls[q] /\ attempt'[q] = attempt[q]

\* A step of p that runs the request hook.
Sends(p) ==
    /\ pc[p] # "flight" /\ pc'[p] = "flight" /\ Others(p)
    /\ requestHook(p)
    /\ polls'[p] \in Nat /\ attempt'[p] \in Nat

\* A step of p that runs the response hook.
Lands(p) ==
    /\ pc[p] = "flight" /\ pc'[p] # "flight" /\ Others(p)
    /\ \E resp : responseHook(p, resp)

\* A step that runs no hook.
Unhooked ==
    /\ UNCHANGED tracing
    /\ InFlight' = InFlight
    /\ \A q \in InFlight : polls'[q] = polls[q] /\ attempt'[q] = attempt[q]

\* Every step is one of the three.
LEMMA HookSplit ==
    ASSUME TypeOK, [Next]_vars
    PROVE  Unhooked \/ \E p \in Pollers : Sends(p) \/ Lands(p)
  <1>1. TypeOK'
    BY PollTyped
  <1>2. CASE UNCHANGED vars
    BY <1>2 DEF vars, Unhooked, InFlight
  <1>3. CASE InvoiceMoves \/ Tick
    BY <1>3 DEF InvoiceMoves, Tick, Unhooked, InFlight
  <1>4. ASSUME NEW p \in Pollers, Poll(p) \/ Retry(p) PROVE Sends(p)
    <2>1. polls'[p] \in Nat /\ attempt'[p] \in Nat
      BY <1>1 DEF TypeOK
    <2>2. pc[p] # "flight" /\ pc'[p] = "flight" /\ Others(p)
      BY <1>4 DEF Poll, Retry, Send, Others, TypeOK
    <2> QED BY <1>4, <2>1, <2>2 DEF Poll, Retry, Send, Sends
  <1>5. ASSUME NEW p \in Pollers, Serve(p) \/ Cancel(p) PROVE Unhooked
    BY <1>5 DEF Serve, Cancel, Unhooked, InFlight
  <1>6. ASSUME NEW p \in Pollers, Start(p) PROVE Unhooked
    <2>1. pc[p] = "idle" /\ UNCHANGED <<tracing, polls, attempt>>
      BY <1>6, StartDoes
    <2>2. pc'[p] # "flight" /\ \A q \in Pollers \ {p} : pc'[q] = pc[q]
      BY <1>6, StartDoes DEF Return, TypeOK
    <2> QED BY <2>1, <2>2 DEF Unhooked, InFlight
  <1>7. ASSUME NEW p \in Pollers, Stop(p) \/ StopRetrying(p) PROVE Unhooked
    <2>1. pc[p] \in {"select", "backoff"} /\ Gone(p) /\ UNCHANGED <<tracing, polls>>
          /\ pc' = [pc EXCEPT ![p] = "done"]
      BY <1>7 DEF Stop, StopRetrying, Return
    <2>2. \A q \in Pollers \ {p} : pc'[q] = pc[q] /\ attempt'[q] = attempt[q]
      BY <2>1, GoneTyped DEF TypeOK
    <2>3. pc'[p] # "flight" /\ pc[p] # "flight"
      BY <2>1 DEF TypeOK
    <2> QED BY <2>1, <2>2, <2>3 DEF Unhooked, InFlight
  <1>8. ASSUME NEW p \in Pollers, Answer(p) \/ AnswerBad(p) \/ TransportError(p) PROVE Lands(p)
    <2>1. pc[p] = "flight" /\ (\E resp : responseHook(p, resp)) /\ UNCHANGED polls
      BY <1>8 DEF Answer, AnswerBad, TransportError
    <2>2. \E x \in {"done", "select", "backoff"} : pc' = [pc EXCEPT ![p] = x]
      BY <1>8 DEF Answer, AnswerBad, TransportError, Return
    <2>3. Gone(p) \/ UNCHANGED attempt
      BY <1>8 DEF Answer, AnswerBad, TransportError
    <2>4. Others(p)
      BY <2>1, <2>2, <2>3, GoneTyped DEF Others, TypeOK
    <2> QED BY <2>1, <2>2, <2>4 DEF Lands, TypeOK
  <1> QED BY <1>2, <1>3, <1>4, <1>5, <1>6, <1>7, <1>8 DEF Next

\* The request hook: the new span is the request's own and the most recent.
LEMMA SendsStored ==
    ASSUME TypeOK, Stored, NEW p \in Pollers, Sends(p)
    PROVE  Stored'
  <1> DEFINE s == pop(store, Request(p))
             r == Request(p)
  <1>1. /\ store' = set(s, r, Span(p))
        /\ strayed' = (strayed \/ r \in DOMAIN store.m \ missed)
        /\ missed' = missed \ {r} /\ guessed' = guessed
        /\ crossed' = IF InFlight = {} THEN crossed ELSE crossed \cup InFlight \cup {p}
    BY DEF Sends, requestHook
  <1>2. Ordered(s) /\ DOMAIN s.m = DOMAIN store.m \ {r} /\ \A x \in DOMAIN s.m : s.m[x] = store.m[x]
    BY PopKeeps DEF Stored
  <1> HIDE DEF s
  <1>3. /\ Ordered(store') /\ DOMAIN store'.m = DOMAIN store.m \cup {r}
        /\ \A x \in DOMAIN store.m \cup {r} :
              store'.m[x] = IF x = r THEN Span(p) ELSE store.m[x]
        /\ Last(store'.recent) = r
    BY <1>1, <1>2, SetKeeps, SetIsLast
  <1>4. polls'[p] \in Nat /\ attempt'[p] \in Nat
    BY DEF Sends
  <1>5. Numbered'
    <2> SUFFICES ASSUME NEW x \in DOMAIN store'.m
                 PROVE  \E q \in Pollers, n \in Nat, a \in Nat :
                            x = <<q, n>> /\ store'.m[x] = <<q, n, a>>
      BY DEF Numbered
    <2>1. CASE x = r
      BY <1>3, <1>4, <2>1 DEF Request, Span
    <2>2. CASE x # r
      BY <1>3, <2>2, SMTT(30) DEF Stored, Numbered
    <2> QED BY <2>1, <2>2
  <1>6. InFlight' = InFlight \cup {p} /\ p \notin InFlight
    BY DEF Sends, Others, InFlight
  <1>7. r = <<p, polls'[p]>> /\ \A q \in InFlight : polls'[q] = polls[q] /\ <<q, polls[q]>> # r
    BY <1>6 DEF Sends, Others, Request, InFlight
  <1>8. Kept'
    <2> SUFFICES ASSUME ~guessed
                 PROVE  /\ ~strayed'
                        /\ DOMAIN store'.m = missed' \cup {<<q, polls'[q]>> : q \in InFlight'}
                        /\ \A q \in InFlight' : Own(q)' /\ Alone(q)'
      BY <1>1 DEF Kept
    <2> DEFINE I == {<<q, polls[q]>> : q \in InFlight}
    <2>1. ~strayed /\ DOMAIN store.m = missed \cup I /\ \A q \in InFlight : Own(q) /\ Alone(q)
      BY DEF Stored, Kept
    <2>2. r \notin I
      BY <1>7
    <2>3. {<<q, polls'[q]>> : q \in InFlight'} = I \cup {r}
      BY <1>6, <1>7
    <2> HIDE DEF I
    <2>4. ~strayed' /\ DOMAIN store'.m = missed' \cup {<<q, polls'[q]>> : q \in InFlight'}
      BY <1>1, <1>3, <2>1, <2>2, <2>3
    <2>5. Own(p)' /\ Alone(p)'
      <3>1. Own(p)'
        BY <1>1, <1>3 DEF Own, Request, Span
      <3>2. Alone(p)'
        BY <1>1, <1>3, <1>6, <1>7 DEF Alone
      <3> QED BY <3>1, <3>2
    <2>6. ASSUME NEW q \in InFlight PROVE Own(q)' /\ Alone(q)'
      <3>1. q \in Pollers \ {p} /\ polls'[q] = polls[q] /\ attempt'[q] = attempt[q]
        BY <1>6 DEF Sends, Others, InFlight
      <3>2. Own(q)'
        BY <1>1, <1>3, <1>7, <2>1, <3>1 DEF Own
      <3>3. q \in crossed'
        BY <1>1
      <3> QED BY <3>2, <3>3 DEF Alone
    <2> QED BY <1>6, <2>4, <2>5, <2>6
  <1> QED BY <1>3, <1>5, <1>8 DEF Stored

\* The response hook: it takes the span of p's attempt, leaves it because the
\* response carried another request, or guesses.
LEMMA LandsStored ==
    ASSUME TypeOK, Stored, NEW p \in Pollers, Lands(p)
    PROVE  Stored'
  <1> DEFINE own == <<p, polls[p]>>
  <1>1. p \in InFlight /\ InFlight' = InFlight \ {p} /\ crossed' = crossed \ {p}
    BY DEF Lands, responseHook, Others, InFlight
  <1>2. PICK resp : responseHook(p, resp)
    BY DEF Lands
  <1>3. \A q \in InFlight' : /\ q \in InFlight /\ q # p /\ polls'[q] = polls[q]
                             /\ attempt'[q] = attempt[q] /\ <<q, polls[q]>> # own
    BY <1>1 DEF Lands, Others, InFlight
  <1> DEFINE I == {<<q, polls[q]>> : q \in InFlight}
             J == {<<q, polls'[q]>> : q \in InFlight'}
  <1>4. J = I \ {own} /\ own \in I
    <2>1. \A q \in InFlight : q # p => q \in InFlight' /\ polls'[q] = polls[q]
      BY <1>1, <1>3
    <2> QED BY <1>1, <1>3, <2>1
  <1> HIDE DEF I, J
  \* What the hook does when it takes out request x.
  <1>5. ASSUME NEW x, Ordered(store'), DOMAIN store'.m = DOMAIN store.m \ {x},
               \A y \in DOMAIN store'.m : store'.m[y] = store.m[y],
               Ends(p, x), missed' = missed,
               ~guessed' => ~guessed /\ x = own
        PROVE  Stored'
    <2>1. Numbered'
      BY <1>5 DEF Stored, Numbered
    <2>2. Kept'
      <3> SUFFICES ASSUME ~guessed'
                   PROVE  /\ ~strayed' /\ DOMAIN store'.m = missed' \cup J
                          /\ \A q \in InFlight' : Own(q)' /\ Alone(q)'
        BY DEF Kept, J
      <3>1. /\ ~strayed /\ DOMAIN store.m = missed \cup I /\ x = own
            /\ \A q \in InFlight : Own(q) /\ Alone(q)
        BY <1>5 DEF Stored, Kept, I
      <3>2. ~strayed'
        BY <1>1, <1>5, <3>1 DEF Ends, Own
      <3>3. own \notin missed
        BY <1>1, <3>1 DEF Own
      <3>4. DOMAIN store'.m = missed' \cup J
        BY <1>4, <1>5, <3>1, <3>3
      <3>5. ASSUME NEW q \in InFlight' PROVE Own(q)' /\ Alone(q)'
        <4>1. Own(q)'
          BY <1>3, <1>5, <3>1, <3>5 DEF Own
        <4>2. q \in crossed /\ q \in crossed'
          BY <1>1, <1>3, <3>1, <3>5 DEF Alone
        <4> QED BY <4>1, <4>2 DEF Alone
      <3> QED BY <3>2, <3>4, <3>5
    <2> QED BY <1>5, <2>1, <2>2 DEF Stored
  <1>6. CASE resp = "same"
    <2>1. store' = pop(store, own) /\ Ends(p, own) /\ missed' = missed /\ guessed' = guessed
      BY <1>2, <1>6 DEF responseHook
    <2> QED BY <1>5, <2>1, PopKeeps DEF Stored
  <1>7. CASE resp = "other"
    <2>1. missed' = missed \cup {own} /\ UNCHANGED <<store, strayed, guessed>>
      BY <1>2, <1>7 DEF responseHook
    <2>2. Ordered(store') /\ Numbered'
      BY <2>1 DEF Stored, Numbered
    <2>3. Kept'
      <3> SUFFICES ASSUME ~guessed
                   PROVE  /\ ~strayed' /\ DOMAIN store'.m = missed' \cup J
                          /\ \A q \in InFlight' : Own(q)' /\ Alone(q)'
        BY <2>1 DEF Kept, J
      <3>1. /\ ~strayed /\ DOMAIN store.m = missed \cup I
            /\ \A q \in InFlight : Own(q) /\ Alone(q)
        BY DEF Stored, Kept, I
      <3>2. DOMAIN store'.m = missed' \cup J
        BY <1>4, <2>1, <3>1
      <3>3. ASSUME NEW q \in InFlight' PROVE Own(q)' /\ Alone(q)'
        <4>1. Own(q)'
          BY <1>3, <2>1, <3>1, <3>3 DEF Own
        <4>2. q \in crossed'
          BY <1>1, <1>3, <3>1, <3>3 DEF Alone
        <4> QED BY <4>1, <4>2 DEF Alone
      <3> QED BY <2>1, <3>1, <3>2, <3>3
    <2> QED BY <2>2, <2>3 DEF Stored
  <1>8. CASE resp \in {"nil", "none"}
    <2>1. guessed' = (guessed \/ p \in crossed) /\ missed' = missed
      BY <1>2, <1>8 DEF responseHook
    <2>2. ASSUME ~guessed' PROVE ~guessed /\ Own(p) /\ Last(store.recent) = own
      BY <1>1, <2>1, <2>2 DEF Stored, Kept, Alone
    <2>3. CASE store.recent = <<>> /\ UNCHANGED <<store, strayed>>
      <3>1. DOMAIN store.m = {}
        BY <2>3 DEF Stored, Ordered
      <3>2. guessed'
        BY <2>2, <3>1 DEF Own
      <3> QED BY <2>3, <3>2 DEF Stored, Numbered, Kept
    <2>4. CASE store.recent # <<>> /\ store' = popAny(store) /\ Ends(p, Last(store.recent))
      BY <1>5, <2>1, <2>2, <2>4, PopAnyKeeps DEF Stored
    <2> QED BY <1>2, <1>8, <2>3, <2>4 DEF responseHook
  <1> QED BY <1>2, <1>6, <1>7, <1>8 DEF responseHook

\* A step that runs no hook.
LEMMA UnhookedStored ==
    ASSUME Stored, Unhooked
    PROVE  Stored'
  <1>1. UNCHANGED <<store, missed, crossed, guessed, strayed>> /\ InFlight' = InFlight
    BY DEF Unhooked, tracing
  <1>2. ASSUME NEW p \in InFlight PROVE (Own(p) => Own(p)') /\ (Alone(p) => Alone(p)')
    BY <1>1, <1>2 DEF Unhooked, Own, Alone
  <1>3. {<<q, polls'[q]>> : q \in InFlight'} = {<<q, polls[q]>> : q \in InFlight}
    BY <1>1 DEF Unhooked
  <1>4. Ordered(store') /\ Numbered'
    BY <1>1 DEF Stored, Numbered
  <1>5. Kept'
    BY <1>1, <1>2, <1>3 DEF Stored, Kept
  <1> QED BY <1>4, <1>5 DEF Stored

\* The invariant behind SpansSound.
THEOREM StoredHolds == Spec => []Stored
  <1>1. Init => Stored
    <2> SUFFICES ASSUME Init PROVE Stored
      OBVIOUS
    <2>1. /\ store = [m |-> <<>>, recent |-> <<>>] /\ ~strayed
          /\ InFlight = {} /\ missed = {}
      BY DEF Init, newSpanStore, InFlight
    <2>2. store.m = <<>> /\ store.recent = <<>> /\ DOMAIN store.m = {} /\ DOMAIN store.recent = {}
      BY <2>1
    <2>3. store.recent \in Seq(DOMAIN store.m) /\ store.m = [x \in DOMAIN store.m |-> store.m[x]]
      BY <2>2
    <2> QED BY <2>1, <2>2, <2>3 DEF Stored, Ordered, Numbered, Kept
  <1>2. TypeOK /\ Stored /\ [Next]_vars => Stored'
    BY HookSplit, SendsStored, LandsStored, UnhookedStored
  <1> QED BY <1>1, <1>2, PollTypeCorrect, PTL DEF Spec

\* A store in order has as many entries in the order as in the map.
LEMMA OrderedCounts ==
    ASSUME NEW s, Ordered(s)
    PROVE  Range(s.recent) = DOMAIN s.m /\ Len(s.recent) = Cardinality(DOMAIN s.m)
  <1> DEFINE q == s.recent
             n == Len(q)
             S == DOMAIN s.m
  <1>1. q \in [1..n -> S] /\ n \in Nat /\ DOMAIN q = 1..n
    BY DEF Ordered
  <1>2. Range(q) = S
    BY <1>1 DEF Ordered, Range
  <1>3. q \in Bijection(1..n, S)
    BY <1>1 DEF Ordered, Bijection, Injection, Surjection, IsInjective
  <1> HIDE DEF n
  <1>4. IsFiniteSet(1..n) /\ Cardinality(1..n) = n
    <2>1. 1 \in Int /\ n \in Int
      BY <1>1
    <2>2. IsFiniteSet(1..n) /\ Cardinality(1..n) = IF 1 > n THEN 0 ELSE n - 1 + 1
      BY <2>1, FS_Interval
    <2> QED BY <1>1, <2>2
  <1>5. Cardinality(S) = n
    BY <1>3, <1>4, FS_Bijection DEF ExistsBijection
  <1> QED BY <1>2, <1>5 DEF n

\* The span store under any interleaving of calls, whatever request their
\* responses carry: the order lists exactly the stored requests, once each, and no
\* span is stored twice; unless popAny served an attempt that had met another in
\* flight, every span ends with its own attempt's outcome, and what stays in the
\* store are the spans in flight and those whose response carried another request.
THEOREM SpansSoundHolds == Spec => []SpansSound
  <1>1. Stored => SpansSound
    <2> SUFFICES ASSUME Stored PROVE SpansSound
      OBVIOUS
    <2>1. Ordered(store) /\ Numbered /\ Kept
      BY DEF Stored
    <2>2. ASSUME NEW r \in DOMAIN store.m, NEW q \in DOMAIN store.m, store.m[r] = store.m[q]
          PROVE  r = q
      <3>1. PICK a \in Pollers, n \in Nat, i \in Nat : r = <<a, n>> /\ store.m[r] = <<a, n, i>>
        BY <2>1 DEF Numbered
      <3>2. PICK b \in Pollers, k \in Nat, j \in Nat : q = <<b, k>> /\ store.m[q] = <<b, k, j>>
        BY <2>1 DEF Numbered
      <3> QED BY <2>2, <3>1, <3>2
    <2> QED BY <2>1, <2>2, OrderedCounts DEF Kept, Own, SpansSound
  <1> QED BY <1>1, StoredHolds, PTL
=============================================================================
