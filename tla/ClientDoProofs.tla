--------------------------- MODULE ClientDoProofs ---------------------------
(***************************************************************************)
(* Client.Do for every number of calls, operations, attempts and messages: *)
(* type correctness, one token per attempt, the whole body on every        *)
(* attempt, the bounds on the sleeps, and the refinement of Promise, from  *)
(* which no operation that adds something is performed twice.              *)
(***************************************************************************)
EXTENDS ClientDo, RetryPolicyProofs

-----------------------------------------------------------------------------
(* The inductive invariants. *)

\* A token is in hand when the request is about to be sent.
TokenInHand ==
    client.limited => \A c \in Calls :
        /\ sent[c] <= tokens[c]
        /\ pc[c] = "ready" => sent[c] < tokens[c]

\* After the head of Do a body can be replayed or there is none.
Replayable ==
    \A c \in Calls :
        /\ req[c].body = "none" => body[c] = "full"
        /\ req[c].body = "replayable" => getBody[c]
        /\ pc[c] = "idle" => body[c] = "full"
        /\ pc[c] \notin {"idle", "done"} => getBody[c] \/ req[c].body = "none"

\* Every sleep so far belongs to an attempt and was at most maxDelay.
SleptPerAttempt ==
    (maxDelay > 0) => \A c \in Calls :
        /\ slept[c] <= attempt[c] * maxDelay
        /\ pc[c] = "sleep" => delay[c] <= maxDelay

\* A call has a result when it has returned, and only then.
Returned == \A c \in Calls : (pc[c] = "done") <=> (result[c] # None)

\* A call that has not passed its checks has sent nothing.
CheckedFirst ==
    \A c \in Calls : (pc[c] = "idle" \/ result[c] = "rejected") => sent[c] = 0

\* A message is numbered by its attempt.
Numbered ==
    /\ \A m \in network : 1 <= m.n /\ m.n <= sent[m.call]
    /\ \A m, k \in network : m.call = k.call /\ m.n = k.n => m = k

\* What was performed was asked for, and what is marked done was performed.
Accounted ==
    /\ \A o \in Ops : executed[o] > 0 => \E c \in Calls : req[c].op = o /\ sent[c] > 0
    /\ \A m \in network : m.done => executed[req[m.call].op] > 0

\* A request that shouldRetry refuses is sent once.
OneShot ==
    \A c \in Calls : ~shouldRetry(req[c]) =>
        /\ pc[c] # "sleep"
        /\ pc[c] \in {"idle", "wait", "ready"} => sent[c] = 0
        /\ sent[c] <= 1

\* c is the only call of its operation.
Sole(c) == \A d \in Calls : req[d].op = req[c].op => d = c

\* When the operation of a lone call that is not retried has been performed,
\* none of its messages can perform it again.
Spent ==
    \A c \in Calls :
        (Sole(c) /\ ~shouldRetry(req[c]) /\ executed[req[c].op] > 0) =>
            \A m \in network : m.call = c => m.done

\* An operation that may not be repeated is performed at most once.
AtMostOnce == \A o \in Ops \ MayRepeat : executed[o] <= 1

-----------------------------------------------------------------------------
(* Type correctness. *)

\* The number of attempts is positive, and no step changes it.
LEMMA BudgetType ==
    ASSUME client \in Clients
    PROVE  Budget \in Nat /\ Budget >= 1 /\ (client' = client => Budget' = Budget)
  <1>1. client.maxAttempts \in Int
    BY ClientDoAssumption DEF Clients
  <1> QED
    BY <1>1 DEF Budget

\* The hints and delays are durations.
LEMMA HintType ==
    ASSUME NEW h \in Hints \cup {noRetryAfter}
    PROVE  h \in Nat \cup {noRetryAfter} /\ h \in Int
  BY ClientDoAssumption DEF noRetryAfter

\* What a step of the retry loop sleeps.
LEMMA SleepType ==
    ASSUME TypeOK, NEW c \in Calls, NEW h \in Hints \cup {noRetryAfter},
           NEW d \in delays(baseDelay, maxDelay, attempt[c], h)
    PROVE  /\ d \in Nat
           /\ maxDelay > 0 => d <= maxDelay /\ d >= Min2(h, maxDelay)
           /\ maxDelay <= 0 => d >= h
           /\ (h = noRetryAfter /\ baseDelay > 0) => d > 0
  <1>1. attempt[c] \in Nat
    BY BudgetType DEF TypeOK
  <1>2. baseDelay \in Int /\ maxDelay \in Int
    BY ClientDoAssumption
  <1> QED
    BY <1>1, <1>2, HintType, DelayBounds

\* The message a request is on the wire, and what the bank makes of it.
LEMMA MessageType ==
    /\ \A c \in Calls, n \in Nat, b \in {"full", "consumed"} :
         LET k == [call |-> c, n |-> n, body |-> b, done |-> FALSE]
         IN  k \in Messages /\ k.call = c /\ k.n = n /\ k.body = b /\ k.done = FALSE
    /\ \A m \in Messages :
         LET k == [m EXCEPT !.done = TRUE]
         IN  /\ k \in Messages /\ k.call = m.call /\ k.n = m.n /\ k.body = m.body
             /\ k.done = TRUE
  BY DEF Messages

\* Execute in terms of the message it replaces.
LEMMA ExecuteStep ==
    ASSUME TypeOK, NEW m \in network, Execute(m)
    PROVE  /\ m \in Messages /\ m.call \in Calls /\ ~m.done
           /\ req[m.call].op \in Ops
           /\ \E k \in Messages :
                /\ k.call = m.call /\ k.n = m.n /\ k.body = m.body /\ k.done
                /\ network' = (network \ {m}) \cup {k}
           /\ \/ req[m.call].keyed /\ executed[req[m.call].op] > 0 /\ executed' = executed
              \/ /\ ~(req[m.call].keyed /\ executed[req[m.call].op] > 0)
                 /\ executed' = [executed EXCEPT ![req[m.call].op] = @ + 1]
           /\ UNCHANGED <<slept, client, req, pc, body, getBody, attempt, sent, tokens,
                          canceled, hint, delay, result>>
  <1> DEFINE k == [m EXCEPT !.done = TRUE]
  <1>1. m \in Messages
    BY DEF TypeOK
  <1>2. /\ k \in Messages /\ k.call = m.call /\ k.n = m.n /\ k.body = m.body
        /\ k.done = TRUE
    BY <1>1, MessageType
  <1>3. network' = (network \ {m}) \cup {k}
    BY DEF Execute
  <1> HIDE DEF k
  <1>4. m.call \in Calls /\ req[m.call].op \in Ops
    BY <1>1 DEF Messages, TypeOK, Requests
  <1>5. \E q \in Messages :
           /\ q.call = m.call /\ q.n = m.n /\ q.body = m.body /\ q.done
           /\ network' = (network \ {m}) \cup {q}
    BY <1>2, <1>3
  <1> QED
    BY <1>1, <1>4, <1>5 DEF Execute

\* Send in terms of the message it adds.
LEMMA SendStep ==
    ASSUME TypeOK, NEW c \in Calls, Send(c), c \notin canceled
    PROVE  /\ \E k \in Messages :
                /\ k.call = c /\ k.n = sent[c] + 1 /\ k.body = rewound(c) /\ ~k.done
                /\ network' = network \cup {k}
           /\ pc[c] = "ready" /\ pc' = [pc EXCEPT ![c] = "flight"]
           /\ sent' = [sent EXCEPT ![c] = @ + 1]
           /\ body' = IF req[c].body = "none" THEN body ELSE [body EXCEPT ![c] = "consumed"]
           /\ UNCHANGED <<slept, client, req, getBody, attempt, tokens, canceled, hint, delay,
                          executed, result>>
  <1> DEFINE n == sent[c] + 1
             b == rewound(c)
             k == [call |-> c, n |-> n, body |-> b, done |-> FALSE]
  <1>1. n \in Nat /\ b \in {"full", "consumed"}
    BY DEF TypeOK, rewound
  <1>2. network' = network \cup {k}
    BY DEF Send
  <1> HIDE DEF n, b
  <1>3. k \in Messages /\ k.call = c /\ k.n = n /\ k.body = b /\ ~k.done
    BY <1>1, MessageType
  <1> HIDE DEF k
  <1>4. \E q \in Messages :
            /\ q.call = c /\ q.n = n /\ q.body = b /\ ~q.done
            /\ network' = network \cup {q}
    BY <1>2, <1>3
  <1> QED
    BY <1>4 DEF Send, n, b

\* Type correctness of Do: in particular the loop variable of run never passes
\* the last attempt, and every sleep is a non-negative duration, although the
\* delays are computed in int64.
THEOREM DoTypeCorrect == Spec => []TypeOK
  <1>1. Init => TypeOK
    <2> SUFFICES ASSUME Init PROVE TypeOK
      OBVIOUS
    <2>1. client \in Clients
      BY DEF Init
    <2>2. Budget \in Nat /\ Budget >= 1
      BY <2>1, BudgetType
    <2> QED
      BY <2>1, <2>2 DEF Init, TypeOK
  <1>2. TypeOK /\ [Next]_vars => TypeOK'
    <2> SUFFICES ASSUME TypeOK, [Next]_vars PROVE TypeOK'
      OBVIOUS
    <2> USE DEF TypeOK
    <2>0. /\ Budget \in Nat /\ Budget >= 1
          /\ client' = client => Budget' = Budget
      BY BudgetType
    <2> USE <2>0
    <2>1. ASSUME NEW c \in Calls, Do(c) PROVE TypeOK'
      BY <2>1 DEF Do, Return, Results
    <2>2. ASSUME NEW c \in Calls, LimiterGrants(c) PROVE TypeOK'
      BY <2>2 DEF LimiterGrants
    <2>3. ASSUME NEW c \in Calls, LimiterRefuses(c) PROVE TypeOK'
      BY <2>3 DEF LimiterRefuses, Return, Results
    <2>4. ASSUME NEW c \in Calls, Send(c) PROVE TypeOK'
      <3>1. CASE c \in canceled
        BY <2>4, <3>1 DEF Send, Return, Results
      <3>2. CASE c \notin canceled
        <4>1. network' \subseteq Messages
          BY <2>4, <3>2, SendStep
        <4>2. sent' \in [Calls -> Nat] /\ body' \in [Calls -> {"full", "consumed"}]
          BY <2>4, <3>2, SendStep
        <4> QED
          BY <2>4, <3>2, <4>1, <4>2, SendStep
      <3> QED
        BY <3>1, <3>2
    <2>5. ASSUME NEW c \in Calls, AnswerExpected(c) PROVE TypeOK'
      BY <2>5 DEF AnswerExpected, Return, Results
    <2>6. ASSUME NEW c \in Calls, AnswerRefused(c) PROVE TypeOK'
      BY <2>6 DEF AnswerRefused, Return, Results
    <2>7. ASSUME NEW c \in Calls, TransportError(c) PROVE TypeOK'
      BY <2>7 DEF TransportError, Return, Results
    <2>8. ASSUME NEW c \in Calls, NEW h \in Hints \cup {noRetryAfter},
                 AnswerTransient(c, h)
          PROVE  TypeOK'
      <3>1. \A d \in delays(baseDelay, maxDelay, attempt[c], h) : d \in Nat
        BY SleepType
      <3> QED
        BY <2>8, <3>1 DEF AnswerTransient, afterTransient, Return, Results
    <2>9. ASSUME NEW c \in Calls, Retry(c) PROVE TypeOK'
      BY <2>9 DEF Retry
    <2>10. ASSUME NEW c \in Calls, StopRetrying(c) PROVE TypeOK'
      BY <2>10 DEF StopRetrying, Return, Results
    <2>11. ASSUME NEW c \in Calls, Cancel(c) PROVE TypeOK'
      BY <2>11 DEF Cancel
    <2>12. ASSUME NEW m \in network, Execute(m) PROVE TypeOK'
      <3>1. network' \subseteq Messages
        BY <2>12, ExecuteStep
      <3>2. executed' \in [Ops -> Nat]
        BY <2>12, ExecuteStep
      <3> QED
        BY <2>12, <3>1, <3>2, ExecuteStep
    <2>13. CASE UNCHANGED vars
      BY <2>13 DEF vars
    <2> QED
      BY <2>1, <2>2, <2>3, <2>4, <2>5, <2>6, <2>7, <2>8, <2>9, <2>10, <2>11, <2>12,
         <2>13 DEF Next
  <1> QED
    BY <1>1, <1>2, PTL DEF Spec

-----------------------------------------------------------------------------
(* Tokens, bodies and sleeps. *)

\* The token is taken before the request goes out, on every attempt.
THEOREM TokenInHandHolds == Spec => []TokenInHand
  <1>1. Init => TokenInHand
    BY DEF Init, TokenInHand
  <1>2. TypeOK /\ TokenInHand /\ [Next]_vars => TokenInHand'
    <2> SUFFICES ASSUME TypeOK, TokenInHand, [Next]_vars, client'.limited, NEW d \in Calls
                 PROVE  /\ sent'[d] <= tokens'[d]
                        /\ pc'[d] = "ready" => sent'[d] < tokens'[d]
      BY DEF TokenInHand
    <2>0. /\ sent[d] \in Nat /\ tokens[d] \in Nat
          /\ client.limited => /\ sent[d] <= tokens[d]
                               /\ pc[d] = "ready" => sent[d] < tokens[d]
      BY DEF TypeOK, TokenInHand
    <2>1. ASSUME NEW c \in Calls, Do(c)
          PROVE  sent'[d] <= tokens'[d] /\ (pc'[d] = "ready" => sent'[d] < tokens'[d])
      BY <2>0, <2>1 DEF Do, Return, TypeOK
    <2>2. ASSUME NEW c \in Calls, LimiterGrants(c)
          PROVE  sent'[d] <= tokens'[d] /\ (pc'[d] = "ready" => sent'[d] < tokens'[d])
      BY <2>0, <2>2 DEF LimiterGrants, TypeOK
    <2>3. ASSUME NEW c \in Calls, LimiterRefuses(c) \/ TransportError(c) \/ StopRetrying(c)
          PROVE  sent'[d] <= tokens'[d] /\ (pc'[d] = "ready" => sent'[d] < tokens'[d])
      BY <2>0, <2>3 DEF LimiterRefuses, TransportError, StopRetrying, Return, TypeOK
    <2>4. ASSUME NEW c \in Calls, Send(c)
          PROVE  sent'[d] <= tokens'[d] /\ (pc'[d] = "ready" => sent'[d] < tokens'[d])
      BY <2>0, <2>4 DEF Send, Return, TypeOK
    <2>5. ASSUME NEW c \in Calls, AnswerExpected(c) \/ AnswerRefused(c)
          PROVE  sent'[d] <= tokens'[d] /\ (pc'[d] = "ready" => sent'[d] < tokens'[d])
      BY <2>0, <2>5 DEF AnswerExpected, AnswerRefused, Return, TypeOK
    <2>6. ASSUME NEW c \in Calls, NEW h \in Hints \cup {noRetryAfter}, AnswerTransient(c, h)
          PROVE  sent'[d] <= tokens'[d] /\ (pc'[d] = "ready" => sent'[d] < tokens'[d])
      BY <2>0, <2>6 DEF AnswerTransient, afterTransient, Return, TypeOK
    <2>7. ASSUME NEW c \in Calls, Retry(c) \/ Cancel(c)
          PROVE  sent'[d] <= tokens'[d] /\ (pc'[d] = "ready" => sent'[d] < tokens'[d])
      BY <2>0, <2>7 DEF Retry, Cancel, TypeOK
    <2>8. ASSUME NEW m \in network, Execute(m)
          PROVE  sent'[d] <= tokens'[d] /\ (pc'[d] = "ready" => sent'[d] < tokens'[d])
      BY <2>0, <2>8, ExecuteStep
    <2>9. CASE UNCHANGED vars
      BY <2>0, <2>9 DEF vars
    <2> QED
      BY <2>1, <2>2, <2>3, <2>4, <2>5, <2>6, <2>7, <2>8, <2>9 DEF Next
  <1> QED
    BY <1>1, <1>2, DoTypeCorrect, PTL DEF Spec

\* With a limiter the requests on the wire never outnumber the tokens: a retry
\* pays like a first attempt.
THEOREM TokenPerAttemptHolds == Spec => []TokenPerAttempt
  <1>1. TokenInHand => TokenPerAttempt
    BY DEF TokenInHand, TokenPerAttempt
  <1> QED
    BY <1>1, TokenInHandHolds, PTL

\* The head of Do leaves every body replayable, and no step undoes that.
THEOREM ReplayableHolds == Spec => []Replayable
  <1>1. Init => Replayable
    BY ZenonT(30) DEF Init, Replayable
  <1>2. TypeOK /\ Replayable /\ [Next]_vars => Replayable'
    <2> SUFFICES ASSUME TypeOK, Replayable, [Next]_vars PROVE Replayable'
      OBVIOUS
    <2> USE DEF Replayable, TypeOK
    <2>1. ASSUME NEW c \in Calls, Do(c) PROVE Replayable'
      <3>1. \A d \in Calls : req[d].body \in {"none", "replayable", "stream"}
        BY ClientDoAssumption DEF Requests
      <3>2. /\ \A d \in Calls \ {c} : pc'[d] = pc[d] /\ getBody'[d] = getBody[d]
            /\ body' = body /\ req' = req /\ pc[c] = "idle"
        BY <2>1 DEF Do, Return
      <3>3. \/ pc'[c] = "done" /\ getBody'[c] = getBody[c]
            \/ pc'[c] = "wait" /\ getBody'[c] = (getBody[c] \/ req[c].body = "stream")
        BY <2>1 DEF Do, Return
      <3> QED
        BY <3>1, <3>2, <3>3
    <2>2. ASSUME NEW c \in Calls, LimiterGrants(c) \/ LimiterRefuses(c) \/ Retry(c)
          PROVE  Replayable'
      BY <2>2 DEF LimiterGrants, LimiterRefuses, Retry, Return
    <2>3. ASSUME NEW c \in Calls, Send(c) PROVE Replayable'
      BY <2>3 DEF Send, Return
    <2>4. ASSUME NEW c \in Calls, AnswerExpected(c) \/ AnswerRefused(c) PROVE Replayable'
      BY <2>4 DEF AnswerExpected, AnswerRefused, Return
    <2>5. ASSUME NEW c \in Calls, NEW h \in Hints \cup {noRetryAfter}, AnswerTransient(c, h)
          PROVE  Replayable'
      BY <2>5 DEF AnswerTransient, afterTransient, Return
    <2>6. ASSUME NEW c \in Calls, TransportError(c) \/ StopRetrying(c) \/ Cancel(c)
          PROVE  Replayable'
      BY <2>6 DEF TransportError, StopRetrying, Cancel, Return
    <2>7. ASSUME NEW m \in network, Execute(m) PROVE Replayable'
      BY <2>7, ExecuteStep
    <2>8. CASE UNCHANGED vars
      BY <2>8 DEF vars
    <2> QED
      BY <2>1, <2>2, <2>3, <2>4, <2>5, <2>6, <2>7, <2>8 DEF Next
  <1> QED
    BY <1>1, <1>2, DoTypeCorrect, PTL DEF Spec

\* Every request on the wire carries its whole body, whichever attempt it is and
\* whatever kind of reader the caller passed.
THEOREM BodyIntactHolds == Spec => []BodyIntact
  <1>1. Init => BodyIntact
    BY DEF Init, BodyIntact
  <1>2. TypeOK /\ Replayable /\ BodyIntact /\ [Next]_vars => BodyIntact'
    <2> SUFFICES ASSUME TypeOK, Replayable, BodyIntact, [Next]_vars PROVE BodyIntact'
      OBVIOUS
    <2>0. ASSUME network' \subseteq network PROVE BodyIntact'
      BY <2>0 DEF BodyIntact
    <2>1. ASSUME NEW c \in Calls, Send(c) PROVE BodyIntact'
      <3>1. CASE c \in canceled
        BY <2>0, <2>1, <3>1 DEF Send
      <3>2. CASE c \notin canceled
        <4>1. rewound(c) = "full"
          BY <2>1 DEF rewound, Send, Replayable
        <4> QED
          BY <2>1, <3>2, <4>1, SendStep DEF BodyIntact
      <3> QED
        BY <3>1, <3>2
    <2>2. ASSUME NEW m \in network, Execute(m) PROVE BodyIntact'
      BY <2>2, ExecuteStep DEF BodyIntact
    <2>3. ASSUME NEW c \in Calls, NEW h \in Hints \cup {noRetryAfter}, AnswerTransient(c, h)
          PROVE  BodyIntact'
      BY <2>0, <2>3 DEF AnswerTransient
    <2>4. ASSUME NEW c \in Calls,
                 \/ Do(c) \/ LimiterGrants(c) \/ LimiterRefuses(c) \/ TransportError(c)
                 \/ AnswerExpected(c) \/ AnswerRefused(c) \/ Retry(c) \/ StopRetrying(c)
                 \/ Cancel(c)
          PROVE  BodyIntact'
      BY <2>0, <2>4 DEF Do, LimiterGrants, LimiterRefuses, TransportError, AnswerExpected,
                        AnswerRefused, Retry, StopRetrying, Cancel
    <2>5. CASE UNCHANGED vars
      BY <2>0, <2>5 DEF vars
    <2> QED
      BY <2>1, <2>2, <2>3, <2>4, <2>5 DEF Next
  <1> QED
    BY <1>1, <1>2, DoTypeCorrect, ReplayableHolds, PTL DEF Spec

\* The sleep before a retry honours the server's Retry-After up to maxDelay, for
\* every policy, hint and number of attempts.
THEOREM HintOrCeilingHolds == Spec => []HintOrCeiling
  <1>1. Init => HintOrCeiling
    BY DEF Init, HintOrCeiling
  <1>2. TypeOK /\ HintOrCeiling /\ [Next]_vars => HintOrCeiling'
    <2> SUFFICES ASSUME TypeOK, HintOrCeiling, [Next]_vars, NEW d \in Calls,
                        pc'[d] = "sleep"
                 PROVE  /\ maxDelay > 0 => delay'[d] >= Min2(hint'[d], maxDelay)
                        /\ maxDelay <= 0 => delay'[d] >= hint'[d]
                        /\ (hint'[d] = noRetryAfter /\ baseDelay > 0) => delay'[d] > 0
      BY DEF HintOrCeiling, Min2
    <2> DEFINE Good == /\ maxDelay > 0 => delay'[d] >= Min2(hint'[d], maxDelay)
                       /\ maxDelay <= 0 => delay'[d] >= hint'[d]
                       /\ (hint'[d] = noRetryAfter /\ baseDelay > 0) => delay'[d] > 0
    <2>0. ASSUME pc[d] = "sleep", delay'[d] = delay[d], hint'[d] = hint[d] PROVE Good
      BY <2>0 DEF HintOrCeiling
    <2>1. ASSUME NEW c \in Calls, NEW h \in Hints \cup {noRetryAfter}, AnswerTransient(c, h)
          PROVE  Good
      <3>1. CASE c = d
        <4>1. PICK x \in delays(baseDelay, maxDelay, attempt[c], h) :
                delay' = [delay EXCEPT ![c] = x]
          BY <2>1, <3>1 DEF AnswerTransient, afterTransient, Return, TypeOK
        <4>2. delay'[d] = x /\ hint'[d] = h
          BY <2>1, <3>1, <4>1 DEF AnswerTransient, afterTransient, TypeOK
        <4> QED
          BY <4>1, <4>2, SleepType
      <3>2. CASE c # d
        BY <2>0, <2>1, <3>2 DEF AnswerTransient, afterTransient, Return, TypeOK
      <3> QED
        BY <3>1, <3>2
    <2> HIDE DEF Good
    <2>2. ASSUME NEW c \in Calls, Do(c) \/ LimiterGrants(c) \/ LimiterRefuses(c) \/ Send(c)
          PROVE  Good
      BY <2>0, <2>2 DEF Do, LimiterGrants, LimiterRefuses, Send, Return, TypeOK
    <2>3. ASSUME NEW c \in Calls, AnswerExpected(c) \/ AnswerRefused(c) \/ TransportError(c)
          PROVE  Good
      BY <2>0, <2>3 DEF AnswerExpected, AnswerRefused, TransportError, Return, TypeOK
    <2>4. ASSUME NEW c \in Calls, Retry(c) \/ StopRetrying(c) \/ Cancel(c)
          PROVE  Good
      BY <2>0, <2>4 DEF Retry, StopRetrying, Cancel, Return, TypeOK
    <2>5. ASSUME NEW m \in network, Execute(m) PROVE Good
      BY <2>0, <2>5, ExecuteStep
    <2>6. ASSUME UNCHANGED vars PROVE Good
      BY <2>0, <2>6 DEF vars
    <2>7. Good
      BY <2>1, <2>2, <2>3, <2>4, <2>5, <2>6 DEF Next
    <2> QED
      BY <2>7 DEF Good
  <1> QED
    BY <1>1, <1>2, DoTypeCorrect, PTL DEF Spec

\* Products of a duration and a number of attempts grow with that number.
LEMMA Grows ==
    ASSUME NEW a \in Nat, NEW b \in Nat, a <= b, NEW d \in Nat
    PROVE  /\ a * d \in Nat /\ b * d \in Nat
           /\ a * d <= b * d
           /\ (a + 1) * d = a * d + d
  OBVIOUS

\* The sleeps of a call add up to at most maxDelay per attempt made.
THEOREM SleptPerAttemptHolds == Spec => []SleptPerAttempt
  <1>1. Init => SleptPerAttempt
    <2> SUFFICES ASSUME Init, maxDelay > 0, NEW c \in Calls
                 PROVE  slept[c] <= attempt[c] * maxDelay /\ pc[c] # "sleep"
      BY DEF SleptPerAttempt
    <2>1. slept[c] = 0 /\ attempt[c] = 0 /\ pc[c] = "idle" /\ maxDelay \in Int
      BY ClientDoAssumption DEF Init
    <2> QED
      BY <2>1
  <1>2. TypeOK /\ SleptPerAttempt /\ [Next]_vars => SleptPerAttempt'
    <2> SUFFICES ASSUME TypeOK, SleptPerAttempt, [Next]_vars, maxDelay > 0, NEW d \in Calls
                 PROVE  /\ slept'[d] <= attempt'[d] * maxDelay
                        /\ pc'[d] = "sleep" => delay'[d] <= maxDelay
      BY DEF SleptPerAttempt
    <2> DEFINE Bounded == /\ slept'[d] <= attempt'[d] * maxDelay
                          /\ pc'[d] = "sleep" => delay'[d] <= maxDelay
    <2>a. /\ slept[d] <= attempt[d] * maxDelay
          /\ pc[d] = "sleep" => delay[d] <= maxDelay
          /\ slept[d] \in Nat /\ attempt[d] \in Nat /\ delay[d] \in Nat /\ maxDelay \in Nat
      BY ClientDoAssumption, BudgetType DEF SleptPerAttempt, TypeOK
    <2>0. ASSUME slept'[d] = slept[d], attempt'[d] = attempt[d],
                 pc'[d] = "sleep" => pc[d] = "sleep" /\ delay'[d] = delay[d]
          PROVE  Bounded
      BY <2>0, <2>a
    <2>1. ASSUME NEW c \in Calls, Retry(c) PROVE Bounded
      <3>1. CASE c = d
        <4>1. /\ attempt'[d] = attempt[d] + 1 /\ slept'[d] = slept[d] + delay[d]
              /\ pc'[d] = "wait" /\ pc[d] = "sleep"
          BY <2>1, <3>1 DEF Retry, TypeOK
        <4>2. (attempt[d] + 1) * maxDelay = attempt[d] * maxDelay + maxDelay
          BY <2>a, Grows
        <4>3. attempt[d] * maxDelay \in Nat
          BY <2>a, Grows
        <4> QED
          BY <2>a, <4>1, <4>2, <4>3
      <3>2. CASE c # d
        BY <2>0, <2>1, <3>2 DEF Retry, TypeOK
      <3> QED
        BY <3>1, <3>2
    <2>2. ASSUME NEW c \in Calls, NEW h \in Hints \cup {noRetryAfter}, AnswerTransient(c, h)
          PROVE  Bounded
      <3>1. CASE c = d /\ pc'[d] = "sleep"
        <4>1. PICK x \in delays(baseDelay, maxDelay, attempt[c], h) :
                delay' = [delay EXCEPT ![c] = x]
          BY <2>2, <3>1 DEF AnswerTransient, afterTransient, Return, TypeOK
        <4>2. delay'[d] = x /\ slept'[d] = slept[d] /\ attempt'[d] = attempt[d]
          BY <2>2, <3>1, <4>1 DEF AnswerTransient, TypeOK
        <4>3. x <= maxDelay
          BY <4>1, SleepType
        <4> QED
          BY <2>a, <4>2, <4>3
      <3>2. CASE ~(c = d /\ pc'[d] = "sleep")
        BY <2>0, <2>2, <3>2 DEF AnswerTransient, afterTransient, Return, TypeOK
      <3> QED
        BY <3>1, <3>2
    <2> HIDE DEF Bounded
    <2>3. ASSUME NEW c \in Calls, Do(c) \/ LimiterGrants(c) \/ LimiterRefuses(c) \/ Send(c)
          PROVE  Bounded
      BY <2>0, <2>3 DEF Do, LimiterGrants, LimiterRefuses, Send, Return, TypeOK
    <2>4. ASSUME NEW c \in Calls, AnswerExpected(c) \/ AnswerRefused(c) \/ TransportError(c)
          PROVE  Bounded
      BY <2>0, <2>4 DEF AnswerExpected, AnswerRefused, TransportError, Return, TypeOK
    <2>5. ASSUME NEW c \in Calls, StopRetrying(c) \/ Cancel(c) PROVE Bounded
      BY <2>0, <2>5 DEF StopRetrying, Cancel, Return, TypeOK
    <2>6. ASSUME NEW m \in network, Execute(m) PROVE Bounded
      BY <2>0, <2>6, ExecuteStep
    <2>7. ASSUME UNCHANGED vars PROVE Bounded
      BY <2>0, <2>7 DEF vars
    <2>8. Bounded
      BY <2>1, <2>2, <2>3, <2>4, <2>5, <2>6, <2>7 DEF Next
    <2> QED
      BY <2>8 DEF Bounded
  <1> QED
    BY <1>1, <1>2, DoTypeCorrect, PTL DEF Spec

\* The signature of a signed request is never older, on the wire, than the
\* policy's sleeps allow: (attempts - 1) times maxDelay.
THEOREM SignatureAgeHolds == Spec => []SignatureAge
  <1>1. TypeOK /\ SleptPerAttempt => SignatureAge
    <2> SUFFICES ASSUME TypeOK, SleptPerAttempt, maxDelay > 0, NEW c \in Calls
                 PROVE  slept[c] <= (Budget - 1) * maxDelay
      BY DEF SignatureAge
    <2>1. /\ slept[c] \in Nat /\ maxDelay \in Nat
          /\ Budget - 1 \in Nat /\ attempt[c] \in Nat /\ attempt[c] <= Budget - 1
      BY ClientDoAssumption, BudgetType DEF TypeOK
    <2>2. /\ attempt[c] * maxDelay <= (Budget - 1) * maxDelay
          /\ attempt[c] * maxDelay \in Nat /\ (Budget - 1) * maxDelay \in Nat
      BY <2>1, Grows
    <2>3. slept[c] <= attempt[c] * maxDelay
      BY DEF SleptPerAttempt
    <2> QED
      BY <2>1, <2>2, <2>3
  <1> QED
    BY <1>1, DoTypeCorrect, SleptPerAttemptHolds, PTL

-----------------------------------------------------------------------------
(* Once or not at all: the invariants under the refinement of Promise. *)

\* Where a call is, what it has sent and what it returns, in every kind of step.
Course(c) ==
    \/ /\ pc[c] = "idle" /\ sent'[c] = sent[c]
       /\ \/ pc'[c] = "done" /\ result'[c] = "rejected"
          \/ pc'[c] = "wait" /\ result'[c] = result[c]
    \/ /\ pc[c] = "wait" /\ pc'[c] = "ready"
       /\ sent'[c] = sent[c] /\ result'[c] = result[c]
    \/ /\ pc[c] = "ready" /\ pc'[c] = "flight"
       /\ sent'[c] = sent[c] + 1 /\ result'[c] = result[c]
    \/ /\ pc[c] = "flight" /\ pc'[c] = "sleep" /\ shouldRetry(req[c])
       /\ sent'[c] = sent[c] /\ result'[c] = result[c]
    \/ /\ pc[c] = "sleep" /\ pc'[c] = "wait"
       /\ sent'[c] = sent[c] /\ result'[c] = result[c]
    \/ /\ pc[c] \notin {"idle", "done"} /\ pc'[c] = "done"
       /\ sent'[c] = sent[c] /\ result'[c] \in Results \ {"rejected"}
       /\ result'[c] = "nil" => \E m \in network : m.call = c /\ m.done
    \/ pc'[c] = pc[c] /\ sent'[c] = sent[c] /\ result'[c] = result[c]

\* A call that takes no part in a step.
Rests(c) == pc'[c] = pc[c] /\ sent'[c] = sent[c] /\ result'[c] = result[c]

\* Every step of Do moves one call along its course and leaves the others alone;
\* only the bank's own steps perform operations.
LEMMA StepCourse ==
    ASSUME TypeOK, [Next]_vars
    PROVE  /\ client' = client /\ req' = req
           /\ \A d \in Calls : Course(d)
           /\ \/ (\A d \in Calls : Rests(d)) /\ \E m \in network : Execute(m)
              \/ (\A d \in Calls : Rests(d)) /\ executed' = executed
              \/ /\ executed' = executed
                 /\ \E c \in Calls : \A d \in Calls \ {c} : Rests(d)
  <1> DEFINE Moves(c) == /\ client' = client /\ req' = req /\ executed' = executed
                         /\ Course(c)
                         /\ \A d \in Calls \ {c} : Rests(d)
  <1>a. \A d \in Calls : Rests(d) => Course(d)
    BY DEF Course, Rests
  <1> USE DEF Rests
  <1>1. ASSUME NEW c \in Calls, Do(c) PROVE Moves(c)
    BY <1>1 DEF Do, Return, Course, TypeOK
  <1>2. ASSUME NEW c \in Calls, LimiterGrants(c) PROVE Moves(c)
    BY <1>2 DEF LimiterGrants, Course, TypeOK
  <1>3. ASSUME NEW c \in Calls, LimiterRefuses(c) PROVE Moves(c)
    BY <1>3 DEF LimiterRefuses, Return, Course, TypeOK, Results
  <1>4. ASSUME NEW c \in Calls, Send(c) PROVE Moves(c)
    BY <1>4 DEF Send, Return, Course, TypeOK, Results
  <1>5. ASSUME NEW c \in Calls, AnswerExpected(c) PROVE Moves(c)
    <2>1. \E m \in network : m.call = c /\ m.done
      BY <1>5 DEF AnswerExpected, Pending
    <2> QED
      BY <1>5, <2>1 DEF AnswerExpected, Return, Course, TypeOK, Results
  <1>6. ASSUME NEW c \in Calls, AnswerRefused(c) PROVE Moves(c)
    BY <1>6 DEF AnswerRefused, Return, Course, TypeOK, Results
  <1>7. ASSUME NEW c \in Calls, TransportError(c) PROVE Moves(c)
    BY <1>7 DEF TransportError, Return, Course, TypeOK, Results
  <1>8. ASSUME NEW c \in Calls, NEW h \in Hints \cup {noRetryAfter}, AnswerTransient(c, h)
        PROVE  Moves(c)
    BY <1>8 DEF AnswerTransient, afterTransient, Return, Course, TypeOK, Results
  <1>9. ASSUME NEW c \in Calls, Retry(c) PROVE Moves(c)
    BY <1>9 DEF Retry, Course, TypeOK
  <1>10. ASSUME NEW c \in Calls, StopRetrying(c) PROVE Moves(c)
    BY <1>10 DEF StopRetrying, Return, Course, TypeOK, Results
  <1>11. ASSUME NEW c \in Calls, Cancel(c) PROVE Moves(c)
    BY <1>11 DEF Cancel, Course
  <1>12. ASSUME NEW m \in network, Execute(m)
         PROVE  client' = client /\ req' = req /\ \A d \in Calls : Rests(d)
    BY <1>12, ExecuteStep
  <1>13. ASSUME UNCHANGED vars
         PROVE  /\ client' = client /\ req' = req /\ executed' = executed
                /\ \A d \in Calls : Rests(d)
    BY <1>13 DEF vars
  <1> HIDE DEF Moves, Rests
  <1>14. \/ \E c \in Calls : Moves(c)
         \/ \E m \in network : Execute(m)
         \/ UNCHANGED vars
    BY <1>1, <1>2, <1>3, <1>4, <1>5, <1>6, <1>7, <1>8, <1>9, <1>10, <1>11 DEF Next
  <1>15. CASE \E c \in Calls : Moves(c)
    BY <1>a, <1>15 DEF Moves
  <1>16. CASE \E m \in network : Execute(m)
    BY <1>a, <1>12, <1>16
  <1>17. CASE UNCHANGED vars
    BY <1>a, <1>13, <1>17
  <1> QED
    BY <1>14, <1>15, <1>16, <1>17

\* What a step does to the messages: it takes some away, adds the one of an
\* attempt that goes out, or marks one as performed.
LEMMA StepNetwork ==
    ASSUME TypeOK, [Next]_vars
    PROVE  \/ network' \subseteq network /\ executed' = executed
           \/ /\ executed' = executed
              /\ \E c \in Calls, k \in Messages :
                   /\ network' = network \cup {k}
                   /\ k.call = c /\ k.n = sent[c] + 1 /\ ~k.done
                   /\ pc[c] = "ready" /\ sent'[c] = sent[c] + 1
           \/ \E m \in network : Execute(m)
  <1>1. ASSUME NEW c \in Calls, Send(c), c \notin canceled
        PROVE  /\ executed' = executed
               /\ \E k \in Messages :
                    /\ network' = network \cup {k}
                    /\ k.call = c /\ k.n = sent[c] + 1 /\ ~k.done
                    /\ pc[c] = "ready" /\ sent'[c] = sent[c] + 1
    <2>1. sent'[c] = sent[c] + 1 /\ pc[c] = "ready" /\ executed' = executed
      BY <1>1, SendStep DEF TypeOK
    <2> QED
      BY <1>1, <2>1, SendStep
  <1>2. ASSUME NEW c \in Calls, Send(c), c \in canceled
        PROVE  network' \subseteq network /\ executed' = executed
    BY <1>2 DEF Send
  <1>3. ASSUME NEW c \in Calls, NEW h \in Hints \cup {noRetryAfter}, AnswerTransient(c, h)
        PROVE  network' \subseteq network /\ executed' = executed
    BY <1>3 DEF AnswerTransient
  <1>4. ASSUME NEW c \in Calls,
               \/ Do(c) \/ LimiterGrants(c) \/ LimiterRefuses(c) \/ TransportError(c)
               \/ AnswerExpected(c) \/ AnswerRefused(c) \/ Retry(c) \/ StopRetrying(c)
               \/ Cancel(c)
        PROVE  network' \subseteq network /\ executed' = executed
    BY <1>4 DEF Do, LimiterGrants, LimiterRefuses, TransportError, AnswerExpected,
                AnswerRefused, Retry, StopRetrying, Cancel
  <1>5. ASSUME UNCHANGED vars
        PROVE  network' \subseteq network /\ executed' = executed
    BY <1>5 DEF vars
  <1> QED
    BY <1>1, <1>2, <1>3, <1>4, <1>5 DEF Next

\* Results and first checks.
THEOREM CheckedFirstHolds == Spec => [](Returned /\ CheckedFirst)
  <1>1. Init => Returned /\ CheckedFirst
    BY ClientDoAssumption DEF Init, Returned, CheckedFirst, Results
  <1>2. TypeOK /\ Returned /\ CheckedFirst /\ [Next]_vars => (Returned /\ CheckedFirst)'
    <2> SUFFICES ASSUME TypeOK, Returned, CheckedFirst, [Next]_vars, NEW c \in Calls
                 PROVE  /\ (pc'[c] = "done") <=> (result'[c] # None)
                        /\ pc'[c] = "idle" \/ result'[c] = "rejected" => sent'[c] = 0
      BY DEF Returned, CheckedFirst
    <2>1. Course(c)
      BY StepCourse
    <2>2. None \notin Results /\ result[c] \in Results \cup {None}
      BY ClientDoAssumption DEF TypeOK
    <2> QED
      BY <2>1, <2>2 DEF Course, Returned, CheckedFirst, Results
  <1> QED
    BY <1>1, <1>2, DoTypeCorrect, PTL DEF Spec

\* A request that is not retried is sent once.
THEOREM OneShotHolds == Spec => []OneShot
  <1>1. Init => OneShot
    BY DEF Init, OneShot
  <1>2. TypeOK /\ OneShot /\ [Next]_vars => OneShot'
    <2> SUFFICES ASSUME TypeOK, OneShot, [Next]_vars, NEW c \in Calls,
                        ~shouldRetry(req[c])'
                 PROVE  /\ pc'[c] # "sleep"
                        /\ pc'[c] \in {"idle", "wait", "ready"} => sent'[c] = 0
                        /\ sent'[c] <= 1
      BY DEF OneShot
    <2>1. Course(c) /\ client' = client /\ req' = req
      BY StepCourse
    <2>2. ~shouldRetry(req[c])
      BY <2>1 DEF shouldRetry
    <2>3. sent[c] \in Nat
      BY DEF TypeOK
    <2> QED
      BY <2>1, <2>2, <2>3 DEF Course, OneShot
  <1> QED
    BY <1>1, <1>2, DoTypeCorrect, PTL DEF Spec

\* Messages are numbered, and every performed operation was asked for.
THEOREM AccountedHolds == Spec => [](Numbered /\ Accounted)
  <1>1. Init => Numbered /\ Accounted
    BY DEF Init, Numbered, Accounted
  <1>2. TypeOK /\ Numbered /\ Accounted /\ [Next]_vars => (Numbered /\ Accounted)'
    <2> SUFFICES ASSUME TypeOK, Numbered, Accounted, [Next]_vars
                 PROVE  Numbered' /\ Accounted'
      OBVIOUS
    <2>1. client' = client /\ req' = req
      BY StepCourse
    <2>2. \A c \in Calls : sent[c] \in Nat /\ sent'[c] \in Nat /\ sent[c] <= sent'[c]
      <3> TAKE c \in Calls
      <3>1. sent[c] \in Nat /\ Course(c)
        BY StepCourse DEF TypeOK
      <3> QED
        BY <3>1 DEF Course
    <2>3. \A m \in network : m.call \in Calls /\ m.n \in Nat /\ req[m.call].op \in Ops
      BY DEF TypeOK, Messages, Requests
    <2>4. CASE network' \subseteq network /\ executed' = executed
      <3>1. Numbered'
        BY <2>2, <2>3, <2>4 DEF Numbered
      <3>2. Accounted'
        BY <2>1, <2>2, <2>4 DEF Accounted
      <3> QED
        BY <3>1, <3>2
    <2>5. CASE /\ executed' = executed
               /\ \E c \in Calls, k \in Messages :
                    /\ network' = network \cup {k}
                    /\ k.call = c /\ k.n = sent[c] + 1 /\ ~k.done
                    /\ pc[c] = "ready" /\ sent'[c] = sent[c] + 1
      <3>1. Numbered'
        BY <2>2, <2>3, <2>5 DEF Numbered
      <3>2. Accounted'
        BY <2>1, <2>2, <2>5 DEF Accounted
      <3> QED
        BY <3>1, <3>2
    <2>6. ASSUME NEW m \in network, Execute(m) PROVE Numbered' /\ Accounted'
      <3> DEFINE o == req[m.call].op
      <3>1. PICK k \in Messages :
              /\ k.call = m.call /\ k.n = m.n /\ k.done
              /\ network' = (network \ {m}) \cup {k}
        BY <2>6, ExecuteStep
      <3>2. sent' = sent
        BY <2>6, ExecuteStep
      <3>3. Numbered'
        BY <2>3, <3>1, <3>2 DEF Numbered
      <3>4. /\ o \in Ops /\ executed'[o] > 0
            /\ \A x \in Ops \ {o} : executed'[x] = executed[x]
        BY <2>3, <2>6, ExecuteStep DEF TypeOK
      <3>5. sent[m.call] > 0
        BY <2>2, <2>3 DEF Numbered
      <3> HIDE DEF o
      <3>6. \A x \in Ops : executed'[x] > 0 => \E c \in Calls : req[c].op = x /\ sent[c] > 0
        <4> TAKE x \in Ops
        <4>1. CASE x = o
          BY <2>3, <3>5, <4>1 DEF o
        <4>2. CASE x # o
          BY <3>4, <4>2 DEF Accounted
        <4> QED
          BY <4>1, <4>2
      <3>7. \A q \in network' : q.done => executed'[req[q.call].op] > 0
        <4> TAKE q \in network'
        <4>1. CASE q.call = m.call
          BY <3>4, <4>1 DEF o
        <4>2. CASE q.call # m.call
          <5>1. q \in network
            BY <3>1, <4>2
          <5> QED
            BY <2>3, <3>4, <5>1 DEF Accounted
        <4> QED
          BY <4>1, <4>2
      <3> QED
        BY <2>1, <3>2, <3>3, <3>6, <3>7 DEF Accounted
    <2> QED
      BY <2>4, <2>5, <2>6, StepNetwork
  <1> QED
    BY <1>1, <1>2, DoTypeCorrect, PTL DEF Spec

\* Nothing of a lone call that is not retried can be performed a second time.
THEOREM SpentHolds == Spec => []Spent
  <1>1. Init => Spent
    BY DEF Init, Spent
  <1>2. TypeOK /\ OneShot /\ Numbered /\ Accounted /\ Spent /\ [Next]_vars => Spent'
    <2> SUFFICES ASSUME TypeOK, OneShot, Numbered, Accounted, Spent, [Next]_vars,
                        NEW c \in Calls, Sole(c)', ~shouldRetry(req[c])',
                        executed'[req'[c].op] > 0,
                        NEW m \in network', m.call = c
                 PROVE  m.done
      BY DEF Spent
    <2>1. /\ client' = client /\ req' = req /\ Sole(c) /\ ~shouldRetry(req[c])
          /\ executed'[req[c].op] > 0
      BY StepCourse DEF Sole, shouldRetry
    <2>2. ASSUME m \in network, executed[req[c].op] > 0 PROVE m.done
      BY <2>1, <2>2 DEF Spent
    <2>3. \A q \in network : q.call \in Calls /\ q.n \in Nat /\ req[q.call].op \in Ops
      BY DEF TypeOK, Messages, Requests
    <2>4. CASE network' \subseteq network /\ executed' = executed
      BY <2>1, <2>2, <2>4
    <2>5. CASE /\ executed' = executed
               /\ \E d \in Calls, k \in Messages :
                    /\ network' = network \cup {k}
                    /\ k.call = d /\ k.n = sent[d] + 1 /\ ~k.done
                    /\ pc[d] = "ready" /\ sent'[d] = sent[d] + 1
      <3>1. executed[req[c].op] > 0
        BY <2>1, <2>5
      <3>2. req[c].op \in Ops
        BY DEF TypeOK, Requests
      <3>3. sent[c] > 0
        BY <2>1, <3>1, <3>2 DEF Accounted, Sole
      <3>4. pc[c] # "ready"
        BY <2>1, <3>3 DEF OneShot, TypeOK
      <3> QED
        BY <2>2, <2>5, <3>1, <3>4
    <2>6. ASSUME NEW q \in network, Execute(q) PROVE m.done
      <3>1. PICK k \in Messages :
              /\ k.call = q.call /\ k.n = q.n /\ k.done
              /\ network' = (network \ {q}) \cup {k}
        BY <2>6, ExecuteStep
      <3>2. CASE m = k
        BY <3>1, <3>2
      <3>3. CASE m # k
        <4>1. m \in network /\ m # q
          BY <3>1, <3>3
        <4>2. sent[c] \in Nat /\ sent[c] <= 1
          BY <2>1 DEF OneShot, TypeOK
        <4>3. q.call # c
          <5> SUFFICES ASSUME q.call = c PROVE FALSE
            OBVIOUS
          <5>1. m.n = 1 /\ q.n = 1
            BY <2>3, <4>1, <4>2 DEF Numbered
          <5> QED
            BY <4>1, <5>1 DEF Numbered
        <4>4. req[q.call].op # req[c].op /\ req[c].op \in Ops
          BY <2>1, <2>3, <4>3 DEF Sole, TypeOK, Requests
        <4>5. executed'[req[c].op] = executed[req[c].op]
          BY <2>6, <4>4, ExecuteStep DEF TypeOK
        <4> QED
          BY <2>1, <2>2, <4>1, <4>5
      <3> QED
        BY <3>2, <3>3
    <2> QED
      BY <2>4, <2>5, <2>6, StepNetwork
  <1> QED
    BY <1>1, <1>2, DoTypeCorrect, OneShotHolds, AccountedHolds, PTL DEF Spec

\* When the bank performs an operation, it may be repeated or has not been
\* performed before.
LEMMA PerformedOnce ==
    ASSUME TypeOK, Spent, NEW m \in network, Execute(m), executed' # executed
    PROVE  LET o == req[m.call].op
           IN  /\ o \in Ops
               /\ o \in MayRepeat \/ executed[o] = 0
               /\ executed' = [executed EXCEPT ![o] = @ + 1]
  <1> DEFINE c == m.call
             o == req[m.call].op
  <1>1. /\ c \in Calls /\ o \in Ops /\ ~m.done /\ executed[o] \in Nat
        /\ executed' = [executed EXCEPT ![o] = @ + 1]
        /\ ~(req[c].keyed /\ executed[o] > 0)
    BY ExecuteStep DEF TypeOK
  <1>2. CASE o \notin MayRepeat /\ ~req[c].keyed
    <2>1. /\ ~client.unsafeRetries /\ KeyDiscipline(o)
          /\ Unsafe(req[c].method)
      BY <1>1, <1>2 DEF MayRepeat
    <2>2. Sole(c)
      BY <1>1, <1>2, <2>1 DEF KeyDiscipline, Sole
    <2>3. ~shouldRetry(req[c])
      BY <1>2, <2>1 DEF shouldRetry, Unsafe
    <2>4. ~(executed[o] > 0)
      BY <1>1, <2>2, <2>3 DEF Spent
    <2> QED
      BY <1>1, <2>4
  <1>3. CASE o \in MayRepeat \/ req[c].keyed
    BY <1>1, <1>3
  <1> QED
    BY <1>2, <1>3

\* The operations that may be repeated are those of the start.
LEMMA MayRepeatFixed ==
    ASSUME client' = client, req' = req
    PROVE  MayRepeat' = MayRepeat
  BY DEF MayRepeat, KeyDiscipline, Unsafe

\* An operation that may not be repeated is performed at most once, whatever the
\* retries, the concurrent calls and the late executions do.
THEOREM AtMostOnceHolds == Spec => []AtMostOnce
  <1>1. Init => AtMostOnce
    BY DEF Init, AtMostOnce
  <1>2. TypeOK /\ Spent /\ AtMostOnce /\ [Next]_vars => AtMostOnce'
    <2> SUFFICES ASSUME TypeOK, Spent, AtMostOnce, [Next]_vars PROVE AtMostOnce'
      OBVIOUS
    <2>1. MayRepeat' = MayRepeat
      BY StepCourse, MayRepeatFixed
    <2>2. CASE executed' = executed
      BY <2>1, <2>2 DEF AtMostOnce
    <2>3. ASSUME NEW m \in network, Execute(m), executed' # executed PROVE AtMostOnce'
      <3> DEFINE o == req[m.call].op
      <3>1. /\ o \in Ops
            /\ o \in MayRepeat \/ executed[o] = 0
            /\ executed' = [executed EXCEPT ![o] = @ + 1]
        BY <2>3, PerformedOnce
      <3> HIDE DEF o
      <3> QED
        BY <2>1, <3>1 DEF AtMostOnce, TypeOK
    <2> QED
      BY <2>2, <2>3, StepNetwork
  <1> QED
    BY <1>1, <1>2, DoTypeCorrect, SpentHolds, PTL DEF Spec

-----------------------------------------------------------------------------
(* The refinement. *)

\* What the course of a call looks like in Promise.
LEMMA PhaseCourse ==
    ASSUME TypeOK, Returned, NEW c \in Calls, Course(c)
    PROVE  \/ Phase(c)' = Phase(c)
           \/ Phase(c) = "new" /\ Phase(c)' = "rejected"
           \/ Phase(c) = "new" /\ Phase(c)' = "live"
           \/ Phase(c) = "live" /\ Phase(c)' = "failed"
           \/ /\ Phase(c) = "live" /\ Phase(c)' = "ok"
              /\ \E m \in network : m.call = c /\ m.done
  <1>1. None \notin Results /\ result[c] \in Results \cup {None}
    BY ClientDoAssumption DEF TypeOK
  <1>2. (pc[c] = "done") <=> (result[c] # None)
    BY DEF Returned
  <1> QED
    BY <1>1, <1>2 DEF Course, Phase, Results

\* A call that rests keeps its phase.
LEMMA PhaseRests ==
    ASSUME NEW c \in Calls, Rests(c)
    PROVE  Phase(c)' = Phase(c)
  BY DEF Rests, Phase

\* Do implements Promise, with its retries, its limiter, its body buffering and
\* its cancellation: a POST or PATCH is performed at most once, with a key also
\* across concurrent calls, unless WithUnsafeRetries; Do returns nil only for an
\* operation the bank has performed; a call that fails its checks has no effect.
THEOREM DoKeepsPromise == Spec => KeepsPromise
  <1> DEFINE ops == [c \in Calls |-> req[c].op]
             phases == [c \in Calls |-> Phase(c)]
  <1>1. Init => Abstract!Init
    <2> SUFFICES ASSUME Init PROVE Abstract!Init
      OBVIOUS
    <2>1. ops \in [Calls -> Ops]
      BY DEF Init, Requests
    <2>2. MayRepeat \in SUBSET Ops
      BY DEF MayRepeat
    <2>3. phases = [c \in Calls |-> "new"]
      BY DEF Init, Phase
    <2>4. executed = [o \in Ops |-> 0]
      BY DEF Init
    <2> QED
      BY <2>1, <2>2, <2>3, <2>4 DEF Abstract!Init
  <1>2. TypeOK /\ Returned /\ CheckedFirst /\ Numbered /\ Accounted /\ Spent /\ [Next]_vars
        => [Abstract!Next]_(Abstract!vars)
    <2> SUFFICES ASSUME TypeOK, Returned, CheckedFirst, Numbered, Accounted, Spent,
                        [Next]_vars
                 PROVE  Abstract!Next \/ UNCHANGED Abstract!vars
      OBVIOUS
    <2>1. client' = client /\ req' = req
      BY StepCourse
    <2>2. ops' = ops /\ MayRepeat' = MayRepeat
      BY <2>1, MayRepeatFixed
    <2>3. CASE (\A d \in Calls : Rests(d)) /\ executed' = executed
      <3>1. phases' = phases
        BY <2>3, PhaseRests
      <3> QED
        BY <2>2, <2>3, <3>1 DEF Abstract!vars
    <2>4. ASSUME NEW c \in Calls, executed' = executed,
                 \A d \in Calls \ {c} : Rests(d)
          PROVE  Abstract!Next \/ UNCHANGED Abstract!vars
      <3>1. phases' = [phases EXCEPT ![c] = Phase(c)']
        BY <2>4, PhaseRests
      <3>2. phases[c] = Phase(c)
        OBVIOUS
      <3>3. Course(c)
        BY StepCourse
      <3>4. CASE Phase(c)' = Phase(c)
        BY <2>2, <2>4, <3>1, <3>4 DEF Abstract!vars
      <3>5. CASE \/ Phase(c) = "new" /\ Phase(c)' = "rejected"
                 \/ Phase(c) = "new" /\ Phase(c)' = "live"
                 \/ Phase(c) = "live" /\ Phase(c)' = "failed"
        BY <2>2, <2>4, <3>1, <3>2, <3>5 DEF Abstract!Next, Abstract!Moves
      <3>6. CASE /\ Phase(c) = "live" /\ Phase(c)' = "ok"
                 /\ \E m \in network : m.call = c /\ m.done
        <4>1. executed[ops[c]] > 0
          BY <3>6 DEF Accounted
        <4> QED
          BY <2>2, <2>4, <3>1, <3>2, <3>6, <4>1 DEF Abstract!Next, Abstract!Succeed,
                                                    Abstract!Moves
      <3> QED
        BY <3>3, <3>4, <3>5, <3>6, PhaseCourse
    <2>5. ASSUME NEW m \in network, Execute(m), executed' # executed,
                 \A d \in Calls : Rests(d)
          PROVE  Abstract!Next
      <3> DEFINE o == req[m.call].op
      <3>1. /\ o \in Ops
            /\ o \in MayRepeat \/ executed[o] = 0
            /\ executed' = [executed EXCEPT ![o] = @ + 1]
        BY <2>5, PerformedOnce
      <3>2. phases' = phases
        BY <2>5, PhaseRests
      <3>3. m.call \in Calls /\ sent[m.call] > 0
        BY DEF Numbered, TypeOK, Messages
      <3>4. phases[m.call] \notin {"new", "rejected"} /\ ops[m.call] = o
        BY <3>3 DEF CheckedFirst, Phase
      <3>5. Abstract!Perform(o)
        BY <2>2, <3>1, <3>2, <3>3, <3>4 DEF Abstract!Perform
      <3> QED
        BY <3>1, <3>5 DEF Abstract!Next
    <2> QED
      BY <2>3, <2>4, <2>5, StepCourse
  <1> QED
    BY <1>1, <1>2, DoTypeCorrect, CheckedFirstHolds, AccountedHolds, SpentHolds, PTL
       DEF Spec, KeepsPromise, Abstract!Spec

-----------------------------------------------------------------------------
(* The endpoints that add something. *)

\* The name and the method of an endpoint, whichever constructor made it.
LEMMA EndpointShape ==
    /\ \A n, x : Get(n, x).name = n
    /\ \A n, o, x : Post(n, o, x).name = n /\ Post(n, o, x).method = "POST"
    /\ \A n, o, x : Command(n, o, x).name = n /\ Command(n, o, x).method = "POST"
    /\ \A n, o, x : Start(n, o, x).name = n /\ Start(n, o, x).method = "POST"
    /\ \A n, b, o, x : Delete(n, b, o, x).name = n
  BY DEF Get, Post, Command, Start, Delete, Endpoint

\* Signing an endpoint, or requiring its key, changes neither.
LEMMA SignedShape ==
    /\ \A n, x : Signed(Get(n, x)).name = n
    /\ \A n, x : Signed(Probe(n, x)).name = n
    /\ \A n, o, x : Signed(Post(n, o, x)).name = n /\ Signed(Post(n, o, x)).method = "POST"
    /\ \A n, o, x : /\ Signed(Command(n, o, x)).name = n
                    /\ Signed(Command(n, o, x)).method = "POST"
    /\ \A n, o, x : Signed(Start(n, o, x)).name = n /\ Signed(Start(n, o, x)).method = "POST"
    /\ \A n, b, o, x : Signed(Delete(n, b, o, x)).name = n
    /\ \A n, o, x : Keyed(Post(n, o, x)).name = n /\ Keyed(Post(n, o, x)).method = "POST"
  BY Zenon DEF Signed, Keyed, Get, Probe, Post, Command, Start, Delete, Endpoint

\* An endpoint that moves money or creates something is a POST.
Added(e) == e.name \in Adds => e.method = "POST"

\* bank, personal, corporate
LEMMA AddsBank ==
    \A e \in UNION {bankClient, personalReads, personalSetWebHook, corporateAuth,
                    corporateRegistration, corporateSettings, corporateSignature,
                    corporateData} : Added(e)
  <1>1. \A e \in bankClient \cup personalReads \cup personalSetWebHook : Added(e)
    BY EndpointShape DEF bankClient, personalReads, personalSetWebHook, Added, Adds
  <1>2. \A e \in corporateAuth \cup corporateRegistration : Added(e)
    BY SignedShape DEF corporateAuth, corporateRegistration, Added, Adds
  <1>3. \A e \in corporateSettings \cup corporateSignature \cup corporateData : Added(e)
    BY SignedShape DEF corporateSettings, corporateSignature, corporateData, Added, Adds
  <1> QED
    BY <1>1, <1>2, <1>3

\* acquiring
LEMMA AddsAcquiring ==
    \A e \in UNION {acquiringInvoice, acquiringPayment, acquiringSubscription,
                    acquiringTerminal, acquiringMerchant, acquiringMonopay, acquiringPOS,
                    acquiringQR, acquiringWallet, acquiringSplit} : Added(e)
  <1>1. \A e \in acquiringInvoice \cup acquiringPayment : Added(e)
    BY EndpointShape DEF acquiringInvoice, acquiringPayment, Added, Adds
  <1>2. \A e \in acquiringSubscription \cup acquiringTerminal : Added(e)
    BY EndpointShape DEF acquiringSubscription, acquiringTerminal, Added, Adds
  <1>3. \A e \in acquiringMerchant \cup acquiringMonopay \cup acquiringPOS : Added(e)
    BY EndpointShape DEF acquiringMerchant, acquiringMonopay, acquiringPOS, Added, Adds
  <1>4. \A e \in acquiringQR \cup acquiringWallet \cup acquiringSplit : Added(e)
    BY EndpointShape DEF acquiringQR, acquiringWallet, acquiringSplit, Added, Adds
  <1> QED
    BY <1>1, <1>2, <1>3, <1>4

\* business
LEMMA AddsBusiness ==
    \A e \in UNION {businessAccounts, businessContacts, businessPayment, businessSalary,
                    businessPayslips, businessStatement} : Added(e)
  <1>1. \A e \in businessAccounts \cup businessContacts : Added(e)
    BY EndpointShape DEF businessAccounts, businessContacts, Added, Adds
  <1>2. \A e \in businessPayment \cup businessSalary : Added(e)
    BY EndpointShape, SignedShape DEF businessPayment, businessSalary, Added, Adds
  <1>3. \A e \in businessPayslips \cup businessStatement : Added(e)
    BY EndpointShape DEF businessPayslips, businessStatement, Added, Adds
  <1> QED
    BY <1>1, <1>2, <1>3

\* openbanking
LEMMA AddsOpenbanking ==
    \A e \in UNION {openbankingAccounts, openbankingConsents, openbankingPayments,
                    openbankingAuthorisations, openbankingTest} : Added(e)
  <1>1. \A e \in openbankingAccounts \cup openbankingConsents : Added(e)
    BY EndpointShape DEF openbankingAccounts, openbankingConsents, Added, Adds
  <1>2. \A e \in openbankingPayments \cup openbankingAuthorisations : Added(e)
    BY EndpointShape DEF openbankingPayments, openbankingAuthorisations, Added, Adds
  <1>3. \A e \in openbankingTest : Added(e)
    BY EndpointShape DEF openbankingTest, Added, Adds
  <1> QED
    BY <1>1, <1>2, <1>3

\* installment
LEMMA AddsInstallment == \A e \in InstallmentEndpoints : Added(e)
  <1>1. \A e \in installmentOrders : Added(e)
    BY EndpointShape DEF installmentOrders, Added
  <1>2. \A e \in installmentValidate \cup installmentGuarantee : Added(e)
    BY EndpointShape DEF installmentValidate, installmentGuarantee, Added
  <1>3. \A e \in installmentQRCart \cup installmentReport : Added(e)
    BY EndpointShape DEF installmentQRCart, installmentReport, Added
  <1> QED
    BY <1>1, <1>2, <1>3 DEF InstallmentEndpoints

\* The profile of an endpoint that adds something is that of a POST.
LEMMA AddProfileIsPost ==
    ASSUME NEW r, Profile(r) \in AddProfiles
    PROVE  r.method = "POST"
  <1>1. \A e \in CoreEndpoints : Added(e)
    BY AddsBank, AddsAcquiring, AddsBusiness, AddsOpenbanking DEF CoreEndpoints
  <1>2. PICK e \in CoreEndpoints \cup InstallmentEndpoints :
          e.name \in Adds /\ Profile(r) = Profile(e)
    BY DEF AddProfiles
  <1>3. e.method = "POST"
    BY <1>1, <1>2, AddsInstallment DEF Added
  <1> QED
    BY <1>2, <1>3 DEF Profile

\* No API method that moves money or creates something is performed twice by one
\* call: it is a POST, so its operation is one that Promise does not let repeat.
THEOREM AddsOnceHolds == Spec => []AddsOnce
  <1>1. TypeOK /\ AtMostOnce => AddsOnce
    <2> SUFFICES ASSUME TypeOK, AtMostOnce, NEW c \in Calls,
                        Profile(req[c]) \in AddProfiles, ~client.unsafeRetries,
                        \A d \in Calls \ {c} : req[d].op # req[c].op
                 PROVE  executed[req[c].op] <= 1
      BY DEF AddsOnce
    <2>1. req[c].method = "POST" /\ req[c].op \in Ops
      BY AddProfileIsPost DEF TypeOK, Requests
    <2>2. KeyDiscipline(req[c].op)
      BY DEF KeyDiscipline
    <2>3. \A d \in Calls : req[d].op = req[c].op => Unsafe(req[d].method)
      BY <2>1 DEF Unsafe
    <2>4. req[c].op \notin MayRepeat
      BY <2>2, <2>3 DEF MayRepeat
    <2> QED
      BY <2>1, <2>4 DEF AtMostOnce
  <1> QED
    BY <1>1, DoTypeCorrect, AtMostOnceHolds, PTL
=============================================================================
