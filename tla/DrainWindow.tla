---------------------------- MODULE DrainWindow ----------------------------
(***************************************************************************)
(* TransactionsRange and TransactionsRangeIter (personal/client.go,        *)
(* personal/iter.go, corporate/iter.go): a range is cut into windows, and  *)
(* bank.DrainWindow fetches each window again and again with an upper      *)
(* bound that moves back to the oldest second seen.  A fetch is one step;  *)
(* between two the account may be used, and a fetch may fail.              *)
(***************************************************************************)
EXTENDS Ledger

CONSTANTS Times,              \* the seconds of the instance
          MaxRows,            \* bound: rows booked before the iteration starts
          MaxBooked,          \* bound: rows booked while it runs
          StatementMaxRows,   \* 500
          MaxStatementWindow, \* 31 days
          NoTime              \* the zero time.Time

ASSUME DrainAssumption ==
    /\ Times \subseteq Nat
    /\ {MaxRows, MaxBooked, MaxStatementWindow} \subseteq Nat
    /\ StatementMaxRows \in Nat \ {0}
    /\ NoTime \notin Nat

VARIABLES ledger,             \* the account
          booked,             \* rows booked since the start
          from, to,           \* the arguments
          initial,            \* history: the rows of [from, to] at the start
          cursor, end,        \* the current window
          cursorTo, boundarySecond, seen,   \* DrainWindow's variables
          out,                \* what was yielded
          pc

vars == <<ledger, booked, from, to, initial, cursor, end, cursorTo, boundarySecond,
          seen, out, pc>>

Init ==
    /\ ledger \in Ledgers(Times, MaxRows)
    /\ booked = 0
    /\ from \in Times /\ to \in Times
    /\ initial = Elements(Between(ledger, from, to))
    /\ cursor = from /\ end = from /\ cursorTo = from
    /\ boundarySecond = NoTime
    /\ seen = {}
    /\ out = <<>>
    /\ pc = "call"

\* The guard of the range functions: an empty range yields nothing.
Call ==
    /\ pc = "call"
    /\ pc' = IF to > from THEN "window" ELSE "done"
    /\ UNCHANGED <<ledger, booked, from, to, initial, cursor, end, cursorTo,
                   boundarySecond, seen, out>>

\* The head of the range loop: the next window, or the end; DrainWindow starts.
Window ==
    /\ pc = "window"
    /\ IF cursor > to
       THEN pc' = "done" /\ UNCHANGED <<end, cursorTo, boundarySecond, seen>>
       ELSE LET e == cursor + MaxStatementWindow IN
            /\ end' = IF e > to THEN to ELSE e
            /\ cursorTo' = end'
            /\ boundarySecond' = NoTime
            /\ seen' = {}
            /\ pc' = "fetch"
    /\ UNCHANGED <<ledger, booked, from, to, initial, cursor, out>>

\* Seeded fault: the upper bound moves past the boundary second.
reanchorShifted(chunk) ==
    /\ cursorTo' = chunk[Len(chunk)].t - 1
    /\ boundarySecond' = chunk[Len(chunk)].t
    /\ seen' = {}

\* After a full page: go on from its oldest second, remembering what was
\* yielded there.
reanchor(chunk) ==
    LET oldest == chunk[Len(chunk)].t
        ids == {r.id : r \in AtSecond(Elements(chunk), oldest)}
    IN  /\ cursorTo' = oldest
        /\ boundarySecond' = oldest
        /\ seen' = IF oldest = boundarySecond THEN seen \cup ids ELSE ids

\* Seeded fault: no check for progress.
DrainedShort(chunk, new) == Len(chunk) < StatementMaxRows

\* The loop ends: a page below the cap, or no progress on a full one.
Drained(chunk, new) == Len(chunk) < StatementMaxRows \/ new = <<>>

\* One pass of DrainWindow's loop.
Fetch ==
    LET chunk == Page(ledger, cursor, cursorTo, StatementMaxRows)
        new == Unlisted(chunk, seen)
    IN  /\ pc = "fetch"
        /\ out' = out \o new
        /\ IF Drained(chunk, new)
           THEN pc' = "next" /\ UNCHANGED <<cursorTo, boundarySecond, seen>>
           ELSE reanchor(chunk) /\ UNCHANGED pc
        /\ UNCHANGED <<ledger, booked, from, to, initial, cursor, end>>

\* The consumer leaves the loop after some of the new rows.
Break ==
    LET chunk == Page(ledger, cursor, cursorTo, StatementMaxRows)
        new == Unlisted(chunk, seen)
    IN  /\ pc = "fetch"
        /\ \E n \in 1..Len(new) : out' = out \o SubSeq(new, 1, n)
        /\ pc' = "stopped"
        /\ UNCHANGED <<ledger, booked, from, to, initial, cursor, end, cursorTo,
                       boundarySecond, seen>>

\* The fetch fails, or the context is canceled before a window: the error ends
\* the iteration.
FetchFails ==
    /\ pc = "fetch" \/ (pc = "window" /\ cursor <= to)
    /\ pc' = "failed"
    /\ UNCHANGED <<ledger, booked, from, to, initial, cursor, end, cursorTo,
                   boundarySecond, seen, out>>

\* The window is drained: the next one starts a second later.
NextWindow ==
    /\ pc = "next"
    /\ cursor' = end + 1
    /\ pc' = "window"
    /\ UNCHANGED <<ledger, booked, from, to, initial, end, cursorTo, boundarySecond,
                   seen, out>>

\* External: the account is used, at or after the second of its newest row.
Book(t) ==
    /\ booked < MaxBooked
    /\ ledger # <<>> => t >= ledger[1].t
    /\ booked' = booked + 1
    /\ ledger' = <<[id |-> Len(ledger) + 1, t |-> t]>> \o ledger
    /\ UNCHANGED <<from, to, initial, cursor, end, cursorTo, boundarySecond, seen, out, pc>>

Iterate == Call \/ Window \/ Fetch \/ NextWindow

Next == Iterate \/ Break \/ FetchFails \/ \E t \in Times : Book(t)

Spec == Init /\ [][Next]_vars

-----------------------------------------------------------------------------

\* Seconds with a whole page of rows or more.
Crowded == {s \in Times : Cardinality(AtSecond(Elements(ledger), s)) >= StatementMaxRows}

\* "Each transaction is passed to yield once": across the overlap on boundary
\* seconds, across windows, on every path out, with rows booked meanwhile.
YieldedOnce == NoRepetition(out)

\* DrainWindow "yields every transaction in [from, to]": an iteration that ends
\* without an error has yielded every row that was there at its start, whatever
\* the cap cuts off, as long as no second holds a whole page.
DrainComplete ==
    (pc = "done" /\ to > from /\ Crowded = {}) => initial \subseteq Elements(out)

\* DrainWindow's comment: "The only data this cannot reach is more than
\* StatementMaxRows transactions sharing one exact second".
OnlyCrowdedUnreachable ==
    (pc = "done" /\ to > from) =>
        \A r \in initial \ Elements(out) :
            Cardinality(AtSecond(Elements(ledger), r.t)) > StatementMaxRows

\* The loop guard works: the iteration ends, also on a crowded second.
Ends == <>(pc \in {"done", "failed", "stopped"})
=============================================================================
