----------------------------- MODULE Iterators -----------------------------
(***************************************************************************)
(* The iterators of the SDK: the statement ranges of DrainWindow, the      *)
(* business StatementAll, and the lists read by offset (ContactsAll,       *)
(* SearchContactsAll) or by page number (SubscriptionListAll,              *)
(* SubscriptionPaymentsAll).  They share the variables of DrainWindow: a   *)
(* list is a ledger whose times do not matter.                             *)
(***************************************************************************)
EXTENDS DrainWindow

VARIABLES iter,       \* which iterator runs
          pageSize,   \* StatementAll's argument; 0: the API's default
          at          \* the offset, or the page number

ivars == <<ledger, booked, from, to, initial, cursor, end, cursorTo, boundarySecond,
           seen, out, pc, iter, pageSize, at>>

ByOffset == {"ContactsAll", "SearchContactsAll"}
ByPage == {"SubscriptionListAll", "SubscriptionPaymentsAll"}
Lists == ByOffset \cup ByPage

IteratorsInit ==
    /\ Init
    /\ iter \in Lists \cup {"TransactionsRange", "StatementAll"}
    /\ pageSize \in IF iter = "StatementAll" THEN {0, StatementMaxRows} ELSE {0}
    /\ at = 0
    /\ iter \in Lists => from = to /\ \A r \in Elements(ledger) : r.t = from
    /\ iter \in Lists => \A t \in Times : from <= t

\* What a step of a list or of StatementAll leaves alone.
Fixed == UNCHANGED <<ledger, booked, from, to, initial, cursor, end, iter, pageSize>>

-----------------------------------------------------------------------------
(* business.StatementAll                                                   *)

StatementAllCall ==
    /\ iter = "StatementAll" /\ pc = "call"
    /\ cursorTo' = to
    /\ pc' = "fetch"
    /\ Fixed /\ UNCHANGED <<boundarySecond, seen, out, at>>

\* The page for [from, cursorTo], and the rows of it that were not yielded.
Operations == Page(ledger, from, cursorTo, StatementMaxRows)
Unseen == Unlisted(Operations, seen)

\* A full page within one second: stay there and remember what was yielded.
Overflow ==
    /\ Operations[1].t = Operations[Len(Operations)].t
    /\ pageSize <= 0 \/ Len(Operations) >= pageSize

\* Seeded fault: the ids of the second are not remembered.
sameSecondForgets ==
    /\ seen' = {}
    /\ boundarySecond' = Operations[1].t
    /\ cursorTo' = Operations[1].t

sameSecond ==
    LET s == Operations[1].t IN
    /\ seen' = (IF s = boundarySecond THEN seen ELSE {}) \cup {r.id : r \in Elements(Operations)}
    /\ boundarySecond' = s
    /\ cursorTo' = s

\* One pass of the loop: it ends at from, on an empty page, or on a full page
\* with nothing new; otherwise the next page ends a second before the oldest row
\* (which is before cursorTo: the guard after that never ends the loop).
StatementAllFetch ==
    LET more == cursorTo > from /\ Operations # <<>> IN
    /\ iter = "StatementAll" /\ pc = "fetch"
    /\ out' = IF more THEN out \o Unseen ELSE out
    /\ IF ~more \/ (Overflow /\ Unseen = <<>>)
       THEN pc' = "done" /\ UNCHANGED <<cursorTo, boundarySecond, seen>>
       ELSE IF Overflow THEN sameSecond /\ UNCHANGED pc
       ELSE /\ seen' = {}
            /\ boundarySecond' = NoTime
            /\ cursorTo' = Operations[Len(Operations)].t - 1
            /\ UNCHANGED pc
    /\ Fixed /\ UNCHANGED at

-----------------------------------------------------------------------------
(* Lists                                                                   *)

\* Rows i+1..j of the list, as far as it goes.
Rest(i, j) == SubSeq(ledger, i + 1, IF j > Len(ledger) THEN Len(ledger) ELSE j)

\* External: a page at an offset, possibly shorter than asked; hasMore may be
\* stale, and is never FALSE before the end.
OffsetPages ==
    {p \in [rows : {Rest(at, at + k) : k \in 1..StatementMaxRows}, more : BOOLEAN] :
        p.more \/ at + Len(p.rows) >= Len(ledger)}

\* Seeded fault: the offset advances by the page size that was asked for.
offsetPassBlind(p) ==
    /\ out' = out \o p.rows
    /\ IF ~p.more \/ p.rows = <<>> THEN pc' = "done" /\ UNCHANGED at
       ELSE at' = at + StatementMaxRows /\ UNCHANGED pc

\* The loop of both contact iterators for one response.
offsetPass(p) ==
    /\ out' = out \o p.rows
    /\ IF ~p.more \/ p.rows = <<>> THEN pc' = "done" /\ UNCHANGED at
       ELSE at' = at + Len(p.rows) /\ UNCHANGED pc

OffsetIterator(name) ==
    /\ iter = name /\ pc \in {"call", "fetch"}
    /\ IF pc = "call" THEN pc' = "fetch" /\ UNCHANGED <<out, at>>
       ELSE \E p \in OffsetPages : offsetPass(p)
    /\ Fixed /\ UNCHANGED <<cursorTo, boundarySecond, seen>>

ContactsAll == OffsetIterator("ContactsAll")
SearchContactsAll == OffsetIterator("SearchContactsAll")

\* External: the page at number at; TotalPages may be stale, never too small.
NumberedPages ==
    LET pages == (Len(ledger) + StatementMaxRows - 1) \div StatementMaxRows
    IN  [rows : {Rest((at - 1) * StatementMaxRows, at * StatementMaxRows)},
         total : {pages, pages + 2}]

\* The loop of both subscription iterators for one response.
numberedPass(p) ==
    /\ out' = out \o p.rows
    /\ IF p.rows = <<>> \/ at >= p.total THEN pc' = "done" /\ UNCHANGED at
       ELSE at' = at + 1 /\ UNCHANGED pc

\* A start page below 1 is page 1.
PageIterator(name) ==
    /\ iter = name /\ pc \in {"call", "fetch"}
    /\ IF pc = "call" THEN pc' = "fetch" /\ at' = 1 /\ UNCHANGED out
       ELSE \E p \in NumberedPages : numberedPass(p)
    /\ Fixed /\ UNCHANGED <<cursorTo, boundarySecond, seen>>

SubscriptionListAll == PageIterator("SubscriptionListAll")
SubscriptionPaymentsAll == PageIterator("SubscriptionPaymentsAll")

-----------------------------------------------------------------------------

\* What the next fetch can bring.
Served ==
    CASE iter = "StatementAll" -> IF cursorTo > from THEN {Unseen} ELSE {}
      [] iter \in ByOffset     -> {p.rows : p \in OffsetPages}
      [] iter \in ByPage       -> {p.rows : p \in NumberedPages}

\* The consumer leaves the loop after some of the rows.
Leave ==
    /\ iter # "TransactionsRange" /\ pc = "fetch"
    /\ \E rows \in Served : \E n \in 1..Len(rows) : out' = out \o SubSeq(rows, 1, n)
    /\ pc' = "stopped"
    /\ Fixed /\ UNCHANGED <<cursorTo, boundarySecond, seen, at>>

\* The context is canceled or the fetch fails: the error ends the iteration.
Fail ==
    /\ iter # "TransactionsRange" /\ pc = "fetch"
    /\ pc' = "failed"
    /\ Fixed /\ UNCHANGED <<cursorTo, boundarySecond, seen, out, at>>

RangeStep(A) == iter = "TransactionsRange" /\ A /\ UNCHANGED <<iter, pageSize, at>>

Advance ==
    \/ RangeStep(Iterate)
    \/ StatementAllCall \/ StatementAllFetch
    \/ ContactsAll \/ SearchContactsAll \/ SubscriptionListAll \/ SubscriptionPaymentsAll

\* Accounts are used while they are read; the lists stand still.
IteratorsNext ==
    \/ Advance \/ Leave \/ Fail
    \/ RangeStep(Break) \/ RangeStep(FetchFails)
    \/ iter \notin Lists /\ (\E t \in Times : Book(t)) /\ UNCHANGED <<iter, pageSize, at>>

\* The consumer keeps asking and the bank answers.
IteratorsSpec == IteratorsInit /\ [][IteratorsNext]_ivars /\ WF_ivars(Advance)

-----------------------------------------------------------------------------

\* A list is yielded completely and in order, although the server may return
\* shorter pages than asked for and its totals may be stale.
ListComplete == (iter \in Lists /\ pc = "done") => out = ledger

\* DrainWindow's promise for the ranges: see DrainComplete.
RangeComplete == iter = "TransactionsRange" => DrainComplete

\* StatementAll "lazily paginates operations within [from, to]": all of them,
\* at least where no second fills a page by itself.
OperationsComplete ==
    (iter = "StatementAll" /\ pc = "done" /\ to > from /\ Crowded = {}) =>
        initial \subseteq Elements(out)
=============================================================================
