------------------------------- MODULE Ledger -------------------------------
(***************************************************************************)
(* The bank's side of a statement, as bank/statement.go describes it: rows *)
(* newest first, a request for [from, to] inclusive, and at most so many   *)
(* rows per response with no cursor to the rest.  Times are whole seconds. *)
(***************************************************************************)
EXTENDS Integers, Sequences, FiniteSets

Rows(T) == [id : Nat, t : T]

\* Every statement of at most n rows with times in T, newest first.
Ledgers(T, n) ==
    LET times == UNION {{s \in [1..k -> T] : \A i, j \in 1..k : i <= j => s[i] >= s[j]}
                        : k \in 0..n}
    IN  {[i \in DOMAIN s |-> [id |-> i, t |-> s[i]]] : s \in times}

Elements(s) == {s[i] : i \in DOMAIN s}

\* The rows of [from, to] stand together, after the newer and before the older.
Between(ledger, from, to) ==
    LET newer == {i \in DOMAIN ledger : ledger[i].t > to}
        older == {i \in DOMAIN ledger : ledger[i].t < from}
    IN  SubSeq(ledger, Cardinality(newer) + 1, Len(ledger) - Cardinality(older))

\* External: the response to a request for [from, to].
Page(ledger, from, to, cap) ==
    LET all == Between(ledger, from, to)
    IN  SubSeq(all, 1, IF Len(all) < cap THEN Len(all) ELSE cap)

\* The rows of a response whose id is not in seen, in their order.
Unlisted(chunk, seen) ==
    LET first[n \in 0..Len(chunk)] ==
            IF n = 0 THEN <<>>
            ELSE IF chunk[n].id \in seen THEN first[n - 1]
            ELSE Append(first[n - 1], chunk[n])
    IN  first[Len(chunk)]

AtSecond(rows, s) == {r \in rows : r.t = s}

NoRepetition(s) == Cardinality(Elements(s)) = Len(s)
=============================================================================
