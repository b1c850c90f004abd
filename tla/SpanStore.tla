------------------------------ MODULE SpanStore ------------------------------
(***************************************************************************)
(* The side table of otelmonobank/otel.go: the open span of each request,  *)
(* and the order in which they were stored.  A store is a record           *)
(*   m       the map from requests to spans                                *)
(*   recent  the requests of m, oldest first                               *)
(* Each operation holds the mutex from beginning to end.                   *)
(***************************************************************************)
EXTENDS Sequences, SequencesExt

newSpanStore == [m |-> <<>>, recent |-> <<>>]

\* set: a request that is already there keeps its place.
set(s, r, span) ==
    [m |-> [x \in DOMAIN s.m \cup {r} |-> IF x = r THEN span ELSE s.m[x]],
     recent |-> IF r \in DOMAIN s.m THEN s.recent ELSE Append(s.recent, r)]

\* Seeded fault: pop forgets the order.
popKeepsOrder(s, r) ==
    [s EXCEPT !.m = [x \in DOMAIN s.m \ {r} |-> s.m[x]]]

\* append(recent[:i], recent[i+1:]...) for the first i with recent[i] == r.
without(recent, r) ==
    LET at == {i \in DOMAIN recent : recent[i] = r} IN
    IF at = {} THEN recent ELSE RemoveAt(recent, CHOOSE i \in at : \A j \in at : i <= j)

\* pop: without the request nothing changes.
pop(s, r) ==
    IF r \in DOMAIN s.m
    THEN [m |-> [x \in DOMAIN s.m \ {r} |-> s.m[x]], recent |-> without(s.recent, r)]
    ELSE s

\* popAny: the most recently stored request, if there is one.
popAny(s) ==
    [m |-> [x \in DOMAIN s.m \ {Last(s.recent)} |-> s.m[x]], recent |-> Front(s.recent)]
=============================================================================
