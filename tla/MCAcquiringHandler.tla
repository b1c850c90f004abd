------------------------- MODULE MCAcquiringHandler -------------------------
(***************************************************************************)
(* AcquiringHandler for TLC: one invoice that changes its state, another   *)
(* whose payload has no date, and a payload that does not parse.           *)
(***************************************************************************)
EXTENDS AcquiringHandler, TLC

CONSTANTS i1, i2, d1, d2, s1, s2

OneState == {[invoice |-> i1, state |-> s1, date |-> d1]}
Unreadable == {[invoice |-> NoId, state |-> s1, date |-> NoDate]}
States == {[invoice |-> i1, state |-> s1, date |-> d1],
           [invoice |-> i1, state |-> s2, date |-> d2],
           [invoice |-> i2, state |-> s1, date |-> NoDate]} \cup Unreadable

\* Bound: the environment is either busy with keys (rotation, failing fetch, and
\* two requests: deliveries of two events, or of one and a stray) or with
\* deliveries (redelivery of two events, restart), not with everything at once.
Focus ==
    LET delivered == {e \in Events : deliveries[e] > 0}
    IN  \/ bankKey = 1 /\ strays = 0 /\ Cardinality(delivered) <= 2
        \/ /\ restarts = 0 /\ Cardinality(delivered) + strays <= 2
           /\ \A e \in Events : deliveries[e] <= 1

Symmetry == Permutations(Reqs)
=============================================================================
