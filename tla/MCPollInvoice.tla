---------------------------- MODULE MCPollInvoice ----------------------------
(***************************************************************************)
(* PollInvoice for TLC: an impatient poller that waits for a hold, and one *)
(* with the defaults.                                                      *)
(***************************************************************************)
EXTENDS PollInvoice

CONSTANTS Impatient, Patient   \* the pollers

Hasty == [Interval |-> 1, Timeout |-> 3, TreatHoldAsTerminal |-> TRUE]
Default == [Interval |-> 0, Timeout |-> 0, TreatHoldAsTerminal |-> FALSE]
MCOptions == {Hasty, Default}

MCMoves == {<<"created", "hold">>, <<"hold", "success">>}
MCMaxPolls == [p \in Pollers |-> IF p = Impatient THEN 2 ELSE 1]

MCInit == opts = [p \in Pollers |-> IF p = Impatient THEN Hasty ELSE Default] /\ Init
MCFairSpec == MCInit /\ [][Next]_vars /\ Fairness
=============================================================================
