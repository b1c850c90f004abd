-------------------------- MODULE MCWebhookHandler --------------------------
(* WebhookHandler for TLC: the goroutines are interchangeable. *)
EXTENDS WebhookHandler, TLC

Symmetry == Permutations(Reqs)
=============================================================================
