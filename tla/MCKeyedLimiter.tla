--------------------------- MODULE MCKeyedLimiter ---------------------------
(* KeyedLimiter for TLC: callers are interchangeable, the keys are not. *)
EXTENDS KeyedLimiter, TLC

Symmetry == Permutations(Callers)
=============================================================================
