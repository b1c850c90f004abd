------------------------------ MODULE Promise ------------------------------
(***************************************************************************)
(* What a client of an unreliable bank promises about its calls, without   *)
(* attempts, timers, limiters or messages.  Each call is for an operation. *)
(* It is refused before it has any effect, or it is live; an operation is  *)
(* performed because of a live call, perhaps after that call has failed,   *)
(* and again only if it may be repeated; a call succeeds only when its     *)
(* operation has been performed.                                           *)
(***************************************************************************)
EXTENDS Naturals

CONSTANTS Calls, Ops

VARIABLES op,         \* the operation of each call
          mayRepeat,  \* the operations that may be performed again
          phase,      \* new, rejected, live, ok, failed
          effects     \* how often each operation was performed

vars == <<op, mayRepeat, phase, effects>>

Init ==
    /\ op \in [Calls -> Ops]
    /\ mayRepeat \in SUBSET Ops
    /\ phase = [c \in Calls |-> "new"]
    /\ effects = [o \in Ops |-> 0]

\* A call moves on; what it is for does not change.
Moves(c, from, to) ==
    /\ phase[c] = from
    /\ phase' = [phase EXCEPT ![c] = to]
    /\ UNCHANGED <<op, mayRepeat, effects>>

Succeed(c) ==
    /\ effects[op[c]] > 0
    /\ Moves(c, "live", "ok")

Perform(o) ==
    /\ \E c \in Calls : op[c] = o /\ phase[c] \notin {"new", "rejected"}
    /\ o \in mayRepeat \/ effects[o] = 0
    /\ effects' = [effects EXCEPT ![o] = @ + 1]
    /\ UNCHANGED <<op, mayRepeat, phase>>

Next ==
    \/ \E c \in Calls :
         \/ Moves(c, "new", "rejected")
         \/ Moves(c, "new", "live")
         \/ Moves(c, "live", "failed")
         \/ Succeed(c)
    \/ \E o \in Ops : Perform(o)

Spec == Init /\ [][Next]_vars
=============================================================================
