--------------------------- MODULE MemoryDeduper ---------------------------
(***************************************************************************)
(* A MemoryDeduper under arbitrary calls of Has and Add, each atomic under *)
(* its mutex, against what an LRU set promises about the ids it forgets.   *)
(***************************************************************************)
EXTENDS LRU, FiniteSets

CONSTANTS Names     \* the ids in use

VARIABLES order,    \* the list, most recently used first
          added,    \* history: ids that were added
          others    \* history: ids used since this one was last used

vars == <<order, added, others>>

TypeOK ==
    /\ order \in Seq(Names)
    /\ Len(order) <= capacity
    /\ Cardinality(Ids(order)) = Len(order)
    /\ added \subseteq Names
    /\ others \in [Names -> SUBSET Names]

Init ==
    /\ order = <<>>
    /\ added = {}
    /\ others = [n \in Names |-> {}]

\* History: id is used, every other id sees one more.
Used(id) ==
    others' = [n \in Names |-> IF n = id THEN {} ELSE others[n] \cup {id}]

DoHas(id) ==
    /\ order' = TouchedByHas(order, id)
    /\ IF Has(order, id) THEN Used(id) ELSE UNCHANGED others
    /\ UNCHANGED added

DoAdd(id) ==
    /\ order' = Add(order, id)
    /\ IF id = NoId THEN UNCHANGED <<added, others>>
       ELSE added' = added \cup {id} /\ Used(id)

Next == \E id \in Names \cup {NoId} : DoHas(id) \/ DoAdd(id)

Spec == Init /\ [][Next]_vars

-----------------------------------------------------------------------------

\* What the webhook handlers rely on: an id that was added is remembered until
\* at least capacity other ids were used after it.
RecentRemembered ==
    \A n \in added : Cardinality(others[n]) < capacity => n \in Ids(order)
=============================================================================
