-------------------------------- MODULE LRU --------------------------------
(***************************************************************************)
(* The MemoryDeduper of webhook/dedup.go and acquiring/dedup.go as pure    *)
(* operators.  The linked list and its index hold the same ids, so one     *)
(* sequence without repetitions stands for both; its head is the most      *)
(* recently used id.  NoId is the empty string.                            *)
(***************************************************************************)
EXTENDS Naturals, Sequences

CONSTANTS capacity,   \* the ids the set can hold (NewMemoryDeduper's argument)
          NoId        \* the empty id

ASSUME LRUAssumption == capacity \in Nat \ {0}

Ids(order) == {order[i] : i \in DOMAIN order}

\* The element index[id] points to.
Index(order, id) == CHOOSE i \in DOMAIN order : order[i] = id

\* list.MoveToFront of the element of id: those before it move back by one.
MoveToFront(order, id) ==
    LET i == Index(order, id) IN
    [j \in DOMAIN order |-> IF j = 1 THEN id ELSE IF j <= i THEN order[j - 1] ELSE order[j]]

\* list.PushFront of a new id, and list.Remove of the element at the back.
PushFront(order, id) == <<id>> \o order
RemoveBack(order) == SubSeq(order, 1, Len(order) - 1)

\* Has(id): is it in the set?
Has(order, id) == id # NoId /\ id \in Ids(order)

\* Seeded fault: a lookup does not refresh the recency.
UntouchedByHas(order, id) == order

\* The side effect of Has: a lookup counts as use.
TouchedByHas(order, id) ==
    IF Has(order, id) THEN MoveToFront(order, id) ELSE order

\* Seeded fault: evict as soon as the set is one short of its capacity.
AddEarlyEvict(order, id) ==
    IF id = NoId THEN order
    ELSE IF id \in Ids(order) THEN MoveToFront(order, id)
    ELSE PushFront(IF Len(order) + 1 >= capacity THEN RemoveBack(order) ELSE order, id)

\* Add(id): no-op for the empty id; a known id moves to the front; a new one is
\* pushed there after the oldest was evicted from a full set.
Add(order, id) ==
    IF id = NoId THEN order
    ELSE IF id \in Ids(order) THEN MoveToFront(order, id)
    ELSE PushFront(IF Len(order) = capacity THEN RemoveBack(order) ELSE order, id)
=============================================================================
