------------------------------ MODULE MinQueue ------------------------------
(***************************************************************************)
(* What the gossip queue promises to doWork: items come in at any time, and *)
(* the item that goes out is one of the oldest.  An item is its priority,  *)
(* the time of its transaction; the queue is a bag of them.                *)
(***************************************************************************)
EXTENDS Naturals, Bags

CONSTANT Priority   \* numbers

VARIABLES items,   \* the bag of priorities
          out      \* the priorities popped last, or {}

TypeOK == IsABag(items) /\ BagToSet(items) \subseteq Priority /\ out \subseteq Priority

Init == items = EmptyBag /\ out = {}

Push(p) == items' = items (+) SetToBag({p}) /\ out' = {}

Pop(p) ==
  /\ BagIn(p, items)
  /\ \A q \in BagToSet(items) : p <= q
  /\ items' = items (-) SetToBag({p})
  /\ out' = {p}

\* An item's priority is changed.
Update(p, q) ==
  /\ BagIn(p, items)
  /\ items' = (items (-) SetToBag({p})) (+) SetToBag({q})
  /\ out' = {}

Next ==
  \/ \E p \in Priority : Push(p) \/ Pop(p)
  \/ \E p, q \in Priority : Update(p, q)

Spec == Init /\ [][Next]_<<items, out>>
=============================================================================
