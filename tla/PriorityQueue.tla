---------------------------- MODULE PriorityQueue ----------------------------
(***************************************************************************)
(* PriorityQueue of commons/queue/priority_queue.go and container/heap of   *)
(* the Go library, which works on it through Len, Less, Swap, Push and Pop. *)
(* The slice is a sequence: Go's index i is i + 1 here.  An item is its     *)
(* Priority and the Index the heap keeps for Update.                       *)
(***************************************************************************)
EXTENDS Naturals, Integers, Sequences, FiniteSets, SequencesExt

CONSTANTS Priority,   \* the transaction times that occur
          MaxLen      \* bound: items in the queue

ASSUME QueueAssumption == Priority \subseteq Int /\ MaxLen \in Nat

VARIABLES heap,       \* the slice
          out         \* the priorities popped last, or {}

vars == <<heap, out>>

Item == [Priority : Priority, Index : -1 .. MaxLen]

TypeOK == heap \in Seq(Item) /\ Len(heap) <= MaxLen /\ out \subseteq Priority

-----------------------------------------------------------------------------
(* heap.Interface                                                          *)

\* Less: the lowest number, the oldest transaction, has the highest priority.
Less(h, i, j) == h[j].Priority > h[i].Priority

Swap(h, i, j) == [h EXCEPT ![i] = [h[j] EXCEPT !.Index = i - 1],
                           ![j] = [h[i] EXCEPT !.Index = j - 1]]

-----------------------------------------------------------------------------
(* container/heap: sift an item up or down, one level per step             *)

\* The item at s.at changes places with its parent if it is older.
upOnce(s) ==
  LET parent == s.at \div 2 IN
  IF s.at = 1 \/ ~ Less(s.h, s.at, parent) THEN s
  ELSE [h |-> Swap(s.h, parent, s.at), at |-> parent]

up(h, j) ==
  LET step[n \in 0 .. Len(h)] == IF n = 0 THEN [h |-> h, at |-> j] ELSE upOnce(step[n - 1])
  IN  step[Len(h)].h

\* The child that down compares with its parent i, among the first n items.
smallerChild(h, i, n) ==
  IF 2 * i + 1 <= n /\ Less(h, 2 * i + 1, 2 * i) THEN 2 * i + 1 ELSE 2 * i

\* The item at s.at changes places with the older of its children if that is older.
downOnce(s, n) ==
  LET child == smallerChild(s.h, s.at, n) IN
  IF 2 * s.at > n \/ ~ Less(s.h, child, s.at) THEN s
  ELSE [h |-> Swap(s.h, s.at, child), at |-> child]

down(h, i0, n) ==
  LET step[k \in 0 .. Len(h)] == IF k = 0 THEN [h |-> h, at |-> i0] ELSE downOnce(step[k - 1], n)
  IN  step[Len(h)]

\* heap.Fix
Fix(h, i) ==
  LET moved == down(h, i, Len(h)) IN IF moved.at > i THEN moved.h ELSE up(h, i)

-----------------------------------------------------------------------------

Init == heap = <<>> /\ out = {}

\* heap.Push: append, then up.
Push(p) ==
  /\ Len(heap) < MaxLen
  /\ heap' = up(Append(heap, [Priority |-> p, Index |-> Len(heap)]), Len(heap) + 1)
  /\ out' = {}

\* Variant of Pop: the last item is cut off where it stands.
PopLast ==
  /\ heap # <<>>
  /\ heap' = Front(heap)
  /\ out' = {Last(heap).Priority}

\* heap.Pop: the first and the last item change places, the new first one goes
\* down, the last one is cut off.
Pop ==
  LET n == Len(heap)
      h == down(Swap(heap, 1, n), 1, n - 1).h
  IN
  /\ n > 0
  /\ heap' = Front(h)
  /\ out' = {Last(h).Priority}

\* Update finds the item through its Index.
Update(item, p) ==
  LET i == item.Index + 1 IN
  /\ heap' = Fix([heap EXCEPT ![i].Priority = p], i)
  /\ out' = {}

Next ==
  \/ \E p \in Priority : Push(p)
  \/ Pop
  \/ \E item \in ToSet(heap), p \in Priority : Update(item, p)

Spec == Init /\ [][Next]_vars

-----------------------------------------------------------------------------
(* Properties                                                              *)

\* The slice is a heap after every operation: no item is younger than the ones
\* below it, so the oldest is at the front (Less, Swap and container/heap).
HeapOrder == \A i \in 2 .. Len(heap) : heap[i \div 2].Priority <= heap[i].Priority

\* Index says where an item is, which Update relies on.
IndexIsPosition == \A i \in DOMAIN heap : heap[i].Index = i - 1

Abstract == INSTANCE MinQueue WITH
  items <- ToBag([i \in DOMAIN heap |-> heap[i].Priority])

\* The heap implements the bag of MinQueue: no operation loses or invents an
\* item, and Pop takes an oldest one, because the slice stays a heap whose items
\* know their places (Push, Pop, Update of priority_queue.go).
MinQueueSpec == Abstract!Spec /\ []HeapOrder /\ []IndexIsPosition
=============================================================================
