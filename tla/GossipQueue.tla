---------------------------- MODULE GossipQueue ----------------------------
(***************************************************************************)
(* From a gossip with two thirds of the rumors to its execution: the part  *)
(* of gossipWorker that fills the queue and starts a timer                 *)
(* (dapos/dapos_handshake.go), GossipQueue and the ExistsMap               *)
(* (commons/queue), the goroutine of WatchHeapOps that all heap operations *)
(* go through, and transactionWorker with doWork, which takes one gossip   *)
(* from the queue for every timer that has fired.                          *)
(*                                                                         *)
(* A gossip stands for the goroutine that brings it.  Two gossips may be   *)
(* about the same transaction.  The heap is the set of its gossips, out of *)
(* which an oldest comes first (PriorityQueue shows that it does).         *)
(***************************************************************************)
EXTENDS Naturals, FiniteSets

CONSTANTS Gossip,   \* gossips with two thirds of the rumors
          Hash,     \* transactions
          HashOf,   \* Gossip -> Hash
          TimeOf,   \* Hash -> Nat, the time of a transaction
          Worker    \* goroutines that run transactionWorker

ASSUME QueueAssumption ==
  /\ IsFiniteSet(Gossip) /\ IsFiniteSet(Worker)
  /\ HashOf \in [Gossip -> Hash]
  /\ TimeOf \in [Hash -> Nat]

VARIABLES items,     \* the gossips in the heap
          existsMap, \* the hashes in ExistsMap
          pc,        \* per gossip: where its goroutine is
          handed,    \* the push message WatchHeapOps works on: at most one gossip
          wpc,       \* per worker: where doWork is
          got        \* per worker: the gossip it has popped (a set of at most one)

vars == <<items, existsMap, pc, handed, wpc, got>>

PC == {"new",     \* not yet looked up
       "put",     \* Exists said no
       "push",    \* in ExistsMap, HeapPush waits for WatchHeapOps
       "timer",   \* HeapPush has returned, the timer runs
       "fired",   \* true is in timoutChan
       "done"}    \* the tick is taken, or the hash was in the queue already

TypeOK ==
  /\ items \subseteq Gossip
  /\ existsMap \subseteq Hash
  /\ pc \in [Gossip -> PC]
  /\ handed \subseteq Gossip
  /\ wpc \in [Worker -> {"idle", "tick", "pop", "delete", "execute"}]
  /\ got \in [Worker -> SUBSET Gossip]

Init ==
  /\ items = {}
  /\ existsMap = {}
  /\ pc = [g \in Gossip |-> "new"]
  /\ handed = {}
  /\ wpc = [w \in Worker |-> "idle"]
  /\ got = [w \in Worker |-> {}]

-----------------------------------------------------------------------------
(* gossipWorker                                                            *)

Exists(g) == HashOf[g] \in existsMap

\* Variant of Arrive: the timer is started whether the hash is queued or not.
ArriveTimerAlways(g) ==
  /\ pc[g] = "new"
  /\ pc' = [pc EXCEPT ![g] = IF Exists(g) THEN "timer" ELSE "put"]
  /\ UNCHANGED <<items, existsMap, handed, wpc, got>>

Arrive(g) ==
  /\ pc[g] = "new"
  /\ pc' = [pc EXCEPT ![g] = IF Exists(g) THEN "done" ELSE "put"]
  /\ UNCHANGED <<items, existsMap, handed, wpc, got>>

\* GossipQueue.Push, up to HeapPush.
Put(g) ==
  /\ pc[g] = "put"
  /\ existsMap' = existsMap \cup {HashOf[g]}
  /\ pc' = [pc EXCEPT ![g] = "push"]
  /\ UNCHANGED <<items, handed, wpc, got>>

\* heapPushChan is unbuffered: HeapPush returns when WatchHeapOps has taken the
\* message, before the heap has changed.  The timer starts.
HeapPush(g) ==
  /\ pc[g] = "push"
  /\ handed = {}
  /\ handed' = {g}
  /\ pc' = [pc EXCEPT ![g] = "timer"]
  /\ UNCHANGED <<items, existsMap, wpc, got>>

\* heap.Push in WatchHeapOps.
WatchPush ==
  /\ handed # {}
  /\ items' = items \cup handed
  /\ handed' = {}
  /\ UNCHANGED <<existsMap, pc, wpc, got>>

\* The timer lasts TxReceiveTimeout and more, WatchHeapOps one heap operation:
\* the gossip is in the heap by then.
TimerFires(g) ==
  /\ pc[g] = "timer"
  /\ g \notin handed
  /\ pc' = [pc EXCEPT ![g] = "fired"]
  /\ UNCHANGED <<items, existsMap, handed, wpc, got>>

-----------------------------------------------------------------------------
(* transactionWorker and doWork                                            *)

TakeTick(w) ==
  /\ wpc[w] = "idle"
  /\ \E g \in Gossip :
       /\ pc[g] = "fired"
       /\ pc' = [pc EXCEPT ![g] = "done"]
  /\ wpc' = [wpc EXCEPT ![w] = "tick"]
  /\ UNCHANGED <<items, existsMap, handed, got>>

HasAvailable == items # {}

LookQueue(w) ==
  /\ wpc[w] = "tick"
  /\ wpc' = [wpc EXCEPT ![w] = IF HasAvailable THEN "pop" ELSE "idle"]
  /\ UNCHANGED <<items, existsMap, pc, handed, got>>

Oldest == {g \in items : \A h \in items : TimeOf[HashOf[g]] <= TimeOf[HashOf[h]]}

\* HeapPop: WatchHeapOps pops while the worker waits for the result.
HeapPop(w) ==
  /\ wpc[w] = "pop"
  /\ handed = {}
  /\ \E g \in Oldest :
       /\ items' = items \ {g}
       /\ got' = [got EXCEPT ![w] = {g}]
  /\ wpc' = [wpc EXCEPT ![w] = "delete"]
  /\ UNCHANGED <<existsMap, pc, handed>>

\* Variant of Delete: as ReceiptQueue.Pop does, the hash is only looked up.
DeleteForgotten(w) ==
  /\ wpc[w] = "delete"
  /\ wpc' = [wpc EXCEPT ![w] = "execute"]
  /\ UNCHANGED <<items, existsMap, pc, handed, got>>

\* The end of GossipQueue.Pop.
Delete(w) ==
  /\ wpc[w] = "delete"
  /\ existsMap' = existsMap \ {HashOf[g] : g \in got[w]}
  /\ wpc' = [wpc EXCEPT ![w] = "execute"]
  /\ UNCHANGED <<items, pc, handed, got>>

\* doWork decides about the gossip (module Ledger) and returns.
Execute(w) ==
  /\ wpc[w] = "execute"
  /\ wpc' = [wpc EXCEPT ![w] = "idle"]
  /\ got' = [got EXCEPT ![w] = {}]
  /\ UNCHANGED <<items, existsMap, pc, handed>>

-----------------------------------------------------------------------------

gossipWorker(g) == Arrive(g) \/ Put(g) \/ HeapPush(g) \/ TimerFires(g)

doWork(w) == TakeTick(w) \/ LookQueue(w) \/ HeapPop(w) \/ Delete(w) \/ Execute(w)

Next ==
  \/ \E g \in Gossip : gossipWorker(g)
  \/ WatchPush
  \/ \E w \in Worker : doWork(w)

Spec == Init /\ [][Next]_vars

\* Goroutines that can run do run.  HeapPush and HeapPop compete for
\* WatchHeapOps, which takes what is ready in its select: strong fairness.
FairSpec ==
  /\ Spec
  /\ WF_vars(WatchPush)
  /\ \A g \in Gossip : WF_vars(Arrive(g)) /\ WF_vars(Put(g)) /\ SF_vars(HeapPush(g))
                       /\ WF_vars(TimerFires(g))
  /\ \A w \in Worker : WF_vars(TakeTick(w)) /\ WF_vars(LookQueue(w)) /\ SF_vars(HeapPop(w))
                       /\ WF_vars(Delete(w)) /\ WF_vars(Execute(w))

-----------------------------------------------------------------------------
(* Properties                                                              *)

\* The gossips whose timer has still to be answered, once they are in the heap.
Ticking == {g \in Gossip : pc[g] \in {"timer", "fired"} /\ g \notin handed}

\* The workers that have taken a tick and not yet popped.
Popping == {w \in Worker : wpc[w] \in {"tick", "pop"}}

\* As many gossips are in the heap as ticks are still to come or being
\* answered: none is left behind, and doWork finds one for every tick, although
\* it pops the oldest gossip and not the one whose timer fired.
TicksCoverQueue == Cardinality(items) = Cardinality(Ticking) + Cardinality(Popping)

\* HeapPop is never called on an empty heap, where container/heap would panic:
\* what HasAvailable saw is still true for every worker that acts on it.
NeverPopsEmpty == (\E w \in Worker : wpc[w] = "pop") => items # {}

\* A hash is in ExistsMap only while a gossip about it is being pushed, is in
\* the heap or has just been popped; a transaction that has left the queue can
\* be queued again.
ExistsHasReason ==
  \A h \in existsMap : \E g \in Gossip :
    /\ HashOf[g] = h
    /\ pc[g] = "push" \/ g \in handed \/ g \in items
         \/ \E w \in Worker : wpc[w] = "delete" /\ g \in got[w]

\* Every gossip that is queued is executed, even when newer ones push in.
QueuedIsExecuted ==
  \A g \in Gossip : (g \in items) ~> (\E w \in Worker : g \in got[w])
=============================================================================
