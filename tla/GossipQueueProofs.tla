-------------------------- MODULE GossipQueueProofs --------------------------
(***************************************************************************)
(* The gossip queue for any finite sets of gossips and workers: one gossip *)
(* in the heap for every tick that is still to be answered, so that        *)
(* doWork never pops an empty heap and no gossip is left without a tick.   *)
(*                                                                         *)
(* The count is not inductive by itself: that a push adds one gossip and   *)
(* one running timer needs to know that the gossip in the hands of         *)
(* WatchHeapOps is alone, new to the heap and that its timer still runs.   *)
(*                                                                         *)
(* The queue is used by workers that the event starts.  The composition    *)
(* implements the queue, so what is proved of the queue holds there, and   *)
(* the event reaches its handlers, for any set of services.                *)
(***************************************************************************)
EXTENDS ServiceStart, FiniteSetTheorems, TLAPS

\* The gossip WatchHeapOps works on is one, and its timer is running.
HandedIsOne ==
  handed = {} \/ \E g \in Gossip : handed = {g} /\ g \notin items /\ pc[g] = "timer"

\* A gossip is pushed once.
NotYetPushed == \A g \in Gossip : pc[g] \in {"new", "put", "push"} => g \notin items

IInv == TypeOK /\ HandedIsOne /\ NotYetPushed /\ TicksCoverQueue /\ ExistsHasReason

\* The sets that are counted are finite.
LEMMA FiniteCounts ==
  ASSUME TypeOK
  PROVE  /\ IsFiniteSet(items) /\ Cardinality(items) \in Nat
         /\ IsFiniteSet(Ticking) /\ Cardinality(Ticking) \in Nat
         /\ IsFiniteSet(Popping) /\ Cardinality(Popping) \in Nat
<1>1. items \in SUBSET Gossip /\ Ticking \in SUBSET Gossip /\ Popping \in SUBSET Worker
  BY DEF TypeOK, Ticking, Popping
<1>2. IsFiniteSet(items) /\ IsFiniteSet(Ticking) /\ IsFiniteSet(Popping)
  BY <1>1, FS_Subset, QueueAssumption
<1> QED
  BY <1>2, FS_CardinalityType

\* As long as the heap is empty no worker has a tick in hand: LookQueue always
\* finds what it looks for.
LEMMA TickFindsGossip ==
  ASSUME TypeOK, TicksCoverQueue, NEW w \in Worker, wpc[w] \in {"tick", "pop"}
  PROVE  items # {}
<1>1. w \in Popping
  BY DEF Popping
<1>2. Cardinality(Popping) # 0
  BY <1>1, FiniteCounts, FS_EmptySet
<1>3. Cardinality(items) # 0
  BY <1>2, FiniteCounts DEF TicksCoverQueue
<1> QED
  BY <1>3, FS_EmptySet

\* The initial states satisfy the invariant.
LEMMA InitIInv == Init => IInv
<1> SUFFICES ASSUME Init PROVE IInv
  OBVIOUS
<1>1. TypeOK /\ HandedIsOne /\ NotYetPushed /\ ExistsHasReason
  BY QueueAssumption DEF Init, TypeOK, PC, HandedIsOne, NotYetPushed, ExistsHasReason
<1>2. items = {} /\ Ticking = {} /\ Popping = {}
  BY DEF Init, Ticking, Popping
<1>3. TicksCoverQueue
  BY <1>2, FS_EmptySet DEF TicksCoverQueue
<1> QED
  BY <1>1, <1>3 DEF IInv

\* The steps that neither start nor answer a tick leave the counted sets alone.
LEMMA SameCounts ==
  ASSUME TicksCoverQueue, items' = items, Ticking' = Ticking, Popping' = Popping
  PROVE  TicksCoverQueue'
  BY DEF TicksCoverQueue

\* The type invariant is preserved by every step.
LEMMA StepTypeOK == TypeOK /\ [Next]_vars => TypeOK'
<1> USE DEF TypeOK, PC
<1> SUFFICES ASSUME TypeOK, [Next]_vars PROVE TypeOK'
  OBVIOUS
<1>1. ASSUME NEW g \in Gossip, gossipWorker(g) PROVE TypeOK'
  BY <1>1, QueueAssumption DEF gossipWorker, Arrive, Put, HeapPush, TimerFires
<1>2. CASE WatchPush
  BY <1>2 DEF WatchPush
<1>3. ASSUME NEW w \in Worker, doWork(w) PROVE TypeOK'
  <2>1. CASE TakeTick(w)
    BY <2>1 DEF TakeTick
  <2>2. CASE LookQueue(w)
    BY <2>2 DEF LookQueue
  <2>3. CASE HeapPop(w)
    BY <2>3 DEF HeapPop, Oldest
  <2>4. CASE Delete(w)
    BY <2>4 DEF Delete
  <2>5. CASE Execute(w)
    BY <2>5 DEF Execute
  <2> QED
    BY <1>3, <2>1, <2>2, <2>3, <2>4, <2>5 DEF doWork
<1>4. CASE UNCHANGED vars
  BY <1>4 DEF vars
<1> QED
  BY <1>1, <1>2, <1>3, <1>4 DEF Next

\* What WatchHeapOps works on, and that no gossip is pushed twice.
LEMMA StepHanded ==
  TypeOK /\ HandedIsOne /\ NotYetPushed /\ [Next]_vars => HandedIsOne' /\ NotYetPushed'
<1> USE DEF TypeOK, PC, HandedIsOne, NotYetPushed
<1> SUFFICES ASSUME TypeOK, HandedIsOne, NotYetPushed, [Next]_vars
             PROVE  HandedIsOne' /\ NotYetPushed'
  OBVIOUS
<1>1. ASSUME NEW g \in Gossip, gossipWorker(g) PROVE HandedIsOne' /\ NotYetPushed'
  <2>1. CASE Arrive(g)
    BY <2>1 DEF Arrive
  <2>2. CASE Put(g)
    BY <2>2 DEF Put
  <2>3. CASE HeapPush(g)
    BY <2>3 DEF HeapPush
  <2>4. CASE TimerFires(g)
    BY <2>4 DEF TimerFires
  <2> QED
    BY <1>1, <2>1, <2>2, <2>3, <2>4 DEF gossipWorker
<1>2. CASE WatchPush
  BY <1>2 DEF WatchPush
<1>3. ASSUME NEW w \in Worker, doWork(w) PROVE HandedIsOne' /\ NotYetPushed'
  <2>1. CASE TakeTick(w)
    BY <2>1 DEF TakeTick
  <2>2. CASE LookQueue(w) \/ Delete(w) \/ Execute(w)
    BY <2>2 DEF LookQueue, Delete, Execute
  <2>3. CASE HeapPop(w)
    BY <2>3 DEF HeapPop, Oldest
  <2> QED
    BY <1>3, <2>1, <2>2, <2>3 DEF doWork
<1>4. CASE UNCHANGED vars
  BY <1>4 DEF vars
<1> QED
  BY <1>1, <1>2, <1>3, <1>4 DEF Next

\* The balance of gossips and ticks.
LEMMA StepTicks == IInv /\ [Next]_vars => TicksCoverQueue'
<1> SUFFICES ASSUME IInv, [Next]_vars PROVE TicksCoverQueue'
  OBVIOUS
<1>0. /\ IsFiniteSet(items) /\ Cardinality(items) \in Nat
      /\ IsFiniteSet(Ticking) /\ Cardinality(Ticking) \in Nat
      /\ IsFiniteSet(Popping) /\ Cardinality(Popping) \in Nat
      /\ Cardinality(items) = Cardinality(Ticking) + Cardinality(Popping)
  BY FiniteCounts DEF IInv, TicksCoverQueue
<1> USE DEF IInv, TypeOK, PC
<1>1. ASSUME NEW g \in Gossip, gossipWorker(g) PROVE TicksCoverQueue'
  <2>1. items' = items /\ Popping' = Popping
    BY <1>1 DEF gossipWorker, Arrive, Put, HeapPush, TimerFires, Popping
  <2>2. Ticking' = Ticking
    <3>1. CASE Arrive(g)
      BY <3>1 DEF Arrive, Ticking
    <3>2. CASE Put(g)
      BY <3>2 DEF Put, Ticking
    <3>3. CASE HeapPush(g)
      BY <3>3 DEF HeapPush, Ticking
    <3>4. CASE TimerFires(g)
      BY <3>4 DEF TimerFires, Ticking
    <3> QED
      BY <1>1, <3>1, <3>2, <3>3, <3>4 DEF gossipWorker
  <2> QED
    BY <2>1, <2>2, SameCounts
<1>2. CASE WatchPush
  <2>1. PICK g \in Gossip : handed = {g} /\ g \notin items /\ pc[g] = "timer"
    BY <1>2 DEF WatchPush, HandedIsOne
  <2>2. /\ items' = items \cup {g} /\ g \notin items
        /\ Ticking' = Ticking \cup {g} /\ g \notin Ticking
        /\ Popping' = Popping
    BY <1>2, <2>1 DEF WatchPush, Ticking, Popping
  <2>3. Cardinality(items') = Cardinality(items) + 1
    BY <1>0, <2>2, FS_AddElement
  <2>4. Cardinality(Ticking') = Cardinality(Ticking) + 1
    BY <1>0, <2>2, FS_AddElement
  <2> QED
    BY <1>0, <2>2, <2>3, <2>4 DEF TicksCoverQueue
<1>3. ASSUME NEW w \in Worker, doWork(w) PROVE TicksCoverQueue'
  <2>1. CASE TakeTick(w)
    <3>1. PICK g \in Gossip : pc[g] = "fired" /\ pc' = [pc EXCEPT ![g] = "done"]
      BY <2>1 DEF TakeTick
    <3>2. items' = items /\ Popping' = Popping \cup {w} /\ w \notin Popping
      BY <2>1 DEF TakeTick, Popping
    <3>3. g \in Ticking
      BY <3>1 DEF Ticking, HandedIsOne
    <3>4. Ticking' = Ticking \ {g}
      BY <2>1, <3>1 DEF TakeTick, Ticking
    <3>5. Cardinality(Ticking') = Cardinality(Ticking) - 1
      BY <1>0, <3>3, <3>4, FS_RemoveElement
    <3>6. Cardinality(Popping') = Cardinality(Popping) + 1
      BY <1>0, <3>2, FS_AddElement
    <3> QED
      BY <1>0, <3>2, <3>5, <3>6 DEF TicksCoverQueue
  <2>2. CASE LookQueue(w)
    <3>1. items # {}
      BY <2>2, TickFindsGossip DEF LookQueue
    <3>2. items' = items /\ Ticking' = Ticking /\ Popping' = Popping
      BY <2>2, <3>1 DEF LookQueue, HasAvailable, Ticking, Popping
    <3> QED
      BY <3>2, SameCounts
  <2>3. CASE HeapPop(w)
    <3>1. PICK g \in items : items' = items \ {g}
      BY <2>3 DEF HeapPop, Oldest
    <3>2. Ticking' = Ticking /\ Popping' = Popping \ {w} /\ w \in Popping
      BY <2>3 DEF HeapPop, Ticking, Popping
    <3>3. Cardinality(items') = Cardinality(items) - 1
      BY <1>0, <3>1, FS_RemoveElement
    <3>4. Cardinality(Popping') = Cardinality(Popping) - 1
      BY <1>0, <3>2, FS_RemoveElement
    <3> QED
      BY <1>0, <3>2, <3>3, <3>4 DEF TicksCoverQueue
  <2>4. CASE Delete(w) \/ Execute(w)
    <3>1. items' = items /\ Ticking' = Ticking /\ Popping' = Popping
      BY <2>4 DEF Delete, Execute, Ticking, Popping
    <3> QED
      BY <3>1, SameCounts
  <2> QED
    BY <1>3, <2>1, <2>2, <2>3, <2>4 DEF doWork
<1>4. CASE UNCHANGED vars
  <2>1. items' = items /\ Ticking' = Ticking /\ Popping' = Popping
    BY <1>4 DEF vars, Ticking, Popping
  <2> QED
    BY <2>1, SameCounts
<1> QED
  BY <1>1, <1>2, <1>3, <1>4 DEF Next

\* Why a hash is in ExistsMap.
LEMMA StepExists == IInv /\ [Next]_vars => ExistsHasReason'
<1> SUFFICES ASSUME IInv, [Next]_vars, NEW h \in existsMap'
             PROVE  \E g \in Gossip :
                      /\ HashOf[g] = h
                      /\ pc'[g] = "push" \/ g \in handed' \/ g \in items'
                           \/ \E w \in Worker : wpc'[w] = "delete" /\ g \in got'[w]
  BY DEF ExistsHasReason
<1> USE DEF IInv, TypeOK, PC, ExistsHasReason
<1> DEFINE Reason(g) == pc[g] = "push" \/ g \in handed \/ g \in items
                         \/ \E w \in Worker : wpc[w] = "delete" /\ g \in got[w]
<1>1. ASSUME NEW f \in Gossip, Put(f), h = HashOf[f]
      PROVE  pc'[f] = "push"
  BY <1>1 DEF Put
<1>2. CASE h \notin existsMap
  <2>1. PICK f \in Gossip : Put(f) /\ h = HashOf[f]
    BY <1>2 DEF Next, vars, gossipWorker, Arrive, Put, HeapPush, TimerFires, WatchPush,
                doWork, TakeTick, LookQueue, HeapPop, Delete, Execute
  <2> QED
    BY <2>1, <1>1
<1>3. CASE h \in existsMap
  <2>1. PICK g \in Gossip : HashOf[g] = h /\ Reason(g)
    BY <1>3
  <2>2. CASE \E f \in Gossip : gossipWorker(f)
    BY <2>1, <2>2 DEF gossipWorker, Arrive, Put, HeapPush, TimerFires
  <2>3. CASE WatchPush
    BY <2>1, <2>3 DEF WatchPush
  <2>4. ASSUME NEW v \in Worker, doWork(v)
        PROVE  pc'[g] = "push" \/ g \in handed' \/ g \in items'
                 \/ \E w \in Worker : wpc'[w] = "delete" /\ g \in got'[w]
    <3>1. CASE TakeTick(v)
      BY <2>1, <3>1 DEF TakeTick
    <3>2. CASE LookQueue(v)
      BY <2>1, <3>2 DEF LookQueue
    <3>3. CASE HeapPop(v)
      BY <2>1, <3>3 DEF HeapPop
    <3>4. CASE Delete(v)
      BY <2>1, <3>4 DEF Delete
    <3>5. CASE Execute(v)
      BY <2>1, <3>5 DEF Execute
    <3> QED
      BY <2>4, <3>1, <3>2, <3>3, <3>4, <3>5 DEF doWork
  <2>5. CASE UNCHANGED vars
    BY <2>1, <2>5 DEF vars
  <2> QED
    BY <2>1, <2>2, <2>3, <2>4, <2>5 DEF Next
<1> QED
  BY <1>2, <1>3

\* The invariant holds in every reachable state.
LEMMA InvariantHolds == Spec => []IInv
<1>1. IInv /\ [Next]_vars => IInv'
  BY StepTypeOK, StepHanded, StepTicks, StepExists DEF IInv
<1> QED
  BY InitIInv, <1>1, PTL DEF Spec

\* The variables of the queue keep their types, however many gossips there are.
THEOREM QueueTypeCorrect == Spec => []TypeOK
  BY InvariantHolds, PTL DEF IInv

\* One gossip in the heap for every tick to come: no gossip that gossipWorker
\* has pushed is left without the timer that gets it out.
THEOREM QueueTicksCover == Spec => []TicksCoverQueue
  BY InvariantHolds, PTL DEF IInv

\* doWork never calls heap.Pop on an empty heap, with any number of workers.
THEOREM QueueNeverPopsEmpty == Spec => []NeverPopsEmpty
<1>1. IInv => NeverPopsEmpty
  BY TickFindsGossip DEF IInv, NeverPopsEmpty
<1> QED
  BY InvariantHolds, <1>1, PTL

\* No hash stays in ExistsMap after its transaction has left the queue.
THEOREM QueueExistsHasReason == Spec => []ExistsHasReason
  BY InvariantHolds, PTL DEF IInv

-----------------------------------------------------------------------------
(* The start of the service.                                               *)

\* Where On and Raise are, and what they have left behind: On has put its handler
\* on the list before it looks, Raise has set happenedOnce before it calls.
EventPhases ==
  /\ on \in [Service -> {"create", "add", "look", "overtaken", "done"}]
  /\ raise \in {"create", "set", "call", "unlock", "done"}
  /\ happenedOnce \in {"no", "pending", "yes"}
  /\ \A s \in Service : s \in subscribers <=> on[s] \in {"look", "overtaken", "done"}
  /\ happenedOnce = "no" <=> raise \in {"create", "set"}
  /\ raise = "done" => happenedOnce = "yes"

\* Each of On and Raise starts a handler at most once.
StartsAtMost ==
  /\ starts \in [Service -> Nat]
  /\ \A s \in Service :
       starts[s] <= (IF on[s] \in {"overtaken", "done"} THEN 1 ELSE 0)
                    + (IF raise \in {"unlock", "done"} THEN 1 ELSE 0)

\* One of the two has seen the other once On is done and Raise has gone through
\* the list: this is already so when Raise still holds the lock.
OneSawTheOther ==
  \A s \in Service : on[s] = "done" /\ raise \in {"unlock", "done"} => starts[s] >= 1

EventInv == EventPhases /\ StartsAtMost /\ OneSawTheOther

\* Every step of On and of Raise preserves the invariant.
LEMMA StepEventInv ==
  ASSUME EventInv, EventsNext
  PROVE  EventInv'
<1> USE DEF EventInv, EventPhases
<1>1. ASSUME NEW s \in Service, OnCreate(s) \/ addSubscriberIfNotExists(s)
      PROVE  EventInv'
  <2>1. EventPhases'
    BY <1>1 DEF OnCreate, addSubscriberIfNotExists
  <2>2. StartsAtMost' /\ OneSawTheOther'
    BY <1>1 DEF OnCreate, addSubscriberIfNotExists, StartsAtMost, OneSawTheOther
  <2> QED
    BY <2>1, <2>2
<1>2. ASSUME NEW s \in Service, OnLook(s)
      PROVE  EventInv'
  <2>1. EventPhases'
    BY <1>2 DEF OnLook
  <2>2. /\ starts' \in [Service -> Nat]
        /\ \A r \in Service : r # s => starts'[r] = starts[r] /\ on'[r] = on[r]
        /\ starts'[s] = IF happenedOnce = "yes" THEN starts[s] + 1 ELSE starts[s]
        /\ on'[s] = IF happenedOnce = "pending" THEN "overtaken" ELSE "done"
        /\ on[s] = "look" /\ raise' = raise
    BY <1>2 DEF OnLook, Seen, StartsAtMost
  <2>3. StartsAtMost'
    BY <2>2 DEF StartsAtMost
  <2>4. OneSawTheOther'
    BY <2>2 DEF OneSawTheOther, StartsAtMost
  <2> QED
    BY <2>1, <2>3, <2>4
<1>3. CASE RaiseCreate \/ RaiseSet \/ RaiseUnlock
  <2>1. EventPhases'
    BY <1>3 DEF RaiseCreate, RaiseSet, RaiseUnlock, Happened
  <2>2. StartsAtMost' /\ OneSawTheOther'
    BY <1>3 DEF RaiseCreate, RaiseSet, RaiseUnlock, StartsAtMost, OneSawTheOther
  <2> QED
    BY <2>1, <2>2
<1>4. CASE RaiseCall
  <2>1. EventPhases'
    BY <1>4 DEF RaiseCall
  <2>2. StartsAtMost' /\ OneSawTheOther'
    BY <1>4 DEF RaiseCall, StartsAtMost, OneSawTheOther
  <2> QED
    BY <2>1, <2>2
<1> QED
  BY <1>1, <1>2, <1>3, <1>4 DEF EventsNext

\* The handlers of the event are started at most twice, and at least once when On
\* and Raise have both returned, unless On has looked while the write of Raise
\* was pending: for any set of services that subscribe.
THEOREM EventsReachHandler == EventsSpec => []EventReachesHandler
<1>1. EventsInit => EventInv
  BY DEF EventsInit, EventInv, EventPhases, StartsAtMost, OneSawTheOther
<1>2. EventInv /\ [EventsNext]_eventVars => EventInv'
  <2>1. CASE EventsNext
    BY <2>1, StepEventInv
  <2>2. CASE UNCHANGED eventVars
    BY <2>2 DEF eventVars, EventInv, EventPhases, StartsAtMost, OneSawTheOther
  <2> QED
    BY <2>1, <2>2
<1>3. EventInv => EventReachesHandler
  BY DEF EventInv, StartsAtMost, OneSawTheOther, EventReachesHandler
<1> QED
  BY <1>1, <1>2, <1>3, PTL DEF EventsSpec

\* A step of the composition is a step of the queue or of the event.
LEMMA StartStep ==
  ASSUME [StartNext]_allVars
  PROVE  [Next]_vars /\ [EventsNext]_eventVars
<1>1. CASE Event
  BY <1>1 DEF Event
<1>2. ASSUME NEW g \in Gossip, Arrival(g) \/ Pushing(g) \/ Handing(g)
      PROVE  Next /\ UNCHANGED eventVars
  BY <1>2 DEF Arrival, Pushing, Handing, Next, gossipWorker
<1>3. CASE Watching
  BY <1>3 DEF Watching, Next
<1>4. ASSUME NEW w \in Worker, Working(w) \/ Taking(w)
      PROVE  Next /\ UNCHANGED eventVars
  BY <1>4 DEF Working, Taking, Next, doWork
<1>5. CASE UNCHANGED allVars
  BY <1>5 DEF allVars
<1> QED
  BY <1>1, <1>2, <1>3, <1>4, <1>5 DEF StartNext

\* The service, from its start on, implements the queue and the event: workers
\* that the event starts, once or twice and at any moment, use the queue as
\* module GossipQueue says.
THEOREM StartImplements == StartSpec => Spec /\ EventsSpec
<1>1. StartInit => Init /\ EventsInit
  BY DEF StartInit
<1>2. [StartNext]_allVars => [Next]_vars /\ [EventsNext]_eventVars
  BY StartStep
<1> QED
  BY <1>1, <1>2, PTL DEF StartSpec, Spec, EventsSpec

\* While the service starts, with the handler started twice or late, doWork never
\* pops an empty heap and no hash stays in ExistsMap without a reason.
THEOREM StartKeepsQueue == StartSpec => [](NeverPopsEmpty /\ ExistsHasReason /\ EventReachesHandler)
  BY StartImplements, QueueNeverPopsEmpty, QueueExistsHasReason, EventsReachHandler, PTL
=============================================================================
