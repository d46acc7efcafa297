---------------------------- MODULE ServiceStart ----------------------------
(***************************************************************************)
(* The start of DAPoSService composed with its queue.  The handler of the   *)
(* event (Events) starts gossipWorker and transactionWorker, as often as    *)
(* it is started itself; what they do is GossipQueue.  The workers are      *)
(* numbered: worker n runs once the handler was started n times.            *)
(***************************************************************************)
EXTENDS GossipQueue, Events

ASSUME StartAssumption == Worker = {1, 2} /\ Cardinality(Service) = 1

allVars == <<vars, eventVars>>

Starts == starts[CHOOSE s \in Service : TRUE]

\* transactionWorker number w was started; gossipWorker 1 takes from gossipChan.
Running(w) == w <= Starts

StartInit == Init /\ EventsInit

Event == EventsNext /\ UNCHANGED vars
Arrival(g) == Running(1) /\ Arrive(g) /\ UNCHANGED eventVars
Pushing(g) == (Put(g) \/ TimerFires(g)) /\ UNCHANGED eventVars
Handing(g) == HeapPush(g) /\ UNCHANGED eventVars
Watching == WatchPush /\ UNCHANGED eventVars
Working(w) == Running(w) /\ (TakeTick(w) \/ LookQueue(w) \/ Delete(w) \/ Execute(w)) /\ UNCHANGED eventVars
Taking(w) == Running(w) /\ HeapPop(w) /\ UNCHANGED eventVars

StartNext ==
  \/ Event
  \/ \E g \in Gossip : Arrival(g) \/ Pushing(g) \/ Handing(g)
  \/ Watching
  \/ \E w \in Worker : Working(w) \/ Taking(w)

\* The fairness of GossipQueue, and goroutines that subscribe or raise go on.
StartSpec ==
  /\ StartInit /\ [][StartNext]_allVars
  /\ WF_allVars(Event) /\ WF_allVars(Watching)
  /\ \A g \in Gossip : WF_allVars(Arrival(g)) /\ WF_allVars(Pushing(g)) /\ SF_allVars(Handing(g))
  /\ \A w \in Worker : WF_allVars(Working(w)) /\ SF_allVars(Taking(w))

-----------------------------------------------------------------------------

\* Every gossip is taken from the channel in the end: the event has reached its
\* handler, whichever of On and Raise came first, unless On has looked while
\* the write of Raise was pending.
GossipIsTaken ==
  <>[]/\ EventReachesHandler
      /\ (\A g \in Gossip : pc[g] # "new") \/ \E s \in Service : on[s] = "overtaken"

\* Once the service has started, every gossip is taken, and what is queued is
\* executed (On, Raise, gossipWorker, transactionWorker).
GossipIsServed == GossipIsTaken /\ QueuedIsExecuted
=============================================================================
