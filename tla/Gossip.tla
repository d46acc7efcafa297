------------------------------- MODULE Gossip -------------------------------
(***************************************************************************)
(* The delegates' gossip about ONE transaction: startGossiping,            *)
(* cacheOnFirstReceive, synchronizeGossip, gossipWorker and                *)
(* getRandomDelegate of dapos/dapos_handshake.go, GossipGrpc and           *)
(* peerGossipGrpc of dapos/dapos_transport_grpc.go.  What these functions  *)
(* keep is per transaction hash, so one transaction is the whole protocol. *)
(*                                                                         *)
(* A gossip is a Go pointer, and the code shares it: the object received   *)
(* first is also the cached one, the one in gossipChan and the one later   *)
(* handlers append to, without a lock.  "rumors" maps each gossip object   *)
(* to its list of rumors (a rumor is the address of its author).           *)
(*                                                                         *)
(* An object is named <<d, k>>, d the delegate that holds it, and the      *)
(* goroutine that works for it has the same name: first the submission or  *)
(* the GossipGrpc handler that made the object, later the goroutine that   *)
(* gossipWorker starts for it.  Remote calls are synchronous: the caller   *)
(* waits until the handler it started has returned, or gives up on it.     *)
(*                                                                         *)
(* Abstracted: signatures, time (in a behaviour that is late, a worker may *)
(* find the rumors too far apart), cache expiry, and the queue after Push  *)
(* (Ledger, GossipQueue).                                                  *)
(***************************************************************************)
EXTENDS Naturals, FiniteSets, Bags, Sequences, SequencesExt, Functions

CONSTANTS Delegate,          \* the delegates, known to each other
          Setting            \* what may happen to a transaction: a set of records with
                             \*   submitters: delegates that a client submits it to
                             \*   down: delegates that answer no call
                             \*   late: whether rumors come too late for ValidateTimeDelta
                             \*   faults: bound on the calls between delegates that are up
                             \*     and fail, and on the errors that leave no mark

ASSUME GossipAssumption ==
  /\ IsFiniteSet(Delegate)
  /\ Setting \subseteq [submitters : SUBSET Delegate, down : SUBSET Delegate, late : BOOLEAN, faults : Nat]

VARIABLES rumors,     \* object -> list of rumors
          cached,     \* per delegate: the cached gossip, or None
          chan,       \* per delegate: objects in gossipChan
          sent,       \* per delegate: CacheSentDelegate
          unavailable,\* per delegate: nodes marked StatusNodeUnavailable
          queued,     \* per delegate: the authors of each gossip pushed onto gossipQueue
          receipt,    \* per delegate: status of the cached receipt
          thread,     \* object -> what the goroutine named after it is doing
          setting,    \* the setting of this behaviour: never changes
          submitted, faults

vars == <<rumors, cached, chan, sent, unavailable, queued, receipt, thread, setting,
          submitted, faults>>

None == <<>>

Down == setting.down
Submitter == setting.submitters \ Down

\* A list of rumors is a bag of authors: a racing append can list one twice.
IsRumors(list) == IsABag(list) /\ BagToSet(list) \subseteq Delegate

\* len(gossip.Rumors): the entries of the list, numbered per author.
Length(list) == Cardinality(UNION {{d} \X (1 .. list[d]) : d \in BagToSet(list)})

Object == Delegate \X Nat

\* The delegate that holds an object, and on which its goroutine runs.
At(o) == o[1]

\* The goroutines at work: pc, the goroutine that waits for their answer, the
\* object they synchronize, the delegates cacheOnFirstReceive has still to
\* contact, and what synchronizeGossip has found in the received gossip.
IsThread(t) ==
  /\ t.pc \in {"start", "recv", "merge", "send", "sendWait", "push", "workerWait"}
  /\ t.caller \in DOMAIN thread \cup {None}
  /\ t.ob \in DOMAIN rumors
  /\ t.todo \subseteq Delegate
  /\ IsRumors(t.seen) /\ IsRumors(t.missing)
  /\ t.addToChan \in BOOLEAN

NewThread(pc, caller, ob) ==
  [pc |-> pc, caller |-> caller, ob |-> ob, todo |-> {}, seen |-> EmptyBag, missing |-> EmptyBag,
   addToChan |-> TRUE]

\* Variant of TwoThirds: 2/3 computed on integers.
TwoThirdsTruncated(n) == n >= Cardinality(Delegate) * (2 \div 3)

\* len(gossip.Rumors) >= len(delegateNodes) * 2 / 3.
TwoThirds(n) == 3 * n >= 2 * Cardinality(Delegate)

TypeOK ==
  /\ \A o \in DOMAIN rumors : o \in Object /\ IsRumors(rumors[o])
  /\ DOMAIN thread \subseteq DOMAIN rumors
  /\ \A d \in Delegate :
       /\ cached[d] \in DOMAIN rumors \cup {None}
       /\ chan[d] \subseteq DOMAIN rumors \ DOMAIN thread
       /\ queued[d] \in Seq(SUBSET Delegate)
       /\ sent[d] \subseteq Delegate \ {d} /\ unavailable[d] \subseteq Delegate \ {d}
       /\ receipt[d] \in {"none", "Pending", "GossipingTimedOut", "CouldNotReachConsensus"}
  /\ \A o \in DOMAIN thread : IsThread(thread[o])
  /\ setting \in Setting /\ submitted \subseteq Submitter /\ faults \in 0 .. setting.faults

Init ==
  /\ rumors = <<>>
  /\ cached = [d \in Delegate |-> None]
  /\ chan = [d \in Delegate |-> {}]
  /\ sent = [d \in Delegate |-> {}]
  /\ unavailable = [d \in Delegate |-> {}]
  /\ queued = [d \in Delegate |-> <<>>]
  /\ receipt = [d \in Delegate |-> "none"]
  /\ thread = <<>>
  /\ setting \in Setting
  /\ submitted = {}
  /\ faults = 0

-----------------------------------------------------------------------------

\* Function f with the value t at o.
With(f, o, t) == [x \in DOMAIN f \cup {o} |-> IF x = o THEN t ELSE f[x]]

Run(o, t) == With(thread, o, t)

End(o) == Restrict(thread, DOMAIN thread \ {o})

\* A name for a new object at d: one that is free.
New(d) ==
  <<d, CHOOSE k \in 1 .. Cardinality(DOMAIN rumors) + 1 : <<d, k>> \notin DOMAIN rumors>>

\* The garbage collector: an object lives while something points to it.
Collect(objects) ==
  Restrict(objects, DOMAIN objects \cap
    (DOMAIN thread' \cup {thread'[o].ob : o \in DOMAIN thread'}
      \cup Range(cached') \cup UNION Range(chan')))

\* The delegates the loop of cacheOnFirstReceive goes through.
Others(d) == Delegate \ {d}

\* cacheOnFirstReceive, before its loop: receipt, gossip and transaction are
\* cached; the goroutine goes on to contact every other delegate.
cacheOnFirstReceive(o, ob) ==
  /\ receipt' = [receipt EXCEPT ![At(o)] = "Pending"]
  /\ cached' = [cached EXCEPT ![At(o)] = ob]
  /\ thread' = Run(o, [thread[o] EXCEPT !.pc = "send", !.missing = EmptyBag, !.seen = EmptyBag,
                                        !.todo = Others(At(o))])

-----------------------------------------------------------------------------
(* startGossiping                                                          *)

\* ToTransactionFromCache decides whether we are already gossiping; the answer
\* is used only after the lookup.
SubmitCheck(d) ==
  /\ d \in Submitter \ submitted
  /\ submitted' = submitted \cup {d}
  /\ \/ receipt[d] # "none" /\ UNCHANGED <<thread, rumors>>
     \/ /\ receipt[d] = "none"
        /\ thread' = Run(New(d), NewThread("start", None, New(d)))
        /\ rumors' = With(rumors, New(d), SetToBag({d}))
  /\ UNCHANGED <<cached, chan, sent, unavailable, queued, receipt, setting, faults>>

SubmitStart(o) ==
  /\ thread[o].pc = "start"
  /\ cacheOnFirstReceive(o, o)
  /\ UNCHANGED <<chan, sent, unavailable, queued, setting, submitted, faults>>
  /\ rumors' = Collect(rumors)

-----------------------------------------------------------------------------
(* GossipGrpc and synchronizeGossip                                        *)

\* The lookup of the cached gossip and the comparison with the received one.
\* hasAll is overwritten for every rumor, so only the last one counts: any one,
\* the lists being sorted by the clocks of the authors.
Recv(o) ==
  LET ourGossip == cached[At(o)]
      t == [thread[o] EXCEPT !.pc = "merge"]
  IN
  /\ thread[o].pc = "recv"
  /\ \/ /\ ourGossip = None
        /\ thread' = Run(o, t)
     \/ /\ ourGossip # None
        /\ \E last \in BagToSet(rumors[o]) :
             thread' = Run(o, [t EXCEPT
               !.ob = ourGossip,
               !.seen = rumors[ourGossip],
               !.missing = SetToBag(BagToSet(rumors[o]) \ BagToSet(rumors[ourGossip])),
               !.addToChan = ~ BagIn(last, rumors[ourGossip])])
  /\ UNCHANGED <<rumors, cached, chan, sent, unavailable, queued, receipt, setting, submitted, faults>>

\* The missing rumors are appended to the shared list.  Another handler may
\* have appended since the comparison: its rumors are then kept, or lost with
\* the slice header this goroutine had read.
Merge(o) ==
  LET t == thread[o]
      d == At(o)
  IN
  /\ t.pc = "merge"
  /\ UNCHANGED <<chan, sent, unavailable, queued, setting, submitted, faults>>
  /\ \E base \in IF t.missing = EmptyBag THEN {rumors[t.ob]} ELSE {rumors[t.ob], t.seen} :
       LET merged == base (+) t.missing IN
       \/ /\ BagIn(d, merged)                          \* didRumor
          /\ thread' = Run(o, [t EXCEPT !.pc = "send", !.missing = EmptyBag, !.seen = EmptyBag])
          /\ UNCHANGED <<cached, receipt>>
          /\ rumors' = [rumors EXCEPT ![t.ob] = merged]
       \/ /\ ~ BagIn(d, merged)
          /\ cacheOnFirstReceive(o, t.ob)
          /\ rumors' = Collect([rumors EXCEPT ![t.ob] = merged (+) SetToBag({d})])

\* The goroutines that go on when the call of "caller" has returned: a worker
\* ends, cacheOnFirstReceive contacts the next delegate.
Return(threads, caller) ==
  IF caller = None THEN threads
  ELSE IF threads[caller].pc = "workerWait" THEN Restrict(threads, DOMAIN threads \ {caller})
  ELSE [threads EXCEPT ![caller].pc = "send"]

\* An error that peerGossipGrpc returns without marking the node: it got no
\* connection from its pool, or an answer that is not a gossip.
Unmarked ==
  /\ faults < setting.faults
  /\ faults' = faults + 1
  /\ UNCHANGED <<unavailable, sent>>

\* A worker whose call has failed puts its gossip back on the channel.
PutBack(channel, caller) ==
  IF thread[caller].pc = "workerWait" THEN [channel EXCEPT ![At(caller)] = @ \cup {caller}] ELSE channel

\* Everybody has been contacted.  The RECEIVED gossip goes to gossipChan, the
\* synchronized one back to the caller, which only notes the delegate as sent,
\* or cannot read the answer.
Finish(o) ==
  LET t == thread[o]
      d == At(o)
      received == IF t.addToChan THEN [chan EXCEPT ![d] = @ \cup {o}] ELSE chan
  IN
  /\ t.pc = "send"
  /\ t.todo \subseteq sent[d]
  /\ thread' = Return(End(o), t.caller)
  /\ \/ /\ chan' = received
        /\ sent' = IF t.caller = None THEN sent ELSE [sent EXCEPT ![At(t.caller)] = @ \cup {d}]
        /\ UNCHANGED <<unavailable, faults>>
     \/ /\ t.caller # None
        /\ chan' = PutBack(received, t.caller)
        /\ Unmarked
  /\ UNCHANGED <<cached, queued, receipt, setting, submitted>>
  /\ rumors' = Collect(rumors)

-----------------------------------------------------------------------------
(* peerGossipGrpc                                                          *)

\* The goroutine o, which becomes t, calls delegate q with a copy of gossip g.
Call(o, t, q, g) ==
  /\ q \notin Down
  /\ thread' = With(Run(o, t), New(q), NewThread("recv", o, New(q)))
  /\ rumors' = With(rumors, New(q), rumors[g])

\* Variant of CallFails: the delegate is noted as sent before the error is seen.
CallFailsButSent(d, q) ==
  /\ unavailable' = [unavailable EXCEPT ![d] = @ \cup {q}]
  /\ sent' = [sent EXCEPT ![d] = @ \cup {q}]

\* Variant of CallFails: the node keeps its status.
CallFailsUnmarked(d, q) == UNCHANGED <<unavailable, sent>>

\* The call itself fails: delegate d marks q as unavailable, and q is not noted
\* as sent.
CallFails(d, q) ==
  /\ unavailable' = [unavailable EXCEPT ![d] = @ \cup {q}]
  /\ UNCHANGED sent

\* One iteration of the loop of cacheOnFirstReceive; its errors are ignored.
Send(o) ==
  LET t == thread[o] IN
  /\ t.pc = "send"
  /\ \E q \in t.todo \ sent[At(o)] :
       LET rest == [t EXCEPT !.todo = @ \ {q}] IN
       \/ /\ Call(o, [rest EXCEPT !.pc = "sendWait"], q, t.ob)
          /\ UNCHANGED <<unavailable, sent, faults>>
       \/ /\ \/ q \in Down /\ CallFails(At(o), q) /\ UNCHANGED faults
             \/ Unmarked
          /\ thread' = Run(o, rest)
          /\ UNCHANGED rumors
  /\ UNCHANGED <<cached, chan, queued, receipt, setting, submitted>>

\* The context of a call expires; handler o at the other side goes on, but
\* nobody waits for it.
GiveUp(o) ==
  LET caller == thread[o].caller
      orphan == Run(o, [thread[o] EXCEPT !.caller = None])
  IN
  /\ caller # None
  /\ faults < setting.faults
  /\ faults' = faults + 1
  /\ CallFails(At(caller), At(o))
  /\ thread' = Return(orphan, caller)
  /\ chan' = PutBack(chan, caller)
  /\ UNCHANGED <<rumors, cached, queued, receipt, setting, submitted>>

-----------------------------------------------------------------------------
(* gossipWorker: one goroutine per gossip taken from the channel           *)

Take(o) == chan' = [chan EXCEPT ![At(o)] = @ \ {o}]

\* Variant of updateReceiptStatus: the changed receipt is not written back.
ReceiptNotCached(d, status) == UNCHANGED receipt

updateReceiptStatus(d, status) ==
  receipt' = IF receipt[d] = "none" THEN receipt ELSE [receipt EXCEPT ![d] = status]

\* "The rumors have an invalid time delta".
WorkerTimedOut(o) ==
  /\ setting.late
  /\ Length(rumors[o]) > 1
  /\ Take(o)
  /\ updateReceiptStatus(At(o), "GossipingTimedOut")
  /\ UNCHANGED <<cached, sent, unavailable, queued, thread, setting, submitted, faults>>
  /\ rumors' = Collect(rumors)

\* Two thirds: if the hash is not in the queue yet, Push comes in a later step.
WorkerQuorum(o) ==
  /\ TwoThirds(Length(rumors[o]))
  /\ Take(o)
  /\ thread' = IF queued[At(o)] # <<>> THEN thread ELSE Run(o, NewThread("push", None, o))
  /\ UNCHANGED <<cached, sent, unavailable, queued, receipt, setting, submitted, faults>>
  /\ rumors' = Collect(rumors)

WorkerPush(o) ==
  /\ thread[o].pc = "push"
  /\ queued' = [queued EXCEPT ![At(o)] = Append(@, BagToSet(rumors[o]))]
  /\ thread' = End(o)
  /\ UNCHANGED <<cached, chan, sent, unavailable, receipt, setting, submitted, faults>>
  /\ rumors' = Collect(rumors)

\* The candidates of getRandomDelegate.
getRandomDelegate(d) == Delegate \ ({d} \cup sent[d] \cup unavailable[d])

\* "did not find any delegates to rumor with": the gossip at hand REPLACES the
\* cached one.
WorkerNobodyLeft(o) ==
  /\ ~ TwoThirds(Length(rumors[o]))
  /\ getRandomDelegate(At(o)) = {}
  /\ Take(o)
  /\ cached' = [cached EXCEPT ![At(o)] = o]
  /\ updateReceiptStatus(At(o), "CouldNotReachConsensus")
  /\ UNCHANGED <<sent, unavailable, queued, thread, setting, submitted, faults>>
  /\ rumors' = Collect(rumors)

\* One random delegate is told.  A failed call puts the gossip back on the
\* channel; only some of them mark the delegate unavailable.
WorkerCall(o) ==
  /\ ~ TwoThirds(Length(rumors[o]))
  /\ \E q \in getRandomDelegate(At(o)) :
       \/ /\ Take(o)
          /\ Call(o, NewThread("workerWait", None, o), q, o)
          /\ UNCHANGED <<unavailable, sent, faults>>
       \/ /\ \/ q \in Down /\ CallFails(At(o), q) /\ UNCHANGED faults
             \/ Unmarked
          /\ UNCHANGED <<rumors, thread, chan>>
  /\ UNCHANGED <<cached, queued, receipt, setting, submitted>>

-----------------------------------------------------------------------------

Handle(o) ==
  \/ SubmitStart(o) \/ Recv(o) \/ Merge(o) \/ Send(o) \/ Finish(o) \/ WorkerPush(o)

gossipWorker(o) ==
  \/ WorkerTimedOut(o) \/ WorkerQuorum(o) \/ WorkerNobodyLeft(o) \/ WorkerCall(o)

Progress ==
  \/ \E o \in DOMAIN thread : Handle(o)
  \/ \E d \in Delegate : \E o \in chan[d] : gossipWorker(o)

Next ==
  \/ \E d \in Delegate : SubmitCheck(d)
  \/ \E o \in DOMAIN thread : GiveUp(o)
  \/ Progress

Spec == Init /\ [][Next]_vars

\* Some goroutine that can run does run.  Clients need not submit, and no call
\* has to time out.
FairSpec == Spec /\ WF_vars(Progress)

-----------------------------------------------------------------------------

(* Properties                                                              *)

Quiet == DOMAIN thread = {} /\ \A d \in Delegate : chan[d] = {}

Accepted(d) == queued[d] # <<>>

Pending(d) == receipt[d] = "Pending"

Informed == \A d \in Delegate \ Down : cached[d] # None

\* A delegate is on the list of delegates the gossip was sent to
\* (CacheSentDelegate, after which nobody sends it there again) only when it
\* has the gossip.
SentMeansReceived ==
  \A d \in Delegate : \A q \in sent[d] : cached[q] # None

\* The authors of a gossip in the queue have the gossip, and with it the
\* transaction: nobody speaks for a delegate that cacheOnFirstReceive has not run on.
QueuedMeansReceived ==
  \A d \in Delegate : \A signers \in ToSet(queued[d]) : \A q \in signers : cached[q] # None

\* What delegates keep about a gossip is well formed and true of the others
\* (cacheOnFirstReceive, gossipWorker).
GossipConsistent == TypeOK /\ SentMeansReceived /\ QueuedMeansReceived

\* A gossip that gossipWorker pushes onto the queue carries the rumors of two
\* thirds of the delegates, each counted once.
QueuedHasTwoThirds ==
  \A d \in Delegate : \A signers \in ToSet(queued[d]) :
    3 * Cardinality(signers) >= 2 * Cardinality(Delegate)

\* The gossip about a transaction comes to an end once the errors that mark no
\* node have ended (there are at most setting.faults; while they last, the code
\* tries again without end): the handlers that call each other stop at last, and
\* so does the worker that puts a gossip back after a call has failed.
GossipEnds == <>[]Quiet

\* The gossip about a submitted transaction has come to rest, and no call has
\* failed.  GossipEnds says that it comes to rest.
AtRest == Quiet /\ submitted # {} /\ Down = {} /\ setting.faults = 0

\* A transaction that a client has submitted to one delegate reaches every
\* delegate when no call fails, whatever happens to the rumors' times.
EveryoneLearns == AtRest => Informed

\* Without failed calls, no receipt stays Pending for a transaction that no
\* worker will push: the gossip is queued, or updateReceiptStatus tells the
\* client why not.
VerdictReached == AtRest => \A d \in Delegate : Accepted(d) \/ ~ Pending(d)

\* Without failed calls and late rumors a submitted transaction is queued by
\* every delegate.
AcceptedByAll == AtRest /\ ~ setting.late => \A d \in Delegate : Accepted(d)

\* A gossip without failed calls ends well: everybody knows the transaction,
\* has accepted it if the rumors came in time, and has told its client.
GossipEndsWell == EveryoneLearns /\ VerdictReached /\ AcceptedByAll
=============================================================================
