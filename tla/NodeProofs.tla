---------------------------- MODULE NodeProofs ----------------------------
(***************************************************************************)
(* What a node knows of the other nodes (Disgover) and of a transaction      *)
(* (Receipts).                                                               *)
(*                                                                         *)
(* Delegates that have joined know each other and can reach each other, for  *)
(* any nodes, any configuration and any number of faults.                    *)
(* DelegatesInTouch speaks about moments in which the seed is quiet.  What   *)
(* the proof carries from step to step is what the seed still owes: two      *)
(* delegates that have joined are in touch, or the call about it has failed, *)
(* or a goroutine of peerUpdateGrpc is going to make it (Owed).  That one    *)
(* that has not yet read the cache will make it rests on the seed's cache    *)
(* holding everybody who has pinged since the seed lost it (SeedRemembers).  *)
(*                                                                         *)
(* What a delegate answers about a transaction, for any messages, any peers, *)
(* any number of workers and restarts.  Two arguments.  A delegate that has  *)
(* forgotten nothing and has no receipt in its cache has not got far with    *)
(* any message (NothingWithoutReceipt): nothing is queued, nobody has its    *)
(* rumor, no handler works on an object it has published; so doWork cannot   *)
(* miss a receipt.  And the lock on the hash (OneExecutes, ExecutesOnce)     *)
(* makes the receipt that Stage caches the one that Commit leaves behind     *)
(* (StagedIsCached), unless it was written since.                            *)
(***************************************************************************)
EXTENDS Disgover, Receipts, FiniteSetTheorems, TLAPS

-----------------------------------------------------------------------------
(* Node discovery                                                          *)

ProcessType ==
  [pc : {"down", "booting", "pinging", "joined"}, listening : BOOLEAN, type : {"Node", "Delegate"},
   cache : SUBSET Node, unavailable : SUBSET Node, reboot : BOOLEAN]

HandlerType == [reads : SUBSET Node, dirty : BOOLEAN, delegates : SUBSET Node]

UpdaterType ==
  [what : Software \cup {"delegates"}, started : BOOLEAN, delegates : SUBSET Node, todo : SUBSET Node,
   fresh : BOOLEAN]

Typed ==
  /\ node \in [Node -> ProcessType]
  /\ disk \in [Node -> SUBSET {"disgo", "disgo-update"}]
  /\ seed \in [up : BOOLEAN, cache : SUBSET Node]
  /\ db \subseteq Node
  /\ ping \in [Node -> SUBSET HandlerType]
  /\ updater \subseteq UpdaterType
  /\ files \subseteq Software
  /\ missed \subseteq Node \X Node
  /\ seedCrashed \in BOOLEAN /\ faults \in Nat

\* A node marks only nodes that it has in its cache, and never itself.
MarksOthers == \A d \in Node : node[d].unavailable \subseteq node[d].cache \ {d}

\* The seed calls only delegates that are on the list it tells.
CallsListed == \A u \in updater : u.todo \subseteq u.delegates

\* PingBegin waits for the handler that still works for the same node.
OnePing == \A d \in Node : \A x, y \in ping[d] : x = y

\* The answer to the ping of a delegate names it, so one that has joined is in
\* its own cache.
KnowsItself ==
  \A d \in Node : IsDelegate(d) =>
    /\ \A h \in ping[d] : d \in h.delegates
    /\ node[d].pc = "joined" => d \in node[d].cache

\* A seed that has not lost its cache has everybody in it who has pinged.
SeedRemembers ==
  ~ seedCrashed =>
    seed.up /\ \A d \in Node : node[d].pc \in {"pinging", "joined"} => d \in seed.cache

\* A goroutine of the seed is going to tell d of e.
Promised(d, e) ==
  \E u \in updater : u.what = "delegates" /\ (u.started => d \in u.todo /\ e \in u.delegates)

InTouch(d, e) == e \in node[d].cache \ node[d].unavailable

Owed ==
  ~ seedCrashed =>
    \A d, e \in Node : HasJoined(d) /\ HasJoined(e) =>
      InTouch(d, e) \/ <<d, e>> \in missed \/ Promised(d, e)

IInv ==
  /\ Typed /\ MarksOthers /\ CallsListed /\ OnePing /\ KnowsItself /\ SeedRemembers
  /\ Owed

\* The initial states satisfy the invariant.
LEMMA InitIInv == Init => IInv
<1> SUFFICES ASSUME Init PROVE IInv
  OBVIOUS
<1> USE DEF Init, Down, Process, NewSeed
<1>1. Typed
  BY DEF Typed, ProcessType
<1>2. MarksOthers /\ CallsListed /\ OnePing /\ KnowsItself
  BY DEF MarksOthers, CallsListed, OnePing, KnowsItself
<1>3. SeedRemembers /\ Owed
  BY DEF SeedRemembers, Owed, HasJoined
<1> QED
  BY <1>1, <1>2, <1>3 DEF IInv

\* What the answer to a ping and the seed's list make of a process.
LEMMA RecordOfProcess ==
  ASSUME NEW p \in ProcessType, NEW D \in SUBSET Node, NEW d
  PROVE  /\ Joined(p, d, D) \in ProcessType
         /\ UpdateGrpc(p, D) \in ProcessType /\ UpdateGrpc(p, D).pc = p.pc
         /\ UpdateGrpc(p, D).cache = p.cache \cup D /\ UpdateGrpc(p, D).unavailable = p.unavailable \ D
  BY DEF Joined, UpdateGrpc, ProcessType

\* A flag of a process is set.
LEMMA FlagsOfProcess ==
  ASSUME NEW p \in ProcessType, NEW b \in BOOLEAN
  PROVE  [p EXCEPT !.listening = b] \in ProcessType /\ [p EXCEPT !.reboot = b] \in ProcessType
  BY DEF ProcessType

\* What a call leaves of a goroutine of the seed.
LEMMA RecordOfUpdater ==
  ASSUME NEW u \in UpdaterType, NEW d, NEW fresh \in BOOLEAN
  PROVE  /\ After(u, d, fresh) \in UpdaterType /\ After(u, d, fresh).todo = u.todo \ {d}
         /\ After(u, d, fresh).delegates = u.delegates /\ After(u, d, fresh).what = u.what
         /\ After(u, d, fresh).started = u.started
  BY DEF After, UpdaterType

\* Every step keeps every variable in its type.
LEMMA StepTyped == Typed /\ [Next]_vars => Typed'
<1> SUFFICES ASSUME Typed, [Next]_vars PROVE Typed'
  OBVIOUS
<1> USE DEF Typed
<1>1. /\ Down \in ProcessType /\ Process("booting") \in ProcessType
      /\ NewUpdater("delegates") \in UpdaterType
      /\ \A S \in SUBSET Node : Delegates(S) \in SUBSET Node
      /\ \A b \in BOOLEAN : NewSeed(b) \in [up : BOOLEAN, cache : SUBSET Node]
  BY DEF Down, Process, ProcessType, NewUpdater, UpdaterType, Delegates, NewSeed
<1>2. ASSUME NEW d \in Node, Boot(d) \/ Listen(d) PROVE Typed'
  <2>1. node' \in [Node -> ProcessType]
    <3>1. [node[d] EXCEPT !.listening = TRUE] \in ProcessType
      BY FlagsOfProcess
    <3>2. CASE Boot(d)
      BY <1>1, <3>2 DEF Boot
    <3>3. CASE Listen(d)
      BY <3>1, <3>3 DEF Listen
    <3> QED
      BY <1>2, <3>2, <3>3
  <2>2. disk' \in [Node -> SUBSET {"disgo", "disgo-update"}]
    BY <1>2 DEF Boot, Listen
  <2> QED
    BY <1>2, <2>1, <2>2 DEF Boot, Listen
<1>3. ASSUME NEW d \in Node, Crash(d) \/ PingFails(d) \/ Reboot(d) PROVE Typed'
  <2>1. node' = [node EXCEPT ![d] = Down]
    BY <1>3 DEF Crash, PingFails, Reboot, Exit
  <2>2. node' \in [Node -> ProcessType]
    BY <1>1, <2>1
  <2>3. missed' \subseteq Node \X Node /\ faults' \in Nat
    BY <1>3 DEF Crash, PingFails, Reboot, Exit, Fault
  <2> QED
    BY <1>3, <2>2, <2>3 DEF Crash, PingFails, Reboot
<1>4. ASSUME NEW d \in Node, PingBegin(d) PROVE Typed'
  <2>1. node' \in [Node -> ProcessType]
    <3>1. [node[d] EXCEPT !.pc = "pinging"] \in ProcessType
      BY DEF ProcessType
    <3> QED
      BY <1>4, <3>1 DEF PingBegin
  <2>2. seed' \in [up : BOOLEAN, cache : SUBSET Node]
    BY <1>4 DEF PingBegin
  <2>3. ping' \in [Node -> SUBSET HandlerType]
    <3>1. [reads |-> db \cup {d}, dirty |-> FALSE, delegates |-> Delegates(db \cup seed.cache \cup {d})]
            \in HandlerType
      BY <1>1 DEF HandlerType
    <3> QED
      BY <1>4, <3>1 DEF PingBegin
  <2> QED
    BY <1>4, <2>1, <2>2, <2>3 DEF PingBegin
<1>5. ASSUME NEW d \in Node, PingEnd(d) PROVE Typed'
  <2>1. PICK h \in ping[d] :
          /\ db' = IF h.dirty THEN db ELSE db \cup {d}
          /\ ping' = [e \in Node |-> IF e = d THEN {}
                       ELSE {[x EXCEPT !.dirty = @ \/ (~ h.dirty /\ d \in x.reads)] : x \in ping[e]}]
          /\ node' = IF node[d].pc = "pinging" THEN [node EXCEPT ![d] = Joined(@, d, h.delegates)] ELSE node
    BY <1>5 DEF PingEnd
  <2>2. h \in HandlerType /\ h.delegates \in SUBSET Node
    BY <2>1 DEF HandlerType
  <2>3. node' \in [Node -> ProcessType]
    <3>1. Joined(node[d], d, h.delegates) \in ProcessType
      BY <2>2, RecordOfProcess
    <3> QED
      BY <2>1, <3>1
  <2>4. ping' \in [Node -> SUBSET HandlerType]
    <3>1. \A x \in HandlerType : [x EXCEPT !.dirty = @ \/ (~ h.dirty /\ d \in x.reads)] \in HandlerType
      BY DEF HandlerType
    <3> QED
      BY <2>1, <3>1
  <2>5. updater' \subseteq UpdaterType
    BY <1>1, <1>5 DEF PingEnd, startUpdate
  <2>6. missed' \subseteq Node \X Node /\ db' \subseteq Node
    BY <1>5, <2>1 DEF PingEnd
  <2> QED
    BY <1>5, <2>3, <2>4, <2>5, <2>6 DEF PingEnd
<1>6. ASSUME NEW d \in Node, NEW e \in Node, MarkUnavailable(d, e) PROVE Typed'
  <2>1. node' \in [Node -> ProcessType]
    <3>1. [node[d] EXCEPT !.unavailable = @ \cup {e}] \in ProcessType
      BY DEF ProcessType
    <3> QED
      BY <1>6, <3>1 DEF MarkUnavailable
  <2> QED
    BY <1>6, <2>1 DEF MarkUnavailable
<1>7. CASE SeedBoot \/ SeedCrash
  <2>1. seed' = NewSeed(TRUE) \/ seed' = NewSeed(FALSE)
    BY <1>7 DEF SeedBoot, SeedCrash
  <2>2. seed' \in [up : BOOLEAN, cache : SUBSET Node]
    <3>1. NewSeed(TRUE) \in [up : BOOLEAN, cache : SUBSET Node] /\ NewSeed(FALSE) \in [up : BOOLEAN, cache : SUBSET Node]
      BY <1>1, Zenon
    <3> QED
      BY <2>1, <3>1, Zenon
  <2>3. faults' \in Nat /\ updater' \subseteq UpdaterType /\ seedCrashed' \in BOOLEAN
    <3>1. CASE SeedBoot
      BY <3>1 DEF SeedBoot
    <3>2. CASE SeedCrash
      <4>1. faults' \in Nat
        BY <3>2 DEF SeedCrash, Fault
      <4>2. updater' = {} /\ seedCrashed' \in BOOLEAN
        BY <3>2, Zenon DEF SeedCrash
      <4> QED
        BY <4>1, <4>2
    <3> QED
      BY <1>7, <3>1, <3>2
  <2>4. ping' \in [Node -> SUBSET HandlerType]
    BY <1>7 DEF SeedBoot, SeedCrash
  <2> QED
    BY <1>7, <2>2, <2>3, <2>4 DEF SeedBoot, SeedCrash
<1>8. ASSUME NEW f \in files, FoundSoftware(f) PROVE Typed'
  <2>1. NewUpdater(f) \in UpdaterType
    BY <1>8 DEF NewUpdater, UpdaterType
  <2> QED
    BY <1>8, <2>1 DEF FoundSoftware
<1>9. ASSUME NEW u \in updater, UpdateStart(u) \/ UpdateEnd(u) PROVE Typed'
  <2>1. [u EXCEPT !.started = TRUE, !.delegates = Delegates(seed.cache), !.todo = Delegates(seed.cache)] \in UpdaterType
    BY <1>1 DEF UpdaterType
  <2> QED
    BY <1>9, <2>1 DEF UpdateStart, UpdateEnd, Replace
<1>10. ASSUME NEW u \in updater, NEW d \in u.todo, UpdateCall(u, d) \/ UpdateCallFails(u, d) PROVE Typed'
  <2>1. u \in UpdaterType /\ d \in Node /\ u.delegates \in SUBSET Node /\ u.fresh \in BOOLEAN
    BY DEF UpdaterType
  <2>2. updater' \subseteq UpdaterType
    <3>1. \A b \in BOOLEAN : After(u, d, b) \in UpdaterType
      BY <2>1, RecordOfUpdater
    <3> QED
      BY <1>10, <2>1, <3>1 DEF UpdateCall, UpdateCallFails, Replace
  <2>3. missed' \subseteq Node \X Node
    BY <1>10, <2>1 DEF UpdateCall, UpdateCallFails, Told, NotTold
  <2>4. node' \in [Node -> ProcessType]
    <3>1. CASE UNCHANGED node
      BY <3>1
    <3>2. CASE node' = [node EXCEPT ![d] = UpdateGrpc(@, u.delegates)]
      BY <2>1, <3>2, RecordOfProcess
    <3>3. CASE UpdateSoftwareGrpc(d, u.what)
      <4> DEFINE b == node[d].reboot \/ u.what = "disgo"
      <4>1. b \in BOOLEAN
        OBVIOUS
      <4> HIDE DEF b
      <4>2. [node[d] EXCEPT !.reboot = b] \in ProcessType
        BY <2>1, <4>1, FlagsOfProcess
      <4>3. node' = [node EXCEPT ![d] = [node[d] EXCEPT !.reboot = b]]
        BY <3>3 DEF UpdateSoftwareGrpc, b
      <4> QED
        BY <2>1, <4>2, <4>3
    <3> QED
      BY <1>10, <3>1, <3>2, <3>3 DEF UpdateCall, UpdateCallFails
  <2>5. disk' \in [Node -> SUBSET {"disgo", "disgo-update"}]
    BY <1>10, <2>1 DEF UpdateCall, UpdateCallFails, UpdateSoftwareGrpc
  <2> QED
    BY <1>10, <2>2, <2>3, <2>4, <2>5 DEF UpdateCall, UpdateCallFails
<1>11. CASE UNCHANGED vars
  BY <1>11 DEF vars
<1> QED
  BY <1>2, <1>3, <1>4, <1>5, <1>6, <1>7, <1>8, <1>9, <1>10, <1>11 DEF Next, OfNode, OfSeed

\* What a step may do to what node x knows.
Still(x) ==
  /\ node'[x].pc = node[x].pc
  /\ node'[x].cache = node[x].cache /\ node'[x].unavailable = node[x].unavailable

Restarts(x) == node'[x].pc \in {"down", "booting"} /\ node'[x].cache = {} /\ node'[x].unavailable = {}

Learns(x, D) == node'[x].cache = node[x].cache \cup D /\ node'[x].unavailable = node[x].unavailable \ D

Pings(x) ==
  /\ node'[x].pc = "pinging"
  /\ node'[x].cache = node[x].cache /\ node'[x].unavailable = node[x].unavailable

Marks(x, e) ==
  /\ node'[x].pc = node[x].pc /\ node'[x].cache = node[x].cache
  /\ node'[x].unavailable = node[x].unavailable \cup {e} /\ e \in node[x].cache \ {x}

\* Steps of the node's own process.
LEMMA OwnSteps ==
  ASSUME Typed, NEW x \in Node, NEW d \in Node
  PROVE  /\ Boot(d) \/ Crash(d) \/ PingFails(d) \/ Reboot(d) => Restarts(d) /\ (x # d => Still(x))
         /\ Listen(d) => Still(x)
         /\ PingBegin(d) => Pings(d) /\ (x # d => Still(x))
         /\ \A e \in Node : MarkUnavailable(d, e) => Marks(d, e) /\ (x # d => Still(x))
<1> USE DEF Typed, Still
<1>1. node[d] \in ProcessType /\ node[x] \in ProcessType
  OBVIOUS
<1>2. ASSUME Boot(d) \/ Crash(d) \/ PingFails(d) \/ Reboot(d) PROVE Restarts(d) /\ (x # d => Still(x))
  BY <1>1, <1>2 DEF Boot, Crash, PingFails, Reboot, Exit, Down, Process, Restarts
<1>3. ASSUME Listen(d) PROVE Still(x)
  BY <1>1, <1>3 DEF Listen, ProcessType
<1>4. ASSUME PingBegin(d) PROVE Pings(d) /\ (x # d => Still(x))
  BY <1>1, <1>4 DEF PingBegin, Pings, ProcessType
<1>5. ASSUME NEW e \in Node, MarkUnavailable(d, e) PROVE Marks(d, e) /\ (x # d => Still(x))
  BY <1>1, <1>5 DEF MarkUnavailable, Marks, ProcessType
<1> QED
  BY <1>2, <1>3, <1>4, <1>5

\* The answer to a ping.
LEMMA AnswerStep ==
  ASSUME Typed, NEW d \in Node, PingEnd(d)
  PROVE  /\ \A x \in Node : x # d => Still(x)
         /\ Still(d) \/ \E h \in ping[d] : /\ Learns(d, h.delegates) /\ node'[d].pc = "joined"
                                           /\ node[d].pc = "pinging"
<1> USE DEF Typed
<1>1. PICK h \in ping[d] :
        node' = IF node[d].pc = "pinging" THEN [node EXCEPT ![d] = Joined(@, d, h.delegates)] ELSE node
  BY DEF PingEnd
<1>2. h.delegates \in SUBSET Node /\ node[d] \in ProcessType
  BY DEF HandlerType
<1>3. CASE node[d].pc = "pinging"
  <2>1. node'[d] = Joined(node[d], d, h.delegates) /\ \A x \in Node : x # d => node'[x] = node[x]
    BY <1>1, <1>3
  <2>2. Learns(d, h.delegates) /\ node'[d].pc = "joined"
    <3>1. /\ Joined(node[d], d, h.delegates).pc = "joined"
          /\ Joined(node[d], d, h.delegates).cache = node[d].cache \cup h.delegates
          /\ Joined(node[d], d, h.delegates).unavailable = node[d].unavailable \ h.delegates
      BY <1>2 DEF Joined, ProcessType
    <3> QED
      BY <2>1, <3>1 DEF Learns
  <2> QED
    BY <1>3, <2>1, <2>2 DEF Still
<1> QED
  BY <1>1, <1>3 DEF Still

\* A call of the seed.
LEMMA CallStep ==
  ASSUME Typed, NEW u \in updater, NEW d \in u.todo, UpdateCall(u, d)
  PROVE  /\ d \in Node /\ \A x \in Node : x # d => Still(x)
         /\ u.what # "delegates" => Still(d)
         /\ u.what = "delegates" => Learns(d, u.delegates) /\ node'[d].pc = node[d].pc
<1> USE DEF Typed
<1>1. d \in Node /\ u.delegates \in SUBSET Node
  BY DEF UpdaterType
<1>2. node[d] \in ProcessType
  BY <1>1
<1>3. CASE u.what = "delegates"
  <2>1. node'[d] = UpdateGrpc(node[d], u.delegates) /\ \A x \in Node : x # d => node'[x] = node[x]
    BY <1>1, <1>3 DEF UpdateCall
  <2> QED
    BY <1>1, <1>2, <1>3, <2>1, RecordOfProcess DEF Learns, Still
<1>4. CASE u.what # "delegates"
  <2> DEFINE b == node[d].reboot \/ u.what = "disgo"
  <2>1. node' = [node EXCEPT ![d] = [node[d] EXCEPT !.reboot = b]]
    BY <1>4 DEF UpdateCall, UpdateSoftwareGrpc
  <2> HIDE DEF b
  <2>2. node'[d] = [node[d] EXCEPT !.reboot = b] /\ \A x \in Node : x # d => node'[x] = node[x]
    BY <1>1, <2>1
  <2> QED
    BY <1>1, <1>2, <1>4, <2>2 DEF Still, ProcessType
<1> QED
  BY <1>3, <1>4

\* All steps together.
LEMMA NodeStep ==
  ASSUME Typed, [Next]_vars, NEW x \in Node
  PROVE  \/ Still(x) \/ Restarts(x) \/ (Pings(x) /\ PingBegin(x))
         \/ \E h \in ping[x] : Learns(x, h.delegates) /\ node'[x].pc = "joined" /\ node[x].pc = "pinging"
         \/ \E u \in updater : Learns(x, u.delegates) /\ node'[x].pc = node[x].pc
         \/ \E e \in Node : Marks(x, e)
<1>1. CASE \E d \in Node : Boot(d) \/ Crash(d) \/ PingFails(d) \/ Reboot(d) \/ Listen(d) \/ PingBegin(d)
  BY <1>1, OwnSteps
<1>2. CASE \E d, e \in Node : MarkUnavailable(d, e)
  BY <1>2, OwnSteps
<1>3. CASE \E d \in Node : PingEnd(d)
  BY <1>3, AnswerStep
<1>4. CASE \E u \in updater : \E d \in u.todo : UpdateCall(u, d)
  BY <1>4, CallStep
<1>5. CASE UNCHANGED node
  BY <1>5 DEF Still
<1>6. ASSUME NEW u \in updater, UpdateStart(u) \/ UpdateEnd(u) \/ \E d \in u.todo : UpdateCallFails(u, d)
      PROVE  UNCHANGED node
  BY <1>6 DEF UpdateStart, UpdateEnd, UpdateCallFails
<1>7. CASE SeedBoot \/ SeedCrash \/ (\E f \in files : FoundSoftware(f)) \/ UNCHANGED vars
  BY <1>5, <1>7 DEF SeedBoot, SeedCrash, FoundSoftware, vars
<1> QED
  BY <1>1, <1>2, <1>3, <1>4, <1>5, <1>6, <1>7 DEF Next, OfNode, OfSeed

\* The parts of the invariant that speak about one node.
LEMMA StepParts ==
  ASSUME IInv, [Next]_vars
  PROVE  MarksOthers' /\ CallsListed' /\ OnePing' /\ KnowsItself' /\ SeedRemembers'
<1> USE DEF IInv
<1>1. MarksOthers'
  <2> SUFFICES ASSUME NEW x \in Node PROVE node'[x].unavailable \subseteq node'[x].cache \ {x}
    BY DEF MarksOthers
  <2> QED
    BY NodeStep DEF MarksOthers, Still, Restarts, Pings, Learns, Marks
<1>2. CallsListed'
  <2>1. ASSUME NEW u \in updater, NEW d \in u.todo, UpdateCall(u, d) \/ UpdateCallFails(u, d) PROVE CallsListed'
    <3>1. u \in UpdaterType /\ u.fresh \in BOOLEAN
      BY DEF Typed, UpdaterType
    <3>2. \A b \in BOOLEAN : After(u, d, b).todo \subseteq After(u, d, b).delegates
      BY <3>1, RecordOfUpdater DEF CallsListed
    <3> QED
      BY <2>1, <3>1, <3>2 DEF UpdateCall, UpdateCallFails, Replace, CallsListed
  <2>2. ASSUME NEW u \in updater, UpdateStart(u) \/ UpdateEnd(u) PROVE CallsListed'
    <3> DEFINE D == Delegates(seed.cache)
               v == [u EXCEPT !.started = TRUE, !.delegates = D, !.todo = D]
    <3>1. v.todo = D /\ v.delegates = D
      BY DEF Typed, UpdaterType
    <3>2. updater' \subseteq updater \cup {v}
      BY <2>2 DEF UpdateStart, UpdateEnd, Replace
    <3> QED
      BY <3>1, <3>2 DEF CallsListed
  <2>3. ASSUME NEW d \in Node, PingEnd(d) PROVE CallsListed'
    BY <2>3 DEF PingEnd, startUpdate, NewUpdater, CallsListed
  <2>4. ASSUME NEW f \in files, FoundSoftware(f) PROVE CallsListed'
    BY <2>4 DEF FoundSoftware, NewUpdater, CallsListed
  <2>5. CASE SeedCrash
    BY <2>5 DEF SeedCrash, CallsListed
  <2>6. CASE UNCHANGED updater
    BY <2>6 DEF CallsListed
  <2>7. ASSUME NEW d \in Node,
               \/ Boot(d) \/ Crash(d) \/ PingFails(d) \/ Reboot(d) \/ Listen(d) \/ PingBegin(d)
               \/ \E e \in Node : MarkUnavailable(d, e)
        PROVE  UNCHANGED updater
    BY <2>7 DEF Boot, Crash, PingFails, Reboot, Listen, PingBegin, MarkUnavailable
  <2>8. CASE SeedBoot \/ UNCHANGED vars
    BY <2>6, <2>8 DEF SeedBoot, vars
  <2> QED
    BY <2>1, <2>2, <2>3, <2>4, <2>5, <2>6, <2>7, <2>8 DEF Next, OfNode, OfSeed
<1>3. /\ OnePing'
      /\ \A d \in Node : IsDelegate(d) => \A h \in ping'[d] : d \in h.delegates
  <2> DEFINE Pinging == OnePing /\ \A d \in Node : IsDelegate(d) => \A h \in ping[d] : d \in h.delegates
  <2> SUFFICES Pinging'
    OBVIOUS
  <2>1. ASSUME NEW d \in Node, PingBegin(d) PROVE Pinging'
    <3> DEFINE h == [reads |-> db \cup {d}, dirty |-> FALSE, delegates |-> Delegates(db \cup seed.cache \cup {d})]
    <3>1. ping'[d] = {h} /\ \A e \in Node : e # d => ping'[e] = ping[e]
      BY <2>1 DEF PingBegin, Typed
    <3>2. IsDelegate(d) => d \in h.delegates
      BY DEF Delegates
    <3> HIDE DEF h
    <3> QED
      BY <3>1, <3>2 DEF OnePing, KnowsItself
  <2>2. ASSUME NEW d \in Node, PingEnd(d) PROVE Pinging'
    <3>1. PICK h \in ping[d] :
            ping' = [e \in Node |-> IF e = d THEN {}
                       ELSE {[x EXCEPT !.dirty = @ \/ (~ h.dirty /\ d \in x.reads)] : x \in ping[e]}]
      BY <2>2 DEF PingEnd
    <3>2. \A x \in HandlerType : [x EXCEPT !.dirty = @ \/ (~ h.dirty /\ d \in x.reads)].delegates = x.delegates
      BY DEF HandlerType
    <3>3. OnePing'
      BY <3>1 DEF OnePing
    <3>4. ASSUME NEW e \in Node, IsDelegate(e), NEW y \in ping'[e] PROVE e \in y.delegates
      <4>1. PICK x \in ping[e] : y = [x EXCEPT !.dirty = @ \/ (~ h.dirty /\ d \in x.reads)]
        BY <3>1, <3>4
      <4>2. y.delegates = x.delegates
        BY <3>2, <4>1 DEF Typed
      <4> QED
        BY <3>4, <4>2 DEF KnowsItself
    <3> QED
      BY <3>3, <3>4
  <2>3. CASE SeedCrash
    BY <2>3 DEF SeedCrash, OnePing
  <2>4. CASE UNCHANGED ping
    BY <2>4 DEF OnePing, KnowsItself
  <2>5. ASSUME NEW d \in Node,
               \/ Boot(d) \/ Crash(d) \/ PingFails(d) \/ Reboot(d) \/ Listen(d)
               \/ \E e \in Node : MarkUnavailable(d, e)
        PROVE  UNCHANGED ping
    BY <2>5 DEF Boot, Crash, PingFails, Reboot, Listen, MarkUnavailable
  <2>6. ASSUME NEW u \in updater,
               \/ UpdateStart(u) \/ UpdateEnd(u)
               \/ \E d \in u.todo : UpdateCall(u, d) \/ UpdateCallFails(u, d)
        PROVE  UNCHANGED ping
    BY <2>6 DEF UpdateStart, UpdateEnd, UpdateCall, UpdateCallFails
  <2>7. CASE SeedBoot \/ (\E f \in files : FoundSoftware(f)) \/ UNCHANGED vars
    BY <2>4, <2>7 DEF SeedBoot, FoundSoftware, vars
  <2> HIDE DEF Pinging
  <2> QED
    BY <2>1, <2>2, <2>3, <2>4, <2>5, <2>6, <2>7 DEF Next, OfNode, OfSeed
<1>4. KnowsItself'
  <2> SUFFICES ASSUME NEW x \in Node, IsDelegate(x), node'[x].pc = "joined"
               PROVE  x \in node'[x].cache
    BY <1>3 DEF KnowsItself, IsDelegate
  <2> QED
    BY NodeStep DEF KnowsItself, Still, Restarts, Pings, Learns, Marks
<1>5. SeedRemembers'
  <2> SUFFICES ASSUME ~ seedCrashed'
               PROVE  seed'.up /\ \A x \in Node : node'[x].pc \in {"pinging", "joined"} => x \in seed'.cache
    BY DEF SeedRemembers
  <2>1. ~ SeedCrash
    BY DEF SeedCrash
  <2>2. ~ seedCrashed /\ seed.up /\ seed'.up /\ seed.cache \subseteq seed'.cache
    <3>1. ASSUME NEW d \in Node, PingBegin(d) PROVE ~ seedCrashed /\ seed.up /\ seed'.up /\ seed.cache \subseteq seed'.cache
      BY <3>1 DEF PingBegin, Typed
    <3>2. ~ SeedBoot
      <4>1. SeedBoot => ~ seedCrashed /\ ~ seed.up
        BY DEF SeedBoot
      <4> QED
        BY <4>1 DEF SeedRemembers
    <3>3. ASSUME NEW d \in Node,
                 \/ Boot(d) \/ Crash(d) \/ PingFails(d) \/ Reboot(d) \/ Listen(d) \/ PingEnd(d)
                 \/ \E e \in Node : MarkUnavailable(d, e)
          PROVE  UNCHANGED <<seed, seedCrashed>>
      BY <3>3 DEF Boot, Crash, PingFails, Reboot, Listen, PingEnd, MarkUnavailable
    <3>4. ASSUME NEW u \in updater,
                 \/ UpdateStart(u) \/ UpdateEnd(u)
                 \/ \E d \in u.todo : UpdateCall(u, d) \/ UpdateCallFails(u, d)
          PROVE  UNCHANGED <<seed, seedCrashed>>
      BY <3>4 DEF UpdateStart, UpdateEnd, UpdateCall, UpdateCallFails
    <3>5. CASE (\E f \in files : FoundSoftware(f)) \/ UNCHANGED vars
      BY <3>5 DEF FoundSoftware, vars, SeedRemembers
    <3>6. CASE UNCHANGED <<seed, seedCrashed>>
      BY <3>6 DEF SeedRemembers
    <3> QED
      BY <2>1, <3>1, <3>2, <3>3, <3>4, <3>5, <3>6 DEF Next, OfNode, OfSeed
  <2>3. ASSUME NEW x \in Node, node'[x].pc \in {"pinging", "joined"} PROVE x \in seed'.cache
    <3>1. CASE PingBegin(x)
      BY <3>1 DEF PingBegin, Typed
    <3>2. CASE node[x].pc \in {"pinging", "joined"}
      BY <2>2, <3>2 DEF SeedRemembers
    <3> QED
      BY <2>3, <3>1, <3>2, NodeStep DEF Still, Restarts, Marks
  <2> QED
    BY <2>2, <2>3
<1> QED
  BY <1>1, <1>2, <1>3, <1>4, <1>5

\* What the seed owes: a step of the seed or of a node either leaves it, pays
\* it, or notes that the call has failed.
LEMMA StepOwed ==
  ASSUME IInv, [Next]_vars
  PROVE  Owed'
<1> USE DEF IInv
<1> SUFFICES ASSUME ~ seedCrashed', NEW d \in Node, NEW e \in Node, HasJoined(d)', HasJoined(e)'
             PROVE  InTouch(d, e)' \/ <<d, e>> \in missed' \/ Promised(d, e)'
  BY DEF Owed
<1> DEFINE Goal == InTouch(d, e)' \/ <<d, e>> \in missed' \/ Promised(d, e)'
<1>1. IsDelegate(d) /\ IsDelegate(e) /\ node'[d].pc = "joined" /\ node'[e].pc = "joined"
  BY DEF HasJoined, IsDelegate
\* Nothing to do with the two, or with what is owed.
<1>2. ASSUME ~ seedCrashed, Still(d), Still(e), updater \subseteq updater',
             <<d, e>> \in missed => <<d, e>> \in missed'
      PROVE  Goal
  <2>1. HasJoined(d) /\ HasJoined(e)
    BY <1>1, <1>2 DEF HasJoined, Still
  <2>2. InTouch(d, e) \/ <<d, e>> \in missed \/ Promised(d, e)
    BY <1>2, <2>1 DEF Owed
  <2>3. Promised(d, e) => Promised(d, e)'
    BY <1>2 DEF Promised
  <2>4. InTouch(d, e) => InTouch(d, e)'
    BY <1>2 DEF InTouch, Still
  <2> QED
    BY <1>2, <2>2, <2>3, <2>4
<1>3. ASSUME NEW x \in Node, Boot(x) \/ Crash(x) \/ PingFails(x) \/ Reboot(x) PROVE Goal
  <2>1. x # d /\ x # e
    BY <1>1, <1>3, OwnSteps DEF Restarts
  <2>2. ~ seedCrashed /\ updater \subseteq updater' /\ (<<d, e>> \in missed => <<d, e>> \in missed')
    BY <1>3, <2>1 DEF Boot, Crash, PingFails, Reboot, Exit
  <2> QED
    BY <1>2, <1>3, <2>1, <2>2, OwnSteps
<1>4. ASSUME NEW x \in Node, Listen(x) \/ PingBegin(x) PROVE Goal
  <2>1. PingBegin(x) => x # d /\ x # e
    BY <1>1, OwnSteps DEF Pings
  <2>2. ~ seedCrashed /\ updater \subseteq updater' /\ missed' = missed
    BY <1>4 DEF Listen, PingBegin
  <2> QED
    BY <1>2, <1>4, <2>1, <2>2, OwnSteps
<1>5. ASSUME NEW x \in Node, PingEnd(x) PROVE Goal
  \* The answer comes with a goroutine that will read the cache.
  <2>1. NewUpdater("delegates") \in updater'
    BY <1>5 DEF PingEnd, startUpdate
  <2> QED
    BY <2>1 DEF NewUpdater, Promised
<1>6. ASSUME NEW x \in Node, NEW y \in Node, MarkUnavailable(x, y) PROVE Goal
  <2>1. ~ seedCrashed /\ updater' = updater /\ missed \subseteq missed'
    BY <1>6 DEF MarkUnavailable
  <2>2. node[d].pc = "joined" /\ node[e].pc = "joined"
    BY <1>1, <1>6, OwnSteps DEF Still, Marks
  <2>3. CASE x = d /\ y = e
    BY <1>6, <2>2, <2>3 DEF MarkUnavailable
  <2>4. CASE ~ (x = d /\ y = e)
    <3>1. InTouch(d, e) => InTouch(d, e)'
      BY <1>6, <2>4, OwnSteps DEF InTouch, Still, Marks
    <3>2. Promised(d, e) => Promised(d, e)'
      BY <2>1 DEF Promised
    <3>3. InTouch(d, e) \/ <<d, e>> \in missed \/ Promised(d, e)
      BY <1>1, <2>1, <2>2 DEF Owed, HasJoined
    <3> QED
      BY <2>1, <3>1, <3>2, <3>3
  <2> QED
    BY <2>3, <2>4
<1>7. ~ SeedBoot /\ ~ SeedCrash
  <2>1. SeedBoot => ~ seedCrashed /\ ~ seed.up
    BY DEF SeedBoot
  <2> QED
    BY <2>1 DEF SeedRemembers, SeedCrash
<1>8. CASE (\E f \in files : FoundSoftware(f)) \/ UNCHANGED vars
  BY <1>2, <1>8 DEF FoundSoftware, vars, Still
<1>9. ASSUME NEW u \in updater, UpdateStart(u) \/ UpdateEnd(u) PROVE Goal
  <2>1. ~ seedCrashed /\ UNCHANGED <<node, seed, missed>>
    BY <1>9 DEF UpdateStart, UpdateEnd
  <2>2. InTouch(d, e) => InTouch(d, e)'
    BY <2>1 DEF InTouch
  <2>3. ASSUME Promised(d, e) PROVE Promised(d, e)'
    <3>1. PICK v \in updater : v.what = "delegates" /\ (v.started => d \in v.todo /\ e \in v.delegates)
      BY <2>3 DEF Promised
    <3>2. CASE v # u
      BY <1>9, <3>1, <3>2 DEF UpdateStart, UpdateEnd, Replace, Promised
    <3>3. CASE v = u
      <4> DEFINE D == Delegates(seed.cache)
                 w == [u EXCEPT !.started = TRUE, !.delegates = D, !.todo = D]
      <4>1. UpdateStart(u)
        BY <1>9, <3>1, <3>3 DEF UpdateEnd
      <4>2. w \in updater'
        BY <4>1 DEF UpdateStart, Replace
      <4>3. d \in D /\ e \in D
        BY <1>1, <2>1 DEF SeedRemembers, Delegates
      <4>4. w.what = "delegates" /\ w.todo = D /\ w.delegates = D
        BY <3>1, <3>3 DEF Typed, UpdaterType
      <4> HIDE DEF w
      <4> QED
        BY <4>2, <4>3, <4>4 DEF Promised
    <3> QED
      BY <3>2, <3>3
  <2>4. InTouch(d, e) \/ <<d, e>> \in missed \/ Promised(d, e)
    BY <1>1, <2>1 DEF Owed, HasJoined
  <2> QED
    BY <2>1, <2>2, <2>3, <2>4
<1>10. ASSUME NEW u \in updater, NEW x \in u.todo, UpdateCall(u, x) \/ UpdateCallFails(u, x) PROVE Goal
  <2>1. ~ seedCrashed /\ x \in Node /\ u \in UpdaterType /\ u.fresh \in BOOLEAN
    BY <1>10 DEF UpdateCall, UpdateCallFails, Typed, UpdaterType
  <2>2. node[d].pc = "joined" /\ node[e].pc = "joined"
    BY <1>1, <1>10, CallStep DEF UpdateCallFails, Still
  <2>3. InTouch(d, e) \/ <<d, e>> \in missed \/ Promised(d, e)
    BY <1>1, <2>1, <2>2 DEF Owed, HasJoined
  \* The call about e is the one that is made or fails.
  <2>4. CASE x = d /\ u.what = "delegates" /\ e \in u.delegates
    <3>1. CASE UpdateCall(u, x)
      BY <1>10, <2>4, <3>1, CallStep DEF Learns, InTouch
    <3>2. CASE UpdateCallFails(u, x) /\ e # d
      BY <2>2, <2>4, <3>2 DEF UpdateCallFails, NotTold
    <3>3. CASE UpdateCallFails(u, x) /\ e = d
      BY <1>1, <2>2, <3>3 DEF UpdateCallFails, InTouch, KnowsItself, MarksOthers
    <3> QED
      BY <1>10, <3>1, <3>2, <3>3
  \* It is another one.
  <2>5. CASE ~ (x = d /\ u.what = "delegates" /\ e \in u.delegates)
    <3>1. InTouch(d, e) => InTouch(d, e)'
      BY <1>10, CallStep DEF UpdateCallFails, InTouch, Still, Learns
    <3>2. <<d, e>> \in missed => <<d, e>> \in missed'
      BY <1>10, <2>5 DEF UpdateCall, UpdateCallFails, Told, NotTold
    <3>3. ASSUME Promised(d, e) PROVE Promised(d, e)'
      <4>1. PICK v \in updater : v.what = "delegates" /\ (v.started => d \in v.todo /\ e \in v.delegates)
        BY <3>3 DEF Promised
      <4>2. CASE v # u
        BY <1>10, <4>1, <4>2 DEF UpdateCall, UpdateCallFails, Replace, Promised
      <4>3. CASE v = u
        <5>1. PICK b \in BOOLEAN : After(u, x, b) \in updater'
          BY <1>10, <2>1 DEF UpdateCall, UpdateCallFails, Replace
        <5>2. u.started /\ d \in u.todo /\ e \in u.delegates /\ x # d
          BY <1>10, <2>5, <4>1, <4>3 DEF UpdateCall, UpdateCallFails
        <5>3. /\ After(u, x, b).what = "delegates" /\ After(u, x, b).todo = u.todo \ {x}
              /\ After(u, x, b).delegates = u.delegates
          BY <2>1, <4>1, <4>3, RecordOfUpdater
        <5> QED
          BY <5>1, <5>2, <5>3 DEF Promised
      <4> QED
        BY <4>2, <4>3
    <3> QED
      BY <2>3, <3>1, <3>2, <3>3
  <2> QED
    BY <2>4, <2>5
<1>11. CASE OfSeed
  BY <1>7, <1>8, <1>9, <1>10, <1>11 DEF OfSeed
<1>12. ASSUME NEW x \in Node, Boot(x) \/ Crash(x) \/ PingFails(x) \/ Reboot(x) \/ OfNode(x) PROVE Goal
  BY <1>3, <1>4, <1>5, <1>12 DEF OfNode
<1>13. Goal
  BY <1>6, <1>8, <1>11, <1>12 DEF Next
<1> QED
  BY <1>13 DEF Goal

\* The invariant holds in every reachable state.
THEOREM DisgoverInvariant == Spec => []IInv
<1>1. IInv /\ [Next]_vars => IInv'
  BY StepTyped, StepParts, StepOwed DEF IInv
<1> QED
  BY InitIInv, <1>1, PTL DEF Spec

\* Once the seed has nothing left to tell, any two delegates that have joined
\* have each other in the cache, available, unless the call about it failed or
\* the seed has lost its cache: for any nodes, orders of pings, answers and
\* updates, crashes and reboots.
THEOREM DisgoverInTouch == Spec => []DelegatesInTouch
<1>1. IInv => TypeOK
  <2> SUFFICES ASSUME IInv PROVE TypeOK
    OBVIOUS
  <2>1. ASSUME NEW d \in Node PROVE Cardinality(ping[d]) <= 1
    <3>1. CASE ping[d] = {}
      BY <3>1, FS_EmptySet
    <3>2. CASE \E h : ping[d] = {h}
      BY <3>2, FS_Singleton
    <3> QED
      BY <3>1, <3>2 DEF IInv, OnePing
  <2>2. \A d \in Node : /\ node[d].pc \in {"down", "booting", "pinging", "joined"}
                        /\ node[d].cache \subseteq Node /\ node[d].unavailable \subseteq node[d].cache
    BY DEF IInv, Typed, ProcessType, MarksOthers
  <2>3. \A u \in updater : u.todo \subseteq u.delegates /\ u.delegates \subseteq Node
    BY DEF IInv, Typed, UpdaterType, CallsListed
  <2>4. seed.cache \subseteq Node /\ db \subseteq Node /\ files \subseteq Software
    BY DEF IInv, Typed
  <2>5. \A d \in Node : disk[d] \subseteq {"disgo", "disgo-update"}
    BY DEF IInv, Typed
  <2> QED
    BY <2>1, <2>2, <2>3, <2>4, <2>5 DEF TypeOK
<1>2. IInv => DelegatesKnowEachOther /\ ComeBackIsAvailable
  <2> SUFFICES ASSUME IInv, Quiet, ~ seedCrashed, NEW d \in Node, NEW e \in Node, HasJoined(d), HasJoined(e)
               PROVE  InTouch(d, e) \/ <<d, e>> \in missed
    BY DEF DelegatesKnowEachOther, ComeBackIsAvailable, InTouch, IsAvailable
  <2>1. ~ Promised(d, e)
    BY DEF Quiet, Promised
  <2> QED
    BY <2>1 DEF IInv, Owed
<1>3. IInv => DelegatesInTouch
  BY <1>1, <1>2 DEF DelegatesInTouch
<1> QED
  BY DisgoverInvariant, <1>3, PTL

-----------------------------------------------------------------------------
(* Receipts                                                                *)

PC == {"new", "first", "merge", "cacheGossip", "cacheTransaction", "calls", "gossipChan", "push",
       "queued", "lock", "execute", "commit", "done"}

\* The statuses this delegate writes; "NotFound" is only an answer.
Status == {None, "Pending", "GossipingTimedOut", "CouldNotReachConsensus", "ReceiptNotFound",
           "TransactionTimeOut", "InternalError", "InsufficientTokens", "Ok"}

ReceiptsTypeOK ==
  /\ pc \in [Message -> PC]
  /\ rumors \in [Message -> SUBSET Delegate]
  /\ target \in [Message -> Message]
  /\ then \in [Message -> {"gossipChan", "done"}]
  /\ status \in [Receipt -> Status]
  /\ held \in [Message -> Receipt \cup {NoReceipt}]
  /\ cachedGossip \in Message \cup {None}
  /\ cachedReceipt \in Receipt \cup {NoReceipt}
  /\ cachedTransaction \in BOOLEAN /\ dbTransaction \in BOOLEAN
  /\ dbReceipt \in Status
  /\ rumored \in BOOLEAN /\ restarts \in Nat /\ forgot \in BOOLEAN /\ touched \in BOOLEAN

\* Where nobody has published anything about the transaction.
Early == {"new", "first", "merge", "done"}

\* Nothing forgotten and no receipt cached: no message is past its first
\* look-ups, and no rumor of ours is anywhere.
NothingWithoutReceipt ==
  ~ forgot /\ cachedReceipt = NoReceipt =>
    /\ ~ rumored /\ cachedGossip = None
    /\ \A m \in Message :
         /\ pc[m] \in Early /\ target[m] = m
         /\ pc[m] = "merge" => Self \notin rumors[m]

Executing(m) == pc[m] \in {"execute", "commit"}

\* services.Lock(hash).
OneExecutes == \A m, q \in Message : Executing(m) /\ Executing(q) => m = q

\* Inside the lock the transaction is not in Badger.
ExecutesOnce == \A m \in Message : Executing(m) => ~ dbTransaction

\* A worker holds a receipt.
WorkHoldsReceipt == \A m \in Message : pc[m] \in {"lock", "execute", "commit"} => held[m] \in Receipt

\* Until somebody writes it, the staged receipt is the cached one and says Ok.
StagedIsCached ==
  \A m \in Message : pc[m] = "commit" /\ ~ touched =>
    cachedReceipt = held[m] /\ status[held[m]] = "Ok"

\* The same after the commit, as long as a receipt is cached.
CommittedIsCached == dbTransaction /\ ~ touched /\ cachedReceipt # NoReceipt => status[cachedReceipt] = "Ok"

\* The receipt of an executed transaction is in Badger, for good.
ReceiptWithTransaction == dbTransaction => dbReceipt = "Ok"

RInv ==
  /\ ReceiptsTypeOK
  /\ OneExecutes /\ ExecutesOnce /\ WorkHoldsReceipt
  /\ StagedIsCached /\ CommittedIsCached /\ ReceiptWithTransaction

NInv == NothingWithoutReceipt /\ DroppedOnlyIfForgotten

\* The object the cache has none of is no receipt.
LEMMA NoReceiptIsNone == NoReceipt \notin Receipt
  BY DEF Receipt, NoReceipt, None

\* Every step keeps every variable in its type.
LEMMA StepTypeOK == ReceiptsTypeOK /\ [ReceiptsNext]_receiptVars => ReceiptsTypeOK'
<1> SUFFICES ASSUME ReceiptsTypeOK, [ReceiptsNext]_receiptVars
             PROVE  ReceiptsTypeOK'
  OBVIOUS
<1> USE DEF ReceiptsTypeOK, PC, Status, Goto, database, caches, histories, handling, receipts
<1>1. ASSUME NEW m \in Message, Submit(m) \/ Look(m) PROVE ReceiptsTypeOK'
  <2>1. Self \in Delegate
    BY DEF Delegate
  <2> QED
    BY <1>1, <2>1 DEF Submit, Look
<1>2. ASSUME NEW m \in Message, Merge(m) PROVE ReceiptsTypeOK'
  <2>1. Self \in Delegate
    BY DEF Delegate
  <2>2. rumors' \in [Message -> SUBSET Delegate]
    BY <1>2, <2>1 DEF Merge
  <2>3. then' \in [Message -> {"gossipChan", "done"}]
    BY <1>2 DEF Merge
  <2>4. pc' \in [Message -> PC]
    BY <1>2, <2>3 DEF Merge
  <2> QED
    BY <1>2, <2>2, <2>3, <2>4 DEF Merge
<1>3. ASSUME NEW m \in Message, CacheReceipt(m) PROVE ReceiptsTypeOK'
  <2>1. <<m, "first">> \in Receipt
    BY DEF Receipt
  <2>2. status' \in [Receipt -> Status] /\ cachedReceipt' \in Receipt
    BY <1>3, <2>1 DEF CacheReceipt
  <2>3. pc' \in [Message -> PC]
    BY <1>3 DEF CacheReceipt
  <2> QED
    BY <1>3, <2>2, <2>3 DEF CacheReceipt
<1>4. ASSUME NEW m \in Message, CacheGossip(m) \/ CacheTransaction(m) \/ Called(m) PROVE ReceiptsTypeOK'
  <2>1. pc' \in [Message -> PC]
    BY <1>4 DEF CacheGossip, CacheTransaction, Called
  <2>2. CASE CacheGossip(m)
    BY <2>1, <2>2 DEF CacheGossip
  <2>3. CASE CacheTransaction(m)
    BY <2>1, <2>3 DEF CacheTransaction
  <2>4. CASE Called(m)
    BY <2>1, <2>4 DEF Called
  <2> QED
    BY <1>4, <2>2, <2>3, <2>4
<1>5. ASSUME NEW m \in Message, TimedOut(m) \/ Accept(m) \/ TellOther(m) \/ NobodyLeft(m)
      PROVE  ReceiptsTypeOK'
  <2>1. pc' \in [Message -> PC]
    BY <1>5 DEF TimedOut, Accept, TellOther, NobodyLeft
  <2>2. status' \in [Receipt -> Status] /\ touched' \in BOOLEAN
    BY <1>5 DEF TimedOut, Accept, TellOther, NobodyLeft, updateReceiptStatus
  <2> QED
    BY <1>5, <2>1, <2>2 DEF TimedOut, Accept, TellOther, NobodyLeft
<1>6. ASSUME NEW m \in Message, doWork(m) PROVE ReceiptsTypeOK'
  <2>1. <<m, "work">> \in Receipt
    BY DEF Receipt
  <2>2. pc' \in [Message -> PC]
    BY <1>6 DEF doWork, Replaced
  <2>3. status' \in [Receipt -> Status] /\ touched' \in BOOLEAN /\ cachedReceipt' \in Receipt \cup {NoReceipt}
    BY <1>6, <2>1 DEF doWork, Replaced
  <2>4. held' \in [Message -> Receipt \cup {NoReceipt}]
    BY <1>6 DEF doWork, Replaced
  <2> QED
    BY <1>6, <2>2, <2>3, <2>4 DEF doWork
<1>7. ASSUME NEW m \in Message, Begin(m) \/ Fail(m) \/ Reject(m) \/ Stage(m) \/ Commit(m)
      PROVE  ReceiptsTypeOK'
  <2>1. pc' \in [Message -> PC]
    BY <1>7 DEF Begin, Fail, Reject, Stage, Commit
  <2>2. status' \in [Receipt -> Status]
    BY <1>7 DEF Begin, Fail, Reject, Stage, Commit
  <2>3. dbReceipt' \in Status /\ dbTransaction' \in BOOLEAN /\ touched' \in BOOLEAN
    BY <1>7 DEF Begin, Fail, Reject, Stage, Commit
  <2> QED
    BY <1>7, <2>1, <2>2, <2>3 DEF Begin, Fail, Reject, Stage, Commit
<1>8. CASE Restart \/ GossipExpires \/ TransactionExpires \/ ReceiptExpires \/ DbReceiptExpires
  <2>1. pc' \in [Message -> PC] /\ restarts' \in Nat
    BY <1>8 DEF Restart, GossipExpires, TransactionExpires, ReceiptExpires, DbReceiptExpires
  <2>2. dbReceipt' \in Status /\ cachedReceipt' \in Receipt \cup {NoReceipt}
    BY <1>8 DEF Restart, GossipExpires, TransactionExpires, ReceiptExpires, DbReceiptExpires
  <2> QED
    BY <1>8, <2>1, <2>2 DEF Restart, GossipExpires, TransactionExpires, ReceiptExpires, DbReceiptExpires
<1>9. CASE UNCHANGED receiptVars
  BY <1>9 DEF receiptVars
<1> QED
  BY <1>1, <1>2, <1>3, <1>4, <1>5, <1>6, <1>7, <1>8, <1>9 DEF ReceiptsNext

\* The initial states satisfy both invariants.
LEMMA InitInv == ReceiptsInit => RInv /\ NInv
<1> SUFFICES ASSUME ReceiptsInit PROVE RInv /\ NInv
  OBVIOUS
<1> USE DEF ReceiptsInit
<1>1. ReceiptsTypeOK
  BY DEF ReceiptsTypeOK, PC, Status
<1>2. OneExecutes /\ ExecutesOnce /\ WorkHoldsReceipt /\ StagedIsCached
  BY DEF OneExecutes, ExecutesOnce, WorkHoldsReceipt, StagedIsCached, Executing
<1>3. CommittedIsCached /\ ReceiptWithTransaction
  BY DEF CommittedIsCached, ReceiptWithTransaction
<1>4. NothingWithoutReceipt /\ DroppedOnlyIfForgotten
  BY DEF NothingWithoutReceipt, Early, DroppedOnlyIfForgotten, None
<1> QED
  BY <1>1, <1>2, <1>3, <1>4 DEF RInv, NInv

\* The steps that do not take a transaction further in its execution: nobody
\* moves on to it, and whoever writes a receipt says so.
PlainStep ==
  /\ UNCHANGED <<held, dbTransaction>>
  /\ dbTransaction => dbReceipt' = dbReceipt
  /\ \A q \in Message : pc'[q] \in {"lock", "execute", "commit"} => pc'[q] = pc[q]
  /\ \/ touched'
     \/ UNCHANGED <<status, touched, cachedReceipt>>
     \/ UNCHANGED <<status, touched>> /\ cachedReceipt' = NoReceipt /\ \A q \in Message : pc'[q] # "commit"

\* They preserve the invariant.
LEMMA PlainIInv ==
  ASSUME RInv, ReceiptsTypeOK', PlainStep
  PROVE  RInv'
<1> USE DEF RInv, PlainStep
<1>1. \A q \in Message : Executing(q)' => Executing(q)
  BY DEF Executing
<1>2. OneExecutes' /\ ExecutesOnce'
  BY <1>1 DEF OneExecutes, ExecutesOnce
<1>3. WorkHoldsReceipt'
  BY DEF WorkHoldsReceipt
<1>4. StagedIsCached'
  BY DEF StagedIsCached
<1>5. CommittedIsCached' /\ ReceiptWithTransaction'
  BY DEF CommittedIsCached, ReceiptWithTransaction
<1> QED
  BY <1>2, <1>3, <1>4, <1>5

\* Which steps they are.
LEMMA PlainSteps ==
  ASSUME RInv, NEW m \in Message,
         \/ Submit(m) \/ Look(m) \/ Merge(m) \/ CacheReceipt(m) \/ CacheGossip(m) \/ CacheTransaction(m)
         \/ Called(m) \/ TimedOut(m) \/ Accept(m) \/ TellOther(m) \/ NobodyLeft(m)
         \/ Fail(m) \/ Reject(m)
  PROVE  PlainStep
<1> USE DEF RInv, ReceiptsTypeOK, PlainStep, Goto, database, receipts, caches
<1>1. CASE Submit(m) \/ Look(m)
  BY <1>1 DEF Submit, Look
<1>2. CASE Merge(m)
  <2>1. then'[m] \in {"gossipChan", "done"}
    BY <1>2 DEF Merge
  <2> QED
    BY <1>2, <2>1 DEF Merge
<1>3. CASE CacheReceipt(m) \/ CacheGossip(m) \/ CacheTransaction(m)
  BY <1>3 DEF CacheReceipt, CacheGossip, CacheTransaction
<1>4. CASE Called(m)
  <2>1. then[m] \in {"gossipChan", "done"}
    OBVIOUS
  <2> QED
    BY <1>4, <2>1 DEF Called
<1>5. CASE TimedOut(m) \/ Accept(m) \/ TellOther(m) \/ NobodyLeft(m)
  BY <1>5 DEF TimedOut, Accept, TellOther, NobodyLeft, updateReceiptStatus
<1>6. CASE Fail(m) \/ Reject(m)
  \* A rejection writes to Badger, where the transaction is not.
  <2>1. ~ dbTransaction
    BY <1>6 DEF Fail, Reject, ExecutesOnce, Executing
  <2> QED
    BY <1>6, <2>1 DEF Fail, Reject
<1> QED
  BY <1>1, <1>2, <1>3, <1>4, <1>5, <1>6

\* Every step preserves the invariant.
LEMMA StepIInv == RInv /\ [ReceiptsNext]_receiptVars => RInv'
<1> SUFFICES ASSUME RInv, [ReceiptsNext]_receiptVars
             PROVE  RInv'
  OBVIOUS
<1>1. ReceiptsTypeOK /\ ReceiptsTypeOK'
  BY StepTypeOK DEF RInv
<1>2. ASSUME NEW m \in Message,
         \/ Submit(m) \/ Look(m) \/ Merge(m) \/ CacheReceipt(m) \/ CacheGossip(m) \/ CacheTransaction(m)
         \/ Called(m) \/ TimedOut(m) \/ Accept(m) \/ TellOther(m) \/ NobodyLeft(m)
         \/ Fail(m) \/ Reject(m)
      PROVE  RInv'
  BY <1>1, <1>2, PlainSteps, PlainIInv
<1>3. ASSUME NEW m \in Message, doWork(m) PROVE RInv'
  <2>1. CASE PlainStep
    BY <1>1, <2>1, PlainIInv
  <2>2. CASE /\ cachedReceipt # NoReceipt /\ held' = [held EXCEPT ![m] = cachedReceipt]
             /\ Goto(m, "lock") \/ Goto(m, "done")
             /\ UNCHANGED <<status, touched, cachedReceipt>>
    <3>1. UNCHANGED database /\ pc[m] = "queued"
      BY <1>3 DEF doWork
    <3>2. pc'[m] \in {"lock", "done"} /\ \A q \in Message : q # m => pc'[q] = pc[q]
      BY <1>1, <2>2 DEF Goto, ReceiptsTypeOK
    <3>3. \A q \in Message : held'[q] = IF q = m THEN cachedReceipt ELSE held[q]
      BY <1>1, <2>2 DEF ReceiptsTypeOK
    <3>4. OneExecutes' /\ ExecutesOnce'
      BY <3>1, <3>2 DEF OneExecutes, ExecutesOnce, Executing, RInv, database
    <3>5. WorkHoldsReceipt'
      BY <1>1, <2>2, <3>2, <3>3 DEF WorkHoldsReceipt, ReceiptsTypeOK, RInv
    <3>6. StagedIsCached'
      BY <2>2, <3>2, <3>3 DEF StagedIsCached, RInv
    <3>7. CommittedIsCached' /\ ReceiptWithTransaction'
      BY <2>2, <3>1 DEF CommittedIsCached, ReceiptWithTransaction, RInv, database
    <3> QED
      BY <1>1, <3>4, <3>5, <3>6, <3>7 DEF RInv
  <2>3. CASE Replaced(m, "ReceiptNotFound") \/ Replaced(m, "TransactionTimeOut")
    BY <1>1, <1>3, <2>1, <2>3 DEF doWork, Replaced, PlainStep, database, Goto, ReceiptsTypeOK
  <2> QED
    BY <1>3, <2>2, <2>3 DEF doWork
<1>4. ASSUME NEW m \in Message, Begin(m) PROVE RInv'
  <2>1. CASE dbTransaction
    BY <1>1, <1>4, <2>1, PlainIInv DEF Begin, PlainStep, database, caches, receipts, Goto, ReceiptsTypeOK
  <2>2. CASE ~ dbTransaction
    <3>1. /\ UNCHANGED <<held, status, touched, cachedReceipt, dbTransaction, dbReceipt>> /\ pc[m] = "lock"
          /\ \A q \in Message : ~ Executing(q) /\ pc'[q] = IF q = m THEN "execute" ELSE pc[q]
      BY <1>1, <1>4, <2>2 DEF Begin, database, caches, receipts, Goto, ReceiptsTypeOK, Executing
    <3>2. OneExecutes' /\ ExecutesOnce'
      BY <2>2, <3>1 DEF OneExecutes, ExecutesOnce, Executing
    <3>3. WorkHoldsReceipt' /\ StagedIsCached'
      BY <3>1 DEF WorkHoldsReceipt, StagedIsCached, RInv
    <3>4. CommittedIsCached' /\ ReceiptWithTransaction'
      BY <3>1 DEF CommittedIsCached, ReceiptWithTransaction, RInv
    <3> QED
      BY <1>1, <3>2, <3>3, <3>4 DEF RInv
  <2> QED
    BY <2>1, <2>2
<1>5. ASSUME NEW m \in Message, Stage(m) PROVE RInv'
  <2>1. /\ UNCHANGED <<held, dbTransaction, dbReceipt>> /\ pc[m] = "execute"
        /\ \A q \in Message : pc'[q] = IF q = m THEN "commit" ELSE pc[q]
    BY <1>1, <1>5 DEF Stage, database, Goto, ReceiptsTypeOK
  <2>2. Executing(m) /\ \A q \in Message : Executing(q)' => Executing(q)
    BY <2>1 DEF Executing
  <2>3. OneExecutes' /\ ExecutesOnce'
    BY <2>1, <2>2 DEF OneExecutes, ExecutesOnce, RInv
  <2>4. WorkHoldsReceipt'
    BY <2>1 DEF WorkHoldsReceipt, RInv
  <2>5. StagedIsCached'
    <3>1. held[m] \in Receipt
      BY <2>1 DEF WorkHoldsReceipt, RInv
    <3>2. cachedReceipt' = held'[m] /\ status'[held'[m]] = "Ok"
      BY <1>1, <1>5, <2>1, <3>1 DEF Stage, ReceiptsTypeOK
    \* Nobody else is about to commit.
    <3>3. \A q \in Message : pc'[q] = "commit" => q = m
      BY <2>1, <2>2 DEF OneExecutes, Executing, RInv
    <3> QED
      BY <3>2, <3>3 DEF StagedIsCached
  <2>6. CommittedIsCached' /\ ReceiptWithTransaction'
    BY <2>1, <2>2 DEF CommittedIsCached, ReceiptWithTransaction, ExecutesOnce, RInv
  <2> QED
    BY <1>1, <2>3, <2>4, <2>5, <2>6 DEF RInv
<1>6. ASSUME NEW m \in Message, Commit(m) PROVE RInv'
  <2>1. /\ UNCHANGED <<held, status, touched, cachedReceipt>> /\ pc[m] = "commit"
        /\ \A q \in Message : pc'[q] = IF q = m THEN "done" ELSE pc[q]
    BY <1>1, <1>6 DEF Commit, caches, receipts, Goto, ReceiptsTypeOK
  <2>2. \A q \in Message : ~ Executing(q)'
    BY <2>1 DEF OneExecutes, Executing, RInv
  <2>3. OneExecutes' /\ ExecutesOnce'
    BY <2>2 DEF OneExecutes, ExecutesOnce
  <2>4. WorkHoldsReceipt' /\ StagedIsCached'
    BY <2>1 DEF WorkHoldsReceipt, StagedIsCached, RInv
  <2>5. CommittedIsCached'
    BY <1>6, <2>1 DEF CommittedIsCached, StagedIsCached, RInv
  <2>6. ReceiptWithTransaction'
    BY <1>6 DEF Commit, database, ReceiptWithTransaction, RInv
  <2> QED
    BY <1>1, <2>3, <2>4, <2>5, <2>6 DEF RInv
<1>7. CASE Restart \/ GossipExpires \/ TransactionExpires \/ ReceiptExpires \/ UNCHANGED receiptVars
  <2>1. PlainStep
    BY <1>1, <1>7 DEF PlainStep, Restart, GossipExpires, TransactionExpires, ReceiptExpires, NobodyWorks,
       receiptVars, database, caches, receipts, ReceiptsTypeOK
  <2> QED
    BY <1>1, <2>1, PlainIInv
<1>8. CASE DbReceiptExpires
  \* Only a rejection expires.
  BY <1>1, <1>8, PlainIInv DEF PlainStep, DbReceiptExpires, receipts, caches, ReceiptWithTransaction, RInv
<1> QED
  BY <1>2, <1>3, <1>4, <1>5, <1>6, <1>7, <1>8 DEF ReceiptsNext

\* A delegate that has forgotten nothing does not lose a cached receipt.
LEMMA ReceiptStays ==
  ASSUME RInv, [ReceiptsNext]_receiptVars, ~ forgot', cachedReceipt' = NoReceipt
  PROVE  ~ forgot /\ cachedReceipt = NoReceipt
<1> USE DEF RInv, ReceiptsTypeOK, database, caches, histories
<1>1. ASSUME NEW m \in Message, Submit(m) \/ Look(m) \/ Merge(m) \/ CacheGossip(m) \/ CacheTransaction(m) \/ Called(m)
      PROVE  UNCHANGED <<forgot, cachedReceipt>>
  BY <1>1 DEF Submit, Look, Merge, CacheGossip, CacheTransaction, Called
<1>2. ASSUME NEW m \in Message,
             \/ TimedOut(m) \/ Accept(m) \/ TellOther(m) \/ NobodyLeft(m) \/ Begin(m) \/ Reject(m) \/ Commit(m)
      PROVE  UNCHANGED <<forgot, cachedReceipt>>
  BY <1>2 DEF TimedOut, Accept, TellOther, NobodyLeft, Begin, Reject, Commit
<1>3. ASSUME NEW m \in Message, CacheReceipt(m) \/ Fail(m) \/ Stage(m)
      PROVE  FALSE
  <2>1. cachedReceipt' \in Receipt
    BY <1>3 DEF CacheReceipt, Fail, Stage, WorkHoldsReceipt, Receipt
  <2> QED
    BY <2>1, NoReceiptIsNone
<1>4. ASSUME NEW m \in Message, doWork(m)
      PROVE  UNCHANGED <<forgot, cachedReceipt>>
  <2>1. <<m, "work">> # NoReceipt
    BY DEF NoReceipt, None
  <2> QED
    BY <1>4, <2>1 DEF doWork, Replaced
<1>5. CASE Restart \/ GossipExpires \/ TransactionExpires \/ ReceiptExpires \/ DbReceiptExpires
  BY <1>5 DEF Restart, GossipExpires, TransactionExpires, ReceiptExpires, DbReceiptExpires
<1>6. CASE UNCHANGED receiptVars
  BY <1>6 DEF receiptVars
<1> QED
  BY <1>1, <1>2, <1>3, <1>4, <1>5, <1>6 DEF ReceiptsNext

\* As long as there is none, only submissions, look-ups and first merges happen,
\* and a merge finds no rumor of ours.
LEMMA StepNothing == RInv /\ NothingWithoutReceipt /\ [ReceiptsNext]_receiptVars => NothingWithoutReceipt'
<1> SUFFICES ASSUME RInv, NothingWithoutReceipt, [ReceiptsNext]_receiptVars, ~ forgot', cachedReceipt' = NoReceipt
             PROVE  /\ ~ rumored' /\ cachedGossip' = None
                    /\ \A q \in Message : /\ pc'[q] \in Early /\ target'[q] = q
                                          /\ pc'[q] = "merge" => Self \notin rumors'[q]
  BY DEF NothingWithoutReceipt
<1>1. /\ ~ rumored /\ cachedGossip = None
      /\ \A q \in Message : /\ pc[q] \in Early /\ target[q] = q
                            /\ pc[q] = "merge" => Self \notin rumors[q]
  BY ReceiptStays DEF NothingWithoutReceipt
<1>2. ReceiptsTypeOK
  BY DEF RInv
<1> USE DEF ReceiptsTypeOK, Early, Goto, database, caches, histories, handling, receipts
<1> DEFINE Goal == /\ ~ rumored' /\ cachedGossip' = None
                   /\ \A q \in Message : /\ pc'[q] \in Early /\ target'[q] = q
                                         /\ pc'[q] = "merge" => Self \notin rumors'[q]
<1>3. ASSUME NEW m \in Message, Submit(m) PROVE Goal
  BY <1>1, <1>2, <1>3 DEF Submit
<1>4. ASSUME NEW m \in Message, Look(m) PROVE Goal
  BY <1>1, <1>2, <1>4 DEF Look
<1>5. ASSUME NEW m \in Message, Merge(m) PROVE Goal
  <2>1. target[m] = m /\ Self \notin rumors[m]
    BY <1>1, <1>5 DEF Merge
  <2>2. /\ pc' = [pc EXCEPT ![m] = "first"] /\ UNCHANGED <<rumored, cachedGossip, target>>
        /\ rumors' = [rumors EXCEPT ![m] = rumors[m] \cup rumors[m] \cup {Self}]
    BY <1>5, <2>1 DEF Merge
  <2> QED
    BY <1>1, <1>2, <2>2
<1>6. ASSUME NEW m \in Message, ~ (Submit(m) \/ Look(m) \/ Merge(m)),
             \/ CacheReceipt(m) \/ CacheGossip(m) \/ CacheTransaction(m) \/ Called(m)
             \/ TimedOut(m) \/ Accept(m) \/ TellOther(m) \/ NobodyLeft(m)
             \/ doWork(m) \/ Begin(m) \/ Fail(m) \/ Reject(m) \/ Stage(m) \/ Commit(m)
      PROVE  FALSE
  <2>1. pc[m] = "first"
    BY <1>1, <1>6 DEF CacheReceipt, CacheGossip, CacheTransaction, Called, TimedOut, Accept, TellOther,
       NobodyLeft, doWork, Begin, Fail, Reject, Stage, Commit
  <2>2. CacheReceipt(m)
    BY <1>6, <2>1 DEF CacheReceipt, CacheGossip, CacheTransaction, Called, TimedOut, Accept, TellOther,
       NobodyLeft, doWork, Begin, Fail, Reject, Stage, Commit
  <2> QED
    BY <2>2 DEF CacheReceipt, NoReceipt, None
<1>7. CASE Restart
  BY <1>7 DEF Restart
<1>8. CASE GossipExpires \/ TransactionExpires \/ ReceiptExpires \/ DbReceiptExpires
  BY <1>1, <1>2, <1>8 DEF GossipExpires, TransactionExpires, ReceiptExpires, DbReceiptExpires
<1>9. CASE UNCHANGED receiptVars
  BY <1>1, <1>9 DEF receiptVars
<1> QED
  BY <1>3, <1>4, <1>5, <1>6, <1>7, <1>8, <1>9 DEF ReceiptsNext

\* doWork says ReceiptNotFound only where there is none, and then the gossip it
\* has popped shows that one was forgotten.
LEMMA StepDropped ==
  ASSUME RInv, NothingWithoutReceipt, DroppedOnlyIfForgotten, [ReceiptsNext]_receiptVars
  PROVE  DroppedOnlyIfForgotten'
<1> SUFFICES ASSUME ~ forgot', NEW r \in Receipt PROVE status'[r] # "ReceiptNotFound"
  BY DEF DroppedOnlyIfForgotten
<1> USE DEF RInv, ReceiptsTypeOK, database, caches, histories, receipts
<1>1. ASSUME ~ forgot PROVE status[r] # "ReceiptNotFound"
  BY <1>1 DEF DroppedOnlyIfForgotten
<1>2. ASSUME NEW m \in Message,
             \/ Submit(m) \/ Look(m) \/ Merge(m) \/ CacheReceipt(m) \/ CacheGossip(m) \/ CacheTransaction(m)
             \/ Called(m)
      PROVE  status'[r] # "ReceiptNotFound"
  BY <1>1, <1>2 DEF Submit, Look, Merge, CacheReceipt, CacheGossip, CacheTransaction, Called
<1>3. ASSUME NEW m \in Message, TimedOut(m) \/ Accept(m) \/ TellOther(m) \/ NobodyLeft(m)
      PROVE  status'[r] # "ReceiptNotFound"
  BY <1>1, <1>3 DEF TimedOut, Accept, TellOther, NobodyLeft, updateReceiptStatus
<1>4. ASSUME NEW m \in Message, doWork(m)
      PROVE  status'[r] # "ReceiptNotFound"
  <2>1. ~ forgot /\ pc[m] = "queued"
    BY <1>4 DEF doWork
  <2>2. cachedReceipt # NoReceipt
    BY <2>1 DEF NothingWithoutReceipt, Early
  <2> QED
    BY <1>1, <1>4, <2>1, <2>2 DEF doWork, Replaced
<1>5. ASSUME NEW m \in Message, Begin(m) \/ Fail(m) \/ Reject(m) \/ Stage(m) \/ Commit(m)
      PROVE  status'[r] # "ReceiptNotFound"
  BY <1>1, <1>5 DEF Begin, Fail, Reject, Stage, Commit
<1>6. CASE Restart \/ GossipExpires \/ TransactionExpires \/ ReceiptExpires \/ DbReceiptExpires
  BY <1>1, <1>6 DEF Restart, GossipExpires, TransactionExpires, ReceiptExpires, DbReceiptExpires
<1>7. CASE UNCHANGED receiptVars
  BY <1>1, <1>7 DEF receiptVars
<1> QED
  BY <1>2, <1>3, <1>4, <1>5, <1>6, <1>7 DEF ReceiptsNext

\* The invariant of the answers holds in every reachable state.
THEOREM ReceiptsInvariant == ReceiptsSpec => [](RInv /\ NInv)
<1>1. NInv /\ RInv /\ [ReceiptsNext]_receiptVars => NInv'
  BY StepNothing, StepDropped DEF NInv
<1> QED
  BY InitInv, StepIInv, <1>1, PTL DEF ReceiptsSpec

\* Only a delegate that has lost a cached receipt drops a queued transaction as
\* ReceiptNotFound (doWork), however submissions, received gossips and workers
\* interleave.
THEOREM ReceiptsDroppedOnlyIfForgotten == ReceiptsSpec => []DroppedOnlyIfForgotten
  BY ReceiptsInvariant, PTL DEF NInv

\* GetReceipt and GetTransaction know an executed transaction for ever, and
\* answer Ok unless its receipt was written after the execution staged it.
THEOREM ReceiptsExecutedIsAnswered == ReceiptsSpec => []ExecutedIsAnswered
<1>1. RInv => ExecutedIsAnswered
  <2> SUFFICES ASSUME RInv, dbTransaction
               PROVE  GetReceipt # "NotFound" /\ (~ touched => GetReceipt = "Ok")
    BY DEF ExecutedIsAnswered, ExecutedStaysKnown, AnswerOfExecution, GetTransaction
  <2>1. CASE cachedReceipt = NoReceipt
    BY <2>1 DEF GetReceipt, RInv, ReceiptWithTransaction, None
  <2>2. CASE cachedReceipt # NoReceipt
    <3>1. GetReceipt = status[cachedReceipt] /\ status[cachedReceipt] \in Status
      BY <2>2 DEF GetReceipt, RInv, ReceiptsTypeOK
    <3> QED
      BY <2>2, <3>1 DEF RInv, CommittedIsCached, Status, None
  <2> QED
    BY <2>1, <2>2
<1> QED
  BY ReceiptsInvariant, <1>1, PTL
=============================================================================
