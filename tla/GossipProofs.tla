----------------------------- MODULE GossipProofs -----------------------------
(***************************************************************************)
(* What the delegates know about each other's gossip is true, for any      *)
(* delegates, submissions, failed and abandoned calls.                     *)
(*                                                                         *)
(* "Delegate d is noted as sent" is believed without an answer from d's    *)
(* memory: the caller notes it when the handler on d returns.  That it is  *)
(* true rests on which goroutine waits for which (Calls), and on the rumor *)
(* of a delegate being written only where the delegate caches the gossip   *)
(* in the same step (Known), except in a submission that nobody else has   *)
(* seen (Starts).                                                          *)
(*                                                                         *)
(* Whatever is queued has the rumors of two thirds of the delegates, if no *)
(* handler appends to a list that another one has compared with (QInv).    *)
(* And while no call is given up, somebody is going to bring the gossip to *)
(* every delegate that is up and has it not (LInv).                        *)
(***************************************************************************)
EXTENDS Gossip, FiniteSetTheorems, TLAPS

-----------------------------------------------------------------------------
(* The inductive invariant                                                 *)

RumorList == UNION {[S -> Nat \ {0}] : S \in SUBSET Delegate}

Thread ==
  [pc : {"start", "recv", "merge", "send", "sendWait", "push", "workerWait"},
   caller : Object \cup {None}, ob : Object, todo : SUBSET Delegate,
   seen : RumorList, missing : RumorList, addToChan : BOOLEAN]

Objects ==
  /\ IsFiniteSet(DOMAIN rumors) /\ DOMAIN rumors \subseteq Object
  /\ \A o \in DOMAIN rumors : rumors[o] \in RumorList

Threads ==
  /\ DOMAIN thread \subseteq DOMAIN rumors
  /\ \A o \in DOMAIN thread : thread[o] \in Thread /\ thread[o].ob \in DOMAIN rumors
                              /\ At(o) \notin thread[o].todo

Caches ==
  /\ cached \in [Delegate -> Object \cup {None}]
  /\ \A d \in Delegate : cached[d] = None \/ cached[d] \in DOMAIN rumors
  /\ chan \in [Delegate -> SUBSET Object]
  /\ \A d \in Delegate : \A o \in chan[d] : o \in DOMAIN rumors /\ o \notin DOMAIN thread /\ At(o) = d

Rest ==
  /\ sent \in [Delegate -> SUBSET Delegate] /\ \A d \in Delegate : d \notin sent[d]
  /\ unavailable \in [Delegate -> SUBSET Delegate] /\ \A d \in Delegate : d \notin unavailable[d]
  /\ queued \in [Delegate -> Seq(SUBSET Delegate)]
  /\ receipt \in [Delegate -> {"none", "Pending", "GossipingTimedOut", "CouldNotReachConsensus"}]
  /\ setting \in Setting /\ submitted \subseteq Submitter /\ faults \in 0 .. setting.faults

\* Whoever is waited for runs on another delegate than the one goroutine that
\* waits, and only calls wait.
Calls ==
  \A o \in DOMAIN thread : thread[o].caller # None =>
    /\ thread[o].caller \in DOMAIN thread
    /\ At(thread[o].caller) # At(o)
    /\ thread[thread[o].caller].pc \in {"sendWait", "workerWait"}
    /\ \A p \in DOMAIN thread : thread[p].caller = thread[o].caller => p = o

\* A submission that has not been cached yet is known to its goroutine only.
Starts ==
  \A o \in DOMAIN thread : thread[o].pc = "start" =>
    /\ thread[o].ob = o
    /\ DOMAIN rumors[o] \subseteq {At(o)}
    /\ \A d \in Delegate : cached[d] # o
    /\ \A p \in DOMAIN thread : thread[p].ob = o => p = o

Has(d) == cached[d] # None

\* The authors of rumors have the gossip, wherever the rumors are.
Known ==
  /\ \A o \in DOMAIN rumors :
       (o \in DOMAIN thread => thread[o].pc # "start") => \A d \in DOMAIN rumors[o] : Has(d)
  /\ \A o \in DOMAIN thread :
       /\ \A d \in DOMAIN thread[o].seen \cup DOMAIN thread[o].missing : Has(d)
       /\ thread[o].pc \in {"send", "sendWait"} => Has(At(o))

\* The conjuncts about objects and goroutines.
Core == Objects /\ Threads /\ Caches /\ Calls /\ Starts /\ Known

IInv == Core /\ Rest /\ SentMeansReceived /\ QueuedMeansReceived

-----------------------------------------------------------------------------
(* Objects, lists of rumors, functions                                     *)

LEMMA NoneIsNoObject == None \notin Object
  BY DEF None, Object

LEMMA ObjectAt ==
  ASSUME NEW o \in Object
  PROVE  At(o) \in Delegate
  BY DEF Object, At

LEMMA EmptyIsRumors == EmptyBag \in RumorList /\ DOMAIN EmptyBag = {}
  BY DEF RumorList, EmptyBag, SetToBag

LEMMA SetIsRumors ==
  ASSUME NEW S \in SUBSET Delegate
  PROVE  SetToBag(S) \in RumorList /\ DOMAIN SetToBag(S) = S
  BY DEF RumorList, SetToBag

LEMMA RumorsDomain ==
  ASSUME NEW r \in RumorList
  PROVE  DOMAIN r \in SUBSET Delegate /\ r \in [DOMAIN r -> Nat \ {0}]
  BY DEF RumorList

LEMMA UnionIsRumors ==
  ASSUME NEW r \in RumorList, NEW s \in RumorList
  PROVE  r (+) s \in RumorList /\ DOMAIN (r (+) s) = DOMAIN r \cup DOMAIN s
  <1>1. DOMAIN (r (+) s) = DOMAIN r \cup DOMAIN s
    BY DEF (+)
  <1>2. ASSUME NEW e \in DOMAIN r \cup DOMAIN s
        PROVE  (r (+) s)[e] \in Nat \ {0}
    <2>1. e \in DOMAIN r => r[e] \in Nat /\ r[e] > 0
      BY RumorsDomain
    <2>2. e \in DOMAIN s => s[e] \in Nat /\ s[e] > 0
      BY RumorsDomain
    <2>3. (r (+) s)[e] = (IF e \in DOMAIN r THEN r[e] ELSE 0) + (IF e \in DOMAIN s THEN s[e] ELSE 0)
      BY DEF (+)
    <2> QED
      BY <2>1, <2>2, <2>3
  <1>3. r (+) s \in [DOMAIN r \cup DOMAIN s -> Nat \ {0}]
    BY <1>2 DEF (+)
  <1>4. DOMAIN r \cup DOMAIN s \in SUBSET Delegate
    BY RumorsDomain
  <1> QED
    BY <1>1, <1>3, <1>4 DEF RumorList

LEMMA WithIs ==
  ASSUME NEW f, NEW o, NEW t
  PROVE  /\ DOMAIN With(f, o, t) = DOMAIN f \cup {o}
         /\ With(f, o, t)[o] = t
         /\ \A x \in DOMAIN f : x # o => With(f, o, t)[x] = f[x]
  BY DEF With

LEMMA RunIs ==
  ASSUME NEW o, NEW t
  PROVE  /\ DOMAIN Run(o, t) = DOMAIN thread \cup {o}
         /\ Run(o, t)[o] = t
         /\ \A x \in DOMAIN thread : x # o => Run(o, t)[x] = thread[x]
  BY DEF Run, With

LEMMA EndIs ==
  ASSUME NEW o
  PROVE  /\ DOMAIN End(o) = DOMAIN thread \ {o}
         /\ \A x \in DOMAIN thread : x # o => End(o)[x] = thread[x]
  BY DEF End, Restrict

\* The garbage collector keeps what something points to, as it is.
LEMMA CollectIs ==
  ASSUME NEW objects, NEW kept, kept = Collect(objects)
  PROVE  /\ DOMAIN kept \subseteq DOMAIN objects
         /\ \A o \in DOMAIN kept : kept[o] = objects[o]
         /\ DOMAIN objects \cap DOMAIN thread' \subseteq DOMAIN kept
         /\ \A o \in DOMAIN thread' : thread'[o].ob \in DOMAIN objects => thread'[o].ob \in DOMAIN kept
         /\ \A d \in DOMAIN cached' : cached'[d] \in DOMAIN objects => cached'[d] \in DOMAIN kept
         /\ \A d \in DOMAIN chan' : DOMAIN objects \cap chan'[d] \subseteq DOMAIN kept
  BY DEF Collect, Restrict, Range

\* A name for a new object is free: there are more names than objects.
LEMMA NewIsFree ==
  ASSUME Objects, NEW d \in Delegate
  PROVE  New(d) \in Object /\ New(d) \notin DOMAIN rumors /\ At(New(d)) = d
  <1> DEFINE n == Cardinality(DOMAIN rumors)
             name == [k \in 1 .. n + 1 |-> <<d, k>>]
  <1>1. IsFiniteSet(DOMAIN rumors) /\ n \in Nat
    BY FS_CardinalityType DEF Objects
  <1>2. \E k \in 1 .. n + 1 : <<d, k>> \notin DOMAIN rumors
    <2>1. SUFFICES ASSUME \A k \in 1 .. n + 1 : <<d, k>> \in DOMAIN rumors
                   PROVE  FALSE
      OBVIOUS
    <2>2. name \in [1 .. n + 1 -> DOMAIN rumors]
      BY <2>1
    <2>3. IsFiniteSet(1 .. n + 1) /\ Cardinality(1 .. n + 1) = n + 1
      <3> HIDE DEF n, name
      <3>1. 1 \in Int /\ n + 1 \in Int /\ ~ (1 > n + 1)
        BY <1>1
      <3>2. /\ IsFiniteSet(1 .. n + 1)
            /\ Cardinality(1 .. n + 1) = IF 1 > n + 1 THEN 0 ELSE (n + 1) - 1 + 1
        BY <3>1, FS_Interval
      <3> QED
        BY <1>1, <3>1, <3>2
    <2>4. n < Cardinality(1 .. n + 1)
      BY <1>1, <2>3
    <2>5. PICK x, y \in 1 .. n + 1 : x # y /\ name[x] = name[y]
      <3> HIDE DEF name
      <3> QED
        BY <1>1, <2>2, <2>3, <2>4, FS_PigeonHole
    <2> QED
      BY <2>5
  <1>3. PICK k \in 1 .. n + 1 : New(d) = <<d, k>> /\ <<d, k>> \notin DOMAIN rumors
    BY <1>2 DEF New
  <1>4. k \in Nat
    BY <1>1, <1>3
  <1> QED
    BY <1>3, <1>4 DEF Object, At

-----------------------------------------------------------------------------
(* Goroutines                                                              *)

Pc == {"start", "recv", "merge", "send", "sendWait", "push", "workerWait"}

LEMMA NewThreadIs ==
  ASSUME NEW p \in Pc, NEW c \in Object \cup {None}, NEW ob \in Object
  PROVE  /\ NewThread(p, c, ob) \in Thread
         /\ NewThread(p, c, ob).pc = p /\ NewThread(p, c, ob).caller = c
         /\ NewThread(p, c, ob).ob = ob /\ NewThread(p, c, ob).todo = {}
         /\ DOMAIN NewThread(p, c, ob).seen = {} /\ DOMAIN NewThread(p, c, ob).missing = {}
  <1> DEFINE yes == TRUE
  <1>1. yes \in BOOLEAN
    BY Zenon
  <1>2. NewThread(p, c, ob) = [pc |-> p, caller |-> c, ob |-> ob, todo |-> {}, seen |-> EmptyBag,
                               missing |-> EmptyBag, addToChan |-> yes]
    BY DEF NewThread
  <1> HIDE DEF yes
  <1> QED
    BY <1>1, <1>2, EmptyIsRumors DEF Thread, Pc

LEMMA ThreadFields ==
  ASSUME NEW t \in Thread
  PROVE  /\ t.pc \in Pc /\ t.caller \in Object \cup {None} /\ t.ob \in Object
         /\ t.todo \in SUBSET Delegate /\ t.seen \in RumorList /\ t.missing \in RumorList
         /\ t.addToChan \in BOOLEAN
  BY DEF Thread, Pc

-----------------------------------------------------------------------------
(* Four kinds of steps                                                     *)

\* What the garbage collector leaves is what the goroutines and the caches need.
LEMMA Collected ==
  ASSUME Objects, NEW objs, DOMAIN objs = DOMAIN rumors, \A x \in DOMAIN objs : objs[x] \in RumorList,
         rumors' = objs \/ rumors' = Collect(objs),
         DOMAIN cached' = Delegate, DOMAIN chan' = Delegate
  PROVE  /\ Objects'
         /\ DOMAIN rumors' \subseteq DOMAIN rumors
         /\ \A x \in DOMAIN rumors' : rumors'[x] = objs[x]
         /\ DOMAIN rumors \cap DOMAIN thread' \subseteq DOMAIN rumors'
         /\ \A x \in DOMAIN thread' : thread'[x].ob \in DOMAIN rumors => thread'[x].ob \in DOMAIN rumors'
         /\ \A d \in Delegate : cached'[d] \in DOMAIN rumors => cached'[d] \in DOMAIN rumors'
         /\ \A d \in Delegate : DOMAIN rumors \cap chan'[d] \subseteq DOMAIN rumors'
  <1>1. /\ DOMAIN rumors' \subseteq DOMAIN rumors
        /\ \A x \in DOMAIN rumors' : rumors'[x] = objs[x]
        /\ DOMAIN rumors \cap DOMAIN thread' \subseteq DOMAIN rumors'
        /\ \A x \in DOMAIN thread' : thread'[x].ob \in DOMAIN rumors => thread'[x].ob \in DOMAIN rumors'
        /\ \A d \in Delegate : cached'[d] \in DOMAIN rumors => cached'[d] \in DOMAIN rumors'
        /\ \A d \in Delegate : DOMAIN rumors \cap chan'[d] \subseteq DOMAIN rumors'
    <2>1. CASE rumors' = objs
      BY <2>1
    <2>2. CASE rumors' = Collect(objs)
      BY <2>2, CollectIs
    <2> QED
      BY <2>1, <2>2
  <1>2. DOMAIN rumors' \in SUBSET DOMAIN rumors
    BY <1>1
  <1>3. IsFiniteSet(DOMAIN rumors')
    BY <1>2, FS_Subset DEF Objects
  <1>4. Objects'
    BY <1>1, <1>3 DEF Objects
  <1> QED
    BY <1>1, <1>4

\* Goroutine o goes on as t, or starts as t for a gossip taken from the channel.
LEMMA Becomes ==
  ASSUME Core, NEW o \in DOMAIN rumors, NEW t \in Thread, NEW objs,
         thread' = Run(o, t), t.ob \in DOMAIN rumors, At(o) \notin t.todo, t.pc # "start",
         o \in DOMAIN thread => t.caller = thread[o].caller /\ thread[o].pc \notin {"sendWait", "workerWait"},
         o \notin DOMAIN thread => t.caller = None,
         \A p \in DOMAIN thread : thread[p].pc = "start" /\ p # o => p # t.ob,
         DOMAIN objs = DOMAIN rumors, \A x \in DOMAIN objs : objs[x] \in RumorList,
         rumors' = objs \/ rumors' = Collect(objs),
         cached' \in [Delegate -> Object \cup {None}],
         \A d \in Delegate : cached'[d] \in {cached[d], t.ob},
         chan' \in [Delegate -> SUBSET Object],
         \A d \in Delegate : chan'[d] \subseteq chan[d] /\ o \notin chan'[d],
         \A d \in DOMAIN t.seen \cup DOMAIN t.missing : Has(d)',
         t.pc \in {"send", "sendWait"} => Has(At(o))',
         \A x \in DOMAIN objs : objs[x] = rumors[x] \/ \A d \in DOMAIN objs[x] : Has(d)',
         \A x \in DOMAIN objs : x \notin {o, t.ob} => objs[x] = rumors[x],
         \A d \in DOMAIN objs[o] : Has(d)'
  PROVE  Core' /\ \A d \in Delegate : Has(d) => Has(d)'
  <1>1. /\ DOMAIN thread' = DOMAIN thread \cup {o} /\ thread'[o] = t
        /\ \A x \in DOMAIN thread : x # o => thread'[x] = thread[x]
    BY DEF Run, With
  <1>2. DOMAIN cached' = Delegate /\ DOMAIN chan' = Delegate
    OBVIOUS
  <1>3. /\ Objects'
        /\ DOMAIN rumors' \subseteq DOMAIN rumors
        /\ \A x \in DOMAIN rumors' : rumors'[x] = objs[x]
        /\ DOMAIN rumors \cap DOMAIN thread' \subseteq DOMAIN rumors'
        /\ \A x \in DOMAIN thread' : thread'[x].ob \in DOMAIN rumors => thread'[x].ob \in DOMAIN rumors'
        /\ \A d \in Delegate : cached'[d] \in DOMAIN rumors => cached'[d] \in DOMAIN rumors'
        /\ \A d \in Delegate : DOMAIN rumors \cap chan'[d] \subseteq DOMAIN rumors'
    BY <1>2, Collected DEF Core
  <1>4. \A d \in Delegate : Has(d) => Has(d)'
    <2>1. t.ob # None
      BY NoneIsNoObject DEF Core, Objects
    <2> QED
      BY <2>1 DEF Has
  <1>5. Threads'
    <2>1. DOMAIN thread' \subseteq DOMAIN rumors'
      BY <1>1, <1>3 DEF Core, Threads
    <2>2. \A x \in DOMAIN thread' : thread'[x].ob \in DOMAIN rumors'
      BY <1>1, <1>3 DEF Core, Threads
    <2>3. \A x \in DOMAIN thread' : thread'[x] \in Thread /\ At(x) \notin thread'[x].todo
      BY <1>1 DEF Core, Threads
    <2> QED
      BY <2>1, <2>2, <2>3 DEF Threads
  <1>6. Caches'
    <2>1. \A d \in Delegate : cached'[d] = None \/ cached'[d] \in DOMAIN rumors'
      BY <1>3 DEF Core, Caches
    <2>2. \A d \in Delegate : \A x \in chan'[d] : x \in DOMAIN rumors' /\ x \notin DOMAIN thread' /\ At(x) = d
      BY <1>1, <1>3 DEF Core, Caches
    <2> QED
      BY <2>1, <2>2 DEF Caches
  <1>7. Calls'
    <2>1. \A x \in DOMAIN thread : thread[x].caller # None =>
            thread[x].caller \in DOMAIN thread /\ thread[x].caller # o
      BY DEF Core, Calls
    <2>2. \A x \in DOMAIN thread' : thread'[x].caller # None =>
            x \in DOMAIN thread /\ thread'[x].caller = thread[x].caller
      BY <1>1
    <2> SUFFICES ASSUME NEW x \in DOMAIN thread', thread'[x].caller # None
                 PROVE  /\ thread'[x].caller \in DOMAIN thread'
                        /\ At(thread'[x].caller) # At(x)
                        /\ thread'[thread'[x].caller].pc \in {"sendWait", "workerWait"}
                        /\ \A y \in DOMAIN thread' : thread'[y].caller = thread'[x].caller => y = x
      BY DEF Calls
    <2>3. x \in DOMAIN thread /\ thread'[x].caller = thread[x].caller
      BY <2>2
    <2>4. \A y \in DOMAIN thread' : thread'[y].caller = thread'[x].caller => y = x
      BY <2>2, <2>3 DEF Core, Calls
    <2> QED
      BY <1>1, <2>1, <2>3, <2>4 DEF Core, Calls
  <1>8. Starts'
    <2> SUFFICES ASSUME NEW x \in DOMAIN thread', thread'[x].pc = "start"
                 PROVE  /\ thread'[x].ob = x
                        /\ DOMAIN rumors'[x] \subseteq {At(x)}
                        /\ \A d \in Delegate : cached'[d] # x
                        /\ \A y \in DOMAIN thread' : thread'[y].ob = x => y = x
      BY DEF Starts
    <2>1. x \in DOMAIN thread /\ x # o /\ thread'[x] = thread[x] /\ x # t.ob
      BY <1>1
    <2>2. /\ thread[x].ob = x
          /\ DOMAIN rumors[x] \subseteq {At(x)}
          /\ \A d \in Delegate : cached[d] # x
          /\ \A y \in DOMAIN thread : thread[y].ob = x => y = x
      BY <2>1 DEF Core, Starts
    <2>3. rumors'[x] = rumors[x]
      BY <1>1, <1>3, <2>1 DEF Core, Threads
    <2>4. \A d \in Delegate : cached'[d] # x
      BY <2>1, <2>2
    <2> QED
      BY <1>1, <2>1, <2>2, <2>3, <2>4
  <1>9. Known'
    <2>1. ASSUME NEW x \in DOMAIN rumors', x \in DOMAIN thread' => thread'[x].pc # "start",
                 NEW d \in DOMAIN rumors'[x]
          PROVE  Has(d)'
      <3>1. rumors'[x] = objs[x] /\ x \in DOMAIN rumors /\ rumors'[x] \in RumorList
        BY <1>3 DEF Objects
      <3>2. d \in Delegate
        BY <2>1, <3>1, RumorsDomain
      <3>3. CASE x = o
        BY <2>1, <3>1, <3>3
      <3>4. CASE x # o /\ objs[x] = rumors[x]
        <4>1. x \in DOMAIN thread => thread[x].pc # "start"
          BY <1>1, <2>1, <3>4
        <4>2. Has(d)
          BY <2>1, <3>1, <3>4, <4>1 DEF Core, Known
        <4> QED
          BY <1>4, <3>2, <4>2
      <3>5. CASE objs[x] # rumors[x]
        BY <2>1, <3>1, <3>5
      <3> QED
        BY <3>3, <3>4, <3>5
    <2>2. ASSUME NEW x \in DOMAIN thread'
          PROVE  /\ \A d \in DOMAIN thread'[x].seen \cup DOMAIN thread'[x].missing : Has(d)'
                 /\ thread'[x].pc \in {"send", "sendWait"} => Has(At(x))'
      <3>1. CASE x = o
        BY <1>1, <3>1
      <3>2. CASE x # o
        <4>1. x \in DOMAIN thread /\ thread'[x] = thread[x] /\ thread[x] \in Thread /\ x \in Object
          BY <1>1, <3>2 DEF Core, Threads, Objects
        <4>2. DOMAIN thread[x].seen \cup DOMAIN thread[x].missing \subseteq Delegate /\ At(x) \in Delegate
          BY <4>1, ThreadFields, RumorsDomain, ObjectAt
        <4> QED
          BY <1>4, <4>1, <4>2 DEF Core, Known
      <3> QED
        BY <3>1, <3>2
    <2> QED
      BY <2>1, <2>2 DEF Known
  <1> QED
    BY <1>3, <1>4, <1>5, <1>6, <1>7, <1>8, <1>9 DEF Core

\* Goroutines end, go on after a call or are no longer waited for; a gossip
\* moves from a goroutine to the channel or from the channel to the cache.
LEMMA Leaves ==
  ASSUME Core,
         DOMAIN thread' \subseteq DOMAIN thread,
         \A x \in DOMAIN thread' :
           /\ thread'[x] \in Thread
           /\ thread'[x].ob = thread[x].ob /\ thread'[x].todo = thread[x].todo
           /\ thread'[x].seen = thread[x].seen /\ thread'[x].missing = thread[x].missing
           /\ thread'[x].caller \in {thread[x].caller, None}
           /\ \/ thread'[x].pc = thread[x].pc
              \/ thread[x].pc = "sendWait" /\ thread'[x].pc = "send",
         \A x \in DOMAIN thread' : thread'[x].caller # None =>
           thread'[x].caller \in DOMAIN thread' /\ thread'[thread'[x].caller].pc = thread[thread'[x].caller].pc,
         \A x \in DOMAIN thread : thread[x].pc = "start" => x \in DOMAIN thread',
         rumors' = rumors \/ rumors' = Collect(rumors),
         cached' \in [Delegate -> Object \cup {None}],
         \A d \in Delegate :
           cached'[d] = cached[d] \/ (cached'[d] \in DOMAIN rumors /\ cached'[d] \notin DOMAIN thread),
         chan' \in [Delegate -> SUBSET Object],
         \A d \in Delegate : \A x \in chan'[d] :
           \/ x \in chan[d]
           \/ x \in DOMAIN thread /\ x \notin DOMAIN thread' /\ At(x) = d
  PROVE  Core' /\ \A d \in Delegate : Has(d) => Has(d)'
  <1>1. /\ Objects'
        /\ DOMAIN rumors' \subseteq DOMAIN rumors
        /\ \A x \in DOMAIN rumors' : rumors'[x] = rumors[x]
        /\ DOMAIN rumors \cap DOMAIN thread' \subseteq DOMAIN rumors'
        /\ \A x \in DOMAIN thread' : thread'[x].ob \in DOMAIN rumors => thread'[x].ob \in DOMAIN rumors'
        /\ \A d \in Delegate : cached'[d] \in DOMAIN rumors => cached'[d] \in DOMAIN rumors'
        /\ \A d \in Delegate : DOMAIN rumors \cap chan'[d] \subseteq DOMAIN rumors'
    <2>1. DOMAIN cached' = Delegate /\ DOMAIN chan' = Delegate
      OBVIOUS
    <2>2. Objects /\ \A x \in DOMAIN rumors : rumors[x] \in RumorList
      BY DEF Core, Objects
    <2> QED
      BY <2>1, <2>2, Collected
  <1>2. \A d \in Delegate : Has(d) => Has(d)'
    BY NoneIsNoObject DEF Has, Core, Objects
  <1>3. Threads'
    BY <1>1 DEF Core, Threads
  <1>4. Caches'
    <2>1. \A d \in Delegate : cached'[d] = None \/ cached'[d] \in DOMAIN rumors'
      BY <1>1 DEF Core, Caches
    <2>2. \A d \in Delegate : \A x \in chan'[d] : x \in DOMAIN rumors' /\ x \notin DOMAIN thread' /\ At(x) = d
      BY <1>1 DEF Core, Caches, Threads
    <2> QED
      BY <2>1, <2>2 DEF Caches
  <1>5. Calls'
    <2> SUFFICES ASSUME NEW x \in DOMAIN thread', thread'[x].caller # None
                 PROVE  /\ thread'[x].caller \in DOMAIN thread'
                        /\ At(thread'[x].caller) # At(x)
                        /\ thread'[thread'[x].caller].pc \in {"sendWait", "workerWait"}
                        /\ \A y \in DOMAIN thread' : thread'[y].caller = thread'[x].caller => y = x
      BY DEF Calls
    <2>1. x \in DOMAIN thread /\ thread'[x].caller = thread[x].caller
      OBVIOUS
    <2>2. \A y \in DOMAIN thread' : thread'[y].caller = thread'[x].caller => y = x
      BY <2>1 DEF Core, Calls
    <2> QED
      BY <2>1, <2>2 DEF Core, Calls
  <1>6. Starts'
    <2> SUFFICES ASSUME NEW x \in DOMAIN thread', thread'[x].pc = "start"
                 PROVE  /\ thread'[x].ob = x
                        /\ DOMAIN rumors'[x] \subseteq {At(x)}
                        /\ \A d \in Delegate : cached'[d] # x
                        /\ \A y \in DOMAIN thread' : thread'[y].ob = x => y = x
      BY DEF Starts
    <2>1. x \in DOMAIN thread /\ thread[x].pc = "start" /\ thread'[x].ob = thread[x].ob
      OBVIOUS
    <2>2. rumors'[x] = rumors[x]
      BY <1>1, <2>1 DEF Core, Threads
    <2>3. \A d \in Delegate : cached'[d] # x
      BY <2>1 DEF Core, Starts
    <2>4. \A y \in DOMAIN thread' : thread'[y].ob = x => y = x
      BY <2>1 DEF Core, Starts
    <2> QED
      BY <2>1, <2>2, <2>3, <2>4 DEF Core, Starts
  <1>7. Known'
    <2>1. ASSUME NEW x \in DOMAIN rumors', x \in DOMAIN thread' => thread'[x].pc # "start",
                 NEW d \in DOMAIN rumors'[x]
          PROVE  Has(d)'
      <3>1. rumors'[x] = rumors[x] /\ x \in DOMAIN rumors /\ rumors'[x] \in RumorList
        BY <1>1 DEF Objects
      <3>2. d \in Delegate
        BY <2>1, <3>1, RumorsDomain
      <3>3. x \in DOMAIN thread => thread[x].pc # "start"
        BY <2>1
      <3>4. Has(d)
        BY <2>1, <3>1, <3>3 DEF Core, Known
      <3> QED
        BY <1>2, <3>2, <3>4
    <2>2. ASSUME NEW x \in DOMAIN thread'
          PROVE  /\ \A d \in DOMAIN thread'[x].seen \cup DOMAIN thread'[x].missing : Has(d)'
                 /\ thread'[x].pc \in {"send", "sendWait"} => Has(At(x))'
      <3>1. x \in DOMAIN thread /\ thread[x] \in Thread /\ x \in Object
        BY DEF Core, Threads, Objects
      <3>2. DOMAIN thread[x].seen \cup DOMAIN thread[x].missing \subseteq Delegate /\ At(x) \in Delegate
        BY <3>1, ThreadFields, RumorsDomain, ObjectAt
      <3>3. \A d \in DOMAIN thread[x].seen \cup DOMAIN thread[x].missing : Has(d)
        BY <3>1 DEF Core, Known
      <3>4. thread[x].pc \in {"send", "sendWait"} => Has(At(x))
        BY <3>1 DEF Core, Known
      <3>5. thread'[x].pc \in {"send", "sendWait"} => thread[x].pc \in {"send", "sendWait"}
        OBVIOUS
      <3> QED
        BY <1>2, <3>2, <3>3, <3>4, <3>5
    <2> QED
      BY <2>1, <2>2 DEF Known
  <1> QED
    BY <1>1, <1>2, <1>3, <1>4, <1>5, <1>6, <1>7 DEF Core

\* Goroutine o, which becomes t, calls the delegate q with a copy of gossip g.
LEMMA CallsOut ==
  ASSUME Core, NEW o \in DOMAIN rumors, NEW t \in Thread, NEW q \in Delegate, NEW g \in DOMAIN rumors,
         Call(o, t, q, g), q # At(o),
         t.ob \in DOMAIN rumors, At(o) \notin t.todo, t.pc \in {"sendWait", "workerWait"},
         o \in DOMAIN thread => t.caller = thread[o].caller /\ thread[o].pc \notin {"sendWait", "workerWait"},
         o \notin DOMAIN thread => t.caller = None,
         \A p \in DOMAIN thread : thread[p].pc = "start" => p \notin {o, g, t.ob},
         \A d \in DOMAIN t.seen \cup DOMAIN t.missing : Has(d),
         t.pc = "sendWait" => Has(At(o)),
         cached' = cached,
         chan' \in [Delegate -> SUBSET Object],
         \A d \in Delegate : chan'[d] \subseteq chan[d] /\ o \notin chan'[d]
  PROVE  Core' /\ \A d \in Delegate : Has(d) => Has(d)'
  <1> DEFINE n == New(q)
             h == NewThread("recv", o, n)
  <1>1. n \in Object /\ n \notin DOMAIN rumors /\ At(n) = q
    BY NewIsFree DEF Core
  <1>2. o \in Object /\ o # None
    BY NoneIsNoObject DEF Core, Objects
  <1>3. /\ h \in Thread /\ h.pc = "recv" /\ h.caller = o /\ h.ob = n /\ h.todo = {}
        /\ DOMAIN h.seen = {} /\ DOMAIN h.missing = {}
    <2> HIDE DEF n
    <2>1. "recv" \in Pc
      BY DEF Pc
    <2> QED
      BY <1>1, <1>2, <2>1, NewThreadIs
  <1>4. thread' = With(Run(o, t), n, h) /\ rumors' = With(rumors, n, rumors[g])
    BY DEF Call
  <1> HIDE DEF n, h
  <1>5. n # o /\ n \notin DOMAIN thread
    BY <1>1 DEF Core, Threads
  <1>6. /\ DOMAIN thread' = DOMAIN thread \cup {o, n} /\ thread'[o] = t /\ thread'[n] = h
        /\ \A x \in DOMAIN thread : x # o => thread'[x] = thread[x]
    BY <1>4, <1>5 DEF With, Run
  <1>7. /\ DOMAIN rumors' = DOMAIN rumors \cup {n} /\ rumors'[n] = rumors[g]
        /\ \A x \in DOMAIN rumors : rumors'[x] = rumors[x]
    BY <1>1, <1>4 DEF With
  <1>8. \A d \in Delegate : Has(d)' <=> Has(d)
    BY DEF Has
  <1>9. Objects'
    <2>1. IsFiniteSet(DOMAIN rumors')
      BY <1>7, FS_AddElement DEF Core, Objects
    <2> QED
      BY <1>1, <1>7, <2>1 DEF Core, Objects
  <1>10. Threads'
    BY <1>3, <1>6, <1>7 DEF Core, Threads
  <1>11. Caches'
    <2>1. \A d \in Delegate : \A x \in chan'[d] : x \in DOMAIN rumors' /\ x \notin DOMAIN thread' /\ At(x) = d
      BY <1>1, <1>6, <1>7 DEF Core, Caches
    <2>2. \A d \in Delegate : cached'[d] = None \/ cached'[d] \in DOMAIN rumors'
      BY <1>7 DEF Core, Caches
    <2> QED
      BY <2>1, <2>2 DEF Core, Caches
  <1>12. Calls'
    <2>1. \A x \in DOMAIN thread : thread[x].caller # None =>
            thread[x].caller \in DOMAIN thread /\ thread[x].caller # o
      BY DEF Core, Calls
    <2>2. \A x \in DOMAIN thread' : thread'[x].caller # None =>
            \/ x = n /\ thread'[x].caller = o
            \/ x \in DOMAIN thread /\ x # n /\ thread'[x].caller = thread[x].caller
      BY <1>3, <1>5, <1>6
    <2> SUFFICES ASSUME NEW x \in DOMAIN thread', thread'[x].caller # None
                 PROVE  /\ thread'[x].caller \in DOMAIN thread'
                        /\ At(thread'[x].caller) # At(x)
                        /\ thread'[thread'[x].caller].pc \in {"sendWait", "workerWait"}
                        /\ \A y \in DOMAIN thread' : thread'[y].caller = thread'[x].caller => y = x
      BY DEF Calls
    <2>3. CASE x = n
      BY <1>1, <1>2, <1>3, <1>6, <2>1, <2>2, <2>3
    <2>4. CASE x # n
      <3>1. x \in DOMAIN thread /\ thread'[x].caller = thread[x].caller /\ thread[x].caller # o
        BY <2>1, <2>2, <2>4
      <3>2. \A y \in DOMAIN thread' : thread'[y].caller = thread'[x].caller => y = x
        BY <2>2, <3>1 DEF Core, Calls
      <3>3. thread[x].caller \in DOMAIN thread /\ thread'[thread[x].caller] = thread[thread[x].caller]
        BY <1>6, <2>1, <3>1
      <3> QED
        BY <1>6, <3>1, <3>2, <3>3 DEF Core, Calls
    <2> QED
      BY <2>3, <2>4
  <1>13. Starts'
    <2> SUFFICES ASSUME NEW x \in DOMAIN thread', thread'[x].pc = "start"
                 PROVE  /\ thread'[x].ob = x
                        /\ DOMAIN rumors'[x] \subseteq {At(x)}
                        /\ \A d \in Delegate : cached'[d] # x
                        /\ \A y \in DOMAIN thread' : thread'[y].ob = x => y = x
      BY DEF Starts
    <2>1. x \in DOMAIN thread /\ x # o /\ x # n /\ thread'[x] = thread[x] /\ x # t.ob
      BY <1>3, <1>5, <1>6
    <2>2. rumors'[x] = rumors[x]
      BY <1>7, <2>1 DEF Core, Threads
    <2>3. \A y \in DOMAIN thread' : thread'[y].ob = x => y = x
      BY <1>3, <1>6, <2>1 DEF Core, Starts
    <2> QED
      BY <2>1, <2>2, <2>3 DEF Core, Starts
  <1>14. Known'
    <2>1. ASSUME NEW x \in DOMAIN rumors', x \in DOMAIN thread' => thread'[x].pc # "start",
                 NEW d \in DOMAIN rumors'[x]
          PROVE  Has(d)
      <3>1. CASE x = n
        <4>1. g \in DOMAIN thread => thread[g].pc # "start"
          OBVIOUS
        <4> QED
          BY <1>7, <2>1, <3>1, <4>1 DEF Core, Known
      <3>2. CASE x # n
        <4>1. x \in DOMAIN rumors /\ rumors'[x] = rumors[x]
          BY <1>7, <3>2
        <4>2. x \in DOMAIN thread => thread[x].pc # "start"
          BY <1>6, <2>1
        <4> QED
          BY <2>1, <4>1, <4>2 DEF Core, Known
      <3> QED
        BY <3>1, <3>2
    <2>2. ASSUME NEW x \in DOMAIN thread'
          PROVE  /\ \A d \in DOMAIN thread'[x].seen \cup DOMAIN thread'[x].missing : Has(d)
                 /\ thread'[x].pc \in {"send", "sendWait"} => Has(At(x))
      <3>1. CASE x = n
        BY <1>3, <1>6, <3>1
      <3>2. CASE x = o
        BY <1>6, <3>2
      <3>3. CASE x \notin {n, o}
        BY <1>6, <3>3 DEF Core, Known
      <3> QED
        BY <3>1, <3>2, <3>3
    <2>3. \A d : Has(d)' <=> Has(d)
      BY DEF Has
    <2> QED
      BY <2>1, <2>2, <2>3 DEF Known
  <1> QED
    BY <1>8, <1>9, <1>10, <1>11, <1>12, <1>13, <1>14 DEF Core

-----------------------------------------------------------------------------
(* The actions                                                             *)

LEMMA SentKept ==
  ASSUME Rest, SentMeansReceived, sent' = sent, \A d \in Delegate : Has(d) => Has(d)'
  PROVE  SentMeansReceived'
  BY DEF Rest, SentMeansReceived, Has

LEMMA QueuedKept ==
  ASSUME Rest, QueuedMeansReceived, queued' = queued, \A d \in Delegate : Has(d) => Has(d)'
  PROVE  QueuedMeansReceived'
  <1> SUFFICES ASSUME NEW d \in Delegate, NEW signers \in ToSet(queued[d]), NEW q \in signers
               PROVE  cached'[q] # None
    BY DEF QueuedMeansReceived
  <1>1. signers \in SUBSET Delegate
    BY DEF Rest, ToSet
  <1>2. Has(q)
    BY DEF QueuedMeansReceived, Has
  <1> QED
    BY <1>1, <1>2 DEF Has

\* The goroutines after a call has returned.
LEMMA ReturnIs ==
  ASSUME NEW f, NEW c, NEW r, r = Return(f, c),
         c # None => c \in DOMAIN f /\ f[c] \in Thread /\ f[c].pc \in {"sendWait", "workerWait"}
  PROVE  /\ DOMAIN r \subseteq DOMAIN f /\ DOMAIN f \ {c} \subseteq DOMAIN r
         /\ \A x \in DOMAIN r : x # c => r[x] = f[x]
         /\ c = None => r = f
         /\ c # None => \/ f[c].pc = "workerWait" /\ c \notin DOMAIN r
                        \/ /\ f[c].pc = "sendWait" /\ c \in DOMAIN r
                           /\ r[c] = [f[c] EXCEPT !.pc = "send"]
  <1>1. CASE c = None
    BY <1>1 DEF Return
  <1>2. CASE c # None /\ f[c].pc = "workerWait"
    <2>1. r = [x \in DOMAIN f \ {c} |-> f[x]]
      BY <1>2 DEF Return, Restrict
    <2> QED
      BY <1>2, <2>1
  <1>3. CASE c # None /\ f[c].pc = "sendWait"
    <2>1. r = [f EXCEPT ![c].pc = "send"]
      BY <1>3 DEF Return
    <2> QED
      BY <1>3, <2>1
  <1> QED
    BY <1>1, <1>2, <1>3

\* A goroutine's object is no submission that another goroutine starts.
LEMMA ObNotStarting ==
  ASSUME Core, NEW o \in DOMAIN thread, NEW p \in DOMAIN thread, thread[p].pc = "start", p # o
  PROVE  p # thread[o].ob
  BY DEF Core, Starts

LEMMA InvSubmitCheck ==
  ASSUME IInv, NEW d \in Delegate, SubmitCheck(d)
  PROVE  IInv'
  <1>1. /\ UNCHANGED <<cached, chan, sent, unavailable, queued, receipt, setting, faults>>
        /\ submitted' = submitted \cup {d} /\ d \in Submitter
    BY DEF SubmitCheck
  <1>2. Rest'
    BY <1>1 DEF IInv, Rest, Submitter, Down
  <1>3. \A e : Has(e)' <=> Has(e)
    BY <1>1 DEF Has
  <1>4. SentMeansReceived' /\ QueuedMeansReceived'
    BY <1>1, <1>3, SentKept, QueuedKept DEF IInv
  <1>5. CASE UNCHANGED <<thread, rumors>>
    <2>1. Core'
      BY <1>1, <1>3, <1>5 DEF IInv, Core, Objects, Threads, Caches, Calls, Starts, Known
    <2> QED
      BY <1>2, <1>4, <2>1 DEF IInv
  <1>6. CASE /\ thread' = Run(New(d), NewThread("start", None, New(d)))
             /\ rumors' = With(rumors, New(d), SetToBag({d}))
    <2> DEFINE n == New(d)
               t == NewThread("start", None, n)
    <2>1. n \in Object /\ n \notin DOMAIN rumors /\ At(n) = d
      BY NewIsFree DEF IInv, Core
    <2>2. /\ t \in Thread /\ t.pc = "start" /\ t.caller = None /\ t.ob = n /\ t.todo = {}
          /\ DOMAIN t.seen = {} /\ DOMAIN t.missing = {}
      <3> HIDE DEF n
      <3>1. "start" \in Pc
        BY DEF Pc
      <3> QED
        BY <2>1, <3>1, NewThreadIs
    <2>3. thread' = With(thread, n, t) /\ rumors' = With(rumors, n, SetToBag({d}))
      BY <1>6 DEF Run
    <2> HIDE DEF n, t
    <2>4. SetToBag({d}) \in RumorList /\ DOMAIN SetToBag({d}) = {d}
      BY SetIsRumors
    <2>5. n \notin DOMAIN thread
      BY <2>1 DEF IInv, Core, Threads
    <2>6. /\ DOMAIN thread' = DOMAIN thread \cup {n} /\ thread'[n] = t
          /\ \A x \in DOMAIN thread : thread'[x] = thread[x]
      BY <2>3, <2>5 DEF With
    <2>7. /\ DOMAIN rumors' = DOMAIN rumors \cup {n} /\ rumors'[n] = SetToBag({d})
          /\ \A x \in DOMAIN rumors : rumors'[x] = rumors[x]
      BY <2>1, <2>3 DEF With
    <2>8. Objects'
      <3>1. IsFiniteSet(DOMAIN rumors')
        BY <2>7, FS_AddElement DEF IInv, Core, Objects
      <3> QED
        BY <2>1, <2>4, <2>7, <3>1 DEF IInv, Core, Objects
    <2>9. Threads'
      BY <2>2, <2>6, <2>7 DEF IInv, Core, Threads
    <2>10. Caches'
      BY <1>1, <2>1, <2>6, <2>7 DEF IInv, Core, Caches
    <2>11. Calls'
      <3>1. \A x \in DOMAIN thread' : thread'[x].caller # None =>
              x \in DOMAIN thread /\ thread'[x].caller = thread[x].caller
        BY <2>2, <2>6
      <3> QED
        BY <2>6, <3>1 DEF IInv, Core, Calls
    <2>12. Starts'
      <3> SUFFICES ASSUME NEW x \in DOMAIN thread', thread'[x].pc = "start"
                   PROVE  /\ thread'[x].ob = x
                          /\ DOMAIN rumors'[x] \subseteq {At(x)}
                          /\ \A e \in Delegate : cached[e] # x
                          /\ \A y \in DOMAIN thread' : thread'[y].ob = x => y = x
        BY <1>1 DEF Starts
      <3>1. CASE x = n
        <4>1. \A e \in Delegate : cached[e] # n
          BY <2>1, NoneIsNoObject DEF IInv, Core, Caches
        <4>2. \A y \in DOMAIN thread : thread[y].ob # n
          BY <2>1 DEF IInv, Core, Threads
        <4> QED
          BY <2>1, <2>2, <2>4, <2>6, <2>7, <3>1, <4>1, <4>2
      <3>2. CASE x # n
        <4>1. x \in DOMAIN thread /\ thread'[x] = thread[x] /\ rumors'[x] = rumors[x]
          BY <2>6, <2>7, <3>2 DEF IInv, Core, Threads
        <4>2. \A y \in DOMAIN thread' : thread'[y].ob = x => y = x
          BY <2>2, <2>6, <3>2, <4>1 DEF IInv, Core, Starts
        <4> QED
          BY <4>1, <4>2 DEF IInv, Core, Starts
      <3> QED
        BY <3>1, <3>2
    <2>13. Known'
      <3>1. ASSUME NEW x \in DOMAIN rumors', x \in DOMAIN thread' => thread'[x].pc # "start",
                   NEW e \in DOMAIN rumors'[x]
            PROVE  Has(e)
        <4>1. x # n
          BY <2>2, <2>6, <3>1
        <4> QED
          BY <2>6, <2>7, <3>1, <4>1 DEF IInv, Core, Known
      <3>2. ASSUME NEW x \in DOMAIN thread'
            PROVE  /\ \A e \in DOMAIN thread'[x].seen \cup DOMAIN thread'[x].missing : Has(e)
                   /\ thread'[x].pc \in {"send", "sendWait"} => Has(At(x))
        BY <2>2, <2>6 DEF IInv, Core, Known
      <3> QED
        BY <1>3, <3>1, <3>2 DEF Known
    <2> QED
      BY <1>2, <1>4, <2>8, <2>9, <2>10, <2>11, <2>12, <2>13 DEF IInv, Core
  <1> QED
    BY <1>5, <1>6 DEF SubmitCheck

LEMMA InvSubmitStart ==
  ASSUME IInv, NEW o \in DOMAIN thread, SubmitStart(o)
  PROVE  IInv'
  <1> DEFINE t == [thread[o] EXCEPT !.pc = "send", !.missing = EmptyBag, !.seen = EmptyBag,
                                    !.todo = Others(At(o))]
  <1>1. /\ UNCHANGED <<chan, sent, unavailable, queued, setting, submitted, faults>>
        /\ thread[o].pc = "start" /\ thread' = Run(o, t) /\ rumors' = Collect(rumors)
        /\ cached' = [cached EXCEPT ![At(o)] = o] /\ receipt' = [receipt EXCEPT ![At(o)] = "Pending"]
    BY DEF SubmitStart, cacheOnFirstReceive
  <1>2. o \in DOMAIN rumors /\ o \in Object /\ thread[o] \in Thread /\ Others(At(o)) \in SUBSET Delegate
    BY DEF IInv, Core, Threads, Objects, Others
  <1>3. /\ t \in Thread /\ t.pc = "send" /\ t.caller = thread[o].caller /\ t.ob = thread[o].ob
        /\ t.todo = Others(At(o)) /\ DOMAIN t.seen = {} /\ DOMAIN t.missing = {}
    BY <1>2, EmptyIsRumors DEF Thread
  <1> HIDE DEF t
  <1>4. thread[o].ob = o /\ DOMAIN rumors[o] \subseteq {At(o)}
    BY <1>1 DEF IInv, Core, Starts
  <1>5. At(o) \in Delegate /\ o # None
    BY <1>2, ObjectAt, NoneIsNoObject
  <1>6. /\ cached' \in [Delegate -> Object \cup {None}] /\ cached'[At(o)] = o
        /\ \A d \in Delegate : cached'[d] \in {cached[d], o}
    BY <1>1, <1>2, <1>5 DEF IInv, Core, Caches
  <1>7. Has(At(o))'
    BY <1>5, <1>6 DEF Has
  <1>8. /\ chan' \in [Delegate -> SUBSET Object]
        /\ \A d \in Delegate : chan'[d] \subseteq chan[d] /\ o \notin chan'[d]
    BY <1>1 DEF IInv, Core, Caches
  <1>9. Core' /\ \A d \in Delegate : Has(d) => Has(d)'
    <2>1. At(o) \notin t.todo
      BY <1>3 DEF Others
    <2>2. \A x \in DOMAIN rumors : rumors[x] \in RumorList
      BY DEF IInv, Core, Objects
    <2>3. \A d \in DOMAIN rumors[o] : Has(d)'
      BY <1>4, <1>7
    <2>4. Core
      BY DEF IInv
    <2> QED
      BY <1>1, <1>2, <1>3, <1>4, <1>6, <1>7, <1>8, <2>1, <2>2, <2>3, <2>4, Becomes
  <1>10. Rest'
    BY <1>1 DEF IInv, Rest, Submitter, Down
  <1> QED
    BY <1>1, <1>9, <1>10, SentKept, QueuedKept DEF IInv

LEMMA InvRecv ==
  ASSUME IInv, NEW o \in DOMAIN thread, Recv(o)
  PROVE  IInv'
  <1>1. /\ UNCHANGED <<rumors, cached, chan, sent, unavailable, queued, receipt, setting, submitted, faults>>
        /\ thread[o].pc = "recv"
    BY DEF Recv
  <1>2. o \in DOMAIN rumors /\ o \in Object /\ thread[o] \in Thread /\ At(o) \notin thread[o].todo
    BY DEF IInv, Core, Threads, Objects
  <1>3. At(o) \in Delegate
    BY <1>2, ObjectAt
  <1>4. /\ \A x \in DOMAIN rumors : rumors[x] \in RumorList
        /\ cached' \in [Delegate -> Object \cup {None}]
        /\ chan' \in [Delegate -> SUBSET Object]
        /\ \A d \in Delegate : chan'[d] \subseteq chan[d] /\ o \notin chan'[d]
        /\ \A d : Has(d)' <=> Has(d)
    BY <1>1 DEF IInv, Core, Objects, Caches, Has
  <1>5. \A d \in DOMAIN rumors[o] : Has(d)
    BY <1>1, <1>2 DEF IInv, Core, Known
  <1>6. ASSUME NEW t \in Thread, thread' = Run(o, t), t.pc = "merge", t.caller = thread[o].caller,
               t.todo = thread[o].todo, t.ob \in DOMAIN rumors,
               \A p \in DOMAIN thread : thread[p].pc = "start" /\ p # o => p # t.ob,
               \A d \in DOMAIN t.seen \cup DOMAIN t.missing : Has(d)
        PROVE  Core' /\ \A d \in Delegate : Has(d) => Has(d)'
    <2>1. Core
      BY DEF IInv
    <2> QED
      BY <1>1, <1>2, <1>4, <1>5, <1>6, <2>1, Becomes
  <1>7. ASSUME thread' = Run(o, [thread[o] EXCEPT !.pc = "merge"])
        PROVE  Core' /\ \A d \in Delegate : Has(d) => Has(d)'
    <2> DEFINE t == [thread[o] EXCEPT !.pc = "merge"]
    <2>1. /\ t \in Thread /\ t.pc = "merge" /\ t.caller = thread[o].caller /\ t.todo = thread[o].todo
          /\ t.ob = thread[o].ob /\ t.seen = thread[o].seen /\ t.missing = thread[o].missing
      BY <1>2 DEF Thread
    <2>2. thread' = Run(o, t)
      BY <1>7
    <2> HIDE DEF t
    <2>3. thread[o].ob \in DOMAIN rumors
      BY DEF IInv, Core, Threads
    <2>4. \A d \in DOMAIN t.seen \cup DOMAIN t.missing : Has(d)
      BY <2>1 DEF IInv, Core, Known
    <2>5. \A p \in DOMAIN thread : thread[p].pc = "start" /\ p # o => p # t.ob
      BY <2>1, ObNotStarting DEF IInv
    <2> QED
      BY <1>6, <2>1, <2>2, <2>3, <2>4, <2>5
  <1>8. ASSUME NEW last \in BagToSet(rumors[o]), cached[At(o)] # None,
               thread' = Run(o, [[thread[o] EXCEPT !.pc = "merge"] EXCEPT
                 !.ob = cached[At(o)],
                 !.seen = rumors[cached[At(o)]],
                 !.missing = SetToBag(BagToSet(rumors[o]) \ BagToSet(rumors[cached[At(o)]])),
                 !.addToChan = ~ BagIn(last, rumors[cached[At(o)]])])
        PROVE  Core' /\ \A d \in Delegate : Has(d) => Has(d)'
    <2> DEFINE c == cached[At(o)]
               ms == SetToBag(BagToSet(rumors[o]) \ BagToSet(rumors[c]))
               b == ~ BagIn(last, rumors[c])
               t == [[thread[o] EXCEPT !.pc = "merge"] EXCEPT
                       !.ob = c, !.seen = rumors[c], !.missing = ms, !.addToChan = b]
    <2>1. c \in DOMAIN rumors /\ c \in Object /\ rumors[c] \in RumorList /\ rumors[o] \in RumorList
      BY <1>2, <1>3, <1>8 DEF IInv, Core, Caches, Objects
    <2>2. ms \in RumorList /\ DOMAIN ms = DOMAIN rumors[o] \ DOMAIN rumors[c]
      <3>1. BagToSet(rumors[o]) \ BagToSet(rumors[c]) \in SUBSET Delegate
        BY <2>1, RumorsDomain DEF BagToSet
      <3>2. ms \in RumorList /\ DOMAIN ms = BagToSet(rumors[o]) \ BagToSet(rumors[c])
        BY <3>1, SetIsRumors
      <3> QED
        BY <3>2 DEF BagToSet
    <2>3. b \in BOOLEAN
      BY Zenon
    <2>4. thread' = Run(o, t)
      BY <1>8
    <2> HIDE DEF c, ms, b
    <2>5. /\ t \in Thread /\ t.pc = "merge" /\ t.caller = thread[o].caller /\ t.todo = thread[o].todo
          /\ t.ob = c /\ t.seen = rumors[c] /\ t.missing = ms
      BY <1>2, <2>1, <2>2, <2>3 DEF Thread
    <2> HIDE DEF t
    <2>6. \A p \in DOMAIN thread : thread[p].pc = "start" => p # c
      BY <1>3 DEF IInv, Core, Starts, c
    <2>7. \A d \in DOMAIN rumors[c] : Has(d)
      BY <2>1, <2>6 DEF IInv, Core, Known
    <2>8. \A d \in DOMAIN t.seen \cup DOMAIN t.missing : Has(d)
      BY <1>5, <2>2, <2>5, <2>7
    <2> QED
      BY <1>6, <2>1, <2>4, <2>5, <2>6, <2>8
  <1>9. Core' /\ \A d \in Delegate : Has(d) => Has(d)'
    BY <1>7, <1>8 DEF Recv
  <1>10. Rest'
    BY <1>1 DEF IInv, Rest, Submitter, Down
  <1> QED
    BY <1>1, <1>9, <1>10, SentKept, QueuedKept DEF IInv

LEMMA InvMerge ==
  ASSUME IInv, NEW o \in DOMAIN thread, Merge(o)
  PROVE  IInv'
  <1> DEFINE t == thread[o]
             d == At(o)
  <1>1. /\ UNCHANGED <<chan, sent, unavailable, queued, setting, submitted, faults>>
        /\ t.pc = "merge"
    BY DEF Merge
  <1>2. /\ o \in DOMAIN rumors /\ o \in Object /\ t \in Thread /\ d \notin t.todo
        /\ t.ob \in DOMAIN rumors /\ t.ob \in Object
    BY DEF IInv, Core, Threads, Objects
  <1>3. d \in Delegate /\ t.ob # None
    BY <1>2, ObjectAt, NoneIsNoObject
  <1>4. \A p \in DOMAIN thread : thread[p].pc = "start" => p # t.ob /\ p # o
    BY <1>1, ObNotStarting DEF IInv
  <1>5. PICK base \in IF t.missing = EmptyBag THEN {rumors[t.ob]} ELSE {rumors[t.ob], t.seen} :
          LET merged == base (+) t.missing IN
          \/ /\ BagIn(d, merged)
             /\ thread' = Run(o, [t EXCEPT !.pc = "send", !.missing = EmptyBag, !.seen = EmptyBag])
             /\ UNCHANGED <<cached, receipt>>
             /\ rumors' = [rumors EXCEPT ![t.ob] = merged]
          \/ /\ ~ BagIn(d, merged)
             /\ cacheOnFirstReceive(o, t.ob)
             /\ rumors' = Collect([rumors EXCEPT ![t.ob] = merged (+) SetToBag({d})])
    BY DEF Merge
  <1> DEFINE merged == base (+) t.missing
  <1>6. base \in {rumors[t.ob], t.seen}
    OBVIOUS
  <1>7. base \in RumorList /\ t.missing \in RumorList
    BY <1>2, <1>6, ThreadFields DEF IInv, Core, Objects
  <1>8. \A e \in DOMAIN base \cup DOMAIN t.missing : Has(e)
    <2>1. \A e \in DOMAIN rumors[t.ob] : Has(e)
      BY <1>2, <1>4 DEF IInv, Core, Known
    <2>2. \A e \in DOMAIN t.seen \cup DOMAIN t.missing : Has(e)
      BY DEF IInv, Core, Known
    <2> QED
      BY <1>6, <2>1, <2>2
  <1>9. merged \in RumorList /\ DOMAIN merged = DOMAIN base \cup DOMAIN t.missing
    BY <1>7, UnionIsRumors
  <1>10. /\ \A x \in DOMAIN rumors : rumors[x] \in RumorList
         /\ cached \in [Delegate -> Object \cup {None}]
         /\ chan' \in [Delegate -> SUBSET Object]
         /\ \A e \in Delegate : chan'[e] \subseteq chan[e] /\ o \notin chan'[e]
         /\ \A e \in DOMAIN rumors[o] : Has(e)
    BY <1>1, <1>2, <1>4 DEF IInv, Core, Objects, Caches, Known
  <1>11. CASE /\ BagIn(d, merged)
              /\ thread' = Run(o, [t EXCEPT !.pc = "send", !.missing = EmptyBag, !.seen = EmptyBag])
              /\ UNCHANGED <<cached, receipt>>
              /\ rumors' = [rumors EXCEPT ![t.ob] = merged]
    <2> DEFINE u == [t EXCEPT !.pc = "send", !.missing = EmptyBag, !.seen = EmptyBag]
               objs == [rumors EXCEPT ![t.ob] = merged]
    <2>1. /\ u \in Thread /\ u.pc = "send" /\ u.caller = t.caller /\ u.ob = t.ob /\ u.todo = t.todo
          /\ DOMAIN u.seen = {} /\ DOMAIN u.missing = {}
      BY <1>2, EmptyIsRumors DEF Thread
    <2>2. thread' = Run(o, u) /\ rumors' = objs
      BY <1>11
    <2>3. \A e : Has(e)' <=> Has(e)
      BY <1>11 DEF Has
    <2>4. Has(d)
      BY <1>8, <1>9, <1>11 DEF BagIn, BagToSet
    <2> HIDE DEF merged
    <2>5. /\ DOMAIN objs = DOMAIN rumors /\ objs[t.ob] = merged
          /\ \A x \in DOMAIN rumors : x # t.ob => objs[x] = rumors[x]
      BY <1>2
    <2> HIDE DEF u, objs
    <2>6. /\ \A x \in DOMAIN objs : objs[x] \in RumorList
          /\ \A x \in DOMAIN objs : objs[x] = rumors[x] \/ \A e \in DOMAIN objs[x] : Has(e)'
          /\ \A e \in DOMAIN objs[o] : Has(e)'
      BY <1>2, <1>8, <1>9, <1>10, <2>3, <2>5
    <2>7. Core' /\ \A e \in Delegate : Has(e) => Has(e)'
      <3>1. Core /\ cached' = cached
        BY <1>11 DEF IInv
      <3> QED
        BY <1>1, <1>2, <1>4, <1>10, <2>1, <2>2, <2>3, <2>4, <2>5, <2>6, <3>1, Becomes
    <2>8. Rest'
      BY <1>1, <1>11 DEF IInv, Rest, Submitter, Down
    <2> QED
      BY <1>1, <2>7, <2>8, SentKept, QueuedKept DEF IInv
  <1>12. CASE /\ cacheOnFirstReceive(o, t.ob)
              /\ rumors' = Collect([rumors EXCEPT ![t.ob] = merged (+) SetToBag({d})])
    <2> DEFINE u == [t EXCEPT !.pc = "send", !.missing = EmptyBag, !.seen = EmptyBag, !.todo = Others(d)]
               all == merged (+) SetToBag({d})
               objs == [rumors EXCEPT ![t.ob] = all]
    <2>0. Others(d) \in SUBSET Delegate /\ d \notin Others(d)
      BY DEF Others
    <2>1. /\ u \in Thread /\ u.pc = "send" /\ u.caller = t.caller /\ u.ob = t.ob /\ u.todo = Others(d)
          /\ DOMAIN u.seen = {} /\ DOMAIN u.missing = {}
      BY <1>2, <2>0, EmptyIsRumors DEF Thread
    <2>2. /\ thread' = Run(o, u) /\ rumors' = Collect(objs)
          /\ cached' = [cached EXCEPT ![d] = t.ob] /\ receipt' = [receipt EXCEPT ![d] = "Pending"]
      BY <1>12 DEF cacheOnFirstReceive
    <2>3. /\ cached' \in [Delegate -> Object \cup {None}] /\ cached'[d] = t.ob
          /\ \A e \in Delegate : cached'[e] \in {cached[e], t.ob}
      BY <1>2, <1>3, <1>10, <2>2
    <2>4. Has(d)' /\ \A e \in Delegate : Has(e) => Has(e)'
      BY <1>3, <2>3 DEF Has
    <2> HIDE DEF merged
    <2>5. all \in RumorList /\ DOMAIN all = DOMAIN merged \cup {d}
      <3>1. SetToBag({d}) \in RumorList /\ DOMAIN SetToBag({d}) = {d}
        BY <1>3, SetIsRumors
      <3> QED
        BY <1>9, <3>1, UnionIsRumors
    <2> HIDE DEF all
    <2>6. /\ DOMAIN objs = DOMAIN rumors /\ objs[t.ob] = all
          /\ \A x \in DOMAIN rumors : x # t.ob => objs[x] = rumors[x]
      BY <1>2
    <2> HIDE DEF u, objs
    <2>7. \A e \in DOMAIN all : Has(e)'
      <3>1. DOMAIN merged \subseteq Delegate
        BY <1>9, RumorsDomain
      <3> QED
        BY <1>8, <1>9, <2>4, <2>5, <3>1
    <2>8. \A e \in DOMAIN rumors[o] : Has(e)'
      <3>1. DOMAIN rumors[o] \subseteq Delegate
        BY <1>2, <1>10, RumorsDomain
      <3> QED
        BY <1>10, <2>4, <3>1
    <2>9. /\ \A x \in DOMAIN objs : objs[x] \in RumorList
          /\ \A x \in DOMAIN objs : objs[x] = rumors[x] \/ \A e \in DOMAIN objs[x] : Has(e)'
          /\ \A e \in DOMAIN objs[o] : Has(e)'
      BY <1>2, <1>10, <2>5, <2>6, <2>7, <2>8
    <2>10. Core'
      <3>1. Core
        BY DEF IInv
      <3> QED
        BY <1>1, <1>2, <1>4, <1>10, <2>0, <2>1, <2>2, <2>3, <2>4, <2>6, <2>9, <3>1, Becomes
    <2>11. Rest'
      BY <1>1, <2>2 DEF IInv, Rest, Submitter, Down
    <2> QED
      BY <1>1, <2>4, <2>10, <2>11, SentKept, QueuedKept DEF IInv
  <1> QED
    BY <1>5, <1>11, <1>12

\* The errors of peerGossipGrpc before its call is answered.
Fails(d, q) == \/ CallFails(d, q) /\ faults' = faults
               \/ Unmarked

LEMMA UnmarkedKeepsRest ==
  ASSUME Rest, Unmarked, UNCHANGED <<queued, receipt, setting, submitted>>
  PROVE  Rest' /\ sent' = sent
  <1>1. setting \in Setting /\ setting.faults \in Nat
    BY GossipAssumption DEF Rest
  <1>2. faults' \in 0 .. setting'.faults
    BY <1>1 DEF Rest, Unmarked
  <1> QED
    BY <1>2 DEF Rest, Submitter, Down, Unmarked

LEMMA FailsKeepsRest ==
  ASSUME Rest, NEW d \in Delegate, NEW q \in Delegate, q # d, Fails(d, q),
         UNCHANGED <<queued, receipt, setting, submitted>>
  PROVE  Rest' /\ sent' = sent
  <1>1. CASE CallFails(d, q) /\ faults' = faults
    BY <1>1 DEF Rest, Submitter, Down, CallFails
  <1> QED
    BY <1>1, UnmarkedKeepsRest DEF Fails

LEMMA InvSend ==
  ASSUME IInv, NEW o \in DOMAIN thread, Send(o)
  PROVE  IInv'
  <1> DEFINE t == thread[o]
  <1>1. UNCHANGED <<cached, chan, queued, receipt, setting, submitted>> /\ t.pc = "send"
    BY DEF Send
  <1>2. /\ o \in DOMAIN rumors /\ o \in Object /\ t \in Thread /\ At(o) \notin t.todo
        /\ t.ob \in DOMAIN rumors
    BY DEF IInv, Core, Threads, Objects
  <1>3. At(o) \in Delegate /\ t.todo \in SUBSET Delegate
    BY <1>2, ObjectAt, ThreadFields
  <1>4. \A p \in DOMAIN thread : thread[p].pc = "start" => p # t.ob /\ p # o
    BY <1>1, ObNotStarting DEF IInv
  <1>5. /\ \A x \in DOMAIN rumors : rumors[x] \in RumorList
        /\ cached' \in [Delegate -> Object \cup {None}]
        /\ chan' \in [Delegate -> SUBSET Object]
        /\ \A d \in Delegate : chan'[d] \subseteq chan[d] /\ o \notin chan'[d]
        /\ \A d : Has(d)' <=> Has(d)
    BY <1>1 DEF IInv, Core, Objects, Caches, Has
  <1>6. /\ \A d \in DOMAIN rumors[o] : Has(d)
        /\ \A d \in DOMAIN t.seen \cup DOMAIN t.missing : Has(d)
        /\ Has(At(o))
    BY <1>1, <1>2 DEF IInv, Core, Known
  <1>7. PICK q \in t.todo \ sent[At(o)] :
          LET rest == [t EXCEPT !.todo = @ \ {q}] IN
          \/ Call(o, [rest EXCEPT !.pc = "sendWait"], q, t.ob) /\ UNCHANGED <<unavailable, sent, faults>>
          \/ /\ Fails(At(o), q)
             /\ thread' = Run(o, rest)
             /\ UNCHANGED rumors
    BY DEF Send, Fails
  <1>8. q \in Delegate /\ q # At(o)
    BY <1>2, <1>3
  <1>9. CASE /\ Call(o, [[t EXCEPT !.todo = @ \ {q}] EXCEPT !.pc = "sendWait"], q, t.ob)
             /\ UNCHANGED <<unavailable, sent, faults>>
    <2> DEFINE u == [[t EXCEPT !.todo = @ \ {q}] EXCEPT !.pc = "sendWait"]
    <2>1. /\ u \in Thread /\ u.pc = "sendWait" /\ u.caller = t.caller /\ u.ob = t.ob
          /\ u.todo = t.todo \ {q} /\ u.seen = t.seen /\ u.missing = t.missing
      BY <1>2 DEF Thread
    <2>2. Call(o, u, q, t.ob)
      BY <1>9
    <2> HIDE DEF u
    <2>3. Core' /\ \A d \in Delegate : Has(d) => Has(d)'
      <3>1. Core /\ cached' = cached /\ At(o) \notin u.todo
        BY <1>1, <1>2, <2>1 DEF IInv
      <3> QED
        BY <1>1, <1>2, <1>4, <1>5, <1>6, <1>8, <2>1, <2>2, <3>1, CallsOut
    <2>4. Rest'
      BY <1>1, <1>9 DEF IInv, Rest, Submitter, Down
    <2> QED
      BY <1>1, <1>9, <2>3, <2>4, SentKept, QueuedKept DEF IInv
  <1>10. CASE Fails(At(o), q) /\ thread' = Run(o, [t EXCEPT !.todo = @ \ {q}]) /\ UNCHANGED rumors
    <2> DEFINE u == [t EXCEPT !.todo = @ \ {q}]
    <2>1. /\ u \in Thread /\ u.pc = "send" /\ u.caller = t.caller /\ u.ob = t.ob
          /\ u.todo = t.todo \ {q} /\ u.seen = t.seen /\ u.missing = t.missing
      BY <1>1, <1>2 DEF Thread
    <2>2. thread' = Run(o, u)
      BY <1>10
    <2> HIDE DEF u
    <2>3. Core' /\ \A d \in Delegate : Has(d) => Has(d)'
      <3>1. Core /\ rumors' = rumors /\ cached' = cached /\ At(o) \notin u.todo
        BY <1>1, <1>2, <1>10, <2>1 DEF IInv
      <3> QED
        BY <1>1, <1>2, <1>4, <1>5, <1>6, <2>1, <2>2, <3>1, Becomes
    <2>4. Rest' /\ sent' = sent
      BY <1>1, <1>3, <1>8, <1>10, FailsKeepsRest DEF IInv
    <2> QED
      BY <1>1, <2>3, <2>4, SentKept, QueuedKept DEF IInv
  <1> QED
    BY <1>7, <1>9, <1>10

LEMMA InvFinish ==
  ASSUME IInv, NEW o \in DOMAIN thread, Finish(o)
  PROVE  IInv'
  <1> DEFINE t == thread[o]
             c == t.caller
             d == At(o)
             received == IF t.addToChan THEN [chan EXCEPT ![d] = @ \cup {o}] ELSE chan
  <1>1. /\ UNCHANGED <<cached, queued, receipt, setting, submitted>>
        /\ t.pc = "send" /\ thread' = Return(End(o), c) /\ rumors' = Collect(rumors)
        /\ \/ /\ chan' = received
              /\ sent' = IF c = None THEN sent ELSE [sent EXCEPT ![At(c)] = @ \cup {d}]
              /\ UNCHANGED <<unavailable, faults>>
           \/ c # None /\ chan' = PutBack(received, c) /\ Unmarked
    BY DEF Finish
  <1>2. /\ o \in DOMAIN rumors /\ o \in Object /\ d \in Delegate /\ Has(d)
        /\ \A x \in DOMAIN thread : thread[x] \in Thread
    <2>1. o \in DOMAIN rumors /\ o \in Object /\ \A x \in DOMAIN thread : thread[x] \in Thread
      BY DEF IInv, Core, Threads, Objects
    <2> QED
      BY <1>1, <2>1, ObjectAt DEF IInv, Core, Known
  <1>3. c # None => /\ c \in DOMAIN thread /\ c # o /\ At(c) # d
                    /\ thread[c].pc \in {"sendWait", "workerWait"}
                    /\ \A x \in DOMAIN thread : thread[x].caller = c => x = o
    BY DEF IInv, Core, Calls
  <1>4. /\ DOMAIN End(o) = DOMAIN thread \ {o}
        /\ \A x \in DOMAIN thread : x # o => End(o)[x] = thread[x]
    BY EndIs
  <1>5. /\ DOMAIN thread' \subseteq DOMAIN thread \ {o} /\ (DOMAIN thread \ {o}) \ {c} \subseteq DOMAIN thread'
        /\ \A x \in DOMAIN thread' : x # c => thread'[x] = thread[x]
        /\ c # None => \/ thread[c].pc = "workerWait" /\ c \notin DOMAIN thread'
                       \/ /\ thread[c].pc = "sendWait" /\ c \in DOMAIN thread'
                          /\ thread'[c] = [thread[c] EXCEPT !.pc = "send"]
    <2>1. c # None => c \in DOMAIN End(o) /\ End(o)[c] \in Thread /\ End(o)[c].pc \in {"sendWait", "workerWait"}
      BY <1>2, <1>3, <1>4
    <2>2. thread' = Return(End(o), c)
      BY <1>1
    <2> HIDE DEF c
    <2>3. /\ DOMAIN thread' \subseteq DOMAIN End(o) /\ DOMAIN End(o) \ {c} \subseteq DOMAIN thread'
          /\ \A x \in DOMAIN thread' : x # c => thread'[x] = End(o)[x]
          /\ c # None => \/ End(o)[c].pc = "workerWait" /\ c \notin DOMAIN thread'
                         \/ /\ End(o)[c].pc = "sendWait" /\ c \in DOMAIN thread'
                            /\ thread'[c] = [End(o)[c] EXCEPT !.pc = "send"]
      BY <2>1, <2>2, ReturnIs
    <2> QED
      BY <1>3, <1>4, <2>3 DEF c
  <1>6. ASSUME NEW x \in DOMAIN thread'
        PROVE  /\ thread'[x] \in Thread
               /\ thread'[x].ob = thread[x].ob /\ thread'[x].todo = thread[x].todo
               /\ thread'[x].seen = thread[x].seen /\ thread'[x].missing = thread[x].missing
               /\ thread'[x].caller = thread[x].caller
               /\ \/ thread'[x].pc = thread[x].pc
                  \/ thread[x].pc = "sendWait" /\ thread'[x].pc = "send"
    <2>1. x \in DOMAIN thread /\ thread[x] \in Thread
      BY <1>2, <1>5
    <2>2. CASE thread'[x] = thread[x]
      BY <2>1, <2>2
    <2>3. CASE thread'[x] = [thread[x] EXCEPT !.pc = "send"] /\ thread[x].pc = "sendWait"
      BY <2>1, <2>3 DEF Thread
    <2>4. x \in Object /\ x # None
      BY <2>1, NoneIsNoObject DEF IInv, Core, Threads, Objects
    <2> QED
      BY <1>5, <2>2, <2>3, <2>4
  <1>7. \A x \in DOMAIN thread' : thread'[x].caller # None =>
          thread'[x].caller \in DOMAIN thread' /\ thread'[thread'[x].caller].pc = thread[thread'[x].caller].pc
    <2> SUFFICES ASSUME NEW x \in DOMAIN thread', thread'[x].caller # None
                 PROVE  /\ thread'[x].caller \in DOMAIN thread'
                        /\ thread'[thread'[x].caller].pc = thread[thread'[x].caller].pc
      OBVIOUS
    <2> DEFINE y == thread[x].caller
    <2>1. x \in DOMAIN thread /\ x # o /\ thread'[x].caller = y /\ y # None
      BY <1>5, <1>6
    <2>2. y \in DOMAIN thread /\ thread[y].pc \in {"sendWait", "workerWait"}
      BY <2>1 DEF IInv, Core, Calls
    <2>3. y # o /\ y # c
      BY <1>1, <1>3, <2>1, <2>2
    <2> QED
      BY <1>5, <2>1, <2>2, <2>3
  <1>8. /\ cached' \in [Delegate -> Object \cup {None}]
        /\ chan' \in [Delegate -> SUBSET Object]
        /\ \A e \in Delegate : \A x \in chan'[e] :
             x \in chan[e] \/ (x \in DOMAIN thread /\ x \notin DOMAIN thread' /\ At(x) = e)
    <2>1. chan \in [Delegate -> SUBSET Object] /\ cached' \in [Delegate -> Object \cup {None}]
      BY <1>1 DEF IInv, Core, Caches
    <2>2. o \notin DOMAIN thread' /\ At(o) = d
      BY <1>5
    <2>3. chan' = received \/ (c # None /\ chan' = PutBack(received, c))
      BY <1>1
    <2>4. received = chan \/ received = [chan EXCEPT ![d] = @ \cup {o}]
      OBVIOUS
    <2>5. c # None => c \in DOMAIN thread /\ c \in Object /\ At(c) \in Delegate
      BY <1>3, ObjectAt DEF IInv, Core, Threads, Objects
    <2>6. c # None /\ thread[c].pc = "workerWait" => c \notin DOMAIN thread'
      BY <1>5
    <2> HIDE DEF t, c, d, received
    <2>7. /\ received \in [Delegate -> SUBSET Object]
          /\ \A e \in Delegate : \A x \in received[e] : x \in chan[e] \/ (x = o /\ e = d)
      BY <1>2, <2>1, <2>4
    <2>8. CASE chan' = received
      BY <1>2, <2>1, <2>2, <2>7, <2>8
    <2>9. CASE c # None /\ thread[c].pc = "workerWait" /\ chan' = [received EXCEPT ![At(c)] = @ \cup {c}]
      <3>1. /\ chan' \in [Delegate -> SUBSET Object]
            /\ \A e \in Delegate : \A x \in chan'[e] : x \in received[e] \/ (x = c /\ e = At(c))
        BY <2>5, <2>7, <2>9
      <3> QED
        BY <1>2, <2>1, <2>2, <2>5, <2>6, <2>7, <2>9, <3>1
    <2> QED
      BY <2>3, <2>8, <2>9 DEF PutBack
  <1>9. Core' /\ \A e \in Delegate : Has(e) => Has(e)'
    <2>1. Core /\ cached' = cached
      BY <1>1 DEF IInv
    <2>2. \A x \in DOMAIN thread : thread[x].pc = "start" => x \in DOMAIN thread'
      <3> SUFFICES ASSUME NEW x \in DOMAIN thread, thread[x].pc = "start"
                   PROVE  x \in DOMAIN thread'
        OBVIOUS
      <3>1. x # None
        BY NoneIsNoObject DEF IInv, Core, Threads, Objects
      <3> QED
        BY <1>1, <1>3, <1>5, <3>1
    <2>3. DOMAIN thread' \subseteq DOMAIN thread
      BY <1>5
    <2> HIDE DEF t, c, d, received
    <2> QED
      BY <1>1, <1>6, <1>7, <1>8, <2>1, <2>2, <2>3, Leaves
  <1>10. /\ Rest' /\ SentMeansReceived'
    <2>0. \A e \in Delegate : Has(e)' <=> Has(e)
      BY <1>1 DEF Has
    <2>1. CASE sent' = sent /\ UNCHANGED <<unavailable, faults>>
      <3>1. sent' = sent
        BY <2>1
      <3>2. Rest'
        BY <1>1, <2>1 DEF IInv, Rest, Submitter, Down
      <3> QED
        BY <1>9, <3>1, <3>2, SentKept DEF IInv
    <2>2. CASE c # None /\ sent' = [sent EXCEPT ![At(c)] = @ \cup {d}] /\ UNCHANGED <<unavailable, faults>>
      <3>1. sent' = [sent EXCEPT ![At(c)] = @ \cup {d}]
        BY <2>2
      <3>2. c \in Object /\ At(c) # d
        BY <1>3, <2>2 DEF IInv, Core, Threads, Objects
      <3>3. At(c) \in Delegate
        BY <3>2, ObjectAt
      <3> HIDE DEF t, c, received
      <3>4. /\ sent' \in [Delegate -> SUBSET Delegate] /\ \A e \in Delegate : e \notin sent'[e]
            /\ \A e \in Delegate : sent'[e] \subseteq sent[e] \cup {d}
        BY <1>2, <3>1, <3>2, <3>3 DEF IInv, Rest
      <3>5. Rest'
        BY <1>1, <2>2, <3>4 DEF IInv, Rest, Submitter, Down
      <3>6. SentMeansReceived'
        BY <1>1, <1>2, <3>4 DEF IInv, SentMeansReceived, Has
      <3> QED
        BY <3>5, <3>6
    <2>3. CASE Unmarked
      <3>1. Rest' /\ sent' = sent
        BY <1>1, <1>2, <1>3, <2>3, UnmarkedKeepsRest DEF IInv
      <3> QED
        BY <1>9, <3>1, SentKept DEF IInv
    <2>4. \/ sent' = sent /\ UNCHANGED <<unavailable, faults>>
          \/ c # None /\ sent' = [sent EXCEPT ![At(c)] = @ \cup {d}] /\ UNCHANGED <<unavailable, faults>>
          \/ Unmarked
      BY <1>1
    <2> QED
      BY <2>1, <2>2, <2>3, <2>4
  <1> QED
    BY <1>1, <1>9, <1>10, QueuedKept DEF IInv

LEMMA InvGiveUp ==
  ASSUME IInv, NEW o \in DOMAIN thread, GiveUp(o)
  PROVE  IInv'
  <1> DEFINE c == thread[o].caller
             u == [thread[o] EXCEPT !.caller = None]
             f == Run(o, u)
  <1>1. /\ UNCHANGED <<rumors, cached, queued, receipt, setting, submitted>>
        /\ c # None /\ faults < setting.faults /\ faults' = faults + 1
        /\ CallFails(At(c), At(o)) /\ thread' = Return(f, c)
        /\ chan' = IF thread[c].pc = "workerWait" THEN [chan EXCEPT ![At(c)] = @ \cup {c}] ELSE chan
    BY DEF GiveUp, PutBack
  <1>2. \A x \in DOMAIN thread : x \in DOMAIN rumors /\ x \in Object /\ thread[x] \in Thread
    BY DEF IInv, Core, Threads, Objects
  <1>3. /\ c \in DOMAIN thread /\ c # o /\ At(c) # At(o)
        /\ thread[c].pc \in {"sendWait", "workerWait"}
        /\ \A x \in DOMAIN thread : thread[x].caller = c => x = o
    BY <1>1 DEF IInv, Core, Calls
  <1>4. At(c) \in Delegate /\ At(o) \in Delegate
    BY <1>2, <1>3, ObjectAt
  <1>5. /\ u \in Thread /\ u.pc = thread[o].pc /\ u.caller = None /\ u.ob = thread[o].ob
        /\ u.todo = thread[o].todo /\ u.seen = thread[o].seen /\ u.missing = thread[o].missing
    BY <1>2 DEF Thread
  <1>6. /\ DOMAIN f = DOMAIN thread /\ f[o] = u
        /\ \A x \in DOMAIN thread : x # o => f[x] = thread[x]
    <2> HIDE DEF u
    <2> QED
      BY DEF Run, With
  <1> HIDE DEF u, f
  <1>7. /\ DOMAIN thread' \subseteq DOMAIN thread /\ DOMAIN thread \ {c} \subseteq DOMAIN thread'
        /\ \A x \in DOMAIN thread' : x # c => thread'[x] = f[x]
        /\ \/ thread[c].pc = "workerWait" /\ c \notin DOMAIN thread'
           \/ /\ thread[c].pc = "sendWait" /\ c \in DOMAIN thread'
              /\ thread'[c] = [thread[c] EXCEPT !.pc = "send"]
    <2>1. c \in DOMAIN f /\ f[c] \in Thread /\ f[c].pc \in {"sendWait", "workerWait"} /\ f[c] = thread[c]
      BY <1>2, <1>3, <1>6
    <2>2. thread' = Return(f, c) /\ c # None
      BY <1>1
    <2> HIDE DEF c
    <2>3. /\ DOMAIN thread' \subseteq DOMAIN f /\ DOMAIN f \ {c} \subseteq DOMAIN thread'
          /\ \A x \in DOMAIN thread' : x # c => thread'[x] = f[x]
          /\ \/ f[c].pc = "workerWait" /\ c \notin DOMAIN thread'
             \/ /\ f[c].pc = "sendWait" /\ c \in DOMAIN thread'
                /\ thread'[c] = [f[c] EXCEPT !.pc = "send"]
      BY <2>1, <2>2, ReturnIs
    <2> QED
      BY <1>6, <2>1, <2>3
  <1>8. ASSUME NEW x \in DOMAIN thread'
        PROVE  /\ thread'[x] \in Thread
               /\ thread'[x].ob = thread[x].ob /\ thread'[x].todo = thread[x].todo
               /\ thread'[x].seen = thread[x].seen /\ thread'[x].missing = thread[x].missing
               /\ thread'[x].caller \in {thread[x].caller, None} /\ (x = o => thread'[x].caller = None)
               /\ \/ thread'[x].pc = thread[x].pc
                  \/ thread[x].pc = "sendWait" /\ thread'[x].pc = "send"
    <2>1. x \in DOMAIN thread /\ thread[x] \in Thread
      BY <1>2, <1>7
    <2>2. CASE x = o
      BY <1>3, <1>5, <1>6, <1>7, <2>2
    <2>3. CASE x = c
      <3>1. thread'[x] = [thread[x] EXCEPT !.pc = "send"] /\ thread[x].pc = "sendWait" /\ x # o
        BY <1>3, <1>7, <2>3
      <3> QED
        BY <2>1, <3>1 DEF Thread
    <2>4. CASE x \notin {o, c}
      BY <1>6, <1>7, <2>1, <2>4
    <2> QED
      BY <2>2, <2>3, <2>4
  <1>9. \A x \in DOMAIN thread' : thread'[x].caller # None =>
          thread'[x].caller \in DOMAIN thread' /\ thread'[thread'[x].caller].pc = thread[thread'[x].caller].pc
    <2> SUFFICES ASSUME NEW x \in DOMAIN thread', thread'[x].caller # None
                 PROVE  /\ thread'[x].caller \in DOMAIN thread'
                        /\ thread'[thread'[x].caller].pc = thread[thread'[x].caller].pc
      OBVIOUS
    <2> DEFINE y == thread[x].caller
    <2>1. x \in DOMAIN thread /\ x # o /\ thread'[x].caller = y /\ y # None
      BY <1>7, <1>8
    <2>2. y \in DOMAIN thread /\ y # c
      BY <1>3, <2>1 DEF IInv, Core, Calls
    <2>3. y \in DOMAIN thread' /\ thread'[y] = f[y]
      BY <1>7, <2>2
    <2>4. f[y].pc = thread[y].pc
      BY <1>5, <1>6, <2>2
    <2> QED
      BY <2>1, <2>3, <2>4
  <1>10. /\ cached' \in [Delegate -> Object \cup {None}]
         /\ chan' \in [Delegate -> SUBSET Object]
         /\ \A e \in Delegate : \A x \in chan'[e] :
              x \in chan[e] \/ (x \in DOMAIN thread /\ x \notin DOMAIN thread' /\ At(x) = e)
    <2>1. chan \in [Delegate -> SUBSET Object] /\ cached' \in [Delegate -> Object \cup {None}]
      BY <1>1 DEF IInv, Core, Caches
    <2>2. CASE thread[c].pc = "workerWait"
      <3>1. chan' = [chan EXCEPT ![At(c)] = @ \cup {c}] /\ c \notin DOMAIN thread'
        BY <1>1, <1>7, <2>2
      <3>2. c \in Object /\ c \in DOMAIN thread
        BY <1>2, <1>3
      <3> HIDE DEF c
      <3>3. /\ chan' \in [Delegate -> SUBSET Object]
            /\ \A e \in Delegate : \A x \in chan'[e] : x \in chan[e] \/ (x = c /\ e = At(c))
        BY <1>4, <2>1, <3>1, <3>2
      <3> QED
        BY <2>1, <3>1, <3>2, <3>3
    <2>3. CASE thread[c].pc # "workerWait"
      <3>1. chan' = chan
        BY <1>1, <2>3
      <3> QED
        BY <2>1, <3>1
    <2> QED
      BY <2>2, <2>3
  <1>11. Core' /\ \A e \in Delegate : Has(e) => Has(e)'
    <2>1. Core /\ cached' = cached /\ rumors' = rumors
      BY <1>1 DEF IInv
    <2>2. \A x \in DOMAIN thread : thread[x].pc = "start" => x \in DOMAIN thread'
      BY <1>3, <1>7
    <2>3. DOMAIN thread' \subseteq DOMAIN thread
      BY <1>7
    <2> HIDE DEF c
    <2> QED
      BY <1>8, <1>9, <1>10, <2>1, <2>2, <2>3, Leaves
  <1>12. Rest' /\ sent' = sent
    <2>1. setting \in Setting /\ setting.faults \in Nat
      BY GossipAssumption DEF IInv, Rest
    <2>2. faults' \in 0 .. setting'.faults
      BY <1>1, <2>1 DEF IInv, Rest
    <2>3. /\ unavailable' = [unavailable EXCEPT ![At(c)] = @ \cup {At(o)}] /\ sent' = sent
      BY <1>1 DEF CallFails
    <2> HIDE DEF c
    <2>4. unavailable' \in [Delegate -> SUBSET Delegate] /\ \A e \in Delegate : e \notin unavailable'[e]
      BY <1>3, <1>4, <2>3 DEF IInv, Rest
    <2> QED
      BY <1>1, <2>2, <2>3, <2>4 DEF IInv, Rest, Submitter, Down
  <1> QED
    BY <1>1, <1>11, <1>12, SentKept, QueuedKept DEF IInv

LEMMA InvWorkerPush ==
  ASSUME IInv, NEW o \in DOMAIN thread, WorkerPush(o)
  PROVE  IInv'
  <1>1. /\ UNCHANGED <<cached, chan, sent, unavailable, receipt, setting, submitted, faults>>
        /\ thread[o].pc = "push" /\ thread' = End(o) /\ rumors' = Collect(rumors)
        /\ queued' = [queued EXCEPT ![At(o)] = Append(@, BagToSet(rumors[o]))]
    BY DEF WorkerPush
  <1>2. /\ o \in DOMAIN rumors /\ o \in Object /\ rumors[o] \in RumorList
        /\ \A x \in DOMAIN thread : thread[x] \in Thread
    BY DEF IInv, Core, Threads, Objects
  <1>3. At(o) \in Delegate /\ DOMAIN rumors[o] \in SUBSET Delegate
    BY <1>2, ObjectAt, RumorsDomain
  <1>4. /\ DOMAIN thread' = DOMAIN thread \ {o}
        /\ \A x \in DOMAIN thread' : thread'[x] = thread[x]
    BY <1>1, EndIs
  <1>5. \A x \in DOMAIN thread' : thread'[x].caller # None =>
          thread'[x].caller \in DOMAIN thread' /\ thread'[thread'[x].caller].pc = thread[thread'[x].caller].pc
    <2> SUFFICES ASSUME NEW x \in DOMAIN thread', thread'[x].caller # None
                 PROVE  /\ thread'[x].caller \in DOMAIN thread'
                        /\ thread'[thread'[x].caller].pc = thread[thread'[x].caller].pc
      OBVIOUS
    <2>1. x \in DOMAIN thread /\ thread'[x] = thread[x]
      BY <1>4
    <2>2. thread[x].caller \in DOMAIN thread /\ thread[x].caller # o
      BY <1>1, <2>1 DEF IInv, Core, Calls
    <2> QED
      BY <1>4, <2>1, <2>2
  <1>6. Core' /\ \A e \in Delegate : Has(e) => Has(e)'
    <2>1. Core /\ cached' = cached /\ chan' = chan /\ cached \in [Delegate -> Object \cup {None}]
          /\ chan \in [Delegate -> SUBSET Object]
      BY <1>1 DEF IInv, Core, Caches
    <2>2. \A x \in DOMAIN thread : thread[x].pc = "start" => x \in DOMAIN thread'
      BY <1>1, <1>4
    <2> QED
      BY <1>1, <1>2, <1>4, <1>5, <2>1, <2>2, Leaves
  <1>7. /\ queued' \in [Delegate -> Seq(SUBSET Delegate)]
        /\ \A d \in Delegate : queued'[d] = queued[d] \/ queued'[d] = Append(queued[d], DOMAIN rumors[o])
    BY <1>1, <1>3 DEF IInv, Rest, BagToSet
  <1>8. Rest'
    BY <1>1, <1>7 DEF IInv, Rest, Submitter, Down
  <1>9. QueuedMeansReceived'
    <2> SUFFICES ASSUME NEW d \in Delegate, NEW signers \in ToSet(queued'[d]), NEW q \in signers
                 PROVE  Has(q)
      BY <1>1 DEF QueuedMeansReceived, Has
    <2>1. queued[d] \in Seq(SUBSET Delegate)
      BY DEF IInv, Rest
    <2>2. signers \in ToSet(queued[d]) \/ signers = DOMAIN rumors[o]
      <3>1. DOMAIN rumors[o] \in SUBSET Delegate
        BY <1>3
      <3>2. CASE queued'[d] = queued[d]
        BY <3>2
      <3>3. CASE queued'[d] = Append(queued[d], DOMAIN rumors[o])
        <4>1. PICK i \in DOMAIN queued'[d] : signers = queued'[d][i]
          BY DEF ToSet
        <4>2. /\ DOMAIN queued'[d] = 1 .. Len(queued[d]) + 1 /\ Len(queued[d]) \in Nat
              /\ DOMAIN queued[d] = 1 .. Len(queued[d])
              /\ \A j \in 1 .. Len(queued[d]) : queued'[d][j] = queued[d][j]
              /\ queued'[d][Len(queued[d]) + 1] = DOMAIN rumors[o]
          BY <2>1, <3>1, <3>3
        <4>3. i \in DOMAIN queued[d] \/ i = Len(queued[d]) + 1
          BY <4>1, <4>2
        <4> QED
          BY <4>1, <4>2, <4>3 DEF ToSet
      <3> QED
        BY <1>7, <3>2, <3>3
    <2>3. CASE signers \in ToSet(queued[d])
      BY <2>3 DEF IInv, QueuedMeansReceived, Has
    <2>4. CASE signers = DOMAIN rumors[o]
      BY <1>1, <1>2, <2>4 DEF IInv, Core, Known
    <2> QED
      BY <2>2, <2>3, <2>4
  <1> QED
    BY <1>1, <1>6, <1>8, <1>9, SentKept DEF IInv

\* A gossip is taken from the channel, and no goroutine starts.
LEMMA TakenFromChannel ==
  ASSUME IInv, NEW d \in Delegate, NEW o \in chan[d],
         thread' = thread, rumors' = Collect(rumors), Take(o),
         cached' = cached \/ cached' = [cached EXCEPT ![d] = o]
  PROVE  Core' /\ \A e \in Delegate : Has(e) => Has(e)'
  <1>1. o \in DOMAIN rumors /\ o \in Object /\ o \notin DOMAIN thread /\ At(o) = d /\ Core
    BY DEF IInv, Core, Caches, Objects
  <1>2. /\ cached' \in [Delegate -> Object \cup {None}]
        /\ \A e \in Delegate : cached'[e] = cached[e] \/ cached'[e] = o
    BY <1>1 DEF IInv, Core, Caches
  <1>3. /\ chan' \in [Delegate -> SUBSET Object]
        /\ \A e \in Delegate : \A x \in chan'[e] : x \in chan[e]
    BY <1>1 DEF IInv, Core, Caches, Take
  <1>4. \A x \in DOMAIN thread : thread[x] \in Thread
    BY DEF IInv, Core, Threads
  <1>5. \A x \in DOMAIN thread : thread[x].caller # None => thread[x].caller \in DOMAIN thread
    BY DEF IInv, Core, Calls
  <1> QED
    BY <1>1, <1>2, <1>3, <1>4, <1>5, Leaves

LEMMA ReceiptKept ==
  ASSUME Rest, NEW d \in Delegate, NEW st \in {"GossipingTimedOut", "CouldNotReachConsensus"},
         updateReceiptStatus(d, st)
  PROVE  receipt' \in [Delegate -> {"none", "Pending", "GossipingTimedOut", "CouldNotReachConsensus"}]
  BY DEF Rest, updateReceiptStatus

LEMMA InvWorkerTimedOut ==
  ASSUME IInv, NEW d \in Delegate, NEW o \in chan[d], WorkerTimedOut(o)
  PROVE  IInv'
  <1>1. /\ UNCHANGED <<cached, sent, unavailable, queued, thread, setting, submitted, faults>>
        /\ Take(o) /\ rumors' = Collect(rumors) /\ updateReceiptStatus(d, "GossipingTimedOut")
    BY DEF WorkerTimedOut, IInv, Core, Caches
  <1>2. Core' /\ \A e \in Delegate : Has(e) => Has(e)'
    BY <1>1, TakenFromChannel
  <1>3. Rest'
    BY <1>1, ReceiptKept DEF IInv, Rest, Submitter, Down
  <1> QED
    BY <1>1, <1>2, <1>3, SentKept, QueuedKept DEF IInv

LEMMA InvWorkerNobodyLeft ==
  ASSUME IInv, NEW d \in Delegate, NEW o \in chan[d], WorkerNobodyLeft(o)
  PROVE  IInv'
  <1>1. /\ UNCHANGED <<sent, unavailable, queued, thread, setting, submitted, faults>>
        /\ Take(o) /\ rumors' = Collect(rumors) /\ updateReceiptStatus(d, "CouldNotReachConsensus")
        /\ cached' = [cached EXCEPT ![d] = o]
    BY DEF WorkerNobodyLeft, IInv, Core, Caches
  <1>2. Core' /\ \A e \in Delegate : Has(e) => Has(e)'
    BY <1>1, TakenFromChannel
  <1>3. Rest'
    BY <1>1, ReceiptKept DEF IInv, Rest, Submitter, Down
  <1> QED
    BY <1>1, <1>2, <1>3, SentKept, QueuedKept DEF IInv

LEMMA InvWorkerQuorum ==
  ASSUME IInv, NEW d \in Delegate, NEW o \in chan[d], WorkerQuorum(o)
  PROVE  IInv'
  <1>1. /\ UNCHANGED <<cached, sent, unavailable, queued, receipt, setting, submitted, faults>>
        /\ Take(o) /\ rumors' = Collect(rumors)
        /\ thread' = IF queued[At(o)] # <<>> THEN thread ELSE Run(o, NewThread("push", None, o))
    BY DEF WorkerQuorum
  <1>2. Rest'
    BY <1>1 DEF IInv, Rest, Submitter, Down
  <1>3. CASE thread' = thread
    <2>1. Core' /\ \A e \in Delegate : Has(e) => Has(e)'
      BY <1>1, <1>3, TakenFromChannel
    <2> QED
      BY <1>1, <1>2, <2>1, SentKept, QueuedKept DEF IInv
  <1>4. CASE thread' = Run(o, NewThread("push", None, o))
    <2> DEFINE t == NewThread("push", None, o)
    <2>1. o \in DOMAIN rumors /\ o \in Object /\ o \notin DOMAIN thread /\ At(o) = d /\ Core
      BY DEF IInv, Core, Caches, Objects
    <2>2. /\ t \in Thread /\ t.pc = "push" /\ t.caller = None /\ t.ob = o /\ t.todo = {}
          /\ DOMAIN t.seen = {} /\ DOMAIN t.missing = {}
      <3>1. "push" \in Pc
        BY DEF Pc
      <3> QED
        BY <2>1, <3>1, NewThreadIs
    <2> HIDE DEF t
    <2>3. /\ cached' = cached /\ cached \in [Delegate -> Object \cup {None}]
          /\ chan' \in [Delegate -> SUBSET Object]
          /\ \A e \in Delegate : chan'[e] \subseteq chan[e] /\ o \notin chan'[e]
          /\ \A x \in DOMAIN rumors : rumors[x] \in RumorList
      BY <1>1, <2>1 DEF IInv, Core, Caches, Take, Objects
    <2>4. \A e : Has(e)' <=> Has(e)
      BY <2>3 DEF Has
    <2>5. \A e \in DOMAIN rumors[o] : Has(e)
      BY <2>1 DEF Core, Known
    <2>6. thread' = Run(o, t)
      BY <1>4 DEF t
    <2>7. Core' /\ \A e \in Delegate : Has(e) => Has(e)'
      BY <1>1, <2>1, <2>2, <2>3, <2>4, <2>5, <2>6, Becomes
    <2> QED
      BY <1>1, <1>2, <2>7, SentKept, QueuedKept DEF IInv
  <1> QED
    BY <1>1, <1>3, <1>4

LEMMA InvWorkerCall ==
  ASSUME IInv, NEW d \in Delegate, NEW o \in chan[d], WorkerCall(o)
  PROVE  IInv'
  <1>1. UNCHANGED <<cached, queued, receipt, setting, submitted>>
    BY DEF WorkerCall
  <1>2. o \in DOMAIN rumors /\ o \in Object /\ o \notin DOMAIN thread /\ At(o) = d /\ Core
    BY DEF IInv, Core, Caches, Objects
  <1>3. PICK q \in getRandomDelegate(At(o)) :
          \/ /\ Take(o)
             /\ Call(o, NewThread("workerWait", None, o), q, o)
             /\ UNCHANGED <<unavailable, sent, faults>>
          \/ Fails(At(o), q) /\ UNCHANGED <<rumors, thread, chan>>
    BY DEF WorkerCall, Fails
  <1>4. q \in Delegate /\ q # d
    BY <1>2 DEF getRandomDelegate
  <1>5. CASE /\ Take(o)
             /\ Call(o, NewThread("workerWait", None, o), q, o)
             /\ UNCHANGED <<unavailable, sent, faults>>
    <2> DEFINE t == NewThread("workerWait", None, o)
    <2>1. /\ t \in Thread /\ t.pc = "workerWait" /\ t.caller = None /\ t.ob = o /\ t.todo = {}
          /\ DOMAIN t.seen = {} /\ DOMAIN t.missing = {}
      <3>1. "workerWait" \in Pc
        BY DEF Pc
      <3> QED
        BY <1>2, <3>1, NewThreadIs
    <2>2. Call(o, t, q, o)
      BY <1>5
    <2> HIDE DEF t
    <2>3. /\ cached' = cached /\ chan' \in [Delegate -> SUBSET Object]
          /\ \A e \in Delegate : chan'[e] \subseteq chan[e] /\ o \notin chan'[e]
      BY <1>1, <1>2, <1>5 DEF IInv, Core, Caches, Take
    <2>4. Core' /\ \A e \in Delegate : Has(e) => Has(e)'
      BY <1>2, <1>4, <2>1, <2>2, <2>3, CallsOut
    <2>5. Rest'
      BY <1>1, <1>5 DEF IInv, Rest, Submitter, Down
    <2> QED
      BY <1>1, <1>5, <2>4, <2>5, SentKept, QueuedKept DEF IInv
  <1>6. CASE Fails(At(o), q) /\ UNCHANGED <<rumors, thread, chan>>
    <2>1. \A e : Has(e)' <=> Has(e)
      BY <1>1 DEF Has
    <2>2. Core'
      BY <1>1, <1>6, <2>1 DEF IInv, Core, Objects, Threads, Caches, Calls, Starts, Known
    <2>3. Rest' /\ sent' = sent
      BY <1>1, <1>2, <1>4, <1>6, FailsKeepsRest DEF IInv
    <2> QED
      BY <1>1, <2>1, <2>2, <2>3, SentKept, QueuedKept DEF IInv
  <1> QED
    BY <1>3, <1>5, <1>6

-----------------------------------------------------------------------------
(* Theorems                                                                *)

LEMMA InvInit == Init => IInv
  <1> SUFFICES ASSUME Init PROVE IInv
    OBVIOUS
  <1>1. DOMAIN rumors = {} /\ DOMAIN thread = {}
    BY DEF Init
  <1>2. Objects
    BY <1>1, FS_EmptySet DEF Objects
  <1>3. Threads /\ Calls /\ Starts /\ Known
    BY <1>1 DEF Threads, Calls, Starts, Known
  <1>4. Caches
    BY DEF Init, Caches
  <1>5. Rest
    <2>1. setting \in Setting /\ setting.faults \in Nat
      BY GossipAssumption DEF Init
    <2> QED
      BY <2>1 DEF Init, Rest
  <1>6. SentMeansReceived /\ QueuedMeansReceived
    BY DEF Init, SentMeansReceived, QueuedMeansReceived, ToSet
  <1> QED
    BY <1>2, <1>3, <1>4, <1>5, <1>6 DEF IInv, Core

LEMMA InvStep == IInv /\ [Next]_vars => IInv'
  <1> SUFFICES ASSUME IInv, [Next]_vars PROVE IInv'
    OBVIOUS
  <1>1. ASSUME NEW d \in Delegate, SubmitCheck(d) PROVE IInv'
    BY <1>1, InvSubmitCheck
  <1>2. ASSUME NEW o \in DOMAIN thread, GiveUp(o) PROVE IInv'
    BY <1>2, InvGiveUp
  <1>3. ASSUME NEW o \in DOMAIN thread, Handle(o) PROVE IInv'
    BY <1>3, InvSubmitStart, InvRecv, InvMerge, InvSend, InvFinish, InvWorkerPush DEF Handle
  <1>4. ASSUME NEW d \in Delegate, NEW o \in chan[d], gossipWorker(o) PROVE IInv'
    BY <1>4, InvWorkerTimedOut, InvWorkerQuorum, InvWorkerNobodyLeft, InvWorkerCall DEF gossipWorker
  <1>5. CASE UNCHANGED vars
    <2>1. \A e : Has(e)' <=> Has(e)
      BY <1>5 DEF vars, Has
    <2>2. Core'
      BY <1>5, <2>1 DEF vars, IInv, Core, Objects, Threads, Caches, Calls, Starts, Known
    <2>3. Rest'
      BY <1>5 DEF vars, IInv, Rest, Submitter, Down
    <2> QED
      BY <1>5, <2>1, <2>2, <2>3, SentKept, QueuedKept DEF vars, IInv
  <1> QED
    BY <1>1, <1>2, <1>3, <1>4, <1>5 DEF Next, Progress

\* The invariant above holds in every behaviour of the gossip.
THEOREM GossipInvariant == Spec => []IInv
  BY InvInit, InvStep, PTL DEF Spec

\* Whatever is lost, abandoned or appended twice: a delegate is noted as sent
\* (CacheSentDelegate) only when it has the gossip, and so has every author of
\* a gossip that gossipWorker has pushed onto the queue.
THEOREM GossipIsConsistent == Spec => []GossipConsistent
  <1>1. IInv => GossipConsistent
    <2> SUFFICES ASSUME IInv PROVE GossipConsistent
      OBVIOUS
    <2>1. \A r \in RumorList : IsRumors(r)
      BY RumorsDomain DEF IsRumors, IsABag, BagToSet
    <2>2. \A o \in DOMAIN rumors : o \in Object /\ IsRumors(rumors[o])
      BY <2>1 DEF IInv, Core, Objects
    <2>3. \A o \in DOMAIN thread : IsThread(thread[o])
      <3> SUFFICES ASSUME NEW o \in DOMAIN thread PROVE IsThread(thread[o])
        OBVIOUS
      <3>1. thread[o] \in Thread /\ thread[o].ob \in DOMAIN rumors
        BY DEF IInv, Core, Threads
      <3>2. thread[o].caller \in DOMAIN thread \cup {None}
        BY DEF IInv, Core, Calls
      <3>3. IsRumors(thread[o].seen) /\ IsRumors(thread[o].missing)
        BY <2>1, <3>1, ThreadFields
      <3> QED
        BY <3>1, <3>2, <3>3, ThreadFields DEF IsThread, Pc
    <2>4. DOMAIN thread \subseteq DOMAIN rumors
      BY DEF IInv, Core, Threads
    <2>5. \A d \in Delegate :
            /\ cached[d] \in DOMAIN rumors \cup {None}
            /\ chan[d] \subseteq DOMAIN rumors \ DOMAIN thread
            /\ queued[d] \in Seq(SUBSET Delegate)
            /\ sent[d] \subseteq Delegate \ {d} /\ unavailable[d] \subseteq Delegate \ {d}
            /\ receipt[d] \in {"none", "Pending", "GossipingTimedOut", "CouldNotReachConsensus"}
      BY DEF IInv, Core, Caches, Rest
    <2>6. TypeOK
      BY <2>2, <2>3, <2>4, <2>5 DEF TypeOK, IInv, Rest
    <2> QED
      BY <2>6 DEF GossipConsistent, IInv
  <1> QED
    BY <1>1, GossipInvariant, PTL

-----------------------------------------------------------------------------
(* Two thirds, each delegate counted once                                  *)

\* No handler has appended to the list another one has compared with and is
\* about to append to: what a lock around synchronizeGossip would ensure.
Undisturbed ==
  \A o \in DOMAIN thread : thread[o].pc = "merge" /\ thread[o].missing # EmptyBag =>
    thread[o].seen = rumors[thread[o].ob]

Single(r) == \A d \in DOMAIN r : r[d] = 1

Fine(t) == Single(t.missing) /\ DOMAIN t.missing \cap DOMAIN t.seen = {}

Enough(S) == 3 * Cardinality(S) >= 2 * Cardinality(Delegate)

Singles == \A o \in DOMAIN rumors : Single(rumors[o])

AllFine == \A o \in DOMAIN thread : Fine(thread[o])

\* Between the count and the push a list only grows.
Pushes == \A o \in DOMAIN thread : thread[o].pc = "push" => Enough(DOMAIN rumors[o])

QInv == Singles /\ AllFine /\ Pushes /\ QueuedHasTwoThirds

LEMMA DelegatesAreFinite ==
  ASSUME NEW S \in SUBSET Delegate
  PROVE  IsFiniteSet(S) /\ Cardinality(S) \in Nat
  BY GossipAssumption, FS_Subset, FS_CardinalityType

\* A list without duplicates is as long as it has authors.
LEMMA LengthOfSingle ==
  ASSUME NEW r \in RumorList, Single(r)
  PROVE  Length(r) = Cardinality(DOMAIN r)
  <1> DEFINE S == DOMAIN r
  <1>1. IsFiniteSet(S) /\ Cardinality(S) \in Nat
    BY RumorsDomain, DelegatesAreFinite
  <1>2. \A d \in S : 1 .. r[d] = {1}
    BY DEF Single
  <1>3. UNION {{d} \X (1 .. r[d]) : d \in S} = S \X {1}
    BY <1>2
  <1>4. IsFiniteSet({1}) /\ Cardinality({1}) = 1
    BY FS_Singleton
  <1> HIDE DEF S
  <1>5. Cardinality(S \X {1}) = Cardinality(S) * Cardinality({1})
    BY <1>1, <1>4, FS_Product
  <1>6. Cardinality(S \X {1}) = Cardinality(S)
    BY <1>1, <1>4, <1>5
  <1> QED
    BY <1>3, <1>6 DEF Length, BagToSet, S

LEMMA EnoughGrows ==
  ASSUME NEW S \in SUBSET Delegate, NEW T \in SUBSET S, Enough(T)
  PROVE  Enough(S)
  <1>1. T \in SUBSET Delegate
    OBVIOUS
  <1>2. /\ IsFiniteSet(S) /\ Cardinality(S) \in Nat /\ Cardinality(T) \in Nat
        /\ Cardinality(Delegate) \in Nat
    BY <1>1, DelegatesAreFinite
  <1>3. Cardinality(T) <= Cardinality(S)
    BY <1>2, FS_Subset
  <1> QED
    BY <1>2, <1>3 DEF Enough

LEMMA SingleSet ==
  ASSUME NEW S
  PROVE  Single(SetToBag(S)) /\ DOMAIN SetToBag(S) = S
  BY DEF Single, SetToBag

LEMMA SingleEmpty == Single(EmptyBag)
  BY EmptyIsRumors DEF Single

LEMMA SingleUnion ==
  ASSUME NEW r, NEW s, Single(r), Single(s), DOMAIN r \cap DOMAIN s = {}
  PROVE  Single(r (+) s)
  <1>1. DOMAIN (r (+) s) = DOMAIN r \cup DOMAIN s
    BY DEF (+)
  <1> SUFFICES ASSUME NEW e \in DOMAIN r \cup DOMAIN s
               PROVE  (r (+) s)[e] = 1
    BY <1>1 DEF Single
  <1>2. (r (+) s)[e] = (IF e \in DOMAIN r THEN r[e] ELSE 0) + (IF e \in DOMAIN s THEN s[e] ELSE 0)
    BY DEF (+)
  <1> QED
    BY <1>2 DEF Single

LEMMA NewThreadIsFine ==
  ASSUME NEW p, NEW c, NEW ob
  PROVE  Fine(NewThread(p, c, ob)) /\ NewThread(p, c, ob).pc = p
  BY SingleEmpty, EmptyIsRumors DEF Fine, NewThread

LEMMA CollectedIs ==
  ASSUME NEW objects, NEW kept, kept = objects \/ kept = Collect(objects)
  PROVE  DOMAIN kept \subseteq DOMAIN objects /\ \A o \in DOMAIN kept : kept[o] = objects[o]
  <1>1. CASE kept = objects
    BY <1>1
  <1>2. CASE kept = Collect(objects)
    BY <1>2, CollectIs
  <1> QED
    BY <1>1, <1>2

\* The steps that push nothing.
LEMMA QuorumKept ==
  ASSUME IInv, QInv, IInv', queued' = queued,
         \A x \in DOMAIN rumors' : Single(rumors'[x]),
         \A x \in DOMAIN thread' : Fine(thread'[x]),
         \A x \in DOMAIN thread' : thread'[x].pc = "push" =>
           \/ Enough(DOMAIN rumors'[x])
           \/ /\ x \in DOMAIN thread /\ thread[x].pc = "push"
              /\ DOMAIN rumors[x] \subseteq DOMAIN rumors'[x]
  PROVE  QInv'
  <1>1. Singles' /\ AllFine'
    BY DEF Singles, AllFine
  <1>2. Pushes'
    <2> SUFFICES ASSUME NEW x \in DOMAIN thread', thread'[x].pc = "push",
                        x \in DOMAIN thread, thread[x].pc = "push",
                        DOMAIN rumors[x] \subseteq DOMAIN rumors'[x]
                 PROVE  Enough(DOMAIN rumors'[x])
      BY DEF Pushes, Enough
    <2>1. x \in DOMAIN rumors' /\ rumors'[x] \in RumorList
      BY DEF IInv, Core, Threads, Objects
    <2>2. DOMAIN rumors'[x] \in SUBSET Delegate
      BY <2>1, RumorsDomain
    <2>3. Enough(DOMAIN rumors[x])
      BY DEF QInv, Pushes
    <2> QED
      BY <2>2, <2>3, EnoughGrows
  <1>3. QueuedHasTwoThirds'
    BY DEF QInv, QueuedHasTwoThirds
  <1> QED
    BY <1>1, <1>2, <1>3 DEF QInv

\* The lists stay as they are, and goroutines only change how they wait.
LEMMA QuorumSame ==
  ASSUME IInv, QInv, IInv', queued' = queued,
         rumors' = rumors \/ rumors' = Collect(rumors),
         \A x \in DOMAIN thread' :
           \/ /\ x \in DOMAIN thread /\ thread'[x].seen = thread[x].seen
              /\ thread'[x].missing = thread[x].missing
              /\ thread'[x].pc = "push" => thread[x].pc = "push"
           \/ Fine(thread'[x]) /\ thread'[x].pc # "push"
  PROVE  QInv'
  <1>1. DOMAIN rumors' \subseteq DOMAIN rumors /\ \A x \in DOMAIN rumors' : rumors'[x] = rumors[x]
    BY CollectIs
  <1>2. \A x \in DOMAIN rumors' : Single(rumors'[x])
    BY <1>1 DEF QInv, Singles
  <1>3. \A x \in DOMAIN thread' : Fine(thread'[x])
    BY DEF QInv, AllFine, Fine
  <1>4. \A x \in DOMAIN thread' : thread'[x].pc = "push" =>
          x \in DOMAIN thread /\ thread[x].pc = "push" /\ DOMAIN rumors[x] \subseteq DOMAIN rumors'[x]
    BY <1>1 DEF IInv, Core, Threads
  <1> QED
    BY <1>2, <1>3, <1>4, QuorumKept

LEMMA QuorumSubmitCheck ==
  ASSUME IInv, IInv', QInv, NEW d \in Delegate, SubmitCheck(d)
  PROVE  QInv'
  <1>1. queued' = queued
    BY DEF SubmitCheck
  <1>2. CASE UNCHANGED <<thread, rumors>>
    BY <1>1, <1>2, QuorumSame
  <1>3. CASE /\ thread' = Run(New(d), NewThread("start", None, New(d)))
             /\ rumors' = With(rumors, New(d), SetToBag({d}))
    <2> DEFINE n == New(d)
               t == NewThread("start", None, n)
               r == SetToBag({d})
    <2>1. n \notin DOMAIN rumors
      BY NewIsFree DEF IInv, Core
    <2>2. Fine(t) /\ t.pc = "start" /\ Single(r)
      BY NewThreadIsFine, SingleSet
    <2>3. thread' = Run(n, t) /\ rumors' = With(rumors, n, r)
      BY <1>3
    <2> HIDE DEF n, t, r
    <2>4. /\ DOMAIN thread' = DOMAIN thread \cup {n} /\ thread'[n] = t
          /\ \A x \in DOMAIN thread : x # n => thread'[x] = thread[x]
      BY <2>3 DEF Run, With
    <2>5. /\ DOMAIN rumors' = DOMAIN rumors \cup {n} /\ rumors'[n] = r
          /\ \A x \in DOMAIN rumors : x # n => rumors'[x] = rumors[x]
      BY <2>3 DEF With
    <2>6. \A x \in DOMAIN rumors' : Single(rumors'[x])
      BY <2>2, <2>5 DEF QInv, Singles
    <2>7. \A x \in DOMAIN thread' : Fine(thread'[x])
      BY <2>2, <2>4 DEF QInv, AllFine
    <2>8. \A x \in DOMAIN thread' : thread'[x].pc = "push" =>
            x \in DOMAIN thread /\ thread[x].pc = "push" /\ DOMAIN rumors[x] \subseteq DOMAIN rumors'[x]
      BY <2>1, <2>2, <2>4, <2>5 DEF IInv, Core, Threads
    <2> QED
      BY <1>1, <2>6, <2>7, <2>8, QuorumKept
  <1> QED
    BY <1>2, <1>3 DEF SubmitCheck

LEMMA QuorumSubmitStart ==
  ASSUME IInv, IInv', QInv, NEW o \in DOMAIN thread, SubmitStart(o)
  PROVE  QInv'
  <1> DEFINE t == [thread[o] EXCEPT !.pc = "send", !.missing = EmptyBag, !.seen = EmptyBag,
                                    !.todo = Others(At(o))]
  <1>1. queued' = queued /\ rumors' = Collect(rumors) /\ thread' = Run(o, t)
    BY DEF SubmitStart, cacheOnFirstReceive
  <1>2. thread[o] \in Thread
    BY DEF IInv, Core, Threads
  <1>3. t.pc = "send" /\ t.missing = EmptyBag
    BY <1>2 DEF Thread
  <1>4. Fine(t)
    BY <1>3, SingleEmpty, EmptyIsRumors DEF Fine
  <1> HIDE DEF t
  <1>5. /\ DOMAIN thread' = DOMAIN thread \cup {o} /\ thread'[o] = t
        /\ \A x \in DOMAIN thread : x # o => thread'[x] = thread[x]
    BY <1>1 DEF Run, With
  <1> QED
    BY <1>1, <1>3, <1>4, <1>5, QuorumSame

LEMMA QuorumRecv ==
  ASSUME IInv, IInv', QInv, NEW o \in DOMAIN thread, Recv(o)
  PROVE  QInv'
  <1>1. queued' = queued /\ rumors' = rumors
    BY DEF Recv
  <1>2. o \in Object /\ thread[o] \in Thread /\ Fine(thread[o])
    BY DEF IInv, Core, Threads, Objects, QInv, AllFine
  <1>3. ASSUME NEW t, thread' = Run(o, t), Fine(t), t.pc = "merge"
        PROVE  QInv'
    <2>1. /\ DOMAIN thread' = DOMAIN thread \cup {o} /\ thread'[o] = t
          /\ \A x \in DOMAIN thread : x # o => thread'[x] = thread[x]
      BY <1>3 DEF Run, With
    <2> QED
      BY <1>1, <1>3, <2>1, QuorumSame
  <1>4. ASSUME thread' = Run(o, [thread[o] EXCEPT !.pc = "merge"])
        PROVE  QInv'
    <2> DEFINE t == [thread[o] EXCEPT !.pc = "merge"]
    <2>1. t.pc = "merge" /\ t.seen = thread[o].seen /\ t.missing = thread[o].missing
      BY <1>2 DEF Thread
    <2> HIDE DEF t
    <2>2. Fine(t)
      BY <1>2, <2>1 DEF Fine
    <2>3. thread' = Run(o, t)
      BY <1>4 DEF t
    <2> QED
      BY <1>3, <2>1, <2>2, <2>3
  <1>5. ASSUME NEW last \in BagToSet(rumors[o]),
               thread' = Run(o, [[thread[o] EXCEPT !.pc = "merge"] EXCEPT
                 !.ob = cached[At(o)],
                 !.seen = rumors[cached[At(o)]],
                 !.missing = SetToBag(BagToSet(rumors[o]) \ BagToSet(rumors[cached[At(o)]])),
                 !.addToChan = ~ BagIn(last, rumors[cached[At(o)]])])
        PROVE  QInv'
    <2> DEFINE c == cached[At(o)]
               S == BagToSet(rumors[o]) \ BagToSet(rumors[c])
               ms == SetToBag(S)
               b == ~ BagIn(last, rumors[c])
               t == [[thread[o] EXCEPT !.pc = "merge"] EXCEPT
                       !.ob = c, !.seen = rumors[c], !.missing = ms, !.addToChan = b]
    <2>1. thread' = Run(o, t)
      BY <1>5
    <2>2. Single(ms) /\ DOMAIN ms = S
      BY SingleSet
    <2>3. S \cap DOMAIN rumors[c] = {}
      BY DEF BagToSet
    <2> HIDE DEF c, S, ms, b
    <2>4. t.pc = "merge" /\ t.seen = rumors[c] /\ t.missing = ms
      BY <1>2 DEF Thread
    <2> HIDE DEF t
    <2>5. Fine(t)
      BY <2>2, <2>3, <2>4 DEF Fine
    <2> QED
      BY <1>3, <2>1, <2>4, <2>5
  <1> QED
    BY <1>4, <1>5 DEF Recv

\* The one step that needs Undisturbed: what is appended is not yet in the list.
LEMMA QuorumMerge ==
  ASSUME IInv, IInv', QInv, Undisturbed, NEW o \in DOMAIN thread, Merge(o)
  PROVE  QInv'
  <1> DEFINE t == thread[o]
             d == At(o)
             list == rumors[t.ob]
             merged == list (+) t.missing
  <1>1. queued' = queued /\ t.pc = "merge"
    BY DEF Merge
  <1>2. /\ t \in Thread /\ t.ob \in DOMAIN rumors /\ list \in RumorList /\ t.missing \in RumorList
        /\ Single(list) /\ Fine(t)
    <2>1. t \in Thread /\ t.ob \in DOMAIN rumors /\ list \in RumorList
      BY DEF IInv, Core, Threads, Objects
    <2>2. Single(list) /\ Fine(t)
      BY <2>1 DEF QInv, Singles, AllFine
    <2> QED
      BY <2>1, <2>2, ThreadFields
  <1>3. t.missing # EmptyBag => t.seen = list
    BY <1>1 DEF Undisturbed
  <1>4. DOMAIN list \cap DOMAIN t.missing = {}
    <2>1. CASE t.missing = EmptyBag
      BY <2>1, EmptyIsRumors
    <2>2. CASE t.seen = list
      BY <1>2, <2>2 DEF Fine
    <2> QED
      BY <1>3, <2>1, <2>2
  <1>5. Single(merged) /\ DOMAIN list \subseteq DOMAIN merged /\ merged \in RumorList
    <2> HIDE DEF t, list
    <2>1. Single(t.missing)
      BY <1>2 DEF Fine
    <2> QED
      BY <1>2, <1>4, <2>1, SingleUnion, UnionIsRumors
  <1>6. \/ /\ thread' = Run(o, [t EXCEPT !.pc = "send", !.missing = EmptyBag, !.seen = EmptyBag])
           /\ rumors' = [rumors EXCEPT ![t.ob] = merged]
        \/ /\ ~ BagIn(d, merged)
           /\ cacheOnFirstReceive(o, t.ob)
           /\ rumors' = Collect([rumors EXCEPT ![t.ob] = merged (+) SetToBag({d})])
    <2>1. PICK base \in IF t.missing = EmptyBag THEN {rumors[t.ob]} ELSE {rumors[t.ob], t.seen} :
            LET new == base (+) t.missing IN
            \/ /\ thread' = Run(o, [t EXCEPT !.pc = "send", !.missing = EmptyBag, !.seen = EmptyBag])
               /\ rumors' = [rumors EXCEPT ![t.ob] = new]
            \/ /\ ~ BagIn(d, new)
               /\ cacheOnFirstReceive(o, t.ob)
               /\ rumors' = Collect([rumors EXCEPT ![t.ob] = new (+) SetToBag({d})])
      BY DEF Merge
    <2>2. base = list
      BY <1>3, <2>1
    <2> QED
      BY <2>1, <2>2
  <1> HIDE DEF merged
  <1>7. ASSUME NEW u, u.pc = "send", u.missing = EmptyBag, thread' = Run(o, u),
               NEW new, Single(new), DOMAIN list \subseteq DOMAIN new,
               NEW objs, objs = [rumors EXCEPT ![t.ob] = new],
               rumors' = objs \/ rumors' = Collect(objs)
        PROVE  QInv'
    <2>1. /\ DOMAIN thread' = DOMAIN thread \cup {o} /\ thread'[o] = u
          /\ \A x \in DOMAIN thread : x # o => thread'[x] = thread[x]
      BY <1>7 DEF Run, With
    <2>2. /\ DOMAIN objs = DOMAIN rumors /\ objs[t.ob] = new
          /\ \A x \in DOMAIN rumors : x # t.ob => objs[x] = rumors[x]
      BY <1>2, <1>7
    <2>3. DOMAIN rumors' \subseteq DOMAIN objs /\ \A x \in DOMAIN rumors' : rumors'[x] = objs[x]
      BY <1>7, CollectedIs
    <2>4. Fine(u)
      BY <1>7, SingleEmpty, EmptyIsRumors DEF Fine
    <2>5. \A x \in DOMAIN rumors' : Single(rumors'[x]) /\ DOMAIN rumors[x] \subseteq DOMAIN rumors'[x]
      BY <1>7, <2>2, <2>3 DEF QInv, Singles
    <2>6. \A x \in DOMAIN thread' : Fine(thread'[x])
      BY <2>1, <2>4 DEF QInv, AllFine
    <2>7. \A x \in DOMAIN thread' : thread'[x].pc = "push" =>
            x \in DOMAIN thread /\ thread[x].pc = "push" /\ DOMAIN rumors[x] \subseteq DOMAIN rumors'[x]
      BY <1>7, <2>1, <2>5 DEF IInv, Core, Threads
    <2> QED
      BY <1>1, <2>5, <2>6, <2>7, QuorumKept
  <1>8. CASE /\ thread' = Run(o, [t EXCEPT !.pc = "send", !.missing = EmptyBag, !.seen = EmptyBag])
             /\ rumors' = [rumors EXCEPT ![t.ob] = merged]
    <2> DEFINE u == [t EXCEPT !.pc = "send", !.missing = EmptyBag, !.seen = EmptyBag]
               objs == [rumors EXCEPT ![t.ob] = merged]
    <2>1. u.pc = "send" /\ u.missing = EmptyBag
      BY <1>2 DEF Thread
    <2>2. thread' = Run(o, u) /\ rumors' = objs
      BY <1>8
    <2>3. objs = [rumors EXCEPT ![t.ob] = merged]
      OBVIOUS
    <2> HIDE DEF u, objs
    <2> QED
      BY <1>5, <1>7, <2>1, <2>2, <2>3
  <1>9. CASE /\ ~ BagIn(d, merged)
             /\ cacheOnFirstReceive(o, t.ob)
             /\ rumors' = Collect([rumors EXCEPT ![t.ob] = merged (+) SetToBag({d})])
    <2> DEFINE u == [t EXCEPT !.pc = "send", !.missing = EmptyBag, !.seen = EmptyBag, !.todo = Others(d)]
               all == merged (+) SetToBag({d})
               objs == [rumors EXCEPT ![t.ob] = all]
    <2>1. u.pc = "send" /\ u.missing = EmptyBag
      BY <1>2 DEF Thread
    <2>2. thread' = Run(o, u) /\ rumors' = Collect(objs)
      BY <1>9 DEF cacheOnFirstReceive
    <2>3. d \notin DOMAIN merged
      BY <1>9 DEF BagIn, BagToSet
    <2>4. Single(all) /\ DOMAIN merged \subseteq DOMAIN all
      <3>1. Single(SetToBag({d})) /\ DOMAIN SetToBag({d}) = {d}
        BY SingleSet
      <3>2. Single(all)
        BY <1>5, <2>3, <3>1, SingleUnion
      <3> QED
        BY <3>2 DEF (+)
    <2>5. objs = [rumors EXCEPT ![t.ob] = all]
      OBVIOUS
    <2>6. DOMAIN list \subseteq DOMAIN all
      BY <1>5, <2>4
    <2> HIDE DEF u, objs, all
    <2> QED
      BY <1>7, <2>1, <2>2, <2>4, <2>5, <2>6
  <1> QED
    BY <1>6, <1>8, <1>9

\* A call copies a list for the handler it starts.
LEMMA QuorumCall ==
  ASSUME IInv, IInv', QInv, NEW o, NEW t, NEW q \in Delegate, NEW g \in DOMAIN rumors,
         Call(o, t, q, g), queued' = queued, Fine(t), t.pc # "push"
  PROVE  QInv'
  <1> DEFINE n == New(q)
             h == NewThread("recv", o, n)
             f == Run(o, t)
  <1>1. n \notin DOMAIN rumors
    BY NewIsFree DEF IInv, Core
  <1>2. Fine(h) /\ h.pc = "recv"
    BY NewThreadIsFine
  <1>3. thread' = With(f, n, h) /\ rumors' = With(rumors, n, rumors[g])
    BY DEF Call
  <1> HIDE DEF n, h
  <1>4. /\ DOMAIN f = DOMAIN thread \cup {o} /\ f[o] = t
        /\ \A x \in DOMAIN thread : x # o => f[x] = thread[x]
    BY DEF Run, With
  <1> HIDE DEF f
  <1>5. /\ DOMAIN thread' = DOMAIN f \cup {n} /\ thread'[n] = h
        /\ \A x \in DOMAIN f : x # n => thread'[x] = f[x]
    BY <1>3 DEF With
  <1>6. /\ DOMAIN rumors' = DOMAIN rumors \cup {n} /\ rumors'[n] = rumors[g]
        /\ \A x \in DOMAIN rumors : x # n => rumors'[x] = rumors[x]
    BY <1>3 DEF With
  <1>7. \A x \in DOMAIN rumors' : Single(rumors'[x])
    BY <1>6 DEF QInv, Singles
  <1>8. \A x \in DOMAIN thread' :
          \/ x = n /\ thread'[x] = h
          \/ x = o /\ thread'[x] = t
          \/ x \in DOMAIN thread /\ x # n /\ thread'[x] = thread[x]
    BY <1>4, <1>5
  <1>9. \A x \in DOMAIN thread' : Fine(thread'[x])
    BY <1>2, <1>8 DEF QInv, AllFine
  <1>10. \A x \in DOMAIN thread' : thread'[x].pc = "push" =>
           x \in DOMAIN thread /\ thread[x].pc = "push" /\ DOMAIN rumors[x] \subseteq DOMAIN rumors'[x]
    BY <1>2, <1>6, <1>8 DEF IInv, Core, Threads
  <1> QED
    BY <1>7, <1>9, <1>10, QuorumKept

LEMMA QuorumSend ==
  ASSUME IInv, IInv', QInv, NEW o \in DOMAIN thread, Send(o)
  PROVE  QInv'
  <1> DEFINE t == thread[o]
  <1>1. queued' = queued /\ t.pc = "send"
    BY DEF Send
  <1>2. t \in Thread /\ t.ob \in DOMAIN rumors /\ Fine(t) /\ t.todo \in SUBSET Delegate
    <2>1. t \in Thread /\ t.ob \in DOMAIN rumors /\ Fine(t)
      BY DEF IInv, Core, Threads, QInv, AllFine
    <2> QED
      BY <2>1, ThreadFields
  <1>3. PICK q \in t.todo \ sent[At(o)] :
          LET rest == [t EXCEPT !.todo = @ \ {q}] IN
          \/ Call(o, [rest EXCEPT !.pc = "sendWait"], q, t.ob)
          \/ thread' = Run(o, rest) /\ rumors' = rumors
    BY DEF Send
  <1>4. q \in Delegate
    BY <1>2
  <1>5. CASE Call(o, [[t EXCEPT !.todo = @ \ {q}] EXCEPT !.pc = "sendWait"], q, t.ob)
    <2> DEFINE u == [[t EXCEPT !.todo = @ \ {q}] EXCEPT !.pc = "sendWait"]
    <2>1. u.pc = "sendWait" /\ u.seen = t.seen /\ u.missing = t.missing
      BY <1>2 DEF Thread
    <2>2. Call(o, u, q, t.ob)
      BY <1>5
    <2> HIDE DEF u
    <2>3. Fine(u)
      BY <1>2, <2>1 DEF Fine
    <2> QED
      BY <1>1, <1>2, <1>4, <2>1, <2>2, <2>3, QuorumCall
  <1>6. CASE thread' = Run(o, [t EXCEPT !.todo = @ \ {q}]) /\ rumors' = rumors
    <2> DEFINE u == [t EXCEPT !.todo = @ \ {q}]
    <2>1. u.pc = "send" /\ u.seen = t.seen /\ u.missing = t.missing
      BY <1>1, <1>2 DEF Thread
    <2>2. thread' = Run(o, u)
      BY <1>6
    <2> HIDE DEF u
    <2>3. /\ DOMAIN thread' = DOMAIN thread \cup {o} /\ thread'[o] = u
          /\ \A x \in DOMAIN thread : x # o => thread'[x] = thread[x]
      BY <2>2 DEF Run, With
    <2> QED
      BY <1>1, <1>6, <2>1, <2>3, QuorumSame
  <1> QED
    BY <1>3, <1>5, <1>6

\* Return wakes up one caller, and changes nothing it has read.
LEMMA ReturnKeepsLists ==
  ASSUME NEW f, NEW c, c # None => c \in DOMAIN f /\ f[c] \in Thread, NEW g, g = Return(f, c)
  PROVE  \A x \in DOMAIN g : /\ x \in DOMAIN f /\ g[x].seen = f[x].seen /\ g[x].missing = f[x].missing
                             /\ g[x].pc = "push" => f[x].pc = "push"
  <1>1. CASE g = f
    BY <1>1
  <1>2. CASE g = Restrict(f, DOMAIN f \ {c})
    BY <1>2 DEF Restrict
  <1>3. CASE c # None /\ g = [f EXCEPT ![c].pc = "send"]
    <2>1. c \in DOMAIN f /\ f[c] \in Thread
      BY <1>3
    <2> DEFINE t == [f[c] EXCEPT !.pc = "send"]
    <2>2. t.pc = "send" /\ t.seen = f[c].seen /\ t.missing = f[c].missing
      BY <2>1 DEF Thread
    <2>3. g = [f EXCEPT ![c] = t]
      BY <1>3, <2>1
    <2> HIDE DEF t
    <2>4. DOMAIN g = DOMAIN f /\ g[c] = t /\ \A x \in DOMAIN f : x # c => g[x] = f[x]
      BY <2>1, <2>3
    <2> QED
      BY <2>2, <2>4
  <1> QED
    BY <1>1, <1>2, <1>3 DEF Return

LEMMA QuorumFinish ==
  ASSUME IInv, IInv', QInv, NEW o \in DOMAIN thread, Finish(o)
  PROVE  QInv'
  <1> DEFINE c == thread[o].caller
  <1>1. queued' = queued /\ rumors' = Collect(rumors) /\ thread' = Return(End(o), c)
    BY DEF Finish
  <1>2. /\ DOMAIN End(o) = DOMAIN thread \ {o}
        /\ \A x \in DOMAIN thread : x # o => End(o)[x] = thread[x]
    BY EndIs
  <1>3. c # None => c \in DOMAIN End(o) /\ End(o)[c] \in Thread
    BY <1>2 DEF IInv, Core, Calls, Threads
  <1> HIDE DEF c
  <1>4. \A x \in DOMAIN thread' :
          /\ x \in DOMAIN End(o) /\ thread'[x].seen = End(o)[x].seen /\ thread'[x].missing = End(o)[x].missing
          /\ thread'[x].pc = "push" => End(o)[x].pc = "push"
    BY <1>1, <1>3, ReturnKeepsLists
  <1> QED
    BY <1>1, <1>2, <1>4, QuorumSame

LEMMA QuorumGiveUp ==
  ASSUME IInv, IInv', QInv, NEW o \in DOMAIN thread, GiveUp(o)
  PROVE  QInv'
  <1> DEFINE c == thread[o].caller
             u == [thread[o] EXCEPT !.caller = None]
             f == Run(o, u)
  <1>1. queued' = queued /\ rumors' = rumors /\ thread' = Return(f, c) /\ c # None
    BY DEF GiveUp
  <1>2. thread[o] \in Thread /\ c \in DOMAIN thread /\ c # o /\ thread[c] \in Thread
    BY <1>1 DEF IInv, Core, Calls, Threads
  <1>3. u.pc = thread[o].pc /\ u.seen = thread[o].seen /\ u.missing = thread[o].missing
    BY <1>2 DEF Thread
  <1> HIDE DEF u
  <1>4. /\ DOMAIN f = DOMAIN thread \cup {o} /\ f[o] = u
        /\ \A x \in DOMAIN thread : x # o => f[x] = thread[x]
    BY DEF Run, With
  <1> HIDE DEF f, c
  <1>5. \A x \in DOMAIN thread' :
          /\ x \in DOMAIN f /\ thread'[x].seen = f[x].seen /\ thread'[x].missing = f[x].missing
          /\ thread'[x].pc = "push" => f[x].pc = "push"
    BY <1>1, <1>2, <1>4, ReturnKeepsLists
  <1> QED
    BY <1>1, <1>3, <1>4, <1>5, QuorumSame

LEMMA QuorumWorkerPush ==
  ASSUME IInv, IInv', QInv, NEW o \in DOMAIN thread, WorkerPush(o)
  PROVE  QInv'
  <1>1. /\ thread[o].pc = "push" /\ thread' = End(o) /\ rumors' = Collect(rumors)
        /\ queued' = [queued EXCEPT ![At(o)] = Append(@, DOMAIN rumors[o])]
    BY DEF WorkerPush, BagToSet
  <1>2. /\ DOMAIN thread' = DOMAIN thread \ {o}
        /\ \A x \in DOMAIN thread' : thread'[x] = thread[x]
    BY <1>1, EndIs
  <1>3. DOMAIN rumors' \subseteq DOMAIN rumors /\ \A x \in DOMAIN rumors' : rumors'[x] = rumors[x]
    BY <1>1, CollectedIs
  <1>4. Singles' /\ AllFine'
    BY <1>2, <1>3 DEF QInv, Singles, AllFine
  <1>5. Pushes'
    <2>1. \A x \in DOMAIN thread' : x \in DOMAIN rumors'
      BY DEF IInv, Core, Threads
    <2>2. \A x \in DOMAIN thread' : thread'[x].pc = "push" => Enough(DOMAIN rumors'[x])
      BY <1>2, <1>3, <2>1 DEF QInv, Pushes
    <2> QED
      BY <2>2 DEF Pushes, Enough
  <1>6. QueuedHasTwoThirds'
    <2>1. Enough(DOMAIN rumors[o]) /\ o \in DOMAIN rumors /\ rumors[o] \in RumorList
      BY <1>1 DEF QInv, Pushes, IInv, Core, Threads, Objects
    <2>2. DOMAIN rumors[o] \in SUBSET Delegate
      BY <2>1, RumorsDomain
    <2> SUFFICES ASSUME NEW d \in Delegate, NEW signers \in ToSet(queued'[d])
                 PROVE  Enough(signers)
      BY DEF QueuedHasTwoThirds, Enough
    <2>3. queued[d] \in Seq(SUBSET Delegate) /\ DOMAIN queued = Delegate
      BY DEF IInv, Rest
    <2>4. \A s \in ToSet(queued[d]) : Enough(s)
      BY DEF QInv, QueuedHasTwoThirds, Enough
    <2>5. CASE queued'[d] = queued[d]
      BY <2>4, <2>5
    <2>6. CASE queued'[d] = Append(queued[d], DOMAIN rumors[o])
      <3>1. PICK i \in DOMAIN queued'[d] : signers = queued'[d][i]
        BY DEF ToSet
      <3>2. /\ DOMAIN queued'[d] = 1 .. Len(queued[d]) + 1 /\ Len(queued[d]) \in Nat
            /\ DOMAIN queued[d] = 1 .. Len(queued[d])
            /\ \A j \in 1 .. Len(queued[d]) : queued'[d][j] = queued[d][j]
            /\ queued'[d][Len(queued[d]) + 1] = DOMAIN rumors[o]
        BY <2>2, <2>3, <2>6
      <3>3. i \in DOMAIN queued[d] \/ i = Len(queued[d]) + 1
        BY <3>1, <3>2
      <3> QED
        BY <2>1, <2>4, <3>1, <3>2, <3>3 DEF ToSet
    <2> QED
      BY <1>1, <2>3, <2>5, <2>6
  <1> QED
    BY <1>4, <1>5, <1>6 DEF QInv

LEMMA QuorumWorkerQuorum ==
  ASSUME IInv, IInv', QInv, NEW d \in Delegate, NEW o \in chan[d], WorkerQuorum(o)
  PROVE  QInv'
  <1> DEFINE t == NewThread("push", None, o)
  <1>1. /\ queued' = queued /\ rumors' = Collect(rumors) /\ TwoThirds(Length(rumors[o]))
        /\ thread' = thread \/ thread' = Run(o, t)
    BY DEF WorkerQuorum
  <1>2. o \in DOMAIN rumors /\ rumors[o] \in RumorList /\ Single(rumors[o])
    BY DEF IInv, Core, Caches, Objects, QInv, Singles
  <1>3. Enough(DOMAIN rumors[o])
    BY <1>1, <1>2, LengthOfSingle DEF TwoThirds, Enough
  <1>4. Fine(t)
    BY NewThreadIsFine
  <1> HIDE DEF t
  <1>5. CASE thread' = thread
    BY <1>1, <1>5, QuorumSame
  <1>6. CASE thread' = Run(o, t)
    <2>1. /\ DOMAIN thread' = DOMAIN thread \cup {o} /\ thread'[o] = t
          /\ \A x \in DOMAIN thread : x # o => thread'[x] = thread[x]
      BY <1>6 DEF Run, With
    <2>2. DOMAIN rumors' \subseteq DOMAIN rumors /\ \A x \in DOMAIN rumors' : rumors'[x] = rumors[x]
      BY <1>1, CollectedIs
    <2>3. \A x \in DOMAIN rumors' : Single(rumors'[x])
      BY <2>2 DEF QInv, Singles
    <2>4. \A x \in DOMAIN thread' : Fine(thread'[x])
      BY <1>4, <2>1 DEF QInv, AllFine
    <2>5. \A x \in DOMAIN thread' : x \in DOMAIN rumors'
      BY DEF IInv, Core, Threads
    <2>6. \A x \in DOMAIN thread' : thread'[x].pc = "push" => Enough(DOMAIN rumors'[x])
      BY <1>3, <2>1, <2>2, <2>5 DEF QInv, Pushes
    <2> QED
      BY <1>1, <2>3, <2>4, <2>6, QuorumKept
  <1> QED
    BY <1>1, <1>5, <1>6

LEMMA QuorumWorkerCall ==
  ASSUME IInv, IInv', QInv, NEW d \in Delegate, NEW o \in chan[d], WorkerCall(o)
  PROVE  QInv'
  <1> DEFINE t == NewThread("workerWait", None, o)
  <1>1. queued' = queued /\ o \in DOMAIN rumors
    BY DEF WorkerCall, IInv, Core, Caches
  <1>2. PICK q \in getRandomDelegate(At(o)) : Call(o, t, q, o) \/ UNCHANGED <<rumors, thread>>
    BY DEF WorkerCall
  <1>3. q \in Delegate
    BY <1>2 DEF getRandomDelegate
  <1>4. Fine(t) /\ t.pc = "workerWait"
    BY NewThreadIsFine
  <1> HIDE DEF t
  <1>5. CASE Call(o, t, q, o)
    BY <1>1, <1>3, <1>4, <1>5, QuorumCall
  <1>6. CASE UNCHANGED <<rumors, thread>>
    BY <1>1, <1>6, QuorumSame
  <1> QED
    BY <1>2, <1>5, <1>6

LEMMA QuorumStep == IInv /\ IInv' /\ QInv /\ Undisturbed /\ [Next]_vars => QInv'
  <1> SUFFICES ASSUME IInv, IInv', QInv, Undisturbed, [Next]_vars PROVE QInv'
    OBVIOUS
  <1>1. ASSUME NEW d \in Delegate, SubmitCheck(d) PROVE QInv'
    BY <1>1, QuorumSubmitCheck
  <1>2. ASSUME NEW o \in DOMAIN thread, GiveUp(o) PROVE QInv'
    BY <1>2, QuorumGiveUp
  <1>3. ASSUME NEW o \in DOMAIN thread, Handle(o) PROVE QInv'
    BY <1>3, QuorumSubmitStart, QuorumRecv, QuorumMerge, QuorumSend, QuorumFinish, QuorumWorkerPush
       DEF Handle
  <1>4. ASSUME NEW d \in Delegate, NEW o \in chan[d], WorkerTimedOut(o) \/ WorkerNobodyLeft(o)
        PROVE  QInv'
    <2>1. queued' = queued /\ rumors' = Collect(rumors) /\ thread' = thread
      BY <1>4 DEF WorkerTimedOut, WorkerNobodyLeft
    <2> QED
      BY <2>1, QuorumSame
  <1>5. ASSUME NEW d \in Delegate, NEW o \in chan[d], gossipWorker(o) PROVE QInv'
    BY <1>4, <1>5, QuorumWorkerQuorum, QuorumWorkerCall DEF gossipWorker
  <1>6. CASE UNCHANGED vars
    BY <1>6, QuorumSame DEF vars
  <1> QED
    BY <1>1, <1>2, <1>3, <1>5, <1>6 DEF Next, Progress

\* As long as no handler appends to a list between another handler's comparison
\* and its append, every gossip that gossipWorker pushes onto the queue carries
\* the rumors of two thirds of the delegates, whatever is submitted, fails, is
\* late or is abandoned.  The unlocked append of synchronizeGossip is the only
\* thing that stands between the code and this property.
THEOREM GossipQuorum == Spec /\ []Undisturbed => []QueuedHasTwoThirds
  <1>1. Init => QInv
    BY DEF Init, QInv, Singles, AllFine, Pushes, QueuedHasTwoThirds, ToSet
  <1>2. QInv => QueuedHasTwoThirds
    BY DEF QInv
  <1> QED
    BY <1>1, <1>2, InvInit, InvStep, QuorumStep, PTL DEF Spec

-----------------------------------------------------------------------------
(* Everybody learns of the transaction                                     *)

\* Goroutine o, which is t, is going to see to it that delegate q caches the gossip.
Brings(o, t, q) ==
  \/ t.pc = "start"
  \/ t.pc \in {"send", "sendWait"} /\ q \in t.todo
  \/ t.pc \in {"recv", "merge"} /\ At(o) = q

Reaches(q) == Has(q) \/ \E o \in DOMAIN thread : Brings(o, thread[o], q)

Untold == DOMAIN thread = {} /\ \A d \in Delegate : chan[d] = {} /\ receipt[d] = "none"

Spreads == submitted # {} /\ setting.faults = 0 => \A q \in Delegate \ Down : Reaches(q)

LInv == (submitted = {} => Untold) /\ Spreads

\* A step of the gossip, which somebody has submitted.
LEMMA SpreadsOn ==
  ASSUME IInv, LInv, submitted # {}, submitted' = submitted, setting' = setting,
         \A q \in Delegate : Has(q) => Has(q)',
         \A x \in DOMAIN thread : \A q \in Delegate \ Down :
           Brings(x, thread[x], q) => Has(q)' \/ \E y \in DOMAIN thread' : Brings(y, thread'[y], q)
  PROVE  LInv'
  <1>1. Down' = Down
    BY DEF Down
  <1> SUFFICES ASSUME setting.faults = 0, NEW q \in Delegate \ Down
               PROVE  Reaches(q)'
    BY <1>1 DEF LInv, Spreads
  <1>2. Reaches(q)
    BY DEF LInv, Spreads
  <1> QED
    BY <1>2 DEF Reaches

LEMMA SomebodySubmitted ==
  ASSUME LInv, DOMAIN thread # {} \/ \E d \in Delegate : chan[d] # {}
  PROVE  submitted # {}
  BY DEF LInv, Untold

LEMMA LearnSubmitCheck ==
  ASSUME IInv, LInv, NEW d \in Delegate, SubmitCheck(d)
  PROVE  LInv'
  <1>1. submitted' = submitted \cup {d} /\ cached' = cached /\ setting' = setting /\ Down' = Down
    BY DEF SubmitCheck, Down
  <1>2. submitted' # {}
    BY <1>1
  <1>3. CASE receipt[d] # "none" /\ thread' = thread
    <2>1. submitted # {}
      BY <1>3 DEF LInv, Untold
    <2>2. Spreads'
      BY <1>1, <1>3, <2>1 DEF LInv, Spreads, Reaches, Has
    <2> QED
      BY <1>2, <2>2 DEF LInv
  <1>4. CASE thread' = Run(New(d), NewThread("start", None, New(d)))
    <2> DEFINE n == New(d)
               t == NewThread("start", None, n)
    <2>1. t.pc = "start"
      BY DEF NewThread
    <2>2. n \in DOMAIN thread' /\ thread'[n] = t
      BY <1>4, RunIs
    <2> HIDE DEF n, t
    <2>3. \A q : Brings(n, thread'[n], q)
      BY <2>1, <2>2 DEF Brings
    <2>4. Spreads'
      BY <2>2, <2>3 DEF Spreads, Reaches
    <2> QED
      BY <1>2, <2>4 DEF LInv
  <1> QED
    BY <1>3, <1>4 DEF SubmitCheck

\* Goroutine o goes on as t, or starts as t; the others stay as they are.
LEMMA LearnBecomes ==
  ASSUME IInv, LInv, submitted # {}, submitted' = submitted, setting' = setting,
         \A q \in Delegate : Has(q) => Has(q)',
         NEW o, NEW t, thread' = Run(o, t),
         o \in DOMAIN thread => \A q \in Delegate \ Down : Brings(o, thread[o], q) => Has(q)' \/ Brings(o, t, q)
  PROVE  LInv'
  <1>1. /\ DOMAIN thread' = DOMAIN thread \cup {o} /\ thread'[o] = t
        /\ \A x \in DOMAIN thread : x # o => thread'[x] = thread[x]
    BY DEF Run, With
  <1>2. ASSUME NEW x \in DOMAIN thread, NEW q \in Delegate \ Down, Brings(x, thread[x], q)
        PROVE  Has(q)' \/ \E y \in DOMAIN thread' : Brings(y, thread'[y], q)
    <2>1. CASE x = o
      BY <1>1, <1>2, <2>1
    <2>2. CASE x # o
      BY <1>1, <1>2, <2>2
    <2> QED
      BY <2>1, <2>2
  <1> QED
    BY <1>2, SpreadsOn

\* The goroutine caches the gossip and is going to contact every other delegate.
LEMMA LearnFirst ==
  ASSUME IInv, LInv, submitted' = submitted, setting' = setting, NEW o \in DOMAIN thread,
         NEW ob \in Object, cacheOnFirstReceive(o, ob), \A q \in Delegate : Has(q) => Has(q)'
  PROVE  LInv'
  <1> DEFINE t == [thread[o] EXCEPT !.pc = "send", !.missing = EmptyBag, !.seen = EmptyBag,
                                    !.todo = Others(At(o))]
  <1>1. thread' = Run(o, t) /\ cached' = [cached EXCEPT ![At(o)] = ob]
    BY DEF cacheOnFirstReceive
  <1>2. thread[o] \in Thread /\ o \in Object
    BY DEF IInv, Core, Threads, Objects
  <1>3. t.pc = "send" /\ t.todo = Others(At(o))
    BY <1>2 DEF Thread
  <1> HIDE DEF t
  <1>4. At(o) \in Delegate /\ ob # None /\ DOMAIN cached = Delegate
    BY <1>2, ObjectAt, NoneIsNoObject DEF IInv, Core, Caches
  <1>5. Has(At(o))'
    BY <1>1, <1>4 DEF Has
  <1>6. \A q \in Delegate : Has(q)' \/ Brings(o, t, q)
    BY <1>3, <1>5 DEF Brings, Others
  <1>7. submitted # {}
    BY SomebodySubmitted
  <1> QED
    BY <1>1, <1>6, <1>7, LearnBecomes

LEMMA LearnSubmitStart ==
  ASSUME IInv, LInv, NEW o \in DOMAIN thread, SubmitStart(o)
  PROVE  LInv'
  <1>1. o \in Object /\ o # None /\ DOMAIN cached = Delegate
    BY NoneIsNoObject DEF IInv, Core, Threads, Objects, Caches
  <1>2. /\ cacheOnFirstReceive(o, o) /\ submitted' = submitted /\ setting' = setting
        /\ cached' = [cached EXCEPT ![At(o)] = o]
    BY DEF SubmitStart, cacheOnFirstReceive
  <1>3. \A q \in Delegate : Has(q) => Has(q)'
    BY <1>1, <1>2 DEF Has
  <1> QED
    BY <1>1, <1>2, <1>3, LearnFirst

LEMMA LearnRecv ==
  ASSUME IInv, LInv, NEW o \in DOMAIN thread, Recv(o)
  PROVE  LInv'
  <1>1. /\ thread[o].pc = "recv" /\ cached' = cached /\ submitted' = submitted /\ setting' = setting
        /\ submitted # {}
    BY SomebodySubmitted DEF Recv
  <1>2. thread[o] \in Thread
    BY DEF IInv, Core, Threads
  <1>3. ASSUME NEW t, thread' = Run(o, t), t.pc = "merge"
        PROVE  LInv'
    <2>1. \A q : Brings(o, thread[o], q) => Brings(o, t, q)
      BY <1>1, <1>3 DEF Brings
    <2>2. \A q \in Delegate : Has(q) => Has(q)'
      BY <1>1 DEF Has
    <2> QED
      BY <1>1, <1>3, <2>1, <2>2, LearnBecomes
  <1>4. ASSUME thread' = Run(o, [thread[o] EXCEPT !.pc = "merge"])
        PROVE  LInv'
    <2> DEFINE t == [thread[o] EXCEPT !.pc = "merge"]
    <2>1. t.pc = "merge"
      BY <1>2 DEF Thread
    <2>2. thread' = Run(o, t)
      BY <1>4
    <2> HIDE DEF t
    <2> QED
      BY <1>3, <2>1, <2>2
  <1>5. ASSUME NEW last \in BagToSet(rumors[o]),
               thread' = Run(o, [[thread[o] EXCEPT !.pc = "merge"] EXCEPT
                 !.ob = cached[At(o)],
                 !.seen = rumors[cached[At(o)]],
                 !.missing = SetToBag(BagToSet(rumors[o]) \ BagToSet(rumors[cached[At(o)]])),
                 !.addToChan = ~ BagIn(last, rumors[cached[At(o)]])])
        PROVE  LInv'
    <2> DEFINE c == cached[At(o)]
               ms == SetToBag(BagToSet(rumors[o]) \ BagToSet(rumors[c]))
               b == ~ BagIn(last, rumors[c])
               t == [[thread[o] EXCEPT !.pc = "merge"] EXCEPT
                       !.ob = c, !.seen = rumors[c], !.missing = ms, !.addToChan = b]
    <2>1. thread' = Run(o, t)
      BY <1>5
    <2> HIDE DEF c, ms, b
    <2>2. t.pc = "merge"
      BY <1>2 DEF Thread
    <2> HIDE DEF t
    <2> QED
      BY <1>3, <2>1, <2>2
  <1> QED
    BY <1>4, <1>5 DEF Recv

\* A handler caches the gossip, or finds the rumor of its own delegate, which
\* then has it.
LEMMA LearnMerge ==
  ASSUME IInv, LInv, IInv', NEW o \in DOMAIN thread, Merge(o)
  PROVE  LInv'
  <1> DEFINE t == thread[o]
             d == At(o)
             u == [t EXCEPT !.pc = "send", !.missing = EmptyBag, !.seen = EmptyBag]
  <1>1. t.pc = "merge" /\ submitted' = submitted /\ setting' = setting
    BY DEF Merge
  <1>2. o \in Object /\ t \in Thread /\ t.ob \in Object /\ t.ob # None /\ DOMAIN cached = Delegate
    BY NoneIsNoObject, ThreadFields DEF IInv, Core, Threads, Objects, Caches
  <1>3. \/ thread' = Run(o, u) /\ cached' = cached
        \/ cacheOnFirstReceive(o, t.ob)
    BY DEF Merge
  <1>4. CASE thread' = Run(o, u) /\ cached' = cached
    <2>1. u.pc = "send"
      BY <1>2 DEF Thread
    <2>2. o \in DOMAIN thread' /\ thread'[o] = u
      BY <1>4, RunIs
    <2>3. Has(d)'
      BY <2>1, <2>2 DEF IInv, Core, Known
    <2> HIDE DEF u
    <2>4. \A q \in Delegate : Has(q) => Has(q)'
      BY <1>4 DEF Has
    <2>5. \A q : Brings(o, t, q) => q = d
      BY <1>1 DEF Brings
    <2>6. submitted # {}
      BY SomebodySubmitted
    <2> QED
      BY <1>1, <1>4, <2>3, <2>4, <2>5, <2>6, LearnBecomes
  <1>5. CASE cacheOnFirstReceive(o, t.ob)
    <2>1. cached' = [cached EXCEPT ![d] = t.ob]
      BY <1>5 DEF cacheOnFirstReceive
    <2>2. \A q \in Delegate : Has(q) => Has(q)'
      BY <1>2, <2>1 DEF Has
    <2> QED
      BY <1>1, <1>2, <1>5, <2>2, LearnFirst
  <1> QED
    BY <1>3, <1>4, <1>5

\* A call brings the gossip to whom it calls.
LEMMA LearnCall ==
  ASSUME IInv, LInv, submitted # {}, submitted' = submitted, setting' = setting, cached' = cached,
         NEW o, NEW t, NEW q \in Delegate, NEW g, Call(o, t, q, g),
         o \in DOMAIN thread => \A e \in Delegate \ Down : Brings(o, thread[o], e) => e = q \/ Brings(o, t, e),
         o \in DOMAIN rumors
  PROVE  LInv'
  <1> DEFINE n == New(q)
             h == NewThread("recv", o, n)
             f == Run(o, t)
  <1>1. n \notin DOMAIN rumors /\ n \notin DOMAIN thread /\ n # o /\ At(n) = q
    BY NewIsFree DEF IInv, Core, Threads
  <1>2. h.pc = "recv"
    BY DEF NewThread
  <1>3. thread' = With(f, n, h)
    BY DEF Call
  <1> HIDE DEF n, h
  <1>4. /\ DOMAIN f = DOMAIN thread \cup {o} /\ f[o] = t
        /\ \A x \in DOMAIN thread : x # o => f[x] = thread[x]
    BY DEF Run, With
  <1> HIDE DEF f
  <1>5. /\ DOMAIN thread' = DOMAIN f \cup {n} /\ thread'[n] = h
        /\ \A x \in DOMAIN f : x # n => thread'[x] = f[x]
    BY <1>3 DEF With
  <1>6. Brings(n, thread'[n], q) /\ n \in DOMAIN thread'
    BY <1>1, <1>2, <1>5 DEF Brings
  <1>7. o \in DOMAIN thread' /\ thread'[o] = t
    BY <1>1, <1>4, <1>5
  <1>8. \A x \in DOMAIN thread : x # o => x \in DOMAIN thread' /\ thread'[x] = thread[x]
    BY <1>1, <1>4, <1>5
  <1>9. \A e \in Delegate : Has(e) => Has(e)'
    BY DEF Has
  <1>10. ASSUME NEW x \in DOMAIN thread, NEW e \in Delegate \ Down, Brings(x, thread[x], e)
         PROVE  \E y \in DOMAIN thread' : Brings(y, thread'[y], e)
    <2>1. CASE x = o
      BY <1>6, <1>7, <1>10, <2>1
    <2>2. CASE x # o
      BY <1>8, <1>10, <2>2
    <2> QED
      BY <2>1, <2>2
  <1> QED
    BY <1>9, <1>10, SpreadsOn

\* An error that leaves no mark may leave a delegate without the gossip.
LEMMA LearnUnmarked ==
  ASSUME IInv, LInv, Unmarked, submitted # {}, submitted' = submitted, setting' = setting
  PROVE  LInv'
  <1>1. faults < setting.faults
    BY DEF Unmarked
  <1>2. faults \in Nat /\ setting.faults \in Nat
    BY GossipAssumption DEF IInv, Rest
  <1>3. setting'.faults # 0
    BY <1>1, <1>2
  <1> QED
    BY <1>1, <1>3 DEF LInv, Spreads

LEMMA LearnSend ==
  ASSUME IInv, LInv, NEW o \in DOMAIN thread, Send(o)
  PROVE  LInv'
  <1> DEFINE t == thread[o]
  <1>1. /\ t.pc = "send" /\ cached' = cached /\ submitted' = submitted /\ setting' = setting
        /\ submitted # {} /\ o \in DOMAIN rumors
    BY SomebodySubmitted DEF Send, IInv, Core, Threads
  <1>2. t \in Thread /\ t.todo \in SUBSET Delegate
    <2>1. t \in Thread
      BY DEF IInv, Core, Threads
    <2> QED
      BY <2>1, ThreadFields
  <1>3. PICK q \in t.todo \ sent[At(o)] :
          LET rest == [t EXCEPT !.todo = @ \ {q}] IN
          \/ Call(o, [rest EXCEPT !.pc = "sendWait"], q, t.ob)
          \/ q \in Down /\ thread' = Run(o, rest)
          \/ Unmarked
    BY DEF Send
  <1> DEFINE u == [t EXCEPT !.todo = @ \ {q}]
             w == [u EXCEPT !.pc = "sendWait"]
  <1>4. u \in Thread /\ u.pc = "send" /\ u.todo = t.todo \ {q}
    BY <1>1, <1>2 DEF Thread
  <1>5. w.pc = "sendWait" /\ w.todo = t.todo \ {q}
    <2> HIDE DEF u
    <2> QED
      BY <1>4 DEF Thread
  <1>6. Call(o, w, q, t.ob) \/ (q \in Down /\ thread' = Run(o, u)) \/ Unmarked
    BY <1>3
  <1> HIDE DEF u, w
  <1>7. CASE Call(o, w, q, t.ob)
    <2>1. \A e : Brings(o, t, e) => e = q \/ Brings(o, w, e)
      BY <1>1, <1>5 DEF Brings
    <2> QED
      BY <1>1, <1>2, <1>7, <2>1, LearnCall
  <1>8. CASE q \in Down /\ thread' = Run(o, u)
    <2>1. \A e \in Delegate \ Down : Brings(o, t, e) => Brings(o, u, e)
      BY <1>1, <1>4, <1>8 DEF Brings
    <2>2. \A e \in Delegate : Has(e) => Has(e)'
      BY <1>1 DEF Has
    <2> QED
      BY <1>1, <1>8, <2>1, <2>2, LearnBecomes
  <1>9. CASE Unmarked
    BY <1>1, <1>9, LearnUnmarked
  <1> QED
    BY <1>6, <1>7, <1>8, <1>9

\* The goroutine has nobody left to contact: those it skips have the gossip.
LEMMA LearnFinish ==
  ASSUME IInv, LInv, NEW o \in DOMAIN thread, Finish(o)
  PROVE  LInv'
  <1> DEFINE t == thread[o]
             c == t.caller
  <1>1. /\ t.pc = "send" /\ t.todo \subseteq sent[At(o)] /\ thread' = Return(End(o), c)
        /\ cached' = cached /\ submitted' = submitted /\ setting' = setting /\ submitted # {}
    BY SomebodySubmitted DEF Finish
  <1>2. At(o) \in Delegate
    BY ObjectAt DEF IInv, Core, Threads, Objects
  <1>3. \A q : Brings(o, t, q) => Has(q)
    BY <1>1, <1>2 DEF Brings, IInv, SentMeansReceived, Has
  <1>4. /\ DOMAIN End(o) = DOMAIN thread \ {o}
        /\ \A x \in DOMAIN thread : x # o => End(o)[x] = thread[x]
    BY EndIs
  <1>5. c # None => /\ c \in DOMAIN End(o) /\ End(o)[c] \in Thread
                    /\ End(o)[c].pc \in {"sendWait", "workerWait"} /\ End(o)[c] = thread[c]
    <2>1. c # None => /\ c \in DOMAIN thread /\ c # o /\ thread[c] \in Thread
                      /\ thread[c].pc \in {"sendWait", "workerWait"}
      BY DEF IInv, Core, Calls, Threads
    <2> QED
      BY <1>4, <2>1
  <1>6. /\ DOMAIN End(o) \ {c} \subseteq DOMAIN thread'
        /\ \A x \in DOMAIN thread' : x # c => thread'[x] = End(o)[x]
        /\ c = None => thread' = End(o)
        /\ c # None => \/ End(o)[c].pc = "workerWait" /\ c \notin DOMAIN thread'
                       \/ /\ End(o)[c].pc = "sendWait" /\ c \in DOMAIN thread'
                          /\ thread'[c] = [End(o)[c] EXCEPT !.pc = "send"]
    BY <1>1, <1>5, ReturnIs
  <1>7. ASSUME NEW x \in DOMAIN thread, NEW q \in Delegate \ Down, Brings(x, thread[x], q)
        PROVE  Has(q)' \/ \E y \in DOMAIN thread' : Brings(y, thread'[y], q)
    <2>1. CASE x = o
      BY <1>1, <1>3, <1>7, <2>1 DEF Has
    <2>2. CASE x # o /\ (x # c \/ c = None)
      <3>1. x \in DOMAIN thread' /\ thread'[x] = thread[x]
        BY <1>4, <1>6, <2>2
      <3> QED
        BY <1>7, <3>1
    <2>3. CASE x # o /\ x = c /\ c # None
      <3>1. thread[c] \in Thread /\ thread[c].pc \in {"sendWait", "workerWait"} /\ End(o)[c] = thread[c]
        BY <1>5, <2>3
      <3>2. thread[c].pc = "sendWait" /\ q \in thread[c].todo
        BY <1>7, <2>3, <3>1 DEF Brings
      <3> DEFINE u == [thread[c] EXCEPT !.pc = "send"]
      <3>3. u.pc = "send" /\ u.todo = thread[c].todo
        BY <3>1 DEF Thread
      <3>4. c \in DOMAIN thread' /\ thread'[c] = u
        BY <1>6, <2>3, <3>1, <3>2
      <3> HIDE DEF u
      <3>5. Brings(c, thread'[c], q)
        BY <3>2, <3>3, <3>4 DEF Brings
      <3> QED
        BY <3>4, <3>5
    <2> QED
      BY <2>1, <2>2, <2>3
  <1>8. \A q \in Delegate : Has(q) => Has(q)'
    BY <1>1 DEF Has
  <1> QED
    BY <1>1, <1>7, <1>8, SpreadsOn

LEMMA LearnWorkerPush ==
  ASSUME IInv, LInv, NEW o \in DOMAIN thread, WorkerPush(o)
  PROVE  LInv'
  <1>1. /\ thread[o].pc = "push" /\ thread' = End(o) /\ cached' = cached
        /\ submitted' = submitted /\ setting' = setting /\ submitted # {}
    BY SomebodySubmitted DEF WorkerPush
  <1>2. DOMAIN thread' = DOMAIN thread \ {o} /\ \A x \in DOMAIN thread' : thread'[x] = thread[x]
    BY <1>1, EndIs
  <1>3. \A q : ~ Brings(o, thread[o], q)
    BY <1>1 DEF Brings
  <1>4. ASSUME NEW x \in DOMAIN thread, NEW q \in Delegate \ Down, Brings(x, thread[x], q)
        PROVE  \E y \in DOMAIN thread' : Brings(y, thread'[y], q)
    BY <1>2, <1>3, <1>4
  <1>5. \A q \in Delegate : Has(q) => Has(q)'
    BY <1>1 DEF Has
  <1> QED
    BY <1>1, <1>4, <1>5, SpreadsOn

\* A call that is given up may leave a delegate without the gossip.
LEMMA LearnGiveUp ==
  ASSUME IInv, LInv, NEW o \in DOMAIN thread, GiveUp(o)
  PROVE  LInv'
  <1>1. faults < setting.faults /\ submitted' = submitted /\ setting' = setting /\ submitted # {}
    BY SomebodySubmitted DEF GiveUp
  <1>2. faults \in Nat /\ setting.faults \in Nat
    BY GossipAssumption DEF IInv, Rest
  <1>3. setting'.faults # 0
    BY <1>1, <1>2
  <1> QED
    BY <1>1, <1>3 DEF LInv, Spreads

LEMMA LearnWorkerEnds ==
  ASSUME IInv, LInv, NEW d \in Delegate, NEW o \in chan[d], WorkerTimedOut(o) \/ WorkerNobodyLeft(o)
  PROVE  LInv'
  <1>1. /\ thread' = thread /\ submitted' = submitted /\ setting' = setting
        /\ cached' = cached \/ cached' = [cached EXCEPT ![At(o)] = o]
    BY DEF WorkerTimedOut, WorkerNobodyLeft
  <1>2. submitted # {}
    BY SomebodySubmitted
  <1>3. o \in DOMAIN rumors
    BY DEF IInv, Core, Caches
  <1>4. o \in Object
    BY <1>3 DEF IInv, Core, Objects
  <1>5. o # None /\ DOMAIN cached = Delegate
    BY <1>4, NoneIsNoObject DEF IInv, Core, Caches
  <1>6. \A q \in Delegate : Has(q) => Has(q)'
    BY <1>1, <1>5 DEF Has
  <1> QED
    BY <1>1, <1>2, <1>6, SpreadsOn

LEMMA LearnWorkerQuorum ==
  ASSUME IInv, LInv, NEW d \in Delegate, NEW o \in chan[d], WorkerQuorum(o)
  PROVE  LInv'
  <1> DEFINE t == NewThread("push", None, o)
  <1>1. /\ cached' = cached /\ submitted' = submitted /\ setting' = setting
        /\ thread' = thread \/ thread' = Run(o, t)
    BY DEF WorkerQuorum
  <1> HIDE DEF t
  <1>2. submitted # {}
    BY SomebodySubmitted
  <1>3. o \notin DOMAIN thread
    BY DEF IInv, Core, Caches
  <1>4. \A q \in Delegate : Has(q) => Has(q)'
    BY <1>1 DEF Has
  <1>5. CASE thread' = thread
    BY <1>1, <1>2, <1>4, <1>5, SpreadsOn
  <1>6. CASE thread' = Run(o, t)
    BY <1>1, <1>2, <1>3, <1>4, <1>6, LearnBecomes
  <1> QED
    BY <1>1, <1>5, <1>6

LEMMA LearnWorkerCall ==
  ASSUME IInv, LInv, NEW d \in Delegate, NEW o \in chan[d], WorkerCall(o)
  PROVE  LInv'
  <1> DEFINE t == NewThread("workerWait", None, o)
  <1>1. cached' = cached /\ submitted' = submitted /\ setting' = setting
    BY DEF WorkerCall
  <1>2. submitted # {}
    BY SomebodySubmitted
  <1>3. o \in DOMAIN rumors /\ o \notin DOMAIN thread
    BY DEF IInv, Core, Caches
  <1>4. PICK q \in getRandomDelegate(At(o)) : Call(o, t, q, o) \/ UNCHANGED thread
    BY DEF WorkerCall
  <1>5. q \in Delegate
    BY <1>4 DEF getRandomDelegate
  <1> HIDE DEF t
  <1>6. CASE Call(o, t, q, o)
    BY <1>1, <1>2, <1>3, <1>5, <1>6, LearnCall
  <1>7. CASE UNCHANGED thread
    <2>1. \A e \in Delegate : Has(e) => Has(e)'
      BY <1>1 DEF Has
    <2> QED
      BY <1>1, <1>2, <1>7, <2>1, SpreadsOn
  <1> QED
    BY <1>4, <1>6, <1>7

LEMMA LearnStep == IInv /\ IInv' /\ LInv /\ [Next]_vars => LInv'
  <1> SUFFICES ASSUME IInv, IInv', LInv, [Next]_vars PROVE LInv'
    OBVIOUS
  <1>1. ASSUME NEW d \in Delegate, SubmitCheck(d) PROVE LInv'
    BY <1>1, LearnSubmitCheck
  <1>2. ASSUME NEW o \in DOMAIN thread, GiveUp(o) PROVE LInv'
    BY <1>2, LearnGiveUp
  <1>3. ASSUME NEW o \in DOMAIN thread, Handle(o) PROVE LInv'
    BY <1>3, LearnSubmitStart, LearnRecv, LearnMerge, LearnSend, LearnFinish, LearnWorkerPush
       DEF Handle
  <1>4. ASSUME NEW d \in Delegate, NEW o \in chan[d], gossipWorker(o) PROVE LInv'
    BY <1>4, LearnWorkerEnds, LearnWorkerQuorum, LearnWorkerCall DEF gossipWorker
  <1>5. CASE UNCHANGED vars
    <2>1. \A q : Has(q)' = Has(q)
      BY <1>5 DEF vars, Has
    <2> QED
      BY <1>5, <2>1 DEF vars, LInv, Untold, Spreads, Reaches, Down
  <1> QED
    BY <1>1, <1>2, <1>3, <1>4, <1>5 DEF Next, Progress

\* The gossip about a submitted transaction has come to rest and no call was
\* given up: every delegate that is up has the transaction.
UpLearn == Quiet /\ submitted # {} /\ setting.faults = 0 => Informed

\* Delegates that are down keep nobody else from learning of a transaction:
\* whoever a client submits it to, the loop of cacheOnFirstReceive and
\* gossipWorker have brought it to every delegate that answers when the last
\* goroutine has ended, for any number of delegates and submissions.
THEOREM GossipReachesUp == Spec => []UpLearn
  <1>1. Init => LInv
    BY DEF Init, LInv, Untold, Spreads
  <1>2. LInv => UpLearn
    BY DEF LInv, Spreads, Reaches, Has, UpLearn, Quiet, Informed
  <1> QED
    BY <1>1, <1>2, InvInit, InvStep, LearnStep, PTL DEF Spec

\* Without failed calls a transaction submitted to one delegate is known to
\* every delegate when the gossip about it has come to rest, whatever happens
\* to the rumors' times.
THEOREM GossipEveryoneLearns == Spec => []EveryoneLearns
  <1>1. UpLearn => EveryoneLearns
    BY DEF UpLearn, EveryoneLearns, AtRest
  <1> QED
    BY <1>1, GossipReachesUp, PTL

=============================================================================
