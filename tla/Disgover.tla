------------------------------ MODULE Disgover ------------------------------
(***************************************************************************)
(* Discovery and the start of a node: DisGoverService (disgover/), the node *)
(* records of commons/types/node.go, the authentications of                *)
(* commons/types/authentication.go, the start of the services              *)
(* (bootstrap/bootstrap.go).  Module Events has what follows: the event     *)
(* that tells DAPoSService to begin.                                       *)
(*                                                                         *)
(* A node that boots pings the seed, which stores and caches it, answers    *)
(* with the delegates it knows, and half a second later tells every cached  *)
(* delegate the cached list.  The calls carry an authentication that the    *)
(* receiver accepts for 5 seconds; "fresh" says it is not older.  The check *)
(* for duplicates looks for an address among keys that are hashes, so it    *)
(* never finds one and is left out.                                        *)
(*                                                                         *)
(* A badger transaction (external) fails with ErrConflict when a key it has *)
(* read was written since; PingSeedGrpc ignores the error.                 *)
(***************************************************************************)
EXTENDS Naturals, FiniteSets

CONSTANTS
  Node,               \* the nodes that are not the seed
  DelegateAddresses,  \* the configured delegates; none: every node is one
  Software,           \* names of files the operator puts into the update directory
  MaxFaults           \* bound: crashes, of nodes and of the seed, and pings that time out

VARIABLES
  node,       \* per node: its process
  disk,       \* per node: software received, files "disgo" and "disgo-update"
  seed,       \* the seed's process
  db,         \* the seed's badger: nodes stored
  ping,       \* per node: the PingSeedGrpc handler that works for it, none: {}
  updater,    \* goroutines of the seed in peerUpdateGrpc or peerUpdateSoftwareGrpc
  files,      \* files in the seed's update directory
  missed,     \* history: <<d, e>>: the call that told d of e has failed, or d marked e since
  seedCrashed, \* history: the seed has lost its cache
  faults

vars == <<node, disk, seed, db, ping, updater, files, missed, seedCrashed, faults>>

\* What the seed makes of a node; the others keep the type they came with.
IsDelegate(d) == DelegateAddresses = {} \/ d \in DelegateAddresses

\* A process: pc is where DisGoverService.Go is.
Process(pc) ==
  [pc |-> pc, listening |-> FALSE, type |-> "Node", cache |-> {}, unavailable |-> {}, reboot |-> FALSE]
Down == Process("down")
NewSeed(up) == [up |-> up, cache |-> {}]

Init ==
  /\ node = [d \in Node |-> Down]
  /\ disk = [d \in Node |-> {}]
  /\ seed = NewSeed(TRUE) /\ db = {}
  /\ ping = [d \in Node |-> {}] /\ updater = {}
  /\ files \in {{}} \cup {{f} : f \in Software}
  /\ missed = {} /\ seedCrashed = FALSE /\ faults = 0

\* The delegates of a set of nodes (ToNodesByType, ToNodesByTypeFromCache).
Delegates(S) == {d \in S : IsDelegate(d)}

-----------------------------------------------------------------------------
(* A node boots.  Server.Go starts every service in a goroutine of its own. *)

\* The program "disgo-update" is run and then deleted.
Boot(d) ==
  /\ node[d].pc = "down"
  /\ node' = [node EXCEPT ![d] = Process("booting")]
  /\ disk' = [disk EXCEPT ![d] = @ \ {"disgo-update"}]
  /\ UNCHANGED <<seed, db, ping, updater, files, missed, seedCrashed, faults>>

\* GrpcService.Go.
Listen(d) ==
  /\ node[d].pc # "down" /\ ~ node[d].listening
  /\ node' = [node EXCEPT ![d].listening = TRUE]
  /\ UNCHANGED <<disk, seed, db, ping, updater, files, missed, seedCrashed, faults>>

\* The process ends: a crash, a Fatal, the scheduled reboot.
Fault == faults < MaxFaults /\ faults' = faults + 1
Exit(d) ==
  /\ Fault
  /\ node' = [node EXCEPT ![d] = Down]
  /\ missed' = {m \in missed : m[1] # d}
Crash(d) ==
  /\ node[d].pc # "down"
  /\ Exit(d)
  /\ UNCHANGED <<disk, seed, db, ping, updater, files, seedCrashed>>

-----------------------------------------------------------------------------
(* peerPingSeedGrpc and PingSeedGrpc.                                       *)

\* The node authenticates itself with an authentication just made.  The seed
\* sets it, in the cache at once, and reads the delegates, stored and cached.
PingBegin(d) ==
  /\ node[d].pc = "booting" /\ seed.up /\ ping[d] = {}
  /\ node' = [node EXCEPT ![d].pc = "pinging"]
  /\ seed' = [seed EXCEPT !.cache = @ \cup {d}]
  /\ ping' = [ping EXCEPT ![d] = {[reads |-> db \cup {d}, dirty |-> FALSE,
                                   delegates |-> Delegates(db \cup seed.cache \cup {d})]}]
  /\ UNCHANGED <<disk, db, updater, files, missed, seedCrashed, faults>>

\* A goroutine of peerUpdateGrpc before it has read the cache.
NewUpdater(what) == [what |-> what, started |-> FALSE, delegates |-> {}, todo |-> {}, fresh |-> TRUE]

\* Variant of startUpdate: nobody is told.
startUpdateNever == UNCHANGED updater

startUpdate == updater' = updater \cup {NewUpdater("delegates")}

\* The answer, in NODE'S process: the delegates are cached, the node learns its
\* own type.
Joined(p, d, delegates) ==
  [p EXCEPT !.pc = "joined", !.cache = @ \cup delegates, !.unavailable = @ \ delegates,
            !.type = IF d \in delegates THEN "Delegate" ELSE @]

\* Commit, whose error is ignored, and the answer; who is no longer there does
\* not get it.
PingEnd(d) ==
  \E h \in ping[d] :
    /\ db' = IF h.dirty THEN db ELSE db \cup {d}
    /\ ping' = [e \in Node |-> IF e = d THEN {}
                               ELSE {[x EXCEPT !.dirty = @ \/ (~ h.dirty /\ d \in x.reads)] : x \in ping[e]}]
    /\ startUpdate
    /\ node' = IF node[d].pc = "pinging" THEN [node EXCEPT ![d] = Joined(@, d, h.delegates)] ELSE node
    /\ missed' = IF node[d].pc = "pinging" THEN {m \in missed : m[1] # d \/ m[2] \notin h.delegates} ELSE missed
    /\ UNCHANGED <<disk, seed, files, seedCrashed, faults>>

\* No answer within 5 seconds, or no seed: Fatal.
PingFails(d) ==
  /\ \/ node[d].pc = "pinging" /\ Exit(d)
     \/ node[d].pc = "booting" /\ ~ seed.up /\ node' = [node EXCEPT ![d] = Down] /\ UNCHANGED <<missed, faults>>
  /\ UNCHANGED <<disk, seed, db, ping, updater, files, seedCrashed>>

-----------------------------------------------------------------------------
(* peerUpdateGrpc and UpdateGrpc, peerUpdateSoftwareGrpc and                *)
(* UpdateSoftwareGrpc: one delegate of the list after the other.            *)

\* updateWorker finds a file.
FoundSoftware(f) ==
  /\ f \in files /\ seed.up
  /\ \A u \in updater : u.what # f
  /\ updater' = updater \cup {NewUpdater(f)}
  /\ UNCHANGED <<node, disk, seed, db, ping, files, missed, seedCrashed, faults>>

Replace(u, S) == updater' = (updater \ {u}) \cup S

\* The list and the authentication are made once, before the first call.
UpdateStart(u) ==
  /\ ~ u.started
  /\ Replace(u, {[u EXCEPT !.started = TRUE, !.delegates = Delegates(seed.cache), !.todo = Delegates(seed.cache)]})
  /\ UNCHANGED <<node, disk, seed, db, ping, files, missed, seedCrashed, faults>>

\* verifySeedNode and, for software, verifySoftwareUpdate: the hash and the
\* signature are the seed's.
verifySeedNode(u) == u.fresh

\* Variant of UpdateGrpc: only the delegates that are not cached yet are.
UpdateGrpcNew(p, delegates) == [p EXCEPT !.cache = @ \cup delegates]

\* The delegates are cached; the new records carry no status.
UpdateGrpc(p, delegates) == [p EXCEPT !.cache = @ \cup delegates, !.unavailable = @ \ delegates]

\* The file is written; "disgo" also schedules the reboot.
UpdateSoftwareGrpc(d, f) ==
  /\ disk' = [disk EXCEPT ![d] = @ \cup {IF f = "disgo" THEN "disgo" ELSE "disgo-update"}]
  /\ node' = [node EXCEPT ![d].reboot = @ \/ f = "disgo"]

Told(u, d) == missed' = IF u.what = "delegates" THEN missed \ ({d} \X u.delegates) ELSE missed
NotTold(u, d) ==
  missed' = IF u.what = "delegates" /\ node[d].pc \in {"pinging", "joined"}
            THEN missed \cup ({d} \X (u.delegates \ {d})) ELSE missed
\* Who is still to be called, and whether the authentication has become too old.
After(u, d, fresh) == [u EXCEPT !.todo = @ \ {d}, !.fresh = fresh \/ u.todo = {d}]

UpdateCall(u, d) ==
  /\ u.started /\ d \in u.todo /\ node[d].listening /\ verifySeedNode(u)
  /\ IF u.what = "delegates" THEN node' = [node EXCEPT ![d] = UpdateGrpc(@, u.delegates)] /\ UNCHANGED disk
     ELSE UpdateSoftwareGrpc(d, u.what)
  /\ Told(u, d)
  /\ \E late \in BOOLEAN : Replace(u, {After(u, d, ~ late)})
  /\ UNCHANGED <<seed, db, ping, files, seedCrashed, faults>>

\* The call is refused, times out, or the authentication has.  Dial does not
\* wait for the connection, so the branch that drops a delegate is not taken.
UpdateCallFails(u, d) ==
  /\ u.started /\ d \in u.todo
  /\ ~ node[d].listening \/ ~ verifySeedNode(u)
  /\ NotTold(u, d)
  /\ \E late \in BOOLEAN : Replace(u, {After(u, d, u.fresh /\ ~ late)})
  /\ UNCHANGED <<node, disk, seed, db, ping, files, seedCrashed, faults>>

\* The file is deleted, whoever has got it.
UpdateEnd(u) ==
  /\ u.started /\ u.todo = {}
  /\ Replace(u, {})
  /\ files' = files \ {u.what}
  /\ UNCHANGED <<node, disk, seed, db, ping, missed, seedCrashed, faults>>

\* The reboot the update of "disgo" has scheduled.
Reboot(d) ==
  /\ node[d].reboot
  /\ Exit(d)
  /\ UNCHANGED <<disk, seed, db, ping, updater, files, seedCrashed>>

-----------------------------------------------------------------------------
(* The seed's process.                                                     *)

SeedCrash ==
  /\ seed.up /\ Fault
  /\ seed' = NewSeed(FALSE)
  /\ ping' = [d \in Node |-> {}] /\ updater' = {}
  /\ seedCrashed' = TRUE
  /\ UNCHANGED <<node, disk, db, files, missed>>

SeedBoot ==
  /\ ~ seed.up
  /\ seed' = NewSeed(TRUE)
  /\ UNCHANGED <<node, disk, db, ping, updater, files, missed, seedCrashed, faults>>

-----------------------------------------------------------------------------
(* Availability, as dapos uses it.                                         *)

\* A call to a delegate has failed: its cached record says so.
MarkUnavailable(d, e) ==
  /\ e \in node[d].cache \ (node[d].unavailable \cup {d})
  /\ node[d].pc = "joined" /\ ~ node[e].listening
  /\ node' = [node EXCEPT ![d].unavailable = @ \cup {e}]
  /\ missed' = IF node[e].pc = "joined" THEN missed \cup {<<d, e>>} ELSE missed
  /\ UNCHANGED <<disk, seed, db, ping, updater, files, seedCrashed, faults>>

\* IsAvailable compares seconds with 5 s counted in nanoseconds, so the mark
\* outlives the node: it goes only when the record is replaced.
IsAvailable(d, e) == e \notin node[d].unavailable

-----------------------------------------------------------------------------

OfNode(d) == Listen(d) \/ PingBegin(d) \/ PingEnd(d)
OfSeed ==
  \/ SeedBoot \/ SeedCrash
  \/ \E f \in files : FoundSoftware(f)
  \/ \E u \in updater : UpdateStart(u) \/ UpdateEnd(u) \/ \E d \in u.todo : UpdateCall(u, d) \/ UpdateCallFails(u, d)

Next ==
  \/ \E d \in Node : Boot(d) \/ Crash(d) \/ PingFails(d) \/ Reboot(d) \/ OfNode(d)
  \/ \E d, e \in Node : MarkUnavailable(d, e)
  \/ OfSeed

Spec == Init /\ [][Next]_vars

-----------------------------------------------------------------------------
(* Properties.                                                             *)

TypeOK ==
  /\ \A d \in Node :
       /\ node[d].pc \in {"down", "booting", "pinging", "joined"}
       /\ node[d].cache \subseteq Node /\ node[d].unavailable \subseteq node[d].cache
       /\ disk[d] \subseteq {"disgo", "disgo-update"}
       /\ Cardinality(ping[d]) <= 1
  /\ seed.cache \subseteq Node /\ db \subseteq Node /\ files \subseteq Software
  /\ \A u \in updater : u.todo \subseteq u.delegates /\ u.delegates \subseteq Node

Quiet == updater = {} /\ \A d \in Node : ping[d] = {}
HasJoined(d) == IsDelegate(d) /\ node[d].pc = "joined"

\* Once the seed has nothing left to tell, any two delegates that have joined
\* know each other, whatever the order of their pings, answers and updates,
\* unless the call about it failed or the seed has lost its cache since.
DelegatesKnowEachOther ==
  Quiet /\ ~ seedCrashed =>
    \A d, e \in Node : HasJoined(d) /\ HasJoined(e) => e \in node[d].cache \/ <<d, e>> \in missed

\* A delegate that was unreachable and has booted again is available to the
\* others, unless the call about it failed, or it was marked again after it
\* had joined, its server not listening yet: the mark does not expire, only the
\* new record clears it.
ComeBackIsAvailable ==
  Quiet /\ ~ seedCrashed =>
    \A d, e \in Node : HasJoined(d) /\ HasJoined(e) /\ node[e].listening =>
      IsAvailable(d, e) \/ <<d, e>> \in missed

\* Delegates that have joined know each other and can reach each other, whatever
\* came in which order (PingSeedGrpc, UpdateGrpc).
DelegatesInTouch == TypeOK /\ DelegatesKnowEachOther /\ ComeBackIsAvailable
=============================================================================
