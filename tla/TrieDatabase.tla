---------------------------- MODULE TrieDatabase ----------------------------
(***************************************************************************)
(* The write layer between the tries and Badger (dvm/ethereum/trie/        *)
(* database.go), and how VMStateHelper uses it: a helper opens the world of *)
(* a contract at the root that Badger names, stores the nodes of the new    *)
(* world in a Database of its own, writes them to Badger, and then the new  *)
(* root.  Several helpers of one contract may be at work; what they share   *)
(* is Badger.  A Put that fails is not noticed: the batch goes on without   *)
(* it, and the nodes leave memory.                                         *)
(*                                                                         *)
(* A node is its hash.  Kids are the hashes inside it, Refs the storage     *)
(* root and the code that the account in it names.  Dereference and Cap,    *)
(* which nobody calls in this program, are modelled with the rest of the    *)
(* interface; "calls" counts them.                                         *)
(***************************************************************************)
EXTENDS Naturals, Sequences, FiniteSets, SequencesExt, Functions

CONSTANTS
  Helper,     \* the VMStateHelpers at work
  Hash,       \* hashes of nodes and codes
  Kids,       \* Hash -> sequence of the hashes inside the node
  StorageOf,  \* Hash -> the storage root of the account in the node, or NoHash
  CodeOf,     \* Hash -> the code of the account in the node, or NoHash
  Root,       \* the roots of worlds
  MaxLost,    \* bound: nodes lost at once
  MaxCalls,   \* bound: calls of Dereference and Cap
  MaxOpens    \* bound: helpers opened

NoHash == "none"  \* crypto.HashBytes{}; the empty storage root, the empty code

ASSUME TrieAssumption ==
  /\ IsFiniteSet(Hash) /\ NoHash \notin Hash /\ Root \subseteq Hash
  /\ Kids \in [Hash -> Seq(Hash)]
  /\ StorageOf \in [Hash -> Hash \cup {NoHash}] /\ CodeOf \in [Hash -> Hash \cup {NoHash}]

VARIABLES
  db,       \* per helper: its Database
  pc,       \* per helper: "idle", "store", "write", "point"
  target,   \* per helper: the root it will write
  disk,     \* hashes in Badger
  lost,     \* history: hashes a batch went on without, and that are not in Badger
  pointer,  \* the root under "AccountState-", or NoHash
  opens, calls

dbVars == <<db, pc, target, disk, lost, pointer, opens, calls>>

-----------------------------------------------------------------------------
(* Database: nodes with their reference counts, and the flush-list.        *)

\* Function f with the value v at x.
SetAt(f, x, v) == [y \in DOMAIN f \cup {x} |-> IF y = x THEN v ELSE f[y]]

NoCount == [h \in {} |-> 0]
cachedNode(prev) == [parents |-> 0, children |-> NoCount, flushPrev |-> prev, flushNext |-> NoHash]

\* The entry of NoHash is the meta root.
NewDatabase == [nodes |-> [h \in {NoHash} |-> cachedNode(NoHash)], oldest |-> NoHash, newest |-> NoHash]
Cached(d) == DOMAIN d.nodes \ {NoHash}

\* childs: the external ones, then the ones inside.
childs(d, h) == SetToSeq(DOMAIN d.nodes[h].children) \o Kids[h]

\* Variant of countParents: each child is counted once.
countParentsOnce(nodes, h) ==
  [x \in DOMAIN nodes |-> [nodes[x] EXCEPT !.parents = @ + IF Contains(Kids[h], x) THEN 1 ELSE 0]]

\* A child that occurs twice is counted twice.
countParents(nodes, h) ==
  [x \in DOMAIN nodes |->
     [nodes[x] EXCEPT !.parents = @ + Cardinality({i \in DOMAIN Kids[h] : Kids[h][i] = x})]]

\* The new node goes to the end of the flush-list.
link(d, h) ==
  IF d.oldest = NoHash THEN [d EXCEPT !.oldest = h, !.newest = h]
  ELSE [d EXCEPT !.nodes[d.newest].flushNext = h, !.newest = h]

\* insert, InsertBlob.
insert(d, h) ==
  IF h \in DOMAIN d.nodes THEN d
  ELSE link([d EXCEPT !.nodes = SetAt(countParents(@, h), h, cachedNode(d.newest))], h)

\* reference: a second one is counted for the meta root only.
Reference(d, child, parent) ==
  IF \/ child \notin DOMAIN d.nodes
     \/ parent # NoHash /\ child \in DOMAIN d.nodes[parent].children
  THEN d
  ELSE LET counts == d.nodes[parent].children
           count == IF child \in DOMAIN counts THEN counts[child] + 1 ELSE 1
       IN  [d EXCEPT !.nodes[child].parents = @ + 1,
                     !.nodes[parent].children = SetAt(counts, child, count)]

\* The node leaves the flush-list, by the first case that fits.
unlink(d, h) ==
  LET n == d.nodes[h]
  IN  IF h = d.oldest THEN [d EXCEPT !.oldest = n.flushNext, !.nodes[n.flushNext].flushPrev = NoHash]
      ELSE IF h = d.newest THEN [d EXCEPT !.newest = n.flushPrev, !.nodes[n.flushPrev].flushNext = NoHash]
      ELSE [d EXCEPT !.nodes[n.flushPrev].flushNext = n.flushNext, !.nodes[n.flushNext].flushPrev = n.flushPrev]

delete(d, h) == [d EXCEPT !.nodes = Restrict(@, DOMAIN @ \ {h})]

\* One reference less from parent to child; a parent that is gone counts nothing.
release(d, child, parent) ==
  IF parent \notin DOMAIN d.nodes THEN d
  ELSE LET counts == d.nodes[parent].children
           fewer == IF child \notin DOMAIN counts THEN counts
                    ELSE IF counts[child] = 1 THEN Restrict(counts, DOMAIN counts \ {child})
                    ELSE [counts EXCEPT ![child] = @ - 1]
       IN  [d EXCEPT !.nodes[parent].children = fewer]

\* The recursions of dereference and uncache run depth first: "todo" are the
\* calls still to come.  Each deleted node is visited from its parents, and has
\* its children and two external ones visited.
Visits == 1 + Cardinality(UNION {{h} \X (1 .. Len(Kids[h]) + 2) : h \in Hash})

dereferenceOnce(a) ==
  LET child == a.todo[1][1]
      r == release(a.db, child, a.todo[1][2])
      one == [r EXCEPT !.nodes[child].parents = IF @ > 0 THEN @ - 1 ELSE 0]
      below == childs(one, child)
  IN  IF a.todo = <<>> THEN a
      ELSE IF child \notin DOMAIN a.db.nodes THEN [db |-> r, todo |-> Tail(a.todo)]
      ELSE IF one.nodes[child].parents > 0 THEN [db |-> one, todo |-> Tail(a.todo)]
      ELSE [db |-> delete(unlink(one, child), child),
            todo |-> [i \in DOMAIN below |-> <<below[i], child>>] \o Tail(a.todo)]

dereference(d, child, parent) ==
  LET after[n \in 0 .. Visits] ==
        IF n = 0 THEN [db |-> d, todo |-> <<<<child, parent>>>>] ELSE dereferenceOnce(after[n - 1])
  IN  after[Visits].db

uncacheOnce(a) ==
  LET h == Head(a.todo)
  IN  IF a.todo = <<>> THEN a
      ELSE IF h \notin DOMAIN a.db.nodes THEN [db |-> a.db, todo |-> Tail(a.todo)]
      ELSE [db |-> delete(unlink(a.db, h), h), todo |-> childs(a.db, h) \o Tail(a.todo)]

uncache(d, h) ==
  LET after[n \in 0 .. Visits] == IF n = 0 THEN [db |-> d, todo |-> <<h>>] ELSE uncacheOnce(after[n - 1])
  IN  after[Visits].db

\* Cap, as far as node n of the flush-list: the n oldest nodes leave.
Cap(d, n) ==
  LET after[i \in 0 .. n] ==
        IF i = 0 THEN d
        ELSE LET e == after[i - 1]
             IN  IF e.oldest = NoHash THEN e
                 ELSE delete([e EXCEPT !.oldest = e.nodes[e.oldest].flushNext], e.oldest)
      last == after[n]
  IN  IF last.oldest = NoHash THEN last ELSE [last EXCEPT !.nodes[last.oldest].flushPrev = NoHash]

\* The n oldest nodes.
Oldest(d, n) ==
  LET place[i \in 0 .. n] ==
        IF i = 0 THEN d.oldest
        ELSE LET h == place[i - 1] IN IF h = NoHash THEN NoHash ELSE d.nodes[h].flushNext
  IN  {place[i] : i \in 0 .. n - 1} \ {NoHash}

-----------------------------------------------------------------------------
(* VMStateHelper.                                                          *)

\* What the accounts in a node refer to, and all a node needs.
Refs(h) == {StorageOf[h], CodeOf[h]} \ {NoHash}
Needs(h) == ToSet(Kids[h]) \cup Refs(h)

\* A node and all below it.
Below(h) ==
  LET level[n \in 0 .. Cardinality(Hash)] ==
        IF n = 0 THEN {h} ELSE LET up == level[n - 1] IN up \cup UNION {Needs(k) : k \in up}
  IN  level[Cardinality(Hash)]

DiskInit ==
  /\ db = [x \in Helper |-> NewDatabase] /\ pc = [x \in Helper |-> "idle"]
  /\ target = [x \in Helper |-> NoHash]
  /\ disk = {} /\ lost = {} /\ pointer = NoHash /\ opens = 0 /\ calls = 0

\* The world that the pointer names is opened, which needs its root; the execution
\* leads to some world.
NewVMStateHelper(x, t) ==
  /\ pc[x] = "idle" /\ pointer \notin lost /\ opens < MaxOpens /\ opens' = opens + 1
  /\ db' = [db EXCEPT ![x] = NewDatabase]
  /\ pc' = [pc EXCEPT ![x] = "store"]
  /\ target' = [target EXCEPT ![x] = t]
  /\ UNCHANGED <<disk, lost, pointer, calls>>

Available(x) == Cached(db[x]) \cup disk

\* The callback of StateDB.Commit.
referTo(d, child, parent) == IF child = NoHash THEN d ELSE Reference(d, child, parent)

\* A node with its references, as hasher.store and the callback give them.
stored(d, h) == referTo(referTo(insert(d, h), StorageOf[h], h), CodeOf[h], h)

\* StateDB.Commit(false): codes, storage tries, then the accounts, the children
\* before their parents.  A node that was written may be stored again; one that
\* was not changed is named and not read, so that it may be lost.
Store(x, h) ==
  /\ pc[x] = "store" /\ h \in Below(target[x]) \ Cached(db[x])
  /\ Needs(h) \subseteq Available(x) \cup lost
  /\ db' = [db EXCEPT ![x] = stored(@, h)]
  /\ UNCHANGED <<pc, target, disk, lost, pointer, opens, calls>>

\* StateDB.Commit is done: the root is there, and is referenced.
Stored(x) ==
  /\ pc[x] = "store" /\ target[x] \in Available(x)
  /\ pc' = [pc EXCEPT ![x] = "write"]
  /\ db' = [db EXCEPT ![x] = Reference(@, target[x], NoHash)]
  /\ UNCHANGED <<target, disk, lost, pointer, opens, calls>>

\* memBatch.Write drops the error of each Put and returns nil: nodes that fail are
\* not in Badger, unless they were there.
PutAll(H) ==
  \E failed \in SUBSET (H \ disk) :
    /\ disk' = disk \cup (H \ failed)
    /\ lost' = (lost \cup failed) \ (H \ failed)
    /\ Cardinality(lost') <= MaxLost

\* The nodes commit has still to write, in the order of its batch: a node whose
\* cached children were written.
Reachable(d, h) == Below(h) \cap Cached(d)

\* Variant of ready: in any order.
readyAny(x, h) == TRUE

ready(x, h) == ToSet(childs(db[x], h)) \cap Cached(db[x]) \subseteq disk \cup lost

\* The batch puts one after the other; a crash may come between any two.  A node
\* that was lost before may be left out, as if its Put failed again.
BatchWrite(x, h) ==
  /\ pc[x] = "write" /\ h \in Reachable(db[x], target[x]) \ disk
  /\ ready(x, h)
  /\ PutAll({h})
  /\ UNCHANGED <<db, pc, target, pointer, opens, calls>>

\* The batch is through, and its nodes leave memory.
Committed(x) ==
  /\ pc[x] = "write" /\ target[x] \in disk \cup lost
  /\ pc' = [pc EXCEPT ![x] = "point"]
  /\ db' = [db EXCEPT ![x] = uncache(@, target[x])]
  /\ UNCHANGED <<target, disk, lost, pointer, opens, calls>>

\* The root goes to "AccountState-", unless this Put fails, which is not noticed
\* either (and the transaction, its receipt and the head to keys of their own).
Point(x) ==
  /\ pc[x] = "point" /\ pointer' \in {pointer, target[x]}
  /\ pc' = [pc EXCEPT ![x] = "idle"]
  /\ db' = [db EXCEPT ![x] = NewDatabase]
  /\ target' = [target EXCEPT ![x] = NoHash]
  /\ UNCHANGED <<disk, lost, opens, calls>>

\* Dereference of the root that is being written is left out.
Dereference(x, h) ==
  /\ pc[x] = "write" /\ calls < MaxCalls /\ calls' = calls + 1
  /\ h \in Cached(db[x]) \ {target[x]} /\ h \in DOMAIN db[x].nodes[NoHash].children
  /\ db' = [db EXCEPT ![x] = dereference(@, h, NoHash)]
  /\ UNCHANGED <<pc, target, disk, lost, pointer, opens>>

CapTo(x, n) ==
  /\ pc[x] = "write" /\ calls < MaxCalls /\ calls' = calls + 1
  /\ PutAll(Oldest(db[x], n))
  /\ db' = [db EXCEPT ![x] = Cap(@, n)]
  /\ UNCHANGED <<pc, target, pointer, opens>>

\* A second world in the same Database.
Again(x, t) ==
  /\ pc[x] = "write" /\ MaxCalls > 0 /\ opens < MaxOpens /\ opens' = opens + 1
  /\ pc' = [pc EXCEPT ![x] = "store"]
  /\ target' = [target EXCEPT ![x] = t]
  /\ UNCHANGED <<db, disk, lost, pointer, calls>>

Crash ==
  /\ \E x \in Helper : pc[x] # "idle"
  /\ db' = [x \in Helper |-> NewDatabase] /\ pc' = [x \in Helper |-> "idle"]
  /\ target' = [x \in Helper |-> NoHash]
  /\ UNCHANGED <<disk, lost, pointer, opens, calls>>

DiskNext ==
  \/ \E x \in Helper :
       \/ \E t \in Root : NewVMStateHelper(x, t) \/ Again(x, t)
       \/ \E h \in Hash : Store(x, h) \/ BatchWrite(x, h) \/ Dereference(x, h)
       \/ Stored(x) \/ Committed(x) \/ Point(x)
       \/ \E n \in 1 .. 2 : CapTo(x, n)
  \/ Crash

DiskSpec == DiskInit /\ [][DiskNext]_dbVars

-----------------------------------------------------------------------------
(* Properties.                                                             *)

\* Nothing that a node on the disk refers to, and no world that the pointer names,
\* is missing, but for nodes whose own Put has failed: neither the order of the
\* writes, nor a crash between two of them, nor whoever else commits opens a gap.
DiskClosed ==
  /\ \A h \in disk : Needs(h) \subseteq disk \cup lost
  /\ pointer \in disk \cup lost \cup {NoHash}

\* The flush-list runs through exactly the cached nodes, in both directions.
FlushListComplete ==
  \A x \in Helper : LET d == db[x] IN
    /\ Oldest(d, Cardinality(Hash) + 1) = Cached(d)
    /\ \A h \in Cached(d) : d.nodes[h].flushNext # NoHash => d.nodes[d.nodes[h].flushNext].flushPrev = h
    /\ Cached(d) # {} => d.newest \in Cached(d) /\ d.nodes[d.newest].flushNext = NoHash

\* What a referenced root needs is in memory or on the disk, or its Put has failed.
RootsAreKept ==
  \A x \in Helper : \A r \in DOMAIN db[x].nodes[NoHash].children : Below(r) \subseteq Available(x) \cup lost

\* What a referenced root needs is never collected, although dereferencing
\* another root cascades through shared nodes, and the flush-list stays whole.
ReferencedIsKept == FlushListComplete /\ RootsAreKept
=============================================================================
