---------------------------- MODULE TrieIterator ----------------------------
(***************************************************************************)
(* Reading a trie (dvm/ethereum/trie: iterator.go, proof.go): the iterators *)
(* over one trie, over the difference and over the union of two, and Merkle *)
(* proofs.  An iterator is a value [t, stack, path, err]; the methods that  *)
(* change it return the new one.                                           *)
(***************************************************************************)
EXTENDS Trie, Integers

Minimum(S) == CHOOSE i \in S : \A j \in S : i <= j

\* bytes.Compare.
Before(a, b) ==
  LET m == prefixLen(a, b)
  IN  IF m < Len(a) /\ m < Len(b) THEN a[m + 1] < b[m + 1] ELSE Len(a) < Len(b)

-----------------------------------------------------------------------------
(* nodeIterator.                                                           *)

\* The hash a node knows; Nil: none.
cache(n) == IF Flagged(n) THEN n.flags.hash ELSE Nil

nodeIteratorState(n, pathlen) == [hash |-> cache(n), node |-> n, index |-> -1, pathlen |-> pathlen]

Top(it) == Last(it.stack)
ItHash(it) == IF it.stack = <<>> THEN Nil ELSE Top(it).hash
Leaf(it) == hasTerm(it.path)
LeafKey(it) == hexToKeybytes(it.path)
LeafBlob(it) == Top(it).node.v

pop(it) == [it EXCEPT !.path = SubSeq(@, 1, Top(it).pathlen), !.stack = Front(@)]

\* "first": the root, which has no parent to move on.
push(it, p) ==
  LET moved == IF p.first THEN it.stack ELSE [it.stack EXCEPT ![Len(it.stack)].index = @ + 1]
  IN  [it EXCEPT !.path = p.path, !.stack = Append(moved, p.state)]

\* The children of the top node that are still to come, with their places.
nextChildren(it) ==
  LET n == Top(it).node
  IN  IF n.t = "full" THEN {i \in Top(it).index + 1 .. 16 : n.children[i] # Nil}
      ELSE IF n.t = "short" /\ Top(it).index < 0 THEN {0} ELSE {}

\* What peek returns: the iterator, with what it has popped, and the next state.
Peeked(it, state, path, first) ==
  LET h == state.node
      n == IF h.t = "hash" THEN resolveHash(it.t, h) ELSE h
  IN  IF h.t = "hash" /\ n = Nil
      THEN [it |-> it, state |-> state, path |-> path, first |-> first, err |-> "missing"]
      ELSE [it |-> it, path |-> path, first |-> first, err |-> "none",
            state |-> IF h.t = "hash" THEN [state EXCEPT !.node = n, !.hash = h] ELSE state]

nextChild(it, n, i) ==
  IF n.t = "full"
  THEN Peeked([it EXCEPT !.stack[Len(it.stack)].index = i - 1],
              nodeIteratorState(n.children[i], Len(it.path)), Append(it.path, i), FALSE)
  ELSE Peeked(it, nodeIteratorState(n.val, Len(it.path)), it.path \o n.key, FALSE)

AtEnd(it) == [it |-> it, state |-> nodeIteratorState(Nil, 0), path |-> <<>>, first |-> TRUE, err |-> "end"]

\* Up until there is a next child.
RECURSIVE climb(_)
climb(it) ==
  IF it.stack = <<>> THEN AtEnd(it)
  ELSE IF nextChildren(it) = {} THEN climb(pop(it))
  ELSE nextChild(it, Top(it).node, Minimum(nextChildren(it)))

peek(it, descend) ==
  IF it.stack = <<>>
  THEN Peeked(it, [nodeIteratorState(it.t.root, 0) EXCEPT
                     !.hash = IF it.t.root = Nil THEN Nil ELSE hashRoot(it.t, FALSE).hashed], <<>>, TRUE)
  ELSE climb(IF descend THEN it ELSE pop(it))

\* Forward to just before the first path that is not before key.
RECURSIVE seekOn(_, _)
seekOn(p, key) ==
  IF p.err = "end" THEN [p.it EXCEPT !.err = "end"]
  ELSE IF p.err = "missing" THEN [p.it EXCEPT !.err = "seek"]
  ELSE IF ~Before(p.path, key) THEN [p.it EXCEPT !.err = "none"]
  ELSE seekOn(peek(push(p.it, p), IsPrefix(p.path, key)), key)

seek(it, key) == seekOn(peek(it, IsPrefix(it.path, key)), key)

newNodeIterator(t, start) ==
  seek([t |-> [t EXCEPT !.root = hashRoot(t, FALSE).cached], stack |-> <<>>, path |-> <<>>, err |-> "none"],
       Front(keybytesToHex(start)))

moveTo(p) == IF p.err # "none" THEN [p.it EXCEPT !.err = p.err] ELSE push(p.it, p)

\* A failed seek is tried again and, the Database being as it was, fails again.
ItNext(it, descend) == IF it.err \in {"end", "seek"} THEN it ELSE moveTo(peek(it, descend))

Ok(it) == it.err = "none"

\* Iterator.Next, over and over: the leaves, and the error at the end.
LeafAt(it) == IF Leaf(it) THEN <<<<LeafKey(it), LeafBlob(it)>>>> ELSE <<>>
RECURSIVE LeavesFrom(_, _)
LeavesFrom(n, seq) ==
  IF Ok(n) THEN LeavesFrom(ItNext(n, TRUE), seq \o LeafAt(n)) ELSE [seq |-> seq, err |-> n.err # "end"]
Leaves(it) == LeavesFrom(ItNext(it, TRUE), <<>>)

-----------------------------------------------------------------------------
(* Two tries.                                                              *)

\* Some order of hashes.
HashBefore(g, h) == g # h /\ Head(SetToSeq({g, h})) = g
BlobBefore(v, w) == v # w /\ Head(SetToSeq({v, w})) = v

\* compareNodes < 0.
NodeBefore(a, b) ==
  IF a.path # b.path THEN Before(a.path, b.path)
  ELSE IF ItHash(a) # ItHash(b) THEN HashBefore(ItHash(a), ItHash(b))
  ELSE Leaf(a) /\ BlobBefore(LeafBlob(a), LeafBlob(b))

\* compareNodes = 0.
NodeSame(a, b) == ~NodeBefore(a, b) /\ ~NodeBefore(b, a)

NewDifferenceIterator(a, b) == [a |-> ItNext(a, TRUE), b |-> b, eof |-> FALSE]

\* Equal nodes that have a hash are skipped with everything below them.
withA(d, a) == [d EXCEPT !.a = a, !.eof = ~Ok(a)]
RECURSIVE skipEqual(_)
skipEqual(d) ==
  IF d.eof \/ ~Ok(d.b) \/ NodeBefore(d.b, d.a) THEN d
  ELSE IF NodeBefore(d.a, d.b) THEN skipEqual(withA(d, ItNext(d.a, TRUE)))
  ELSE skipEqual(withA([d EXCEPT !.b = ItNext(@, ItHash(d.a) = Nil)], ItNext(d.a, ItHash(d.a) = Nil)))

DifferenceNext(d) == skipEqual([d EXCEPT !.b = ItNext(@, TRUE)])

RECURSIVE DifferenceFrom(_, _)
DifferenceFrom(d, seq) == IF Ok(d.b) THEN DifferenceFrom(DifferenceNext(d), seq \o LeafAt(d.b)) ELSE seq
DifferenceLeaves(d) == DifferenceFrom(DifferenceNext(d), <<>>)

\* An iterator that has moved goes back on the heap, of at most one other, if it
\* has not come to its end.
heapPush(items, it) ==
  IF ~Ok(it) THEN items
  ELSE IF items # <<>> /\ NodeBefore(it, items[1]) THEN <<it>> \o items ELSE Append(items, it)

\* Identical nodes of the others are skipped, with what is below them if they
\* have a hash.
skipped(it) == ItNext(it, ItHash(it) = Nil)

RECURSIVE skipIdentical(_, _)
skipIdentical(items, least) ==
  IF items = <<>> THEN items
  ELSE IF ~NodeSame(least, items[1]) THEN items
  ELSE skipIdentical(heapPush(Tail(items), skipped(items[1])), least)

UnionNext(items) == heapPush(skipIdentical(Tail(items), items[1]), ItNext(items[1], TRUE))

RECURSIVE UnionFrom(_, _)
UnionFrom(items, seq) == IF items = <<>> THEN seq ELSE UnionFrom(UnionNext(items), seq \o LeafAt(items[1]))
UnionLeaves(items) == UnionFrom(UnionNext(items), <<>>)

-----------------------------------------------------------------------------
(* Proofs.                                                                 *)

\* The nodes on the path of key, from n down; <<>> and an error when one is
\* missing.
RECURSIVE pathNodes(_, _, _)
pathNodes(t, n, key) ==
  IF key = <<>> \/ n = Nil THEN [nodes |-> <<>>, err |-> FALSE]
  ELSE IF n.t = "hash"
  THEN LET m == resolveHash(t, n) IN IF m = Nil THEN [nodes |-> <<>>, err |-> TRUE] ELSE pathNodes(t, m, key)
  ELSE LET match == n.t = "full" \/ StartsWith(key, n.key)
           r == IF ~match THEN [nodes |-> <<>>, err |-> FALSE]
                ELSE IF n.t = "full" THEN pathNodes(t, n.children[Head(key)], Tail(key))
                ELSE pathNodes(t, n.val, Rest(key, Len(n.key)))
       IN  [r EXCEPT !.nodes = <<n>> \o @]

\* Variant of Hashed: a small root is left out.
HashedUnforced(t, n, force) == hash(t, n, FALSE, FALSE).hashed

\* What the node's parent holds for it; the root is always hashed.
Hashed(t, n, force) == hash(t, n, FALSE, force).hashed

\* The encodings of the nodes that are hashed, by hash.
Prove(t, k) ==
  LET p == pathNodes(t, t.root, keybytesToHex(k))
      proof == [i \in DOMAIN p.nodes |-> Hashed(t, p.nodes[i], i = 1)]
      kept  == {proof[i].of : i \in {j \in DOMAIN proof : proof[j].t = "hash"}}
  IN  [err |-> p.err, db |-> [e \in kept |-> e]]

\* get: down to a value, a hash or nothing.
RECURSIVE get(_, _)
get(n, key) ==
  CASE n.t = "short" -> IF StartsWith(key, n.key) THEN get(n.val, Rest(key, Len(n.key))) ELSE [rest |-> <<>>, node |-> Nil]
    [] n.t = "full" -> get(n.children[Head(key)], Tail(key))
    [] OTHER -> [rest |-> key, node |-> n]

\* A proof that breaks off is an error.
RECURSIVE verifyFrom(_, _, _)
verifyFrom(h, key, db) ==
  LET r == get(resolveHash([db |-> db, gen |-> 0], h), key)
  IN  IF h.of \notin DOMAIN db THEN "error"
      ELSE CASE r.node.t = "nil" -> Empty
             [] r.node.t = "hash" -> verifyFrom(r.node, r.rest, db)
             [] r.node.t = "value" -> r.node.v

VerifyProof(root, k, db) == verifyFrom(root, keybytesToHex(k), db)

-----------------------------------------------------------------------------
(* Properties.                                                             *)

Pairs(c) == LET hex == {keybytesToHex(k) : k \in {x \in Key : c[x] # Empty}}
            IN  [i \in 1 .. Cardinality(hex) |->
                   LET h == SetToSortSeq(hex, Before)[i] IN <<hexToKeybytes(h), c[hexToKeybytes(h)]>>]

From(pairs, start) == SelectSeq(pairs, LAMBDA p : ~Before(keybytesToHex(p[1]), Front(keybytesToHex(start))))

\* An iterator visits every pair from its start on, once and in order, across
\* nodes in memory, embedded nodes and nodes it has to load; when one is missing
\* it stops with an error instead of passing the rest over in silence.
IteratesInOrder ==
  \A start \in Key \cup {<<>>} : \A r \in {Leaves(newNodeIterator(trie, start))}, all \in {From(Pairs(content), start)} :
    IF r.err THEN lost # {} /\ IsPrefix(r.seq, all) ELSE r.seq = all

\* A proof made from the trie, for a key that is there or not, convinces a
\* verifier who has only the root hash of exactly what the trie holds.
ProofsVerify ==
  \A k \in Key :
    LET p == Prove(trie, k)
    IN  IF p.err THEN lost # {}
        ELSE trie.root # Nil => VerifyProof(hashRoot(trie, FALSE).hashed, k, p.db) = content[k]

\* A trie on the last root, and the present one.
SavedTrie == [trie EXCEPT !.root = IF saved.root = hashNode(Nil) THEN Nil ELSE saved.root]
SavedIterator == newNodeIterator(SavedTrie, <<>>)
PresentIterator == newNodeIterator(trie, <<>>)
ExactlyOnce(seq, S) == ToSet(seq) = S /\ Len(seq) = Cardinality(S)

\* The difference of two tries is what differs between their contents, although
\* equal subtrees are skipped whole; their union is what either holds.
DifferenceAndUnionExact ==
  lost = {} =>
    LET a == Pairs(saved.content)
        b == Pairs(content)
    IN  /\ DifferenceLeaves(NewDifferenceIterator(SavedIterator, PresentIterator)) = SelectSeq(b, LAMBDA p : ~Contains(a, p))
        /\ ExactlyOnce(UnionLeaves(<<SavedIterator, PresentIterator>>), ToSet(a) \cup ToSet(b))
=============================================================================
