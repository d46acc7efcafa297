-------------------------------- MODULE Trie --------------------------------
(***************************************************************************)
(* The Merkle Patricia trie (dvm/ethereum/trie: trie.go, node.go,           *)
(* hasher.go): updates, deletions and lookups in a tree that is loaded from *)
(* the Database as far as it is needed, hashed and stored on Commit, and    *)
(* unloaded again some generations later.                                  *)
(*                                                                         *)
(* A hash is the encoding it is the hash of: two encodings never collide.   *)
(* Encodings are nodes without their flags; only the length of their RLP    *)
(* matters, because nodes under 32 bytes stay inside their parent.         *)
(***************************************************************************)
EXTENDS TrieEncoding, FiniteSets, Functions, TLC

CONSTANTS
  Key,         \* keys, sequences of bytes
  Val,         \* values that are not empty
  LenOf,       \* Val -> length of the value in RLP
  cachelimit,  \* generations a clean node stays loaded
  MaxCommits,  \* bound: calls of Commit
  MaxChanges,  \* bound: updates and deletions
  MaxLost      \* bound: nodes missing from the Database

VARIABLES
  trie,      \* [root, db, gen]: db holds what was committed, by hash
  content,   \* what was put into the trie: Key -> Val or Empty
  saved,     \* the root of the last commit, and the content it stands for
  lost,      \* encodings that disappeared from the Database
  changes, commits

vars == <<trie, content, saved, lost, changes, commits>>

Empty == "empty"  \* the value of length 0

-----------------------------------------------------------------------------
(* Nodes.                                                                  *)

Nil == [t |-> "nil"]
valueNode(v) == [t |-> "value", v |-> v]
hashNode(e) == [t |-> "hash", of |-> e]
shortNode(k, n, f) == [t |-> "short", key |-> k, val |-> n, flags |-> f]
fullNode(ch, f) == [t |-> "full", children |-> ch, flags |-> f]
Flagged(n) == n.t \in {"short", "full"}

newFlag(t) == [hash |-> Nil, gen |-> t.gen, dirty |-> TRUE]
loadedFlag(h, t) == [hash |-> h, gen |-> t.gen, dirty |-> FALSE]

NoChildren == [i \in 0 .. 16 |-> Nil]

\* The encoding of a collapsed node.
RECURSIVE EncodeRLP(_)
EncodeRLP(n) ==
  CASE n.t = "short" -> [t |-> "short", key |-> n.key, val |-> EncodeRLP(n.val)]
    [] n.t = "full"  -> [t |-> "full", children |-> [i \in 0 .. 16 |-> EncodeRLP(n.children[i])]]
    [] OTHER -> n

\* Its length.
Header(len) == IF len < 56 THEN 1 ELSE 2
RECURSIVE LenRLP(_)
LenRLP(e) ==
  LET key == IF e.t = "short" /\ Len(e.key) > 1 THEN Len(e.key) + 1 ELSE 1
      sum == IF e.t = "short" THEN key + LenRLP(e.val)
             ELSE FoldFunction(LAMBDA c, s : LenRLP(c) + s, 0, e.children)
  IN  CASE e.t = "nil" -> 1 [] e.t = "hash" -> 33 [] e.t = "value" -> LenOf[e.v]
        [] OTHER -> sum + Header(sum)

RECURSIVE decodeNode(_, _, _)
decodeNode(h, e, t) ==
  LET decodeRef(c) == IF Flagged([t |-> c.t]) THEN decodeNode(Nil, c, t) ELSE c
  IN  IF e.t = "short"
      THEN shortNode(compactToHex(e.key), decodeRef(e.val), loadedFlag(h, t))
      ELSE fullNode([i \in 0 .. 16 |-> decodeRef(e.children[i])], loadedFlag(h, t))

\* The Database keeps nodes without their flags, which is what their encoding
\* says; a cached one comes back as if it were decoded.
simplifyNode(n) == EncodeRLP(n)
expandNode(h, e, t) == decodeNode(h, e, t)

\* resolveHash: the node, or Nil for a MissingNodeError.
resolveHash(t, n) == IF n.of \in DOMAIN t.db THEN expandNode(n, t.db[n.of], t) ELSE Nil

-----------------------------------------------------------------------------
(* Lookup and change.  A failed call returns err and the node it was given. *)

Rest(key, n) == SubSeq(key, n + 1, Len(key))
StartsWith(key, k) == prefixLen(key, k) = Len(k)
Res(n) == [dirty |-> TRUE, node |-> n, err |-> FALSE]
Same(n) == [dirty |-> FALSE, node |-> n, err |-> FALSE]
MissingNode(n) == [dirty |-> FALSE, node |-> n, err |-> TRUE]
Missing == [value |-> Empty, node |-> Nil, err |-> TRUE]

\* The value, and the node with what had to be loaded for it.
RECURSIVE tryGet(_, _, _)
tryGet(t, n, key) ==
  CASE n.t = "nil" -> [value |-> Empty, node |-> n, err |-> FALSE]
    [] n.t = "value" -> [value |-> n.v, node |-> n, err |-> FALSE]
    [] n.t = "short" ->
         IF ~StartsWith(key, n.key) THEN [value |-> Empty, node |-> n, err |-> FALSE]
         ELSE LET r == tryGet(t, n.val, Rest(key, Len(n.key)))
              IN  [r EXCEPT !.node = IF r.err \/ r.node = n.val THEN n
                                     ELSE [n EXCEPT !.val = r.node, !.flags.gen = t.gen]]
    [] n.t = "full" ->
         LET r == tryGet(t, n.children[Head(key)], Tail(key))
         IN  [r EXCEPT !.node = IF r.err \/ r.node = n.children[Head(key)] THEN n
                                ELSE [n EXCEPT !.children[Head(key)] = r.node, !.flags.gen = t.gen]]
    [] n.t = "hash" -> LET m == resolveHash(t, n) IN IF m = Nil THEN Missing ELSE tryGet(t, m, key)

inserted(t, n, key, child) == [n EXCEPT !.children[Head(key)] = child, !.flags = newFlag(t)]

RECURSIVE insert(_, _, _, _)
insert(t, n, key, value) ==
  LET m == prefixLen(key, n.key)
      into(child, k) == insert(t, child, k, value)
      branch == [NoChildren EXCEPT ![n.key[m + 1]] = insert(t, Nil, Rest(n.key, m + 1), n.val).node,
                                   ![key[m + 1]] = insert(t, Nil, Rest(key, m + 1), value).node]
      full == fullNode(branch, newFlag(t))
  IN
  IF key = <<>> THEN [Res(value) EXCEPT !.dirty = n # value]
  ELSE CASE n.t = "nil" -> Res(shortNode(key, value, newFlag(t)))
    [] n.t = "short" /\ m = Len(n.key) ->
         LET r == into(n.val, Rest(key, m))
         IN  IF r.dirty THEN Res(shortNode(n.key, r.node, newFlag(t))) ELSE [r EXCEPT !.node = n]
    [] n.t = "short" /\ m < Len(n.key) ->
         Res(IF m = 0 THEN full ELSE shortNode(SubSeq(key, 1, m), full, newFlag(t)))
    [] n.t = "full" ->
         LET r == into(n.children[Head(key)], Tail(key))
         IN  IF r.dirty THEN Res(inserted(t, n, key, r.node)) ELSE [r EXCEPT !.node = n]
    [] n.t = "hash" ->
         LET rn == resolveHash(t, n)
             r  == into(rn, key)
         IN  IF rn = Nil THEN MissingNode(n) ELSE IF r.dirty THEN r ELSE [r EXCEPT !.node = rn]

\* A full node with one child left becomes a short node.
reduced(t, n) ==
  LET left  == {i \in 0 .. 16 : n.children[i] # Nil}
      pos   == CHOOSE i \in left : TRUE
      child == n.children[pos]
      cnode == IF pos # 16 /\ child.t = "hash" THEN resolveHash(t, child) ELSE child
  IN  IF Cardinality(left) > 1 THEN Res(n)
      ELSE IF cnode = Nil THEN MissingNode(n)
      ELSE IF pos # 16 /\ cnode.t = "short"
      THEN Res(shortNode(<<pos>> \o cnode.key, cnode.val, newFlag(t)))
      ELSE Res(shortNode(<<pos>>, child, newFlag(t)))

RECURSIVE delete(_, _, _)
delete(t, n, key) ==
  CASE n.t = "nil" -> Same(n)
    [] n.t = "value" -> Res(Nil)
    [] n.t = "short" ->
         LET m == prefixLen(key, n.key)
             r == delete(t, n.val, Rest(key, Len(n.key)))
         IN  IF m < Len(n.key) THEN Same(n)
             ELSE IF m = Len(key) THEN Res(Nil)
             ELSE IF ~r.dirty THEN [r EXCEPT !.node = n]
             ELSE Res(IF r.node.t = "short" THEN shortNode(n.key \o r.node.key, r.node.val, newFlag(t))
                      ELSE shortNode(n.key, r.node, newFlag(t)))
    [] n.t = "full" ->
         LET r == delete(t, n.children[Head(key)], Tail(key))
         IN  IF ~r.dirty THEN [r EXCEPT !.node = n]
             ELSE reduced(t, [n EXCEPT !.children[Head(key)] = r.node, !.flags = newFlag(t)])
    [] n.t = "hash" ->
         LET rn == resolveHash(t, n)
             r  == delete(t, rn, key)
         IN  IF rn = Nil THEN MissingNode(n) ELSE IF r.dirty THEN r ELSE [r EXCEPT !.node = rn]

TryGet(t, k) == tryGet(t, t.root, keybytesToHex(k))
TryUpdate(t, k, v) == insert(t, t.root, keybytesToHex(k), valueNode(v))
TryDelete(t, k) == delete(t, t.root, keybytesToHex(k))

-----------------------------------------------------------------------------
(* Hashing (hasher.go).  With commit the nodes that get a hash are put into *)
(* the Database.                                                           *)

\* Variant of canUnload: dirty nodes too.
canUnloadAny(t, n) == t.gen - n.flags.gen >= cachelimit

canUnload(t, n) == ~n.flags.dirty /\ t.gen - n.flags.gen >= cachelimit

\* The node or, when it is large or the root, its hash.
store(n, force) ==
  IF n.t \in {"nil", "hash"} \/ (LenRLP(EncodeRLP(n)) < 32 /\ ~force) THEN n
  ELSE IF Flagged(n) /\ n.flags.hash # Nil THEN n.flags.hash ELSE hashNode(EncodeRLP(n))

NoPuts == [e \in {} |-> e]

\* hashChildren: the node with its children collapsed, the node with its children
\* hashed, and what they stored.
collapsedShort(n, child) ==
  [collapsed |-> [n EXCEPT !.key = hexToCompact(@), !.val = child.hashed],
   cached |-> [n EXCEPT !.val = child.cached], puts |-> child.puts]
collapsedFull(n, kids) ==
  [collapsed |-> [n EXCEPT !.children = [i \in 0 .. 16 |-> IF i < 16 THEN kids[i].hashed ELSE @[i]]],
   cached |-> [n EXCEPT !.children = [i \in 0 .. 16 |-> IF i < 16 THEN kids[i].cached ELSE @[i]]],
   puts |-> FoldFunction(LAMBDA c, p : p @@ c.puts, NoPuts, kids)]
leftAsIs(n) == [hashed |-> n, cached |-> n, puts |-> NoPuts]

\* The hash is kept in the node; a stored node is no longer dirty.
finished(n, walked, hashed, commit) ==
  [hashed |-> hashed,
   cached |-> [walked.cached EXCEPT !.flags.hash = IF hashed.t = "hash" THEN hashed ELSE Nil,
                                    !.flags.dirty = @ /\ ~commit],
   puts |-> IF commit /\ hashed.t = "hash" THEN walked.puts @@ (hashed.of :> simplifyNode(walked.collapsed))
            ELSE walked.puts]
storedNode(n, walked, commit, force) == finished(n, walked, store(walked.collapsed, force), commit)

\* [hashed, cached, puts]: what stands for the node in its parent, the node to
\* keep in memory, and the encodings stored.
RECURSIVE hash(_, _, _, _)
hash(t, n, commit, force) ==
  IF ~Flagged(n) THEN leftAsIs(n)
  ELSE IF n.flags.hash # Nil /\ (~commit \/ canUnload(t, n) \/ ~n.flags.dirty)
  THEN [hashed |-> n.flags.hash, puts |-> NoPuts,
        cached |-> IF commit /\ canUnload(t, n) THEN n.flags.hash ELSE n]
  ELSE storedNode(n, IF n.t = "full" THEN collapsedFull(n, [i \in 0 .. 15 |-> hash(t, n.children[i], commit, FALSE)])
                     ELSE collapsedShort(n, IF n.val.t = "value" THEN leftAsIs(n.val)
                                            ELSE hash(t, n.val, commit, FALSE)), commit, force)

\* emptyRoot for the empty trie.
hashRoot(t, commit) ==
  IF t.root = Nil THEN [hashed |-> hashNode(Nil), cached |-> Nil, puts |-> NoPuts]
  ELSE hash(t, t.root, commit, TRUE)

-----------------------------------------------------------------------------
(* The trie and its callers.                                               *)

Nothing == [k \in Key |-> Empty]

\* The empty trie after the values of c were put into it.
Filled(c) ==
  FoldSet(LAMBDA k, t : [t EXCEPT !.root = insert(t, @, keybytesToHex(k), valueNode(c[k])).node],
          [root |-> Nil, db |-> NoPuts, gen |-> 0], {k \in Key : c[k] # Empty})

Init ==
  /\ content \in [Key -> Val \cup {Empty}] /\ trie = Filled(content)
  /\ saved = [root |-> hashNode(Nil), content |-> Nothing]
  /\ lost = {} /\ changes = 0 /\ commits = 0

\* Update and Delete log the error; the trie stays as it was.
Apply(r, k, v) ==
  /\ changes < MaxChanges /\ changes' = changes + 1
  /\ trie' = [trie EXCEPT !.root = IF r.err THEN @ ELSE r.node]
  /\ content' = IF r.err THEN content ELSE [content EXCEPT ![k] = v]
  /\ UNCHANGED <<saved, lost, commits>>

Update(k, v) == Apply(TryUpdate(trie, k, v), k, v)
Delete(k) == Apply(TryDelete(trie, k), k, Empty)

\* A lookup keeps what it has loaded.
Get(k) ==
  LET r == TryGet(trie, k)
  IN  /\ trie' = [trie EXCEPT !.root = IF r.err THEN @ ELSE r.node]
      /\ UNCHANGED <<content, saved, lost, changes, commits>>

Hash ==
  /\ trie' = [trie EXCEPT !.root = hashRoot(trie, FALSE).cached]
  /\ UNCHANGED <<content, saved, lost, changes, commits>>

Commit ==
  LET r == hashRoot(trie, TRUE)
  IN  /\ commits < MaxCommits /\ commits' = commits + 1
      /\ trie' = [root |-> r.cached, db |-> trie.db @@ r.puts, gen |-> trie.gen + 1]
      /\ saved' = [root |-> r.hashed, content |-> content]
      /\ UNCHANGED <<content, lost, changes>>

\* A new trie on the last root.
New ==
  LET root == IF saved.root = hashNode(Nil) THEN Nil ELSE resolveHash([trie EXCEPT !.gen = 0], saved.root)
  IN  /\ saved.root = hashNode(Nil) \/ saved.root.of \in DOMAIN trie.db
      /\ trie' = [trie EXCEPT !.root = root, !.gen = 0]
      /\ content' = saved.content
      /\ UNCHANGED <<saved, lost, changes, commits>>

\* A database that was copied without one of the nodes.
Lose(e) ==
  /\ Cardinality(lost) < MaxLost
  /\ lost' = lost \cup {e} /\ trie' = [trie EXCEPT !.db = Restrict(@, DOMAIN @ \ {e})]
  /\ UNCHANGED <<content, saved, changes, commits>>

Next ==
  \/ \E k \in Key : (\E v \in Val : Update(k, v)) \/ Delete(k) \/ Get(k)
  \/ Hash \/ Commit \/ New
  \/ \E e \in DOMAIN trie.db : Lose(e)

Spec == Init /\ [][Next]_vars

-----------------------------------------------------------------------------
(* Properties.                                                             *)

\* The tree of the code with everything loaded and no flags, without the
\* encodings that are lost.
RECURSIVE Expand(_, _)
Expand(t, n) ==
  CASE n.t = "short" -> [t |-> "short", key |-> n.key, val |-> Expand(t, n.val)]
    [] n.t = "full"  -> [t |-> "full", children |-> [i \in 0 .. 16 |-> Expand(t, n.children[i])]]
    [] n.t = "hash"  -> Expand(t, resolveHash(t, n))
    [] OTHER -> n

\* The tree that a content must have: a leaf for one key, a branch where keys
\* part, and the path they share before it.
RECURSIVE TreeOf(_)
TreeOf(f) ==
  LET keys == DOMAIN f
      p    == LongestCommonPrefix(keys)
      sub(q) == TreeOf([k \in {Rest(x, Len(q)) : x \in {y \in keys : StartsWith(y, q)}} |-> f[q \o k]])
  IN  IF keys = {} THEN Nil
      ELSE IF keys = {<<>>} THEN valueNode(f[<<>>])
      ELSE IF p # <<>> THEN [t |-> "short", key |-> p, val |-> sub(p)]
      ELSE [t |-> "full", children |-> [i \in 0 .. 16 |-> sub(<<i>>)]]

HexContent(c) ==
  [h \in {keybytesToHex(k) : k \in {x \in Key : c[x] # Empty}} |-> c[hexToKeybytes(h)]]

\* The tree, and with it the root hash, depends on the content alone: whatever
\* was inserted, overwritten, deleted, hashed, unloaded and loaded before, the
\* tree is the one and only tree of its content.
CanonicalTree == lost = {} => Expand(trie, trie.root) = TreeOf(HexContent(content))

\* A lookup never returns a wrong value: it returns what was put, or an error
\* when a node it needs is missing.
AnswersOrFails ==
  \A k \in Key : LET r == TryGet(trie, k) IN IF r.err THEN lost # {} ELSE r.value = content[k]

RECURSIVE Loaded(_)
Loaded(n) ==
  CASE n.t = "short" -> {n} \cup Loaded(n.val)
    [] n.t = "full"  -> {n} \cup UNION {Loaded(n.children[i]) : i \in 0 .. 16}
    [] n.t = "hash"  -> {n}
    [] OTHER -> {}

\* A node that is not dirty may be unloaded: it and everything below it is in
\* the Database, and nothing below it is dirty.
CleanIsStored ==
  \A n \in Loaded(trie.root) :
    /\ n.t = "hash" => n.of \in DOMAIN trie.db \cup lost
    /\ Flagged(n) /\ ~n.flags.dirty =>
         /\ n.flags.hash # Nil => n.flags.hash.of \in DOMAIN trie.db \cup lost
         /\ \A m \in Loaded(n) : Flagged(m) => ~m.flags.dirty

\* The hash kept in a node is the hash of what is below it now.
CachedHashCurrent ==
  \A n \in Loaded(trie.root) : Flagged(n) /\ n.flags.hash # Nil =>
    LET fresh == [n EXCEPT !.flags = newFlag(trie)]
    IN  n.flags.hash = hash(trie, fresh, FALSE, TRUE).hashed
=============================================================================
