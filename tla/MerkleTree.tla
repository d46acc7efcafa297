----------------------------- MODULE MerkleTree -----------------------------
(***************************************************************************)
(* The Merkle tree of commons/tree/merkle_tree.go.  A tree is its levels:    *)
(* t.content has the content of each leaf, t.hash[1] the hash each leaf was   *)
(* given, t.hash[k + 1] the hashes one level up, the last level the root.    *)
(* The parent of node i is node (i + 1) \div 2 of the next level; a last      *)
(* node without a partner is both children of its parent.                   *)
(*                                                                         *)
(* SHA-256 is ideal: the hash of two hashes is their pair, the hash of a      *)
(* content is that content alone.                                           *)
(***************************************************************************)
EXTENDS Naturals, Sequences, SequencesExt

CalculateHash(c) == <<c>>

\* The children of node i of the level above one with n nodes.
Left(i) == 2 * i - 1

Right(i, n) == IF 2 * i > n THEN 2 * i - 1 ELSE 2 * i

above(level) == [i \in 1 .. (Len(level) + 1) \div 2 |-> <<level[Left(i)], level[Right(i, Len(level))]>>]

RECURSIVE buildIntermediate(_)
buildIntermediate(level) ==
  LET up == above(level) IN IF Len(level) <= 2 THEN <<level, up>> ELSE <<level>> \o buildIntermediate(up)

\* An odd number of leafs: the last one again.
padded(cs) == IF Len(cs) % 2 = 1 THEN cs \o <<cs[Len(cs)]>> ELSE cs

buildWithContent(cs) ==
  LET leafs == padded(cs)
  IN  [content |-> leafs, hash |-> buildIntermediate([i \in 1 .. Len(leafs) |-> CalculateHash(leafs[i])])]

\* NewTree and RebuildTreeWith; no tree without content.
NewTree(cs) == IF cs = <<>> THEN {} ELSE {buildWithContent(cs)}
RebuildTree(t) == buildWithContent(t.content)

MerkleRoot(t) == Last(t.hash)[1]

-----------------------------------------------------------------------------

\* The hash of a node from the contents below it.
RECURSIVE verifyNode(_, _, _)
verifyNode(t, k, i) ==
  IF k = 1 THEN CalculateHash(t.content[i])
  ELSE <<verifyNode(t, k - 1, Left(i)), verifyNode(t, k - 1, Right(i, Len(t.hash[k - 1])))>>

VerifyTree(t) == verifyNode(t, Len(t.hash), 1) = MerkleRoot(t)

\* Variant of calculateNodeHash: the stored hash is taken.
storedNodeHash(t, k, i) == t.hash[k][i]

\* The hash of a node from its content, or from the hashes stored in its
\* children.
calculateNodeHash(t, k, i) ==
  IF k = 1 THEN CalculateHash(t.content[i])
  ELSE <<t.hash[k - 1][Left(i)], t.hash[k - 1][Right(i, Len(t.hash[k - 1]))]>>

\* From the parent of the first leaf with that content up to the root.
\* expectedMerkleRoot is not looked at.
RECURSIVE pathHolds(_, _, _)
pathHolds(t, k, i) ==
  \/ k > Len(t.hash)
  \/ /\ t.hash[k][i] =
          <<calculateNodeHash(t, k - 1, Left(i)), calculateNodeHash(t, k - 1, Right(i, Len(t.hash[k - 1])))>>
     /\ pathHolds(t, k + 1, (i + 1) \div 2)

VerifyContent(t, expectedMerkleRoot, c) ==
  \E i \in 1 .. Len(t.content) :
    /\ t.content[i] = c /\ \A j \in 1 .. i - 1 : t.content[j] # c
    /\ pathHolds(t, 2, (i + 1) \div 2)

-----------------------------------------------------------------------------
(* Properties                                                              *)

\* The root tells contents apart, up to a repetition of their end: of two
\* lists with one root, one begins the other and they hold the same.
RootBinds(cs, ds) ==
  \A t \in NewTree(cs), u \in NewTree(ds) :
    MerkleRoot(t) = MerkleRoot(u) => (IsPrefix(cs, ds) \/ IsPrefix(ds, cs)) /\ ToSet(cs) = ToSet(ds)

\* A tree verifies, with each of its contents, and keeps its root when it is
\* rebuilt from its leafs, the repeated one included.
RebuildKeepsRoot(cs) ==
  \A t \in NewTree(cs) :
    /\ VerifyTree(t) /\ MerkleRoot(RebuildTree(t)) = MerkleRoot(t)
    /\ \A c \in ToSet(cs) : VerifyContent(t, MerkleRoot(t), c)

\* A leaf whose content was replaced by one that is nowhere in the tree fails
\* both checks.
ReplacedContentFails(cs, c) ==
  c \notin ToSet(cs) =>
    \A t \in NewTree(cs) : \A i \in 1 .. Len(t.content) :
      LET changed == [t EXCEPT !.content[i] = c]
      IN  ~ VerifyTree(changed) /\ ~ VerifyContent(changed, MerkleRoot(t), c)
=============================================================================
