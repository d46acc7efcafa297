----------------------------- MODULE MCStorage -----------------------------
(***************************************************************************)
(* The two halves of contract storage.  Above: a StateDB with two accounts, *)
(* one of them known to Badger, and the address of ripemd160.  Below: the    *)
(* trie Database with two worlds; account leaf l, with storage s and code c, *)
(* is the only leaf of r1 and occurs twice in r2.  A behaviour runs one of    *)
(* them.                                                                   *)
(***************************************************************************)
EXTENDS StateDB, TrieDatabase, TLC

VARIABLE below            \* which half runs

MCKnown == "a" :> 1
MCTries == {<<>>, "a" :> [bal |-> 1, nonce |-> 1, code |-> 1, root |-> [k \in Key |-> 1]]}

MCHash == {"c", "s", "l", "r1", "r2"}
MCKids == [h \in MCHash |-> CASE h = "r1" -> <<"l">> [] h = "r2" -> <<"l", "l">> [] OTHER -> <<>>]
MCStorageOf == [h \in MCHash |-> IF h = "l" THEN "s" ELSE NoHash]
MCCodeOf == [h \in MCHash |-> IF h = "l" THEN "c" ELSE NoHash]

StorageInit == Init /\ DiskInit /\ below \in BOOLEAN
AboveStep == ~ below /\ Next /\ UNCHANGED <<below, dbVars>>
BelowStep == below /\ DiskNext /\ UNCHANGED <<below, vars>>
StorageSpec == StorageInit /\ [][AboveStep \/ BelowStep]_<<below, vars, dbVars>>

HelperSymmetry == Permutations(Helper)
=============================================================================
