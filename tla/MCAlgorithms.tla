---------------------------- MODULE MCAlgorithms ----------------------------
(***************************************************************************)
(* The data structures and pure functions of disgo over bounded inputs.     *)
(* A behaviour is one of: the priority queue under its operations, a trie    *)
(* under its operations, or one input of a function, which never changes.   *)
(***************************************************************************)
EXTENDS PriorityQueue

CONSTANT NaN              \* a page number that is no number

VARIABLES input,          \* <<"queue">>, <<"trie">>, or a function's name and its input
          trie, content, saved, lost, changes, commits

trieVars == <<trie, content, saved, lost, changes, commits>>

-----------------------------------------------------------------------------
(* The trie: two keys that part and one that extends another.              *)

TrieKey == {<<0>>, <<1>>, <<0, 16>>}
TrieVal == {"word", "blob"}
T == INSTANCE TrieIterator WITH
       Key <- TrieKey, Val <- TrieVal, LenOf <- [v \in TrieVal |-> IF v = "word" THEN 1 ELSE 40],
       cachelimit <- 0, MaxCommits <- 2, MaxChanges <- 1, MaxLost <- 1

-----------------------------------------------------------------------------
(* Words of six bits, gas of eight.                                        *)

W == INSTANCE EvmWord WITH
       WordBytes <- 3, ByteBits <- 2, AddressBytes <- 2, MaxUint64 <- 255, MaxMemSize <- 127,
       StackLimit <- 4, CallCreateDepth <- 3, MaxCodeSize <- 4
G == INSTANCE EvmGas WITH
       WordBytes <- 3, ByteBits <- 2, AddressBytes <- 2, MaxUint64 <- 255, MaxMemSize <- 127,
       StackLimit <- 4, CallCreateDepth <- 3, MaxCodeSize <- 4

Gas == {0, 1, 2, 63, 64, 65, 127, 128, 200, 254, 255}

-----------------------------------------------------------------------------
(* RLP *)

R == INSTANCE RlpCheck

-----------------------------------------------------------------------------
(* Databases of up to two transactions with all times and addresses, and of  *)
(* four with all times.                                                    *)

P == INSTANCE Paging WITH MaxPageSize <- 3

SmallDb(n) == [1 .. n -> [time : 1 .. 3, from : 1 .. 2, to : 0 .. 2]]
Persisted(s, hash) ==
  [i \in DOMAIN s |-> [hash |-> hash[i], time |-> s[i].time, from |-> s[i].from, to |-> s[i].to]]
Databases ==
  {Persisted(s, hash) : s \in SmallDb(0) \cup SmallDb(1) \cup SmallDb(2), hash \in {<<1, 2>>, <<2, 1>>}}
  \cup {[i \in 1 .. 4 |-> [hash |-> i, time |-> s[i], from |-> 1, to |-> 2]] : s \in [1 .. 4 -> 1 .. 3]}

-----------------------------------------------------------------------------
(* Transactions of two accounts with addresses of one byte.                 *)

V == INSTANCE Validation WITH AddressLength <- 1, Mantissa <- 3, FutureLimit <- 2, HashLength <- 2, GossipTimeout <- 2,
       AuthenticationLimit <- 2

Texts == {V!Blank, V!Hex(<<0>>), V!Hex(<<1>>), [b |-> <<1>>, form |-> "upper"], [b |-> <<1>>, form |-> "garbled"]}
Codes == {V!Hex(c) : c \in {<<>>} \cup [1 .. 1 -> {0, 1}] \cup [1 .. 2 -> {0, 1}]}

\* Every combination of the fields the hash covers.
Unsigned ==
  {[V!Zero EXCEPT !.type = ty, !.from = V!Hex(<<0>>), !.to = to, !.value = v, !.code = c, !.abi = <<"abi">>, !.method = m, !.time = 1]
     : ty \in 0 .. 2, to \in Texts, v \in {0, 1}, c \in Codes, m \in {<<>>, <<1>>}}
Transactions == {V!Signs(t, <<0>>) : t \in Unsigned}

\* A transaction, and one that differs from it in what the hash leaves out.
Twins(t) == {t, [t EXCEPT !.abi = <<"other">>, !.params = <<1>>]}

\* What clients send: any numbers, a time near the limit, empty fields written
\* or left out, signed by the sender or by another.
Sent ==
  {V!Signs([V!Zero EXCEPT !.type = ty, !.from = V!Hex(<<0>>), !.to = to, !.value = v, !.code = c, !.abi = a,
                          !.method = m, !.params = m, !.time = tm, !.hertz = 5], key)
     : ty \in 0 .. 3, to \in Texts, v \in {0, 7, 9, 10}, c \in {V!Blank, V!Hex(<<1>>)}, a \in {<<>>, <<"abi">>, <<"hex", "abi">>},
       m \in {<<>>, <<1>>}, tm \in {0, 4}, key \in {<<0>>, <<1>>}}
Payloads ==
  Sent \cup {[f \in {g \in DOMAIN t : g = "type" \/ t[g] # V!Zero[g]} |-> t[f]] : t \in Sent}
  \cup {[f \in DOMAIN t \ {"type"} |-> t[f]] : t \in {u \in Sent : u.type = 0}}

Accounts ==
  {[V!NoAccount EXCEPT !.balance = b, !.nonce = n, !.transactionHash = h, !.root = "root"]
     : b \in 0 .. 9, n \in {0, 5}, h \in {"", "hash"}}

\* Receipts before and after execution, with results at and past the mantissa.
Stored ==
  {[V!NewReceipt(<<5, 6>>, 1) EXCEPT !.status = s, !.humanReadableStatus = h, !.contractAddress = c, !.contractResult = n]
     : s \in {"Pending", "Ok"}, h \in {"", "why"}, c \in {<<>>, <<1>>}, n \in {<<>>} \cup [1 .. 2 -> {0, 7, 8, 9, 10, 11}]}

\* Gossips of two rumors, some times without a float64.
Lists == {[i \in 1 .. 2 |-> V!NewRumor(<<key>>, <<i>>, <<5, 6>>, time)] : key \in 1 .. 2, time \in {7, 9, 10}}

\* Rumors of three authors, signed by the author or another, some with address
\* and hash of the wrong length or a changed time.
Signings ==
  {V!NewRumor(key, address, hash, time)
     : key \in {<<0>>, <<1>>}, address \in {<<0>>, <<1>>, <<0, 1>>}, hash \in {<<5, 6>>, <<6>>}, time \in {1}}
Rumors == Signings \cup {[r EXCEPT !.time = 2] : r \in Signings}

-----------------------------------------------------------------------------
(* Words of three bytes, addresses of two.                                 *)

A == INSTANCE Abi WITH WordLen <- 3, AddrLen <- 2

IntT(s) == [T |-> "int", size |-> s]
UintT(s) == [T |-> "uint", size |-> s]
Simple == {IntT(8), UintT(16), IntT(256), UintT(128), [T |-> "bool"], [T |-> "string"], [T |-> "bytes"],
           [T |-> "address"], [T |-> "fixedbytes", size |-> 2]}
SliceT(e) == [T |-> "slice", elem |-> e]
ArrayT(n, e) == [T |-> "array", size |-> n, elem |-> e]
BoolT == [T |-> "bool"]
AddressT == [T |-> "address"]
Compound == {SliceT(UintT(8)), SliceT(IntT(256)), SliceT([T |-> "bool"]), ArrayT(2, UintT(16)), ArrayT(1, [T |-> "address"]),
             SliceT(ArrayT(1, UintT(16))), ArrayT(2, SliceT(IntT(8)))}
Types == Simple \cup Compound

\* Go values of a type, for packing.
GoValues(t) ==
  CASE t.T = "int" -> [i \in 1 .. 3 |-> [k |-> A!KindOf(t), v |-> <<-1, 0, 100>>[i]]]
    [] t.T = "uint" -> [i \in 1 .. 2 |-> [k |-> A!KindOf(t), v |-> <<0, 300>>[i]]]
    [] t.T = "bool" -> <<[k |-> "bool", v |-> TRUE]>>
    [] t.T = "string" -> <<A!Text("plain", <<>>), A!Text("plain", <<7, 8, 9, 10>>)>>
    [] t.T = "bytes" -> <<A!Bytes(<<>>), A!Bytes(<<1, 2, 3>>)>>
    [] t.T \in {"address", "fixedbytes"} -> <<A!ByteArray(<<1, 2>>)>>
    [] t = SliceT(UintT(8)) -> <<A!Bytes(<<>>), A!Bytes(<<1, 2>>)>>
    [] t = SliceT(IntT(256)) -> <<[k |-> "slice", of |-> "ptr", v |-> <<-1, 5>>]>>
    [] t = SliceT(BoolT) -> <<[k |-> "slice", of |-> "bool", v |-> <<[k |-> "bool", v |-> TRUE]>>]>>
    [] t = ArrayT(2, UintT(16)) -> <<[k |-> "array", of |-> "uint16", v |-> <<1, 2>>]>>
    [] t = ArrayT(1, AddressT) -> <<[k |-> "array", of |-> "array", v |-> <<A!ByteArray(<<1, 2>>)>>]>>
    [] OTHER -> <<>>

\* JSON values, right and wrong for a type.
JsonValues ==
  <<A!Number(-1), A!Number(300), [k |-> "bool", v |-> TRUE], A!Text("plain", <<9>>), A!Text("base64", <<1, 2>>),
    A!Text("hex", <<1, 2>>), A!Text("hex", <<1>>),
    A!Text("torn hex", <<1, 2, 3>>), A!Text("torn base64", <<1>>), A!Text("blank", <<>>), A!List(<<>>), A!List(<<A!Number(5), A!Number(6)>>), A!List(<<[k |-> "bool", v |-> TRUE]>>)>>

\* What contracts return: words with offsets and lengths at, before and past
\* the end.
Returned ==
  UNION {[1 .. n -> {0, 3, 6}] : n \in {2, 3}}
  \cup {<<0, 0, 3, 0, 0, n>> \o w : n \in 0 .. 4, w \in {<<>>} \cup [1 .. 3 -> {0, 1}]}
  \cup {<<0, 0, a, 0, 0, b, 0, 0, c>> : a \in {0, 3, 6}, b \in 0 .. 4, c \in {0, 3}}

-----------------------------------------------------------------------------
(* Lists of up to seven contents.                                          *)

H == INSTANCE MerkleTree

Contents == UNION {[1 .. n -> {1, 2}] : n \in 0 .. 7}

-----------------------------------------------------------------------------
(* The behaviours                                                          *)

NoTrie ==
  /\ trie = "none" /\ content = "none" /\ saved = "none"
  /\ lost = {} /\ changes = 0 /\ commits = 0

AllInit ==
  \/ input = <<"queue">> /\ Init /\ NoTrie
  \/ input = <<"trie">> /\ T!Init /\ Init
  \/ /\ Init /\ NoTrie
     /\ \/ input \in ({"bytes"} \X R!ByteStrings)
        \/ \E v \in R!Values : input = <<"value", v[1], v[2]>>
        \/ input \in ({"words"} \X W!Word \X W!Word)
        \/ input \in ({"gas"} \X Gas \X Gas \X Gas)
        \/ input \in ({"pages"} \X Databases)
        \/ input \in ({"tx"} \X Transactions)
        \/ \E j \in Payloads : input = <<"payload", j>>
        \/ input \in ({"new"} \X Texts \X {0, 7, 9} \X Codes \X {<<>>, <<1>>} \X {0, 3, 4})
        \/ \E t \in Types, u \in Types : \E i \in DOMAIN GoValues(t), j \in DOMAIN GoValues(u) :
             input = <<"pack", <<t, u>>, <<GoValues(t)[i], GoValues(u)[j]>>>>
        \/ \E t \in Types, u \in Types, i \in DOMAIN JsonValues, j \in DOMAIN JsonValues :
             input = <<"params", <<t, u>>, <<JsonValues[i], JsonValues[j]>>>>
        \/ input \in ({"returned"} \X Types \X Returned)
        \/ input \in ({"contents"} \X Contents)
        \/ input \in ({"accounts"} \X Accounts \X Accounts)
        \/ input \in ({"receipt"} \X Stored)
        \/ input \in ({"node"} \X (0 .. 5) \X (0 .. 8))
        \/ \E n \in 1 .. 3 : input \in ({"rumors"} \X [1 .. n -> Rumors])
        \/ \E n \in 1 .. 4 : input \in ({"times"} \X [1 .. n -> 0 .. 5])

QueueStep == input[1] = "queue" /\ Next /\ UNCHANGED <<input, trieVars>>
TrieStep == input[1] = "trie" /\ T!Next /\ UNCHANGED <<input, vars>>
Keep == input[1] \notin {"queue", "trie"} /\ UNCHANGED <<input, vars, trieVars>>

AllSpec == AllInit /\ [][QueueStep \/ TrieStep \/ Keep]_<<input, vars, trieVars>>

-----------------------------------------------------------------------------
(* Properties.  Those of the queue come with PriorityQueue.                *)

\* The trie has the one shape its content allows, whatever order the changes
\* came in; a lookup finds what was put in or reports a missing node; a clean
\* node is in the Database, so unloading it loses nothing; a cached hash is the
\* hash of what is below it now (insert, delete, tryGet, hash, store).
TrieSound ==
  input[1] = "trie" => T!CanonicalTree /\ T!AnswersOrFails /\ T!CleanIsStored /\ T!CachedHashCurrent

\* An iterator from any start passes every key once, in order; those over the
\* difference and the union of two tries give exactly their nodes; a proof of a
\* key verifies against the root and says what the trie says (iterator.go,
\* proof.go).
TrieReadsAgree ==
  input[1] = "trie" => T!IteratesInOrder /\ T!DifferenceAndUnionExact /\ T!ProofsVerify

\* RLP: encoding is the reference encoding and decoding gives the value back;
\* what the decoder accepts is the one encoding of the value; Split accepts and
\* reads the same (encode.go, decode.go, raw.go).
RlpCanonical ==
  /\ input[1] = "value" => R!EncodedRight(input[2], input[3])
  /\ input[1] = "bytes" => R!DecodedCanonical(input[2]) /\ R!ParsersAgree(input[2])

\* EVM: SDIV, SMOD, DIV and MOD give the dividend back; SHL, SHR, SAR and EXP
\* agree with multiplication and division, SIGNEXTEND and BYTE with the shifts;
\* a call never pays with gas the caller does not have (instructions.go, gas.go).
WordsAgree ==
  /\ input[1] = "words" => /\ W!SignedDivision(input[2], input[3])
                           /\ W!ShiftsAgree(input[2], input[3])
                           /\ W!SignExtends(input[2], input[3])
  /\ input[1] = "gas" => G!CallGasFits(input[2], input[3], input[4])

\* The pages of all transactions hold each once, newest first, and following a
\* start never repeats or skips one; the pages of an address hold each
\* transaction of it that its index has; those of accounts and gossips hold each
\* once, in key order (TransactionPaging, AccountPaging, GossipPaging).
PagesPartition ==
  input[1] = "pages" =>
    /\ P!PagesOfAll(input[2])
    /\ P!PagesOfAddress(input[2])
    /\ P!PagesOfKeys(ToSet(P!Hashes(input[2])))

\* A hash binds type, sender, receiver, value, time, and code and method together,
\* and neither abi nor parameters; a transaction accepted from JSON is accepted
\* after another trip, and after its execution rewrote abi and parameters and it
\* was read from Badger; what the constructors make is accepted; a
\* transfer between stored accounts keeps the sum of their balances; a stored
\* receipt says what the cached one said; a node keeps the identity of its
\* account file (NewHash, Verify, MarshalJSON, UnmarshalJSON, executeTransaction,
\* setTransients, readAccountFile).
TransactionsKeepMeaning ==
  /\ input[1] = "tx" => \A u \in Transactions, v \in Twins(input[2]) : V!HashBinds(v, u)
  /\ input[1] = "payload" =>
       \A later \in {2, 3} : /\ V!AcceptedStaysValid(input[2], 2, later)
                             /\ V!ExecutedIsRead(input[2], <<"abi">>, <<2>>, 2, later)
  /\ input[1] = "new" => V!ConstructedVerifies(<<0>>, input[2], input[3], input[4], input[5], input[6], 1)
  /\ input[1] = "accounts" => \A value \in 1 .. 9 : V!TransferIsKept(input[2], input[3], value)
  /\ input[1] = "receipt" => V!ReceiptIsKept(input[2])
  /\ input[1] = "node" => V!NodeKeepsIdentity(<<0>>, <<1>>, input[2], input[3])

\* Merged rumors are signed and of one author each; a gossip arrives with the
\* rumors whose time a float64 can hold; it is in time when it was never silent
\* for too long (synchronizeGossip, ToGossipFromJson, ValidateTimeDelta).
RumorsCount ==
  /\ input[1] = "rumors" => V!MergedAreSigned(input[2])
  /\ input[1] = "payload" => \A list \in Lists : V!GossipArrives(input[2], list, 2, 3)
  /\ input[1] = "times" => \A now \in 0 .. 8 : V!NoSilence(input[2], now)

\* Contract ABI: what is packed is what is unpacked, nothing a contract returns
\* makes unpacking read out of bounds, and parameters converted again after the
\* gossip are the same but for the types that cannot be converted twice, for which
\* the delegate panics (argument.go, unpack.go, abi_helper.go).
AbiRoundTrips ==
  /\ input[1] = "pack" => A!PackedComesBack(input[2], input[3])
  /\ input[1] = "returned" => A!UnpackNeverPanics(<<input[2], [T |-> "bytes"]>>, input[3])
  /\ input[1] = "params" => A!ReconvertedAsTyped(input[2], input[3])

\* Merkle tree: the root tells lists apart up to a repetition of their end, a
\* tree verifies, rebuilding it keeps the root, and a replaced content fails both
\* checks (merkle_tree.go).
MerkleRootBinds ==
  input[1] = "contents" =>
    /\ \A other \in Contents : H!RootBinds(input[2], other)
    /\ H!RebuildKeepsRoot(input[2])
    /\ H!ReplacedContentFails(input[2], 3)
=============================================================================
