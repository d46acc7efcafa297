----------------------------- MODULE Synchronize -----------------------------
(***************************************************************************)
(* A delegate that starts copies the database of another one:              *)
(* SynchronizeGrpc and peerSynchronize of dapos/dapos_transport_grpc.go,   *)
(* with the genesis step that follows (dapos/dapos_service.go).            *)
(*                                                                         *)
(* The peer answers page by page.  Every page is read from a snapshot of   *)
(* its own, and its place is found by counting keys, while the peer goes   *)
(* on executing transactions: each one commits at once a secondary key     *)
(* ("key-transaction-..."), the accounts it touches ("table-account-..."), *)
(* the receipt ("table-receipt-...") and the transaction                   *)
(* ("table-transaction-..."); one that runs a contract has written the     *)
(* contract's root pointer ("AccountState-...") and trie nodes.  The       *)
(* receipt of a rejected transaction has a time to live, and vanishes.     *)
(* Nothing else is ever deleted on a delegate.                             *)
(*                                                                         *)
(* The peer may be in the middle of a copy of its own: then it has only    *)
(* the first keys of a database.  (What its source executes meanwhile is   *)
(* left out.)  The value of an account is the set of transactions that its *)
(* balance reflects, other values do not matter.                           *)
(***************************************************************************)
EXTENDS Naturals, FiniteSets

CONSTANTS Tx,            \* transactions
          Genesis,       \* the genesis transaction, executed everywhere
          Contracts,     \* the transactions that deploy or call a contract
          Touches,       \* function Tx -> sets of accounts
          KeyOrder,      \* badger's order: function that numbers the keys <<class, id>>
          Peer,          \* the other delegates in the cache
          Past,          \* bound: what this delegate may have executed earlier
          CopyPoints,    \* bound: where a copy that the peer makes itself may stand
          PageSize,      \* 50 in the code
          MaxFaults      \* bound: calls and commits that fail, and restarts

Account == UNION {Touches[t] : t \in Tx}

\* "node" stands for the keys without one of the three prefixes: trie nodes.
Key == ({"pointer", "key", "receipt", "tx", "node"} \X Tx) \cup ({"account"} \X Account)

\* "AccountState-...", "key-..." and "table-account-...".
BeforeReceipts(k) == k[1] \in {"pointer", "key", "account"}

\* They sort before "table-receipt-...", and that before "table-transaction-...".
ASSUME SyncAssumption ==
  /\ Genesis \in Tx /\ Contracts \subseteq Tx /\ Touches \in [Tx -> SUBSET Account]
  /\ IsFiniteSet(Tx) /\ IsFiniteSet(Account)
  /\ KeyOrder \in [Key -> Nat] /\ \A j, k \in Key : KeyOrder[j] = KeyOrder[k] => j = k
  /\ \A k \in Key, t \in Tx : BeforeReceipts(k) => KeyOrder[k] < KeyOrder[<<"receipt", t>>]
  /\ \A t, u \in Tx : KeyOrder[<<"receipt", t>>] < KeyOrder[<<"tx", u>>]
  /\ Past \subseteq SUBSET Tx /\ CopyPoints \subseteq Nat
  /\ PageSize \in Nat \ {0} /\ MaxFaults \in Nat

VARIABLES executed,    \* the transactions in the database that the peer has, or is copying
          rejected,    \* those of which the peer has the receipt of a rejection
          copied,      \* the first keys, which are all unless the peer is copying itself
          began,       \* history: executed when the copying began
          whole,       \* history: the peer was not in a copy of its own then
          shifted,     \* history: a receipt that had been read has expired since
          pc, candidates, index,
          response,    \* the page that is to be stored: a function, too
          own,         \* this delegate's database: a function on some of the keys
          lost,        \* an error was logged: some items were not stored
          faults

peer == <<executed, rejected, copied>>
history == <<began, whole, shifted>>
vars == <<peer, history, pc, candidates, index, response, own, lost, faults>>

PC == {"dial", "ask", "store", "genesis", "done"}

\* The keys in the database of a delegate that has executed the transactions S.
Keys(S) ==
  {k \in Key : CASE k[1] = "account"             -> \E t \in S : k[2] \in Touches[t]
                 [] k[1] = "receipt"             -> k[2] \in S \ {Genesis}
                 [] k[1] \in {"pointer", "node"} -> k[2] \in S \cap Contracts
                 [] OTHER                        -> k[2] \in S}

Content(S, k) == IF k[1] = "account" THEN {t \in S : k[2] \in Touches[t]} ELSE {}

Database(S) == [k \in Keys(S) |-> Content(S, k)]

IsDatabase(f) == DOMAIN f \subseteq Key /\ \A k \in DOMAIN f : f[k] \subseteq Tx

Nothing == Database({})

\* The peer's copy of its own is finished.
Whole == copied = Key

FirstKeys(n) == {k \in Key : KeyOrder[k] < n}

TypeOK ==
  /\ executed \subseteq Tx /\ began \subseteq executed /\ Genesis \in executed
  /\ rejected \subseteq Tx /\ copied \subseteq Key
  /\ whole \in BOOLEAN /\ shifted \in BOOLEAN
  /\ pc \in PC /\ candidates \subseteq Peer /\ index \in Nat
  /\ IsDatabase(own)
  /\ IsDatabase(response) /\ IsFiniteSet(DOMAIN response) /\ Cardinality(DOMAIN response) <= PageSize
  /\ lost \in BOOLEAN /\ faults \in 0 .. MaxFaults

\* A new delegate starts with nothing, another one with what it executed.
Init ==
  /\ executed \in {S \in SUBSET Tx : Genesis \in S}
  /\ rejected = {}
  /\ copied \in {FirstKeys(n) : n \in CopyPoints}
  /\ began = {} /\ whole = FALSE /\ shifted = FALSE
  /\ own \in {Database(S) : S \in Past}
  /\ pc = "dial" /\ candidates = Peer /\ index = 0 /\ response = Nothing
  /\ lost = FALSE /\ faults = 0

-----------------------------------------------------------------------------
(* SynchronizeGrpc, and what else the peer does until its last answer      *)

\* One of the prefixes "table-", "key-" and "AccountState-".
HasPrefix(k) == k[1] # "node"

PeerKeys == (Keys(executed) \cap copied) \cup ({"receipt"} \X rejected)

\* The keys that the iterator finds.
Found == {k \in PeerKeys : HasPrefix(k)}

\* badger's order as a relation.
Before == {jk \in Key \X Key : KeyOrder[jk[1]] < KeyOrder[jk[2]]}

\* Variant of Passed: the iterator runs backwards.
Backwards(F, k) == {j \in F : <<k, j>> \in Before}

\* The keys among F that the iterator passes before k.
Passed(F, k) == {j \in F : <<j, k>> \in Before}

Place(F, k) == Cardinality(Passed(F, k))

\* Variant of SynchronizeGrpc: "i <= request.Index" skips one key too many.
SkipOneMore(i) ==
  LET found == Found
      page == {k \in found : Place(found, k) \in i + 1 .. i + PageSize}
  IN  [k \in page |-> Content(executed, k)]

\* The page after the first i keys.
SynchronizeGrpc(i) ==
  LET found == Found
      page == {k \in found : Place(found, k) \in i .. i + PageSize - 1}
  IN  [k \in page |-> Content(executed, k)]

\* The keys at the places below this one have been read.
Limit == index + Cardinality(DOMAIN response)

\* Later steps of the peer do not reach this delegate.
Asks == pc \in {"dial", "ask", "store"}

\* peerSynchronize on the peer stores more; its workers are not started yet.
PeerCopies ==
  /\ Asks
  /\ ~ Whole
  /\ copied' \in {FirstKeys(n) : n \in CopyPoints} /\ copied \subseteq copied'
  /\ UNCHANGED <<executed, rejected, history, pc, candidates, index, response, own, lost, faults>>

\* executeTransaction commits on the peer, with an Ok receipt that stays.
PeerExecutes(t) ==
  /\ Asks
  /\ Whole
  /\ t \notin executed
  /\ executed' = executed \cup {t}
  /\ rejected' = rejected \ {t}
  /\ UNCHANGED <<copied, history, pc, candidates, index, response, own, lost, faults>>

\* SetStatusWithNewTransaction, SetInternalErrorWithNewTransaction: SetWithTTL.
PeerRejects(t) ==
  /\ Asks
  /\ Whole
  /\ t \notin executed
  /\ rejected' = rejected \cup {t}
  /\ UNCHANGED <<executed, copied, history, pc, candidates, index, response, own, lost, faults>>

\* ReceiptCacheTTL has passed: the iterator does not find the key any more.
ReceiptExpires(t) ==
  /\ Asks
  /\ t \in rejected
  /\ rejected' = rejected \ {t}
  /\ shifted' = (shifted \/ (pc \in {"ask", "store"} /\ Place(Found, <<"receipt", t>>) < Limit))
  /\ UNCHANGED <<executed, copied, began, whole, pc, candidates, index, response, own, lost, faults>>

-----------------------------------------------------------------------------
(* peerSynchronize, on the delegate that starts                            *)

\* Nobody to synchronize with, or nobody left.
NoDelegate ==
  /\ pc = "dial"
  /\ candidates = {}
  /\ pc' = "genesis"
  /\ UNCHANGED <<peer, history, candidates, index, response, own, lost, faults>>

\* grpc.Dial: an error leads to the next delegate; the first that answers is
\* the only one that is asked.
Dial(q) ==
  /\ pc = "dial"
  /\ q \in candidates
  /\ \/ /\ pc' = "ask" /\ index' = 0 /\ candidates' = {}
        /\ began' = executed /\ whole' = Whole /\ shifted' = FALSE
     \/ /\ candidates' = candidates \ {q}
        /\ UNCHANGED <<pc, history, index>>
  /\ UNCHANGED <<peer, response, own, lost, faults>>

\* The answer to one call; an empty page ends the loop.
Ask ==
  /\ pc = "ask"
  /\ UNCHANGED <<peer, history, candidates, index, own, lost, faults>>
  /\ response' = SynchronizeGrpc(index)
  /\ pc' = IF DOMAIN response' = {} THEN "genesis" ELSE "store"

\* The call fails: the loop asks the same delegate again.
AskFails ==
  /\ pc = "ask"
  /\ faults < MaxFaults
  /\ faults' = faults + 1
  /\ UNCHANGED <<peer, history, pc, candidates, index, response, own, lost>>

Overwrite(f, items) ==
  [k \in DOMAIN f \cup DOMAIN items |-> IF k \in DOMAIN items THEN items[k] ELSE f[k]]

\* Variant of Advance: the index stays where it is.
IndexKept == index' = index

\* index += int64(len(response.Items))
Advance == index' = index + Cardinality(DOMAIN response)

\* The items are set and committed.  The error of a Set loses one item, that of
\* the commit all of them; both are only logged, and the index moves on.
Store ==
  /\ pc = "store"
  /\ Advance
  /\ \/ own' = Overwrite(own, response) /\ UNCHANGED <<lost, faults>>
     \/ /\ faults < MaxFaults /\ faults' = faults + 1 /\ lost' = TRUE
        /\ \E set \in SUBSET DOMAIN response :
             own' = Overwrite(own, [k \in set |-> response[k]])
  /\ pc' = "ask"
  /\ response' = Nothing
  /\ UNCHANGED <<peer, history, candidates>>

\* createGenesisTransactionAndAccount, then the workers start.
CreateGenesis ==
  /\ pc = "genesis"
  /\ own' = IF <<"tx", Genesis>> \in DOMAIN own THEN own
            ELSE Overwrite(own, Database({Genesis}))
  /\ pc' = "done"
  /\ UNCHANGED <<peer, history, candidates, index, response, lost, faults>>

\* The process is killed and started again; the database stays.
Restart ==
  /\ pc # "done"
  /\ faults < MaxFaults
  /\ faults' = faults + 1
  /\ pc' = "dial" /\ candidates' = Peer /\ index' = 0 /\ response' = Nothing /\ lost' = FALSE
  /\ began' = {} /\ whole' = FALSE /\ shifted' = FALSE
  /\ UNCHANGED <<peer, own>>

peerSynchronize ==
  \/ NoDelegate \/ (\E q \in Peer : Dial(q)) \/ Ask \/ Store \/ CreateGenesis

Next ==
  \/ peerSynchronize \/ AskFails \/ Restart \/ PeerCopies
  \/ \E t \in Tx : PeerExecutes(t) \/ PeerRejects(t) \/ ReceiptExpires(t)

Spec == Init /\ [][Next]_vars

\* The goroutine runs, and the peer answers at last: faults are bounded.
FairSpec == Spec /\ WF_vars(peerSynchronize)

-----------------------------------------------------------------------------
(* Properties.  "Copied" is a copy of a peer that has a database of its    *)
(* own, that ended with an empty page and lost none.                       *)

Copied == pc = "done" /\ began # {} /\ whole /\ ~ lost

ReadFirst(k) == BeforeReceipts(k) /\ (k[1] = "account" => k[2] \notin Touches[Genesis])

\* Whatever the peer commits between two pages, nothing that it had at the
\* beginning is missing, and no account is older than it was then: new keys
\* shift the pages, but never past a key that was not read.  A receipt that
\* expires behind the reader shifts them the other way: then a receipt or a
\* transaction may be missing, but never what sorts before all receipts: a root
\* pointer, a secondary key or an account, except that the accounts of genesis
\* are set again when its transaction is missing.  (Keys without prefix, the
\* nodes of the contracts' tries, are not in any page.)
CopyIsComplete ==
  Copied => \A k \in Keys(began) :
    HasPrefix(k) /\ (ReadFirst(k) \/ ~ shifted) =>
      k \in DOMAIN own /\ Content(began, k) \subseteq own[k]

\* A secondary key leads to a transaction: "key-" is read before "table-", so
\* that a transaction committed in between may lack its secondary keys but a
\* secondary key never lacks its transaction (TransactionPaging relies on it).
IndexHasTarget ==
  Copied /\ ~ shifted =>
    \A t \in Tx : <<"key", t>> \in DOMAIN own => <<"tx", t>> \in DOMAIN own

\* A balance reflects only transactions that the new database knows as
\* executed: executeTransaction will not apply one a second time.
NothingAppliedTwice ==
  Copied /\ ~ shifted =>
    \A a \in Account : <<"account", a>> \in DOMAIN own =>
      \A t \in own[<<"account", a>>] : <<"tx", t>> \in DOMAIN own

\* The pages, taken from different states of the peer, make a database that the
\* node can go on with (peerSynchronize), unless a receipt expired behind the
\* reader: receipts sort before transactions, so the page after it begins one
\* transaction too late.
CopyIsConsistent == TypeOK /\ IndexHasTarget /\ NothingAppliedTwice

\* The service starts at last, although the peer's database grows and shrinks
\* meanwhile.
StartsAtLast == <>(pc = "done")
=============================================================================
