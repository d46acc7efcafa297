------------------------------- MODULE Ledger -------------------------------
(***************************************************************************)
(* Execution of transactions on one delegate: doWork and executeTransaction*)
(* of dapos/dapos_handshake.go, the genesis step of dapos_service.go, the  *)
(* receipts of commons/types/receipt.go, and the DVM calls as far as the   *)
(* ledger sees them.                                                       *)
(*                                                                         *)
(* Badger (external) is modelled by what the code relies on: a transaction *)
(* reads one snapshot, its writes become visible together at Commit, and   *)
(* Commit answers ErrConflict when a key it has read was committed by      *)
(* somebody else after the snapshot ("dirty" below).  The DVM writes its   *)
(* contract state through transactions of its own, before the ledger's     *)
(* transaction commits.                                                    *)
(*                                                                         *)
(* transactionWorker is started by the handler of an event, which the      *)
(* event manager may call twice: Worker may have two members.  A crash     *)
(* loses the cache, the queue and the workers and keeps the database.      *)
(*                                                                         *)
(* Abstracted: the order of the queue (PriorityQueue), account names,      *)
(* time stamps, pages; an account that is absent from the database is one  *)
(* with balance 0.  Copying another delegate's database at the start       *)
(* (peerSynchronize) is not part of this module.                           *)
(***************************************************************************)
EXTENDS LedgerSpec

CONSTANTS Worker,          \* goroutines running transactionWorker
          ContractOf,      \* function Tx -> Account: the contract a deployment creates
          StorageFaults,   \* TRUE: a write of contract state may fail
          MaxEnqueue,      \* bound: times one transaction is queued
          MaxCrashes       \* bound: crashes

\* Nobody pays a contract: a deployment carries no value (as the ones that
\* NewDeployContractTransaction makes) and no transfer goes to or from the
\* address of a contract.  The refinement is proved under this condition.
ContractsUnfunded ==
  \A d \in Tx : Kind[d] = "deploy" =>
    /\ Value[d] = 0
    /\ ContractOf[d] # GenesisAccount
    /\ \A t \in Tx : Kind[t] = "transfer" => ContractOf[d] \notin {From[t], To[t]}

ASSUME LedgerAssumption ==
  /\ ContractOf \in [Tx -> Account]
  /\ StorageFaults \in BOOLEAN
  /\ MaxEnqueue \in Nat /\ MaxCrashes \in Nat

VARIABLES up,              \* the process runs, genesis done, workers started
          bookkeeper,      \* types.GetConfig().IsBookkeeper
          queue,           \* gossipQueue: entries per transaction
          enqueued,        \* how often each transaction was queued (bound)
          rcptCache,       \* receipt status in the cache, "none" if absent
          rcptDb,          \* receipt status in badger
          evm,             \* contract transactions whose contract state was written
          lost,            \* history: those of which storage dropped a write, unreported
          pc, cur,         \* per worker: position and transaction
          readFrom, readTo,   \* per worker: the balances its badger transaction has read
          contractRead,    \* workers that have found the contract they call
          contractBal,     \* per worker: the balance the DVM gives the contract it deploys
          dirty,           \* workers that have read a key that was committed since
          crashes

contractState == <<evm, lost>>
db == <<genesis, ledger, bal, rcptDb, contractState>>
reads == <<readFrom, readTo, contractRead>>
volatile == <<queue, rcptCache, pc, cur, contractBal, reads, dirty>>
bounds == <<enqueued, crashes>>
vars == <<db, volatile, bounds, up, bookkeeper>>

Status == {"none", "Pending", "Ok", "InsufficientTokens", "InvalidTransaction",
           "InternalError", "ReceiptNotFound", "TransactionTimeOut"}

PC == {"idle",     \* waiting on timoutChan
       "locking",  \* in executeTransaction, waiting for services.Lock(hash)
       "begun",    \* lock held, tx key absent, both accounts read
       "applied",  \* the DVM has returned a result
       "commit"}   \* everything staged, receipt cached Ok, about to Commit

TypeOK ==
  /\ genesis \in BOOLEAN /\ up \in BOOLEAN /\ bookkeeper \in BOOLEAN
  /\ ledger \subseteq Tx
  /\ bal \in [Account -> Int]
  /\ queue \in [Tx -> Nat] /\ enqueued \in [Tx -> Nat]
  /\ evm \subseteq Tx /\ lost \subseteq Tx
  /\ rcptCache \in [Tx -> Status] /\ rcptDb \in [Tx -> Status]
  /\ pc \in [Worker -> PC]
  /\ cur \in [Worker -> Tx]
  /\ readFrom \in [Worker -> Int] /\ readTo \in [Worker -> Int]
  /\ contractBal \in [Worker -> Int]
  /\ contractRead \subseteq Worker /\ dirty \subseteq Worker
  /\ crashes \in Nat

Idle ==
  /\ queue = [t \in Tx |-> 0]
  /\ rcptCache = [t \in Tx |-> "none"]
  /\ pc = [w \in Worker |-> "idle"]
  /\ cur \in [Worker -> Tx] /\ \A v, w \in Worker : cur[v] = cur[w]
  /\ readFrom = [w \in Worker |-> 0] /\ readTo = [w \in Worker |-> 0]
  /\ contractBal = [w \in Worker |-> 0]
  /\ contractRead = {} /\ dirty = {}

Init ==
  /\ SpecInit
  /\ Idle
  /\ rcptDb = [t \in Tx |-> "none"]
  /\ evm = {} /\ lost = {}
  /\ enqueued = [t \in Tx |-> 0]
  /\ crashes = 0
  /\ up = FALSE
  /\ bookkeeper \in BOOLEAN

-----------------------------------------------------------------------------
(* Start, crash, and what the gossip protocol does to this component.      *)

\* Variant of GenesisMissing: the look-up is left out.
GenesisUnchecked == TRUE

\* ToTransactionByKey answers ErrKeyNotFound for the genesis transaction.
GenesisMissing == ~ genesis

\* disGoverServiceInitFinished, on a delegate that finds no other to copy the
\* database from (peerSynchronize returns at once):
\* createGenesisTransactionAndAccount looks the genesis transaction up and
\* writes it, and its account, only if absent; then the workers are started.
Boot ==
  /\ ~ up
  /\ up' = TRUE
  /\ genesis' = TRUE
  /\ bal' = IF GenesisMissing THEN [bal EXCEPT ![GenesisAccount] = Supply] ELSE bal
  /\ UNCHANGED <<ledger, rcptDb, contractState, volatile, bounds, bookkeeper>>

Crash ==
  /\ up
  /\ crashes < MaxCrashes
  /\ crashes' = crashes + 1
  /\ up' = FALSE
  /\ queue' = [t \in Tx |-> 0]
  /\ rcptCache' = [t \in Tx |-> "none"]
  /\ pc' = [w \in Worker |-> "idle"]
  /\ readFrom' = [w \in Worker |-> 0] /\ readTo' = [w \in Worker |-> 0]
  /\ contractBal' = [w \in Worker |-> 0]
  /\ contractRead' = {} /\ dirty' = {}
  /\ UNCHANGED <<db, cur, enqueued, bookkeeper>>

\* cacheOnFirstReceive: the receipt becomes known, as Pending.
FirstReceive(t) ==
  /\ up
  /\ rcptCache[t] = "none"
  /\ rcptCache' = [rcptCache EXCEPT ![t] = "Pending"]
  /\ UNCHANGED <<db, queue, pc, cur, contractBal, reads, dirty, bounds, up, bookkeeper>>

\* gossipWorker finds 2/3 of the rumors and pushes the gossip.  Exists only
\* looks at what is in the queue now: a transaction that was popped before
\* can be queued again, and two goroutines can both find it absent.  A
\* delegate that restarted may queue a gossip that already carries its rumor,
\* for which cacheOnFirstReceive is not called again.
Enqueue(t) ==
  /\ up
  /\ rcptCache[t] # "none" \/ crashes > 0
  /\ enqueued[t] < MaxEnqueue
  /\ enqueued' = [enqueued EXCEPT ![t] = @ + 1]
  /\ queue' = [queue EXCEPT ![t] = @ + 1]
  /\ UNCHANGED <<db, rcptCache, pc, cur, contractBal, reads, dirty, crashes, up, bookkeeper>>

-----------------------------------------------------------------------------
(* doWork                                                                  *)

\* gossipQueue.HasAvailable.
HasAvailable(t) == queue[t] > 0

\* Pop a gossip; without a cached receipt, or when its first rumor is too far
\* from the transaction's time, only a receipt comes of it.
DoWork(w) ==
  /\ up
  /\ pc[w] = "idle"
  /\ \E t \in Tx :
       /\ HasAvailable(t)
       /\ queue' = [queue EXCEPT ![t] = @ - 1]
       /\ \/ /\ rcptCache[t] = "none"
             /\ rcptCache' = [rcptCache EXCEPT ![t] = "ReceiptNotFound"]
             /\ UNCHANGED <<pc, cur>>
          \/ /\ rcptCache[t] # "none"
             /\ rcptCache' = [rcptCache EXCEPT ![t] = "TransactionTimeOut"]
             /\ UNCHANGED <<pc, cur>>
          \/ /\ rcptCache[t] # "none"
             /\ ~ bookkeeper
             /\ UNCHANGED <<rcptCache, pc, cur>>
          \/ /\ rcptCache[t] # "none"
             /\ bookkeeper
             /\ pc' = [pc EXCEPT ![w] = "locking"]
             /\ cur' = [cur EXCEPT ![w] = t]
             /\ UNCHANGED rcptCache
  /\ UNCHANGED <<db, contractBal, reads, dirty, bounds, up, bookkeeper>>

-----------------------------------------------------------------------------
(* executeTransaction                                                      *)

\* Kmutex: the workers inside services.Lock(t) .. services.Unlock(t).
Inside(w) == pc[w] \in {"begun", "applied", "commit"}

\* Variant of HashLocked: executeTransaction does not take the lock.
NeverLocked(t) == FALSE

HashLocked(t) == \E w \in Worker : Inside(w) /\ cur[w] = t

Goto(w, l) == pc' = [pc EXCEPT ![w] = l]

\* Variant of ContractKnown: what the DVM has written is looked up instead of
\* the account in the ledger.
ContractWritten(a) == \E d \in evm : Kind[d] = "deploy" /\ ContractOf[d] = a

\* ToTransactionByAddress: the contract account names a deployment that is in
\* the ledger.
ContractKnown(a) == \E d \in ledger : Kind[d] = "deploy" /\ ContractOf[d] = a

\* Variant of AlreadyExecuted: the transaction key is not looked up.
NeverExecuted(t) == FALSE

\* txn.Get(transaction.Key()) finds the transaction.
AlreadyExecuted(t) == t \in ledger

\* services.Lock, NewTxn, and the reads: the transaction key, both accounts
\* and, for a contract call, the deployment.
Begin(w) ==
  LET t == cur[w] IN
  /\ pc[w] = "locking"
  /\ ~ HashLocked(t)
  /\ \/ /\ AlreadyExecuted(t)              \* "Already executed this transaction"
        /\ Goto(w, "idle")
        /\ UNCHANGED <<reads, dirty>>
     \/ /\ ~ AlreadyExecuted(t)
        /\ Goto(w, "begun")
        /\ readFrom' = [readFrom EXCEPT ![w] = bal[From[t]]]
        /\ readTo' = [readTo EXCEPT ![w] = bal[To[t]]]
        /\ contractRead' = {v \in Worker : IF v = w THEN ContractKnown(To[t])
                                                    ELSE v \in contractRead}
        /\ dirty' = dirty \ {w}
  /\ UNCHANGED <<db, queue, rcptCache, cur, contractBal, bounds, up, bookkeeper>>

\* Variant of Fail: the receipt keeps the status it had.
FailWithoutReceipt(w) ==
  /\ Goto(w, "idle")
  /\ UNCHANGED <<genesis, ledger, bal, rcptDb, rcptCache, queue, cur, contractBal, reads, dirty, bounds, up,
                 bookkeeper>>

\* Variant of Fail: the worker tries again until it succeeds.
FailAndRetry(w) ==
  /\ Goto(w, "begun")
  /\ rcptCache' = [rcptCache EXCEPT ![cur[w]] = "InternalError"]
  /\ UNCHANGED <<genesis, ledger, bal, rcptDb, queue, cur, contractBal, reads, dirty, bounds, up, bookkeeper>>

\* receipt.Status = InternalError, cached; the badger transaction is discarded.
Fail(w) ==
  /\ Goto(w, "idle")
  /\ rcptCache' = [rcptCache EXCEPT ![cur[w]] = "InternalError"]
  /\ UNCHANGED <<genesis, ledger, bal, rcptDb, queue, cur, contractBal, reads, dirty, bounds, up, bookkeeper>>

\* SetStatusWithNewTransaction: status in the (shared) cached receipt and in
\* badger, through a transaction of its own.
Reject(w, status) ==
  /\ Goto(w, "idle")
  /\ rcptCache' = [rcptCache EXCEPT ![cur[w]] = status]
  /\ rcptDb' = [rcptDb EXCEPT ![cur[w]] = status]
  /\ UNCHANGED <<genesis, ledger, bal, contractState, queue, cur, contractBal, reads, dirty, bounds, up, bookkeeper>>

\* An account cannot be read: the sender's error is only cached, the receiver's
\* is written with SetInternalErrorWithNewTransaction.
ReadFails(w) ==
  /\ pc[w] = "begun"
  /\ \/ Fail(w) /\ UNCHANGED contractState
     \/ Reject(w, "InternalError")

\* transaction, accounts, receipt (Ok, also in the cache) and gossip are set
\* in the badger transaction.
Stage(w) ==
  /\ Goto(w, "commit")
  /\ rcptCache' = [rcptCache EXCEPT ![cur[w]] = "Ok"]
  /\ UNCHANGED <<db, queue, cur, contractBal, reads, dirty, bounds, up, bookkeeper>>

\* The sufficiency check, on the balance that was read.
Insufficient(w) == readFrom[w] < Value[cur[w]]

\* case types.TypeTransferTokens.
Transfer(w) ==
  /\ pc[w] = "begun"
  /\ Kind[cur[w]] = "transfer"
  /\ IF Insufficient(w) THEN Reject(w, "InsufficientTokens") ELSE Stage(w)

\* The default case of the switch: Verify lets unknown types through.
UnknownType(w) ==
  /\ pc[w] = "begun"
  /\ Kind[cur[w]] = "other"
  /\ Reject(w, "InvalidTransaction")

\* The DVM has written the state of the contract that t deploys or calls.
ChangeContract(t) == evm' = evm \cup {t}

\* stateHelper.Commit.  memBatch.Write goes on after a Put that failed and
\* answers nil, and nobody looks at the Put of the root pointer: when storage
\* may fail, what is written may be less than the whole, and no error tells.
WriteContract(t) ==
  \/ ChangeContract(t) /\ UNCHANGED lost
  \/ /\ StorageFaults
     /\ UNCHANGED evm
     /\ lost' = lost \cup {t}

\* The DVM fails: before it writes anything, after a nested call has committed
\* its contract, or in the middle of stateHelper.Commit.  A contract that is
\* not found is not run.
RunFails(w) ==
  /\ Fail(w)
  /\ \/ UNCHANGED contractState
     \/ /\ Kind[cur[w]] = "deploy" \/ w \in contractRead
        /\ WriteContract(cur[w])

\* DeploySmartContract returns every error it is told of.  The account of the new contract
\* starts from what badger holds for its address when the DVM runs, plus the
\* value of the deployment, which the sender must have but nobody takes from
\* the sender's account.
DeploySmartContract(w) ==
  LET t == cur[w] IN
  /\ Kind[t] = "deploy"
  /\ bal[From[t]] >= Value[t]
  /\ WriteContract(t)
  /\ contractBal' = [contractBal EXCEPT ![w] = bal[ContractOf[t]] + Value[t]]

\* When stateHelper.Commit fails, ExecuteSmartContract returns execError, which
\* is nil there: the caller sees a success, whatever was written.
ExecuteSmartContract(w) ==
  LET t == cur[w] IN
  /\ Kind[t] = "execute"
  /\ w \in contractRead
  /\ WriteContract(t)
  /\ UNCHANGED contractBal

\* case TypeDeploySmartContract / TypeExecuteSmartContract up to the answer of
\* the DVM.  A call of an unknown contract fails at once.
RunContract(w) ==
  /\ pc[w] = "begun"
  /\ Kind[cur[w]] \in {"deploy", "execute"}
  /\ \/ RunFails(w)
     \/ /\ DeploySmartContract(w) \/ ExecuteSmartContract(w)
        /\ Goto(w, "applied")
        /\ UNCHANGED <<genesis, ledger, bal, rcptDb, rcptCache, queue, cur, reads, dirty,
                       bounds, up, bookkeeper>>

\* processDVMResult: the result of a call may fail to decode, after the
\* contract state was written.  A deployment has no result to decode.
ContractResult(w) ==
  /\ pc[w] = "applied"
  /\ \/ Stage(w)
     \/ Kind[cur[w]] = "execute" /\ Fail(w) /\ UNCHANGED contractState

\* A Set into the badger transaction, or Commit itself, fails for a reason
\* other than a conflict.
PersistFails(w) ==
  /\ pc[w] = "commit"
  /\ Fail(w)
  /\ UNCHANGED contractState

\* The accounts a transaction's commit writes, and the ones it has read.
Writes(t) == {From[t], To[t]} \cup (IF Kind[t] = "deploy" THEN {ContractOf[t]} ELSE {})

Reads(t) == {From[t], To[t]}

\* The commit of worker w invalidates something worker v has read.
Conflicts(v, w) ==
  /\ v # w
  /\ Inside(v)
  /\ cur[v] = cur[w] \/ Reads(cur[v]) \cap Writes(cur[w]) # {}

\* txn.Commit: ErrConflict returns silently, leaving the cached receipt Ok.
Commit(w) ==
  LET t == cur[w] IN
  /\ pc[w] = "commit"
  /\ Goto(w, "idle")
  /\ \/ /\ w \in dirty
        /\ UNCHANGED <<ledger, bal, rcptDb, dirty>>
     \/ /\ w \notin dirty
        /\ ledger' = ledger \cup {t}
        /\ bal' = LET v == IF Kind[t] = "transfer" THEN Value[t] ELSE 0
                      created == IF Kind[t] = "deploy"
                                 THEN [bal EXCEPT ![ContractOf[t]] = contractBal[w]] ELSE bal
                  IN  [created EXCEPT ![From[t]] = readFrom[w] - v,
                                      ![To[t]] = readTo[w] + v]
        /\ rcptDb' = [rcptDb EXCEPT ![t] = "Ok"]
        /\ dirty' = dirty \cup {v \in Worker : Conflicts(v, w)}
  /\ UNCHANGED <<genesis, contractState, queue, rcptCache, cur, contractBal, reads, bounds, up, bookkeeper>>

Execute(w) ==
  \/ Begin(w) \/ ReadFails(w) \/ Transfer(w) \/ UnknownType(w) \/ RunContract(w)
  \/ ContractResult(w) \/ PersistFails(w) \/ Commit(w)

Next ==
  \/ Boot \/ Crash
  \/ \E t \in Tx : FirstReceive(t) \/ Enqueue(t)
  \/ \E w \in Worker : DoWork(w) \/ Execute(w)

Spec == Init /\ [][Next]_vars

\* Goroutines run when they can; the process is restarted after a crash.
FairSpec ==
  /\ Spec
  /\ WF_vars(Boot)
  /\ \A w \in Worker : WF_vars(DoWork(w) \/ Execute(w))

-----------------------------------------------------------------------------
(* Properties.  The refinement of LedgerSpec is the property LSpec.        *)

\* The persisted receipt and the ledger agree: whatever is rejected, retried,
\* lost to a conflict or cut off by a crash, badger holds an Ok receipt
\* exactly for the transactions it holds.  Reject writes its receipt outside
\* the badger transaction, so this needs the lock on the hash.
ReceiptMatchesLedger == \A t \in Tx : t \in ledger <=> rcptDb[t] = "Ok"

\* No account is ever overdrawn, although the sufficiency check reads a
\* snapshot and the balances are written later (dapos_handshake.go:416, 562).
NoOverdraft == \A a \in Account : bal[a] >= 0

\* The receipt a client sees: Ok in the cache, outside the moment between
\* staging and Commit, means the transaction is in the ledger.
CachedOkIsCommitted ==
  \A t \in Tx :
    rcptCache[t] = "Ok" /\ ~ (\E w \in Worker : pc[w] = "commit" /\ cur[w] = t)
      => t \in ledger

\* The comment at dapos_handshake.go:564 on ErrConflict: "Another thread
\* already committed this transaction. This will happen, which is ok."
ConflictMeansCommitted ==
  \A w \in Worker : pc[w] = "commit" /\ w \in dirty => cur[w] \in ledger

\* A call in the ledger went to a contract whose deployment is in the ledger
\* and whose state the DVM has written, although contract state and ledger are
\* committed separately, either can fail alone, and a crash can come between
\* them.  The one exception is a deployment of which storage dropped a write:
\* badger_wrapper.go:215-227 and implementation.go:120 drop the error, and the
\* deployment is accepted all the same.
CalledContractsExist ==
  \A t \in ledger : Kind[t] = "execute" =>
    \E d \in ledger : /\ Kind[d] = "deploy" /\ ContractOf[d] = To[t]
                      /\ d \in evm \cup lost

\* Every queued entry is popped, executed or not.  With one worker, which is
\* what a service that is started once has: no error path of executeTransaction
\* keeps the lock or the worker, whatever the DVM, storage, the sender's other
\* transactions and a crash do to it.  (With several workers the lock of a hash
\* can make one wait for another; Kmutex shows that it goes to somebody.)
QueueDrains == \A t \in Tx : queue[t] > 0 ~> queue[t] = 0
=============================================================================
