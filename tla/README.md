# Disgo in TLA+

This directory is a verification project for Disgo, the node software of the
Dispatch network: TLA+ modules translated from the Go source, TLC runs on small
instances, and theorems checked by TLAPS. Paths below are relative to the
repository root (`src/` here).

## 1. The system

A Disgo node is one Go process. *Delegates* receive transactions from clients,
gossip about them, and execute those that two thirds of the delegates have
signed for; *seeds* tell nodes who the delegates are; *bookkeepers* keep the
ledger (an execution is skipped on a node that is not one).

```
client --HTTP/gRPC--> NewTransaction -> startGossiping
                                            |  cacheOnFirstReceive: tell everybody
   other delegates <--- peerGossipGrpc -----+
   GossipGrpc -> synchronizeGossip -> gossipChan -> gossipWorker
                                                     | 2/3 of the rumors?
                                                     v
                     gossipQueue (heap + ExistsMap) + timer -> timoutChan
                                                     v
                     transactionWorker -> doWork -> executeTransaction
                                                     |  services.Lock(hash) (Kmutex)
                                                     v
                     badger: transactions, accounts, receipts, gossips
                     DVM (EVM fork): contract state, in badger transactions of its own
```

### Inventory

| component | state it keeps | operations | what is hard | what makes it correct |
|---|---|---|---|---|
| gossip (`dapos/dapos_handshake.go`, `dapos_transport_grpc.go`, `commons/types/gossip.go`, `rumor.go`) | cached gossip per hash (a shared pointer), list of delegates already sent to, status of nodes, `gossipChan`, receipt status | `startGossiping`, `cacheOnFirstReceive`, `GossipGrpc`, `synchronizeGossip`, `peerGossipGrpc`, `gossipWorker`, `getRandomDelegate`, `updateReceiptStatus` | handlers call each other synchronously; unlocked appends to a shared slice; look-up and caching are two steps; a call times out while its handler goes on; failed calls put the gossip back, and only some of them mark the node | what is queued has two thirds of the signatures; whoever is noted as informed is; the gossip ends; everybody learns of a transaction; a client gets a verdict |
| execution queue (`commons/queue/gossip_queue.go`, `exists_map.go`, `thread_safe_queue.go`) | heap, `ExistsMap`, one timer per pushed gossip, `timoutChan` | `Exists`, `Push`, `Pop`, `HasAvailable`, `WatchHeapOps`, `doWork` | look-up and push are two steps; the gossip popped is not the one whose timer fired; the message to `WatchHeapOps` is taken before the heap changes | one tick per queued gossip; no pop of an empty heap; a hash that left the queue can come back; nothing is left behind |
| priority queue (`commons/queue/priority_queue.go`) | slice of items with priority and index | `Push`, `Pop`, `Update` over `container/heap` | the algorithm | heap order; indices; it is a priority queue |
| execution and ledger (`dapos_handshake.go`, `dapos_service.go`, `commons/types/receipt.go`, `account.go`, `transaction.go`) | badger: transactions, accounts, receipts; cache: receipts | `createGenesisTransactionAndAccount`, `doWork`, `executeTransaction`, `processDVMResult`, the receipts' `Set...WithNewTransaction` | optimistic transactions with conflicts; receipts written outside the transaction; two workers; crashes; restart | each transaction at most once; no overdraft; tokens conserved; receipts agree with the ledger |
| receipts and read API (`dapos_api.go`, the caches) | cached receipt, gossip and transaction with their times to live; receipt in badger | `GetReceipt`, `GetTransaction`, `updateReceiptStatus`, `doWork` | shared pointers; late gossips; restarts; expiry | an executed transaction is never unknown again; the answer is the outcome |
| keyed mutex (`commons/utils/kmutex.go`) | set of held keys, one condition variable | `Lock`, `Unlock` | one notify list for all keys | mutual exclusion per key; no lost wakeup |
| database synchronization (`dapos_transport_grpc.go:44-143`) | the joining node's database | `SynchronizeGrpc`, `peerSynchronize` | pages from different snapshots, found by counting; receipts that expire; endless retry | the copy is a database the peer had, unless a receipt expires behind the reader |
| service start and events (`dapos_service.go`, `commons/utils/events.go`, `bootstrap/`) | subscribers, `happenedOnce` | `On`, `Off`, `Raise`, `Go` | `On` races with `Raise` | the handler runs, the workers serve the gossips |
| discovery (`disgover/`, `commons/types/node.go`) | nodes in cache and badger, this node's type, update files | `PingSeedGrpc`, `UpdateGrpc`, `UpdateSoftwareGrpc` and their callers' sides, `updateWorker` | unchecked commits, calls that fail one by one, authentication windows, restarts | delegates know each other; a node that comes back is available |
| validation (`commons/types/transaction.go`, `rumor.go`, `authentication.go`, `account.go`, `receipt.go`) | none | `Verify`, `NewHash`, JSON in both directions, `ValidateTimeDelta` | fields hashed without lengths, abi and parameters not at all; numbers through float64; abi and parameters rewritten by the execution | which transactions have one hash; a hop changes nothing, the execution only what the hash does not bind |
| paging (`transaction.go`, `account.go`, `gossip.go`, `dapos_api.go`) | secondary keys | `TransactionPaging`, ... | index arithmetic | the pages partition what they page |
| DVM (`dvm/dvm_api.go`, `dvm_helpers.go`, `vmstatehelperimplemtations/`, `badgerwrapper/`) | trie nodes and one root pointer per contract | `DeploySmartContract`, `ExecuteSmartContract`, `Commit` | separate writes, ignored errors, contracts calling contracts, no lock per contract | badger holds whole worlds only, but for what a failed Put has lost |
| EVM (`dvm/ethereum/vm/`) | frames, world, gas | the instructions, calls, creations | sizes computed from 256-bit words; failure inside calls, each with a StateDB and a commit of its own | jumps land on instructions, memory is paid for, what a failed call did stays off the disk |
| state database (`dvm/ethereum/state/`) | objects, journal, snapshots | setters, `RevertToSnapshot`, `Finalise`, `Commit`, `Copy` | undo through objects that were replaced | a revert restores every answer; a commit writes them |
| trie and trie database (`dvm/ethereum/trie/`) | nodes, cached hashes, reference counts, flush-list | `insert`, `delete`, `Hash`, `Commit`, iterators, proofs, `Reference`, `Dereference`, `Cap` | shared subtrees, unloading, nodes under 32 bytes | one shape per content; what is referenced stays |
| RLP, contract ABI, Merkle tree (`dvm/ethereum/rlp`, `dvm/ethereum/abi`, `commons/tree`) | none | encode, decode, pack, unpack, verify | boundaries | the encodings are canonical and come back |
| transaction and receipt queues, SDK, local API, HTTP/gRPC servers, connection pool, cryptography | none of their own (pool: one per peer) | | | |

`PROJECT.json` lists the components with their status and, under `hazards`, the
places in the code that are hard to test.

## 2. Modules

Each definition that models code carries its source lines in the `map` of
`PROJECT.json`. A definition named "Variant of ..." is a plausible mistake in
the definition it names; no specification uses it, it serves to show that
the properties notice the mistake.

| part | modules |
|---|---|
| consensus | Gossip, MCGossip, GossipProofs |
| queue and start | GossipQueue, Events, ServiceStart (the composition), MCGossipQueue, GossipQueueProofs |
| execution | LedgerSpec, Ledger, MCLedger, LedgerProofs; Kmutex, KmutexProofs |
| what a node knows | Disgover, Receipts, NodeProofs, MCNode; Synchronize, MCSynchronize, SynchronizeProofs |
| contracts | Evm with EvmParams, EvmWord, EvmTable, EvmGas, EvmState, MCEvm |
| contract storage | StateSpec, StateDB, TrieDatabase, MCStorage, StorageProofs |
| algorithms | MinQueue, PriorityQueue, PriorityQueueProofs, Trie, TrieEncoding, TrieIterator, Rlp, RlpCheck, Abi, MerkleTree, Paging, Validation, MCAlgorithms |

**Kmutex** - `Lock`, `Unlock` of `kmutex.go`. A critical section of the inner
`sync.Mutex` is one step. `keys` is the map of held keys; `pc` tells a goroutine
that has just called from one that sleeps in `cond.Wait` and one that was woken
and has to look again.

**LedgerSpec** - what a ledger promises: the set of accepted transactions and
the balances, `CreateGenesis` and `Accept(t)`, one atomic step each.

**Ledger** - `doWork` and `executeTransaction`, one action per stretch between
two points where another goroutine can be noticed:

| action | code |
|---|---|
| `Boot`, `Crash` | start of the service with the genesis step; loss of cache, queue and goroutines |
| `FirstReceive`, `Enqueue` | what gossip does to this component |
| `DoWork` | pop, receipt look-up, time check, bookkeeper check |
| `Begin` | `services.Lock`, `NewTxn`, look-up of the transaction, both accounts, the contract |
| `ReadFails` | an account cannot be read |
| `Transfer`, `UnknownType`, `RunContract` | the cases of the switch; `DeploySmartContract` and `ExecuteSmartContract` are the DVM's two entry points |
| `ContractResult` | `processDVMResult` |
| `Stage` (in `Transfer` and `ContractResult`) | everything set in the badger transaction, receipt `Ok` in the cache |
| `Commit`, `PersistFails` | `txn.Commit` with its conflict, or another error |

Badger is external: a transaction reads one snapshot, `Commit` fails with
`ErrConflict` if a key it has read was committed since. The model keeps the
balances read and the set `dirty` of workers whose reads have been overwritten.
Accounts written without having been read (the contract's account of a
deployment) cause no conflict, as in badger. The module is about a node that
does not copy its database from another delegate at the start (Synchronize is
about one that does). Of the DVM the ledger sees for which transactions contract
state was written (`evm`) and for which a write failed without an error
(`lost`): `WriteContract` is `stateHelper.Commit` on a storage whose Puts may fail.

**Gossip** - the protocol for one transaction (all its state is per hash). A
gossip is an object, as in Go: the object received first is also the cached
one, the one in `gossipChan`, and the one other handlers append to. The list of
rumors is a bag of authors, since only a race can list one twice. `Recv` and
`Merge` are the two halves of `synchronizeGossip`, between which other handlers
run: in `Merge` the append works on the current list or on the slice header
read in `Recv`. Calls are synchronous: a goroutine in `sendWait` or
`workerWait` waits for the handler named in `caller`. `GiveUp` is the 20 s
time-out of a call whose handler goes on. A call fails in two ways: refused or
timed out, it marks the node as unavailable (`CallFails`); without a connection,
or with an answer that is no gossip, it does not (`Unmarked`). A worker puts its
gossip back in either case (`PutBack`). A `Setting` says, for a whole behaviour,
who submits, who refuses calls, whether rumors may come too late for
`ValidateTimeDelta`, and how many other calls fail.

**GossipQueue** - from "two thirds" to the execution: `Arrive` (Exists), `Put`
(ExistsMap), `HeapPush`, `WatchPush` (the heap goroutine), `TimerFires`, and the
worker's `TakeTick`, `LookQueue`, `HeapPop`, `Delete`, `Execute`.
**Events** - `On` and `Raise` of the event manager. Both hold the read lock
only, so they run side by side; what `Raise` writes to `happenedOnce` may be
seen by `On` late ("pending"), which Go's memory model allows.
**ServiceStart** - the two together: worker n takes ticks once the handler was
started n times, so a handler that is started twice gives the queue two
workers, and one that is never started leaves the gossips in the channel.

**Disgover** - seed and nodes. A node boots (`bootstrap.go`), pings the seed,
takes the answer, and starts its services; the seed stores and caches the node
(`PingSeedGrpc`, with a commit whose error is ignored) and tells all delegates
(`peerUpdateGrpc`, call by call, each can fail); software updates go the same
way and end in a reboot. Crashes of nodes and of the seed; the seed comes back
with its database and without its cache. One handler works for a node at a
time.

**Receipts** - one delegate's view of one transaction, from the submission to
the expiry of its receipt: which receipt object is cached and which is in badger,
who still holds an object and changes it in place. Gossips arrive early, late
and repeatedly; the process restarts; the times to live pass when nothing is
being worked on. `GetReceipt` and `GetTransaction` are what the properties ask.

**Synchronize** - a delegate copies the database of another one before it
starts. The peer's database is a function of the transactions it has executed
and of the rejections it holds receipts of. Badger's order is a function that
numbers the keys; the place of a key is the number of keys the iterator passes
before it, and `SynchronizeGrpc(i)` is the page of the keys at the places from i
on in the current database. Between the pages `PeerExecutes` and `PeerRejects`
add keys, and `ReceiptExpires` takes one away: a rejection is written with a time
to live. `PeerCopies` is a peer that answers in the middle of a copy of its own,
and has the first keys of a database only. `Dial`, `Ask`, `AskFails`, `Store`,
`CreateGenesis` are the steps of `peerSynchronize` and the genesis step after it,
`Restart` a process killed meanwhile. The order of the prefixes matters:
`AccountState-`, `key-` and `table-account-` are read before `table-receipt-`, and
that before `table-transaction-`, so that what refers to a transaction is read
before it. The converse does not hold, and no property says it: a transaction
that the peer executes during the copy may arrive as executed, with the balances
from before it or without its secondary keys. Keys without a prefix, the nodes
of the contracts' tries, are in no page.

**Evm** - the interpreter, instruction by instruction: `Step` checks stack,
write protection, memory size and gas in the order of `interpreter.go`, then
executes. The instructions come from the jump table (EvmTable) as data: what
they pop and push, their gas function (EvmGas), their memory function. Calls
and creations open frames with a snapshot; `Return` closes them. A transaction
begins with `StateTransition` and ends with the commit of the world, as
`dvm_api.go` and `VMStateHelper` order it. Each `CALL` has a StateDB of its own,
opened on the root its address has at that moment; `CommitTo` writes that root
back with the changes, whatever was committed in between. The instruction set is that of
Constantinople, the gas table that of the main net at the Byzantium block, which
is what `DVMService` configures. EvmWord has
the arithmetic of words of `WordBytes` bytes, EvmState the accounts as the
interpreter sees them (StateDB shows that the journal makes this view right).

**StateSpec, StateDB** - the abstract world (what every getter answers, a stack
of copies as snapshots) and the concrete one: objects loaded on first use, a
journal with undo entries, storage cached and flushed per object, deletion in
`Finalise`, writing in `Commit`. The refinement mapping is `View`.

**TrieDatabase** - reference counts, flush-list, `Cap`, and `Commit` writing node
by node (`BatchWrite`), children first, then the root pointer of `VMStateHelper`
(`Point`); several helpers share badger, each with a Database of its own, and the
process can crash between any two writes. `PutAll` is `memBatch.Write`, which drops
the error of each Put: `lost` are the nodes whose Put failed and which nobody has
written since. The batch, `uncache` and the pointer go on as if they were there. The recursions of `dereference` and
`uncache` are the iteration of one call (`dereferenceOnce`, `uncacheOnce`) on a list of
the calls still to come, which `Visits` bounds. Which hashes a node contains is
given by the constants `Kids`, `StorageOf` and `CodeOf`.

**Trie, TrieEncoding, TrieIterator** - `insert`, `delete`, `tryGet`, `hash` with
its collapsed and cached nodes, unloading by generation, loading of missing
nodes; key encodings; iterators with seeking, the difference and the union
iterator; proofs. A hash is the node it is the hash of; a node whose encoding is
shorter than a hash is embedded in its parent, which `LenOf` decides.

**Rlp, RlpCheck** - the encoder with its list heads, the stream decoder with its
stack of sizes, and `Split`, over typed values; a reference encoding, and the inputs.

**Abi, MerkleTree, Paging, Validation** - functions: conversion of JSON
parameters with its panics, once at the delegate that takes the submission and
again where the call is executed (`Reconverted`), packing and unpacking with
every bounds check; the tree with its duplicated odd nodes; the pages over
badger's key order; hashes and signatures, the JSON of transactions, accounts,
receipts, rumors and gossips with numbers through float64, what the execution
persists of a transaction (`Executed`) and what is read again
(`ToTransactionByHash`), authentications, the account file.

How they fit together: Ledger takes the lock on a hash as one step, which
Kmutex justifies; Ledger's queue is a bag and GossipQueue's heap a set with an
oldest element, which PriorityQueue justifies; Ledger lets a transaction be
queued again after it was popped, which is what GossipQueue shows to be
possible; Gossip ends where GossipQueue begins, and a rumor is its author
because of what Validation shows; Evm works on a world with snapshots, which
StateDB implements; StateDB's tries are what they map, which Trie justifies, and
are written by TrieDatabase; Events and Disgover meet where a node that has
joined raises the event.

## 3. Runs

A run that covers several components (Node, Storage, Algorithms) chooses one of
them in its initial state and runs that one alone.

| run | instance | properties |
|---|---|---|
| Kmutex | 4 goroutines, 2 keys; 4,792 states | `MutualExclusion`, `NoLostWakeup`, `KeyIsGranted` (a key that is asked for is granted to somebody) |
| LedgerTransfers | 2 workers, 3 transfers that compete for 3 tokens, each queued twice, 1 crash; 2.8 M states | `ReceiptMatchesLedger`, `SupplyConserved`, and the refinement `LSpec` |
| LedgerContracts | 1 worker, a deployment, a call and a transaction of unknown type, each queued twice, storage faults with and without an error, 1 crash; 676,274 states | `CachedOkIsCommitted`, `CalledContractsExist` (an accepted call went to a contract in the ledger, whose state was written or lost by storage), `QueueDrains` (the one worker is never stuck) |
| Gossip | 3 delegates: 1 submission with rumors in time or late, or 2 racing submissions with 1 delegate down and 1 more call that times out, gets no connection or an unreadable answer; 1,231,327 states | `GossipConsistent` (types; whoever is noted as informed is, and so is every author of a rumor in a queued gossip), `QueuedHasTwoThirds`, `GossipEndsWell` (when all is quiet and nothing failed: everybody has learnt of the transaction, has accepted it if it was in time, and has a verdict for the client), `GossipEnds` |
| GossipQueue | start of the service, 3 gossips about 2 transactions, 2 workers; 17,746 states | `NeverPopsEmpty`, `ExistsHasReason`, `GossipIsServed` (the event reaches its handler, every gossip is taken, what is queued is executed) |
| Node | a seed and 2 nodes, 2 kinds of update file, 1 fault; or 3 delegates, 2 gossips and a submission, 1 restart; 2,125,500 states | `DelegatesInTouch` (types; when nothing is under way, delegates know each other and one that came back is available again, unless the call about it failed or the seed has lost its cache), `DroppedOnlyIfForgotten`, `ExecutedIsAnswered` |
| Synchronize | a copy of a database with 3 transactions (genesis and two payments), one of which calls a contract, rejections and their expiry, pages of 3 keys, 1 failed call, failed commit or restart, any contents of the peer's database at the start, a peer that copies itself; 63,791 states | `CopyIsComplete` (what sorts before the receipts always; the rest unless a receipt expired behind the reader), `CopyIsConsistent` (types; under the same condition every secondary key has its target and nothing can be applied twice), `StartsAtLast` |
| Evm | 24 programs at one address, calling 3 fixed contracts, 2 transactions with several gas limits, words of 3 bytes; 36,862 states | `FrameSound` (types, program counter on an instruction, memory covers what is used), `StepsAsTabled` (stack as in the jump table, every step costs gas or ends, static calls write nothing), `FailuresLeaveNothing` (what a failed call did is not on the disk, although it commits), `ValueConserved` |
| Storage | 2 accounts, 3 setters, 2 snapshots, 2 rounds of Commit, Reset or Copy; or 2 helpers with 5 trie nodes and 2 roots, up to 2 nodes lost at once; 702,018 states | `StateCoherent` (cache and tries agree, dirty counts match the journal, clean objects are unchanged), `AnswersKept` (refinement of StateSpec, and a commit writes what was answered), `DiskClosed`, `ReferencedIsKept` (with the flush-list complete), both but for lost nodes |
| Algorithms | below; 109,784 states | `MinQueueSpec` (heap order, indices, refinement of MinQueue), `TrieSound`, `TrieReadsAgree`, `RlpCanonical`, `WordsAgree`, `PagesPartition`, `TransactionsKeepMeaning`, `RumorsCount`, `AbiRoundTrips`, `MerkleRootBinds` |

Two runs show that the code does not do what its documentation or comments
say; TLC prints the behaviour:

| run | the text | what happens |
|---|---|---|
| LedgerConflict | "Another thread already committed this transaction. This will happen, which is ok." (`dapos_handshake.go:564`) | The lock on the hash excludes that. The conflict comes from *another* transaction on a common account; this one is dropped, with an `Ok` receipt in the cache. |
| GossipDuplicate | "Once a Delegate receives 2/3 of Delegate signatures" (`dapos/README.md:12`) | Two handlers append the same rumor; `gossipWorker` compares the length of the list, and two delegates of four pass for three. |

### Observations

Noted while translating; the models contain the behaviour, and where a property
would say the opposite it states the condition instead.

- A payment to a contract's address that commits while the contract is being
  deployed disappears: the contract's account is read by the DVM in one badger
  transaction and written by the ledger in another that has not read it
  (`dapos_handshake.go:454`). With t7 in `Tx` of LedgerContracts, TLC finds
  `SupplyConserved` violated; the theorems name the condition
  `ContractsUnfunded`. A deployment with a value credits the contract without
  debiting the sender.
- The merged gossip is cached but the *received* one goes to the worker
  (`dapos_transport_grpc.go:162`): with a delegate down, a delegate can hold two
  thirds of the rumors and never queue the transaction. `GossipEndsWell` is
  about gossips without failures for this reason.
- Of two racing submissions the second replaces the cached gossip of the first
  (`dapos_handshake.go:71-85`). A gossip that comes late writes its status over
  the receipt of an executed transaction; `ExecutedIsAnswered` says that nothing
  else does.
- `On` that looks at `happenedOnce` while `Raise` holds the same read lock may
  see the old value after `Raise` has gone through the list: the handler is
  never started. `GossipIsServed` excludes this one schedule by name
  ("overtaken"). The other order starts the handler twice.
- `opCall` opens a StateDB for the callee and commits it whatever the call
  returns (`instructions.go:922-936`), which writes the root it was opened on with
  what is left of the changes. So what a call back into the contract has
  committed meanwhile is undone by an outer call that fails, and overwritten by
  one that succeeds; and what nested calls have committed stays when the
  transaction fails. `FailuresLeaveNothing` says what is left: a failed call's
  own changes never reach the disk.
  Loading a state object sets its nonce to 0, so a nonce does not survive.
- `memBatch.Write` drops the error of each Put (`badger_wrapper.go:215-227`), and
  nobody looks at the Put of the root pointer (`implementation.go:120`). When Puts
  fail, a deployment is accepted with its state unwritten or without a pointer;
  `Database.Commit` takes nodes out of memory that are not on the disk; and a
  pointer that names a missing root makes every later call of that contract
  fail, until something writes the same node again. `CalledContractsExist`,
  `DiskClosed` and `ReferencedIsKept` name the lost writes and show that nothing
  else is missing.
- When the contract state cannot be written, `ExecuteSmartContract` returns
  `execError`, which is nil there, and the call is accepted
  (`dvm_api.go:276-299`). Two executions on one contract read the same root; the
  later commit wins.
- `TransactionPaging` reduces `totalCount` by the starting index and compares it
  with the absolute one: pages after a start end early. The from and to index
  keys lack the hash, so two transactions of one address in one millisecond
  share an entry.
- A copy of a database: when a receipt expires behind the reader, the page after
  it begins one key too late. The receipt or transaction that is skipped never
  arrives, so a balance may reflect a transaction that the copy does not know as
  executed, and a skipped genesis transaction makes the genesis step set its
  account again. Copied receipts of rejections lose their time to live. The root
  pointers of contracts are copied and the nodes they name are not, so that no
  contract can be called on the copy before it is written again. A peer that is
  copying itself answers with what it has, and an empty page ends the copy.
- `peerGossipGrpc` returns without marking the node when it gets no connection or
  cannot read the answer (`dapos_transport_grpc.go:172-176,198-202`), and the
  worker puts the gossip back: while the error lasts the gossip is retried
  without pause. `GossipEnds` is about errors that end.
- `Transaction.Hash` is documented as covering `Abi` and `Params`
  (`transaction.go:39`); `NewHash` leaves both out (`transaction.go:661,663`). Two
  calls that differ only in their parameters have one hash and one signature, so
  the second counts as the first. Nor are lengths hashed: code and method may be
  divided elsewhere. A receiver in upper-case digits has the hash of the
  lower-case one and is another account, since accounts are keyed by the string.
  `HashBinds` (in `TransactionsKeepMeaning`) says exactly what the hash binds.
- The execution rewrites `Abi` and `Params` before it persists the transaction
  (`dapos_handshake.go:429,474-475`), and `setTransients` decodes any abi that
  happens to be hexadecimal, also one of a transfer that nobody encoded.
- Parameters are converted at the delegate that takes a call and again where it
  is executed. JSON has made a list of an address and a string of a slice of
  uint8 by then, and the conversion panics (`abi_helper.go:38,46`) in a goroutine
  that does not recover. The submitting delegate may execute its own object,
  which no JSON has touched: there integers are refused, and bytes, slices and
  addresses panic. A short address panics at the first conversion
  (`crypto/common.go:103`); a bad base64 string is cut where it goes wrong, since
  `abi_helper.go:54` tests another variable. `AbiRoundTrips` says for which types
  each of these happens, and that all others come through unchanged.
- Authentications are cached by hash and looked up by address, so a repeated
  one is never refused. `hertz` is read from the field `type`. Accounts are found
  by name through a key that already has the prefix added again, so never.
  A seed that restarts tells nodes of the delegates in its cache only.
- `PriorityQueue.Peek` returns the priority of the last slot, not of the next
  item; `Dump` is in heap order. `VerifyContent` ignores the expected Merkle root.

### Bounds

`MaxEnqueue` 2: a transaction is queued, popped and queued again, or queued
twice at once; more repeats the same case, since the second entry already finds
whatever the first left. `MaxCrashes`, `MaxRestarts` 1: a crash at every point,
then a full second life. Two workers are what a second start of the event handler
gives; conflicts are between pairs. Three transfers are the fewest in which two
compete for the same tokens and a third depends on one of them. `Supply` 3 lets
exactly one of two payments of 2 succeed. Three delegates are the fewest for
which two thirds is neither one nor all; four make three of four the quorum that
a double rumor fakes. One call that fails does so at any point and in any of
three ways. Two nodes
beside the seed are a newcomer and one that has to be told of it. Pages
of three keys make the copy of up to twelve take four pages and an empty one, so
that the peer's commits and the expiry of a receipt fall before, into and after
each class of keys. `Past` says what the delegate may have executed earlier (nothing,
or genesis and a payment), `CopyPoints` where a peer may stand that copies itself:
in the middle, or at the end. `MaxFaults` 1 is one failed call, failed commit or
restart; the invariants were also checked with two (256,147 states), and TLC finds
each violated as soon as its condition on expired receipts is dropped.

Evm: the programs together execute every instruction class, run out of gas at
many places (four gas limits), overflow and underflow a stack of 12, recurse to
the depth limit of 3, call contracts that return, revert, fail and do not
exist, under `CALL`, `CALLCODE`, `DELEGATECALL`, `STATICCALL`, and create and
destroy contracts. Storage: three setters and two snapshots are enough for a
revert across a replaced object; the second trie contains one leaf twice, so
that a count of one too few deletes a node in use. `MaxLost` 2 bounds the nodes
that are lost at one time: a node and its parent, or two nodes of one world;
without the bound the invariants hold as well (859,998 states). Without the word
on lost nodes, each of the two invariants is violated.

Algorithms: heaps of up to 7 items (three levels, so sifting passes an inner
node) with 5 priorities; tries over three keys, two that part and one that
extends another, with a value that is embedded and one that is hashed, two
commits and one lost node; RLP values of every kind and all byte strings of up
to a few bytes over the boundary bytes, with lengths at 55 and 56; all pairs of
6-bit words; databases of up to 4 transactions with every page size; a mantissa of
3 bits, so that numbers past it occur; lists of up to 3 rumors, 4 times, 7
Merkle contents.

`CHECK_DEADLOCK FALSE` is set where all work may be done; Kmutex, Evm and
Algorithms never stop.

### Fairness

Every goroutine that can run is run by the Go scheduler: weak fairness of its
steps. In GossipQueue, pushes and pops compete for the `select` of
`WatchHeapOps`, which chooses at random among what is ready: strong fairness.
In Gossip weak fairness of the whole (`Progress`) is enough: some goroutine
that can run runs. Nobody is obliged to submit a transaction, to call `Lock`,
or to crash; in Ledger a crashed process is started again. In Synchronize the
failures are bounded, that is, the peer answers at last: the code asks the same
peer again for ever. In Gossip, too, the errors that do not mark a node end.
`QueueDrains` is about one worker, which is what a service that is started once
has: it says that no path of `executeTransaction` keeps the lock or the worker.
Of several workers that wait for one hash Kmutex promises only that somebody gets
it (`KeyIsGranted`); two workers with two transfers were also checked (33,208 states). `TimerFires` waits for the heap goroutine because the timer
lasts seconds and the heap operation microseconds. The runs without liveness
(Node, Evm, Storage, Algorithms) assume no fairness; what Node says of delegates
that know each other is about the states in which nothing is under way.

## 4. Proofs

All theorems hold for every value of the constants that satisfies the named
assumptions of the module (`TxAssumption`, `GenesisAssumption`,
`AccountAssumption`, `LedgerAssumption`, `GossipAssumption`, `SyncAssumption`,
`StartAssumption`, `StateAssumption`, `TrieAssumption`, and the `QueueAssumption` of GossipQueue and of
PriorityQueue), which TLC also evaluates. The assumptions say that constants
have their types, that the sets that are counted or summed are finite, and in
Synchronize that badger's order keeps the prefixes apart.

**KmutexProofs** - `TypeCorrect`, `KmutexMutualExclusion`, `KmutexNoLostWakeup`.
Mutual exclusion is not inductive alone: that a newcomer finds a key free must
mean nobody holds it, so the invariant contains `KeysMatchHolders`.

**LedgerProofs**

- `LedgerTypeCorrect`, `LedgerReceiptMatches` need no further condition;
  `LedgerImplementsSpec` (`Spec => LSpec`) and `LedgerNoOverdraft` hold under
  `ContractsUnfunded`: deployments carry no value and no transfer touches a
  contract's address. The inductive invariant is `TypeOK` with `Exclusive` (one
  worker inside per hash), `NotYetAccepted` (its transaction is not in the
  ledger), `ReadsAreCurrent` (what it has read is what the database holds,
  unless it is dirty), `StagedIsAffordable` and `GenesisFirst`. A commit either
  conflicts, which is a stuttering step of LedgerSpec, or was computed from
  current balances, which is `Accept`. `ReceiptMatchesLedger` needs
  `NotYetAccepted`: a rejection writes its receipt in a transaction of its own
  and must not overwrite an `Ok`.
- `LedgerCalledContractsExist` needs no condition: `DeploysAreWrittenOrLost` (a
  deployment that the DVM has answered has written its state, or lost a write
  that failed without an error), `FoundIsKnown`
  (a contract that a worker has found stays in the ledger) and `CallsAreKnown`
  are inductive together, because ledger, contract state and losses only grow.
- `LedgerCachedOkIsCommitted` is about one worker, which is what a service
  started once has. With two it is false, as LedgerConflict shows. With one,
  nobody else commits between its reads and its commit (`NothingDirty`), so
  that an `Ok` in the cache is followed by the commit or taken back.
- `LedgerSupplyConserved` follows from the refinement: `TokensAccounted` is an
  invariant of LedgerSpec. `Total` is a sum over a finite set, defined by
  recursion on subsets; the lemmas from `SumsDefined` to `SumOfMove` derive what
  it is for one account more, for equal balances and for a payment, each by
  looking at a smallest set for which it would fail.

**GossipQueueProofs**

- `QueueTypeCorrect`, `QueueTicksCover`, `QueueNeverPopsEmpty`,
  `QueueExistsHasReason`. The count of ticks and gossips needs to know that the
  gossip in the hands of the heap goroutine is one, not in the heap yet, with
  its timer running (`HandedIsOne`, `NotYetPushed`). That no pop finds the heap
  empty follows from the count.
- `EventsReachHandler`: once `On` and `Raise` have returned, the handler was
  started once or twice, except in the schedule called "overtaken". The
  invariant says where both are (`EventPhases`), that each starts the handler
  at most once (`StartsAtMost`), and that one of them has seen the other by the
  time `Raise` has gone through the list (`OneSawTheOther`).
- `StartImplements`: every step of ServiceStart is a step of the queue with all
  its workers and a step of the events, or stutters in them. `StartKeepsQueue`
  carries the three properties over to the composition, which is what the run
  checks.

**GossipProofs** - `GossipIsConsistent`, for any number of delegates, failures and
time-outs. That a delegate is noted as sent when the call to it returns rests on
which goroutine waits for which (`Calls`); that the author of a rumor has the
gossip, on a rumor being written only where its author caches the gossip in the
same step (`Known`), except in a submission that nobody else has seen
(`Starts`). `Objects`, `Threads` and `Caches` say which objects there are and who
refers to them; the append to an old slice header leaves them all true.

`GossipQuorum` (`Spec /\ []Undisturbed => []QueuedHasTwoThirds`): in a behaviour in
which no handler appends to a list that another one has compared with and is
about to append to, whatever is queued has the rumors of two thirds of the
delegates, each counted once. `Undisturbed` is what a lock around
`synchronizeGossip` would ensure and the code does not: without it the theorem is
false for four delegates (run GossipDuplicate), so the theorem says that this
race is the only way to pass too few delegates for enough. The invariant `QInv`
says that every list names an author once (`Singles`), so its length is the number
of its authors; that what a handler found missing is not in what it compared
with (`AllFine`); and that between the count and the push a list only grows.
TLC checked `QInv` on the run's instance first.

`GossipReachesUp` and `GossipEveryoneLearns`: as long as no call is given up, every
delegate that is up either has the gossip or some goroutine is going to bring it
(`Spreads`): one that has not started its loop, one that has the delegate still in
its loop, or one at that delegate that has not cached yet (`Brings`). Each step
either keeps the goroutine that brings it or hands over to the one it starts. So
delegates that are down keep nobody else from learning, and when the last
goroutine has ended everybody that is up has the gossip. TLC checked `LInv`
first as well.

**NodeProofs**, on Receipts - `ReceiptsDroppedOnlyIfForgotten`: a delegate that has
forgotten nothing and caches no receipt has not got past the first look-ups of
any message (`NothingWithoutReceipt`), so what is queued has its receipt.
`ReceiptsExecutedIsAnswered`: the lock on the hash (`OneExecutes`,
`ExecutesOnce`, `WorkHoldsReceipt`) makes the receipt that was staged the cached
one until the commit and after it (`StagedIsCached`, `CommittedIsCached`), and
badger has it from then on (`ReceiptWithTransaction`).

**NodeProofs**, on Disgover - `DisgoverInTouch`. `DelegatesInTouch` is about moments in
which the seed is quiet; what is inductive is what the seed still owes (`Owed`):
two delegates that have joined know each other, or the call about it failed, or
a goroutine of `peerUpdateGrpc` will make it. That a goroutine that has not read
the cache yet will find both there is `SeedRemembers`. `MarksOthers`,
`CallsListed`, `OnePing` and `KnowsItself` are the facts each step needs.

**SynchronizeProofs** - `SynchronizeComplete`, `SynchronizeConsistent`, for any
contents, page size and order within the prefixes. A key that the peer inserts
moves keys to later places, never to earlier ones. A receipt that expires moves
the keys after it to earlier ones: those are receipts and transactions, and if
it had not been read yet, neither had they. So as long as no receipt expired
behind the reader (`shifted`), every key of the beginning at a place below `index`
has been read (`Complete`), and a transaction that a copied secondary key or
balance speaks of is read, too, since it sorts after both (`Followed`). Once one
has, `Complete` still holds of what sorts before all receipts. `AtEnd` is what this
means when a page comes back empty.

**PriorityQueueProofs** - `HeapImplementsQueue` (`Spec => MinQueueSpec`), for any
priorities and any length. `up` and `down` are iterations of `upOnce` and
`downOnce`, which are recursive functions on numbers; `Induction` gives
what holds after each exchange: `UpOrder` and `DownOrder`, heap order except at
the one place that is on its way, with its parent in order with its children.
After as many steps as there are items nothing is left to do (`AtRest`,
`Settled`). The refinement to a bag compares, per priority, the number of places
that have it; an exchange does not change it. `FixFacts` joins both directions
for `Update`; `RootIsOldest` makes what `Pop` takes a least one.

**StorageProofs**, on StateDB - `StateDBCoherent` (`StateCoherent`) and `StateDBAnswers`
(`AnswersKept`: the refinement of StateSpec, and what Commit writes), for any
accounts, keys and values and any number of setters, snapshots, reverts and
transactions. The difficulty is that undoing the journal does not bring back
the objects: accounts stay loaded, slots stay cached and become dirty. What
comes back is what the getters answer (`View`), and that is what the argument is
about:

- undoing an entry changes the answers by a function of the answers and the
  entry alone (`ViewUndo`, lemma `UndoFacts`, one lemma per kind of entry);
- so a StateDB has a history `h`, where `h[n]` is what it answers when all entries
  after the first `n` are undone and `h[Len(entries)]` what it answers now
  (`Journal`, with the entries well formed, the counters those of the journal and
  `Clean`: an account no entry has changed answers what the trie says);
- `RevertIs`: `revert(d, n)` answers `h[n]`, by induction on the entries undone, and
  the history of the result is the beginning of `h`;
- every setter makes the history longer and changes nothing that was there
  (`Grow`, one lemma per setter), so the copies that the open snapshots stand for
  stay the same (`SetterStep`, `SnapshotStep`, `RevertStep`).

The invariant `IInv` says that while the EVM works there is such a history, that
snapshots lie in it in order, and that no snapshot lies just after the reset of
an account (`Settled`, `RevisionsOK`): `resetObjectChange` counts for no account, so
`Clean` is false there, and the theorem rests on `evm.create` setting the nonce
in the same step. After `IntermediateRoot` and `Commit` it says that an object
that is not to be written agrees with the trie and that a deleted one is
suicided or empty (`Good`), which is what makes `Commit` write the answers. The
invariant speaks of a history that exists, so TLC cannot evaluate it; the two
properties it implies are what the run Storage checks.

**StorageProofs**, on TrieDatabase - `StorageDiskClosed` (`DiskSpec => []DiskClosed`) and
`StorageReferencedIsKept` (`DiskSpec => []ReferencedIsKept`), for any nodes, worlds,
number of helpers, `Dereference`s, `Cap`s and crashes. The invariant (`DiskInv`) says
of every Database that it is `Intact` for the nodes `D` that are on the disk or
were lost in a Put that failed (`Supposed`): the code treats both alike, since
nobody learns of the failure. A batch adds its nodes to `D` whatever fails
(`PutAllIs`), and `D` refers to nothing outside of itself (`SupposedClosed`), which
is `DiskClosed` and what `RootsAreKept` needs. Below, "on the disk" stands for `D`:

- `Whole`: what a cached node needs is on the disk, or cached and older; and a
  storage root or code it needs is on the disk or among its `children`, because
  `ready` (the order in which `commit` writes) looks at `children` and at the hashes
  inside the node, not at the account. So whatever is written has all it needs
  on the disk.
- `Counted`: a cached node that is not on the disk has at least as many parents as
  it has uses by cached nodes (a child that occurs twice is used twice) and
  references of the meta root. It may have more, since `uncache` and `Cap` do not
  count down when a parent leaves; and a node on the disk may have fewer, since
  `reference` counts only what is cached, and such a node may be inserted again.
  So only what nothing needs, or what the disk holds, reaches zero.
- `Ranked`: each node has a rank, and the flush-list runs through exactly the
  cached nodes by rank, both ways. Ranks stay when nodes leave, so "older than
  what needs it" survives `unlink`, whichever of its three cases applies, and the n
  oldest nodes that `Cap` writes need nothing that stays behind.

`Intact` has a third argument, the references still to be given up: while
`dereference` runs, a deleted node no longer uses its children, and its calls for
them are still to come (`Due`, the induction over the calls of `dereference`).
`UncacheOnceIs`, `PassedIs` and `IntactCapped` are the inductions for `uncache`, `Oldest`
and `Cap`, and `BelowClosed` leads from one node's needs to everything below a root.
TLC cannot evaluate `Ranked`, whose ranks exist; it was checked with the
flush-list itself as the ranks, for two helpers, and for one helper with four
calls and four openings, before it was proved. That `Visits` is never reached is
not proved: the theorems hold of `dereference` and `uncache` cut off anywhere.

`KeysMatchHolders`, `NoOverdraft`, `TicksCoverQueue`, the inductive invariants and
some of the type invariants are proved and are not part of a run.

Model-checked only:

- everything under fairness (`KeyIsGranted`, `QueueDrains`, `GossipIsServed`,
  `GossipEnds`, `StartsAtLast`), since the prover does not treat liveness;
- `QueuedHasTwoThirds` without the condition of `GossipQuorum`: the race of
  GossipDuplicate makes it false in general; it holds for the three delegates of
  the run, where a list that has one rumor twice still names two of the three;
- of `GossipEndsWell`, `VerdictReached` and `AcceptedByAll`, which compare the
  rumors that meet at the end (`EveryoneLearns` is proved);
- what RECURSIVE operators compute (tries, RLP, ABI, Merkle tree), for which the
  prover loses its SMT solver; Evm, which uses Bitwise; and what is folded over
  sequences of data (Paging, Validation).


## 5. What is not modelled, and the plan

Simplifications inside the modelled parts: hashes and signatures are ideal (a
hash is what it hashes, a signature names its author and what was signed); the
channels of 1000 entries never fill up; `delegateMap` is read and written
without a lock, and only its contents before or after a write are considered;
in Disgover a node has one ping under way; in Receipts the times to live pass
only when nothing is being worked on; the generation counter of the trie does
not wrap at 2^16; preimages, byte sizes and `verifyIntegrity` of the trie
database, leaf proofs of iterators and the dumps are left out; hash functions and
curve operations of the precompiled contracts return an arbitrary fixed answer.

Not modelled: cryptography (third-party); HTTP and gRPC servers and the
connection pool (transport: a call is a delivery, a failure or a time-out);
SDK and local API (clients of the API without state); the transaction and
receipt queues (variants of GossipQueue no service uses); parsing of ABI
definitions, events and method identifiers, and copying into Go structures by
reflection; tracing and logging; the packages of the go-ethereum fork that no
service reaches (bloom filters, in-memory databases, `statedb_bak.go`, bindings).

Plan:

1. Theorems: the arithmetic of paging (`PagesPartition`).
2. Gossip with restarts and small channel capacities.
3. Two executions on one contract with the EVM in between.
