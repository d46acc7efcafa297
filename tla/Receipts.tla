------------------------------ MODULE Receipts ------------------------------
(***************************************************************************)
(* What one delegate answers about one transaction while gossips about it    *)
(* arrive, time out, are queued and executed, again and again: the cached    *)
(* receipt, gossip and transaction of dapos_handshake.go, the receipt in     *)
(* Badger, their times to live, restarts, and the answers of dapos_api.go.   *)
(*                                                                         *)
(* The cache holds pointers.  A gossip object is the message it came with;   *)
(* a receipt object is named by the message and the code that made it, and   *)
(* is changed in place by whoever still holds it.  The transaction is valid; *)
(* which peers are left to be told, how far the times of rumors are apart    *)
(* and whether the accounts suffice are choices.  Time passes, for the times  *)
(* to live of minutes and days, when no message is being worked on.          *)
(***************************************************************************)
EXTENDS Naturals, FiniteSets

CONSTANTS
  Received,     \* gossips other delegates send
  Submission,   \* submissions of the transaction
  Self, Peer,   \* this delegate and the others
  Workers,      \* transactionWorkers: two when the start event came twice
  IsBookkeeper, \* the configuration: does this delegate execute?
  MaxRestarts   \* bound: restarts of the process

VARIABLES
  pc,           \* per message: where the code that handles it is
  rumors,       \* per gossip object: who has signed
  target,       \* per message: the gossip object its handler works on
  then,         \* per message: what follows when its handler is done
  status,       \* per receipt object: its status
  held,         \* per message: the receipt object its execution holds
  cachedGossip, cachedReceipt, cachedTransaction,
  dbTransaction, dbReceipt,
  rumored,      \* the rumor of this delegate has been sent to others
  restarts,
  forgot,       \* history: a cached receipt was lost, in a restart or to its age
  touched       \* history: the receipt was written since an execution staged it

receiptVars ==
  <<pc, rumors, target, then, status, held, cachedGossip, cachedReceipt, cachedTransaction,
    dbTransaction, dbReceipt, rumored, restarts, forgot, touched>>

Message == Received \cup Submission
Delegate == Peer \cup {Self}
None == "none"
Receipt == Message \X {"first", "work"}
NoReceipt == <<None, None>>

ReceiptsInit ==
  /\ pc = [m \in Message |-> "new"]
  /\ rumors = [m \in Message |-> {}]
  /\ target = [m \in Message |-> m]
  /\ then = [m \in Message |-> "gossipChan"]
  /\ status = [r \in Receipt |-> None]
  /\ held = [m \in Message |-> NoReceipt]
  /\ cachedGossip = None /\ cachedReceipt = NoReceipt /\ cachedTransaction = FALSE
  /\ dbTransaction = FALSE /\ dbReceipt = None
  /\ rumored = FALSE /\ restarts = 0 /\ forgot = FALSE /\ touched = FALSE

\* What stays the same in groups.
database == <<dbTransaction, dbReceipt>>
caches == <<cachedGossip, cachedReceipt, cachedTransaction>>
histories == <<rumored, restarts, forgot>>
handling == <<rumors, target, then>>
receipts == <<status, held, touched>>

Goto(m, l) == pc' = [pc EXCEPT ![m] = l]

-----------------------------------------------------------------------------
(* Submissions and received gossips.                                       *)

\* startGossiping: known in Badger or in the cache, or the first rumor.  The
\* look-up and the caching below are separate steps.
Submit(m) ==
  /\ pc[m] = "new" /\ m \in Submission
  /\ IF dbTransaction \/ cachedTransaction THEN Goto(m, "done") /\ UNCHANGED rumors
     ELSE Goto(m, "first") /\ rumors' = [rumors EXCEPT ![m] = {Self}]
  /\ UNCHANGED <<target, then, receipts, caches, database, histories>>

\* synchronizeGossip looks for our gossip in the cache.
Look(m) ==
  /\ pc[m] = "new" /\ m \in Received
  /\ \E signers \in SUBSET Delegate :
       /\ signers \cap Peer # {} /\ (Self \in signers => rumored)
       /\ rumors' = [rumors EXCEPT ![m] = signers]
  /\ target' = [target EXCEPT ![m] = IF cachedGossip = None THEN m ELSE cachedGossip]
  /\ Goto(m, "merge")
  /\ UNCHANGED <<then, receipts, caches, database, histories>>

\* Variant of Merge: a gossip seen for the first time is cached before its
\* receipt.
MergePublishing(m) ==
  LET t == target[m]
      merged == rumors[t] \cup rumors[m]
  IN  /\ pc[m] = "merge"
      /\ rumors' = [rumors EXCEPT ![t] = merged \cup {Self}]
      /\ cachedGossip' = t
      /\ \E last \in rumors[m] :
           then' = [then EXCEPT ![m] = IF t # m /\ last \in rumors[t] THEN "done" ELSE "gossipChan"]
      /\ Goto(m, IF Self \in merged THEN then'[m] ELSE "first")
      /\ UNCHANGED <<target, receipts, cachedReceipt, cachedTransaction, database, histories>>

\* Our gossip takes over the rumors.  hasAll is about the last rumor of the
\* list alone.  Without our own rumor it is the first time we see the gossip.
Merge(m) ==
  LET t == target[m]
      merged == rumors[t] \cup rumors[m]
  IN  /\ pc[m] = "merge"
      /\ rumors' = [rumors EXCEPT ![t] = merged \cup {Self}]
      /\ \E last \in rumors[m] :
           then' = [then EXCEPT ![m] = IF t # m /\ last \in rumors[t] THEN "done" ELSE "gossipChan"]
      /\ Goto(m, IF Self \in merged THEN then'[m] ELSE "first")
      /\ UNCHANGED <<target, receipts, caches, database, histories>>

\* cacheOnFirstReceive: a new receipt, the gossip, the transaction, and then
\* the calls to the other delegates.
CacheReceipt(m) ==
  /\ pc[m] = "first" /\ Goto(m, "cacheGossip")
  /\ status' = [status EXCEPT ![<<m, "first">>] = "Pending"]
  /\ cachedReceipt' = <<m, "first">> /\ touched' = TRUE
  /\ UNCHANGED <<handling, held, cachedGossip, cachedTransaction, database, histories>>

CacheGossip(m) ==
  /\ pc[m] = "cacheGossip" /\ Goto(m, "cacheTransaction")
  /\ cachedGossip' = target[m]
  /\ UNCHANGED <<handling, receipts, cachedReceipt, cachedTransaction, database, histories>>

CacheTransaction(m) ==
  /\ pc[m] = "cacheTransaction" /\ Goto(m, "calls")
  /\ cachedTransaction' = TRUE /\ rumored' = TRUE
  /\ UNCHANGED <<handling, receipts, cachedReceipt, cachedGossip, database, restarts, forgot>>

Called(m) ==
  /\ pc[m] = "calls" /\ Goto(m, then[m])
  /\ UNCHANGED <<handling, receipts, caches, database, histories>>

-----------------------------------------------------------------------------
(* gossipWorker.                                                           *)

\* updateReceiptStatus: the object in the cache, whatever it says.
updateReceiptStatus(s) ==
  IF cachedReceipt = NoReceipt THEN UNCHANGED <<status, touched>>
  ELSE status' = [status EXCEPT ![cachedReceipt] = s] /\ touched' = TRUE

TwoThirds(m) == 3 * Cardinality(rumors[m]) >= 2 * Cardinality(Delegate)

TimedOut(m) ==
  /\ pc[m] = "gossipChan" /\ Cardinality(rumors[m]) > 1
  /\ updateReceiptStatus("GossipingTimedOut") /\ Goto(m, "done")
  /\ UNCHANGED <<handling, held, caches, database, histories>>

\* Exists and Push are two steps.
Accept(m) ==
  /\ \/ pc[m] = "gossipChan" /\ TwoThirds(m)
        /\ Goto(m, IF \E q \in Message : pc[q] = "queued" THEN "done" ELSE "push")
     \/ pc[m] = "push" /\ Goto(m, "queued")
  /\ UNCHANGED <<handling, receipts, caches, database, histories>>

\* Too few rumors: another delegate is told, or nobody is left.  A call that
\* fails puts the gossip back and changes nothing here.
TellOther(m) ==
  /\ pc[m] = "gossipChan" /\ ~ TwoThirds(m) /\ Goto(m, "done")
  /\ UNCHANGED <<handling, receipts, caches, database, histories>>

NobodyLeft(m) ==
  /\ pc[m] = "gossipChan" /\ ~ TwoThirds(m) /\ Goto(m, "done")
  /\ cachedGossip' = m /\ updateReceiptStatus("CouldNotReachConsensus")
  /\ UNCHANGED <<handling, held, cachedReceipt, cachedTransaction, database, histories>>

-----------------------------------------------------------------------------
(* transactionWorker: doWork and executeTransaction.                        *)

AtWork == {m \in Message : pc[m] \in {"lock", "execute", "commit"}}

\* A receipt made by doWork replaces the cached one.
Replaced(m, s) ==
  /\ status' = [status EXCEPT ![<<m, "work">>] = s]
  /\ cachedReceipt' = <<m, "work">> /\ touched' = TRUE
  /\ Goto(m, "done") /\ UNCHANGED held

\* The receipt is gone, the first rumor came too late, or the work begins.
doWork(m) ==
  /\ pc[m] = "queued" /\ Cardinality(AtWork) < Workers
  /\ \/ cachedReceipt = NoReceipt /\ Replaced(m, "ReceiptNotFound")
     \/ cachedReceipt # NoReceipt /\ Replaced(m, "TransactionTimeOut")
     \/ /\ cachedReceipt # NoReceipt
        /\ held' = [held EXCEPT ![m] = cachedReceipt]
        /\ Goto(m, IF IsBookkeeper THEN "lock" ELSE "done") /\ UNCHANGED <<status, touched, cachedReceipt>>
  /\ UNCHANGED <<handling, cachedGossip, cachedTransaction, database, histories>>

\* The lock on the hash, and the look-up: executed before, nothing is done.
Begin(m) ==
  /\ pc[m] = "lock" /\ \A q \in Message : pc[q] \notin {"execute", "commit"}
  /\ Goto(m, IF dbTransaction THEN "done" ELSE "execute")
  /\ UNCHANGED <<handling, receipts, caches, database, histories>>

\* An error: the receipt held is changed, and cached again.
Fail(m) ==
  /\ pc[m] \in {"execute", "commit"} /\ Goto(m, "done")
  /\ status' = [status EXCEPT ![held[m]] = "InternalError"]
  /\ cachedReceipt' = held[m] /\ touched' = TRUE
  /\ UNCHANGED <<handling, held, cachedGossip, cachedTransaction, database, histories>>

\* A rejection: the receipt held is changed, and written to Badger for a while;
\* an error of that write is only logged.
Reject(m) ==
  /\ pc[m] = "execute" /\ Goto(m, "done")
  /\ \E s \in {"InternalError", "InsufficientTokens"} :
       status' = [status EXCEPT ![held[m]] = s] /\ dbReceipt' \in {s, dbReceipt}
  /\ touched' = TRUE
  /\ UNCHANGED <<handling, held, caches, dbTransaction, histories>>

\* Variant of Stage: the receipt held is not cached again.
StageUncached(m) ==
  /\ pc[m] = "execute" /\ Goto(m, "commit")
  /\ status' = [status EXCEPT ![held[m]] = "Ok"] /\ touched' = FALSE
  /\ cachedGossip' = m
  /\ UNCHANGED <<handling, held, cachedReceipt, cachedTransaction, database, histories>>

\* Receipt.Set and Gossip.Set: cached before the commit.
Stage(m) ==
  /\ pc[m] = "execute" /\ Goto(m, "commit")
  /\ status' = [status EXCEPT ![held[m]] = "Ok"] /\ touched' = FALSE
  /\ cachedReceipt' = held[m] /\ cachedGossip' = m
  /\ UNCHANGED <<handling, held, cachedTransaction, database, histories>>

\* Commit succeeds, or meets a conflict and nothing is said.
Commit(m) ==
  /\ pc[m] = "commit" /\ Goto(m, "done")
  /\ \/ dbTransaction' = TRUE /\ dbReceipt' = "Ok"
     \/ UNCHANGED database
  /\ UNCHANGED <<handling, receipts, caches, histories>>

-----------------------------------------------------------------------------
(* Restarts, and what is lost to its age.                                   *)

Restart ==
  /\ restarts < MaxRestarts /\ restarts' = restarts + 1
  /\ pc' = [m \in Message |-> IF pc[m] = "new" THEN "new" ELSE "done"]
  /\ cachedGossip' = None /\ cachedReceipt' = NoReceipt /\ cachedTransaction' = FALSE
  /\ forgot' = TRUE
  /\ UNCHANGED <<handling, receipts, database, rumored>>

NobodyWorks == \A m \in Message : pc[m] \in {"new", "done"}

\* GossipCacheTTL, 5 minutes.
GossipExpires ==
  /\ NobodyWorks /\ cachedGossip # None /\ cachedGossip' = None
  /\ UNCHANGED <<pc, handling, receipts, cachedReceipt, cachedTransaction, database, histories>>

\* TransactionCacheTTL and ReceiptCacheTTL, 48 hours; the receipt is cached with
\* the transaction, or again later.
TransactionExpires ==
  /\ NobodyWorks /\ cachedGossip = None /\ cachedTransaction /\ cachedTransaction' = FALSE
  /\ UNCHANGED <<pc, handling, receipts, cachedReceipt, cachedGossip, database, histories>>

ReceiptExpires ==
  /\ NobodyWorks /\ cachedGossip = None /\ ~ cachedTransaction /\ cachedReceipt # NoReceipt
  /\ cachedReceipt' = NoReceipt /\ forgot' = TRUE
  /\ UNCHANGED <<pc, handling, receipts, cachedTransaction, cachedGossip, database, rumored, restarts>>

\* SetWithTTL: rejections only.
DbReceiptExpires ==
  /\ NobodyWorks /\ cachedGossip = None /\ dbReceipt \notin {None, "Ok"} /\ dbReceipt' = None
  /\ UNCHANGED <<pc, handling, receipts, caches, dbTransaction, histories>>

ReceiptsNext ==
  \/ \E m \in Message :
       \/ Submit(m) \/ Look(m) \/ Merge(m) \/ CacheReceipt(m) \/ CacheGossip(m) \/ CacheTransaction(m) \/ Called(m)
       \/ TimedOut(m) \/ Accept(m) \/ TellOther(m) \/ NobodyLeft(m)
       \/ doWork(m) \/ Begin(m) \/ Fail(m) \/ Reject(m) \/ Stage(m) \/ Commit(m)
  \/ Restart \/ GossipExpires \/ TransactionExpires \/ ReceiptExpires \/ DbReceiptExpires

ReceiptsSpec == ReceiptsInit /\ [][ReceiptsNext]_receiptVars

-----------------------------------------------------------------------------
(* dapos_api.go and the properties.                                        *)

\* The status in the cache, else the one in Badger.
GetReceipt ==
  CASE cachedReceipt # NoReceipt -> status[cachedReceipt]
    [] cachedReceipt = NoReceipt /\ dbReceipt # None -> dbReceipt
    [] OTHER -> "NotFound"

\* Badger, else the cache.
GetTransaction == dbTransaction \/ cachedTransaction

\* A queued transaction finds its receipt, however handlers, workers and
\* submissions interleave: only a delegate that has lost a cached receipt
\* drops it as ReceiptNotFound.
DroppedOnlyIfForgotten == ~ forgot => \A r \in Receipt : status[r] # "ReceiptNotFound"

\* Once executed, a transaction is never unknown again, whatever expires and
\* whenever the process restarts.
ExecutedStaysKnown == dbTransaction => GetTransaction /\ GetReceipt # "NotFound"

\* The answer about an executed transaction is Ok unless something has written
\* its receipt after the execution staged it: a gossip that was late, found
\* nobody left, or came when the cached one was gone.
AnswerOfExecution == dbTransaction /\ ~ touched => GetReceipt = "Ok"

\* Both: what GetReceipt and GetTransaction owe an executed transaction.
ExecutedIsAnswered == ExecutedStaysKnown /\ AnswerOfExecution
=============================================================================
