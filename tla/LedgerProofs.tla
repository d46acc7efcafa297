---------------------------- MODULE LedgerProofs ----------------------------
(***************************************************************************)
(* Ledger implements LedgerSpec, for any transactions, accounts, workers   *)
(* and bounds: executeTransaction over optimistic transactions behaves as  *)
(* if transactions were accepted one at a time on the current balances.    *)
(*                                                                         *)
(* The inductive invariant says what a worker inside executeTransaction    *)
(* may rely on: nobody else is inside with the same hash (Exclusive), its  *)
(* transaction is not in the ledger (NotYetAccepted), what it has read is  *)
(* current unless it is marked dirty (ReadsAreCurrent), and what it has    *)
(* staged was affordable on what it has read (StagedIsAffordable).  A      *)
(* deployment also writes the account of its contract, which it has not    *)
(* read in the same badger transaction: the refinement needs that account  *)
(* to be empty (ContractsEmpty, from the condition ContractsUnfunded).     *)
(*                                                                         *)
(* That tokens are conserved follows from the refinement and from what a   *)
(* sum over a finite set is.                                               *)
(***************************************************************************)
EXTENDS Ledger, FiniteSetTheorems, TLAPS

\* services.Lock admits one worker per hash.
Exclusive ==
  \A v, w \in Worker : v # w /\ Inside(v) /\ Inside(w) => cur[v] # cur[w]

\* Nobody accepts a transaction while a worker is inside with its hash.
NotYetAccepted == \A w \in Worker : Inside(w) => cur[w] \notin ledger

\* A badger transaction that will not conflict has read current balances.
ReadsAreCurrent ==
  \A w \in Worker : Inside(w) /\ w \notin dirty =>
    /\ readFrom[w] = bal[From[cur[w]]]
    /\ readTo[w] = bal[To[cur[w]]]

\* What is about to be committed passed the checks of the switch.
StagedIsAffordable ==
  \A w \in Worker :
    /\ pc[w] = "applied" => Kind[cur[w]] \in {"deploy", "execute"}
    /\ pc[w] = "commit" => /\ Kind[cur[w]] # "other"
                           /\ Kind[cur[w]] = "transfer" => readFrom[w] >= Value[cur[w]]

\* Workers run only in a process that has written the genesis transaction.
GenesisFirst ==
  /\ up => genesis
  /\ \A w \in Worker : pc[w] # "idle" => up

IInv ==
  /\ TypeOK
  /\ Exclusive
  /\ NotYetAccepted
  /\ ReadsAreCurrent
  /\ StagedIsAffordable
  /\ GenesisFirst

\* The initial states satisfy the invariant.
LEMMA InitIInv == Init => IInv
<1> SUFFICES ASSUME Init
             PROVE  IInv
  OBVIOUS
<1> USE DEF Init, SpecInit, Idle
<1>1. TypeOK
  <2>1. /\ bal \in [Account -> Int] /\ readFrom \in [Worker -> Int] /\ readTo \in [Worker -> Int]
        /\ contractBal \in [Worker -> Int]
    OBVIOUS
  <2>2. queue \in [Tx -> Nat] /\ enqueued \in [Tx -> Nat] /\ evm \subseteq Tx /\ lost \subseteq Tx
    OBVIOUS
  <2>3. rcptCache \in [Tx -> Status] /\ rcptDb \in [Tx -> Status]
    BY DEF Status
  <2>4. pc \in [Worker -> PC]
    BY DEF PC
  <2> QED
    BY <2>1, <2>2, <2>3, <2>4 DEF TypeOK
<1>2. \A w \in Worker : pc[w] = "idle"
  OBVIOUS
<1>3. Exclusive /\ NotYetAccepted /\ ReadsAreCurrent
  BY <1>2 DEF Exclusive, NotYetAccepted, ReadsAreCurrent, Inside
<1>4. StagedIsAffordable /\ GenesisFirst
  BY <1>2 DEF StagedIsAffordable, GenesisFirst
<1> QED
  BY <1>1, <1>3, <1>4 DEF IInv

\* Every step keeps every variable in its type.
LEMMA StepTypeOK == TypeOK /\ [Next]_vars => TypeOK'
<1> SUFFICES ASSUME TypeOK, [Next]_vars
             PROVE  TypeOK'
  OBVIOUS
<1> USE TxAssumption, GenesisAssumption, LedgerAssumption
    DEF TypeOK, Status, PC, contractState, db, volatile, reads, bounds, Goto
<1>1. CASE Boot
  BY <1>1 DEF Boot
<1>2. CASE Crash
  <2>1. queue' \in [Tx -> Nat] /\ crashes' \in Nat
    BY <1>2 DEF Crash
  <2>2. rcptCache' \in [Tx -> Status] /\ pc' \in [Worker -> PC]
    BY <1>2 DEF Crash
  <2>3. /\ readFrom' \in [Worker -> Int] /\ readTo' \in [Worker -> Int]
        /\ contractBal' \in [Worker -> Int]
    BY <1>2 DEF Crash
  <2> QED
    BY <1>2, <2>1, <2>2, <2>3 DEF Crash
<1>3. ASSUME NEW t \in Tx, FirstReceive(t) \/ Enqueue(t)
      PROVE  TypeOK'
  BY <1>3 DEF FirstReceive, Enqueue
<1>4. ASSUME NEW w \in Worker, DoWork(w)
      PROVE  TypeOK'
  <2>1. PICK t \in Tx : /\ queue[t] > 0
                        /\ queue' = [queue EXCEPT ![t] = @ - 1]
                        /\ \/ /\ rcptCache' = [rcptCache EXCEPT ![t] = "ReceiptNotFound"]
                              /\ UNCHANGED <<pc, cur>>
                           \/ /\ rcptCache' = [rcptCache EXCEPT ![t] = "TransactionTimeOut"]
                              /\ UNCHANGED <<pc, cur>>
                           \/ UNCHANGED <<rcptCache, pc, cur>>
                           \/ /\ pc' = [pc EXCEPT ![w] = "locking"]
                              /\ cur' = [cur EXCEPT ![w] = t]
                              /\ UNCHANGED rcptCache
    BY <1>4 DEF DoWork, HasAvailable
  <2>2. queue' \in [Tx -> Nat]
    BY <2>1
  <2>3. rcptCache' \in [Tx -> Status] /\ pc' \in [Worker -> PC] /\ cur' \in [Worker -> Tx]
    BY <2>1
  <2> QED
    BY <1>4, <2>2, <2>3 DEF DoWork
<1>5. ASSUME NEW w \in Worker, Begin(w)
      PROVE  TypeOK'
  BY <1>5 DEF Begin, ContractKnown
<1>6. ASSUME NEW w \in Worker, ReadFails(w) \/ Transfer(w) \/ UnknownType(w)
      PROVE  TypeOK'
  <2>1. CASE ReadFails(w)
    BY <2>1 DEF ReadFails, Fail, Reject
  <2>2. CASE Transfer(w) \/ UnknownType(w)
    BY <2>2 DEF Transfer, UnknownType, Reject, Stage
  <2> QED
    BY <1>6, <2>1, <2>2
<1>7. ASSUME NEW w \in Worker, RunContract(w)
      PROVE  TypeOK'
  <2>1. contractBal' \in [Worker -> Int]
    BY <1>7 DEF RunContract, RunFails, DeploySmartContract, ExecuteSmartContract,
       WriteContract, ChangeContract, Fail
  <2>2. evm' \subseteq Tx /\ lost' \subseteq Tx
    BY <1>7 DEF RunContract, RunFails, DeploySmartContract, ExecuteSmartContract,
       WriteContract, ChangeContract
  <2>3. pc' \in [Worker -> PC] /\ rcptCache' \in [Tx -> Status]
    BY <1>7 DEF RunContract, RunFails, DeploySmartContract, ExecuteSmartContract,
       WriteContract, ChangeContract, Fail
  <2> QED
    BY <1>7, <2>1, <2>2, <2>3 DEF RunContract, RunFails, DeploySmartContract,
       ExecuteSmartContract, WriteContract, ChangeContract, Fail
<1>8. ASSUME NEW w \in Worker, ContractResult(w) \/ PersistFails(w)
      PROVE  TypeOK'
  BY <1>8 DEF ContractResult, PersistFails, Fail, Stage
<1>9. ASSUME NEW w \in Worker, Commit(w)
      PROVE  TypeOK'
  <2>1. bal' \in [Account -> Int]
    <3> DEFINE created == IF Kind[cur[w]] = "deploy"
                          THEN [bal EXCEPT ![ContractOf[cur[w]]] = contractBal[w]] ELSE bal
    <3>1. created \in [Account -> Int]
      OBVIOUS
    <3>2. UNCHANGED bal \/ \E x, y \in Int :
            bal' = [created EXCEPT ![From[cur[w]]] = x, ![To[cur[w]]] = y]
      BY <1>9 DEF Commit
    <3> QED
      BY <3>1, <3>2
  <2>2. dirty' \subseteq Worker
    BY <1>9 DEF Commit
  <2>3. ledger' \subseteq Tx /\ rcptDb' \in [Tx -> Status]
    BY <1>9 DEF Commit
  <2> QED
    BY <1>9, <2>1, <2>2, <2>3 DEF Commit
<1>10. CASE UNCHANGED vars
  BY <1>10 DEF vars
<1> QED
  BY <1>1, <1>2, <1>3, <1>4, <1>5, <1>6, <1>7, <1>8, <1>9, <1>10 DEF Next, Execute

\* A worker that leaves executeTransaction without committing, or that only
\* enters it, disturbs nobody: this is all the proof needs to know of a step
\* in which worker w ends outside, or still inside on what it had read.
QuietStep(w) ==
  /\ UNCHANGED <<genesis, ledger, bal, reads, dirty, up>>
  /\ \A v \in Worker : v # w => pc'[v] = pc[v] /\ cur'[v] = cur[v]
  /\ Inside(w)' => Inside(w) /\ cur'[w] = cur[w]
  /\ pc'[w] # "idle" => up
  /\ pc'[w] = "applied" => Kind[cur[w]] \in {"deploy", "execute"}
  /\ pc'[w] = "commit" => /\ Kind[cur[w]] # "other"
                          /\ Kind[cur[w]] = "transfer" => readFrom[w] >= Value[cur[w]]

\* A quiet step preserves the invariant.
LEMMA QuietIInv ==
  ASSUME IInv, TypeOK', NEW w \in Worker, QuietStep(w)
  PROVE  IInv'
<1> USE DEF IInv, QuietStep
<1>1. \A v \in Worker : Inside(v)' => Inside(v) /\ cur'[v] = cur[v]
  BY DEF Inside
<1>2. Exclusive'
  BY <1>1 DEF Exclusive
<1>3. NotYetAccepted'
  BY <1>1 DEF NotYetAccepted
<1>4. ReadsAreCurrent'
  BY <1>1 DEF ReadsAreCurrent, reads
<1>5. StagedIsAffordable'
  <2>1. ASSUME NEW v \in Worker, pc'[v] \in {"applied", "commit"}
        PROVE  cur'[v] = cur[v] /\ readFrom'[v] = readFrom[v]
    BY <1>1, <2>1 DEF Inside, reads
  <2>2. ASSUME NEW v \in Worker, v # w
        PROVE  pc'[v] = pc[v]
    BY <2>2
  <2> QED
    BY <2>1, <2>2 DEF StagedIsAffordable
<1>6. GenesisFirst'
  BY DEF GenesisFirst
<1> QED
  BY <1>2, <1>3, <1>4, <1>5, <1>6

\* Only Boot, Crash, Begin, Commit and the steps of the environment are not quiet.
LEMMA QuietSteps ==
  ASSUME IInv, NEW w \in Worker,
         \/ DoWork(w) \/ ReadFails(w) \/ Transfer(w) \/ UnknownType(w) \/ RunContract(w)
         \/ ContractResult(w) \/ PersistFails(w)
  PROVE  QuietStep(w)
<1> USE DEF IInv, TypeOK, PC, QuietStep, Inside, Goto, db, reads, GenesisFirst
<1>1. CASE DoWork(w)
  BY <1>1 DEF DoWork
<1>2. CASE Transfer(w)
  BY <1>2, TxAssumption DEF Transfer, Insufficient, Reject, Stage
<1>3. CASE UnknownType(w)
  BY <1>3 DEF UnknownType, Reject
<1>4. CASE RunContract(w)
  BY <1>4 DEF RunContract, RunFails, DeploySmartContract, ExecuteSmartContract, WriteContract, ChangeContract, Fail
<1>5. CASE ContractResult(w)
  BY <1>5 DEF ContractResult, Fail, Stage, StagedIsAffordable
<1>6. CASE PersistFails(w)
  BY <1>6 DEF PersistFails, Fail
<1>7. CASE ReadFails(w)
  BY <1>7 DEF ReadFails, Fail, Reject
<1> QED
  BY <1>1, <1>2, <1>3, <1>4, <1>5, <1>6, <1>7

\* Every step preserves the invariant.
LEMMA StepIInv == IInv /\ [Next]_vars => IInv'
<1> SUFFICES ASSUME IInv, [Next]_vars
             PROVE  IInv'
  OBVIOUS
<1>1. TypeOK'
  BY StepTypeOK DEF IInv
<1> USE DEF IInv
<1>2. CASE Boot
  <2>1. \A w \in Worker : pc'[w] = "idle"
    BY <1>2 DEF Boot, volatile, GenesisFirst
  <2> QED
    BY <1>1, <1>2, <2>1
    DEF Boot, Exclusive, NotYetAccepted, ReadsAreCurrent, StagedIsAffordable, GenesisFirst, Inside
<1>3. CASE Crash
  <2>1. \A w \in Worker : pc'[w] = "idle"
    BY <1>3 DEF Crash
  <2> QED
    BY <1>1, <1>3, <2>1
    DEF Crash, db, Exclusive, NotYetAccepted, ReadsAreCurrent, StagedIsAffordable, GenesisFirst,
        Inside
<1>4. ASSUME NEW t \in Tx, FirstReceive(t) \/ Enqueue(t)
      PROVE  IInv'
  <2>1. UNCHANGED <<genesis, ledger, bal, pc, cur, reads, dirty, up>>
    BY <1>4 DEF FirstReceive, Enqueue, db
  <2> QED
    BY <1>1, <2>1
    DEF reads, Exclusive, NotYetAccepted, ReadsAreCurrent, StagedIsAffordable, GenesisFirst, Inside
<1>5. ASSUME NEW w \in Worker,
             \/ DoWork(w) \/ ReadFails(w) \/ Transfer(w) \/ UnknownType(w) \/ RunContract(w)
             \/ ContractResult(w) \/ PersistFails(w)
      PROVE  IInv'
  BY <1>1, <1>5, QuietSteps, QuietIInv
<1>6. ASSUME NEW w \in Worker, Begin(w)
      PROVE  IInv'
  <2> USE DEF TypeOK, PC, Goto, Begin, db
  <2>1. UNCHANGED <<genesis, ledger, bal, cur, up>> /\ up
    BY <1>6 DEF GenesisFirst
  <2>2. \A v \in Worker : v # w =>
          /\ pc'[v] = pc[v]
          /\ readFrom'[v] = readFrom[v] /\ readTo'[v] = readTo[v]
          /\ v \in dirty' <=> v \in dirty
    BY <1>6 DEF reads
  <2>3. Inside(w)' => /\ pc'[w] = "begun"
                      /\ cur[w] \notin ledger
                      /\ ~ HashLocked(cur[w])
                      /\ readFrom'[w] = bal[From[cur[w]]] /\ readTo'[w] = bal[To[cur[w]]]
    BY <1>6 DEF Inside, AlreadyExecuted
  <2>4. pc'[w] \in {"idle", "begun"}
    BY <1>6
  <2>5. Exclusive'
    BY <2>1, <2>2, <2>3 DEF Exclusive, HashLocked, Inside
  <2>6. NotYetAccepted'
    BY <2>1, <2>2, <2>3 DEF NotYetAccepted, Inside
  <2>7. ReadsAreCurrent'
    BY <2>1, <2>2, <2>3 DEF ReadsAreCurrent, Inside
  <2>8. StagedIsAffordable'
    BY <2>1, <2>2, <2>4 DEF StagedIsAffordable
  <2>9. GenesisFirst'
    BY <2>1 DEF GenesisFirst
  <2> QED
    BY <1>1, <2>5, <2>6, <2>7, <2>8, <2>9
<1>7. ASSUME NEW w \in Worker, Commit(w)
      PROVE  IInv'
  <2> USE DEF TypeOK, PC, Goto
  <2>1. /\ UNCHANGED <<genesis, cur, readFrom, readTo, up>>
        /\ pc'[w] = "idle"
        /\ \A v \in Worker : v # w => pc'[v] = pc[v]
    BY <1>7 DEF Commit, reads
  <2>2. Exclusive'
    BY <2>1 DEF Exclusive, Inside
  <2>3. NotYetAccepted'
    \* The committed hash is nobody else's, by Exclusive.
    <3>1. Inside(w) /\ ledger' \subseteq ledger \cup {cur[w]}
      BY <1>7 DEF Commit, Inside
    <3> QED
      BY <2>1, <3>1 DEF NotYetAccepted, Exclusive, Inside
  <2>4. ReadsAreCurrent'
    <3>1. CASE w \in dirty
      BY <1>7, <2>1, <3>1 DEF Commit, ReadsAreCurrent, Inside
    <3>2. CASE w \notin dirty
      <4> SUFFICES ASSUME NEW v \in Worker, Inside(v)', v \notin dirty'
                   PROVE  /\ readFrom'[v] = bal'[From[cur'[v]]]
                          /\ readTo'[v] = bal'[To[cur'[v]]]
        BY DEF ReadsAreCurrent
      <4>1. v # w /\ Inside(v) /\ v \notin dirty /\ ~ Conflicts(v, w)
        BY <1>7, <2>1, <3>2 DEF Commit, Inside
      <4>2. From[cur[v]] \notin Writes(cur[w]) /\ To[cur[v]] \notin Writes(cur[w])
        BY <4>1 DEF Conflicts, Reads
      <4>3. \A a \in Account \ Writes(cur[w]) : bal'[a] = bal[a]
        BY <1>7, <3>2, TxAssumption, LedgerAssumption DEF Commit, Writes
      <4>4. From[cur[v]] \in Account /\ To[cur[v]] \in Account
        BY TxAssumption
      <4> QED
        BY <2>1, <4>1, <4>2, <4>3, <4>4 DEF ReadsAreCurrent
    <3> QED
      BY <3>1, <3>2
  <2>5. StagedIsAffordable'
    BY <2>1 DEF StagedIsAffordable
  <2>6. GenesisFirst'
    BY <2>1 DEF GenesisFirst
  <2> QED
    BY <1>1, <2>2, <2>3, <2>4, <2>5, <2>6
<1>8. CASE UNCHANGED vars
  BY <1>1, <1>8
  DEF vars, db, volatile, reads, Exclusive, NotYetAccepted, ReadsAreCurrent, StagedIsAffordable,
      GenesisFirst, Inside
<1> QED
  BY <1>2, <1>3, <1>4, <1>5, <1>6, <1>7, <1>8 DEF Next, Execute

\* Every variable of the execution model keeps its type.
THEOREM LedgerTypeCorrect == Spec => []TypeOK
<1>1. IInv => TypeOK
  BY DEF IInv
<1> QED
  BY InitIInv, StepIInv, <1>1, PTL DEF Spec

\* Contracts own nothing, and no deployment is about to give them anything.
ContractsEmpty ==
  /\ \A d \in Tx : Kind[d] = "deploy" => bal[ContractOf[d]] = 0
  /\ \A w \in Worker :
       pc[w] \in {"applied", "commit"} /\ Kind[cur[w]] = "deploy" => contractBal[w] = 0

\* When nobody pays contracts, their accounts stay empty.
LEMMA StepContractsEmpty ==
  ASSUME ContractsUnfunded, IInv, ContractsEmpty, [Next]_vars
  PROVE  ContractsEmpty'
<1> USE TxAssumption, LedgerAssumption DEF IInv, TypeOK, PC, Goto
<1>1. ASSUME UNCHANGED <<bal, contractBal>>,
             \A w \in Worker : pc'[w] \in {"applied", "commit"} =>
                \/ pc[w] \in {"applied", "commit"} /\ cur'[w] = cur[w]
                \/ Kind[cur'[w]] # "deploy"
      PROVE  ContractsEmpty'
  BY <1>1 DEF ContractsEmpty
<1>2. CASE Boot
  <2>1. UNCHANGED <<contractBal, pc, cur>>
    BY <1>2 DEF Boot, volatile
  <2>2. \A d \in Tx : Kind[d] = "deploy" => bal'[ContractOf[d]] = bal[ContractOf[d]]
    BY <1>2 DEF Boot, ContractsUnfunded
  <2> QED
    BY <2>1, <2>2 DEF ContractsEmpty
<1>3. CASE Crash
  <2>1. UNCHANGED bal /\ \A w \in Worker : pc'[w] = "idle"
    BY <1>3 DEF Crash, db
  <2> QED
    BY <2>1 DEF ContractsEmpty
<1>4. ASSUME NEW t \in Tx, FirstReceive(t) \/ Enqueue(t)
      PROVE  ContractsEmpty'
  BY <1>1, <1>4 DEF FirstReceive, Enqueue, db
<1>5. ASSUME NEW w \in Worker, DoWork(w) \/ Begin(w)
      PROVE  ContractsEmpty'
  BY <1>1, <1>5 DEF DoWork, Begin, db
<1>6. ASSUME NEW w \in Worker,
             ReadFails(w) \/ Transfer(w) \/ UnknownType(w) \/ ContractResult(w) \/ PersistFails(w)
      PROVE  ContractsEmpty'
  BY <1>1, <1>6 DEF ReadFails, Transfer, UnknownType, ContractResult, PersistFails, Fail, Reject,
                    Stage, db
<1>7. ASSUME NEW w \in Worker, RunContract(w)
      PROVE  ContractsEmpty'
  <2>1. /\ UNCHANGED <<bal, cur>>
        /\ \A v \in Worker : v # w => pc'[v] = pc[v] /\ contractBal'[v] = contractBal[v]
    BY <1>7 DEF RunContract, RunFails, DeploySmartContract, ExecuteSmartContract,
       WriteContract, ChangeContract, Fail
  <2>2. pc'[w] \in {"applied", "commit"} /\ Kind[cur[w]] = "deploy" => contractBal'[w] = 0
    BY <1>7 DEF RunContract, RunFails, DeploySmartContract, ExecuteSmartContract,
       WriteContract, ChangeContract, Fail, ContractsUnfunded, ContractsEmpty
  <2> QED
    BY <2>1, <2>2 DEF ContractsEmpty
<1>8. ASSUME NEW w \in Worker, Commit(w)
      PROVE  ContractsEmpty'
  <2>1. UNCHANGED <<cur, contractBal>>
    BY <1>8 DEF Commit
  <2>2. \A v \in Worker : pc'[v] \in {"applied", "commit"} => pc'[v] = pc[v]
    BY <1>8 DEF Commit
  <2>3. CASE w \in dirty
    BY <1>8, <2>1, <2>2, <2>3 DEF Commit, ContractsEmpty
  <2>4. CASE w \notin dirty
    <3> DEFINE t == cur[w]
    <3>1. readFrom[w] = bal[From[t]] /\ readTo[w] = bal[To[t]]
      BY <1>8, <2>4 DEF Commit, ReadsAreCurrent, Inside
    <3>2. Kind[t] = "deploy" => contractBal[w] = 0
      BY <1>8 DEF Commit, ContractsEmpty
    <3>3. ASSUME NEW d \in Tx, Kind[d] = "deploy"
          PROVE  bal'[ContractOf[d]] = 0
      <4>1. CASE Kind[t] = "transfer"
        BY <1>8, <2>4, <3>3, <4>1 DEF Commit, ContractsUnfunded, ContractsEmpty
      <4>2. CASE Kind[t] # "transfer"
        BY <1>8, <2>4, <3>1, <3>2, <3>3, <4>2 DEF Commit, ContractsEmpty
      <4> QED
        BY <4>1, <4>2
    <3> QED
      BY <2>1, <2>2, <3>3 DEF ContractsEmpty
  <2> QED
    BY <2>3, <2>4
<1>9. CASE UNCHANGED vars
  BY <1>1, <1>9 DEF vars, db, volatile
<1> QED
  BY <1>2, <1>3, <1>4, <1>5, <1>6, <1>7, <1>8, <1>9 DEF Next, Execute

\* A step of Ledger is a step of LedgerSpec or leaves its variables alone: the
\* only interesting cases are Boot, and a Commit without conflict, which by
\* ReadsAreCurrent applies the transaction to the balances of that moment.
LEMMA StepSimulation ==
  ASSUME IInv, ContractsEmpty, [Next]_vars
  PROVE  [SpecNext]_specVars
<1>1. CASE Boot
  BY <1>1 DEF Boot, GenesisMissing, SpecNext, CreateGenesis, specVars, IInv, TypeOK
<1>2. CASE Crash
  BY <1>2 DEF Crash, db, specVars
<1>3. ASSUME NEW t \in Tx, FirstReceive(t) \/ Enqueue(t)
      PROVE  UNCHANGED specVars
  BY <1>3 DEF FirstReceive, Enqueue, db, specVars
<1>4. ASSUME NEW w \in Worker,
             \/ DoWork(w) \/ ReadFails(w) \/ Transfer(w) \/ UnknownType(w) \/ RunContract(w)
             \/ ContractResult(w) \/ PersistFails(w)
      PROVE  UNCHANGED specVars
  <2>1. QuietStep(w)
    BY <1>4, QuietSteps
  <2> QED
    BY <2>1 DEF QuietStep, specVars
<1>5. ASSUME NEW w \in Worker, Begin(w)
      PROVE  UNCHANGED specVars
  BY <1>5 DEF Begin, db, specVars
<1>6. ASSUME NEW w \in Worker, Commit(w)
      PROVE  UNCHANGED specVars \/ \E t \in Tx : Accept(t)
  <2>1. CASE w \in dirty
    BY <1>6, <2>1 DEF Commit, specVars
  <2>2. CASE w \notin dirty
    <3> DEFINE t == cur[w]
    <3>1. t \in Tx /\ From[t] \in Account /\ To[t] \in Account /\ From[t] # To[t]
      BY TxAssumption DEF IInv, TypeOK
    <3>2. genesis /\ t \notin ledger /\ Kind[t] # "other"
      BY <1>6 DEF Commit, IInv, GenesisFirst, NotYetAccepted, StagedIsAffordable, Inside
    <3>3. readFrom[w] = bal[From[t]] /\ readTo[w] = bal[To[t]]
      BY <1>6, <2>2 DEF Commit, IInv, ReadsAreCurrent, Inside
    <3>4. Affordable(bal, t)
      BY <1>6, <3>3 DEF Commit, IInv, StagedIsAffordable, Affordable
    <3>5. bal' = Apply(bal, t)
      <4>1. CASE Kind[t] = "transfer"
        BY <1>6, <2>2, <3>1, <3>3, <4>1 DEF Commit, Apply, IInv, TypeOK
      <4>2. CASE Kind[t] # "transfer"
        <5>1. Kind[t] = "deploy" => contractBal[w] = bal[ContractOf[t]]
          BY <1>6, <3>1 DEF Commit, ContractsEmpty
        <5>2. bal' = bal
          BY <1>6, <2>2, <3>1, <3>3, <4>2, <5>1, LedgerAssumption DEF Commit, IInv, TypeOK
        <5> QED
          BY <4>2, <5>2 DEF Apply
      <4> QED
        BY <4>1, <4>2
    <3>6. ledger' = ledger \cup {t} /\ genesis' = genesis
      BY <1>6, <2>2 DEF Commit
    <3> QED
      BY <3>1, <3>2, <3>4, <3>5, <3>6 DEF Accept
  <2> QED
    BY <2>1, <2>2
<1>7. CASE UNCHANGED vars
  BY <1>7 DEF vars, db, specVars
<1> QED
  BY <1>1, <1>2, <1>3, <1>4, <1>5, <1>6, <1>7 DEF Next, Execute, SpecNext

\* executeTransaction, run by any number of workers, with conflicts, failures,
\* retries, duplicates and crashes, implements the atomic ledger.
THEOREM LedgerImplementsSpec ==
  ASSUME ContractsUnfunded
  PROVE  Spec => LSpec
<1>1. Init => SpecInit /\ ContractsEmpty
  BY LedgerAssumption DEF Init, Idle, SpecInit, ContractsEmpty
<1>2. IInv /\ ContractsEmpty /\ [Next]_vars => ContractsEmpty'
  BY StepContractsEmpty
<1>3. IInv /\ ContractsEmpty /\ [Next]_vars => [SpecNext]_specVars
  BY StepSimulation
<1> QED
  BY InitIInv, StepIInv, <1>1, <1>2, <1>3, PTL DEF Spec, LSpec

\* No account is overdrawn: follows from the invariant, since what a Commit
\* without conflict subtracts was checked against the current balance.
THEOREM LedgerNoOverdraft ==
  ASSUME ContractsUnfunded
  PROVE  Spec => []NoOverdraft
<1>1. Init => NoOverdraft /\ ContractsEmpty
  BY LedgerAssumption DEF Init, Idle, SpecInit, NoOverdraft, ContractsEmpty
<1>2. IInv /\ ContractsEmpty /\ NoOverdraft /\ [Next]_vars => NoOverdraft'
  <2> SUFFICES ASSUME IInv, NoOverdraft, [SpecNext]_specVars
               PROVE  NoOverdraft'
    BY StepSimulation
  <2>1. CASE CreateGenesis
    BY <2>1, GenesisAssumption DEF CreateGenesis, NoOverdraft, IInv, TypeOK
  <2>2. ASSUME NEW t \in Tx, Accept(t)
        PROVE  NoOverdraft'
    <3>1. From[t] \in Account /\ To[t] \in Account /\ From[t] # To[t] /\ Value[t] \in Int
      BY TxAssumption
    <3>2. Kind[t] = "transfer" => Value[t] > 0 /\ bal[From[t]] >= Value[t]
      BY <2>2, TxAssumption DEF Accept, Affordable
    <3> QED
      BY <2>2, <3>1, <3>2 DEF Accept, Apply, NoOverdraft, IInv, TypeOK
  <2>3. CASE UNCHANGED specVars
    BY <2>3 DEF specVars, NoOverdraft
  <2> QED
    BY <2>1, <2>2, <2>3 DEF SpecNext
<1>3. IInv /\ ContractsEmpty /\ [Next]_vars => ContractsEmpty'
  BY StepContractsEmpty
<1> QED
  BY InitIInv, StepIInv, <1>1, <1>2, <1>3, PTL DEF Spec

\* Badger holds an Ok receipt exactly for the transactions in the ledger.
THEOREM LedgerReceiptMatches == Spec => []ReceiptMatchesLedger
<1>1. Init => ReceiptMatchesLedger
  BY DEF Init, SpecInit, ReceiptMatchesLedger
<1>2. IInv /\ ReceiptMatchesLedger /\ [Next]_vars => ReceiptMatchesLedger'
  <2> SUFFICES ASSUME IInv, ReceiptMatchesLedger, [Next]_vars
               PROVE  ReceiptMatchesLedger'
    OBVIOUS
  <2>1. ASSUME NEW w \in Worker, Commit(w)
        PROVE  ReceiptMatchesLedger'
    BY <2>1 DEF Commit, ReceiptMatchesLedger, IInv, TypeOK
  <2>2. ASSUME NEW w \in Worker, Inside(w),
               NEW status \in {"InsufficientTokens", "InvalidTransaction", "InternalError"},
               Reject(w, status)
        PROVE  ReceiptMatchesLedger'
    \* The worker is inside: its transaction is not in the ledger.
    BY <2>2 DEF Reject, ReceiptMatchesLedger, IInv, TypeOK, NotYetAccepted
  <2>3. ASSUME UNCHANGED <<ledger, rcptDb>>
        PROVE  ReceiptMatchesLedger'
    BY <2>3 DEF ReceiptMatchesLedger
  <2>4. ASSUME NEW w \in Worker, ReadFails(w) \/ Transfer(w) \/ UnknownType(w)
        PROVE  ReceiptMatchesLedger'
    <3>1. Inside(w)
      BY <2>4 DEF ReadFails, Transfer, UnknownType, Inside
    <3>2. \/ Reject(w, "InsufficientTokens")
          \/ Reject(w, "InternalError")
          \/ Reject(w, "InvalidTransaction")
          \/ UNCHANGED <<ledger, rcptDb>>
      BY <2>4 DEF ReadFails, Transfer, UnknownType, Fail, Stage, db
    <3> QED
      BY <2>2, <2>3, <3>1, <3>2
  <2>5. ASSUME NEW w \in Worker,
               \/ DoWork(w) \/ Begin(w) \/ RunContract(w) \/ ContractResult(w) \/ PersistFails(w)
        PROVE  UNCHANGED <<ledger, rcptDb>>
    BY <2>5 DEF DoWork, Begin, RunContract, RunFails, DeploySmartContract,
       ExecuteSmartContract, WriteContract, ChangeContract, ContractResult, PersistFails, Fail, Stage, db
  <2>6. CASE Boot \/ Crash \/ (\E t \in Tx : FirstReceive(t) \/ Enqueue(t)) \/ UNCHANGED vars
    BY <2>3, <2>6 DEF Boot, Crash, FirstReceive, Enqueue, vars, db
  <2> QED
    BY <2>1, <2>3, <2>4, <2>5, <2>6 DEF Next, Execute
<1> QED
  BY InitIInv, StepIInv, <1>1, <1>2, PTL DEF Spec

-----------------------------------------------------------------------------

\* What the DVM has written is written before the ledger knows of it, or
\* storage has dropped a write of it.
DeploysAreWrittenOrLost ==
  /\ \A d \in ledger : Kind[d] = "deploy" => d \in evm \cup lost
  /\ \A w \in Worker : pc[w] \in {"applied", "commit"} /\ Kind[cur[w]] = "deploy"
                         => cur[w] \in evm \cup lost

\* A worker that has found its contract can rely on it.
FoundIsKnown ==
  \A w \in Worker :
    /\ Inside(w) /\ w \in contractRead => ContractKnown(To[cur[w]])
    /\ pc[w] \in {"applied", "commit"} /\ Kind[cur[w]] = "execute" => w \in contractRead

\* Calls in the ledger went to deployments in the ledger.
CallsAreKnown == \A t \in ledger : Kind[t] = "execute" => ContractKnown(To[t])

\* Ledger and contract state only grow.
LEMMA StepGrows ==
  ASSUME TypeOK, [Next]_vars
  PROVE  /\ ledger \subseteq ledger'
         /\ evm \cup lost \subseteq evm' \cup lost'
<1> USE DEF TypeOK, contractState
<1>1. CASE Boot \/ Crash \/ (\E t \in Tx : FirstReceive(t) \/ Enqueue(t)) \/ UNCHANGED vars
  BY <1>1 DEF Boot, Crash, FirstReceive, Enqueue, vars, db
<1>2. ASSUME NEW w \in Worker, DoWork(w) \/ Begin(w) \/ ReadFails(w) \/ Transfer(w) \/ UnknownType(w)
      PROVE  UNCHANGED <<ledger, contractState>>
  BY <1>2 DEF DoWork, Begin, ReadFails, Transfer, UnknownType, Fail, Reject, Stage, db
<1>3. ASSUME NEW w \in Worker, ContractResult(w) \/ PersistFails(w)
      PROVE  UNCHANGED <<ledger, contractState>>
  BY <1>3 DEF ContractResult, PersistFails, Fail, Stage, db
<1>4. ASSUME NEW w \in Worker, RunContract(w)
      PROVE  ledger' = ledger /\ evm \cup lost \subseteq evm' \cup lost'
  BY <1>4 DEF RunContract, RunFails, DeploySmartContract, ExecuteSmartContract, WriteContract, ChangeContract, Fail
<1>5. ASSUME NEW w \in Worker, Commit(w)
      PROVE  ledger \subseteq ledger' /\ UNCHANGED contractState
  BY <1>5 DEF Commit
<1> QED
  BY <1>1, <1>2, <1>3, <1>4, <1>5 DEF Next, Execute

\* Where a worker that goes on comes from, and what it has found.
LEMMA StepWorker ==
  ASSUME IInv, [Next]_vars, NEW v \in Worker
  PROVE  /\ Inside(v)' /\ pc[v] # "locking" => /\ Inside(v) /\ cur'[v] = cur[v]
                                               /\ v \in contractRead' <=> v \in contractRead
         /\ Inside(v)' /\ pc[v] = "locking" =>
              /\ pc'[v] = "begun" /\ cur'[v] = cur[v] /\ ledger' = ledger
              /\ v \in contractRead' => ContractKnown(To[cur[v]])
         /\ pc'[v] \in {"applied", "commit"} =>
              \/ pc[v] \in {"applied", "commit"}
              \/ Kind[cur[v]] = "transfer"
              \/ Kind[cur[v]] = "deploy" /\ cur[v] \in evm' \cup lost'
              \/ Kind[cur[v]] = "execute" /\ v \in contractRead
<1> USE DEF IInv, TypeOK, PC, Goto, Inside, reads
<1>1. CASE Boot \/ Crash \/ (\E t \in Tx : FirstReceive(t) \/ Enqueue(t)) \/ UNCHANGED vars
  BY <1>1 DEF Boot, Crash, FirstReceive, Enqueue, vars, volatile, db
<1>2. ASSUME NEW w \in Worker, DoWork(w)
      PROVE  UNCHANGED contractRead /\ (Inside(v)' => Inside(v) /\ cur'[v] = cur[v] /\ pc'[v] = pc[v])
  BY <1>2 DEF DoWork
<1>3. CASE \E w \in Worker : Begin(w)
  BY <1>3 DEF Begin, db
<1>4. CASE \E w \in Worker : ReadFails(w) \/ Transfer(w) \/ UnknownType(w)
  BY <1>4 DEF ReadFails, Transfer, UnknownType, Fail, Reject, Stage
<1>5. ASSUME NEW w \in Worker, RunContract(w)
      PROVE  /\ UNCHANGED <<contractRead, cur>> /\ pc[w] = "begun"
             /\ v # w => pc'[v] = pc[v]
             /\ pc'[w] \in {"idle", "applied"}
             /\ pc'[w] = "applied" => \/ Kind[cur[w]] = "deploy" /\ cur[w] \in evm' \cup lost'
                                      \/ Kind[cur[w]] = "execute" /\ w \in contractRead
  BY <1>5 DEF RunContract, RunFails, DeploySmartContract, ExecuteSmartContract, WriteContract, ChangeContract, Fail
<1>6. CASE \E w \in Worker : ContractResult(w) \/ PersistFails(w) \/ Commit(w)
  BY <1>6 DEF ContractResult, PersistFails, Commit, Fail, Stage
<1> QED
  BY <1>1, <1>2, <1>3, <1>4, <1>5, <1>6 DEF Next, Execute

\* A call in the ledger went to a contract whose deployment is in the ledger and
\* whose state the DVM has written, with any number of workers, storage faults
\* and crashes.
THEOREM LedgerCalledContractsExist == Spec => []CalledContractsExist
<1> DEFINE J == DeploysAreWrittenOrLost /\ FoundIsKnown /\ CallsAreKnown
<1>1. Init => J
  BY DEF Init, SpecInit, Idle, DeploysAreWrittenOrLost, FoundIsKnown, CallsAreKnown, Inside
<1>2. IInv /\ J /\ [Next]_vars => J'
  <2> SUFFICES ASSUME IInv, J, [Next]_vars
               PROVE  J'
    OBVIOUS
  <2>1. TypeOK /\ TypeOK'
    BY StepIInv DEF IInv
  <2>2. /\ ledger \subseteq ledger'
        /\ evm \cup lost \subseteq evm' \cup lost'
    BY <2>1, StepGrows
  <2>3. \A a \in Account : ContractKnown(a) => ContractKnown(a)'
    BY <2>2 DEF ContractKnown
  <2>4. \A t \in ledger' \ ledger : \E w \in Worker : pc[w] = "commit" /\ cur[w] = t
    <3>1. CASE \E w \in Worker : Commit(w)
      BY <3>1 DEF Commit
    <3>2. CASE ~ \E w \in Worker : Commit(w)
      BY <3>2 DEF Next, Execute, Boot, Crash, FirstReceive, Enqueue, vars, db, DoWork, Begin, ReadFails,
         Transfer, UnknownType, RunContract, RunFails, ContractResult, PersistFails, Fail, Reject, Stage
    <3> QED
      BY <3>1, <3>2
  <2>5. DeploysAreWrittenOrLost'
    <3>1. \A d \in ledger' : Kind[d] = "deploy" => d \in evm' \cup lost'
      BY <2>1, <2>2, <2>4 DEF DeploysAreWrittenOrLost, TypeOK
    <3>2. ASSUME NEW w \in Worker, pc'[w] \in {"applied", "commit"}, Kind[cur'[w]] = "deploy"
          PROVE  cur'[w] \in evm' \cup lost'
      <4>1. Inside(w)' /\ pc'[w] # "begun"
        BY <3>2 DEF Inside
      <4>2. cur'[w] = cur[w] /\ (pc[w] \in {"applied", "commit"} \/ cur[w] \in evm' \cup lost')
        BY <3>2, <4>1, StepWorker
      <4> QED
        BY <2>1, <2>2, <3>2, <4>2 DEF DeploysAreWrittenOrLost, TypeOK
    <3> QED
      BY <3>1, <3>2 DEF DeploysAreWrittenOrLost
  <2>6. FoundIsKnown'
    <3> SUFFICES ASSUME NEW w \in Worker, Inside(w)'
                 PROVE  /\ w \in contractRead' => ContractKnown(To[cur[w]])'
                        /\ pc'[w] \in {"applied", "commit"} /\ Kind[cur'[w]] = "execute"
                             => w \in contractRead'
      BY DEF FoundIsKnown, Inside
    <3>1. To[cur[w]] \in Account
      BY <2>1, TxAssumption DEF TypeOK
    <3>2. CASE pc[w] = "locking"
      BY <2>3, <3>1, <3>2, StepWorker
    <3>3. CASE pc[w] # "locking"
      BY <2>3, <3>1, <3>3, StepWorker DEF FoundIsKnown
    <3> QED
      BY <3>2, <3>3
  <2>7. CallsAreKnown'
    <3> SUFFICES ASSUME NEW t \in ledger', Kind[t] = "execute"
                 PROVE  ContractKnown(To[t])'
      BY DEF CallsAreKnown
    <3>1. To[t] \in Account
      BY <2>1, TxAssumption DEF TypeOK
    <3>2. ContractKnown(To[t])
      BY <2>4 DEF CallsAreKnown, FoundIsKnown, Inside
    <3> QED
      BY <2>3, <3>1, <3>2
  <2> QED
    BY <2>5, <2>6, <2>7
<1>3. J => CalledContractsExist
  BY DEF DeploysAreWrittenOrLost, CallsAreKnown, ContractKnown, CalledContractsExist
<1> QED
  BY InitIInv, StepIInv, <1>1, <1>2, <1>3, PTL DEF Spec

-----------------------------------------------------------------------------

\* No commit of somebody else overtakes a badger transaction.
NothingDirty == dirty = {}

\* With one worker no badger transaction conflicts.
LEMMA StepNothingDirty ==
  ASSUME \A v, w \in Worker : v = w, NothingDirty, [Next]_vars
  PROVE  NothingDirty'
<1> USE DEF NothingDirty
<1>1. CASE Boot \/ Crash \/ (\E t \in Tx : FirstReceive(t) \/ Enqueue(t)) \/ UNCHANGED vars
  BY <1>1 DEF Boot, Crash, FirstReceive, Enqueue, vars, volatile
<1>2. ASSUME NEW w \in Worker, DoWork(w) \/ Begin(w) \/ ReadFails(w) \/ Transfer(w) \/ UnknownType(w)
      PROVE  NothingDirty'
  BY <1>2 DEF DoWork, Begin, ReadFails, Transfer, UnknownType, Fail, Reject, Stage
<1>3. ASSUME NEW w \in Worker, RunContract(w) \/ ContractResult(w) \/ PersistFails(w)
      PROVE  NothingDirty'
  BY <1>3 DEF RunContract, RunFails, ContractResult, PersistFails, Fail, Stage
<1>4. ASSUME NEW w \in Worker, Commit(w)
      PROVE  NothingDirty'
  <2>1. \A v \in Worker : ~ Conflicts(v, w)
    BY DEF Conflicts
  <2> QED
    BY <1>4, <2>1 DEF Commit
<1> QED
  BY <1>1, <1>2, <1>3, <1>4 DEF Next, Execute

\* How a transaction comes to have, or to keep, a cached receipt Ok that no
\* worker is about to commit: it had one, or a worker has just committed it.
LEMMA StepCachedOk ==
  ASSUME IInv, NothingDirty, [Next]_vars, NEW t \in Tx, rcptCache'[t] = "Ok",
         ~ (\E w \in Worker : pc'[w] = "commit" /\ cur'[w] = t)
  PROVE  \/ t \in ledger'
         \/ rcptCache[t] = "Ok" /\ ~ (\E w \in Worker : pc[w] = "commit" /\ cur[w] = t)
<1> USE DEF IInv, TypeOK, Goto
<1>1. CASE Boot \/ Crash \/ (\E u \in Tx : FirstReceive(u) \/ Enqueue(u)) \/ UNCHANGED vars
  BY <1>1 DEF Boot, Crash, FirstReceive, Enqueue, vars, volatile
<1>2. ASSUME NEW w \in Worker, DoWork(w)
      PROVE  /\ rcptCache[t] = "Ok"
             /\ \A v \in Worker : pc[v] = "commit" => pc'[v] = "commit" /\ cur'[v] = cur[v]
  BY <1>2 DEF DoWork
<1>3. ASSUME NEW w \in Worker, Begin(w)
      PROVE  /\ rcptCache[t] = "Ok"
             /\ \A v \in Worker : pc[v] = "commit" => pc'[v] = "commit" /\ cur'[v] = cur[v]
  BY <1>3 DEF Begin
<1>4. ASSUME NEW w \in Worker, Fail(w) \/ (\E s \in Status \ {"Ok"} : Reject(w, s))
      PROVE  /\ rcptCache[t] = "Ok" /\ cur[w] # t
             /\ \A v \in Worker : v # w /\ pc[v] = "commit" => pc'[v] = "commit" /\ cur'[v] = cur[v]
  BY <1>4 DEF Fail, Reject
<1>5. ASSUME NEW w \in Worker, Stage(w), pc[w] # "commit"
      PROVE  /\ rcptCache[t] = "Ok"
             /\ \A v \in Worker : pc[v] = "commit" => pc'[v] = "commit" /\ cur'[v] = cur[v]
  BY <1>5 DEF Stage
<1>6. ASSUME NEW w \in Worker, RunContract(w), ~ Fail(w)
      PROVE  /\ rcptCache[t] = "Ok"
             /\ \A v \in Worker : pc[v] = "commit" => pc'[v] = "commit" /\ cur'[v] = cur[v]
  BY <1>6 DEF RunContract, RunFails
<1>7. ASSUME NEW w \in Worker, Commit(w)
      PROVE  /\ rcptCache[t] = "Ok" /\ cur[w] \in ledger'
             /\ \A v \in Worker : v # w /\ pc[v] = "commit" => pc'[v] = "commit" /\ cur'[v] = cur[v]
  BY <1>7 DEF Commit, NothingDirty
<1>8. ASSUME NEW w \in Worker, ReadFails(w) \/ Transfer(w) \/ UnknownType(w)
      PROVE  \/ Fail(w) \/ (\E s \in Status \ {"Ok"} : Reject(w, s))
             \/ Stage(w) /\ pc[w] # "commit"
  <2>1. CASE ReadFails(w) \/ UnknownType(w)
    <3>1. "InternalError" \in Status \ {"Ok"} /\ "InvalidTransaction" \in Status \ {"Ok"}
      BY DEF Status
    <3> QED
      BY <2>1, <3>1 DEF ReadFails, UnknownType
  <2>2. CASE Transfer(w)
    <3>1. "InsufficientTokens" \in Status \ {"Ok"}
      BY DEF Status
    <3> QED
      BY <2>2, <3>1 DEF Transfer
  <2> QED
    BY <1>8, <2>1, <2>2
<1>9. ASSUME NEW w \in Worker, ContractResult(w) \/ PersistFails(w)
      PROVE  Fail(w) \/ (Stage(w) /\ pc[w] # "commit")
  BY <1>9 DEF ContractResult, PersistFails
<1> QED
  BY <1>1, <1>2, <1>3, <1>4, <1>5, <1>6, <1>7, <1>8, <1>9 DEF Next, Execute

\* The receipt a client sees is true of the ledger when one worker executes
\* transactions, whatever fails between staging and Commit and wherever the
\* process crashes.  With two workers it is false: Commit returns silently on
\* ErrConflict (dapos_handshake.go:562) and the cached receipt stays Ok.
THEOREM LedgerCachedOkIsCommitted ==
  ASSUME \A v, w \in Worker : v = w
  PROVE  Spec => []CachedOkIsCommitted
<1> DEFINE J == NothingDirty /\ CachedOkIsCommitted
<1>1. Init => J
  BY DEF Init, Idle, NothingDirty, CachedOkIsCommitted
<1>2. IInv /\ J /\ [Next]_vars => J'
  <2> SUFFICES ASSUME IInv, J, [Next]_vars
               PROVE  J'
    OBVIOUS
  <2>1. NothingDirty'
    BY StepNothingDirty
  <2>2. ledger \subseteq ledger'
    BY StepGrows DEF IInv
  <2>3. CachedOkIsCommitted'
    <3> SUFFICES ASSUME NEW t \in Tx, rcptCache'[t] = "Ok",
                        ~ (\E w \in Worker : pc'[w] = "commit" /\ cur'[w] = t)
                 PROVE  t \in ledger'
      BY DEF CachedOkIsCommitted
    <3> QED
      BY <2>2, StepCachedOk DEF CachedOkIsCommitted
  <2> QED
    BY <2>1, <2>3
<1>3. J => CachedOkIsCommitted
  OBVIOUS
<1> QED
  BY InitIInv, StepIInv, <1>1, <1>2, <1>3, PTL DEF Spec

-----------------------------------------------------------------------------
(* Sums of balances.  MapThenSumSet is a recursive function on the subsets  *)
(* of a finite set; what it computes is proved by looking at a smallest      *)
(* counterexample.                                                         *)

\* The element MapThenSumSet takes out of s.
Pick(s) == CHOOSE x \in s : TRUE
\* f gives the sum of b over every subset of S, as MapThenSumSet computes it.
IsSum(f, b, S) == f = [s \in SUBSET S |-> IF s = {} THEN 0 ELSE b[Pick(s)] + f[s \ {Pick(s)}]]
\* That function.
Sums(b, S) == CHOOSE f : IsSum(f, b, S)

\* Total is this sum, over all accounts.
LEMMA TotalIsSum ==
  ASSUME NEW b
  PROVE  Total(b) = Sums(b, Account)[Account]
  BY DEF Total, MapThenSumSet, MapThenFoldSet, Sums, IsSum, Pick

\* A set of numbers has a least one.
LEMMA LeastNumber ==
  ASSUME NEW T, T \subseteq Nat, T # {}
  PROVE  \E n \in T : \A m \in T : n <= m
<1>1. IsWellFoundedOn(OpToRel(<, Nat), Nat)
  BY NatLessThanWellFounded
<1>2. PICK n \in T : \A m \in T : ~ (<<m, n>> \in OpToRel(<, Nat))
  BY <1>1, WFMin
<1>3. \A m \in T : ~ (m < n)
  BY <1>2 DEF OpToRel
<1> QED
  BY <1>3

\* Among subsets of a finite set there is one that contains no other.
LEMMA SmallestSet ==
  ASSUME NEW S, IsFiniteSet(S), NEW T, T \subseteq SUBSET S, T # {}
  PROVE  \E s \in T : \A r \in T : r \subseteq s => r = s
<1>1. IsWellFoundedOn(StrictSubsetOrdering(S), SUBSET S)
  BY FS_StrictSubsetOrderingWellFounded, FS_FiniteSubsetsOfFinite
<1>2. PICK s \in T : \A r \in T : ~ (<<r, s>> \in StrictSubsetOrdering(S))
  BY <1>1, WFMin
<1>3. \A r \in T : r \in SUBSET S /\ s \in SUBSET S
  OBVIOUS
<1> QED
  BY <1>2, <1>3 DEF StrictSubsetOrdering

\* What is taken out of a set is one of its elements.
LEMMA PickIn ==
  ASSUME NEW s, s # {}
  PROVE  Pick(s) \in s
  BY DEF Pick

\* The recursion has a solution: it is built for the subsets of at most n elements,
\* one n after the other.
LEMMA SumsDefined ==
  ASSUME NEW S, IsFiniteSet(S), NEW b
  PROVE  IsSum(Sums(b, S), b, S)
<1> DEFINE Upto(n) == {s \in SUBSET S : Cardinality(s) <= n}
           Good(n) == \E f : /\ f = [s \in Upto(n) |-> f[s]]
                             /\ \A s \in Upto(n) :
                                  f[s] = IF s = {} THEN 0 ELSE b[Pick(s)] + f[s \ {Pick(s)}]
           Bad == {n \in Nat : ~ Good(n)}
<1>1. ASSUME NEW s \in SUBSET S
      PROVE  /\ IsFiniteSet(s) /\ Cardinality(s) \in Nat /\ Cardinality(s) <= Cardinality(S)
             /\ Cardinality(s) = 0 <=> s = {}
             /\ s # {} => /\ s \ {Pick(s)} \in SUBSET S
                          /\ Cardinality(s \ {Pick(s)}) = Cardinality(s) - 1
  BY FS_Subset, FS_CardinalityType, FS_EmptySet, FS_RemoveElement, PickIn
<1>2. Bad = {}
  <2> HIDE DEF Good
  <2> SUFFICES ASSUME Bad # {}
               PROVE  FALSE
    OBVIOUS
  <2>1. PICK n \in Bad : \A m \in Bad : n <= m
    BY LeastNumber
  <2> DEFINE zero == [s \in Upto(0) |-> 0]
  <2>2. n # 0
    <3>1. ASSUME NEW s \in Upto(0)
          PROVE  s = {}
      <4>1. s \in SUBSET S /\ Cardinality(s) <= 0
        OBVIOUS
      <4>2. Cardinality(s) \in Nat /\ (Cardinality(s) = 0 <=> s = {})
        BY <1>1, <4>1
      <4> QED
        BY <4>1, <4>2
    <3> HIDE DEF Upto
    <3>2. /\ zero = [s \in Upto(0) |-> zero[s]]
          /\ \A s \in Upto(0) :
               zero[s] = IF s = {} THEN 0 ELSE b[Pick(s)] + zero[s \ {Pick(s)}]
      BY <3>1
    <3>3. Good(0)
      <4> HIDE DEF zero
      <4> QED
        BY <3>2 DEF Good
    <3> QED
      BY <3>3
  <2>3. Good(n - 1) /\ n - 1 \in Nat
    BY <2>1, <2>2
  <2>4. PICK f : /\ f = [s \in Upto(n - 1) |-> f[s]]
                 /\ \A s \in Upto(n - 1) :
                      f[s] = IF s = {} THEN 0 ELSE b[Pick(s)] + f[s \ {Pick(s)}]
    BY <2>3 DEF Good
  <2> DEFINE g == [s \in Upto(n) |-> IF s \in Upto(n - 1) THEN f[s] ELSE b[Pick(s)] + f[s \ {Pick(s)}]]
  <2>5. ASSUME NEW s \in Upto(n)
        PROVE  g[s] = IF s = {} THEN 0 ELSE b[Pick(s)] + g[s \ {Pick(s)}]
    <3>1. s # {} => s \ {Pick(s)} \in Upto(n - 1) /\ s \ {Pick(s)} \in Upto(n)
      BY <1>1, <2>3
    <3>2. s = {} => s \in Upto(n - 1)
      BY FS_EmptySet, <2>3
    <3>3. s # {} => g[s \ {Pick(s)}] = f[s \ {Pick(s)}]
      BY <3>1
    <3>4. CASE s \in Upto(n - 1)
      BY <2>4, <3>3, <3>4
    <3>5. CASE s \notin Upto(n - 1)
      BY <3>2, <3>3, <3>5
    <3> QED
      BY <3>4, <3>5
  <2>6. g = [s \in Upto(n) |-> g[s]]
    OBVIOUS
  <2>7. Good(n)
    <3> HIDE DEF g
    <3> QED
      BY <2>5, <2>6 DEF Good
  <2> QED
    BY <2>1, <2>7
<1>3. Cardinality(S) \in Nat
  BY FS_CardinalityType
<1>4. Good(Cardinality(S))
  BY <1>2, <1>3
<1>5. Upto(Cardinality(S)) = SUBSET S
  BY <1>1
<1>6. \E f : IsSum(f, b, S)
  <2>1. PICK f : /\ f = [s \in SUBSET S |-> f[s]]
                 /\ \A s \in SUBSET S :
                      f[s] = IF s = {} THEN 0 ELSE b[Pick(s)] + f[s \ {Pick(s)}]
    BY <1>4, <1>5
  <2>2. IsSum(f, b, S)
    BY <2>1 DEF IsSum
  <2> QED
    BY <2>2
<1> QED
  BY <1>6 DEF Sums

\* What the sum over a subset is, by the recursion.
LEMMA SumOfSet ==
  ASSUME NEW S, IsFiniteSet(S), NEW b, NEW s \in SUBSET S
  PROVE  Sums(b, S)[s] = IF s = {} THEN 0 ELSE b[Pick(s)] + Sums(b, S)[s \ {Pick(s)}]
<1>1. IsSum(Sums(b, S), b, S)
  BY SumsDefined
<1> QED
  BY <1>1, Zenon DEF IsSum

\* The sum over nothing.
LEMMA SumOfEmpty ==
  ASSUME NEW S, IsFiniteSet(S), NEW b
  PROVE  Sums(b, S)[{}] = 0
  BY SumOfSet

\* The sum over something.
LEMMA SumOfPick ==
  ASSUME NEW S, IsFiniteSet(S), NEW b, NEW s \in SUBSET S, s # {}
  PROVE  /\ Pick(s) \in s
         /\ Sums(b, S)[s] = b[Pick(s)] + Sums(b, S)[s \ {Pick(s)}]
  BY SumOfSet, PickIn

\* Sums of integers are integers.
LEMMA SumType ==
  ASSUME NEW S, IsFiniteSet(S), NEW b \in [S -> Int], NEW s \in SUBSET S
  PROVE  Sums(b, S)[s] \in Int
<1> DEFINE Bad == {r \in SUBSET S : Sums(b, S)[r] \notin Int}
<1> SUFFICES ASSUME Bad # {}
             PROVE  FALSE
  OBVIOUS
<1>1. PICK r \in Bad : \A q \in Bad : q \subseteq r => q = r
  <2>1. Bad \subseteq SUBSET S
    OBVIOUS
  <2> HIDE DEF Bad
  <2> QED
    BY <2>1, SmallestSet
<1>2. r # {}
  BY SumOfEmpty
<1>3. Pick(r) \in r /\ Sums(b, S)[r] = b[Pick(r)] + Sums(b, S)[r \ {Pick(r)}]
  BY <1>2, SumOfPick
<1>4. r \ {Pick(r)} \notin Bad
  BY <1>1, <1>3
<1>5. Sums(b, S)[r \ {Pick(r)}] \in Int
  BY <1>4
<1>6. b[Pick(r)] \in Int
  BY <1>3
<1> QED
  BY <1>3, <1>5, <1>6

\* Any element may be added last, whichever Pick takes.
LEMMA SumOfAny ==
  ASSUME NEW S, IsFiniteSet(S), NEW b \in [S -> Int], NEW s \in SUBSET S, NEW x \in s
  PROVE  Sums(b, S)[s] = b[x] + Sums(b, S)[s \ {x}]
<1> DEFINE F == Sums(b, S)
           Bad == {r \in SUBSET S : \E y \in r : F[r] # b[y] + F[r \ {y}]}
<1> SUFFICES ASSUME Bad # {}
             PROVE  FALSE
  OBVIOUS
<1>1. PICK r \in Bad : \A q \in Bad : q \subseteq r => q = r
  <2>1. Bad \subseteq SUBSET S
    OBVIOUS
  <2> HIDE DEF Bad
  <2> QED
    BY <2>1, SmallestSet
<1>2. PICK y \in r : F[r] # b[y] + F[r \ {y}]
  OBVIOUS
<1> DEFINE p == Pick(r)
<1>3. p \in r /\ F[r] = b[p] + F[r \ {p}]
  BY SumOfPick
<1>4. p # y
  BY <1>2, <1>3
<1> HIDE DEF p, F
<1>5. F[r \ {p}] = b[y] + F[(r \ {p}) \ {y}]
  BY <1>1, <1>3, <1>4
<1>6. F[r \ {y}] = b[p] + F[(r \ {y}) \ {p}]
  BY <1>1, <1>3, <1>4
<1>7. (r \ {p}) \ {y} = (r \ {y}) \ {p}
  OBVIOUS
<1>8. F[r \ {y}] \in Int /\ F[r] \in Int /\ b[y] \in Int /\ b[p] \in Int /\ F[(r \ {y}) \ {p}] \in Int
  BY <1>3, SumType DEF F
<1> HIDE DEF Bad
<1>9. F[(r \ {p}) \ {y}] = F[(r \ {y}) \ {p}]
  BY <1>7
<1> QED
  BY <1>2, <1>3, <1>5, <1>6, <1>8, <1>9

\* The sum over a set depends on the values in the set only.
LEMMA SumAgrees ==
  ASSUME NEW S, IsFiniteSet(S), NEW b, NEW c, NEW s \in SUBSET S, \A x \in s : b[x] = c[x]
  PROVE  Sums(b, S)[s] = Sums(c, S)[s]
<1> DEFINE Bad == {r \in SUBSET s : Sums(b, S)[r] # Sums(c, S)[r]}
<1> SUFFICES ASSUME Bad # {}
             PROVE  FALSE
  OBVIOUS
<1>1. Bad \subseteq SUBSET S
  OBVIOUS
<1>2. PICK r \in Bad : \A q \in Bad : q \subseteq r => q = r
  <2> HIDE DEF Bad
  <2> QED
    BY <1>1, SmallestSet
<1>3. r # {}
  BY SumOfEmpty
<1>4. /\ Pick(r) \in r
      /\ Sums(b, S)[r] = b[Pick(r)] + Sums(b, S)[r \ {Pick(r)}]
      /\ Sums(c, S)[r] = c[Pick(r)] + Sums(c, S)[r \ {Pick(r)}]
  BY <1>3, SumOfPick
<1>5. r \ {Pick(r)} \notin Bad
  BY <1>2, <1>4
<1>6. Sums(b, S)[r \ {Pick(r)}] = Sums(c, S)[r \ {Pick(r)}]
  BY <1>5
<1> QED
  BY <1>4, <1>6

\* The sum of zeros.
LEMMA SumOfZeros ==
  ASSUME NEW S, IsFiniteSet(S), NEW b, NEW s \in SUBSET S, \A x \in s : b[x] = 0
  PROVE  Sums(b, S)[s] = 0
<1> DEFINE Bad == {r \in SUBSET s : Sums(b, S)[r] # 0}
<1> SUFFICES ASSUME Bad # {}
             PROVE  FALSE
  OBVIOUS
<1>1. Bad \subseteq SUBSET S
  OBVIOUS
<1>2. PICK r \in Bad : \A q \in Bad : q \subseteq r => q = r
  <2> HIDE DEF Bad
  <2> QED
    BY <1>1, SmallestSet
<1>3. r # {}
  BY SumOfEmpty
<1>4. /\ Pick(r) \in r
      /\ Sums(b, S)[r] = b[Pick(r)] + Sums(b, S)[r \ {Pick(r)}]
  BY <1>3, SumOfPick
<1>5. r \ {Pick(r)} \notin Bad
  BY <1>2, <1>4
<1> QED
  BY <1>4, <1>5

\* Two elements may be added last.
LEMMA SumOfTwo ==
  ASSUME NEW S, IsFiniteSet(S), NEW b \in [S -> Int], NEW x \in S, NEW y \in S, x # y
  PROVE  Sums(b, S)[S] = b[x] + (b[y] + Sums(b, S)[(S \ {x}) \ {y}])
<1>1. Sums(b, S)[S] = b[x] + Sums(b, S)[S \ {x}]
  BY SumOfAny
<1>2. S \ {x} \in SUBSET S /\ y \in S \ {x}
  OBVIOUS
<1>3. Sums(b, S)[S \ {x}] = b[y] + Sums(b, S)[(S \ {x}) \ {y}]
  BY <1>2, SumOfAny
<1> QED
  BY <1>1, <1>3

\* A value v that is moved from x to y stays in the sum.
LEMMA SumOfMove ==
  ASSUME NEW S, IsFiniteSet(S), NEW b \in [S -> Int], NEW c \in [S -> Int],
         NEW x \in S, NEW y \in S, x # y, NEW v \in Int,
         c[x] = b[x] - v, c[y] = b[y] + v, \A z \in S \ {x, y} : c[z] = b[z]
  PROVE  Sums(c, S)[S] = Sums(b, S)[S]
<1> DEFINE rest == (S \ {x}) \ {y}
<1>1. rest \in SUBSET S /\ \A z \in rest : c[z] = b[z]
  OBVIOUS
<1>2. ASSUME NEW f \in [S -> Int]
      PROVE  Sums(f, S)[S] = f[x] + (f[y] + Sums(f, S)[rest])
  BY SumOfTwo
<1> HIDE DEF rest
<1>3. /\ Sums(b, S)[S] = b[x] + (b[y] + Sums(b, S)[rest])
      /\ Sums(c, S)[S] = c[x] + (c[y] + Sums(c, S)[rest])
  BY <1>2
<1>4. Sums(c, S)[rest] = Sums(b, S)[rest]
  BY <1>1, SumAgrees
<1>5. Sums(b, S)[rest] \in Int /\ b[x] \in Int /\ b[y] \in Int
  BY <1>1, SumType
<1> QED
  BY <1>3, <1>4, <1>5

\* One value among zeros.
LEMMA SumOfOne ==
  ASSUME NEW S, IsFiniteSet(S), NEW b \in [S -> Int], NEW x \in S, NEW v \in Int,
         \A z \in S : b[z] = 0
  PROVE  Sums([b EXCEPT ![x] = v], S)[S] = v
<1> DEFINE c == [b EXCEPT ![x] = v]
<1>1. c \in [S -> Int] /\ c[x] = v /\ \A z \in S \ {x} : c[z] = 0
  OBVIOUS
<1> HIDE DEF c
<1>2. Sums(c, S)[S \ {x}] = 0
  BY <1>1, SumOfZeros
<1>3. Sums(c, S)[S] = c[x] + Sums(c, S)[S \ {x}]
  BY <1>1, SumOfAny
<1> QED
  BY <1>1, <1>2, <1>3 DEF c

-----------------------------------------------------------------------------

\* Before genesis there is nothing; from then on there is the supply.
TokensAccounted ==
  IF genesis THEN Total(bal) = Supply ELSE \A a \in Account : bal[a] = 0

\* The genesis step creates the supply.
LEMMA TotalOfGenesis ==
  ASSUME NEW b \in [Account -> Int], \A a \in Account : b[a] = 0
  PROVE  Total([b EXCEPT ![GenesisAccount] = Supply]) = Supply
<1>1. Sums([b EXCEPT ![GenesisAccount] = Supply], Account)[Account] = Supply
  <2>1. GenesisAccount \in Account /\ Supply \in Int /\ IsFiniteSet(Account)
    BY GenesisAssumption, AccountAssumption
  <2> QED
    BY <2>1, SumOfOne
<1> DEFINE c == [b EXCEPT ![GenesisAccount] = Supply]
<1> HIDE DEF c
<1>2. Total(c) = Sums(c, Account)[Account]
  BY TotalIsSum
<1> QED
  BY <1>1, <1>2 DEF c

\* An accepted transaction moves its value.
LEMMA TotalOfApply ==
  ASSUME NEW b \in [Account -> Int], NEW t \in Tx
  PROVE  Total(Apply(b, t)) = Total(b)
<1>1. From[t] \in Account /\ To[t] \in Account /\ From[t] # To[t] /\ Value[t] \in Int
  BY TxAssumption
<1>2. CASE Kind[t] = "transfer"
  <2>1. /\ Apply(b, t) \in [Account -> Int]
        /\ Apply(b, t)[From[t]] = b[From[t]] - Value[t]
        /\ Apply(b, t)[To[t]] = b[To[t]] + Value[t]
        /\ \A a \in Account \ {From[t], To[t]} : Apply(b, t)[a] = b[a]
    BY <1>1, <1>2 DEF Apply
  <2>2. Sums(Apply(b, t), Account)[Account] = Sums(b, Account)[Account]
    BY <1>1, <2>1, SumOfMove, AccountAssumption
  <2>3. Total(Apply(b, t)) = Sums(Apply(b, t), Account)[Account]
    BY TotalIsSum
  <2>4. Total(b) = Sums(b, Account)[Account]
    BY TotalIsSum
  <2> QED
    BY <2>2, <2>3, <2>4
<1>3. CASE Kind[t] # "transfer"
  BY <1>3 DEF Apply
<1> QED
  BY <1>2, <1>3

\* One step of the ledger's specification creates or destroys no token.
LEMMA SpecStepTokens ==
  ASSUME bal \in [Account -> Int], TokensAccounted, [SpecNext]_specVars
  PROVE  TokensAccounted'
<1>1. CASE CreateGenesis
  <2>1. /\ genesis' = TRUE /\ bal' = [bal EXCEPT ![GenesisAccount] = Supply]
        /\ \A a \in Account : bal[a] = 0
    BY <1>1 DEF CreateGenesis, TokensAccounted
  <2>2. Total([bal EXCEPT ![GenesisAccount] = Supply]) = Supply
    BY <2>1, TotalOfGenesis
  <2> QED
    BY <2>1, <2>2 DEF TokensAccounted
<1>2. ASSUME NEW t \in Tx, Accept(t)
      PROVE  TokensAccounted'
  <2>1. genesis /\ genesis' /\ bal' = Apply(bal, t)
    BY <1>2 DEF Accept
  <2>2. Total(Apply(bal, t)) = Total(bal)
    BY TotalOfApply
  <2> QED
    BY <2>1, <2>2 DEF TokensAccounted
<1>3. CASE UNCHANGED specVars
  BY <1>3 DEF specVars, TokensAccounted
<1> QED
  BY <1>1, <1>2, <1>3 DEF SpecNext

\* Tokens are neither created nor destroyed, for any set of accounts and
\* transactions, any number of workers, conflicts, failures and crashes, when
\* contracts are not paid: the balances a Commit writes are those it has read,
\* with the value moved, and what it has read is current.
THEOREM LedgerSupplyConserved ==
  ASSUME ContractsUnfunded
  PROVE  Spec => []SupplyConserved
<1>1. Init => TokensAccounted /\ ContractsEmpty
  BY LedgerAssumption DEF Init, Idle, SpecInit, TokensAccounted, ContractsEmpty
<1>2. IInv /\ ContractsEmpty /\ [Next]_vars => ContractsEmpty'
  BY StepContractsEmpty
<1>3. IInv /\ ContractsEmpty /\ TokensAccounted /\ [Next]_vars => TokensAccounted'
  BY StepSimulation, SpecStepTokens DEF IInv, TypeOK
<1>4. TokensAccounted => SupplyConserved
  BY DEF TokensAccounted, SupplyConserved
<1> QED
  BY InitIInv, StepIInv, <1>1, <1>2, <1>3, <1>4, PTL DEF Spec
=============================================================================
