----------------------------- MODULE EvmState -----------------------------
(***************************************************************************)
(* The state the EVM works on, as the interpreter sees it: a StateDB is a  *)
(* set of accounts with a refund counter and logs (module StateDB models   *)
(* how the code keeps it), and every contract has a world of its own: the  *)
(* accounts under the root that "AccountState-<address>" names.            *)
(***************************************************************************)
EXTENDS Integers, Sequences, Functions, TLC

CONSTANT
  Ledger  \* address -> balance, of the accounts the ledger knows in Badger

Put(f, k, v) == (k :> v) @@ f

\* An account that does not exist yet; createObject takes it from the ledger
\* when it is there, and newStateObject sets the nonce to 0.
newStateObject(a) ==
  [bal |-> IF a \in DOMAIN Ledger THEN Ledger[a] ELSE 0, nonce |-> 0, code |-> <<>>,
   store |-> <<>>, suicided |-> FALSE]

\* state.New on the root of a world: objects are loaded with nonce 0.  "root" is
\* the world under that root, which the trie of the StateDB keeps to the end.
New(world) ==
  [acct |-> [a \in DOMAIN world |-> [world[a] EXCEPT !.nonce = 0]],
   dirty |-> {}, refund |-> 0, logs |-> <<>>, root |-> world]

Exist(db, a) == a \in DOMAIN db.acct
empty(o) == o.nonce = 0 /\ o.bal = 0 /\ o.code = <<>>
Empty(db, a) == ~ Exist(db, a) \/ empty(db.acct[a])
GetBalance(db, a) == IF Exist(db, a) THEN db.acct[a].bal ELSE 0
GetNonce(db, a) == IF Exist(db, a) THEN db.acct[a].nonce ELSE 0
GetCode(db, a) == IF Exist(db, a) THEN db.acct[a].code ELSE <<>>
GetCodeSize(db, a) == Len(GetCode(db, a))
GetState(db, a, k) ==
  IF Exist(db, a) /\ k \in DOMAIN db.acct[a].store THEN db.acct[a].store[k] ELSE 0
HasSuicided(db, a) == Exist(db, a) /\ db.acct[a].suicided

\* Writes the object of a, and marks it dirty as the journal does.
SetObject(db, a, o) == [db EXCEPT !.acct = Put(@, a, o), !.dirty = @ \cup {a}]

GetOrNewStateObject(db, a) == IF Exist(db, a) THEN db ELSE SetObject(db, a, newStateObject(a))
Object(db, a) == GetOrNewStateObject(db, a).acct[a]

AddBalance(db, a, amount) ==
  IF amount = 0 /\ Exist(db, a) /\ ~ empty(db.acct[a]) THEN db
  ELSE SetObject(db, a, [Object(db, a) EXCEPT !.bal = @ + amount])
SubBalance(db, a, amount) ==
  IF amount = 0 THEN GetOrNewStateObject(db, a)
  ELSE SetObject(db, a, [Object(db, a) EXCEPT !.bal = @ - amount])
SetNonce(db, a, nonce) == SetObject(db, a, [Object(db, a) EXCEPT !.nonce = nonce])
SetCode(db, a, code) == SetObject(db, a, [Object(db, a) EXCEPT !.code = code])
SetState(db, a, k, v) ==
  SetObject(db, a, [Object(db, a) EXCEPT
    !.store = IF v = 0 THEN Restrict(@, DOMAIN @ \ {k}) ELSE Put(@, k, v)])
Suicide(db, a) ==
  IF Exist(db, a) THEN SetObject(db, a, [db.acct[a] EXCEPT !.suicided = TRUE, !.bal = 0]) ELSE db

\* An account that exists is replaced by an empty one with its balance;
\* resetObjectChange does not mark it dirty.
CreateAccount(db, a) ==
  IF Exist(db, a)
  THEN [db EXCEPT !.acct[a] = [newStateObject(a) EXCEPT !.bal = db.acct[a].bal]]
  ELSE SetObject(db, a, newStateObject(a))

AddRefund(db, gas) == [db EXCEPT !.refund = @ + gas]
AddLog(db, log) == [db EXCEPT !.logs = Append(@, log)]

\* Variant of Transfer: the sender keeps what it sends.
TransferKeeping(db, sender, recipient, amount) == AddBalance(db, recipient, amount)

\* evm.go of package ethereum.
CanTransfer(db, a, amount) == GetBalance(db, a) >= amount
Transfer(db, sender, recipient, amount) == AddBalance(SubBalance(db, sender, amount), recipient, amount)

\* Commit(false): the world the StateDB was opened on, with its dirty objects
\* written and the suicided ones deleted.
Commit(db) ==
  [a \in {x \in DOMAIN db.root \cup db.dirty : ~ HasSuicided(db, x)} |->
     IF a \in db.dirty THEN db.acct[a] ELSE db.root[a]]
=============================================================================
