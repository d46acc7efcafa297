----------------------------- MODULE LedgerSpec -----------------------------
(***************************************************************************)
(* What a delegate's ledger promises its users: the set of accepted        *)
(* transactions and the balances change together, one transaction at a     *)
(* time, each transaction at most once, and a transfer is accepted only    *)
(* when its sender can pay.  Ledger.tla (executeTransaction over badger's  *)
(* optimistic transactions) is shown to implement this.                    *)
(***************************************************************************)
EXTENDS Integers, FiniteSetsExt

CONSTANTS Tx,          \* transactions, identified by their hash
          Account,     \* addresses; the blank "to" of a deployment is one
          From, To,    \* functions Tx -> Account
          Value,       \* function Tx -> Int
          Kind,        \* function Tx -> {"transfer", "deploy", "execute", "other"}
          GenesisAccount, Supply  \* the account and value of the genesis transaction

Kinds == {"transfer", "deploy", "execute", "other"}

\* Transaction.Verify: From # To, and a transfer has a positive value.
ASSUME TxAssumption ==
  /\ From \in [Tx -> Account]
  /\ To \in [Tx -> Account]
  /\ Value \in [Tx -> Int]
  /\ Kind \in [Tx -> Kinds]
  /\ \A t \in Tx : /\ From[t] # To[t]
                   /\ Kind[t] = "transfer" => Value[t] > 0

ASSUME GenesisAssumption == GenesisAccount \in Account /\ Supply \in Nat

\* Addresses have twenty bytes.
ASSUME AccountAssumption == IsFiniteSet(Account)

VARIABLES genesis,     \* the genesis transaction is in the ledger
          ledger,      \* accepted transactions
          bal          \* balance of every account; an absent account has none

specVars == <<genesis, ledger, bal>>

\* The balances after transaction t, on balances b.
Apply(b, t) ==
  IF Kind[t] = "transfer"
  THEN [b EXCEPT ![From[t]] = @ - Value[t], ![To[t]] = @ + Value[t]]
  ELSE b

Affordable(b, t) == Kind[t] = "transfer" => b[From[t]] >= Value[t]

SpecInit ==
  /\ genesis = FALSE
  /\ ledger = {}
  /\ bal = [a \in Account |-> 0]

CreateGenesis ==
  /\ ~ genesis
  /\ genesis' = TRUE
  /\ bal' = [bal EXCEPT ![GenesisAccount] = Supply]
  /\ UNCHANGED ledger

Accept(t) ==
  /\ genesis
  /\ t \notin ledger
  /\ Kind[t] # "other"
  /\ Affordable(bal, t)
  /\ ledger' = ledger \cup {t}
  /\ bal' = Apply(bal, t)
  /\ UNCHANGED genesis

SpecNext == CreateGenesis \/ \E t \in Tx : Accept(t)

LSpec == SpecInit /\ [][SpecNext]_specVars

-----------------------------------------------------------------------------

\* The sum of the balances b.
Total(b) == MapThenSumSet(LAMBDA x : b[x], Account)

\* Tokens are neither created nor destroyed: after genesis the balances always
\* add up to the supply, so that an Int64 balance never overflows either
\* (executeTransaction, createGenesisTransactionAndAccount).
SupplyConserved == genesis => Total(bal) = Supply
=============================================================================
