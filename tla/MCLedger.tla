------------------------------ MODULE MCLedger ------------------------------
(***************************************************************************)
(* Instances of Ledger.  Transactions t1 to t3 are transfers: the genesis  *)
(* account g pays a and b more than it has, and a can pay b only after it  *)
(* was paid.  t4 has an unknown type.  t5 deploys contract c, t6 calls it, *)
(* t7 pays it.                                                             *)
(***************************************************************************)
EXTENDS Ledger, TLC

CONSTANTS g, a, b, c,                 \* accounts
          blank,                      \* the empty "to" of a deployment
          t1, t2, t3, t4, t5, t6, t7  \* transactions

MCDetails == t1 :> <<g, a, 2, "transfer">> @@ t2 :> <<g, b, 2, "transfer">>
          @@ t3 :> <<a, b, 1, "transfer">> @@ t4 :> <<b, a, 1, "other">>
          @@ t5 :> <<b, blank, 0, "deploy">> @@ t6 :> <<a, c, 0, "execute">>
          @@ t7 :> <<g, c, 1, "transfer">>

MCFrom  == [t \in Tx |-> MCDetails[t][1]]
MCTo    == [t \in Tx |-> MCDetails[t][2]]
MCValue == [t \in Tx |-> MCDetails[t][3]]
MCKind  == [t \in Tx |-> MCDetails[t][4]]
MCContractOf == [t \in Tx |-> c]
=============================================================================
