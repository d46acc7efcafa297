---------------------------- MODULE MCSynchronize ----------------------------
(***************************************************************************)
(* Three transactions: genesis, a payment from g to a, a payment from a to *)
(* b, which also calls a contract.  Time stamps order the secondary keys,  *)
(* hashes the transactions and the receipts.                               *)
(***************************************************************************)
EXTENDS Synchronize, TLC

CONSTANTS t0, t1, t2, g, a, b

MCTouches == t0 :> {g} @@ t1 :> {g, a} @@ t2 :> {a, b}

MCKeyOrder ==
     <<"node", t1>> :> 1
  @@ <<"pointer", t2>> :> 2 @@ <<"pointer", t0>> :> 3 @@ <<"pointer", t1>> :> 4
  @@ <<"key", t0>> :> 5 @@ <<"key", t1>> :> 6 @@ <<"key", t2>> :> 7
  @@ <<"node", t0>> :> 8
  @@ <<"account", b>> :> 9 @@ <<"account", g>> :> 10 @@ <<"account", a>> :> 11
  @@ <<"receipt", t2>> :> 12 @@ <<"receipt", t0>> :> 13 @@ <<"receipt", t1>> :> 14
  @@ <<"tx", t2>> :> 15 @@ <<"tx", t0>> :> 16 @@ <<"tx", t1>> :> 17
  @@ <<"node", t2>> :> 18
=============================================================================
