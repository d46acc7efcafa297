------------------------------- MODULE MCNode -------------------------------
(***************************************************************************)
(* What a node knows: of the other nodes (Disgover: a seed and two nodes,    *)
(* interchangeable) and of a transaction (Receipts: one of three delegates,  *)
(* two received gossips and a submission).  A behaviour runs one of them.    *)
(***************************************************************************)
EXTENDS Disgover, Receipts, TLC

VARIABLE asks   \* which of the two runs

NodeInit == Init /\ ReceiptsInit /\ asks \in (IF files = {} THEN {"nodes", "receipts"} ELSE {"nodes"})
NodesStep == asks = "nodes" /\ Next /\ UNCHANGED <<asks, receiptVars>>
ReceiptsStep == asks = "receipts" /\ ReceiptsNext /\ UNCHANGED <<asks, vars>>
NodeSpec == NodeInit /\ [][NodesStep \/ ReceiptsStep]_<<asks, vars, receiptVars>>

MCSymmetry == Permutations(Node) \cup Permutations(Received) \cup Permutations(Peer)
=============================================================================
