--------------------------- MODULE MCGossipQueue ---------------------------
(***************************************************************************)
(* The start of the service and its queue with three gossips: two about one *)
(* transaction, one about an older one.                                     *)
(***************************************************************************)
EXTENDS ServiceStart

CONSTANTS g1, g2, g3, h1, h2

MCGossip == {g1, g2, g3}
MCHash == {h1, h2}
MCHashOf == [g \in MCGossip |-> IF g = g3 THEN h2 ELSE h1]
MCTimeOf == [h \in MCHash |-> IF h = h2 THEN 1 ELSE 2]
=============================================================================
