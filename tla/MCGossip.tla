------------------------------ MODULE MCGossip ------------------------------
(***************************************************************************)
(* Three delegates.  Either nothing fails and the rumors may come too late, *)
(* or two submissions race while one delegate is down and one more call     *)
(* fails: a time-out, no connection, or an unreadable answer.  Four         *)
(* delegates, two of them down, for the race on one rumor list.             *)
(***************************************************************************)
EXTENDS Gossip

CONSTANTS d1, d2, d3, d4

Reliably == [submitters : {{d1}}, down : {{}}, late : BOOLEAN, faults : {0}]
Failing == [submitters : {{d1, d2}}, down : {{d3}}, late : {FALSE}, faults : {1}]
TwoOfFour == [submitters : {{d1, d2}}, down : {{d3, d4}}, late : {FALSE}, faults : {0}]

MCSetting == Reliably \cup Failing
=============================================================================
