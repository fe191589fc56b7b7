------------------------------ MODULE MCGossip ------------------------------
(* One peer with two partitions and two goroutines at work: a difference   *)
(* can be overtaken by another advertisement or by a leave, and an         *)
(* advertisement of two new partitions is cut short.                       *)
EXTENDS Gossip

CONSTANTS m1, m2, p1, p2, w1, w2, c1
=============================================================================
