------------------------------ MODULE MCReads ------------------------------
(* Two nodes and two partitions: a get can be all local, split or all      *)
(* remote, and a node that is called may have to proxy once more.          *)
EXTENDS Reads

CONSTANTS n1, n2, p1, p2

(* The client asks n1.  The nodes are interchangeable, in Reads and in its *)
(* properties, and Receive is not among the fair actions, so every         *)
(* behaviour is one of these with the nodes renamed.                       *)
ClientAsksN1 == at'[Root] \in {NoNode, n1}
=============================================================================
