---------------------------- MODULE MCNamespace ----------------------------
(* Two nodes that may disagree about the number of partitions, and two     *)
(* requests with a key in common.  Hashes have three bits, so that `b' is  *)
(* a key whose hash has its highest bit set.                               *)
EXTENDS Namespace, TLC

CONSTANTS n1, n2, r1, r2

MCHash == [pk \in {"a", "b"} |-> IF pk = "a" THEN 2 ELSE 5]

MCBody == r1 :> <<"a", "b", "a">> @@ r2 :> <<"a">>

ShortBody == r1 :> <<"b">>

Symmetry == Permutations(Nodes)
=============================================================================
