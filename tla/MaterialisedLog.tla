-------------------------- MODULE MaterialisedLog --------------------------
(***************************************************************************)
(* What FireScroll's storage promises: every local copy of a partition is  *)
(* a materialised prefix of the partition's mutation log.                  *)
(*                                                                         *)
(* history[p] is the sequence of contents the partition goes through, one  *)
(* per prefix of its log (history[p][1] is the empty partition).  A copy   *)
(* is opened empty, only ever moves forward along the history, and may be  *)
(* thrown away.  How the copy gets there (assignments, polls, crashes,     *)
(* replays from a checkpoint) is not visible here.  A node may lose copies *)
(* to a fault: of those nothing is promised until they are thrown away.    *)
(***************************************************************************)
EXTENDS Integers, Sequences

CONSTANTS
    Nodes,          \* nodes of every replica group
    Parts,          \* partitions of the mutation topic
    Contents,       \* what a partition may hold
    EmptyContents,
    NoDB,           \* no local copy
    Lost            \* a copy nothing is promised of

VARIABLES
    history,        \* history[p]: the contents after each prefix of the log
    replica         \* replica[n][p]: NoDB, Lost, or [kv, off] with off the last
                    \* offset the copy is known to contain

vars == <<history, replica>>

Init ==
    /\ history = [p \in Parts |-> <<EmptyContents>>]
    /\ replica = [n \in Nodes |-> [p \in Parts |-> NoDB]]

Produce(p) ==
    /\ \E kv \in Contents : history' = [history EXCEPT ![p] = Append(@, kv)]
    /\ UNCHANGED replica

Open(n, p) ==
    /\ replica[n][p] = NoDB
    /\ replica' = [replica EXCEPT ![n][p] = [kv |-> EmptyContents, off |-> -1]]
    /\ UNCHANGED history

Advance(n, p) ==
    /\ replica[n][p] \notin {NoDB, Lost}
    /\ \E o \in (replica[n][p].off + 1) .. (Len(history[p]) - 2) :
         replica' = [replica EXCEPT ![n][p] = [kv |-> history[p][o + 2], off |-> o]]
    /\ UNCHANGED history

Drop(n, p) ==
    /\ replica[n][p] # NoDB
    /\ replica' = [replica EXCEPT ![n][p] = NoDB]
    /\ UNCHANGED history

(* Also a copy that is being opened. *)
Lose(n, S) ==
    /\ replica' = [replica EXCEPT ![n] =
                     [p \in Parts |-> IF p \in S THEN Lost ELSE replica[n][p]]]
    /\ UNCHANGED history

Next ==
    \/ \E n \in Nodes, S \in SUBSET Parts : Lose(n, S)
    \/ \E n \in Nodes, p \in Parts : Open(n, p) \/ Advance(n, p) \/ Drop(n, p)
    \/ \E p \in Parts : Produce(p)

Spec == Init /\ [][Next]_vars
=============================================================================
