---------------------------- MODULE GossipProofs ----------------------------
(* Proofs about Gossip for any number of peers, partitions, goroutines and *)
(* lookups, and any number of changes among the peers.                     *)
EXTENDS Gossip, TLAPS

(* What a goroutine is left with when it moves on is again a goroutine. *)
LEMMA AtType ==
    ASSUME NEW g \in Goroutine, Consistent(g), g.peer \in Peers, NEW pc \in Pcs
    PROVE  At(g, pc) \in Goroutine /\ Consistent(At(g, pc))
BY DEF At, Goroutine, Consistent, Idle, Pcs

(* The difference to an advertisement: no partition is in two of its three *)
(* parts (checkForPartitionDifference).                                    *)
LEMMA DiffType ==
    ASSUME TypeOK, NEW g \in Goroutine, g.peer \in Peers
    PROVE  LET d == [g EXCEPT !.parts = {},
                              !.listed = NewListed(g.peer, g.parts),
                              !.fresh = NewFresh(g.peer, g.parts),
                              !.gone = Removed(g.peer, g.parts)]
           IN  d \in Goroutine /\ Consistent(d) /\ d.peer = g.peer
<1>1. /\ NewListed(g.peer, g.parts) \in SUBSET Parts
      /\ NewFresh(g.peer, g.parts) \in SUBSET Parts
      /\ Removed(g.peer, g.parts) \in SUBSET Parts
    BY DEF TypeOK, Goroutine, NewListed, NewFresh, Removed
<1>2. /\ NewListed(g.peer, g.parts) \cap NewFresh(g.peer, g.parts) = {}
      /\ Removed(g.peer, g.parts) \cap (NewListed(g.peer, g.parts) \cup NewFresh(g.peer, g.parts)) = {}
    BY DEF NewListed, NewFresh, Removed
<1>3. QED
    BY <1>1, <1>2 DEF Goroutine, Consistent

(* A critical section leaves goroutines of the right type. *)
LEMMA SectionType ==
    ASSUME TypeOK, NEW w \in Workers, NEW pc \in Pcs \ {"idle"}, NEW next \in Pcs, Section(w, pc, next)
    PROVE  /\ work' \in [Workers -> Goroutine]
           /\ \A v \in Workers : Consistent(work'[v])
           /\ writer' \in Workers \cup {Nobody}
           /\ UNCHANGED <<reading, peerVars, netVars, changes>>
<1>1. At(work[w], next) \in Goroutine /\ Consistent(At(work[w], next))
    BY AtType DEF TypeOK, Section, Consistent
<1>2. work' = [work EXCEPT ![w] = At(work[w], next)]
    BY DEF Section, TypeOK
<1>3. QED
    BY <1>1, <1>2 DEF Section, TypeOK

(* The state keeps its type in every step. *)
LEMMA NextTyped == TypeOK /\ [Next]_vars => TypeOK'
<1> SUFFICES ASSUME TypeOK, [Next]_vars PROVE TypeOK'
    OBVIOUS
<1> USE DEF peerVars, netVars, mapVars, lockVars
<1>1. ASSUME NEW m \in Peers, Advertise(m) \/ NotifyJoin(m) PROVE TypeOK'
    BY <1>1 DEF Advertise, NotifyJoin, TypeOK
<1>2. ASSUME NEW m \in Peers, Stop(m) \/ Restart(m) PROVE TypeOK'
    BY <1>2, BoundsType DEF Stop, Restart, Count, TypeOK
<1>3. ASSUME NEW m \in Peers, NEW S \in SUBSET Parts, Move(m, S) PROVE TypeOK'
    BY <1>3, BoundsType DEF Move, Count, TypeOK
<1>4. ASSUME NEW m \in Peers, NEW S \in SUBSET Parts, Exhaust(m, S) PROVE TypeOK'
    BY <1>4 DEF Exhaust, TypeOK
<1>5. ASSUME NEW w \in Workers, NEW m \in Peers, NotifyLeave(w, m) PROVE TypeOK'
    <2>1. [Idle EXCEPT !.pc = "leave", !.peer = m] \in Goroutine
          /\ Consistent([Idle EXCEPT !.pc = "leave", !.peer = m])
        BY DEF Idle, Goroutine, Pcs, Consistent
    <2>2. changes' \in 0 .. MaxChanges
        BY <1>5, BoundsType DEF NotifyLeave, Count, TypeOK
    <2>3. QED
        BY <1>5, <2>1, <2>2 DEF NotifyLeave, Go, TypeOK
<1>6. ASSUME NEW w \in Workers, NEW m \in Peers, NEW S \in SUBSET Parts, NotifyMsg(w, m, S)
      PROVE  TypeOK'
    <2>1. [Idle EXCEPT !.pc = "diff", !.peer = m, !.parts = S] \in Goroutine
          /\ Consistent([Idle EXCEPT !.pc = "diff", !.peer = m, !.parts = S])
        BY DEF Idle, Goroutine, Pcs, Consistent
    <2>2. QED
        BY <1>6, <2>1 DEF NotifyMsg, Go, TypeOK
<1>7. ASSUME NEW w \in Workers, Diff(w) PROVE TypeOK'
    <2> DEFINE g == work[w]
               d == [g EXCEPT !.parts = {},
                              !.listed = NewListed(g.peer, g.parts),
                              !.fresh = NewFresh(g.peer, g.parts),
                              !.gone = Removed(g.peer, g.parts)]
               next == AfterDiff(d.listed \cup d.fresh, d.gone)
    <2>0. g \in Goroutine /\ g.peer \in Peers
        BY <1>7 DEF Diff, TypeOK, Consistent
    <2>1. d \in Goroutine /\ Consistent(d) /\ d.peer = g.peer
        BY <2>0, DiffType
    <2>2. next \in Pcs
        BY DEF AfterDiff, Pcs
    <2>3. work' = [work EXCEPT ![w] = At(d, next)]
          /\ UNCHANGED <<peerVars, netVars, mapVars, lockVars, changes>>
        BY <1>7 DEF Diff
    <2> HIDE DEF d, next, g
    <2>4. At(d, next) \in Goroutine /\ Consistent(At(d, next))
        BY <2>0, <2>1, <2>2, AtType
    <2>5. QED
        BY <2>3, <2>4 DEF TypeOK
<1>8. ASSUME NEW w \in Workers, Lock(w) PROVE TypeOK'
    BY <1>8 DEF Lock, TypeOK
<1>9. ASSUME NEW w \in Workers, Remove(w) PROVE TypeOK'
    <2>1. PICK next \in Pcs : Section(w, "remove", next)
        BY <1>9 DEF Remove, Pcs
    <2>2. remote' \in [Parts -> SUBSET Peers] /\ known' = known
        BY <1>9 DEF Remove, TypeOK
    <2>3. QED
        BY <2>1, <2>2, SectionType DEF TypeOK, Pcs
<1>10. ASSUME NEW w \in Workers, Leave(w) PROVE TypeOK'
    <2>1. Section(w, "leave", "idle")
        BY <1>10 DEF Leave
    <2>2. remote' \in [Parts -> SUBSET Peers] /\ known' = known
        BY <1>10 DEF Leave, TypeOK
    <2>3. QED
        BY <2>1, <2>2, SectionType DEF TypeOK, Pcs
<1>11. ASSUME NEW w \in Workers, NEW S \in SUBSET Parts, Add(w, S) PROVE TypeOK'
    <2>1. Section(w, "add", "idle")
        BY <1>11 DEF Add
    <2>2. work[w].peer \in Peers
        BY <1>11 DEF Add, Section, TypeOK, Consistent
    <2>3. remote' \in [Parts -> SUBSET Peers] /\ known' \subseteq Parts
        BY <1>11, <2>2 DEF Add, TypeOK
    <2>4. QED
        BY <2>1, <2>3, SectionType DEF TypeOK, Pcs
<1>12. ASSUME NEW c \in Callers, RLock(c) \/ Return(c) PROVE TypeOK'
    BY <1>12 DEF RLock, Return, TypeOK
<1>13. CASE UNCHANGED vars
    BY <1>13 DEF vars, TypeOK
<1>14. QED
    BY <1>1, <1>2, <1>3, <1>4, <1>5, <1>6, <1>7, <1>8, <1>9, <1>10, <1>11, <1>12, <1>13
       DEF Next, Handle

-----------------------------------------------------------------------------
(* What a peer keeps                                                       *)

(* A goroutine that handles an advertisement of m has not been told, and   *)
(* has not concluded, that m lost what it kept.                            *)
Innocent(g, m) ==
    g.peer = m =>
        /\ g.pc = "diff" => kept[m] \subseteq g.parts
        /\ g.gone \cap kept[m] = {}

(* Whatever m advertised, and whatever was made of it, however long ago,   *)
(* has all partitions m managed ever since.                                *)
KeptInv ==
    \A m \in Peers :
        /\ kept[m] \subseteq holds[m]
        /\ \A S \in transit[m] : kept[m] \subseteq S
        /\ \A w \in Workers : Innocent(work[w], m)

(* An innocent goroutine stays so when it moves on. *)
LEMMA AtInnocent ==
    ASSUME NEW g \in Goroutine, NEW m \in Peers, NEW pc \in Pcs \ {"diff"}, Innocent(g, m)
    PROVE  Innocent(At(g, pc), m)
BY NobodyIsNobody DEF At, Innocent, Goroutine, Idle

(* Peers only ever lose what they kept, so old advertisements stay true of *)
(* it, and a difference removes only what an advertisement lacks.          *)
LEMMA KeptStep == TypeOK /\ KeptInv /\ [Next]_vars => KeptInv'
<1> SUFFICES ASSUME TypeOK, KeptInv, [Next]_vars, NEW m \in Peers
             PROVE  /\ kept'[m] \subseteq holds'[m]
                    /\ \A S \in transit'[m] : kept'[m] \subseteq S
                    /\ \A w \in Workers : Innocent(work[w], m)'
    BY DEF KeptInv
<1> DEFINE Goal == /\ kept'[m] \subseteq holds'[m]
                   /\ \A S \in transit'[m] : kept'[m] \subseteq S
                   /\ \A w \in Workers : Innocent(work[w], m)'
<1>m. /\ kept[m] \subseteq holds[m]
      /\ \A S \in transit[m] : kept[m] \subseteq S
      /\ \A w \in Workers : Innocent(work[w], m)
    BY DEF KeptInv
<1> USE DEF peerVars, netVars, mapVars, lockVars
<1>1. ASSUME NEW n \in Peers, Advertise(n) PROVE Goal
    BY <1>1, <1>m DEF Advertise, TypeOK, Innocent
<1>2. ASSUME NEW n \in Peers, NotifyJoin(n) \/ Restart(n) PROVE Goal
    BY <1>2, <1>m DEF NotifyJoin, Restart, Innocent
<1>3. ASSUME NEW n \in Peers, Stop(n) \/ \E S \in SUBSET Parts : Move(n, S) PROVE Goal
    <2>1. kept'[m] \subseteq kept[m] /\ kept'[m] \subseteq holds'[m]
        BY <1>3, <1>m DEF Stop, Move, TypeOK
    <2>2. UNCHANGED <<transit, work>>
        BY <1>3 DEF Stop, Move
    <2>3. QED
        BY <2>1, <2>2, <1>m DEF Innocent
<1>4. ASSUME NEW n \in Peers, NEW S \in SUBSET Parts, Exhaust(n, S) PROVE Goal
    BY <1>4, <1>m DEF Exhaust, TypeOK, Innocent
<1>w. ASSUME NEW w \in Workers, NEW g, work' = [work EXCEPT ![w] = g],
             Innocent(g, m), UNCHANGED <<peerVars, transit>>
      PROVE  Goal
    <2>1. \A v \in Workers : work'[v] = work[v] \/ work'[v] = g
        BY <1>w DEF TypeOK
    <2>2. ASSUME NEW v \in Workers PROVE Innocent(work[v], m)'
        BY <2>1, <1>m, <1>w DEF Innocent
    <2>3. QED
        BY <2>2, <1>m, <1>w
<1>5. ASSUME NEW w \in Workers, NEW n \in Peers, NotifyLeave(w, n) PROVE Goal
    <2>1. Innocent([Idle EXCEPT !.pc = "leave", !.peer = n], m)
        BY DEF Innocent, Idle
    <2>2. QED
        BY <1>5, <2>1, <1>w DEF NotifyLeave, Go
<1>6. ASSUME NEW w \in Workers, NEW n \in Peers, NEW S \in SUBSET Parts, NotifyMsg(w, n, S)
      PROVE  Goal
    <2>1. Innocent([Idle EXCEPT !.pc = "diff", !.peer = n, !.parts = S], m)
        BY <1>6, <1>m DEF NotifyMsg, Innocent, Idle
    <2>2. QED
        BY <1>6, <2>1, <1>w DEF NotifyMsg, Go
<1>7. ASSUME NEW w \in Workers, Diff(w) PROVE Goal
    <2> DEFINE g == work[w]
               d == [g EXCEPT !.parts = {},
                              !.listed = NewListed(g.peer, g.parts),
                              !.fresh = NewFresh(g.peer, g.parts),
                              !.gone = Removed(g.peer, g.parts)]
               next == AfterDiff(d.listed \cup d.fresh, d.gone)
    <2>0. g \in Goroutine /\ g.peer \in Peers /\ g.pc = "diff"
        BY <1>7 DEF Diff, TypeOK, Consistent
    <2>1. d \in Goroutine /\ d.peer = g.peer /\ d.gone = Removed(g.peer, g.parts)
        BY <2>0, DiffType DEF Goroutine
    <2>2. next \in Pcs \ {"diff"} /\ (next = "add" => d.gone = {})
        BY DEF AfterDiff, Pcs
    <2>3. work' = [work EXCEPT ![w] = At(d, next)] /\ UNCHANGED <<peerVars, transit>>
        BY <1>7 DEF Diff
    <2>4. g.peer = m => kept[m] \subseteq g.parts
        BY <2>0, <1>m DEF Innocent
    <2>5. d.peer = m => d.gone \cap kept[m] = {}
        BY <2>1, <2>4 DEF Removed
    <2> HIDE DEF d, next, g
    <2>6. Innocent(At(d, next), m)
        BY <2>1, <2>2, <2>5, NobodyIsNobody DEF Innocent, At, Idle, Goroutine
    <2>7. QED
        BY <2>3, <2>6, <1>w
<1>8. ASSUME NEW w \in Workers, NEW pc, NEW next \in Pcs \ {"diff"}, Section(w, pc, next)
      PROVE  Goal
    <2>1. Innocent(At(work[w], next), m)
        BY AtInnocent, <1>m DEF TypeOK
    <2>2. work' = [work EXCEPT ![w] = At(work[w], next)] /\ UNCHANGED <<peerVars, transit>>
        BY <1>8 DEF Section, TypeOK
    <2>3. QED
        BY <2>1, <2>2, <1>w
<1>9. ASSUME NEW w \in Workers,
             Remove(w) \/ Leave(w) \/ \E S \in SUBSET Parts : Add(w, S)
      PROVE  Goal
    BY <1>9, <1>8 DEF Remove, Leave, Add, Pcs
<1>10. ASSUME NEW w \in Workers, Lock(w) PROVE Goal
    BY <1>10, <1>m DEF Lock, Innocent
<1>11. ASSUME NEW c \in Callers, RLock(c) \/ Return(c) PROVE Goal
    BY <1>11, <1>m DEF RLock, Return, Innocent
<1>12. ASSUME UNCHANGED vars PROVE Goal
    BY <1>12, <1>m DEF vars, Innocent
<1>13. Goal
    <2> HIDE DEF Goal
    <2>1. ASSUME NEW n \in Peers,
                 \/ Advertise(n) \/ Stop(n) \/ Restart(n) \/ NotifyJoin(n)
                 \/ \E S \in SUBSET Parts : Move(n, S) \/ Exhaust(n, S)
          PROVE  Goal
        BY <2>1, <1>1, <1>2, <1>3, <1>4
    <2>2. ASSUME NEW w \in Workers, Handle(w) PROVE Goal
        BY <2>2, <1>7, <1>9, <1>10 DEF Handle
    <2>3. ASSUME NEW w \in Workers, NEW n \in Peers,
                 NotifyLeave(w, n) \/ \E S \in SUBSET Parts : NotifyMsg(w, n, S)
          PROVE  Goal
        BY <2>3, <1>5, <1>6
    <2>4. QED
        BY <2>1, <2>2, <2>3, <1>11, <1>12 DEF Next
<1>14. QED
    BY <1>13

-----------------------------------------------------------------------------
(* Results                                                                 *)

(* The state keeps its type, and no goroutine adds and removes the same    *)
(* partition, whatever the map looks like by the time it does              *)
(* (handleDelegateMsg).                                                    *)
THEOREM GossipTyped == Spec => []TypeOK
<1>1. Init => TypeOK
    BY BoundsType DEF Init, TypeOK, Idle, Goroutine, Pcs, Consistent
<1>2. QED
    BY <1>1, NextTyped, PTL DEF Spec

(* For every order in which advertisements, removals and additions         *)
(* overtake each other: an address leaves the entry of a partition its     *)
(* node kept managing only by a leave (removeRemotePartitions).            *)
THEOREM KeptPartitionsStayListed == Spec => KeptListed
<1>1. Init => KeptInv
    <2> SUFFICES ASSUME Init PROVE KeptInv
        OBVIOUS
    <2>1. /\ \A m \in Peers : kept[m] \subseteq holds[m] /\ transit[m] = {}
          /\ \A w \in Workers : work[w] = Idle
        BY DEF Init
    <2>2. \A m \in Peers : Innocent(Idle, m)
        BY NobodyIsNobody DEF Innocent, Idle
    <2>3. QED
        BY <2>1, <2>2 DEF KeptInv
<1>2. TypeOK /\ KeptInv /\ [Next]_vars => KeptInv'
    BY KeptStep
<1>3. TypeOK /\ KeptInv /\ [Next]_vars =>
        [\A m \in Peers : \A p \in kept[m] :
            Lists(p, m) /\ m \notin remote'[p] =>
                \E w \in Workers : work[w].pc = "leave" /\ work[w].peer = m]_vars
    <2> SUFFICES ASSUME TypeOK, KeptInv, [Next]_vars, NEW m \in Peers, NEW p \in kept[m],
                        m \in remote[p], m \notin remote'[p]
                 PROVE  \E w \in Workers : work[w].pc = "leave" /\ work[w].peer = m
        BY DEF Lists
    <2>0. p \in Parts
        BY DEF TypeOK
    <2> USE DEF peerVars, netVars, mapVars, lockVars
    <2>1. ASSUME NEW w \in Workers, Remove(w) PROVE FALSE
        <3>1. p \in work[w].gone /\ work[w].peer = m
            BY <2>0, <2>1 DEF Remove, TypeOK
        <3>2. QED
            BY <3>1 DEF KeptInv, Innocent
    <2>2. ASSUME NEW w \in Workers, NEW S \in SUBSET Parts, Add(w, S) PROVE FALSE
        BY <2>0, <2>2 DEF Add, TypeOK
    <2>3. ASSUME NEW w \in Workers, Leave(w)
          PROVE  work[w].pc = "leave" /\ work[w].peer = m
        BY <2>0, <2>3 DEF Leave, Section, TypeOK
    <2>4. CASE remote' = remote
        BY <2>4
    <2>5. \/ remote' = remote
          \/ \E w \in Workers : Remove(w) \/ Leave(w) \/ \E S \in SUBSET Parts : Add(w, S)
        BY DEF Next, Handle, vars, Advertise, Stop, Restart, NotifyJoin, Move, Exhaust, Diff,
               Lock, NotifyLeave, NotifyMsg, RLock, Return
    <2>6. QED
        BY <2>1, <2>2, <2>3, <2>4, <2>5
<1>4. QED
    BY <1>1, <1>2, <1>3, GossipTyped, PTL DEF Spec, KeptListed
=============================================================================
