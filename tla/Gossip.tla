------------------------------- MODULE Gossip -------------------------------
(***************************************************************************)
(* What one node knows about the partitions of its peers.                  *)
(* (gossip/gossip_manager.go, delegate.go, event_delegate.go)              *)
(*                                                                         *)
(* Every node advertises the partitions it manages, again and again; the   *)
(* observer keeps a map from partitions to addresses.  Each advertisement  *)
(* and each leave is handled in a goroutine of its own, and an             *)
(* advertisement in up to three critical sections of remotePartMu: the     *)
(* difference to the map, the removals, the additions.  Reads ask for a    *)
(* random address under the same lock.  The maps of different nodes share  *)
(* nothing, so one observer is enough.                                     *)
(*                                                                         *)
(* memberlist is external: an advertisement is sent several times over UDP *)
(* (TransmitLimitedQueue), so it is lost, repeated or overtaken by later   *)
(* ones; deaths are noticed late, and sometimes where there was none.      *)
(***************************************************************************)
EXTENDS Integers

CONSTANTS
    Peers,      \* the other nodes, known by their address
    Parts,      \* partitions
    Workers,    \* slots for goroutines of NotifyMsg and NotifyLeave
    Callers,    \* slots for calls of GetRandomRemotePartition
    Nobody,     \* no worker holds or waits for the write lock; no peer
    MaxChanges  \* bound on events among the peers: one changes what it
                \* manages, stops, or is taken for dead while it lives

ASSUME NobodyIsNobody == Nobody \notin Workers \cup Peers

ASSUME BoundsType == MaxChanges \in Nat

VARIABLES
    alive,      \* peers whose process runs
    holds,      \* holds[m]: the PartitionIDs of m's PartitionManager
    member,     \* peers that memberlist counts as members
    transit,    \* transit[m]: advertisements of m that may still arrive
    kept,       \* kept[m]: partitions m managed all the time (history)
    known,      \* the keys of remotePartitions
    remote,     \* remote[p]: the addresses listed for p
    work,       \* work[w]: a goroutine and its local variables
    writer,     \* the worker that waits in remotePartMu.Lock
    reading,    \* callers between the two RLocks of a lookup
    changes     \* how many of these events happened

peerVars == <<alive, holds, kept>>
netVars == <<member, transit>>
mapVars == <<known, remote>>
lockVars == <<writer, reading>>
vars == <<peerVars, netVars, mapVars, lockVars, changes, work>>

Pcs == {"idle", "diff", "remove", "add", "leave"}

(* fresh and listed are newPartitions: the ones whose key was not in the   *)
(* map, which come last, and the others; gone is removedPartitions.        *)
Goroutine ==
    [pc : Pcs, peer : Peers \cup {Nobody}, parts : SUBSET Parts,
     listed : SUBSET Parts, fresh : SUBSET Parts, gone : SUBSET Parts]

Idle == [pc |-> "idle", peer |-> Nobody, parts |-> {},
         listed |-> {}, fresh |-> {}, gone |-> {}]

(* A goroutine works for a peer, and no partition is both added and        *)
(* removed, or added twice.                                                *)
Consistent(g) ==
    /\ g.pc # "idle" => g.peer \in Peers
    /\ g.listed \cap g.fresh = {}
    /\ g.gone \cap (g.listed \cup g.fresh) = {}

(* The types of the variables; a goroutine has what its next section needs *)
(* (handleDelegateMsg).                                                    *)
TypeOK ==
    /\ alive \subseteq Peers
    /\ holds \in [Peers -> SUBSET Parts]
    /\ member \subseteq Peers
    /\ transit \in [Peers -> SUBSET SUBSET Parts]
    /\ kept \in [Peers -> SUBSET Parts]
    /\ known \subseteq Parts
    /\ remote \in [Parts -> SUBSET Peers]
    /\ work \in [Workers -> Goroutine]
    /\ \A w \in Workers : Consistent(work[w])
    /\ writer \in Workers \cup {Nobody}
    /\ reading \subseteq Callers
    /\ changes \in 0 .. MaxChanges

Init ==
    /\ alive = Peers
    /\ holds \in [Peers -> SUBSET Parts]
    /\ member = Peers
    /\ transit = [m \in Peers |-> {}]
    /\ kept = holds
    /\ known = {}
    /\ remote = [p \in Parts |-> {}]
    /\ work = [w \in Workers |-> Idle]
    /\ writer = Nobody
    /\ reading = {}
    /\ changes = 0

-----------------------------------------------------------------------------
(* The peers                                                               *)

Count ==
    /\ changes < MaxChanges
    /\ changes' = changes + 1

(* topicInfoLoop of m changes what m manages. *)
Move(m, S) ==
    /\ m \in alive
    /\ S # holds[m]
    /\ Count
    /\ holds' = [holds EXCEPT ![m] = S]
    /\ kept' = [kept EXCEPT ![m] = @ \cap S]
    /\ UNCHANGED <<alive, netVars, mapVars, lockVars, work>>

(* broadcastAdvertiseMessage, on every tick and whenever a node joins. *)
Advertise(m) ==
    /\ m \in alive
    /\ transit' = [transit EXCEPT ![m] = @ \cup {holds[m]}]
    /\ UNCHANGED <<member, peerVars, mapVars, lockVars, changes, work>>

(* The last transmission of an advertisement is over. *)
Exhaust(m, S) ==
    /\ S \in transit[m]
    /\ transit' = [transit EXCEPT ![m] = @ \ {S}]
    /\ UNCHANGED <<member, peerVars, mapVars, lockVars, changes, work>>

(* The process of m ends, by a crash or by Manager.Shutdown, whose Leave   *)
(* reaches the others no sooner than a timeout does.                       *)
Stop(m) ==
    /\ m \in alive
    /\ Count
    /\ alive' = alive \ {m}
    /\ holds' = [holds EXCEPT ![m] = {}]
    /\ kept' = [kept EXCEPT ![m] = {}]
    /\ UNCHANGED <<netVars, mapVars, lockVars, work>>

Restart(m) ==
    /\ m \notin alive
    /\ alive' = alive \cup {m}
    /\ UNCHANGED <<holds, kept, netVars, mapVars, lockVars, changes, work>>

-----------------------------------------------------------------------------
(* memberlist's callbacks on the observer: each starts a goroutine         *)

Go(w, g) ==
    /\ work[w] = Idle
    /\ work' = [work EXCEPT ![w] = g]

(* An advertisement arrives; it may arrive again. *)
NotifyMsg(w, m, S) ==
    /\ S \in transit[m]
    /\ Go(w, [Idle EXCEPT !.pc = "diff", !.peer = m, !.parts = S])
    /\ UNCHANGED <<peerVars, netVars, mapVars, lockVars, changes>>

(* m is believed dead: it is, or its heartbeats were late. *)
NotifyLeave(w, m) ==
    /\ m \in member
    /\ IF m \in alive THEN Count ELSE UNCHANGED changes
    /\ member' = member \ {m}
    /\ Go(w, [Idle EXCEPT !.pc = "leave", !.peer = m])
    /\ UNCHANGED <<transit, peerVars, mapVars, lockVars>>

(* The observer's answer, an advertisement of its own, is for others. *)
NotifyJoin(m) ==
    /\ m \in alive
    /\ m \notin member
    /\ member' = member \cup {m}
    /\ UNCHANGED <<transit, peerVars, mapVars, lockVars, changes, work>>

-----------------------------------------------------------------------------
(* handleDelegateMsg                                                       *)

Lists(p, m) == m \in remote[p]

(* newPartitions of checkForPartitionDifference: the first loop finds the  *)
(* ones with a key, the second the ones without.                           *)
NewListed(m, S) == {p \in known \cap S : ~ Lists(p, m)}

FreshUnchecked(m, S) == S

NewFresh(m, S) == S \ known

RemovedNever(m, S) == {}

RemovedAll(m, S) == {p \in known : Lists(p, m)}

Removed(m, S) == {p \in known \ S : Lists(p, m)}

(* The branch of handleDelegateMsg taken next. *)
AfterDiff(new, gone) ==
    CASE gone # {}              -> "remove"
      [] gone = {} /\ new # {}  -> "add"
      [] gone = {} /\ new = {}  -> "idle"

(* A goroutine that has returned leaves its slot. *)
At(g, pc) ==
    IF pc = "idle" THEN Idle
    ELSE [g EXCEPT !.pc = pc, !.gone = IF pc = "add" THEN {} ELSE @]

(* checkForPartitionDifference, under the read lock. *)
Diff(w) ==
    LET g == work[w]
        d == [g EXCEPT !.parts = {},
                       !.listed = NewListed(g.peer, g.parts),
                       !.fresh = NewFresh(g.peer, g.parts),
                       !.gone = Removed(g.peer, g.parts)]
    IN  /\ g.pc = "diff"
        /\ writer = Nobody
        /\ work' = [work EXCEPT ![w] = At(d, AfterDiff(d.listed \cup d.fresh, d.gone))]
        /\ UNCHANGED <<peerVars, netVars, mapVars, lockVars, changes>>

(* RWMutex.Lock while readers are in: from now on every RLock waits. *)
Lock(w) ==
    /\ work[w].pc \in {"remove", "add", "leave"}
    /\ reading # {}
    /\ writer = Nobody
    /\ writer' = w
    /\ UNCHANGED <<reading, peerVars, netVars, mapVars, changes, work>>

(* The critical section at pc, when no reader is in. *)
Section(w, pc, next) ==
    /\ writer \in {Nobody, w}
    /\ reading = {}
    /\ work[w].pc = pc
    /\ writer' = Nobody
    /\ work' = [work EXCEPT ![w] = At(@, next)]
    /\ UNCHANGED <<reading, peerVars, netVars, changes>>

(* removeRemotePartitions: every key of gone is in the map, and stays. *)
Remove(w) ==
    LET g == work[w] IN
    /\ Section(w, "remove", IF g.listed \cup g.fresh # {} THEN "add" ELSE "idle")
    /\ remote' = [p \in Parts |-> IF p \in g.gone THEN remote[p] \ {g.peer}
                                                 ELSE remote[p]]
    /\ UNCHANGED known

AddedNone(g, S) == S = g.listed

(* How far addRemotePartitions gets: it returns after the first partition  *)
(* it has to make a key for.  The ones that had a key at the time of the   *)
(* difference come first, the others in any order; another goroutine may   *)
(* have made their keys by now.                                            *)
Added(g, S) ==
    \/ g.fresh \subseteq known /\ S = g.listed \cup g.fresh
    \/ \E q \in g.fresh \ known, T \in SUBSET (g.fresh \cap known) :
         S = g.listed \cup T \cup {q}

Add(w, S) ==
    LET g == work[w] IN
    /\ Section(w, "add", "idle")
    /\ Added(g, S)
    /\ known' = known \cup S
    /\ remote' = [p \in Parts |-> IF p \in S THEN remote[p] \cup {g.peer}
                                             ELSE remote[p]]

LeftNone(m) == {}

(* The partitions removePartitionsForAddr collects. *)
Left(m) == {p \in known : Lists(p, m)}

Leave(w) ==
    LET m == work[w].peer IN
    /\ Section(w, "leave", "idle")
    /\ remote' = [p \in Parts |-> IF p \in Left(m) THEN remote[p] \ {m} ELSE remote[p]]
    /\ UNCHANGED known

Handle(w) ==
    \/ Diff(w) \/ Lock(w) \/ Remove(w) \/ Leave(w)
    \/ \E S \in SUBSET Parts : Add(w, S)

-----------------------------------------------------------------------------
(* GetRandomRemotePartition                                                *)

RLock(c) ==
    /\ c \notin reading
    /\ writer = Nobody
    /\ reading' = reading \cup {c}
    /\ UNCHANGED <<writer, peerVars, netVars, mapVars, changes, work>>

(* getRemotePartitions takes the read lock a second time, which a writer   *)
(* that waits for the first to be released keeps it from; then both are    *)
(* released and an address of the list, or none, is returned.              *)
Return(c) ==
    /\ c \in reading
    /\ writer = Nobody
    /\ reading' = reading \ {c}
    /\ UNCHANGED <<writer, peerVars, netVars, mapVars, changes, work>>

-----------------------------------------------------------------------------

Next ==
    \/ \E m \in Peers :
         \/ Advertise(m) \/ Stop(m) \/ Restart(m) \/ NotifyJoin(m)
         \/ \E S \in SUBSET Parts : Move(m, S) \/ Exhaust(m, S)
    \/ \E w \in Workers :
         \/ Handle(w)
         \/ \E m \in Peers :
              NotifyLeave(w, m) \/ \E S \in SUBSET Parts : NotifyMsg(w, m, S)
    \/ \E c \in Callers : RLock(c) \/ Return(c)

Spec == Init /\ [][Next]_vars

(* The ticker ticks, goroutines run, an advertisement is transmitted a     *)
(* limited number of times, deaths and returns are noticed in the end.     *)
(* What is advertised again and again gets through again and again (SF:    *)
(* memberlist picks its targets at random and UDP loses some packets).     *)
(* Slots are a bound of the model, so a callback only needs one to be free *)
(* now and then (SF).                                                      *)
Fairness ==
    /\ \A m \in Peers :
        /\ WF_vars(Advertise(m))
        /\ WF_vars(NotifyJoin(m))
        /\ SF_vars(m \notin alive /\ \E w \in Workers : NotifyLeave(w, m))
        /\ \A S \in SUBSET Parts :
            /\ WF_vars(Exhaust(m, S))
            /\ SF_vars(\E w \in Workers : NotifyMsg(w, m, S))
    /\ \A w \in Workers : WF_vars(Handle(w))
    /\ \A c \in Callers : WF_vars(Return(c))

FairSpec == Spec /\ Fairness

-----------------------------------------------------------------------------
(* Properties                                                              *)

(* A lookup and a writer wait for each other: the lookup for the writer to *)
(* be done, in its second RLock, the writer for the first to be released.  *)
Wedged == writer # Nobody /\ reading # {}

(* A partition that m has managed all the time is never dropped from m's   *)
(* entries by an advertisement, however stale, repeated or overtaken: it   *)
(* goes out only while a leave of m is under way                           *)
(* (checkForPartitionDifference, removeRemotePartitions).                  *)
KeptListed ==
    [][\A m \in Peers : \A p \in kept[m] :
        Lists(p, m) /\ m \notin remote'[p] =>
            \E w \in Workers : work[w].pc = "leave" /\ work[w].peer = m]_vars

(* The partitions a live peer keeps end up in the map, and stay, although  *)
(* addRemotePartitions gives up half-way, differences are stale when they  *)
(* are applied, old advertisements arrive late and the peer may have been  *)
(* taken for dead; as long as no lookup gets wedged.                       *)
AddressesAppear ==
    [](~ Wedged) =>
        \A m \in Peers, p \in Parts :
            <>[](m \in alive /\ p \in holds[m]) => <>[]Lists(p, m)

(* The partitions a live peer has lost leave the map for good, although an *)
(* older advertisement may be handled after a newer one                    *)
(* (removeRemotePartitions).                                               *)
AddressesDisappear ==
    [](~ Wedged) =>
        \A m \in Peers, p \in Parts :
            <>[](m \in alive /\ p \notin holds[m]) => <>[]~ Lists(p, m)

(* Nothing that m advertised is under way. *)
Quiet(m) ==
    /\ transit[m] = {}
    /\ \A w \in Workers : work[w].peer = m => work[w].pc = "leave"

(* A peer that is gone for good leaves the map, if none of its             *)
(* advertisements is under way while it is not a member.  Without that     *)
(* condition a late one puts it back and nothing removes it                *)
(* (removePartitionsForAddr).                                              *)
GoneEvicted ==
    \A m \in Peers :
        [](~ Wedged /\ (m \notin member => Quiet(m))) =>
            (<>[](m \notin alive) => <>[](\A p \in Parts : ~ Lists(p, m)))
=============================================================================
