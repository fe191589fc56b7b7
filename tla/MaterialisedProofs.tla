------------------------- MODULE MaterialisedProofs -------------------------
(* Every copy that met none of the four faults is a materialised prefix of *)
(* the log, for every instance, every timing and every `if' statement.     *)
EXTENDS LogConsumerProofs

(* The part of a step that concerns the copy of q at j: the rows the log   *)
(* has had so far stay, and what the invariant speaks of does not move.    *)
HistoryKept(q) ==
    /\ Len(log[q]) <= Len(log'[q])
    /\ \A h \in 0 .. Len(log[q]) : StateAfter(q, h)' = StateAfter(q, h)

LEMMA Frame ==
    ASSUME TypeOK, NEW j \in Nodes, NEW q \in Parts, CopyInv(j, q),
           Len(log'[q]) \in Nat, HistoryKept(q),
           disk'[j][q] = disk[j][q],
           fetched'[j][q] = fetched[j][q],
           position'[j][q] = position[j][q],
           faults'[j][q] = faults[j][q],
           q \in managed'[j] => q \in managed[j],
           Rewinding(j, q)' <=> Rewinding(j, q),
           Rewinding(j, q) => reset'[j][q] = reset[j][q],
           Rewinding(j, q) => (q \in paused[j] => q \in paused'[j]),
           pc'[j] = "pause" /\ q \in news'[j] => q \notin managed'[j]
    PROVE  CopyInv(j, q)'
<1>1. Len(log[q]) \in Nat
  BY DEF TypeOK
<1>2. disk[j][q] # NoDB => disk[j][q].off \in Nat \cup {-1}
  BY DEF TypeOK, DB, NoOffset
<1>3. fetched[j][q].from \in Nat /\ fetched[j][q].to \in Nat
  BY DEF TypeOK
<1>4. position[j][q] \in Nat \cup {-1}
  BY DEF TypeOK, NoOffset
<1>5. ASSUME NEW h \in Nat, disk[j][q] # NoDB, Applied(disk[j][q], q, h)
      PROVE  Applied(disk[j][q], q, h)'
  BY <1>1, <1>5 DEF Applied, HistoryKept
<1>6. disk[j][q] # NoDB /\ faults[j][q] = {} => IsPrefixOf(disk[j][q], q)'
  <2> SUFFICES ASSUME disk[j][q] # NoDB, faults[j][q] = {} PROVE IsPrefixOf(disk[j][q], q)'
    OBVIOUS
  <2>1. IsPrefixOf(disk[j][q], q)
    BY DEF CopyInv
  <2>2. disk[j][q].off + 1 \in 0 .. Len(log[q])
    BY <1>1, <1>2, <2>1 DEF IsPrefixOf
  <2> QED  BY <1>1, <1>2, <2>1, <2>2 DEF IsPrefixOf, HistoryKept
<1>7. ASSUME q \in managed'[j], faults[j][q] = {}  PROVE OpenCopyInv(j, q)'
  <2>1. OpenCopyInv(j, q) /\ disk[j][q] # NoDB
    BY <1>7 DEF CopyInv
  <2>2. Pending(j, q)' <=> Pending(j, q)
    BY DEF Pending
  <2>3. Pending(j, q) => /\ Applied(disk[j][q], q, fetched[j][q].from)'
                         /\ fetched[j][q].to <= Len(log'[q])
    BY <1>1, <1>3, <1>5, <2>1 DEF OpenCopyInv, HistoryKept
  <2>4. ~ Rewinding(j, q) /\ position[j][q] # NoOffset =>
          IF Pending(j, q) THEN position[j][q] = fetched[j][q].to
                           ELSE Applied(disk[j][q], q, position[j][q])'
    BY <1>4, <1>5, <2>1 DEF OpenCopyInv, NoOffset
  <2> QED  BY <1>7, <2>1, <2>2, <2>3, <2>4 DEF OpenCopyInv
<1> QED  BY <1>6, <1>7 DEF CopyInv

(* Of a copy that met a fault only the places of the loop are known. *)
LEMMA Faulted ==
    ASSUME NEW j \in Nodes, NEW q \in Parts, faults'[j][q] # {}, disk'[j][q] # NoDB,
           pc'[j] = "pause" /\ q \in news'[j] => q \notin managed'[j],
           Rewinding(j, q)' => q \in paused'[j]
    PROVE  CopyInv(j, q)'
BY DEF CopyInv

(* Steps that leave the log alone keep all of the history. *)
LEMMA LogUnchanged ==
    ASSUME TypeOK, UNCHANGED <<log, states>>, NEW q \in Parts
    PROVE  Len(log'[q]) \in Nat /\ HistoryKept(q)
BY DEF TypeOK, HistoryKept, StateAfter

(* A step of n does not concern the copies of another node. *)
LEMMA OtherNode ==
    ASSUME TypeOK, UNCHANGED <<log, states>>,
           NEW j \in Nodes, NEW q \in Parts, CopyInv(j, q),
           faults'[j] = faults[j],
           disk'[j] = disk[j], fetched'[j] = fetched[j], position'[j] = position[j],
           managed'[j] = managed[j], paused'[j] = paused[j], reset'[j] = reset[j],
           news'[j] = news[j], pc'[j] = pc[j]
    PROVE  CopyInv(j, q)'
BY Frame, LogUnchanged DEF CopyInv, Rewinding

-----------------------------------------------------------------------------
(* The environment                                                         *)

LEMMA ProduceKeepsHistory ==
    ASSUME SafeInv, NEW p \in Parts, NEW m \in Mutations, Produce(p, m),
           \A q \in Parts : HistoryInv(q), NEW q \in Parts
    PROVE  HistoryInv(q)' /\ Len(log'[q]) \in Nat /\ HistoryKept(q)
<1>1. log \in [Parts -> Seq(Mutations)] /\ states \in [Parts -> Seq(Contents)]
  BY DEF SafeInv, Typed, TypeOK
<1>2. Len(log[q]) \in Nat /\ Len(states[q]) = Len(log[q]) + 1
  BY <1>1 DEF HistoryInv
<1>3. CASE q # p
  <2>1. log'[q] = log[q] /\ states'[q] = states[q]
    BY <1>1, <1>3 DEF Produce
  <2> QED  BY <1>2, <2>1 DEF HistoryInv, HistoryKept, StateAfter
<1>4. CASE q = p
  <2> DEFINE kv == HandleMutation(StateAfter(p, Len(log[p])), m)
  <2>0. kv \in Contents
    <3>1. StateAfter(p, Len(log[p])) \in Contents
      BY <1>1, <1>2, <1>4 DEF StateAfter
    <3> QED  BY <3>1, HandleMutationType
  <2>1. log'[p] = Append(log[p], m) /\ states'[p] = Append(states[p], kv)
    BY <1>1 DEF Produce
  <2>k. kv = HandleMutation(states[p][Len(log[p]) + 1], m)
    BY DEF StateAfter
  <2> HIDE DEF kv
  <2>2. /\ Len(log'[p]) = Len(log[p]) + 1
        /\ \A i \in 1 .. Len(log[p]) : log'[p][i] = log[p][i]
        /\ log'[p][Len(log[p]) + 1] = m
    BY <1>1, <2>1
  <2>3. /\ Len(states'[p]) = Len(states[p]) + 1
        /\ \A i \in 1 .. Len(states[p]) : states'[p][i] = states[p][i]
        /\ states'[p][Len(states[p]) + 1] = kv
    BY <1>1, <2>0, <2>1
  <2>4. HistoryKept(p)
    BY <1>2, <1>4, <2>2, <2>3 DEF HistoryKept, StateAfter
  <2>5. HistoryInv(p)'
    <3>1. Len(states'[p]) = Len(log'[p]) + 1 /\ states'[p][1] = Empty
      BY <1>2, <1>4, <2>2, <2>3 DEF HistoryInv
    <3>2. ASSUME NEW i \in 1 .. Len(log'[p])
          PROVE  states'[p][i + 1] = HandleMutation(states'[p][i], log'[p][i])
      <4>1. CASE i \in 1 .. Len(log[p])
        <5>1. states[p][i + 1] = HandleMutation(states[p][i], log[p][i])
          BY <4>1 DEF HistoryInv
        <5>2. /\ states'[p][i + 1] = states[p][i + 1]
              /\ states'[p][i] = states[p][i]
              /\ log'[p][i] = log[p][i]
          BY <1>2, <1>4, <2>2, <2>3, <4>1
        <5> QED  BY <5>1, <5>2
      <4>2. CASE i = Len(log[p]) + 1
        BY <1>2, <1>4, <2>k, <2>2, <2>3, <4>2
      <4> QED  BY <1>2, <1>4, <2>2, <4>1, <4>2
    <3> QED  BY <3>1, <3>2 DEF HistoryInv
  <2> QED  BY <1>2, <1>4, <2>2, <2>4, <2>5
<1> QED  BY <1>3, <1>4

LEMMA EnvironmentKeepsCopies ==
    ASSUME SafeInv, InductiveInv, Environment,
           NEW j \in Nodes, NEW q \in Parts
    PROVE  CopyInv(j, q)'
<1>t. TypeOK
  BY DEF SafeInv, Typed
<1>c. CopyInv(j, q)
  BY DEF InductiveInv
<1>1. ASSUME NEW p \in Parts, NEW m \in Mutations, Produce(p, m)  PROVE CopyInv(j, q)'
  <2>1. Len(log'[q]) \in Nat /\ HistoryKept(q)
    BY <1>1, ProduceKeepsHistory DEF InductiveInv
  <2>2. UNCHANGED <<faults, disk, fetched, position, managed, paused, reset, news, pc>>
    BY <1>1 DEF Produce, auxVars, clientVars, loopVars
  <2> QED  BY <1>c, <1>t, <2>1, <2>2, Frame DEF CopyInv, Rewinding
<1>2. ASSUME NEW n \in Nodes, NEW p \in Parts, Assign(n, p)  PROVE CopyInv(j, q)'
  <2>1. UNCHANGED <<log, states, faults, disk, fetched, position, managed, paused, reset, news, pc>>
    BY <1>2 DEF Assign, logVars, auxVars, clientVars, loopVars
  <2> QED  BY <1>c, <1>t, <2>1, OtherNode
<1>3. ASSUME NEW n \in Nodes, NEW p \in Parts, JoinGroup(n, p)  PROVE CopyInv(j, q)'
  <2>1. UNCHANGED <<log, states, disk, fetched, managed, paused, reset, news, pc>>
    BY <1>3 DEF JoinGroup, logVars, loopVars
  <2>2. faults' = [faults EXCEPT ![n][p] =
                     IF p \in managed[n] /\ ~ Rewinding(n, p)
                     THEN faults[n][p] \cup {"unrewound"} ELSE faults[n][p]]
    BY <1>3 DEF JoinGroup
  <2>3. CASE ~ (j = n /\ q = p)
    <3>1. position'[j][q] = position[j][q] /\ faults'[j][q] = faults[j][q]
      BY <1>3, <1>t, <2>2, <2>3 DEF JoinGroup, TypeOK
    <3> QED  BY <1>c, <1>t, <2>1, <3>1, Frame, LogUnchanged DEF CopyInv, Rewinding
  <2>4. CASE j = n /\ q = p /\ q \in managed[j] /\ ~ Rewinding(j, q)
    <3>1. "unrewound" \in faults'[j][q]
      BY <1>t, <2>2, <2>4 DEF TypeOK
    <3>2. faults'[j][q] # {}
      BY <3>1
    <3> QED  BY <1>c, <2>1, <2>4, <3>2, Faulted DEF CopyInv, Rewinding
  <2>5. CASE j = n /\ q = p /\ ~ (q \in managed[j] /\ ~ Rewinding(j, q))
    <3>1. faults'[j][q] = faults[j][q]
      BY <1>t, <2>2, <2>5 DEF TypeOK
    <3> QED
      BY <1>c, <2>1, <2>5, <3>1 DEF CopyInv, OpenCopyInv, Rewinding, Pending, Applied, IsPrefixOf, StateAfter
  <2> QED  BY <2>3, <2>4, <2>5
<1>4. ASSUME NEW n \in Nodes, NEW p \in Parts, Revoke(n, p)  PROVE CopyInv(j, q)'
  <2>1. UNCHANGED <<log, states, faults, disk, fetched, managed, paused, reset, news, pc>>
    BY <1>4 DEF Revoke, logVars, loopVars
  <2>2. CASE ~ (j = n /\ q = p)
    <3>1. position'[j][q] = position[j][q]
      BY <1>4, <1>t, <2>2 DEF Revoke, TypeOK
    <3> QED  BY <1>c, <1>t, <2>1, <3>1, Frame, LogUnchanged DEF CopyInv, Rewinding
  <2>3. CASE j = n /\ q = p
    <3>1. position'[j][q] = NoOffset
      BY <1>4, <1>t, <2>3 DEF Revoke, TypeOK
    <3> QED
      BY <1>c, <2>1, <3>1 DEF CopyInv, OpenCopyInv, Rewinding, Pending, Applied, IsPrefixOf, StateAfter
  <2> QED  BY <2>2, <2>3
<1>5. ASSUME NEW n \in Nodes, NEW p \in Parts, AutoCommit(n, p)  PROVE CopyInv(j, q)'
  <2>1. UNCHANGED <<log, states, faults, disk, fetched, position, managed, paused, reset, news, pc>>
    BY <1>5 DEF AutoCommit, logVars, auxVars, clientVars, loopVars
  <2> QED  BY <1>c, <1>t, <2>1, OtherNode
<1>6. ASSUME NEW n \in Nodes, Crash(n)  PROVE CopyInv(j, q)'
  <2>1. UNCHANGED <<log, states, faults, disk>>
    BY <1>6 DEF Crash, logVars
  <2>2. CASE j # n
    BY <1>6, <1>c, <1>t, <2>1, <2>2, OtherNode DEF Crash, TypeOK
  <2>3. CASE j = n
    <3>1. managed'[j] = {} /\ pc'[j] = "idle"
      BY <1>6, <1>t, <2>3 DEF Crash, TypeOK
    <3> QED  BY <1>c, <2>1, <3>1 DEF CopyInv, Rewinding, IsPrefixOf, StateAfter
  <2> QED  BY <2>2, <2>3
<1>7. ASSUME NEW n \in Nodes, Start(n)  PROVE CopyInv(j, q)'
  <2>1. UNCHANGED <<log, states, faults, disk, fetched, position, managed, paused, reset, news, pc>>
    BY <1>7 DEF Start, logVars, auxVars, clientVars, loopVars
  <2> QED  BY <1>c, <1>t, <2>1, OtherNode
<1> QED  BY <1>1, <1>2, <1>3, <1>4, <1>5, <1>6, <1>7 DEF Environment

-----------------------------------------------------------------------------
(* topicInfoLoop                                                           *)

LEMMA TopicInfoLoopKeepsCopies ==
    ASSUME SafeInv, InductiveInv, NEW n \in Nodes, TopicInfoLoop(n),
           NEW j \in Nodes, NEW q \in Parts
    PROVE  CopyInv(j, q)'
<1>t. TypeOK
  BY DEF SafeInv, Typed
<1>d. disk \in [Nodes -> [Parts -> DB \cup {NoDB}]]
  BY <1>t DEF TypeOK
<1>c. CopyInv(j, q)
  BY DEF InductiveInv
<1>1. CASE DescribeGroups(n)
  <2>1. UNCHANGED <<log, states, faults, disk, fetched, position, managed, paused, reset>>
    BY <1>1 DEF DescribeGroups, logVars, auxVars, clientVars
  <2>2. CASE Owned(n) = {}
    BY <1>1, <1>c, <1>t, <2>1, <2>2, OtherNode DEF DescribeGroups
  <2>3. CASE Owned(n) # {}
    <3>1. /\ news' = [news EXCEPT ![n] = Added(n)]
          /\ pc' = [pc EXCEPT ![n] = FirstStep(n)]
          /\ pc[n] = "idle"
      BY <1>1, <2>3 DEF DescribeGroups
    <3>2. CASE j # n
      BY <1>c, <1>t, <2>1, <3>1, <3>2, OtherNode DEF TypeOK
    <3>3. CASE j = n
      <4>1. news'[j] = Added(n) /\ pc'[j] = FirstStep(n)
        BY <1>t, <3>1, <3>3 DEF TypeOK
      <4>2. ~ Rewinding(j, q) /\ ~ Rewinding(j, q)'
        BY <3>1, <3>3, <4>1 DEF Rewinding, FirstStep
      <4>3. q \in news'[j] => q \notin managed'[j]
        BY <2>1, <3>3, <4>1 DEF Added
      <4> QED  BY <1>c, <1>t, <2>1, <4>2, <4>3, Frame, LogUnchanged
    <3> QED  BY <3>2, <3>3
  <2> QED  BY <2>2, <2>3
<1>2. CASE PauseFetchPartitions(n)
  <2>1. UNCHANGED <<log, states, faults, disk, fetched, position, managed, reset, news>>
    BY <1>2 DEF PauseFetchPartitions, logVars, auxVars
  <2>2. CASE j # n
    BY <1>2, <1>c, <1>t, <2>1, <2>2, OtherNode DEF PauseFetchPartitions, TypeOK
  <2>3. CASE j = n
    <3>1. pc[j] = "pause" /\ pc'[j] = "add" /\ paused'[j] = paused[j] \cup news[j]
      BY <1>2, <1>t, <2>3 DEF PauseFetchPartitions, Paused, TypeOK
    <3>2. CASE q \in news[j]
      <4>1. q \notin managed'[j] /\ q \in paused'[j]
        BY <1>c, <2>1, <3>1, <3>2 DEF CopyInv
      <4> QED
        BY <1>c, <2>1, <3>1, <4>1 DEF CopyInv, IsPrefixOf, StateAfter, Rewinding
    <3>3. CASE q \notin news[j]
      <4>1. ~ Rewinding(j, q) /\ ~ Rewinding(j, q)'
        BY <2>1, <3>3 DEF Rewinding
      <4> QED  BY <1>c, <1>t, <2>1, <3>1, <4>1, Frame, LogUnchanged
    <3> QED  BY <3>2, <3>3
  <2> QED  BY <2>2, <2>3
<1>3. ASSUME NEW p \in Parts, AddPartition(n, p)  PROVE CopyInv(j, q)'
  <2>1. UNCHANGED <<log, states, fetched, position, paused, news, pc>>
    BY <1>3 DEF AddPartition, logVars, clientVars
  <2>2. /\ disk' = [disk EXCEPT ![n][p] = Opened(disk[n][p])]
        /\ reset' = [reset EXCEPT ![n][p] = Opened(disk[n][p]).off]
        /\ managed' = [managed EXCEPT ![n] = managed[n] \cup {p}]
        /\ faults' = [faults EXCEPT ![n][p] =
                        IF Pending(n, p) THEN faults[n][p] \cup {"staleBatch"}
                                         ELSE faults[n][p]]
    BY <1>3 DEF AddPartition
  <2>3. CASE ~ (j = n /\ q = p)
    <3>1. disk'[j][q] = disk[j][q]
      BY <1>d, <2>2, <2>3, ExceptTwice
    <3>2. /\ reset'[j][q] = reset[j][q] /\ (q \in managed'[j] => q \in managed[j])
          /\ faults'[j][q] = faults[j][q]
      BY <1>t, <2>2, <2>3 DEF TypeOK
    <3> QED  BY <1>c, <1>t, <2>1, <3>1, <3>2, Frame, LogUnchanged DEF CopyInv, Rewinding
  <2>4. CASE j = n /\ q = p
    <3>1. Rewinding(j, q) /\ pc[j] = "add"
      BY <1>3, <2>4 DEF AddPartition, Rewinding
    <3>2. disk'[j][q] = Opened(disk[j][q])
      BY <1>d, <2>2, <2>4
    <3>3. reset'[j][q] = disk'[j][q].off
      BY <1>t, <2>2, <2>4, <3>2 DEF TypeOK
    <3>4. disk'[j][q] # NoDB
      BY <1>d, <3>2, OpenedType, NoDBIsNoDatabase
    <3>5. CASE faults'[j][q] # {}
      BY <1>c, <2>1, <3>1, <3>4, <3>5, Faulted DEF CopyInv, Rewinding
    <3>6. CASE faults'[j][q] = {}
      <4>1. Pending(j, q) => "staleBatch" \in faults'[j][q]
        BY <1>t, <2>2, <2>4 DEF TypeOK
      <4>2. ~ Pending(j, q)
        BY <3>6, <4>1
      <4>3. faults[j][q] = {}
        BY <1>t, <2>2, <2>4, <3>6, <4>2 DEF TypeOK
      <4>4. IsPrefixOf(disk[j][q], q)'
        <5>1. CASE disk[j][q] # NoDB
          BY <1>c, <2>1, <3>2, <4>3, <5>1 DEF Opened, CopyInv, IsPrefixOf, StateAfter
        <5>2. CASE disk[j][q] = NoDB
          <6>1. disk'[j][q] = [kv |-> Empty, off |-> -1]
            BY <3>2, <5>2 DEF Opened, NoOffset
          <6>2. states[q][1] = Empty /\ Len(log[q]) \in Nat
            BY <1>t DEF InductiveInv, HistoryInv, TypeOK
          <6> QED  BY <2>1, <6>1, <6>2 DEF IsPrefixOf, StateAfter
        <5> QED  BY <5>1, <5>2
      <4> QED
        BY <1>c, <2>1, <3>1, <3>3, <3>4, <4>2, <4>4 DEF CopyInv, OpenCopyInv, Rewinding, Pending
    <3> QED  BY <3>5, <3>6
  <2> QED  BY <2>3, <2>4
<1>4. CASE SetOffsets(n)
  <2>1. UNCHANGED <<log, states, faults, disk, fetched, paused, managed, reset, news>>
    BY <1>4 DEF SetOffsets, logVars, auxVars
  <2>2. CASE j # n
    BY <1>4, <1>c, <1>t, <2>1, <2>2, OtherNode DEF SetOffsets, TypeOK
  <2>3. CASE j = n
    <3>1. /\ pc[j] = "add" /\ pc'[j] = "resume"
          /\ position'[j][q] = Rewound(j, q)
      BY <1>4, <1>t, <2>3 DEF SetOffsets, TypeOK
    <3>2. CASE q \notin news[j]
      <4>1. position'[j][q] = position[j][q] /\ ~ Rewinding(j, q) /\ ~ Rewinding(j, q)'
        BY <2>1, <3>1, <3>2 DEF Rewound, Rewinding
      <4> QED  BY <1>c, <1>t, <2>1, <3>1, <4>1, Frame, LogUnchanged
    <3>3. CASE q \in news[j] /\ faults[j][q] # {}
      BY <1>c, <2>1, <3>1, <3>3, Faulted DEF CopyInv, Rewinding
    <3>4. CASE q \in news[j] /\ faults[j][q] = {}
      <4>1. Rewinding(j, q) /\ ~ Rewinding(j, q)'
        BY <3>1, <3>4 DEF Rewinding
      <4>2. q \in managed[j]
        BY <1>4, <2>3, <3>4 DEF SetOffsets
      <4>3. /\ disk[j][q] # NoDB
            /\ ~ Pending(j, q)
            /\ reset[j][q] = disk[j][q].off
            /\ IsPrefixOf(disk[j][q], q)
        BY <1>c, <3>4, <4>1, <4>2 DEF CopyInv, OpenCopyInv
      <4>4. position[j][q] = NoOffset => position'[j][q] = NoOffset
        BY <3>1 DEF Rewound
      <4>5. position[j][q] # NoOffset => Applied(disk[j][q], q, position'[j][q])
        <5>1. disk[j][q].off \in Nat \cup {-1} /\ Len(log[q]) \in Nat
          BY <1>t, <4>3 DEF TypeOK, DB, NoOffset
        <5>2. position[j][q] # NoOffset => position'[j][q] = disk[j][q].off + 1
          BY <3>1, <3>4, <4>3, <5>1 DEF Rewound, ResetOffset, NoOffset
        <5> QED  BY <4>3, <5>1, <5>2 DEF Applied, IsPrefixOf
      <4>6. /\ ~ Pending(j, q)'
            /\ (position'[j][q] # NoOffset => Applied(disk[j][q], q, position[j][q])')
        BY <2>1, <4>3, <4>4, <4>5 DEF Pending, Applied, StateAfter
      <4> QED
        BY <2>1, <3>1, <4>1, <4>3, <4>6 DEF CopyInv, OpenCopyInv, IsPrefixOf, StateAfter
    <3> QED  BY <3>2, <3>3, <3>4
  <2> QED  BY <2>2, <2>3
<1>5. CASE ResumeFetchPartitions(n)
  <2>1. UNCHANGED <<log, states, faults, disk, fetched, position, managed>>
    BY <1>5 DEF ResumeFetchPartitions, logVars, auxVars
  <2>2. CASE j # n
    BY <1>5, <1>c, <1>t, <2>1, <2>2, OtherNode DEF ResumeFetchPartitions, TypeOK
  <2>3. CASE j = n
    <3>1. pc[j] = "resume" /\ pc'[j] \in {"idle", "remove"}
      BY <1>5, <1>t, <2>3 DEF ResumeFetchPartitions, AfterNews, TypeOK
    <3>2. ~ Rewinding(j, q) /\ ~ Rewinding(j, q)'
      BY <3>1 DEF Rewinding
    <3> QED  BY <1>c, <1>t, <2>1, <3>1, <3>2, Frame, LogUnchanged
  <2> QED  BY <2>2, <2>3
<1>6. ASSUME NEW p \in Parts, RemovePartition(n, p)  PROVE CopyInv(j, q)'
  <2>1. UNCHANGED <<log, states, faults, disk, fetched, position, paused, reset, news, pc>>
    BY <1>6 DEF RemovePartition, logVars, auxVars, clientVars, loopVars
  <2>2. managed'[j] \subseteq managed[j]
    BY <1>6, <1>t DEF RemovePartition, TypeOK
  <2> QED  BY <1>c, <1>t, <2>1, <2>2, Frame, LogUnchanged DEF CopyInv, Rewinding
<1>7. ASSUME NEW p \in Parts, DeletePartition(n, p)  PROVE CopyInv(j, q)'
  <2>1. /\ UNCHANGED <<log, states, fetched, position, managed, paused, reset, news>>
        /\ disk' = [disk EXCEPT ![n][p] = NoDB]
        /\ faults' = [faults EXCEPT ![n][p] = {}]
        /\ p \notin managed[n]
        /\ pc[n] = "remove"
    BY <1>7 DEF DeletePartition, logVars, clientVars
  <2>2. pc'[j] = pc[j] \/ (j = n /\ pc'[j] \in {"idle", "remove"})
    BY <1>7, <1>t DEF DeletePartition, TypeOK
  <2>3. Rewinding(j, q)' <=> Rewinding(j, q)
    BY <2>1, <2>2 DEF Rewinding
  <2>4. CASE ~ (j = n /\ q = p)
    <3>1. disk'[j][q] = disk[j][q]
      BY <1>d, <2>1, <2>4, ExceptTwice
    <3>2. faults'[j][q] = faults[j][q]
      BY <1>t, <2>1, <2>4 DEF TypeOK
    <3> QED  BY <1>c, <1>t, <2>1, <2>2, <2>3, <3>1, <3>2, Frame, LogUnchanged DEF CopyInv
  <2>5. CASE j = n /\ q = p
    <3>1. disk'[j][q] = NoDB /\ faults'[j][q] = {}
      BY <1>d, <1>t, <2>1, <2>5 DEF TypeOK
    <3> QED  BY <1>c, <2>1, <2>2, <2>3, <2>5, <3>1 DEF CopyInv
  <2> QED  BY <2>4, <2>5
<1> QED  BY <1>1, <1>2, <1>3, <1>4, <1>5, <1>6, <1>7 DEF TopicInfoLoop

-----------------------------------------------------------------------------
(* pollRecords                                                             *)

(* A batch under way consists of records of the log. *)
LEMMA PendingInLog ==
    ASSUME SafeInv, NEW n \in Nodes, NEW p \in Parts, Pending(n, p)
    PROVE  /\ fetched[n][p].from \in Nat
           /\ fetched[n][p].from + 1 \in 1 .. Len(log[p])
           /\ Mutation(n, p) \in Mutations
<1>1. fetched[n][p].from \in Nat /\ fetched[n][p].to \in Nat /\ Len(log[p]) \in Nat
  BY DEF SafeInv, Typed, TypeOK
<1>2. fetched[n][p].from + 1 \in 1 .. Len(log[p])
  BY <1>1 DEF Pending, SafeInv, Offsets, OffsetsInLog
<1> QED  BY <1>1, <1>2 DEF Mutation, SafeInv, Typed, TypeOK

(* The heart of the argument: a copy that holds the rows of the first h    *)
(* records and handles record h holds the rows of the first h + 1,         *)
(* whichever way the transaction ends, and its checkpoint says so.         *)
LEMMA HandleRecordApplies ==
    ASSUME InductiveInv, NEW p \in Parts, NEW h \in Nat, h + 1 \in 1 .. Len(log[p]),
           Len(log[p]) \in Nat, NEW db \in DB, Applied(db, p, h), IsPrefixOf(db, p),
           NEW new, new = [kv  |-> HandleMutation(db.kv, log[p][h + 1]),
                           off |-> LastOffset(db.kv, log[p][h + 1], db.off, h)]
    PROVE  Applied(new, p, h + 1) /\ IsPrefixOf(new, p)
<1> DEFINE m == log[p][h + 1]
<1>1. db.off \in Nat \cup {-1}
  BY DEF DB, NoOffset
<1>2. StateAfter(p, h + 1) = HandleMutation(db.kv, m)
  BY DEF InductiveInv, HistoryInv, Applied, StateAfter
<1>3. CASE Outcome(db.kv, m) \in {"true", "false"}
  <2>1. new.off = h /\ new.kv = StateAfter(p, h + 1)
    BY <1>2, <1>3 DEF LastOffset
  <2> QED  BY <2>1 DEF Applied, IsPrefixOf
<1>4. CASE Outcome(db.kv, m) \notin {"true", "false"}
  <2>1. new.off = db.off /\ new.kv = db.kv /\ new.kv = StateAfter(p, h + 1)
    BY <1>2, <1>4 DEF LastOffset, HandleMutation
  <2> QED  BY <1>1, <2>1 DEF Applied, IsPrefixOf
<1> QED  BY <1>3, <1>4

LEMMA PollRecordLoopKeepsCopies ==
    ASSUME SafeInv, InductiveInv, NEW n \in Nodes, PollRecordLoop(n),
           NEW j \in Nodes, NEW q \in Parts
    PROVE  CopyInv(j, q)'
<1>t. TypeOK
  BY DEF SafeInv, Typed
<1>d. disk \in [Nodes -> [Parts -> DB \cup {NoDB}]]
  BY <1>t DEF TypeOK
<1>f. fetched \in [Nodes -> [Parts -> [from : Nat, to : Nat]]]
  BY <1>t DEF TypeOK
<1>c. CopyInv(j, q)
  BY DEF InductiveInv
<1>1. CASE PollRecords(n)
  <2>1. PICK S \in SUBSET Parts, k \in 1 .. MaxFetch :
          /\ PollFetches(n, S, k)
          /\ fetched' = [fetched EXCEPT ![n] =
                           [p \in Parts |-> IF p \in S THEN Batch(n, p, k)
                                                      ELSE fetched[n][p]]]
          /\ faults' = faults
    BY <1>1 DEF PollRecords
  <2>2. /\ UNCHANGED <<log, states, faults, disk, managed, paused, reset, news, pc>>
        /\ position' = [position EXCEPT ![n] =
                          [p \in Parts |-> IF p \in S THEN BatchEnd(n, p, k)
                                                     ELSE position[n][p]]]
        /\ \A p \in Parts : ~ Pending(n, p)
        /\ S \subseteq Fetchable(n)
    BY <2>1 DEF PollFetches, logVars, loopVars
  <2>3. fetched' = [fetched EXCEPT ![n] =
                      [p \in Parts |-> IF p \in S THEN Batch(n, p, k) ELSE fetched[n][p]]]
    BY <2>1
  <2>4. CASE j # n
    <3>1. fetched'[j] = fetched[j] /\ position'[j] = position[j]
      BY <1>t, <2>2, <2>3, <2>4 DEF TypeOK
    <3> QED  BY <1>c, <1>t, <2>2, <3>1, OtherNode
  <2>5. CASE j = n /\ q \notin S
    <3>1. fetched'[j][q] = fetched[j][q] /\ position'[j][q] = position[j][q]
      BY <1>t, <2>2, <2>3, <2>5 DEF TypeOK
    <3> QED  BY <1>c, <1>t, <2>2, <3>1, Frame, LogUnchanged DEF CopyInv, Rewinding
  <2>6. CASE j = n /\ q \in S
    <3>1. /\ fetched'[j][q].from = position[j][q]
          /\ fetched'[j][q].to = BatchEnd(n, q, k)
          /\ position'[j][q] = BatchEnd(n, q, k)
      BY <1>t, <2>2, <2>3, <2>6 DEF TypeOK, Batch
    <3>2. /\ position[j][q] \in Nat
          /\ BatchEnd(n, q, k) \in Nat
          /\ position[j][q] < BatchEnd(n, q, k)
          /\ BatchEnd(n, q, k) <= Len(log[q])
      BY <1>t, <2>2, <2>6, BatchEndType
    <3>3. ~ Rewinding(j, q) /\ ~ Rewinding(j, q)'
      BY <1>c, <2>2, <2>6 DEF CopyInv, Rewinding, Fetchable
    <3>4. q \in managed[j] /\ faults[j][q] = {} => Applied(disk[j][q], q, position[j][q])
      BY <1>c, <2>2, <2>6, <3>2, <3>3 DEF CopyInv, OpenCopyInv, NoOffset
    <3>5. Pending(j, q)' /\ position'[j][q] # NoOffset
      BY <3>1, <3>2 DEF Pending, NoOffset
    <3>6. q \in managed'[j] /\ faults'[j][q] = {} => OpenCopyInv(j, q)'
      BY <2>2, <3>1, <3>2, <3>3, <3>4, <3>5 DEF OpenCopyInv, Applied, StateAfter
    <3> QED  BY <1>c, <2>2, <3>3, <3>6 DEF CopyInv, IsPrefixOf, StateAfter
  <2> QED  BY <2>4, <2>5, <2>6
<1>2. CASE FetchError(n)
  <2>1. PICK S \in SUBSET Parts, k \in 1 .. MaxFetch :
          /\ PollFetches(n, S, k)
          /\ faults' = [faults EXCEPT ![n] =
                          [p \in Parts |-> IF p \in S \cap managed[n]
                                           THEN faults[n][p] \cup {"fetchError"}
                                           ELSE faults[n][p]]]
          /\ fetched' = fetched
    BY <1>2 DEF FetchError
  <2>2. /\ UNCHANGED <<log, states, disk, fetched, managed, paused, reset, news, pc>>
        /\ position' = [position EXCEPT ![n] =
                          [p \in Parts |-> IF p \in S THEN BatchEnd(n, p, k)
                                                     ELSE position[n][p]]]
    BY <2>1 DEF PollFetches, logVars, loopVars
  <2>3. faults' = [faults EXCEPT ![n] =
                     [p \in Parts |-> IF p \in S \cap managed[n]
                                      THEN faults[n][p] \cup {"fetchError"} ELSE faults[n][p]]]
    BY <2>1
  <2>4. CASE j # n
    <3>1. faults'[j] = faults[j] /\ position'[j] = position[j]
      BY <1>t, <2>2, <2>3, <2>4 DEF TypeOK
    <3> QED  BY <1>c, <1>t, <2>2, <3>1, OtherNode
  <2>5. CASE j = n /\ q \notin S
    <3>1. faults'[j][q] = faults[j][q] /\ position'[j][q] = position[j][q]
      BY <1>t, <2>2, <2>3, <2>5 DEF TypeOK
    <3> QED  BY <1>c, <1>t, <2>2, <3>1, Frame, LogUnchanged DEF CopyInv, Rewinding
  <2>6. CASE j = n /\ q \in S /\ q \in managed[j]
    <3>1. "fetchError" \in faults'[j][q]
      BY <1>t, <2>3, <2>6 DEF TypeOK
    <3>2. faults'[j][q] # {}
      BY <3>1
    <3> QED  BY <1>c, <2>2, <2>6, <3>2, Faulted DEF CopyInv, Rewinding
  <2>7. CASE j = n /\ q \in S /\ q \notin managed[j]
    <3>1. faults'[j][q] = faults[j][q]
      BY <1>t, <2>3, <2>7 DEF TypeOK
    <3> QED  BY <1>c, <2>2, <2>7, <3>1 DEF CopyInv, Rewinding, IsPrefixOf, StateAfter
  <2> QED  BY <2>4, <2>5, <2>6, <2>7
<1>3. ASSUME NEW p \in Parts, HandleRecord(n, p)  PROVE CopyInv(j, q)'
  <2> DEFINE new == [kv  |-> HandleMutation(disk[n][p].kv, Mutation(n, p)),
                     off |-> LastOffset(disk[n][p].kv, Mutation(n, p), disk[n][p].off,
                                        fetched[n][p].from)]
  <2>1. /\ UNCHANGED <<log, states, faults, position, managed, paused, reset, news, pc>>
        /\ disk' = [disk EXCEPT ![n][p] = new]
        /\ fetched' = [fetched EXCEPT ![n][p] = NextBatch(fetched[n][p])]
    BY <1>3 DEF HandleRecord, logVars, auxVars, loopVars
  <2>2. new \in DB
    BY <1>3, HandledType
  <2>3. p \in managed[n] /\ Pending(n, p)
    BY <1>3 DEF HandleRecord, Accepts
  <2>4. CASE ~ (j = n /\ q = p)
    <3> HIDE DEF new
    <3>1. disk'[j][q] = disk[j][q] /\ fetched'[j][q] = fetched[j][q]
      BY <1>d, <1>f, <2>1, <2>4, ExceptTwice
    <3> QED  BY <1>c, <1>t, <2>1, <3>1, Frame, LogUnchanged DEF CopyInv, Rewinding
  <2>5. CASE j = n /\ q = p /\ faults[j][q] # {}
    <3> HIDE DEF new
    <3>1. disk'[j][q] = new /\ new # NoDB
      BY <1>d, <2>1, <2>2, <2>5, ExceptTwice, NoDBIsNoDatabase
    <3> QED  BY <1>c, <2>1, <2>5, <3>1, Faulted DEF CopyInv, Rewinding
  <2>6. CASE j = n /\ q = p /\ faults[j][q] = {}
    <3> DEFINE h == fetched[j][q].from
    <3>1. h \in Nat /\ h + 1 \in 1 .. Len(log[q]) /\ Len(log[q]) \in Nat /\ fetched[j][q].to \in Nat
      BY <1>t, <2>3, <2>6, PendingInLog DEF TypeOK
    <3>2. /\ disk[j][q] # NoDB
          /\ Applied(disk[j][q], q, h)
          /\ fetched[j][q].to <= Len(log[q])
          /\ IsPrefixOf(disk[j][q], q)
          /\ ~ Rewinding(j, q)
          /\ position[j][q] # NoOffset => position[j][q] = fetched[j][q].to
      BY <1>c, <2>3, <2>6 DEF CopyInv, OpenCopyInv
    <3>3. disk[j][q] \in DB
      BY <1>d, <3>2
    <3>4. Applied(new, q, h + 1) /\ IsPrefixOf(new, q)
      BY <2>6, <3>1, <3>2, <3>3, HandleRecordApplies DEF Mutation
    <3> HIDE DEF new
    <3>5. disk'[j][q] = new /\ new # NoDB
      BY <1>d, <2>1, <2>2, <2>6, ExceptTwice, NoDBIsNoDatabase
    <3>6. fetched'[j][q] = NextBatch(fetched[j][q])
      BY <1>f, <2>1, <2>6, ExceptTwice
    <3>7. ~ Rewinding(j, q)' /\ IsPrefixOf(disk[j][q], q)'
      BY <2>1, <3>2, <3>4, <3>5 DEF Rewinding, IsPrefixOf, StateAfter
    <3>8. CASE h + 1 = fetched[j][q].to
      <4>1. fetched'[j][q] = NoBatch
        BY <3>6, <3>8 DEF NextBatch
      <4>2. ~ Pending(j, q)'
        BY <4>1 DEF Pending, NoBatch
      <4>3. position'[j][q] # NoOffset => Applied(disk[j][q], q, position[j][q])'
        <5>1. position'[j][q] # NoOffset => position'[j][q] = h + 1
          BY <2>1, <3>2, <3>8
        <5> QED  BY <2>1, <3>4, <3>5, <5>1 DEF Applied, StateAfter
      <4>4. OpenCopyInv(j, q)'
        BY <2>1, <3>2, <3>5, <3>7, <4>2, <4>3 DEF OpenCopyInv
      <4> QED  BY <1>c, <2>1, <3>5, <3>7, <4>4 DEF CopyInv
    <3>9. CASE h + 1 # fetched[j][q].to
      <4>1. fetched'[j][q] = [fetched[j][q] EXCEPT !.from = h + 1]
        BY <3>6, <3>9 DEF NextBatch
      <4>2. fetched'[j][q].from = h + 1 /\ fetched'[j][q].to = fetched[j][q].to
        BY <1>f, <4>1
      <4>3. Pending(j, q)'
        BY <2>3, <2>6, <3>1, <3>9, <4>2 DEF Pending
      <4>4. OpenCopyInv(j, q)'
        BY <2>1, <3>2, <3>4, <3>5, <3>7, <4>2, <4>3 DEF OpenCopyInv, Applied, StateAfter
      <4> QED  BY <1>c, <2>1, <3>5, <3>7, <4>4 DEF CopyInv
    <3> QED  BY <3>8, <3>9
  <2> QED  BY <2>4, <2>5, <2>6
<1>4. ASSUME NEW p \in Parts, FailRecord(n, p)  PROVE CopyInv(j, q)'
  <2>1. /\ UNCHANGED <<log, states, disk, position, managed, paused, reset, news, pc>>
        /\ fetched' = [fetched EXCEPT ![n][p] = NoBatch]
        /\ faults' = [faults EXCEPT ![n][p] =
                        IF p \in managed[n] /\ fetched[n][p].from + 1 < fetched[n][p].to
                        THEN faults[n][p] \cup {"failedRecord"} ELSE faults[n][p]]
        /\ Pending(n, p)
    BY <1>4 DEF FailRecord, logVars, loopVars
  <2>2. CASE ~ (j = n /\ q = p)
    <3>1. fetched'[j][q] = fetched[j][q]
      BY <1>f, <2>1, <2>2, ExceptTwice
    <3>2. faults'[j][q] = faults[j][q]
      BY <1>t, <2>1, <2>2 DEF TypeOK
    <3> QED  BY <1>c, <1>t, <2>1, <3>1, <3>2, Frame, LogUnchanged DEF CopyInv, Rewinding
  <2>3. CASE j = n /\ q = p /\ q \notin managed[j]
    <3>1. faults'[j][q] = faults[j][q]
      BY <1>t, <2>1, <2>3 DEF TypeOK
    <3> QED  BY <1>c, <2>1, <2>3, <3>1 DEF CopyInv, IsPrefixOf, StateAfter, Rewinding
  <2>4. CASE j = n /\ q = p /\ q \in managed[j] /\ faults'[j][q] # {}
    BY <1>c, <2>1, <2>4, Faulted DEF CopyInv, Rewinding
  <2>5. CASE j = n /\ q = p /\ q \in managed[j] /\ faults'[j][q] = {}
    <3> DEFINE h == fetched[j][q].from
    <3>1. h \in Nat /\ h + 1 \in 1 .. Len(log[q]) /\ Len(log[q]) \in Nat /\ fetched[j][q].to \in Nat
      BY <1>t, <2>1, <2>5, PendingInLog DEF TypeOK
    <3>2. h + 1 < fetched[j][q].to => "failedRecord" \in faults'[j][q]
      BY <1>t, <2>1, <2>5 DEF TypeOK
    <3>3. h + 1 = fetched[j][q].to
      BY <2>1, <2>5, <3>1, <3>2 DEF Pending
    <3>4. faults[j][q] = {}
      BY <1>t, <2>1, <2>5, <3>1, <3>3 DEF TypeOK
    <3>5. /\ disk[j][q] # NoDB
          /\ Applied(disk[j][q], q, h)
          /\ IsPrefixOf(disk[j][q], q)
          /\ ~ Rewinding(j, q)
          /\ position[j][q] # NoOffset => position[j][q] = h + 1
      BY <1>c, <2>1, <2>5, <3>3, <3>4 DEF CopyInv, OpenCopyInv
    <3>6. disk[j][q] \in DB
      BY <1>d, <3>5
    <3>7. Outcome(disk[j][q].kv, log[q][h + 1]) = "error"
      BY <1>4, <2>5 DEF FailRecord, Accepts, Mutation
    <3>8. disk[j][q] = [kv  |-> HandleMutation(disk[j][q].kv, log[q][h + 1]),
                        off |-> LastOffset(disk[j][q].kv, log[q][h + 1], disk[j][q].off, h)]
      BY <3>6, <3>7 DEF HandleMutation, LastOffset, DB
    <3>9. Applied(disk[j][q], q, h + 1)
      BY <3>1, <3>5, <3>6, <3>8, HandleRecordApplies
    <3>10. fetched'[j][q] = NoBatch
      BY <1>f, <2>1, <2>5, ExceptTwice
    <3>11. ~ Pending(j, q)' /\ ~ Rewinding(j, q)'
      BY <2>1, <3>5, <3>10 DEF Pending, NoBatch, Rewinding
    <3>12. position'[j][q] # NoOffset => Applied(disk[j][q], q, position[j][q])'
      BY <2>1, <3>5, <3>9 DEF Applied, StateAfter
    <3>13. OpenCopyInv(j, q)'
      BY <3>11, <3>12 DEF OpenCopyInv
    <3>14. IsPrefixOf(disk[j][q], q)'
      BY <2>1, <3>5 DEF IsPrefixOf, StateAfter
    <3> QED  BY <1>c, <2>1, <3>5, <3>11, <3>13, <3>14 DEF CopyInv
  <2> QED  BY <2>2, <2>3, <2>4, <2>5
<1> QED  BY <1>1, <1>2, <1>3, <1>4 DEF PollRecordLoop

-----------------------------------------------------------------------------

LEMMA InductiveInvInit == Init => InductiveInv
<1> SUFFICES ASSUME Init PROVE InductiveInv
  OBVIOUS
<1>1. ASSUME NEW p \in Parts  PROVE HistoryInv(p)
  BY DEF Init, HistoryInv
<1>2. ASSUME NEW n \in Nodes, NEW p \in Parts  PROVE CopyInv(n, p)
  BY DEF Init, CopyInv, Rewinding
<1> QED  BY <1>1, <1>2 DEF InductiveInv

LEMMA InductiveInvStep ==
    ASSUME SafeInv, InductiveInv, [Next]_vars
    PROVE  InductiveInv'
<1>1. ASSUME NEW q \in Parts  PROVE HistoryInv(q)'
  <2>1. CASE \E p \in Parts, m \in Mutations : Produce(p, m)
    BY <2>1, ProduceKeepsHistory DEF InductiveInv
  <2>2. CASE UNCHANGED <<log, states>>
    BY <2>2 DEF InductiveInv, HistoryInv
  <2>3. ASSUME NEW n \in Nodes, TopicInfoLoop(n) \/ PollRecordLoop(n)
        PROVE  UNCHANGED <<log, states>>
    BY <2>3 DEF TopicInfoLoop, DescribeGroups, PauseFetchPartitions, AddPartition, SetOffsets,
                ResumeFetchPartitions, RemovePartition, DeletePartition, PollRecordLoop,
                PollRecords, FetchError, PollFetches, HandleRecord, FailRecord, logVars
  <2>4. Environment =>
          UNCHANGED <<log, states>> \/ \E p \in Parts, m \in Mutations : Produce(p, m)
    BY DEF Environment, Assign, JoinGroup, Revoke, AutoCommit, Crash, Start, logVars
  <2>5. UNCHANGED vars => UNCHANGED <<log, states>>
    BY DEF vars, logVars
  <2> QED  BY <2>1, <2>2, <2>3, <2>4, <2>5 DEF Next
<1>2. ASSUME NEW j \in Nodes, NEW q \in Parts  PROVE CopyInv(j, q)'
  <2>1. CASE Environment
    BY <2>1, EnvironmentKeepsCopies
  <2>2. CASE \E n \in Nodes : TopicInfoLoop(n)
    BY <2>2, TopicInfoLoopKeepsCopies
  <2>3. CASE \E n \in Nodes : PollRecordLoop(n)
    BY <2>3, PollRecordLoopKeepsCopies
  <2>4. CASE UNCHANGED vars
    <3>1. UNCHANGED <<log, states, faults, disk, fetched, position, managed, paused, reset, news, pc>>
      BY <2>4 DEF vars, logVars, auxVars, clientVars, loopVars
    <3> QED  BY <3>1, OtherNode DEF SafeInv, Typed, InductiveInv
  <2> QED  BY <2>1, <2>2, <2>3, <2>4 DEF Next
<1> QED  BY <1>1, <1>2 DEF InductiveInv

(* The strengthening is an invariant of the group: whatever the timing,    *)
(* client, batch and copy are at the same record of the log for every open *)
(* copy that met no fault (topicInfoLoop, pollRecords).                    *)
THEOREM InductiveInvHolds == Spec => []InductiveInv
<1>1. SafeInv /\ InductiveInv /\ [Next]_vars => InductiveInv'
  BY InductiveInvStep
<1> QED  BY <1>1, InductiveInvInit, SafeInvHolds, PTL DEF Spec

(* For any number of nodes, partitions, records, rebalances and crashes,   *)
(* every database that met none of the four faults holds exactly the rows  *)
(* of the log's prefix up to its checkpoint: there is no fifth way to lose *)
(* or repeat a mutation (topicInfoLoop, pollRecords, HandleMutation).      *)
THEOREM CopiesAreMaterialised == Spec => []Materialised
<1>1. InductiveInv => Materialised
  BY DEF InductiveInv, CopyInv, Materialised
<1> QED  BY <1>1, InductiveInvHolds, PTL

-----------------------------------------------------------------------------
(* Refinement                                                              *)

(* What the abstract store sees of one copy. *)
View(n, p) == IF faults[n][p] = {} THEN disk[n][p] ELSE Lost

(* A step that leaves every copy but one alone changes one entry of the    *)
(* abstract store.                                                         *)
LEMMA OneCopy ==
    ASSUME NEW n \in Nodes, NEW p \in Parts,
           \A j \in Nodes, q \in Parts : ~ (j = n /\ q = p) => View(j, q)' = View(j, q)
    PROVE  Replica' = [Replica EXCEPT ![n][p] = View(n, p)']
BY DEF Replica, View

LEMMA SameCopies ==
    ASSUME \A j \in Nodes, q \in Parts : View(j, q)' = View(j, q)
    PROVE  Replica' = Replica
BY DEF Replica, View

(* A step that only notes faults of n. *)
LEMMA LostCopies ==
    ASSUME NEW n \in Nodes, NEW S \in SUBSET Parts,
           \A j \in Nodes, q \in Parts :
             View(j, q)' = IF j = n /\ q \in S THEN Lost ELSE View(j, q)
    PROVE  Replica' = [Replica EXCEPT ![n] =
                         [p \in Parts |-> IF p \in S THEN Lost ELSE Replica[n][p]]]
BY DEF Replica, View

LEMMA RefinesHandleRecord ==
    ASSUME SafeInv, InductiveInv, NEW n \in Nodes, NEW p \in Parts, HandleRecord(n, p)
    PROVE  Abstract!Advance(n, p) \/ UNCHANGED <<states, Replica>>
<1> DEFINE h   == fetched[n][p].from
           m   == Mutation(n, p)
           new == [kv  |-> HandleMutation(disk[n][p].kv, m),
                   off |-> LastOffset(disk[n][p].kv, m, disk[n][p].off, h)]
<1>1. /\ states' = states /\ faults' = faults
      /\ disk' = [disk EXCEPT ![n][p] = new]
      /\ p \in managed[n]
      /\ Pending(n, p)
  BY DEF HandleRecord, Accepts, logVars, auxVars
<1>d. disk \in [Nodes -> [Parts -> DB \cup {NoDB}]]
  BY DEF SafeInv, Typed, TypeOK
<1>o. \A j \in Nodes, q \in Parts : ~ (j = n /\ q = p) => View(j, q)' = View(j, q)
  <2> HIDE DEF new
  <2>1. \A j \in Nodes, q \in Parts :
          disk'[j][q] = IF j = n /\ q = p THEN new ELSE disk[j][q]
    BY <1>1, <1>d, ExceptTwice
  <2> QED  BY <1>1, <2>1 DEF View
<1>2. CASE faults[n][p] # {}
  <2>1. View(n, p)' = View(n, p)
    BY <1>1, <1>2 DEF View
  <2> QED  BY <1>1, <1>o, <2>1, SameCopies
<1>3. CASE faults[n][p] = {}
  <2>2. h \in Nat /\ h + 1 \in 1 .. Len(log[p]) /\ Len(log[p]) \in Nat
    BY <1>1, PendingInLog DEF SafeInv, Typed, TypeOK
  <2>3. disk[n][p] # NoDB /\ Applied(disk[n][p], p, h) /\ IsPrefixOf(disk[n][p], p)
    BY <1>1, <1>3 DEF InductiveInv, CopyInv, OpenCopyInv
  <2>4. disk[n][p] \in DB
    BY <1>d, <2>3
  <2>5. Applied(new, p, h + 1)
    BY <2>2, <2>3, <2>4, HandleRecordApplies DEF Mutation
  <2>6. CASE Outcome(disk[n][p].kv, m) \in {"true", "false"}
    <3>1. new.off = h /\ new.kv = states[p][h + 2]
      BY <2>2, <2>5, <2>6 DEF LastOffset, Applied, StateAfter
    <3>2. new = [kv |-> states[p][h + 2], off |-> h]
      BY <3>1
    <3>3. disk[n][p].off \in Nat \cup {-1} /\ disk[n][p].off < h
      BY <2>3, <2>4 DEF DB, NoOffset, Applied
    <3>4. h \in (disk[n][p].off + 1) .. (Len(states[p]) - 2)
      BY <2>2, <3>3 DEF InductiveInv, HistoryInv
    <3>5. disk'[n][p] = [kv |-> states[p][h + 2], off |-> h]
      BY <1>1, <1>d, <3>2
    <3>6. View(n, p)' = [kv |-> states[p][h + 2], off |-> h]
      BY <1>1, <1>3, <3>5 DEF View
    <3>7. Replica' = [Replica EXCEPT ![n][p] = [kv |-> states[p][h + 2], off |-> h]]
      BY <1>o, <3>6, OneCopy
    <3>8. Replica[n][p] = disk[n][p]
      BY <1>3 DEF Replica
    <3>9. Replica[n][p] \notin {NoDB, Lost}
      BY <2>4, <3>8, NoDBIsNoDatabase, LostIsNoDatabase
    <3> QED  BY <1>1, <3>4, <3>7, <3>8, <3>9 DEF Abstract!Advance
  <2>7. CASE Outcome(disk[n][p].kv, m) \notin {"true", "false"}
    <3>1. HandleMutation(disk[n][p].kv, m) = disk[n][p].kv
      BY <2>7 DEF HandleMutation
    <3>2. LastOffset(disk[n][p].kv, m, disk[n][p].off, h) = disk[n][p].off
      BY <2>7 DEF LastOffset
    <3>3. new = disk[n][p]
      BY <2>4, <3>1, <3>2 DEF DB
    <3>4. View(n, p)' = View(n, p)
      BY <1>1, <1>d, <3>3 DEF View
    <3> QED  BY <1>1, <1>o, <3>4, SameCopies
  <2> QED  BY <2>6, <2>7
<1> QED  BY <1>2, <1>3

(* A fault of one copy loses it to the abstract store. *)
LEMMA RefinesFault ==
    ASSUME SafeInv, NEW n \in Nodes, NEW S \in SUBSET Parts, UNCHANGED <<states, disk>>,
           \A q \in S : faults'[n][q] # {},
           \A j \in Nodes, q \in Parts : ~ (j = n /\ q \in S) => faults'[j][q] = faults[j][q]
    PROVE  Abstract!Lose(n, S)
<1>1. \A j \in Nodes, q \in Parts :
        View(j, q)' = IF j = n /\ q \in S THEN Lost ELSE View(j, q)
  BY DEF View
<1> QED  BY <1>1, LostCopies DEF Abstract!Lose

LEMMA RefinesStep ==
    ASSUME SafeInv, InductiveInv, [Next]_vars
    PROVE  [Abstract!Next]_(Abstract!vars)
<1> USE DEF Abstract!vars
<1>d. disk \in [Nodes -> [Parts -> DB \cup {NoDB}]]
  BY DEF SafeInv, Typed, TypeOK
<1>f. faults \in [Nodes -> [Parts -> SUBSET Faults]]
  BY DEF SafeInv, Typed, TypeOK
<1>u. ASSUME UNCHANGED <<states, disk, faults>>  PROVE UNCHANGED <<states, Replica>>
  BY <1>u DEF Replica
<1>1. ASSUME NEW p \in Parts, NEW m \in Mutations, Produce(p, m)  PROVE Abstract!Produce(p)
  <2>1. StateAfter(p, Len(log[p])) \in Contents
    BY DEF SafeInv, Typed, TypeOK, HistoryLength, StateAfter
  <2>2. HandleMutation(StateAfter(p, Len(log[p])), m) \in Contents
    BY <2>1, HandleMutationType
  <2>3. disk' = disk /\ faults' = faults
    BY <1>1 DEF Produce, auxVars
  <2>4. Replica' = Replica
    BY <2>3 DEF Replica
  <2> QED  BY <1>1, <2>2, <2>4 DEF Produce, Abstract!Produce
<1>2. ASSUME NEW n \in Nodes, NEW p \in Parts, AddPartition(n, p)
      PROVE  Abstract!Next \/ UNCHANGED <<states, Replica>>
  <2>1. /\ states' = states
        /\ disk' = [disk EXCEPT ![n][p] = Opened(disk[n][p])]
        /\ faults' = [faults EXCEPT ![n][p] =
                        IF Pending(n, p) THEN faults[n][p] \cup {"staleBatch"}
                                         ELSE faults[n][p]]
    BY <1>2 DEF AddPartition, logVars
  <2>2. \A j \in Nodes, q \in Parts : ~ (j = n /\ q = p) =>
          disk'[j][q] = disk[j][q] /\ faults'[j][q] = faults[j][q]
    BY <1>d, <1>f, <2>1
  <2>3. \A j \in Nodes, q \in Parts : ~ (j = n /\ q = p) => View(j, q)' = View(j, q)
    BY <2>2 DEF View
  <2>4. CASE faults'[n][p] # {}
    <3>1. \A j \in Nodes, q \in Parts :
            View(j, q)' = IF j = n /\ q \in {p} THEN Lost ELSE View(j, q)
      BY <2>3, <2>4 DEF View
    <3>2. {p} \in SUBSET Parts /\ states' = states
      BY <2>1
    <3>3. Abstract!Lose(n, {p})
      BY <3>1, <3>2, LostCopies DEF Abstract!Lose
    <3> QED  BY <3>2, <3>3 DEF Abstract!Next
  <2>5. CASE faults'[n][p] = {}
    <3>1. faults[n][p] = {}
      BY <1>f, <2>1, <2>5
    <3>2. disk'[n][p] = Opened(disk[n][p])
      BY <1>d, <2>1
    <3>3. CASE disk[n][p] = NoDB
      <4>1. View(n, p)' = [kv |-> Empty, off |-> -1]
        BY <2>5, <3>2, <3>3 DEF View, Opened, NoOffset
      <4>2. Replica[n][p] = NoDB
        BY <3>1, <3>3 DEF Replica
      <4>3. Replica' = [Replica EXCEPT ![n][p] = [kv |-> Empty, off |-> -1]]
        BY <2>3, <4>1, OneCopy
      <4>4. Abstract!Open(n, p)
        BY <2>1, <4>2, <4>3 DEF Abstract!Open
      <4> QED  BY <4>4 DEF Abstract!Next
    <3>4. CASE disk[n][p] # NoDB
      <4>1. View(n, p)' = View(n, p)
        BY <2>5, <3>1, <3>2, <3>4 DEF View, Opened
      <4> QED  BY <2>1, <2>3, <4>1, SameCopies
    <3> QED  BY <3>3, <3>4
  <2> QED  BY <2>4, <2>5
<1>3. ASSUME NEW n \in Nodes, NEW p \in Parts, DeletePartition(n, p)
      PROVE  Abstract!Drop(n, p) \/ UNCHANGED <<states, Replica>>
  <2>1. /\ states' = states
        /\ disk' = [disk EXCEPT ![n][p] = NoDB]
        /\ faults' = [faults EXCEPT ![n][p] = {}]
    BY <1>3 DEF DeletePartition, logVars
  <2>2. \A j \in Nodes, q \in Parts : ~ (j = n /\ q = p) =>
          disk'[j][q] = disk[j][q] /\ faults'[j][q] = faults[j][q]
    BY <1>d, <1>f, <2>1
  <2>3. \A j \in Nodes, q \in Parts : ~ (j = n /\ q = p) => View(j, q)' = View(j, q)
    BY <2>2 DEF View
  <2>4. View(n, p)' = NoDB
    BY <1>d, <1>f, <2>1 DEF View
  <2>5. Replica' = [Replica EXCEPT ![n][p] = NoDB]
    BY <2>3, <2>4, OneCopy
  <2>6. CASE View(n, p) # NoDB
    <3>1. Replica[n][p] # NoDB
      BY <2>6 DEF Replica, View
    <3> QED  BY <2>1, <2>5, <3>1 DEF Abstract!Drop
  <2>7. CASE View(n, p) = NoDB
    BY <2>1, <2>3, <2>4, <2>7, SameCopies
  <2> QED  BY <2>6, <2>7
<1>4. ASSUME NEW n \in Nodes, NEW p \in Parts, JoinGroup(n, p) \/ FailRecord(n, p)
      PROVE  Abstract!Lose(n, {p}) \/ UNCHANGED <<states, Replica>>
  <2>1. PICK f \in Faults : faults' = [faults EXCEPT ![n][p] = faults[n][p] \cup {f}]
                              \/ faults' = [faults EXCEPT ![n][p] = faults[n][p]]
    BY <1>4 DEF JoinGroup, FailRecord, Faults
  <2>2. UNCHANGED <<states, disk>>
    BY <1>4 DEF JoinGroup, FailRecord, logVars
  <2>3. CASE faults' = [faults EXCEPT ![n][p] = faults[n][p] \cup {f}]
    <3>1. f \in faults'[n][p]
      BY <1>f, <2>3
    <3>2. \A j \in Nodes, q \in Parts : ~ (j = n /\ q \in {p}) => faults'[j][q] = faults[j][q]
      BY <1>f, <2>3
    <3>3. \A q \in {p} : faults'[n][q] # {}
      BY <3>1
    <3> QED  BY <2>2, <3>2, <3>3, RefinesFault
  <2>4. CASE faults' = [faults EXCEPT ![n][p] = faults[n][p]]
    <3>1. faults' = faults
      BY <1>f, <2>4
    <3> QED  BY <1>u, <2>2, <3>1
  <2> QED  BY <2>1, <2>3, <2>4
<1>5. ASSUME NEW n \in Nodes, FetchError(n)
      PROVE  Abstract!Next
  <2>1. PICK S \in SUBSET Parts :
          /\ faults' = [faults EXCEPT ![n] =
                          [p \in Parts |-> IF p \in S \cap managed[n]
                                           THEN faults[n][p] \cup {"fetchError"}
                                           ELSE faults[n][p]]]
          /\ UNCHANGED <<states, disk>>
    BY <1>5 DEF FetchError, PollFetches, logVars
  <2> DEFINE T == S \cap managed[n]
  <2>2. \A q \in T : "fetchError" \in faults'[n][q]
    BY <1>f, <2>1
  <2>3. \A j \in Nodes, q \in Parts : ~ (j = n /\ q \in T) => faults'[j][q] = faults[j][q]
    BY <1>f, <2>1
  <2>4. T \in SUBSET Parts /\ \A q \in T : faults'[n][q] # {}
    BY <2>2
  <2> HIDE DEF T
  <2>5. Abstract!Lose(n, T)
    BY <2>1, <2>3, <2>4, RefinesFault
  <2> QED  BY <2>4, <2>5 DEF Abstract!Next
<1>6. ASSUME NEW n \in Nodes, TopicInfoLoop(n)
      PROVE  Abstract!Next \/ UNCHANGED <<states, Replica>>
  <2>1. \/ UNCHANGED <<states, disk, faults>>
        \/ \E p \in Parts : AddPartition(n, p) \/ DeletePartition(n, p)
    BY <1>6 DEF TopicInfoLoop, DescribeGroups, PauseFetchPartitions, SetOffsets,
                ResumeFetchPartitions, RemovePartition, logVars, auxVars
  <2> QED  BY <1>u, <1>2, <1>3, <2>1 DEF Abstract!Next
<1>7. ASSUME NEW n \in Nodes, PollRecordLoop(n)
      PROVE  Abstract!Next \/ UNCHANGED <<states, Replica>>
  <2>1. \/ UNCHANGED <<states, disk, faults>>
        \/ FetchError(n)
        \/ \E p \in Parts : HandleRecord(n, p) \/ FailRecord(n, p)
    BY <1>7 DEF PollRecordLoop, PollRecords, PollFetches, logVars
  <2> QED  BY <1>u, <1>4, <1>5, <2>1, RefinesHandleRecord DEF Abstract!Next
<1>8. CASE Environment
  <2>1. \/ UNCHANGED <<states, disk, faults>>
        \/ \E p \in Parts, m \in Mutations : Produce(p, m)
        \/ \E n \in Nodes, p \in Parts : JoinGroup(n, p)
    BY <1>8 DEF Environment, Assign, Revoke, AutoCommit, Crash, Start, logVars, auxVars
  <2> QED  BY <1>u, <1>1, <1>4, <2>1 DEF Abstract!Next
<1>9. CASE UNCHANGED vars
  <2>1. UNCHANGED <<states, disk, faults>>
    BY <1>9 DEF vars, logVars, auxVars
  <2> QED  BY <1>u, <2>1
<1> QED  BY <1>6, <1>7, <1>8, <1>9 DEF Next

(* The replica group implements the abstract store, under every timing: a  *)
(* copy is opened empty, only moves forward along the contents of the log, *)
(* is dropped as a whole, and is lost by nothing but the four faults       *)
(* (AddPartition, SetOffsets, HandleMutation, RemovePartition).            *)
THEOREM GroupImplementsStore == Spec => Implements
<1>1. Init => Abstract!Init
  BY DEF Init, Abstract!Init, Replica
<1>2. SafeInv /\ InductiveInv /\ [Next]_vars => [Abstract!Next]_(Abstract!vars)
  BY RefinesStep
<1> QED
  BY <1>1, <1>2, SafeInvHolds, InductiveInvHolds, PTL DEF Spec, Implements, Abstract!Spec

=============================================================================
