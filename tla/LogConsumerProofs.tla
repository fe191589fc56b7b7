------------------------- MODULE LogConsumerProofs -------------------------
(* Proofs about LogConsumer for every set of nodes, partitions, keys and   *)
(* mutations, every bound and every expression engine.                     *)
EXTENDS LogConsumer, RecordsProofs

(* What one mutation leaves behind is again rows of a partition, whatever  *)
(* the operation and the verdict (handlePut, handleDelete).                *)
LEMMA HandleMutationType ==
    ASSUME NEW kv \in Contents, NEW m \in Mutations
    PROVE  HandleMutation(kv, m) \in Contents
BY MutationsType, MutationWrites

(* The checkpoint after a mutation is the old one or the mutation's. *)
LEMMA LastOffsetType ==
    ASSUME NEW kv, NEW m, NEW off \in Nat \cup {NoOffset}, NEW o \in Nat
    PROVE  LastOffset(kv, m, off, o) \in Nat \cup {NoOffset}
BY DEF LastOffset

(* Changing one entry of a table of tables. *)
LEMMA ExceptTwice ==
    ASSUME NEW A, NEW B, NEW C, NEW f \in [A -> [B -> C]],
           NEW a \in A, NEW b \in B, NEW v
    PROVE  \A j \in A, q \in B :
             [f EXCEPT ![a][b] = v][j][q] = IF j = a /\ q = b THEN v ELSE f[j][q]
OBVIOUS

LEMMA EmptyType == Empty \in Contents
BY NoRows

(* Opening a directory, old or new, gives a database. *)
LEMMA OpenedType ==
    ASSUME NEW db \in DB \cup {NoDB}
    PROVE  Opened(db) \in DB
BY EmptyType DEF Opened, DB

-----------------------------------------------------------------------------
(* Type correctness                                                        *)

(* The next record of a batch exists. *)
LEMMA NextBatchType ==
    ASSUME NEW b \in [from : Nat, to : Nat]
    PROVE  NextBatch(b) \in [from : Nat, to : Nat]
BY DEF NextBatch, NoBatch

(* Noting a fault of one copy. *)
LEMMA FaultsType ==
    ASSUME TypeOK, NEW n \in Nodes, NEW p \in Parts, NEW S \in SUBSET Faults,
           faults' = [faults EXCEPT ![n][p] = S]
    PROVE  faults' \in [Nodes -> [Parts -> SUBSET Faults]]
BY DEF TypeOK

HistoryLength == \A p \in Parts : Len(states[p]) = Len(log[p]) + 1

Typed == TypeOK /\ HistoryLength

(* Every offset, those in topicInfoLoop's hands included, is in the log. *)
Offsets ==
    OffsetsInLog /\ \A n \in Nodes, p \in Parts : reset[n][p] < Len(log[p])

(* What holds under every timing.  The types alone are not inductive: a    *)
(* handled record must exist in the log (Offsets) and find an open         *)
(* database (OpenAndFlowing).                                              *)
SafeInv == Typed /\ Offsets /\ OpenAndFlowing

LEMMA InitTyped == Init => Typed
<1> SUFFICES ASSUME Init PROVE Typed
  OBVIOUS
<1>1. TypeOK
  BY EmptyType DEF Init, TypeOK, NoBatch, NoOffset, Steps
<1>2. HistoryLength
  BY DEF Init, HistoryLength
<1> QED  BY <1>1, <1>2 DEF Typed

LEMMA EnvironmentTyped ==
    ASSUME Typed, Environment
    PROVE  Typed'
<1> USE DEF Typed
<1>1. ASSUME NEW p \in Parts, NEW m \in Mutations, Produce(p, m)  PROVE Typed'
  <2>1. StateAfter(p, Len(log[p])) \in Contents
    BY DEF TypeOK, HistoryLength, StateAfter
  <2>2. HandleMutation(StateAfter(p, Len(log[p])), m) \in Contents
    BY <2>1, HandleMutationType
  <2>3. log' \in [Parts -> Seq(Mutations)] /\ states' \in [Parts -> Seq(Contents)]
    BY <1>1, <2>2 DEF Produce, TypeOK
  <2>4. HistoryLength'
    BY <1>1, <2>2, <2>3 DEF Produce, TypeOK, HistoryLength
  <2> QED
    BY <1>1, <2>3, <2>4 DEF Produce, TypeOK, groupVars, clientVars, loopVars, auxVars
<1>2. ASSUME NEW n \in Nodes, NEW p \in Parts, Assign(n, p)  PROVE Typed'
  BY <1>2 DEF Assign, TypeOK, HistoryLength, logVars, clientVars, loopVars, auxVars
<1>3. ASSUME NEW n \in Nodes, NEW p \in Parts, JoinGroup(n, p)  PROVE Typed'
  <2>1. faults' \in [Nodes -> [Parts -> SUBSET Faults]]
    <3> DEFINE S == IF p \in managed[n] /\ ~ Rewinding(n, p) THEN faults[n][p] \cup {"unrewound"}
                                                             ELSE faults[n][p]
    <3>1. faults' = [faults EXCEPT ![n][p] = S]
      BY <1>3 DEF JoinGroup
    <3>2. S \in SUBSET Faults
      BY DEF TypeOK, Faults
    <3> HIDE DEF S
    <3> QED  BY <3>1, <3>2, FaultsType
  <2> QED
    BY <1>3, <2>1 DEF JoinGroup, TypeOK, HistoryLength, logVars, groupVars, loopVars
<1>4. ASSUME NEW n \in Nodes, NEW p \in Parts, Revoke(n, p)  PROVE Typed'
  BY <1>4 DEF Revoke, TypeOK, HistoryLength, logVars, loopVars
<1>5. ASSUME NEW n \in Nodes, NEW p \in Parts, AutoCommit(n, p)  PROVE Typed'
  BY <1>5 DEF AutoCommit, TypeOK, HistoryLength, logVars, clientVars, loopVars, auxVars
<1>6. ASSUME NEW n \in Nodes, Crash(n)  PROVE Typed'
  BY <1>6 DEF Crash, TypeOK, HistoryLength, logVars, groupVars, NoBatch, Steps
<1>7. ASSUME NEW n \in Nodes, Start(n)  PROVE Typed'
  BY <1>7 DEF Start, TypeOK, HistoryLength, logVars, groupVars, clientVars, loopVars, auxVars
<1> QED  BY <1>1, <1>2, <1>3, <1>4, <1>5, <1>6, <1>7 DEF Environment

LEMMA TopicInfoLoopTyped ==
    ASSUME Typed, NEW n \in Nodes, TopicInfoLoop(n)
    PROVE  Typed'
<1> USE DEF Typed
<1>1. CASE DescribeGroups(n)
  <2>1. Added(n) \subseteq Parts /\ Dropped(n) \subseteq Parts
    BY DEF Added, Dropped, Owned, TypeOK
  <2>2. FirstStep(n) \in Steps
    BY DEF FirstStep, Steps
  <2>3. /\ news' \in [Nodes -> SUBSET Parts]
        /\ gones' \in [Nodes -> SUBSET Parts]
        /\ pc' \in [Nodes -> Steps]
        /\ ready' \in [Nodes -> BOOLEAN]
    <3>1. CASE Owned(n) = {}
      BY <1>1, <3>1 DEF DescribeGroups, TypeOK
    <3>2. CASE Owned(n) # {}
      <4>1. /\ news' = [news EXCEPT ![n] = Added(n)]
            /\ gones' = [gones EXCEPT ![n] = Dropped(n)]
            /\ pc' = [pc EXCEPT ![n] = FirstStep(n)]
            /\ ready' = ready
        BY <1>1, <3>2 DEF DescribeGroups
      <4> QED  BY <2>1, <2>2, <4>1 DEF TypeOK
    <3> QED  BY <3>1, <3>2
  <2> QED
    BY <1>1, <2>3 DEF DescribeGroups, TypeOK, HistoryLength, logVars, groupVars,
                      clientVars, auxVars
<1>2. CASE PauseFetchPartitions(n)
  BY <1>2 DEF PauseFetchPartitions, Paused, TypeOK, HistoryLength, Steps, logVars,
              groupVars, auxVars
<1>3. ASSUME NEW p \in Parts, AddPartition(n, p)  PROVE Typed'
  <2>1. Opened(disk[n][p]) \in DB
    BY OpenedType DEF TypeOK
  <2>2. Opened(disk[n][p]).off \in Nat \cup {NoOffset}
    BY <2>1 DEF DB
  <2>3. faults' \in [Nodes -> [Parts -> SUBSET Faults]]
    <3> DEFINE S == IF Pending(n, p) THEN faults[n][p] \cup {"staleBatch"} ELSE faults[n][p]
    <3>1. faults' = [faults EXCEPT ![n][p] = S]
      BY <1>3 DEF AddPartition
    <3>2. S \in SUBSET Faults
      BY DEF TypeOK, Faults
    <3> HIDE DEF S
    <3> QED  BY <3>1, <3>2, FaultsType
  <2> QED
    BY <1>3, <2>1, <2>2, <2>3 DEF AddPartition, TypeOK, HistoryLength, logVars, groupVars,
                                  clientVars
<1>4. CASE SetOffsets(n)
  <2>1. \A p \in Parts : Rewound(n, p) \in Nat \cup {NoOffset}
    BY DEF Rewound, ResetOffset, TypeOK, NoOffset
  <2> QED
    BY <1>4, <2>1 DEF SetOffsets, TypeOK, HistoryLength, Steps, logVars, groupVars, auxVars
<1>5. CASE ResumeFetchPartitions(n)
  BY <1>5 DEF ResumeFetchPartitions, Resumed, AfterNews, TypeOK, HistoryLength, Steps,
              logVars, groupVars, auxVars
<1>6. ASSUME NEW p \in Parts, RemovePartition(n, p)  PROVE Typed'
  BY <1>6 DEF RemovePartition, TypeOK, HistoryLength, logVars, groupVars, clientVars,
              loopVars, auxVars
<1>7. ASSUME NEW p \in Parts, DeletePartition(n, p)  PROVE Typed'
  <2>1. faults' \in [Nodes -> [Parts -> SUBSET Faults]]
    <3>1. {} \in SUBSET Faults
      OBVIOUS
    <3> QED  BY <1>7, <3>1, FaultsType DEF DeletePartition
  <2> QED
    BY <1>7, <2>1 DEF DeletePartition, TypeOK, HistoryLength, Steps, logVars, groupVars,
                      clientVars
<1> QED  BY <1>1, <1>2, <1>3, <1>4, <1>5, <1>6, <1>7 DEF TopicInfoLoop

(* A batch starts at the client's position and ends further on, in the log. *)
LEMMA BatchEndType ==
    ASSUME TypeOK, NEW n \in Nodes, NEW p \in Fetchable(n), NEW k \in 1 .. MaxFetch
    PROVE  /\ position[n][p] \in Nat
           /\ BatchEnd(n, p, k) \in Nat
           /\ position[n][p] < BatchEnd(n, p, k)
           /\ BatchEnd(n, p, k) <= Len(log[p])
<1>1. p \in Parts /\ position[n][p] \in Nat /\ position[n][p] < Len(log[p])
  BY DEF Fetchable, TypeOK
<1>2. Len(log[p]) \in Nat /\ k \in Nat /\ k > 0
  BY <1>1, BoundsType DEF TypeOK
<1> QED  BY <1>1, <1>2 DEF BatchEnd

(* The record a transaction applies exists, and what it leaves is a database. *)
LEMMA HandledType ==
    ASSUME SafeInv, NEW n \in Nodes, NEW p \in Parts, HandleRecord(n, p)
    PROVE  [kv  |-> HandleMutation(disk[n][p].kv, Mutation(n, p)),
            off |-> LastOffset(disk[n][p].kv, Mutation(n, p), disk[n][p].off,
                               fetched[n][p].from)] \in DB
<1> USE DEF SafeInv, Typed
<1>1. disk[n][p] \in DB
  BY DEF HandleRecord, Accepts, OpenAndFlowing, TypeOK
<1>2. Mutation(n, p) \in Mutations
  <2>1. fetched[n][p].from + 1 \in 1 .. Len(log[p])
    BY DEF HandleRecord, Pending, Offsets, OffsetsInLog, TypeOK
  <2> QED  BY <2>1 DEF Mutation, TypeOK
<1>3. HandleMutation(disk[n][p].kv, Mutation(n, p)) \in Contents
  BY <1>1, <1>2, HandleMutationType DEF DB
<1>4. disk[n][p].off \in Nat \cup {NoOffset} /\ fetched[n][p].from \in Nat
  BY <1>1 DEF DB, TypeOK
<1>5. LastOffset(disk[n][p].kv, Mutation(n, p), disk[n][p].off, fetched[n][p].from)
        \in Nat \cup {NoOffset}
  BY <1>4, LastOffsetType
<1> QED  BY <1>3, <1>5 DEF DB

LEMMA PollRecordLoopTyped ==
    ASSUME SafeInv, NEW n \in Nodes, PollRecordLoop(n)
    PROVE  Typed'
<1> USE DEF SafeInv, Typed
<1>1. ASSUME NEW S \in SUBSET Parts, NEW k \in 1 .. MaxFetch, PollFetches(n, S, k),
             fetched' \in [Nodes -> [Parts -> [from : Nat, to : Nat]]],
             faults' \in [Nodes -> [Parts -> SUBSET Faults]]
      PROVE  Typed'
  <2>1. \A p \in S : BatchEnd(n, p, k) \in Nat
    BY <1>1, BatchEndType DEF PollFetches
  <2>2. position' \in [Nodes -> [Parts -> Nat \cup {NoOffset}]]
    BY <1>1, <2>1 DEF PollFetches, TypeOK
  <2> QED
    BY <1>1, <2>2 DEF PollFetches, TypeOK, HistoryLength, logVars, groupVars, loopVars
<1>2. CASE PollRecords(n)
  <2>1. PICK S \in SUBSET Parts, k \in 1 .. MaxFetch :
          /\ PollFetches(n, S, k)
          /\ fetched' = [fetched EXCEPT ![n] =
                           [p \in Parts |-> IF p \in S THEN Batch(n, p, k)
                                                      ELSE fetched[n][p]]]
          /\ faults' = faults
    BY <1>2 DEF PollRecords
  <2>2. \A p \in S : position[n][p] \in Nat /\ BatchEnd(n, p, k) \in Nat
    BY <2>1, BatchEndType DEF PollFetches
  <2>3. fetched' \in [Nodes -> [Parts -> [from : Nat, to : Nat]]]
    BY <2>1, <2>2 DEF TypeOK, Batch
  <2> QED  BY <1>1, <2>1, <2>3 DEF TypeOK
<1>3. CASE FetchError(n)
  <2>1. PICK S \in SUBSET Parts, k \in 1 .. MaxFetch :
          /\ PollFetches(n, S, k)
          /\ faults' = [faults EXCEPT ![n] =
                          [p \in Parts |-> IF p \in S \cap managed[n]
                                           THEN faults[n][p] \cup {"fetchError"}
                                           ELSE faults[n][p]]]
          /\ fetched' = fetched
    BY <1>3 DEF FetchError
  <2>2. \A p \in Parts : faults[n][p] \in SUBSET Faults /\ faults[n][p] \cup {"fetchError"} \in SUBSET Faults
    BY DEF TypeOK, Faults
  <2>3. [p \in Parts |-> IF p \in S \cap managed[n] THEN faults[n][p] \cup {"fetchError"}
                                                     ELSE faults[n][p]]
          \in [Parts -> SUBSET Faults]
    BY <2>2
  <2>4. faults' \in [Nodes -> [Parts -> SUBSET Faults]]
    BY <2>1, <2>3 DEF TypeOK
  <2> QED  BY <1>1, <2>1, <2>4 DEF TypeOK
<1>4. ASSUME NEW p \in Parts, HandleRecord(n, p)  PROVE Typed'
  <2> DEFINE db == [kv  |-> HandleMutation(disk[n][p].kv, Mutation(n, p)),
                    off |-> LastOffset(disk[n][p].kv, Mutation(n, p), disk[n][p].off,
                                       fetched[n][p].from)]
  <2>3. db \in DB
    BY <1>4, HandledType
  <2>4. disk' = [disk EXCEPT ![n][p] = db]
    BY <1>4 DEF HandleRecord
  <2>5. disk' \in [Nodes -> [Parts -> DB \cup {NoDB}]]
    BY <2>3, <2>4 DEF TypeOK
  <2>6. fetched' \in [Nodes -> [Parts -> [from : Nat, to : Nat]]]
    BY <1>4, NextBatchType DEF HandleRecord, TypeOK
  <2> QED
    BY <1>4, <2>5, <2>6 DEF HandleRecord, TypeOK, HistoryLength, logVars, groupVars,
                            loopVars, auxVars
<1>5. ASSUME NEW p \in Parts, FailRecord(n, p)  PROVE Typed'
  <2>1. faults' \in [Nodes -> [Parts -> SUBSET Faults]]
    <3> DEFINE S == IF p \in managed[n] /\ fetched[n][p].from + 1 < fetched[n][p].to
                    THEN faults[n][p] \cup {"failedRecord"} ELSE faults[n][p]
    <3>1. faults' = [faults EXCEPT ![n][p] = S]
      BY <1>5 DEF FailRecord
    <3>2. S \in SUBSET Faults
      BY DEF TypeOK, Faults
    <3> HIDE DEF S
    <3> QED  BY <3>1, <3>2, FaultsType
  <2> QED
    BY <1>5, <2>1 DEF FailRecord, NoBatch, TypeOK, HistoryLength, logVars, groupVars, loopVars
<1> QED  BY <1>2, <1>3, <1>4, <1>5 DEF PollRecordLoop

LEMMA NextTyped ==
    ASSUME SafeInv, [Next]_vars
    PROVE  Typed'
<1>1. CASE Environment
  BY <1>1, EnvironmentTyped DEF SafeInv
<1>2. CASE \E n \in Nodes : TopicInfoLoop(n)
  BY <1>2, TopicInfoLoopTyped DEF SafeInv
<1>3. CASE \E n \in Nodes : PollRecordLoop(n)
  BY <1>3, PollRecordLoopTyped
<1>4. CASE UNCHANGED vars
  BY <1>4 DEF SafeInv, Typed, TypeOK, HistoryLength, vars, logVars, groupVars, clientVars,
              loopVars, auxVars
<1> QED  BY <1>1, <1>2, <1>3, <1>4 DEF Next

-----------------------------------------------------------------------------
(* Offsets stay in the log                                                 *)

LEMMA OffsetsStep ==
    ASSUME SafeInv, Next
    PROVE  Offsets'
<1>t. TypeOK
  BY DEF SafeInv, Typed
<1>o. Offsets /\ OpenAndFlowing
  BY DEF SafeInv
<1>l. \A p \in Parts : Len(log[p]) \in Nat
  BY <1>t DEF TypeOK
<1>d. disk \in [Nodes -> [Parts -> DB \cup {NoDB}]]
  BY <1>t DEF TypeOK
<1>f. fetched \in [Nodes -> [Parts -> [from : Nat, to : Nat]]]
  BY <1>t DEF TypeOK
<1>1. ASSUME NEW p \in Parts, NEW m \in Mutations, Produce(p, m)  PROVE Offsets'
  <2>1. \A q \in Parts : Len(log'[q]) \in Nat /\ Len(log'[q]) >= Len(log[q])
    BY <1>1, <1>l, <1>t DEF Produce, TypeOK
  <2>2. UNCHANGED <<committed, position, fetched, disk, reset>>
    BY <1>1 DEF Produce, groupVars, clientVars, loopVars
  <2>3. \A q \in Parts : committed[q] \in Nat
    BY <1>t DEF TypeOK
  <2>4. \A j \in Nodes, q \in Parts :
          position[j][q] \in Int /\ reset[j][q] \in Int /\ fetched[j][q].to \in Int
    BY <1>t DEF TypeOK, NoOffset
  <2>5. \A j \in Nodes, q \in Parts : disk[j][q] # NoDB => disk[j][q].off \in Int
    BY <1>d DEF DB, NoOffset
  <2> QED  BY <1>l, <1>o, <2>1, <2>2, <2>3, <2>4, <2>5 DEF Offsets, OffsetsInLog
<1>2. ASSUME UNCHANGED <<log, committed, position, fetched, disk, reset>>  PROVE Offsets'
  BY <1>2, <1>o DEF Offsets, OffsetsInLog
<1>3. ASSUME NEW n \in Nodes, NEW p \in Parts, JoinGroup(n, p)  PROVE Offsets'
  BY <1>3, <1>o, <1>t DEF JoinGroup, Offsets, OffsetsInLog, TypeOK, logVars, groupVars, loopVars
<1>4. ASSUME NEW n \in Nodes, NEW p \in Parts, Revoke(n, p)  PROVE Offsets'
  BY <1>4, <1>o, <1>t, <1>l DEF Revoke, Offsets, OffsetsInLog, TypeOK, logVars, loopVars, NoOffset
<1>5. ASSUME NEW n \in Nodes, NEW p \in Parts, AutoCommit(n, p)  PROVE Offsets'
  BY <1>5, <1>o, <1>t DEF AutoCommit, Offsets, OffsetsInLog, TypeOK, logVars, clientVars, loopVars
<1>6. ASSUME NEW n \in Nodes, Crash(n)  PROVE Offsets'
  BY <1>6, <1>o, <1>t, <1>l DEF Crash, Offsets, OffsetsInLog, TypeOK, logVars, groupVars,
                                NoOffset, NoBatch
<1>7. ASSUME NEW n \in Nodes, NEW p \in Parts, AddPartition(n, p)  PROVE Offsets'
  <2>1. Opened(disk[n][p]).off < Len(log[p])
    BY <1>l, <1>o DEF Opened, Offsets, OffsetsInLog, NoOffset
  <2>2. disk' = [disk EXCEPT ![n][p] = Opened(disk[n][p])]
    BY <1>7 DEF AddPartition
  <2>3. \A j \in Nodes, q \in Parts :
          disk'[j][q] = IF j = n /\ q = p THEN Opened(disk[n][p]) ELSE disk[j][q]
    BY <1>d, <2>2, ExceptTwice
  <2>4. \A j \in Nodes, q \in Parts :
          reset'[j][q] = IF j = n /\ q = p THEN Opened(disk[n][p]).off ELSE reset[j][q]
    BY <1>7, <1>t DEF AddPartition, TypeOK
  <2>5. UNCHANGED <<log, committed, position, fetched>>
    BY <1>7 DEF AddPartition, logVars, groupVars, clientVars
  <2> QED  BY <1>o, <2>1, <2>3, <2>4, <2>5 DEF Offsets, OffsetsInLog
<1>8. ASSUME NEW n \in Nodes, SetOffsets(n)  PROVE Offsets'
  <2>1. \A p \in Parts : Rewound(n, p) <= Len(log[p])
    BY <1>l, <1>o, <1>t DEF Rewound, ResetOffset, Offsets, OffsetsInLog, TypeOK, NoOffset
  <2> QED
    BY <1>8, <1>o, <1>t, <2>1 DEF SetOffsets, Offsets, OffsetsInLog, TypeOK, logVars, groupVars
<1>9. ASSUME NEW n \in Nodes, ResumeFetchPartitions(n)  PROVE Offsets'
  BY <1>9, <1>l, <1>o, <1>t DEF ResumeFetchPartitions, Offsets, OffsetsInLog, TypeOK, logVars,
                                groupVars, NoOffset
<1>10. ASSUME NEW n \in Nodes, NEW p \in Parts, DeletePartition(n, p)  PROVE Offsets'
  <2>1. disk' = [disk EXCEPT ![n][p] = NoDB]
    BY <1>10 DEF DeletePartition
  <2>2. \A j \in Nodes, q \in Parts :
          disk'[j][q] = IF j = n /\ q = p THEN NoDB ELSE disk[j][q]
    BY <1>d, <2>1, ExceptTwice
  <2>3. UNCHANGED <<log, committed, position, fetched, reset>>
    BY <1>10 DEF DeletePartition, logVars, groupVars, clientVars
  <2> QED  BY <1>o, <2>2, <2>3 DEF Offsets, OffsetsInLog
<1>11. ASSUME NEW n \in Nodes, NEW S \in SUBSET Parts, NEW k \in 1 .. MaxFetch,
              PollFetches(n, S, k),
              \A j \in Nodes, p \in Parts : fetched'[j][p].to <= Len(log[p])
       PROVE  Offsets'
  <2>1. \A p \in S : BatchEnd(n, p, k) <= Len(log[p])
    BY <1>11, <1>t, BatchEndType DEF PollFetches
  <2>2. \A j \in Nodes, p \in Parts : position'[j][p] <= Len(log[p])
    BY <1>11, <1>o, <1>t, <2>1 DEF PollFetches, Offsets, OffsetsInLog, TypeOK
  <2>3. UNCHANGED <<log, committed, disk, reset>>
    BY <1>11 DEF PollFetches, logVars, groupVars, loopVars
  <2> QED  BY <1>11, <1>o, <2>2, <2>3 DEF Offsets, OffsetsInLog
<1>12. ASSUME NEW n \in Nodes, PollRecords(n)  PROVE Offsets'
  <2>1. PICK S \in SUBSET Parts, k \in 1 .. MaxFetch :
          /\ PollFetches(n, S, k)
          /\ fetched' = [fetched EXCEPT ![n] =
                           [p \in Parts |-> IF p \in S THEN Batch(n, p, k)
                                                      ELSE fetched[n][p]]]
    BY <1>12 DEF PollRecords
  <2>2. \A p \in S : Batch(n, p, k).to <= Len(log[p])
    BY <2>1, <1>t, BatchEndType DEF PollFetches, Batch
  <2>3. \A j \in Nodes, p \in Parts :
          fetched'[j][p] = IF j = n /\ p \in S THEN Batch(n, p, k) ELSE fetched[j][p]
    <3>1. fetched' = [fetched EXCEPT ![n] =
                        [p \in Parts |-> IF p \in S THEN Batch(n, p, k) ELSE fetched[n][p]]]
      BY <2>1
    <3>2. ASSUME NEW p \in Parts
          PROVE  fetched'[n][p] = IF p \in S THEN Batch(n, p, k) ELSE fetched[n][p]
      BY <1>f, <3>1
    <3>3. ASSUME NEW j \in Nodes, j # n  PROVE fetched'[j] = fetched[j]
      BY <1>f, <3>1, <3>3
    <3>4. ASSUME NEW j \in Nodes, NEW p \in Parts
          PROVE  fetched'[j][p] = IF j = n /\ p \in S THEN Batch(n, p, k) ELSE fetched[j][p]
      <4>1. CASE j = n
        BY <3>2, <4>1
      <4>2. CASE j # n
        BY <3>3, <4>2
      <4> QED  BY <4>1, <4>2
    <3> QED  BY <3>4
  <2>4. \A j \in Nodes, p \in Parts : fetched'[j][p].to <= Len(log[p])
    BY <1>o, <2>2, <2>3 DEF Offsets, OffsetsInLog
  <2> QED  BY <1>11, <2>1, <2>4
<1>13. ASSUME NEW n \in Nodes, FetchError(n)  PROVE Offsets'
  <2>1. PICK S \in SUBSET Parts, k \in 1 .. MaxFetch :
          PollFetches(n, S, k) /\ fetched' = fetched
    BY <1>13 DEF FetchError
  <2> QED  BY <1>11, <1>o, <2>1 DEF Offsets, OffsetsInLog
<1>14. ASSUME NEW n \in Nodes, NEW p \in Parts, HandleRecord(n, p)  PROVE Offsets'
  <2> DEFINE db == [kv  |-> HandleMutation(disk[n][p].kv, Mutation(n, p)),
                    off |-> LastOffset(disk[n][p].kv, Mutation(n, p), disk[n][p].off,
                                       fetched[n][p].from)]
  <2>1. disk[n][p] # NoDB
    BY <1>14, <1>o DEF HandleRecord, Accepts, OpenAndFlowing
  <2>2. fetched[n][p].from < Len(log[p])
    BY <1>14, <1>l, <1>o, <1>f DEF HandleRecord, Pending, Offsets, OffsetsInLog
  <2>3. db.off < Len(log[p])
    BY <1>o, <2>1, <2>2 DEF LastOffset, Offsets, OffsetsInLog
  <2>4. NextBatch(fetched[n][p]).to <= Len(log[p])
    BY <1>l, <1>o, <1>f DEF NextBatch, NoBatch, Offsets, OffsetsInLog
  <2>5. /\ fetched' = [fetched EXCEPT ![n][p] = NextBatch(fetched[n][p])]
        /\ disk' = [disk EXCEPT ![n][p] = db]
        /\ UNCHANGED <<log, committed, position, reset>>
    BY <1>14 DEF HandleRecord, logVars, groupVars, loopVars
  <2>6. \A j \in Nodes, q \in Parts :
          fetched'[j][q] = IF j = n /\ q = p THEN NextBatch(fetched[n][p]) ELSE fetched[j][q]
    BY <1>f, <2>5, ExceptTwice
  <2>7. \A j \in Nodes, q \in Parts :
          disk'[j][q] = IF j = n /\ q = p THEN db ELSE disk[j][q]
    <3> HIDE DEF db
    <3> QED  BY <1>d, <2>5, ExceptTwice
  <2> QED
    <3> HIDE DEF db
    <3> QED  BY <1>o, <2>3, <2>4, <2>5, <2>6, <2>7 DEF Offsets, OffsetsInLog
<1>15. ASSUME NEW n \in Nodes, NEW p \in Parts, FailRecord(n, p)  PROVE Offsets'
  <2>1. /\ fetched' = [fetched EXCEPT ![n][p] = NoBatch]
        /\ UNCHANGED <<log, committed, position, disk, reset>>
    BY <1>15 DEF FailRecord, logVars, groupVars, loopVars
  <2>2. \A j \in Nodes, q \in Parts :
          fetched'[j][q] = IF j = n /\ q = p THEN NoBatch ELSE fetched[j][q]
    BY <1>f, <2>1, ExceptTwice
  <2> QED  BY <1>l, <1>o, <2>1, <2>2 DEF NoBatch, Offsets, OffsetsInLog
<1>16. ASSUME NEW n \in Nodes, Start(n) \/ DescribeGroups(n) \/ PauseFetchPartitions(n)
       PROVE  Offsets'
  BY <1>2, <1>16 DEF Start, DescribeGroups, PauseFetchPartitions, logVars, groupVars,
                     clientVars, loopVars
<1>17. ASSUME NEW n \in Nodes, NEW p \in Parts, Assign(n, p) \/ RemovePartition(n, p)
       PROVE  Offsets'
  BY <1>2, <1>17 DEF Assign, RemovePartition, logVars, groupVars, clientVars, loopVars
<1>18. CASE Environment
  BY <1>1, <1>3, <1>4, <1>5, <1>6, <1>16, <1>17, <1>18 DEF Environment
<1>19. ASSUME NEW n \in Nodes, TopicInfoLoop(n)  PROVE Offsets'
  BY <1>7, <1>8, <1>9, <1>10, <1>16, <1>17, <1>19 DEF TopicInfoLoop
<1>20. ASSUME NEW n \in Nodes, PollRecordLoop(n)  PROVE Offsets'
  BY <1>12, <1>13, <1>14, <1>15, <1>20 DEF PollRecordLoop
<1> QED  BY <1>18, <1>19, <1>20 DEF Next

-----------------------------------------------------------------------------
(* Open databases and paused partitions                                    *)

LEMMA OpenAndFlowingStep ==
    ASSUME SafeInv, Next
    PROVE  OpenAndFlowing'
<1>t. TypeOK
  BY DEF SafeInv, Typed
<1>o. OpenAndFlowing
  BY DEF SafeInv
<1>d. disk \in [Nodes -> [Parts -> DB \cup {NoDB}]]
  BY <1>t DEF TypeOK
<1>m. managed \in [Nodes -> SUBSET Parts]
  BY <1>t DEF TypeOK
<1>1. ASSUME UNCHANGED <<managed, disk, paused, news, pc>>  PROVE OpenAndFlowing'
  BY <1>1, <1>o DEF OpenAndFlowing
<1>2. ASSUME NEW n \in Nodes, Crash(n)  PROVE OpenAndFlowing'
  BY <1>2, <1>o, <1>t DEF Crash, OpenAndFlowing, TypeOK
<1>3. ASSUME NEW n \in Nodes, DescribeGroups(n)  PROVE OpenAndFlowing'
  <2>1. CASE Owned(n) = {}
    BY <1>1, <1>3, <2>1 DEF DescribeGroups, clientVars
  <2>2. CASE Owned(n) # {}
    <3>1. /\ news' = [news EXCEPT ![n] = Added(n)]
          /\ pc' = [pc EXCEPT ![n] = FirstStep(n)]
          /\ pc[n] = "idle"
          /\ UNCHANGED <<managed, disk, paused>>
      BY <1>3, <2>2 DEF DescribeGroups, clientVars
    <3>2. FirstStep(n) \in {"idle", "remove"} => Added(n) = {}
      BY DEF FirstStep
    <3> QED  BY <1>o, <1>t, <3>1, <3>2 DEF OpenAndFlowing, TypeOK
  <2> QED  BY <2>1, <2>2
<1>4. ASSUME NEW n \in Nodes, PauseFetchPartitions(n)  PROVE OpenAndFlowing'
  BY <1>4, <1>o, <1>t DEF PauseFetchPartitions, Paused, OpenAndFlowing, TypeOK
<1>5. ASSUME NEW n \in Nodes, NEW p \in Parts, AddPartition(n, p)  PROVE OpenAndFlowing'
  <2>1. Opened(disk[n][p]) # NoDB
    BY OpenedType, NoDBIsNoDatabase, <1>d
  <2>2. /\ disk' = [disk EXCEPT ![n][p] = Opened(disk[n][p])]
        /\ managed' = [managed EXCEPT ![n] = managed[n] \cup {p}]
        /\ UNCHANGED <<paused, news, pc>>
    BY <1>5 DEF AddPartition, clientVars
  <2>3. \A j \in Nodes, q \in Parts :
          disk'[j][q] = IF j = n /\ q = p THEN Opened(disk[n][p]) ELSE disk[j][q]
    BY <1>d, <2>2, ExceptTwice
  <2> QED  BY <1>o, <1>m, <2>1, <2>2, <2>3 DEF OpenAndFlowing
<1>6. ASSUME NEW n \in Nodes, SetOffsets(n)  PROVE OpenAndFlowing'
  BY <1>6, <1>o, <1>t DEF SetOffsets, OpenAndFlowing, TypeOK
<1>7. ASSUME NEW n \in Nodes, ResumeFetchPartitions(n)  PROVE OpenAndFlowing'
  BY <1>7, <1>o, <1>t DEF ResumeFetchPartitions, Resumed, OpenAndFlowing, TypeOK
<1>8. ASSUME NEW n \in Nodes, NEW p \in Parts, RemovePartition(n, p)  PROVE OpenAndFlowing'
  BY <1>8, <1>o, <1>t DEF RemovePartition, OpenAndFlowing, TypeOK, loopVars, clientVars
<1>9. ASSUME NEW n \in Nodes, NEW p \in Parts, DeletePartition(n, p)  PROVE OpenAndFlowing'
  <2>1. /\ disk' = [disk EXCEPT ![n][p] = NoDB]
        /\ p \notin managed[n]
        /\ pc[n] = "remove"
        /\ UNCHANGED <<managed, paused, news>>
    BY <1>9 DEF DeletePartition, clientVars
  <2>2. \A j \in Nodes, q \in Parts :
          disk'[j][q] = IF j = n /\ q = p THEN NoDB ELSE disk[j][q]
    BY <1>d, <2>1, ExceptTwice
  <2>3. \A j \in Nodes : pc'[j] \in {"idle", "remove"} => pc[j] \in {"idle", "remove"}
    BY <1>9, <1>t DEF DeletePartition, TypeOK
  <2> QED  BY <1>o, <1>m, <2>1, <2>2, <2>3 DEF OpenAndFlowing
<1>10. ASSUME NEW n \in Nodes, NEW p \in Parts, HandleRecord(n, p)  PROVE OpenAndFlowing'
  <2> DEFINE db == [kv  |-> HandleMutation(disk[n][p].kv, Mutation(n, p)),
                    off |-> LastOffset(disk[n][p].kv, Mutation(n, p), disk[n][p].off,
                                       fetched[n][p].from)]
  <2>1. /\ disk' = [disk EXCEPT ![n][p] = db]
        /\ UNCHANGED <<managed, paused, news, pc>>
    BY <1>10 DEF HandleRecord, loopVars
  <2>3. db \in DB
    BY HandledType, <1>10
  <2> HIDE DEF db
  <2>4. \A j \in Nodes, q \in Parts :
          disk'[j][q] = IF j = n /\ q = p THEN db ELSE disk[j][q]
    BY <1>d, <2>1, ExceptTwice
  <2> QED  BY <1>o, <2>1, <2>3, <2>4, NoDBIsNoDatabase DEF OpenAndFlowing
<1>11. ASSUME NEW n \in Nodes, NEW p \in Parts,
              JoinGroup(n, p) \/ Revoke(n, p) \/ AutoCommit(n, p) \/ Assign(n, p)
                \/ FailRecord(n, p)
       PROVE  OpenAndFlowing'
  BY <1>1, <1>11 DEF JoinGroup, Revoke, AutoCommit, Assign, FailRecord, clientVars, loopVars
<1>12. ASSUME NEW n \in Nodes, Start(n) \/ PollRecords(n) \/ FetchError(n)
       PROVE  OpenAndFlowing'
  BY <1>1, <1>12 DEF Start, PollRecords, FetchError, PollFetches, clientVars, loopVars
<1>13. ASSUME NEW p \in Parts, NEW m \in Mutations, Produce(p, m)  PROVE OpenAndFlowing'
  BY <1>1, <1>13 DEF Produce, clientVars, loopVars
<1>14. CASE Environment
  BY <1>2, <1>11, <1>12, <1>13, <1>14 DEF Environment
<1>15. ASSUME NEW n \in Nodes, TopicInfoLoop(n)  PROVE OpenAndFlowing'
  BY <1>3, <1>4, <1>5, <1>6, <1>7, <1>8, <1>9, <1>15 DEF TopicInfoLoop
<1>16. ASSUME NEW n \in Nodes, PollRecordLoop(n)  PROVE OpenAndFlowing'
  BY <1>10, <1>11, <1>12, <1>16 DEF PollRecordLoop
<1> QED  BY <1>14, <1>15, <1>16 DEF Next

-----------------------------------------------------------------------------
(* What holds under every timing                                           *)

LEMMA SafeInvHolds == Spec => []SafeInv
<1>1. Init => SafeInv
  <2> SUFFICES ASSUME Init PROVE SafeInv
    OBVIOUS
  <2>1. Typed
    BY InitTyped
  <2>2. Offsets
    BY DEF Init, Offsets, OffsetsInLog, NoBatch, NoOffset
  <2>3. OpenAndFlowing
    BY DEF Init, OpenAndFlowing
  <2> QED  BY <2>1, <2>2, <2>3 DEF SafeInv
<1>2. SafeInv /\ [Next]_vars => SafeInv'
  <2> SUFFICES ASSUME SafeInv, [Next]_vars PROVE SafeInv'
    OBVIOUS
  <2>1. CASE Next
    BY <2>1, NextTyped, OffsetsStep, OpenAndFlowingStep DEF SafeInv
  <2>2. CASE UNCHANGED vars
    <3>1. Typed'
      BY NextTyped
    <3>2. UNCHANGED <<log, committed, position, fetched, disk, reset, managed, paused, news, pc>>
      BY <2>2 DEF vars, logVars, groupVars, clientVars, loopVars
    <3>3. Offsets' /\ OpenAndFlowing'
      BY <3>2 DEF SafeInv, Offsets, OffsetsInLog, OpenAndFlowing
    <3> QED  BY <3>1, <3>3 DEF SafeInv
  <2> QED  BY <2>1, <2>2
<1> QED  BY <1>1, <1>2, PTL DEF Spec

(* Every variable keeps its type, for every number of nodes, partitions    *)
(* and records and under every timing: in particular each handled record   *)
(* exists and each database it is written to is open.                      *)
THEOREM TypeCorrect == Spec => []TypeOK
<1>1. SafeInv => TypeOK
  BY DEF SafeInv, Typed
<1> QED  BY <1>1, SafeInvHolds, PTL

(* No position, batch, commit or checkpoint is behind the end of the log,  *)
(* whatever the interleaving of topicInfoLoop, pollRecords, rebalances and *)
(* crashes.                                                                *)
THEOREM OffsetsStayInLog == Spec => []OffsetsInLog
<1>1. SafeInv => OffsetsInLog
  BY DEF SafeInv, Offsets
<1> QED  BY <1>1, SafeInvHolds, PTL

(* The manager never serves a partition without a database and no          *)
(* partition stays paused behind topicInfoLoop's back.                     *)
THEOREM AlwaysOpenAndFlowing == Spec => []OpenAndFlowing
<1>1. SafeInv => OpenAndFlowing
  BY DEF SafeInv
<1> QED  BY <1>1, SafeInvHolds, PTL

-----------------------------------------------------------------------------
(* Rows                                                                    *)

(* The row was written by puts of the log l for k: one for the payload,    *)
(* one, perhaps earlier or later, for CreatedAt.                           *)
Written(l, k, row) ==
    \E i, j \in 1 .. Len(l) :
        /\ l[i].op = "put" /\ l[i].key = k
        /\ l[j].op = "put" /\ l[j].key = k
        /\ row = [data |-> l[i].data, updated |-> l[i].ts, created |-> l[j].ts]

(* Applying any record of the log, in or out of turn, to written rows      *)
(* leaves written rows (handlePut).                                        *)
LEMMA RecordLeavesWritten ==
    ASSUME NEW l \in Seq(Mutations), NEW x \in 1 .. Len(l), NEW kv \in Contents, NEW k \in Keys,
           kv[k] # Absent => Written(l, k, kv[k]),
           HandleMutation(kv, l[x])[k] # Absent
    PROVE  Written(l, k, HandleMutation(kv, l[x])[k])
<1> DEFINE m == l[x]
<1>1. m \in RecordMutation
  BY MutationsType
<1>2. CASE HandleMutation(kv, m)[k] = kv[k]
  BY <1>2
<1>3. CASE m.op = "put" /\ m.key = k /\ HandleMutation(kv, m)[k] = PutRow(kv[k], m)
  <2>1. CASE kv[k] = Absent
    BY <1>3, <2>1 DEF PutRow, Written
  <2>2. CASE kv[k] # Absent
    <3>1. PICK i, j \in 1 .. Len(l) :
            /\ l[j].op = "put" /\ l[j].key = k
            /\ kv[k] = [data |-> l[i].data, updated |-> l[i].ts, created |-> l[j].ts]
      BY <2>2 DEF Written
    <3>2. kv[k].created = l[j].ts
      BY <3>1
    <3>3. PutRow(kv[k], m) = [data |-> m.data, updated |-> m.ts, created |-> l[j].ts]
      BY <2>2, <3>2 DEF PutRow
    <3> QED  BY <1>3, <3>1, <3>3 DEF Written
  <2> QED  BY <2>1, <2>2
<1> QED  BY <1>1, <1>2, <1>3, MutationWrites

(* And a longer log still has the puts. *)
LEMMA WrittenLonger ==
    ASSUME NEW l \in Seq(Mutations), NEW m \in Mutations, NEW k, NEW row, Written(l, k, row)
    PROVE  Written(Append(l, m), k, row)
<1>1. /\ Len(Append(l, m)) = Len(l) + 1 /\ Len(l) \in Nat
      /\ \A i \in 1 .. Len(l) : Append(l, m)[i] = l[i]
  OBVIOUS
<1>2. \A i \in 1 .. Len(l) : i \in 1 .. Len(Append(l, m))
  BY <1>1
<1> QED  BY <1>1, <1>2 DEF Written

LEMMA RowsStep ==
    ASSUME SafeInv, RowsWereWritten, [Next]_vars
    PROVE  RowsWereWritten'
<1>t. TypeOK
  BY DEF SafeInv, Typed
<1>d. disk \in [Nodes -> [Parts -> DB \cup {NoDB}]]
  BY <1>t DEF TypeOK
<1>w. \A n \in Nodes, p \in Parts, k \in Keys :
        disk[n][p] # NoDB /\ disk[n][p].kv[k] # Absent => Written(log[p], k, disk[n][p].kv[k])
  BY DEF RowsWereWritten, Written
<1>g. ASSUME \A n \in Nodes, p \in Parts, k \in Keys :
               disk'[n][p] # NoDB /\ disk'[n][p].kv[k] # Absent =>
                 Written(log'[p], k, disk'[n][p].kv[k])
      PROVE  RowsWereWritten'
  BY <1>g DEF RowsWereWritten, Written
<1>1. ASSUME UNCHANGED <<log, disk>>  PROVE RowsWereWritten'
  BY <1>1 DEF RowsWereWritten
<1>2. ASSUME NEW p \in Parts, NEW m \in Mutations, Produce(p, m)  PROVE RowsWereWritten'
  <2>1. /\ disk' = disk
        /\ \A q \in Parts : log'[q] = IF q = p THEN Append(log[p], m) ELSE log[q]
        /\ \A q \in Parts : log[q] \in Seq(Mutations)
    BY <1>2, <1>t DEF Produce, TypeOK
  <2> QED  BY <1>g, <1>w, <2>1, WrittenLonger
<1>3. ASSUME NEW n \in Nodes, NEW p \in Parts, AddPartition(n, p)  PROVE RowsWereWritten'
  <2>1. disk' = [disk EXCEPT ![n][p] = Opened(disk[n][p])] /\ log' = log
    BY <1>3 DEF AddPartition, logVars
  <2>2. \A j \in Nodes, q \in Parts :
          disk'[j][q] = IF j = n /\ q = p THEN Opened(disk[n][p]) ELSE disk[j][q]
    BY <1>d, <2>1, ExceptTwice
  <2>3. \A k \in Keys : Opened(disk[n][p]).kv[k] # Absent =>
          Opened(disk[n][p]) = disk[n][p] /\ disk[n][p] # NoDB
    BY NoRows DEF Opened
  <2> QED  BY <1>g, <1>w, <2>1, <2>2, <2>3
<1>4. ASSUME NEW n \in Nodes, NEW p \in Parts, DeletePartition(n, p)  PROVE RowsWereWritten'
  <2>1. disk' = [disk EXCEPT ![n][p] = NoDB] /\ log' = log
    BY <1>4 DEF DeletePartition, logVars
  <2>2. \A j \in Nodes, q \in Parts :
          disk'[j][q] = IF j = n /\ q = p THEN NoDB ELSE disk[j][q]
    BY <1>d, <2>1, ExceptTwice
  <2> QED  BY <1>g, <1>w, <2>1, <2>2
<1>5. ASSUME NEW n \in Nodes, NEW p \in Parts, HandleRecord(n, p)  PROVE RowsWereWritten'
  <2> DEFINE db == [kv  |-> HandleMutation(disk[n][p].kv, Mutation(n, p)),
                    off |-> LastOffset(disk[n][p].kv, Mutation(n, p), disk[n][p].off,
                                       fetched[n][p].from)]
  <2>1. disk[n][p] # NoDB
    BY <1>5 DEF HandleRecord, Accepts, SafeInv, OpenAndFlowing
  <2>2. disk[n][p].kv \in Contents /\ log[p] \in Seq(Mutations)
    BY <1>d, <1>t, <2>1 DEF DB, TypeOK
  <2>3. fetched[n][p].from + 1 \in 1 .. Len(log[p])
    BY <1>5, <1>t, <2>2 DEF HandleRecord, Pending, SafeInv, Offsets, OffsetsInLog, TypeOK
  <2>4. disk' = [disk EXCEPT ![n][p] = db] /\ log' = log /\ db.kv = HandleMutation(disk[n][p].kv, Mutation(n, p))
    BY <1>5 DEF HandleRecord, logVars
  <2> HIDE DEF db
  <2>5. \A j \in Nodes, q \in Parts :
          disk'[j][q] = IF j = n /\ q = p THEN db ELSE disk[j][q]
    BY <1>d, <2>4, ExceptTwice
  <2>6. \A k \in Keys : db.kv[k] # Absent => Written(log[p], k, db.kv[k])
    BY <1>w, <2>1, <2>2, <2>3, <2>4, RecordLeavesWritten DEF Mutation
  <2> QED  BY <1>g, <1>w, <2>4, <2>5, <2>6
<1>6. ASSUME NEW n \in Nodes, NEW p \in Parts,
             JoinGroup(n, p) \/ Revoke(n, p) \/ AutoCommit(n, p) \/ Assign(n, p)
               \/ RemovePartition(n, p) \/ FailRecord(n, p)
      PROVE  RowsWereWritten'
  BY <1>1, <1>6 DEF JoinGroup, Revoke, AutoCommit, Assign, RemovePartition, FailRecord, logVars
<1>7. ASSUME NEW n \in Nodes,
             Crash(n) \/ Start(n) \/ DescribeGroups(n) \/ PauseFetchPartitions(n)
               \/ SetOffsets(n) \/ ResumeFetchPartitions(n)
      PROVE  RowsWereWritten'
  BY <1>1, <1>7 DEF Crash, Start, DescribeGroups, PauseFetchPartitions, SetOffsets,
                    ResumeFetchPartitions, logVars
<1>8. ASSUME NEW n \in Nodes, PollRecords(n) \/ FetchError(n)  PROVE RowsWereWritten'
  BY <1>1, <1>8 DEF PollRecords, FetchError, PollFetches, logVars
<1>9. CASE UNCHANGED vars
  BY <1>1, <1>9 DEF vars, logVars
<1>10. CASE Environment
  BY <1>2, <1>6, <1>7, <1>10 DEF Environment
<1>11. ASSUME NEW n \in Nodes, TopicInfoLoop(n)  PROVE RowsWereWritten'
  BY <1>3, <1>4, <1>6, <1>7, <1>11 DEF TopicInfoLoop
<1>12. ASSUME NEW n \in Nodes, PollRecordLoop(n)  PROVE RowsWereWritten'
  BY <1>5, <1>6, <1>8, <1>12 DEF PollRecordLoop
<1> QED  BY <1>9, <1>10, <1>11, <1>12 DEF Next

(* Whatever is replayed, skipped or fetched twice, and by whichever node,  *)
(* a stored row was written by puts of its own key: none is made up and    *)
(* none mixes the payload and UpdatedAt of two puts (handlePut).           *)
THEOREM RowsComeFromPuts == Spec => []RowsWereWritten
<1>1. Init => RowsWereWritten
  BY DEF Init, RowsWereWritten
<1>2. SafeInv /\ RowsWereWritten /\ [Next]_vars => RowsWereWritten'
  BY RowsStep
<1> QED  BY <1>1, <1>2, SafeInvHolds, PTL DEF Spec

=============================================================================
