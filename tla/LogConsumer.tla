---------------------------- MODULE LogConsumer ----------------------------
(***************************************************************************)
(* One replica group of FireScroll: nodes that share a Kafka consumer      *)
(* group, each materialising the partitions it is assigned.                *)
(* (log_consumer/log_consumer.go, partitions/partition_manager.go,         *)
(* partitions/partition.go)                                                *)
(*                                                                         *)
(* A node runs two goroutines.  topicInfoLoop (every 2 seconds) asks the   *)
(* broker which partitions the node has and opens, rewinds and deletes     *)
(* local databases; pollRecords fetches batches and applies them.  They    *)
(* share the Kafka client (positions, paused partitions) and the           *)
(* PartitionManager's map, and nothing orders them except those calls.     *)
(*                                                                         *)
(* The group runs without S3_RESTORE: a copy comes from its directory or   *)
(* is empty (restores are in Backups).                                     *)
(*                                                                         *)
(* The broker and the franz-go client are external: the group coordinator  *)
(* (Assign, Revoke), the client taking up its assignment (JoinGroup) and   *)
(* its background commits (AutoCommit).                                    *)
(***************************************************************************)
EXTENDS Records, Integers, Sequences, FiniteSets

CONSTANTS
    Nodes,          \* nodes of the replica group
    Parts,          \* partitions of the mutation topic
    Mutations,      \* mutations clients produce
    Nobody,         \* a partition no member is assigned
    NoDB,           \* no badger directory for the partition
    Lost,           \* to the abstract store: a copy that met a fault
    MaxLog,         \* MaxLog[p]: bound on the length of the log of p
    MaxFetch,       \* bound on the records of one partition in one poll
    MaxCrashes,     \* bound on process crashes
    MaxRebalances,  \* bound on partitions taken from a running node
    BackupEnabled   \* BACKUP=1: a partition has a backup goroutine

(***************************************************************************)
(* Nothing orders the two goroutines, the group and the client, and four   *)
(* events may each cost a copy records of its log.  The actions admit them *)
(* whenever the code does; the history variable faults notes that one      *)
(* happened to a copy, without looking at what became of its rows:         *)
(*  "staleBatch"    AddPartition stored the partition while a batch polled *)
(*                  before PauseFetchPartitions was still unhandled;       *)
(*  "unrewound"     the client took the partition up at the committed      *)
(*                  offset while it was open, with no SetOffsets to come;  *)
(*  "fetchError"    pollRecords returned with an error of another          *)
(*                  partition, and dropped the fetched records of this one;*)
(*  "failedRecord"  an error ended the partition's goroutine with records  *)
(*                  of the batch behind it.                                *)
(***************************************************************************)
Faults == {"staleBatch", "unrewound", "fetchError", "failedRecord"}

ASSUME MutationsType == Mutations \subseteq RecordMutation

ASSUME BoundsType ==
    /\ MaxLog \in [Parts -> Nat]
    /\ MaxFetch \in Nat \ {0}
    /\ MaxCrashes \in Nat
    /\ MaxRebalances \in Nat
    /\ BackupEnabled \in BOOLEAN

VARIABLES
    log,        \* log[p]: the mutation topic, offset o at index o + 1
    states,     \* states[p]: the rows after each prefix of log[p] (history)
    owner,      \* owner[p]: the group coordinator's assignment
    committed,  \* committed[p]: the group's committed offset
    up,         \* nodes whose process runs
    position,   \* position[n][p]: next offset the client fetches, or NoOffset
    paused,     \* paused[n]: partitions of PauseFetchPartitions
    fetched,    \* fetched[n][p]: offsets from..to-1 polled and not yet handled
    managed,    \* managed[n]: keys of PartitionManager.Partitions
    disk,       \* disk[n][p]: NoDB, or the rows and the LastOffsetKey row
    pc,         \* pc[n]: where topicInfoLoop is
    news,       \* news[n], gones[n]: its result of lo.Difference
    gones,
    reset,      \* reset[n][p]: the offset AddPartition returned
    ready,      \* ready[n]: LogConsumer.Ready
    crashes,
    rebalances,
    faults      \* faults[n][p]: what cost the copy records (history)

clientVars == <<position, paused, fetched>>
loopVars   == <<pc, news, gones, reset, ready>>
groupVars  == <<owner, committed>>
auxVars    == <<crashes, rebalances, faults>>
logVars    == <<log, states>>
vars == <<logVars, groupVars, clientVars, loopVars, auxVars, up, managed, disk>>

NoOffset == -1      \* LastOffset = nil; also a position that is not assigned

NoBatch == [from |-> 0, to |-> 0]

(* An open partition: its rows and its LastOffsetKey row. *)
DB == [kv : Contents, off : Nat \cup {NoOffset}]

ASSUME NoDBIsNoDatabase == NoDB \notin DB

ASSUME LostIsNoDatabase == Lost \notin DB \cup {NoDB}

ASSUME NobodyIsNoNode == Nobody \notin Nodes

Steps == {"idle", "pause", "add", "resume", "remove"}

(* The rows after the first h mutations of the log. *)
StateAfter(p, h) == states[p][h + 1]

Owned(n) == {p \in Parts : owner[p] = n}

Pending(n, p) == fetched[n][p].from < fetched[n][p].to

TypeOK ==
    /\ log \in [Parts -> Seq(Mutations)]
    /\ states \in [Parts -> Seq(Contents)]
    /\ owner \in [Parts -> Nodes \cup {Nobody}]
    /\ committed \in [Parts -> Nat]
    /\ up \subseteq Nodes
    /\ position \in [Nodes -> [Parts -> Nat \cup {NoOffset}]]
    /\ paused \in [Nodes -> SUBSET Parts]
    /\ fetched \in [Nodes -> [Parts -> [from : Nat, to : Nat]]]
    /\ managed \in [Nodes -> SUBSET Parts]
    /\ disk \in [Nodes -> [Parts -> DB \cup {NoDB}]]
    /\ pc \in [Nodes -> Steps]
    /\ news \in [Nodes -> SUBSET Parts]
    /\ gones \in [Nodes -> SUBSET Parts]
    /\ reset \in [Nodes -> [Parts -> Nat \cup {NoOffset}]]
    /\ ready \in [Nodes -> BOOLEAN]
    /\ crashes \in Nat
    /\ rebalances \in Nat
    /\ faults \in [Nodes -> [Parts -> SUBSET Faults]]

Init ==
    /\ log = [p \in Parts |-> <<>>]
    /\ states = [p \in Parts |-> <<Empty>>]
    /\ owner = [p \in Parts |-> Nobody]
    /\ committed = [p \in Parts |-> 0]
    /\ up = Nodes
    /\ position = [n \in Nodes |-> [p \in Parts |-> NoOffset]]
    /\ paused = [n \in Nodes |-> {}]
    /\ fetched = [n \in Nodes |-> [p \in Parts |-> NoBatch]]
    /\ managed = [n \in Nodes |-> {}]
    /\ disk = [n \in Nodes |-> [p \in Parts |-> NoDB]]
    /\ pc = [n \in Nodes |-> "idle"]
    /\ news = [n \in Nodes |-> {}]
    /\ gones = [n \in Nodes |-> {}]
    /\ reset = [n \in Nodes |-> [p \in Parts |-> NoOffset]]
    /\ ready = [n \in Nodes |-> FALSE]
    /\ crashes = 0
    /\ rebalances = 0
    /\ faults = [n \in Nodes |-> [p \in Parts |-> {}]]

-----------------------------------------------------------------------------
(* The mutation topic and the consumer group.                              *)

(* handleMutation of the API appends to the partition's log; states keeps  *)
(* what a reader that applies every record in order would hold.            *)
Produce(p, m) ==
    /\ Len(log[p]) < MaxLog[p]
    /\ log' = [log EXCEPT ![p] = Append(@, m)]
    /\ states' = [states EXCEPT ![p] =
                    Append(@, HandleMutation(StateAfter(p, Len(log[p])), m))]
    /\ UNCHANGED <<groupVars, clientVars, loopVars, auxVars, up, managed, disk>>

Assign(n, p) ==
    /\ owner[p] = Nobody
    /\ n \in up
    /\ owner' = [owner EXCEPT ![p] = n]
    /\ UNCHANGED <<committed, logVars, clientVars, loopVars, auxVars,
                   up, managed, disk>>

(* p was just opened and SetOffsets has not run. *)
Rewinding(n, p) == pc[n] = "add" /\ p \in news[n]

(* The client takes up its assignment, at the group's committed offset.    *)
(* An open partition gets there when the client is behind topicInfoLoop,   *)
(* or lost the partition and has it back before the loop noticed.          *)
JoinGroup(n, p) ==
    /\ n \in up
    /\ owner[p] = n
    /\ position[n][p] = NoOffset
    /\ position' = [position EXCEPT ![n][p] = committed[p]]
    /\ faults' = [faults EXCEPT ![n][p] =
                    IF p \in managed[n] /\ ~ Rewinding(n, p) THEN @ \cup {"unrewound"}
                                                            ELSE @]
    /\ UNCHANGED <<logVars, groupVars, paused, fetched, loopVars, crashes,
                   rebalances, up, managed, disk>>

(* A rebalance takes p from n, or the session of a dead n expires. *)
Revoke(n, p) ==
    /\ owner[p] = n
    /\ n \in up => rebalances < MaxRebalances
    /\ rebalances' = IF n \in up THEN rebalances + 1 ELSE rebalances
    /\ owner' = [owner EXCEPT ![p] = Nobody]
    /\ position' = [position EXCEPT ![n][p] = NoOffset]
    /\ UNCHANGED <<committed, logVars, paused, fetched, loopVars, crashes,
                   faults, up, managed, disk>>

(* Auto-commit is left on: what an earlier poll returned is committed once *)
(* pollRecords is done with the batch, whatever became of its records.     *)
AutoCommit(n, p) ==
    /\ n \in up
    /\ position[n][p] # NoOffset
    /\ ~ Pending(n, p)
    /\ committed' = [committed EXCEPT ![p] = position[n][p]]
    /\ UNCHANGED <<owner, logVars, clientVars, loopVars, auxVars,
                   up, managed, disk>>

-----------------------------------------------------------------------------
(* topicInfoLoop                                                           *)

AfterNews(n) == IF gones[n] = {} THEN "idle" ELSE "remove"

(* lo.Difference of the assignment and the manager's partitions. *)
Added(n) == Owned(n) \ managed[n]

DroppedNever(n) == {}

Dropped(n) == managed[n] \ Owned(n)

FirstStep(n) ==
    CASE Added(n) # {}                       -> "pause"
      [] Added(n) = {} /\ Dropped(n) # {}    -> "remove"
      [] Added(n) = {} /\ Dropped(n) = {}    -> "idle"

(* One DescribeGroups response.  A member with no partition only loses its *)
(* readiness: the function returns before the difference is taken.         *)
DescribeGroups(n) ==
    /\ n \in up
    /\ pc[n] = "idle"
    /\ IF Owned(n) = {}
       THEN /\ ready' = [ready EXCEPT ![n] = FALSE]
            /\ UNCHANGED <<pc, news, gones>>
       ELSE /\ news' = [news EXCEPT ![n] = Added(n)]
            /\ gones' = [gones EXCEPT ![n] = Dropped(n)]
            /\ pc' = [pc EXCEPT ![n] = FirstStep(n)]
            /\ UNCHANGED ready
    /\ UNCHANGED <<reset, logVars, groupVars, clientVars, auxVars,
                   up, managed, disk>>

PausedNone(n) == paused[n]

Paused(n) == paused[n] \cup news[n]

PauseFetchPartitions(n) ==
    /\ n \in up
    /\ pc[n] = "pause"
    /\ paused' = [paused EXCEPT ![n] = Paused(n)]
    /\ pc' = [pc EXCEPT ![n] = "add"]
    /\ UNCHANGED <<position, fetched, news, gones, reset, ready, logVars,
                   groupVars, auxVars, up, managed, disk>>

OpenedAfresh(db) == [kv |-> Empty, off |-> NoOffset]

(* createLocalDB opens the directory if there is one, else creates an      *)
(* empty database without a LastOffsetKey row.                             *)
Opened(db) == IF db = NoDB THEN [kv |-> Empty, off |-> NoOffset] ELSE db

(* The offset found in the database is returned, the partition stored. *)
AddPartition(n, p) ==
    /\ n \in up
    /\ pc[n] = "add"
    /\ p \in news[n] \ managed[n]
    /\ disk' = [disk EXCEPT ![n][p] = Opened(@)]
    /\ reset' = [reset EXCEPT ![n][p] = Opened(disk[n][p]).off]
    /\ managed' = [managed EXCEPT ![n] = @ \cup {p}]
    /\ faults' = [faults EXCEPT ![n][p] =
                    IF Pending(n, p) THEN @ \cup {"staleBatch"} ELSE @]
    /\ UNCHANGED <<pc, news, gones, ready, logVars, groupVars, clientVars,
                   crashes, rebalances, up>>

ResetOffsetTwice(off) == IF off = NoOffset THEN 0 ELSE off + 2

(* A database with an offset resumes behind it, one without at 0. *)
ResetOffset(off) == IF off = NoOffset THEN 0 ELSE off + 1

PositionKept(n, p) == position[n][p]

(* SetOffsets rewinds the partitions the client consumes at this moment;   *)
(* for the others it does nothing.                                         *)
Rewound(n, p) ==
    IF p \in news[n] /\ position[n][p] # NoOffset THEN ResetOffset(reset[n][p])
                                                  ELSE position[n][p]

SetOffsets(n) ==
    /\ n \in up
    /\ pc[n] = "add"
    /\ news[n] \subseteq managed[n]
    /\ position' = [position EXCEPT ![n] = [p \in Parts |-> Rewound(n, p)]]
    /\ pc' = [pc EXCEPT ![n] = "resume"]
    /\ UNCHANGED <<paused, fetched, news, gones, reset, ready, logVars,
                   groupVars, auxVars, up, managed, disk>>

ResumedNone(n) == paused[n]

Resumed(n) == paused[n] \ news[n]

ResumeNotReady(n) ==
    /\ n \in up
    /\ pc[n] = "resume"
    /\ paused' = [paused EXCEPT ![n] = Resumed(n)]
    /\ news' = [news EXCEPT ![n] = {}]
    /\ reset' = [reset EXCEPT ![n] = [p \in Parts |-> NoOffset]]
    /\ pc' = [pc EXCEPT ![n] = AfterNews(n)]
    /\ UNCHANGED <<position, fetched, gones, ready, logVars, groupVars, auxVars,
                   up, managed, disk>>

ResumeFetchPartitions(n) ==
    /\ n \in up
    /\ pc[n] = "resume"
    /\ paused' = [paused EXCEPT ![n] = Resumed(n)]
    /\ ready' = [ready EXCEPT ![n] = TRUE]
    /\ news' = [news EXCEPT ![n] = {}]
    /\ reset' = [reset EXCEPT ![n] = [p \in Parts |-> NoOffset]]
    /\ pc' = [pc EXCEPT ![n] = AfterNews(n)]
    /\ UNCHANGED <<position, fetched, gones, logVars, groupVars, auxVars,
                   up, managed, disk>>

(* RemovePartition takes the partition out of the map, then shuts it down  *)
(* twice and deletes its directory: in between the poll loop no longer     *)
(* finds it.  The second shutdown gets through when two goroutines take    *)
(* from closeChan, which is when backups are enabled (PartitionLifecycle). *)
RemovePartition(n, p) ==
    /\ n \in up
    /\ pc[n] = "remove"
    /\ gones[n] \subseteq managed[n]
    /\ p \in gones[n]
    /\ managed' = [managed EXCEPT ![n] = @ \ {p}]
    /\ UNCHANGED <<loopVars, logVars, groupVars, clientVars, auxVars, up, disk>>

DeletePartition(n, p) ==
    /\ n \in up
    /\ pc[n] = "remove"
    /\ p \in gones[n] \ managed[n]
    /\ BackupEnabled
    /\ disk' = [disk EXCEPT ![n][p] = NoDB]
    /\ gones' = [gones EXCEPT ![n] = @ \ {p}]
    /\ pc' = [pc EXCEPT ![n] = IF gones[n] = {p} THEN "idle" ELSE "remove"]
    /\ faults' = [faults EXCEPT ![n][p] = {}]
    /\ UNCHANGED <<news, reset, ready, logVars, groupVars, clientVars, crashes,
                   rebalances, up, managed>>

-----------------------------------------------------------------------------
(* pollRecords                                                             *)

Fetchable(n) ==
    {p \in Parts \ paused[n] : position[n][p] # NoOffset
                                 /\ position[n][p] < Len(log[p])}

(* Where a batch of at most k records ends. *)
BatchEnd(n, p, k) ==
    IF position[n][p] + k < Len(log[p]) THEN position[n][p] + k ELSE Len(log[p])

Batch(n, p, k) == [from |-> position[n][p], to |-> BatchEnd(n, p, k)]

(* PollFetches returns records of some of the partitions and moves the     *)
(* client's position past them; g.Wait of the previous poll is over.       *)
PollFetches(n, S, k) ==
    /\ n \in up
    /\ \A p \in Parts : ~ Pending(n, p)
    /\ S # {}
    /\ S \subseteq Fetchable(n)
    /\ position' = [position EXCEPT ![n] =
                      [p \in Parts |-> IF p \in S THEN BatchEnd(n, p, k)
                                                 ELSE position[n][p]]]
    /\ UNCHANGED <<paused, loopVars, logVars, groupVars, crashes, rebalances,
                   up, managed, disk>>

PollRecords(n) ==
    \E S \in SUBSET Parts, k \in 1 .. MaxFetch :
        /\ PollFetches(n, S, k)
        /\ fetched' = [fetched EXCEPT ![n] =
                         [p \in Parts |-> IF p \in S THEN Batch(n, p, k)
                                                    ELSE fetched[n][p]]]
        /\ UNCHANGED faults

(* pollRecords returns when any partition of the fetch has an error, and   *)
(* with it go the records of the others.                                   *)
FetchError(n) ==
    \E S \in SUBSET Parts, k \in 1 .. MaxFetch :
        /\ PollFetches(n, S, k)
        /\ faults' = [faults EXCEPT ![n] =
                        [p \in Parts |-> IF p \in S \cap managed[n]
                                         THEN faults[n][p] \cup {"fetchError"}
                                         ELSE faults[n][p]]]
        /\ UNCHANGED fetched

Mutation(n, p) == log[p][fetched[n][p].from + 1]

(* Whether HandleMutation of the manager returns nil for the next record. *)
Accepts(n, p) ==
    /\ p \in managed[n]
    /\ Outcome(disk[n][p].kv, Mutation(n, p)) # "error"

(* The rest of the batch once its first record is handled. *)
NextBatch(b) == IF b.from + 1 = b.to THEN NoBatch ELSE [b EXCEPT !.from = @ + 1]

(* One transaction: the rows and the offset together. *)
HandleRecord(n, p) ==
    /\ n \in up
    /\ Pending(n, p)
    /\ Accepts(n, p)
    /\ disk' = [disk EXCEPT ![n][p] =
                  [kv  |-> HandleMutation(@.kv, Mutation(n, p)),
                   off |-> LastOffset(@.kv, Mutation(n, p), @.off, fetched[n][p].from)]]
    /\ fetched' = [fetched EXCEPT ![n][p] = NextBatch(@)]
    /\ UNCHANGED <<position, paused, loopVars, logVars, groupVars, auxVars,
                   up, managed>>

(* The first error ends the partition's goroutine: the records behind it   *)
(* in the batch are not handled.                                           *)
FailRecord(n, p) ==
    /\ n \in up
    /\ Pending(n, p)
    /\ ~ Accepts(n, p)
    /\ fetched' = [fetched EXCEPT ![n][p] = NoBatch]
    /\ faults' = [faults EXCEPT ![n][p] =
                    IF p \in managed[n] /\ fetched[n][p].from + 1 < fetched[n][p].to
                    THEN @ \cup {"failedRecord"} ELSE @]
    /\ UNCHANGED <<position, paused, loopVars, logVars, groupVars, crashes,
                   rebalances, up, managed, disk>>

-----------------------------------------------------------------------------
(* The process                                                             *)

(* The process dies (or shuts down): only the directories survive, and the *)
(* assignment, which is static (InstanceID) until the session expires.     *)
Crash(n) ==
    /\ n \in up
    /\ crashes < MaxCrashes
    /\ crashes' = crashes + 1
    /\ up' = up \ {n}
    /\ position' = [position EXCEPT ![n] = [p \in Parts |-> NoOffset]]
    /\ paused' = [paused EXCEPT ![n] = {}]
    /\ fetched' = [fetched EXCEPT ![n] = [p \in Parts |-> NoBatch]]
    /\ managed' = [managed EXCEPT ![n] = {}]
    /\ pc' = [pc EXCEPT ![n] = "idle"]
    /\ news' = [news EXCEPT ![n] = {}]
    /\ gones' = [gones EXCEPT ![n] = {}]
    /\ reset' = [reset EXCEPT ![n] = [p \in Parts |-> NoOffset]]
    /\ ready' = [ready EXCEPT ![n] = FALSE]
    /\ UNCHANGED <<rebalances, faults, logVars, groupVars, disk>>

Start(n) ==
    /\ n \notin up
    /\ up' = up \cup {n}
    /\ UNCHANGED <<logVars, groupVars, clientVars, loopVars, auxVars, managed, disk>>

-----------------------------------------------------------------------------

TopicInfoLoop(n) ==
    \/ DescribeGroups(n)
    \/ PauseFetchPartitions(n)
    \/ \E p \in Parts : AddPartition(n, p)
    \/ SetOffsets(n)
    \/ ResumeFetchPartitions(n)
    \/ \E p \in Parts : RemovePartition(n, p) \/ DeletePartition(n, p)

PollRecordLoop(n) ==
    \/ PollRecords(n)
    \/ FetchError(n)
    \/ \E p \in Parts : HandleRecord(n, p) \/ FailRecord(n, p)

Environment ==
    \/ \E p \in Parts, m \in Mutations : Produce(p, m)
    \/ \E n \in Nodes, p \in Parts :
         Assign(n, p) \/ JoinGroup(n, p) \/ Revoke(n, p) \/ AutoCommit(n, p)
    \/ \E n \in Nodes : Crash(n) \/ Start(n)

Next == Environment \/ \E n \in Nodes : TopicInfoLoop(n) \/ PollRecordLoop(n)

Spec == Init /\ [][Next]_vars

(* Both goroutines of a running node keep running, and its client takes up *)
(* what it is assigned.  Nothing makes clients write, the coordinator      *)
(* rebalance or an operator restart a node.                                *)
Fairness ==
    \A n \in Nodes :
        /\ WF_vars(TopicInfoLoop(n))
        /\ WF_vars(PollRecordLoop(n))
        /\ \A p \in Parts : WF_vars(JoinGroup(n, p))

FairSpec == Spec /\ Fairness

-----------------------------------------------------------------------------
(* Properties                                                              *)

(* A copy holds the rows of the log's prefix up to its checkpoint. *)
IsPrefixOf(db, p) ==
    /\ db.off < Len(log[p])
    /\ db.kv = StateAfter(p, db.off + 1)

(* Every database on every disk, open or left behind by a crash, holds     *)
(* exactly what applying the log in order up to its LastOffsetKey gives,   *)
(* unless one of the four events of Faults happened to it: nothing else    *)
(* (rebalances, crashes between any two steps, rewinds behind a skipped    *)
(* checkpoint, conditional mutations) makes topicInfoLoop and pollRecords  *)
(* skip a mutation, apply it twice or out of order.                        *)
Materialised ==
    \A n \in Nodes, p \in Parts :
        disk[n][p] # NoDB /\ faults[n][p] = {} => IsPrefixOf(disk[n][p], p)

(* What the abstract store sees of the disks: a copy, until the first      *)
(* fault costs it records.                                                 *)
Replica ==
    [n \in Nodes |-> [p \in Parts |->
        IF faults[n][p] = {} THEN disk[n][p] ELSE Lost]]

Abstract ==
    INSTANCE MaterialisedLog
        WITH EmptyContents <- Empty, history <- states, replica <- Replica

(* The replica group implements the abstract store: a copy only moves      *)
(* forward along the contents of the log, is lost by one of the four       *)
(* faults, and once lost does not come back as a copy before its directory *)
(* is deleted (AddPartition, SetOffsets, HandleMutation, RemovePartition). *)
Implements == Abstract!Spec

(* The copy holds the rows of the first h records, and its checkpoint is   *)
(* before h (before h - 1 when conditional deletes left no offset).        *)
Applied(db, p, h) ==
    /\ db.off < h
    /\ h <= Len(log[p])
    /\ db.kv = StateAfter(p, h)

(* What the two goroutines agree on about one open copy no fault happened  *)
(* to: the next record either of them will bring is the one behind the     *)
(* rows the copy holds.                                                    *)
OpenCopyInv(n, p) ==
    /\ Pending(n, p) => /\ Applied(disk[n][p], p, fetched[n][p].from)
                        /\ fetched[n][p].to <= Len(log[p])
    /\ Rewinding(n, p) => ~ Pending(n, p) /\ reset[n][p] = disk[n][p].off
    /\ ~ Rewinding(n, p) /\ position[n][p] # NoOffset =>
         IF Pending(n, p) THEN position[n][p] = fetched[n][p].to
                          ELSE Applied(disk[n][p], p, position[n][p])

CopyInv(n, p) ==
    /\ p \in managed[n] \/ faults[n][p] # {} => disk[n][p] # NoDB
    /\ disk[n][p] # NoDB /\ faults[n][p] = {} => IsPrefixOf(disk[n][p], p)
    /\ p \in managed[n] /\ faults[n][p] = {} => OpenCopyInv(n, p)
    /\ pc[n] = "pause" /\ p \in news[n] => p \notin managed[n]
    /\ Rewinding(n, p) => p \in paused[n]

(* The history variable is the log, replayed. *)
HistoryInv(p) ==
    /\ Len(states[p]) = Len(log[p]) + 1
    /\ states[p][1] = Empty
    /\ \A i \in 1 .. Len(log[p]) :
         states[p][i + 1] = HandleMutation(states[p][i], log[p][i])

(* The inductive strengthening of Materialised: between opening a copy and *)
(* rewinding the client the partition is paused and, unless AddPartition   *)
(* overtook one, has no batch under way; afterwards client, batch and copy *)
(* are at the same record.                                                 *)
InductiveInv ==
    /\ \A p \in Parts : HistoryInv(p)
    /\ \A n \in Nodes, p \in Parts : CopyInv(n, p)

(* No offset the code keeps or hands to the client lies behind the end of  *)
(* the log (the mutation client sets no ConsumeResetOffset, so a position  *)
(* out of range would silently restart the partition).                     *)
OffsetsInLog ==
    \A p \in Parts :
        /\ committed[p] <= Len(log[p])
        /\ \A n \in Nodes :
             /\ position[n][p] <= Len(log[p])
             /\ fetched[n][p].to <= Len(log[p])
             /\ disk[n][p] # NoDB => disk[n][p].off < Len(log[p])

(* Whatever the timing, a row of a copy was written by a put of the log    *)
(* for that key: a replay may bring back an old row, never one that no     *)
(* client wrote or one half-way between two writes (handlePut).            *)
RowsWereWritten ==
    \A n \in Nodes, p \in Parts : disk[n][p] # NoDB =>
        \A k \in Keys : disk[n][p].kv[k] # Absent =>
            \E i, j \in 1 .. Len(log[p]) :
                /\ log[p][i].op = "put" /\ log[p][i].key = k
                /\ log[p][j].op = "put" /\ log[p][j].key = k
                /\ disk[n][p].kv[k] = [data    |-> log[p][i].data,
                                       updated |-> log[p][i].ts,
                                       created |-> log[p][j].ts]

(* A partition the manager serves has an open database (HandleMutation and *)
(* the readers use Partition.DB without asking), and only the partitions   *)
(* being added are paused: none stays paused once topicInfoLoop is done.   *)
OpenAndFlowing ==
    \A n \in Nodes :
        /\ \A p \in managed[n] : disk[n][p] # NoDB
        /\ paused[n] \subseteq news[n]
        /\ pc[n] \in {"idle", "remove"} => news[n] = {}

(* A node that keeps a partition ends up with the rows of the whole log,   *)
(* through crashes, reassignments and rewinds, as long as its copy met     *)
(* none of the four faults: it never stays behind or different for any     *)
(* other reason (topicInfoLoop, pollRecords).                              *)
CatchesUp ==
    \A n \in Nodes, p \in Parts :
        <>[](n \in up /\ owner[p] = n) /\ <>[](faults[n][p] = {}) =>
            <>[](/\ disk[n][p] # NoDB
                 /\ disk[n][p].kv = StateAfter(p, Len(log[p])))

(* The same where records fail: a put whose if passed VerifyIfStatement    *)
(* before it was produced, and fails at run time all the same, leaves the  *)
(* copy as complete as the log (if.go, pollRecords).                       *)
CatchesUpPastErrors ==
    \A n \in Nodes, p \in Parts :
        <>[](n \in up /\ owner[p] = n) /\ <>[](faults[n][p] \subseteq {"failedRecord"}) =>
            <>[](/\ disk[n][p] # NoDB
                 /\ disk[n][p].kv = StateAfter(p, Len(log[p])))

(* A running node that has lost a partition for good, and keeps some other *)
(* one, stops serving it, and deletes the directory of every partition it  *)
(* had open (topicInfoLoop, RemovePartition).  A member without any        *)
(* assignment keeps all it has, and the directory of a partition that was  *)
(* not open, left behind by a crash, is never looked at.                   *)
StaleCopiesRemoved ==
    \A n \in Nodes, p \in Parts :
        <>[](n \in up /\ owner[p] # n /\ Owned(n) # {}) =>
            /\ <>[](p \notin managed[n])
            /\ p \in managed[n] ~> disk[n][p] = NoDB \/ n \notin up

(* A node that is assigned a partition it has not open, and keeps it,      *)
(* becomes ready and stays so, also after it was idle (LogConsumer.Ready,  *)
(* /hc/ready).  Only the opening of a partition sets Ready: an idle member *)
(* that gets back a partition it never dropped stays unready.              *)
EventuallyReady ==
    \A n \in Nodes, p \in Parts :
        [](p \notin managed[n] /\ [](n \in up /\ owner[p] = n) => <>[]ready[n])
=============================================================================
