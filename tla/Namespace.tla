----------------------------- MODULE Namespace -----------------------------
(***************************************************************************)
(* How the nodes of a namespace agree on the number of partitions, and how *)
(* mutations get into the log.  (NewLogConsumer and simplePollRecords of   *)
(* log_consumer/log_consumer.go, handleMutation of api/handler.go,         *)
(* GetPartition of utils/utils.go)                                         *)
(*                                                                         *)
(* A node that starts reads the partitions topic, publishes its PARTITIONS *)
(* if it finds nothing in time, reads again, and refuses to start unless   *)
(* the first record is its own number.  A mutation request is split by     *)
(* GetPartition, and every group is produced by a goroutine of its own;    *)
(* the client's partitioner decides where a record really goes.            *)
(*                                                                         *)
(* Kafka and franz-go are external.  The partitions topic has one          *)
(* partition and keeps its records, as the README demands.  The producer   *)
(* is idempotent: the records of one call that go to one partition are     *)
(* appended in order, and when one fails the ones behind it fail too.  The *)
(* key partitioner masks the sign bit of the murmur2 hash.                 *)
(***************************************************************************)
EXTENDS Integers, Sequences, FiniteSets

CONSTANTS
    Nodes,
    Counts,         \* values of PARTITIONS
    NoNode,         \* a request that has not arrived
    Requests,       \* mutation requests
    Body,           \* Body[r]: the partition keys of its records
    Hash,           \* Hash[pk]: its murmur2 hash
    HighBit,        \* the highest bit of a hash, 2^31 in the code
    TopicCount,     \* partitions of the mutations topic
    MaxRestarts     \* bound on nodes that start again

ASSUME CountsType == Counts \subseteq Nat \ {0} /\ TopicCount \in Nat \ {0}

ASSUME HashType == HighBit \in Nat \ {0} /\ Hash \in [DOMAIN Hash -> 0 .. 2 * HighBit - 1]

ASSUME BodyType == Body \in [Requests -> Seq(DOMAIN Hash)]

ASSUME NoNodeIsNoNode == NoNode \notin Nodes

ASSUME RestartsType == MaxRestarts \in Nat

VARIABLES
    count,      \* count[n]: Env_NumPartitions of n
    boot,       \* boot[n]: where NewLogConsumer of n is
    topic,      \* the partitions topic
    restarts,
    at,         \* at[r]: the node that handles r
    status,     \* status[r]: the response
    produced,   \* produced[r]: the records of r that are in the log
    failed,     \* failed[r]: the groups whose ProduceSync returned an error
    acked,      \* acked[r]: the requests that were ok before r came (history)
    log         \* log[q]: the mutations topic, <<r, i>> for record i of r

bootVars == <<count, boot, topic, restarts>>
requestVars == <<at, status, produced, failed, acked>>
vars == <<bootVars, requestVars, log>>

Partitions == 0 .. TopicCount - 1

Indices(r) == DOMAIN Body[r]

(* The types of the variables; the log holds only what was produced        *)
(* (handleMutation).                                                       *)
TypeOK ==
    /\ count \in [Nodes -> Counts]
    /\ boot \in [Nodes -> {"polling", "publishing", "verifying", "started", "refused"}]
    /\ topic \in Seq(Counts)
    /\ restarts \in 0 .. MaxRestarts
    /\ at \in [Requests -> Nodes \cup {NoNode}]
    /\ status \in [Requests -> {"none", "running", "ok", "error", "rejected", "lost"}]
    /\ produced \in [Requests -> SUBSET Nat]
    /\ \A r \in Requests : produced[r] \subseteq Indices(r)
    /\ failed \in [Requests -> SUBSET Nat]
    /\ acked \in [Requests -> SUBSET Requests]
    /\ log \in [Partitions -> Seq(Requests \X Nat)]
    /\ \A q \in Partitions : \A k \in DOMAIN log[q] :
         log[q][k][2] \in produced[log[q][k][1]]

Init ==
    /\ count \in [Nodes -> Counts]
    /\ boot = [n \in Nodes |-> "polling"]
    /\ topic = <<>>
    /\ restarts = 0
    /\ at = [r \in Requests |-> NoNode]
    /\ status = [r \in Requests |-> "none"]
    /\ produced = [r \in Requests |-> {}]
    /\ failed = [r \in Requests |-> {}]
    /\ acked = [r \in Requests |-> {}]
    /\ log = [q \in Partitions |-> <<>>]

-----------------------------------------------------------------------------
(* NewLogConsumer                                                          *)

(* simplePollRecords has 200 to 400 ms: it may miss what is there. *)
PollNothing(n) ==
    /\ boot[n] = "polling"
    /\ boot' = [boot EXCEPT ![n] = "publishing"]
    /\ UNCHANGED <<count, topic, restarts, requestVars, log>>

(* An error may hide a record that was appended. *)
Publish(n, appended, reported) ==
    /\ boot[n] = "publishing"
    /\ reported => appended
    /\ topic' = IF appended THEN Append(topic, count[n]) ELSE topic
    /\ boot' = [boot EXCEPT ![n] = IF reported THEN "verifying" ELSE "refused"]
    /\ UNCHANGED <<count, restarts, requestVars, log>>

MatchesLatest(n) == topic[Len(topic)] = count[n]

(* pm.NumPartitions of records[0] *)
Matches(n) == Head(topic) = count[n]

(* A poll that finds records, the first or the one after publishing. *)
Verify(n) ==
    /\ boot[n] \in {"polling", "verifying"}
    /\ topic # <<>>
    /\ boot' = [boot EXCEPT ![n] = IF Matches(n) THEN "started" ELSE "refused"]
    /\ UNCHANGED <<count, topic, restarts, requestVars, log>>

(* The poll after publishing fails or times out. *)
VerifyNothing(n) ==
    /\ boot[n] = "verifying"
    /\ boot' = [boot EXCEPT ![n] = "refused"]
    /\ UNCHANGED <<count, topic, restarts, requestVars, log>>

(* The process ends, with the requests it handles, and starts again, maybe *)
(* with another PARTITIONS.                                                *)
Restart(n, c) ==
    /\ restarts < MaxRestarts
    /\ restarts' = restarts + 1
    /\ count' = [count EXCEPT ![n] = c]
    /\ boot' = [boot EXCEPT ![n] = "polling"]
    /\ status' = [r \in Requests |->
                    IF at[r] = n /\ status[r] = "running" THEN "lost" ELSE status[r]]
    /\ UNCHANGED <<topic, at, produced, failed, acked, log>>

-----------------------------------------------------------------------------
(* Partitioners                                                            *)

GetPartitionSigned(pk, c) ==
    IF Hash[pk] < HighBit THEN Hash[pk] % c
                          ELSE -((2 * HighBit - Hash[pk]) % c)

(* GetPartition on a node with c partitions: the hash, the constant Hash   *)
(* here and Murmur2 in the code, is unsigned.                              *)
GetPartition(pk, c) == Hash[pk] % c

(* The partitioner of the Kafka client, for the partitions the topic has. *)
KafkaPartition(pk) == (Hash[pk] % HighBit) % TopicCount

-----------------------------------------------------------------------------
(* handleMutation                                                          *)

(* The group of record i, and the partition it is sent to. *)
Group(r, i) == GetPartition(Body[r][i], count[at[r]])

Target(r, i) == KafkaPartition(Body[r][i])

(* An `if' that does not compile: nothing is produced. *)
Reject(r, n) ==
    /\ status[r] = "none"
    /\ boot[n] = "started"
    /\ status' = [status EXCEPT ![r] = "rejected"]
    /\ UNCHANGED <<at, produced, failed, acked, bootVars, log>>

Arrive(r, n) ==
    /\ status[r] = "none"
    /\ boot[n] = "started"
    /\ at' = [at EXCEPT ![r] = n]
    /\ status' = [status EXCEPT ![r] = "running"]
    /\ acked' = [acked EXCEPT ![r] = {s \in Requests : status[s] = "ok"}]
    /\ UNCHANGED <<produced, failed, bootVars, log>>

InAnyTurn(r, i) == TRUE

(* The records before i of the same ProduceSync and the same partition are *)
(* in the log.                                                             *)
InTurn(r, i) ==
    \A j \in 1 .. i - 1 :
        Group(r, j) = Group(r, i) /\ Target(r, j) = Target(r, i) => j \in produced[r]

(* The broker appends record i. *)
Produce(r, i) ==
    /\ status[r] = "running"
    /\ i \notin produced[r]
    /\ Group(r, i) \notin failed[r]
    /\ InTurn(r, i)
    /\ produced' = [produced EXCEPT ![r] = @ \cup {i}]
    /\ log' = [log EXCEPT ![Target(r, i)] = Append(@, <<r, i>>)]
    /\ UNCHANGED <<at, status, failed, acked, bootVars>>

(* ProduceSync of the group of i returns an error; its last record may be  *)
(* in the log all the same.                                                *)
ProduceFails(r, i) ==
    /\ status[r] = "running"
    /\ Group(r, i) \notin failed[r]
    /\ failed' = [failed EXCEPT ![r] = @ \cup {Group(r, i)}]
    /\ UNCHANGED <<at, status, produced, acked, bootVars, log>>

AnyDone(r) == \E i \in Indices(r) : i \in produced[r]

(* g.Wait *)
AllDone(r) == \A i \in Indices(r) : i \in produced[r] \/ Group(r, i) \in failed[r]

Respond(r) ==
    /\ status[r] = "running"
    /\ AllDone(r)
    /\ status' = [status EXCEPT ![r] = IF failed[r] = {} THEN "ok" ELSE "error"]
    /\ UNCHANGED <<at, produced, failed, acked, bootVars, log>>

-----------------------------------------------------------------------------

Next ==
    \/ \E n \in Nodes :
         \/ PollNothing(n) \/ Verify(n) \/ VerifyNothing(n)
         \/ \E appended, reported \in BOOLEAN : Publish(n, appended, reported)
         \/ \E c \in Counts : Restart(n, c)
    \/ \E r \in Requests :
         \/ Respond(r)
         \/ \E n \in Nodes : Reject(r, n) \/ Arrive(r, n)
         \/ \E i \in Indices(r) : Produce(r, i) \/ ProduceFails(r, i)

Spec == Init /\ [][Next]_vars

-----------------------------------------------------------------------------
(* Properties                                                              *)

(* Nodes that have started have the same number of partitions, whatever    *)
(* races there were to publish the first record, and whichever polls       *)
(* missed it (NewLogConsumer).                                             *)
OneCount ==
    \A m, n \in Nodes : boot[m] = "started" /\ boot[n] = "started" => count[m] = count[n]

(* Where record i of r is in the log of its partition. *)
Places(r, i) == {k \in DOMAIN log[Target(r, i)] : log[Target(r, i)][k] = <<r, i>>}

Precedes(r, i, s, j) ==
    Places(s, j) # {} =>
        /\ Places(r, i) # {}
        /\ \A k \in Places(r, i), l \in Places(s, j) : k < l

(* Records of one partition key are in the log in the order of the         *)
(* request, even when it fails half-way or its node dies, and behind the   *)
(* ones of every request that was answered with ok before this one came,   *)
(* on whatever node: the groups produced in parallel never share a key     *)
(* (handleMutation).  That a group itself has no gaps is the client's      *)
(* doing (InTurn).                                                         *)
KeyOrder ==
    \A r, s \in Requests : \A i \in Indices(r), j \in Indices(s) :
        Body[r][i] = Body[s][j] /\ (r \in acked[s] \/ (r = s /\ i < j)) =>
            Precedes(r, i, s, j)

(* An ok means that every record is in the log, once, and in the partition *)
(* in which a started node looks for it (handleMutation, GetPartition).    *)
Routed ==
    \A r \in Requests, n \in Nodes :
        status[r] = "ok" /\ boot[n] = "started" =>
            \A i \in Indices(r) :
                /\ Cardinality(Places(r, i)) = 1
                /\ GetPartition(Body[r][i], count[n]) = Target(r, i)

(* The same for the numbers of partitions it does hold for: PARTITIONS is  *)
(* the number of partitions of the topic, and divides the highest bit, so  *)
(* it is a power of two.                                                   *)
RoutedIfMatching ==
    topic # <<>> /\ Head(topic) = TopicCount /\ HighBit % TopicCount = 0 => Routed
=============================================================================
