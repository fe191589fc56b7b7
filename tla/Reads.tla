------------------------------- MODULE Reads -------------------------------
(***************************************************************************)
(* One client read and the reads it is proxied into.  (api/handler.go:     *)
(* handleGet, handleList, doRemoteOperation; ReadRecords and ListRecords   *)
(* of partitions/partition_manager.go and partitions/partition.go)         *)
(*                                                                         *)
(* handleGet splits the keys by partition: one goroutine reads the local   *)
(* partitions, one per remote partition calls another node, and each puts  *)
(* its records into the channel `results', whose capacity is the number of *)
(* partitions.  The handler waits for all of them before it takes anything *)
(* out.  The called node runs the same handler.  handleList does the same  *)
(* for a single partition without goroutines.                              *)
(*                                                                         *)
(* The records found in a partition are represented by the partition: an   *)
(* answer is the set of partitions it has the records of.  Which address   *)
(* gossip gives for a partition is any node or none, since its map may lag *)
(* behind; which node holds what may change during the read.  A lookup in  *)
(* that map may also never return (LookupWedges).                          *)
(***************************************************************************)
EXTENDS Integers, FiniteSets

CONSTANTS
    Nodes,      \* nodes of all replica groups
    Parts,      \* partitions
    Root,       \* the client's request
    NoNode,     \* a request that nobody made
    Local,      \* the goroutine that reads the local partitions
    MaxHops,    \* bound on how often a read is proxied on
    MaxMoves    \* bound on changes of the partitions a node holds

(* A request of hop h for p was proxied h times. *)
Proxied == Parts \X (1 .. MaxHops)
Requests == {Root} \cup Proxied

ASSUME RootIsNotProxied == Root \notin Proxied

ASSUME LocalIsNoPartition == Local \notin Parts

ASSUME NodesAndParts == IsFiniteSet(Parts) /\ NoNode \notin Nodes

ASSUME BoundsType == MaxHops \in Nat /\ MaxMoves \in Nat

VARIABLES
    holds,      \* holds[n]: the partitions of n's PartitionManager
    moves,
    op,         \* the operation of the request and of those made for it
    at,         \* at[r]: the node that handles r
    status,     \* status[r]: "none", "running", or how the handler returned
    localKeys,  \* localKeys[r], remoteKeys[r]: partitions of the two maps
    remoteKeys,
    unread,     \* unread[r]: local partitions ReadRecords has not reached
    read,       \* read[r]: those it found
    local,      \* local[r]: "reading" or "done"
    remote,     \* remote[r][p]: the goroutine of remote partition p
    results,    \* results[r]: the goroutines whose records are in the channel
    answer,     \* answer[r]: the records of the response
    omitted     \* omitted[r]: partitions left out without an error (history)

handlers == <<op, at, status, localKeys, remoteKeys>>
goroutines == <<unread, read, local, remote, results>>
responses == <<answer, omitted>>
vars == <<holds, moves, handlers, goroutines, responses>>

Hop(r) == IF r = Root THEN 0 ELSE r[2]

(* The request r's handler makes for p. *)
Child(r, p) == <<p, Hop(r) + 1>>

Keys(r) == localKeys[r] \cup remoteKeys[r]

TypeOK ==
    /\ holds \in [Nodes -> SUBSET Parts]
    /\ moves \in 0 .. MaxMoves
    /\ op \in {"get", "list"}
    /\ at \in [Requests -> Nodes \cup {NoNode}]
    /\ status \in [Requests -> {"none", "running", "ok", "error"}]
    /\ localKeys \in [Requests -> SUBSET Parts]
    /\ remoteKeys \in [Requests -> SUBSET Parts]
    /\ unread \in [Requests -> SUBSET Parts]
    /\ read \in [Requests -> SUBSET Parts]
    /\ local \in [Requests -> {"reading", "done"}]
    /\ remote \in [Requests -> [Parts ->
                              {"address", "wedged", "calling", "sending", "done", "failed"}]]
    /\ results \in [Requests -> SUBSET (Parts \cup {Local})]
    /\ answer \in [Requests -> SUBSET Parts]
    /\ omitted \in [Requests -> SUBSET Parts]

Init ==
    /\ holds \in [Nodes -> SUBSET Parts]
    /\ moves = 0
    /\ op \in {"get", "list"}
    /\ at = [r \in Requests |-> NoNode]
    /\ status = [r \in Requests |-> "none"]
    /\ localKeys = [r \in Requests |-> {}]
    /\ remoteKeys = [r \in Requests |-> {}]
    /\ unread = [r \in Requests |-> {}]
    /\ read = [r \in Requests |-> {}]
    /\ local = [r \in Requests |-> "reading"]
    /\ remote = [r \in Requests |-> [p \in Parts |-> "address"]]
    /\ results = [r \in Requests |-> {}]
    /\ answer = [r \in Requests |-> {}]
    /\ omitted = [r \in Requests |-> {}]

-----------------------------------------------------------------------------

(* topicInfoLoop of some node adds or removes a partition. *)
Move(n, p) ==
    /\ moves < MaxMoves
    /\ moves' = moves + 1
    /\ holds' = [holds EXCEPT ![n] = IF p \in @ THEN @ \ {p} ELSE @ \cup {p}]
    /\ UNCHANGED <<handlers, goroutines, responses>>

(* The handler of r starts on n and sorts the partitions of the keys by    *)
(* the GetPartitionIDs of this moment.                                     *)
Arrive(r, n, K) ==
    /\ status[r] = "none"
    /\ status' = [status EXCEPT ![r] = "running"]
    /\ at' = [at EXCEPT ![r] = n]
    /\ localKeys' = [localKeys EXCEPT ![r] = K \cap holds[n]]
    /\ remoteKeys' = [remoteKeys EXCEPT ![r] = K \ holds[n]]
    /\ unread' = [unread EXCEPT ![r] = K \cap holds[n]]

(* operationHandler: a get has keys of any partitions, a list one pk. *)
Receive(n, K) ==
    /\ K # {}
    /\ op = "list" => Cardinality(K) = 1
    /\ Arrive(Root, n, K)
    /\ UNCHANGED <<holds, moves, op, read, local, remote, results, responses>>

Getting(r) == op = "get" /\ status[r] = "running"

Listing(r) == op = "list" /\ status[r] = "running"

-----------------------------------------------------------------------------
(* The goroutine for the local partitions                                  *)

(* pm.ReadRecords: the records of a partition that is loaded are read.  A  *)
(* partition that is no longer loaded is skipped, and so is one whose      *)
(* ReadRecords failed: the error is assigned to the err of the loop, which *)
(* hides the one that is returned.                                         *)
ReadLocal(r, p) ==
    /\ Getting(r)
    /\ p \in unread[r]
    /\ unread' = [unread EXCEPT ![r] = @ \ {p}]
    /\ \/ /\ p \in holds[at[r]]
          /\ read' = [read EXCEPT ![r] = @ \cup {p}]
          /\ UNCHANGED omitted
       \/ /\ omitted' = [omitted EXCEPT ![r] = @ \cup {p}]
          /\ UNCHANGED read
    /\ UNCHANGED <<holds, moves, handlers, local, remote, results, answer>>

CapacityRemoteOnly(r) == Cardinality(remoteKeys[r])

(* len(localKeys) + len(remoteKeys) *)
Capacity(r) == Cardinality(localKeys[r]) + Cardinality(remoteKeys[r])

HasRoom(r) == Cardinality(results[r]) < Capacity(r)

LocalSending(r) == Getting(r) /\ unread[r] = {} /\ local[r] = "reading"

(* There is one send, even when no partition is local. *)
SendLocal(r) ==
    /\ LocalSending(r)
    /\ HasRoom(r)
    /\ results' = [results EXCEPT ![r] = @ \cup {Local}]
    /\ local' = [local EXCEPT ![r] = "done"]
    /\ UNCHANGED <<holds, moves, handlers, unread, read, remote, responses>>

-----------------------------------------------------------------------------
(* The goroutine for one remote partition                                  *)

(* Gossip is off or has no address: handleGet goes on without the records, *)
(* handleList fails (without gossip it answers with no records).           *)
NoAddress(r, p) ==
    /\ Getting(r)
    /\ p \in remoteKeys[r]
    /\ remote[r][p] = "address"
    /\ remote' = [remote EXCEPT ![r][p] = "done"]
    /\ omitted' = [omitted EXCEPT ![r] = @ \cup {p}]
    /\ UNCHANGED <<holds, moves, handlers, unread, read, local, results, answer>>

(* GetRandomRemotePartition takes the read lock of the map and then calls  *)
(* getRemotePartitions, which takes it again: when a writer comes between  *)
(* the two, neither ever returns (Gossip!Wedged).                          *)
LookupWedges(r, p) ==
    /\ status[r] = "running"
    /\ p \in remoteKeys[r]
    /\ remote[r][p] = "address"
    /\ remote' = [remote EXCEPT ![r][p] = "wedged"]
    /\ UNCHANGED <<holds, moves, handlers, unread, read, local, results, responses>>

(* doRemoteOperation to a node gossip names for p. *)
Call(r, p, n) ==
    /\ status[r] = "running"
    /\ p \in remoteKeys[r]
    /\ remote[r][p] = "address"
    /\ Hop(r) < MaxHops
    /\ n # at[r]
    /\ remote' = [remote EXCEPT ![r][p] = "calling"]
    /\ Arrive(Child(r, p), n, {p})
    /\ UNCHANGED <<holds, moves, op, read, local, results, responses>>

Reply(r, p) ==
    /\ Getting(r)
    /\ remote[r][p] = "calling"
    /\ status[Child(r, p)] = "ok"
    /\ remote' = [remote EXCEPT ![r][p] = "sending"]
    /\ UNCHANGED <<holds, moves, handlers, unread, read, local, results, responses>>

(* An error status, a broken connection, or the request's context ends. *)
CallFails(r, p) ==
    /\ Getting(r)
    /\ remote[r][p] = "calling"
    /\ remote' = [remote EXCEPT ![r][p] = "failed"]
    /\ UNCHANGED <<holds, moves, handlers, unread, read, local, results, responses>>

SendRemote(r, p) ==
    /\ Getting(r)
    /\ remote[r][p] = "sending"
    /\ HasRoom(r)
    /\ results' = [results EXCEPT ![r] = @ \cup {p}]
    /\ remote' = [remote EXCEPT ![r][p] = "done"]
    /\ omitted' = [omitted EXCEPT ![r] = @ \cup omitted[Child(r, p)]]
    /\ UNCHANGED <<holds, moves, handlers, unread, read, local, answer>>

-----------------------------------------------------------------------------
(* The handlers return                                                     *)

(* g.Wait: every goroutine has returned. *)
AllReturned(r) ==
    /\ local[r] = "done"
    /\ \A p \in remoteKeys[r] : remote[r][p] \in {"done", "failed"}

FailedNever(r) == FALSE

(* ... one of them with an error. *)
Failed(r) == \E p \in remoteKeys[r] : remote[r][p] = "failed"

DrainedSenders(r) == results[r]

(* The records in the closed channel. *)
Drained(r) ==
    (IF Local \in results[r] THEN read[r] ELSE {})
      \cup UNION {answer[Child(r, p)] : p \in results[r] \ {Local}}

Respond(r) ==
    /\ Getting(r)
    /\ AllReturned(r)
    /\ status' = [status EXCEPT ![r] = IF Failed(r) THEN "error" ELSE "ok"]
    /\ answer' = [answer EXCEPT ![r] = IF Failed(r) THEN {} ELSE Drained(r)]
    /\ UNCHANGED <<holds, moves, op, at, localKeys, remoteKeys, goroutines, omitted>>

(* How a list ends: with a status, the records A, and O left out. *)
EndList(r, s, A, O) ==
    /\ Listing(r)
    /\ status' = [status EXCEPT ![r] = s]
    /\ answer' = [answer EXCEPT ![r] = A]
    /\ omitted' = [omitted EXCEPT ![r] = O]
    /\ UNCHANGED <<holds, moves, op, at, localKeys, remoteKeys, goroutines>>

(* pm.ListRecords fails for a partition that is no longer loaded, and when *)
(* its ListRecords does (an if that fails at run time, an error of Badger).*)
ListLocal(r, p) ==
    /\ p \in localKeys[r]
    /\ \/ p \in holds[at[r]] /\ EndList(r, "ok", {p}, {})
       \/ EndList(r, "error", {}, {})

ListNoAddress(r, p) ==
    /\ p \in remoteKeys[r]
    /\ remote[r][p] = "address"
    /\ EndList(r, "error", {}, {}) \/ EndList(r, "ok", {}, {p})

ListReply(r, p) ==
    /\ p \in remoteKeys[r]
    /\ remote[r][p] = "calling"
    /\ status[Child(r, p)] = "ok"
    /\ EndList(r, "ok", answer[Child(r, p)], omitted[Child(r, p)])

(* The error of doRemoteOperation is assigned to a variable of the inner   *)
(* block and not looked at: the list is answered with no records.          *)
ListCallFails(r, p) ==
    /\ p \in remoteKeys[r]
    /\ remote[r][p] = "calling"
    /\ EndList(r, "ok", {}, {p})

-----------------------------------------------------------------------------

GetStep(r) ==
    \/ SendLocal(r)
    \/ Respond(r)
    \/ \E p \in Parts :
         \/ ReadLocal(r, p) \/ NoAddress(r, p)
         \/ Reply(r, p) \/ CallFails(r, p) \/ SendRemote(r, p)

ListStep(r) ==
    \E p \in Parts :
        ListLocal(r, p) \/ ListNoAddress(r, p) \/ ListReply(r, p) \/ ListCallFails(r, p)

Next ==
    \/ \E n \in Nodes, p \in Parts : Move(n, p)
    \/ \E n \in Nodes, K \in SUBSET Parts : Receive(n, K)
    \/ \E r \in Requests, p \in Parts, n \in Nodes : Call(r, p, n)
    \/ \E r \in Requests, p \in Parts : LookupWedges(r, p)
    \/ \E r \in Requests : GetStep(r) \/ ListStep(r)

Spec == Init /\ [][Next]_vars

(* Every handler and goroutine is scheduled; a call ends, if only because  *)
(* its context does (30 s, NewTimeoutMiddleware).  A lookup may wedge, and *)
(* then no context ends it.                                                *)
Fairness ==
    \A r \in Requests :
        /\ WF_vars(GetStep(r))
        /\ WF_vars(ListStep(r))

FairSpec == Spec /\ Fairness

-----------------------------------------------------------------------------
(* Properties                                                              *)

(* In a get with a local partition nobody ever waits to send: the channel  *)
(* has room for every goroutine that still comes with records (handleGet   *)
(* empties it only after g.Wait).                                          *)
SendsFit ==
    \A r \in Requests : localKeys[r] # {} =>
        /\ LocalSending(r) => HasRoom(r)
        /\ \A p \in Parts : Getting(r) /\ remote[r][p] = "sending" => HasRoom(r)

(* What the goroutines of r have done shows in the channel: each is in it  *)
(* at most once, and not before it has sent.                               *)
Sent(r) ==
    /\ results[r] \subseteq remoteKeys[r] \cup {Local}
    /\ Local \in results[r] => local[r] = "done"
    /\ \A p \in Parts : p \in results[r] => remote[r][p] = "done"
    /\ \A p \in Parts : remote[r][p] # "address" => p \in remoteKeys[r]
    /\ \A p \in Parts :
         remote[r][p] \in {"calling", "sending"} \/ p \in results[r]
           => Hop(r) < MaxHops
    /\ status[r] = "none" => remoteKeys[r] = {} /\ local[r] = "reading"

(* The strengthening of SendsFit, for the goroutines of handleGet. *)
SentInv == \A r \in Requests : Sent(r)

(* A read that is answered with success has the records of each partition  *)
(* it was asked for, of no other, or has left the partition out in one of  *)
(* the four places where handleGet, handleList and pm.ReadRecords go on    *)
(* without records, here or at a later hop: no address; the partition is   *)
(* not loaded any more; the error of reading it is lost in the loop's err; *)
(* in a list, the error of the call is lost the same way.  In a get, then, *)
(* no failed call and no goroutine that has not come back passes for an    *)
(* empty partition, and nothing is answered twice.                         *)
Complete ==
    \A r \in Requests : status[r] = "ok" =>
        /\ answer[r] \cup omitted[r] = Keys(r)
        /\ answer[r] \cap omitted[r] = {}

(* The lookups of the client's handler return (see LookupWedges).  Those   *)
(* of the nodes it calls may not: their caller's context ends the call.    *)
LookupsReturn == [](\A p \in Parts : remote[Root][p] # "wedged")

(* A request that finds a local partition is answered once its own lookups *)
(* return, whatever the nodes it is proxied to do, and so is every list    *)
(* (handleGet, handleList).                                                *)
AnsweredIfLocal ==
    LookupsReturn /\ [](Getting(Root) => localKeys[Root] # {}) =>
        (status[Root] = "running" ~> status[Root] \in {"ok", "error"})

(* Every read is answered, also one for which this node has to proxy all   *)
(* of it, when the lookups return.                                         *)
Answered ==
    LookupsReturn => (status[Root] = "running" ~> status[Root] \in {"ok", "error"})
=============================================================================
