-------------------------- MODULE NamespaceProofs --------------------------
(* Proofs about Namespace for any number of nodes, partitions, requests    *)
(* and restarts, any hash function and any values of PARTITIONS.           *)
EXTENDS Namespace, FiniteSetTheorems, TLAPS

-----------------------------------------------------------------------------
(* The number of partitions                                                *)

(* A node that has started has the number of the first record, which no    *)
(* later record replaces.                                                  *)
FirstRecordRules ==
    \A n \in Nodes : boot[n] = "started" => topic # <<>> /\ count[n] = Head(topic)

(* What a node does to the partitions topic keeps its first record. *)
LEMMA FirstRecordStays ==
    ASSUME NEW t \in Seq(Counts), t # <<>>, NEW c \in Counts
    PROVE  Append(t, c) # <<>> /\ Head(Append(t, c)) = Head(t)
OBVIOUS

-----------------------------------------------------------------------------
(* Arithmetic                                                              *)

(* The quotient and the remainder of a division are its only ones. *)
LEMMA UniqueRemainder ==
    ASSUME NEW c \in Nat \ {0}, NEW a \in Int, NEW b \in Int,
           NEW d \in 0 .. c - 1, NEW e \in 0 .. c - 1, c * a + d = c * b + e
    PROVE  d = e
<1>1. CASE a = b
    BY <1>1
<1>2. CASE a > b
    <2>1. a - b >= 1
        BY <1>2
    <2>2. c * (a - b) >= c * 1
        BY <2>1
    <2>3. c * (a - b) = e - d
        OBVIOUS
    <2>4. QED
        BY <2>2, <2>3
<1>3. CASE b > a
    <2>1. b - a >= 1
        BY <1>3
    <2>2. c * (b - a) >= c * 1
        BY <2>1
    <2>3. c * (b - a) = d - e
        OBVIOUS
    <2>4. QED
        BY <2>2, <2>3
<1>4. QED
    BY <1>1, <1>2, <1>3

(* Dropping the highest bit does not change the remainder by a number that *)
(* divides it (GetPartition and the partitioner of the client).            *)
LEMMA RemainderOfRemainder ==
    ASSUME NEW c \in Nat \ {0}, NEW M \in Nat \ {0}, NEW h \in Nat, M % c = 0
    PROVE  (h % M) % c = h % c
<1> DEFINE k == M \div c
           a == h \div M
           b == (h % M) \div c
           d == (h % M) % c
           e == h \div c
           f == h % c
<1>1. k \in Int /\ M = c * k + 0
    OBVIOUS
<1>2. a \in Int /\ h % M \in Nat /\ h = M * a + (h % M)
    OBVIOUS
<1>3. b \in Int /\ d \in 0 .. c - 1 /\ h % M = c * b + d
    BY <1>2
<1>4. e \in Int /\ f \in 0 .. c - 1 /\ h = c * e + f
    OBVIOUS
<1> HIDE DEF k, a, b, d, e, f
<1>5. k * a + b \in Int
    BY <1>1, <1>2, <1>3
<1>6. M * a = c * (k * a)
    BY <1>1, <1>2
<1>7. c * (k * a + b) = c * (k * a) + c * b
    BY <1>1, <1>2, <1>3
<1>8. c * (k * a + b) + d = c * e + f
    BY <1>2, <1>3, <1>4, <1>6, <1>7
<1>9. d = f
    BY <1>3, <1>4, <1>5, <1>8, UniqueRemainder
<1>10. QED
    BY <1>9 DEF d, f

-----------------------------------------------------------------------------
(* Typing                                                                  *)

(* The keys of a request have hashes. *)
LEMMA BodyKeys ==
    ASSUME NEW r \in Requests, NEW i \in Indices(r)
    PROVE  i \in Nat \ {0} /\ Body[r][i] \in DOMAIN Hash /\ Hash[Body[r][i]] \in Nat
<1>1. Body[r] \in Seq(DOMAIN Hash)
    BY BodyType
<1>2. i \in Nat \ {0} /\ Body[r][i] \in DOMAIN Hash
    BY <1>1 DEF Indices
<1>3. QED
    BY <1>2, HashType

(* A record is sent to a partition the topic has. *)
LEMMA TargetType ==
    ASSUME NEW r \in Requests, NEW i \in Indices(r)
    PROVE  Target(r, i) \in Partitions
<1> DEFINE h == Hash[Body[r][i]]
<1>1. h \in Nat
    BY BodyKeys
<1> HIDE DEF h
<1>2. h % HighBit \in Nat
    BY <1>1, HashType
<1>3. (h % HighBit) % TopicCount \in 0 .. TopicCount - 1
    BY <1>2, CountsType
<1>4. QED
    BY <1>3 DEF Target, KafkaPartition, Partitions, h

(* GetPartition gives the records of a request a number to be grouped by. *)
LEMMA GroupType ==
    ASSUME TypeOK, NEW r \in Requests, NEW i \in Indices(r), at[r] \in Nodes
    PROVE  Group(r, i) \in Nat
<1> DEFINE h == Hash[Body[r][i]]
           c == count[at[r]]
<1>1. h \in Nat
    BY BodyKeys
<1>2. c \in Nat \ {0}
    BY CountsType DEF TypeOK
<1> HIDE DEF h, c
<1>3. h % c \in Nat
    BY <1>1, <1>2
<1>4. QED
    BY <1>3 DEF Group, GetPartition, h, c

(* What is known of a request by its status: a request that was not taken  *)
(* on has produced nothing, one that is handled has a node, one that was   *)
(* answered with ok is in the log, and the ones that were ok stay ok.      *)
Progress(r) ==
    /\ status[r] \in {"none", "rejected"} => produced[r] = {}
    /\ status[r] = "running" => at[r] \in Nodes
    /\ status[r] = "ok" => Indices(r) \subseteq produced[r]
    /\ \A s \in acked[r] : status[s] = "ok"

RequestInv == \A r \in Requests : Progress(r)

(* The state keeps its type in every step. *)
LEMMA NextTyped == TypeOK /\ RequestInv /\ [Next]_vars => TypeOK'
<1> SUFFICES ASSUME TypeOK, RequestInv, [Next]_vars PROVE TypeOK'
    OBVIOUS
<1> USE DEF bootVars, requestVars
<1>1. ASSUME NEW n \in Nodes, PollNothing(n) PROVE TypeOK'
    BY <1>1 DEF PollNothing, TypeOK
<1>2. ASSUME NEW n \in Nodes, Verify(n) PROVE TypeOK'
    BY <1>2 DEF Verify, TypeOK
<1>3. ASSUME NEW n \in Nodes, VerifyNothing(n) PROVE TypeOK'
    BY <1>3 DEF VerifyNothing, TypeOK
<1>4. ASSUME NEW n \in Nodes, NEW appended \in BOOLEAN, NEW reported \in BOOLEAN,
             Publish(n, appended, reported)
      PROVE  TypeOK'
    <2>1. topic' \in Seq(Counts)
        BY <1>4 DEF Publish, TypeOK
    <2>2. QED
        BY <1>4, <2>1 DEF Publish, TypeOK
<1>5. ASSUME NEW n \in Nodes, NEW c \in Counts, Restart(n, c) PROVE TypeOK'
    BY <1>5, RestartsType DEF Restart, TypeOK
<1>6. ASSUME NEW r \in Requests, Respond(r) PROVE TypeOK'
    BY <1>6 DEF Respond, TypeOK
<1>7. ASSUME NEW r \in Requests, NEW n \in Nodes, Reject(r, n) PROVE TypeOK'
    BY <1>7 DEF Reject, TypeOK
<1>8. ASSUME NEW r \in Requests, NEW n \in Nodes, Arrive(r, n) PROVE TypeOK'
    BY <1>8 DEF Arrive, TypeOK
<1>9. ASSUME NEW r \in Requests, NEW i \in Indices(r), Produce(r, i) PROVE TypeOK'
    <2> DEFINE q == Target(r, i)
    <2>1. q \in Partitions /\ i \in Nat
        BY TargetType, BodyKeys
    <2>2. produced' = [produced EXCEPT ![r] = @ \cup {i}]
          /\ log' = [log EXCEPT ![q] = Append(@, <<r, i>>)]
        BY <1>9 DEF Produce
    <2> HIDE DEF q
    <2>3. /\ produced' \in [Requests -> SUBSET Nat]
          /\ \A s \in Requests : produced'[s] \subseteq Indices(s)
          /\ \A s \in Requests : produced[s] \subseteq produced'[s]
          /\ i \in produced'[r]
        BY <2>1, <2>2 DEF TypeOK
    <2>4. log' \in [Partitions -> Seq(Requests \X Nat)]
        BY <2>1, <2>2 DEF TypeOK
    <2>5. ASSUME NEW p \in Partitions, NEW k \in DOMAIN log'[p]
          PROVE  log'[p][k][2] \in produced'[log'[p][k][1]]
        <3>0. log[p] \in Seq(Requests \X Nat)
            BY DEF TypeOK
        <3>1. CASE k \in DOMAIN log[p]
            <4>1. log'[p][k] = log[p][k]
                BY <3>0, <3>1, <2>1, <2>2 DEF TypeOK
            <4>2. log[p][k] \in Requests \X Nat
                BY <3>0, <3>1
            <4>3. log[p][k][2] \in produced[log[p][k][1]] /\ log[p][k][1] \in Requests
                BY <3>1, <4>2 DEF TypeOK
            <4>4. QED
                BY <4>1, <4>3, <2>3
        <3>2. CASE k \notin DOMAIN log[p]
            <4>1. log'[p][k] = <<r, i>>
                BY <3>0, <3>2, <2>1, <2>2, <2>5 DEF TypeOK
            <4>2. QED
                BY <4>1, <2>3
        <3>3. QED
            BY <3>1, <3>2
    <2>6. QED
        BY <1>9, <2>3, <2>4, <2>5 DEF Produce, TypeOK
<1>10. ASSUME NEW r \in Requests, NEW i \in Indices(r), ProduceFails(r, i) PROVE TypeOK'
    <2>1. Group(r, i) \in Nat
        BY <1>10, GroupType DEF ProduceFails, RequestInv, Progress
    <2>2. QED
        BY <1>10, <2>1 DEF ProduceFails, TypeOK
<1>11. CASE UNCHANGED vars
    BY <1>11 DEF vars, TypeOK
<1>12. QED
    BY <1>1, <1>2, <1>3, <1>4, <1>5, <1>6, <1>7, <1>8, <1>9, <1>10, <1>11 DEF Next

-----------------------------------------------------------------------------
(* Steps                                                                   *)

(* No step lets a node start with another number than the first record's,  *)
(* and none changes that record or the number of a node that has started.  *)
LEMMA FirstRecordStep == TypeOK /\ FirstRecordRules /\ [Next]_vars => FirstRecordRules'
<1> SUFFICES ASSUME TypeOK, FirstRecordRules, [Next]_vars,
                    NEW m \in Nodes, boot'[m] = "started"
             PROVE  topic' # <<>> /\ count'[m] = Head(topic')
    BY DEF FirstRecordRules
<1> USE DEF bootVars, requestVars
<1>m. boot[m] = "started" => topic # <<>> /\ count[m] = Head(topic)
    BY DEF FirstRecordRules
<1>1. ASSUME NEW n \in Nodes, PollNothing(n) \/ VerifyNothing(n)
      PROVE  topic' # <<>> /\ count'[m] = Head(topic')
    BY <1>1, <1>m DEF PollNothing, VerifyNothing, TypeOK
<1>2. ASSUME NEW n \in Nodes, Verify(n)
      PROVE  topic' # <<>> /\ count'[m] = Head(topic')
    BY <1>2, <1>m DEF Verify, Matches, TypeOK
<1>3. ASSUME NEW n \in Nodes, NEW appended \in BOOLEAN, NEW reported \in BOOLEAN,
             Publish(n, appended, reported)
      PROVE  topic' # <<>> /\ count'[m] = Head(topic')
    <2>1. boot[m] = "started"
        BY <1>3 DEF Publish, TypeOK
    <2>2. topic # <<>> /\ count[m] = Head(topic) /\ count' = count
        BY <2>1, <1>m, <1>3 DEF Publish
    <2>3. topic \in Seq(Counts) /\ count[n] \in Counts
        BY DEF TypeOK
    <2>4. topic' = topic \/ topic' = Append(topic, count[n])
        BY <1>3 DEF Publish
    <2>5. QED
        BY <2>2, <2>3, <2>4, FirstRecordStays
<1>4. ASSUME NEW n \in Nodes, NEW c \in Counts, Restart(n, c)
      PROVE  topic' # <<>> /\ count'[m] = Head(topic')
    BY <1>4, <1>m DEF Restart, TypeOK
<1>5. CASE UNCHANGED bootVars
    BY <1>5, <1>m
<1>6. ASSUME NEW r \in Requests,
             \/ Respond(r)
             \/ \E n \in Nodes : Reject(r, n) \/ Arrive(r, n)
             \/ \E i \in Indices(r) : Produce(r, i) \/ ProduceFails(r, i)
      PROVE  UNCHANGED bootVars
    BY <1>6 DEF Respond, Reject, Arrive, Produce, ProduceFails
<1>7. QED
    BY <1>1, <1>2, <1>3, <1>4, <1>5, <1>6 DEF Next, vars

(* A step of the nodes leaves a request alone, or loses it. *)
LEMMA RequestStep == TypeOK /\ RequestInv /\ [Next]_vars => RequestInv'
<1> SUFFICES ASSUME TypeOK, RequestInv, [Next]_vars, NEW s \in Requests
             PROVE  Progress(s)'
    BY DEF RequestInv
<1>s. Progress(s)
    BY DEF RequestInv
<1> USE DEF bootVars, requestVars
<1>1. ASSUME UNCHANGED requestVars PROVE Progress(s)'
    BY <1>1, <1>s DEF Progress
<1>2. ASSUME NEW n \in Nodes, NEW c \in Counts, Restart(n, c) PROVE Progress(s)'
    <2>1. \A r \in Requests : status'[r] = status[r] \/ (status[r] = "running" /\ status'[r] = "lost")
        BY <1>2 DEF Restart, TypeOK
    <2>2. acked[s] \subseteq Requests
        BY DEF TypeOK
    <2>3. QED
        BY <1>2, <1>s, <2>1, <2>2 DEF Restart, Progress
<1>3. ASSUME NEW r \in Requests, Respond(r) PROVE Progress(s)'
    <2>1. status[r] = "running" /\ UNCHANGED <<at, produced, failed, acked>>
        BY <1>3 DEF Respond
    <2>2. \A q \in Requests : q # r => status'[q] = status[q]
        BY <1>3 DEF Respond, TypeOK
    <2>3. status'[r] \in {"ok", "error"} /\ (status'[r] = "ok" => failed[r] = {})
        BY <1>3 DEF Respond, TypeOK
    <2>4. status'[r] = "ok" => Indices(r) \subseteq produced[r]
        BY <1>3, <2>3 DEF Respond, AllDone
    <2>5. acked[s] \subseteq Requests
        BY DEF TypeOK
    <2>6. \A q \in acked[s] : status'[q] = "ok"
        BY <2>1, <2>2, <2>5, <1>s DEF Progress
    <2>7. QED
        BY <2>1, <2>2, <2>3, <2>4, <2>6, <1>s DEF Progress
<1>4. ASSUME NEW r \in Requests, NEW n \in Nodes, Reject(r, n) PROVE Progress(s)'
    <2>1. acked[s] \subseteq Requests
        BY DEF TypeOK
    <2>2. QED
        BY <1>4, <1>s, <2>1 DEF Reject, Progress, TypeOK
<1>5. ASSUME NEW r \in Requests, NEW n \in Nodes, Arrive(r, n) PROVE Progress(s)'
    <2>1. acked[s] \subseteq Requests
        BY DEF TypeOK
    <2>2. QED
        BY <1>5, <1>s, <2>1 DEF Arrive, Progress, TypeOK
<1>6. ASSUME NEW r \in Requests, NEW i \in Indices(r), Produce(r, i) PROVE Progress(s)'
    BY <1>6, <1>s DEF Produce, Progress, TypeOK
<1>7. ASSUME NEW r \in Requests, NEW i \in Indices(r), ProduceFails(r, i) PROVE Progress(s)'
    BY <1>7, <1>s DEF ProduceFails, Progress
<1>8. ASSUME NEW n \in Nodes,
             \/ PollNothing(n) \/ Verify(n) \/ VerifyNothing(n)
             \/ \E appended, reported \in BOOLEAN : Publish(n, appended, reported)
      PROVE  UNCHANGED requestVars
    BY <1>8 DEF PollNothing, Verify, VerifyNothing, Publish
<1>9. QED
    BY <1>1, <1>2, <1>3, <1>4, <1>5, <1>6, <1>7, <1>8 DEF Next, vars

-----------------------------------------------------------------------------
(* The log                                                                 *)

(* Every record that counts as produced is in the log of its partition, no *)
(* record is there twice, and none is where it does not belong.            *)
LogInv ==
    /\ \A r \in Requests : \A i \in Indices(r) : i \in produced[r] <=> Places(r, i) # {}
    /\ \A q \in Partitions : \A k, l \in DOMAIN log[q] : log[q][k] = log[q][l] => k = l

(* The places of a record are offsets in the log of its partition. *)
LEMMA PlacesAreNumbers ==
    ASSUME TypeOK, NEW r \in Requests, NEW i \in Indices(r)
    PROVE  Places(r, i) \subseteq 1 .. Len(log[Target(r, i)]) /\ Len(log[Target(r, i)]) \in Nat
<1>1. log[Target(r, i)] \in Seq(Requests \X Nat)
    BY TargetType DEF TypeOK
<1>2. QED
    BY <1>1 DEF Places

(* The broker puts record i of r behind everything its partition holds and *)
(* leaves all other records where they are.                                *)
LEMMA AppendedLast ==
    ASSUME TypeOK, LogInv, NEW r \in Requests, NEW i \in Indices(r), Produce(r, i)
    PROVE  /\ Places(r, i)' = {Len(log[Target(r, i)]) + 1}
           /\ \A s \in Requests : \A j \in Indices(s) :
                <<s, j>> # <<r, i>> => Places(s, j)' = Places(s, j)
           /\ \A p \in Partitions : \A k, l \in DOMAIN log'[p] :
                log'[p][k] = log'[p][l] => k = l
<1> DEFINE q == Target(r, i)
<1>1. q \in Partitions
    BY TargetType
<1>2. log' = [log EXCEPT ![q] = Append(@, <<r, i>>)] /\ i \notin produced[r]
    BY DEF Produce
<1>3. \A p \in Partitions : log[p] \in Seq(Requests \X Nat)
    BY DEF TypeOK
<1>4. \A k \in DOMAIN log[q] : log[q][k] # <<r, i>>
    BY <1>2 DEF LogInv, Places
<1>5. /\ \A p \in Partitions \ {q} : log'[p] = log[p]
      /\ DOMAIN log[q] = 1 .. Len(log[q]) /\ Len(log[q]) \in Nat
      /\ DOMAIN log'[q] = 1 .. Len(log[q]) + 1
      /\ \A k \in DOMAIN log[q] : log'[q][k] = log[q][k]
      /\ log'[q][Len(log[q]) + 1] = <<r, i>>
    <2>1. log'[q] = Append(log[q], <<r, i>>) /\ log[q] \in Seq(Requests \X Nat)
        BY <1>1, <1>2, <1>3 DEF TypeOK
    <2>2. <<r, i>> \in Requests \X Nat
        BY BodyKeys
    <2>3. \A p \in Partitions \ {q} : log'[p] = log[p]
        BY <1>1, <1>2 DEF TypeOK
    <2> HIDE DEF q
    <2>4. QED
        BY <2>1, <2>2, <2>3
<1>6. Places(r, i)' = {k \in DOMAIN log'[q] : log'[q][k] = <<r, i>>}
    BY DEF Places, Target, KafkaPartition
<1> HIDE DEF q
<1>7. Places(r, i)' = {Len(log[q]) + 1}
    BY <1>4, <1>5, <1>6
<1>8. ASSUME NEW s \in Requests, NEW j \in Indices(s), <<s, j>> # <<r, i>>
      PROVE  Places(s, j)' = Places(s, j)
    <2> DEFINE p == Target(s, j)
    <2>1. p \in Partitions
        BY TargetType
    <2>2. /\ Places(s, j)' = {k \in DOMAIN log'[p] : log'[p][k] = <<s, j>>}
          /\ Places(s, j) = {k \in DOMAIN log[p] : log[p][k] = <<s, j>>}
        BY DEF Places, Target, KafkaPartition
    <2> HIDE DEF p
    <2>3. CASE p = q
        BY <2>2, <2>3, <1>5, <1>8
    <2>4. CASE p # q
        BY <2>1, <2>2, <2>4, <1>5
    <2>5. QED
        BY <2>3, <2>4
<1>9. ASSUME NEW p \in Partitions, NEW k \in DOMAIN log'[p], NEW l \in DOMAIN log'[p],
             log'[p][k] = log'[p][l]
      PROVE  k = l
    <2>1. CASE p = q
        BY <2>1, <1>1, <1>4, <1>5, <1>9 DEF LogInv
    <2>2. CASE p # q
        BY <2>2, <1>5, <1>9 DEF LogInv
    <2>3. QED
        BY <2>1, <2>2
<1>10. QED
    BY <1>7, <1>8, <1>9 DEF q

(* Only Produce touches what is produced and where it is. *)
LEMMA LogUntouched ==
    ASSUME [Next]_vars,
           ~ \E r \in Requests : \E i \in Indices(r) : Produce(r, i)
    PROVE  UNCHANGED <<produced, log>>
BY DEF Next, vars, requestVars, bootVars, PollNothing, Verify, VerifyNothing, Publish,
       Restart, Respond, Reject, Arrive, ProduceFails

(* The log stays in agreement with what is produced. *)
LEMMA LogStep == TypeOK /\ LogInv /\ [Next]_vars => LogInv'
<1> SUFFICES ASSUME TypeOK, LogInv, [Next]_vars PROVE LogInv'
    OBVIOUS
<1>1. ASSUME NEW r \in Requests, NEW i \in Indices(r), Produce(r, i) PROVE LogInv'
    <2>1. /\ Places(r, i)' # {}
          /\ \A s \in Requests : \A j \in Indices(s) :
                <<s, j>> # <<r, i>> => Places(s, j)' = Places(s, j)
          /\ \A p \in Partitions : \A k, l \in DOMAIN log'[p] :
                log'[p][k] = log'[p][l] => k = l
        BY <1>1, AppendedLast
    <2>2. /\ i \in produced'[r]
          /\ \A s \in Requests, j \in Nat :
                <<s, j>> # <<r, i>> => (j \in produced'[s] <=> j \in produced[s])
        BY <1>1, BodyKeys DEF Produce, TypeOK
    <2>3. ASSUME NEW s \in Requests, NEW j \in Indices(s)
          PROVE  j \in produced'[s] <=> Places(s, j)' # {}
        <3>1. j \in Nat
            BY BodyKeys
        <3>2. CASE <<s, j>> = <<r, i>>
            BY <3>2, <2>1, <2>2
        <3>3. CASE <<s, j>> # <<r, i>>
            BY <3>1, <3>3, <2>1, <2>2 DEF LogInv
        <3>4. QED
            BY <3>2, <3>3
    <2>4. QED
        BY <2>1, <2>3 DEF LogInv, Indices
<1>2. CASE ~ \E r \in Requests : \E i \in Indices(r) : Produce(r, i)
    <2>1. UNCHANGED <<produced, log>>
        BY <1>2, LogUntouched
    <2>2. ASSUME NEW r \in Requests, NEW i \in Indices(r)
          PROVE  (i \in produced[r] <=> Places(r, i) # {})'
        <3>1. Places(r, i)' = Places(r, i)
            BY <2>1 DEF Places, Target, KafkaPartition
        <3>2. QED
            BY <2>1, <3>1 DEF LogInv
    <2>3. QED
        BY <2>1, <2>2 DEF LogInv, Indices
<1>3. QED
    BY <1>1, <1>2

(* Records of one key are in one group as long as their request is         *)
(* handled, and always in one partition.                                   *)
LEMMA SameKey ==
    ASSUME NEW r \in Requests, NEW s \in Requests,
           NEW i \in Indices(r), NEW j \in Indices(s), Body[r][i] = Body[s][j]
    PROVE  /\ Target(r, i) = Target(s, j)
           /\ r = s => Group(r, i) = Group(s, j)
BY DEF Target, Group

(* A record of a key is appended when the ones that have to precede it are *)
(* in the log, and never after one that has to follow it.                  *)
LEMMA OrderStep ==
    TypeOK /\ RequestInv /\ LogInv /\ KeyOrder /\ [Next]_vars => KeyOrder'
<1> SUFFICES ASSUME TypeOK, RequestInv, LogInv, KeyOrder, [Next]_vars,
                    NEW r \in Requests, NEW s \in Requests,
                    NEW i \in Indices(r), NEW j \in Indices(s),
                    Body[r][i] = Body[s][j],
                    r \in acked'[s] \/ (r = s /\ i < j)
             PROVE  Precedes(r, i, s, j)'
    BY DEF KeyOrder, Indices
<1> USE DEF bootVars, requestVars
<1>0. /\ Places(r, i) \subseteq 1 .. Len(log[Target(r, i)]) /\ Len(log[Target(r, i)]) \in Nat
      /\ Target(r, i) = Target(s, j) /\ i \in Nat \ {0} /\ j \in Nat
    BY PlacesAreNumbers, SameKey, BodyKeys
<1>1. ASSUME NEW t \in Requests, NEW x \in Indices(t), Produce(t, x)
      PROVE  Precedes(r, i, s, j)'
    <2>1. acked' = acked
        BY <1>1 DEF Produce
    <2>2. Precedes(r, i, s, j)
        BY <2>1 DEF KeyOrder
    <2>3. /\ Places(t, x)' = {Len(log[Target(t, x)]) + 1}
          /\ <<r, i>> # <<t, x>> => Places(r, i)' = Places(r, i)
          /\ <<s, j>> # <<t, x>> => Places(s, j)' = Places(s, j)
        BY <1>1, AppendedLast
    <2>4. x \notin produced[t] /\ status[t] = "running" /\ InTurn(t, x)
        BY <1>1 DEF Produce
    <2>5. CASE <<s, j>> = <<t, x>>
        <3>1. i \in produced[r] /\ <<r, i>> # <<t, x>>
            <4>1. CASE r \in acked[s]
                <5>1. status[r] = "ok"
                    BY <4>1 DEF RequestInv, Progress
                <5>2. QED
                    BY <5>1, <2>4, <2>5 DEF RequestInv, Progress
            <4>2. CASE r = s /\ i < j
                <5>1. i \in 1 .. j - 1
                    BY <4>2, <1>0
                <5>2. Group(s, i) = Group(s, j) /\ Target(s, i) = Target(s, j)
                    BY <4>2, <1>0, SameKey
                <5>3. QED
                    BY <5>1, <5>2, <4>2, <2>4, <2>5, <1>0 DEF InTurn
            <4>3. QED
                BY <4>1, <4>2, <2>1
        <3>2. Places(r, i) # {} /\ Places(r, i)' = Places(r, i)
            BY <3>1, <2>3 DEF LogInv
        <3>3. Places(s, j)' = {Len(log[Target(r, i)]) + 1}
            BY <2>3, <2>5, <1>0
        <3>4. QED
            BY <3>2, <3>3, <1>0 DEF Precedes
    <2>6. CASE <<s, j>> # <<t, x>>
        <3>1. CASE Places(s, j) = {}
            BY <3>1, <2>3, <2>6 DEF Precedes
        <3>2. CASE Places(s, j) # {}
            <4>1. Places(r, i) # {}
                BY <3>2, <2>2 DEF Precedes
            <4>2. <<r, i>> # <<t, x>>
                BY <4>1, <2>4 DEF LogInv
            <4>3. QED
                BY <4>2, <2>2, <2>3, <2>6 DEF Precedes
        <3>3. QED
            BY <3>1, <3>2
    <2>7. QED
        BY <2>5, <2>6
<1>2. CASE ~ \E t \in Requests : \E x \in Indices(t) : Produce(t, x)
    <2>1. UNCHANGED <<produced, log>>
        BY <1>2, LogUntouched
    <2>2. Places(r, i)' = Places(r, i) /\ Places(s, j)' = Places(s, j)
        BY <2>1 DEF Places, Target, KafkaPartition
    <2>3. CASE r \in acked[s] \/ (r = s /\ i < j)
        <3>1. Precedes(r, i, s, j)
            BY <2>3 DEF KeyOrder
        <3>2. QED
            BY <3>1, <2>2 DEF Precedes
    <2>4. CASE r \in acked'[s] /\ r \notin acked[s]
        <3>1. PICK n \in Nodes : Arrive(s, n)
            BY <2>4, <1>2 DEF Next, vars, PollNothing, Verify, VerifyNothing, Publish,
                 Restart, Respond, Reject, ProduceFails, Arrive, TypeOK
        <3>2. produced[s] = {}
            BY <3>1 DEF Arrive, RequestInv, Progress
        <3>3. Places(s, j)' = {}
            BY <3>2, <2>2 DEF LogInv
        <3>4. QED
            BY <3>3 DEF Precedes
    <2>5. QED
        BY <2>3, <2>4
<1>3. QED
    BY <1>1, <1>2

-----------------------------------------------------------------------------
(* Results                                                                 *)

(* The inductive invariant. *)
NamespaceInv == TypeOK /\ FirstRecordRules /\ RequestInv /\ LogInv /\ KeyOrder

(* It holds initially and after every step (NewLogConsumer,              *)
(* handleMutation).                                                        *)
LEMMA NamespaceInvariant == Spec => []NamespaceInv
<1>1. Init => NamespaceInv
    <2> SUFFICES ASSUME Init PROVE NamespaceInv
        OBVIOUS
    <2>1. TypeOK
        BY RestartsType DEF Init, TypeOK
    <2>2. FirstRecordRules /\ RequestInv
        BY DEF Init, FirstRecordRules, RequestInv, Progress
    <2>3. \A r \in Requests : \A i \in Indices(r) : Places(r, i) = {} /\ produced[r] = {}
        BY TargetType DEF Init, Places
    <2>4. LogInv
        BY <2>3 DEF Init, LogInv
    <2>5. KeyOrder
        BY <2>3 DEF KeyOrder, Precedes
    <2>6. QED
        BY <2>1, <2>2, <2>4, <2>5 DEF NamespaceInv
<1>2. NamespaceInv /\ [Next]_vars => NamespaceInv'
    BY NextTyped, FirstRecordStep, RequestStep, LogStep, OrderStep DEF NamespaceInv
<1>3. QED
    BY <1>1, <1>2, PTL DEF Spec

(* The variables keep their types and the log holds only what was          *)
(* produced (handleMutation).                                              *)
THEOREM NamespaceTyped == Spec => []TypeOK
<1>1. NamespaceInv => TypeOK
    BY DEF NamespaceInv
<1>2. QED
    BY <1>1, NamespaceInvariant, PTL

(* However many nodes race to publish their number of partitions, whatever *)
(* their polls miss and whatever they restart with: the ones that start    *)
(* have the same number (NewLogConsumer).                                  *)
THEOREM StartedNodesAgree == Spec => []OneCount
<1>1. NamespaceInv => OneCount
    BY DEF NamespaceInv, FirstRecordRules, OneCount
<1>2. QED
    BY <1>1, NamespaceInvariant, PTL

(* The mutations of a partition key are in the log in the order in which   *)
(* clients can tell them apart: within a request, and after an answer      *)
(* (handleMutation with its parallel ProduceSync calls).                   *)
THEOREM MutationsInOrder == Spec => []KeyOrder
<1>1. NamespaceInv => KeyOrder
    BY DEF NamespaceInv
<1>2. QED
    BY <1>1, NamespaceInvariant, PTL

(* With the number of partitions the topic has, a divisor of the highest   *)
(* bit of a hash, what was acknowledged is in the log once, in the         *)
(* partition in which every started node looks for it (GetPartition).      *)
THEOREM MutationsAreFound == Spec => []RoutedIfMatching
<1>1. NamespaceInv => RoutedIfMatching
    <2> SUFFICES ASSUME NamespaceInv, Head(topic) = TopicCount, HighBit % TopicCount = 0,
                        NEW r \in Requests, NEW n \in Nodes,
                        status[r] = "ok", boot[n] = "started",
                        NEW i \in Indices(r)
                 PROVE  /\ Cardinality(Places(r, i)) = 1
                        /\ GetPartition(Body[r][i], count[n]) = Target(r, i)
        BY DEF RoutedIfMatching, Routed
    <2>1. Places(r, i) # {}
        BY DEF NamespaceInv, RequestInv, Progress, LogInv
    <2>2. PICK k : k \in Places(r, i)
        BY <2>1
    <2>3. Places(r, i) = {k}
        BY <2>2, TargetType DEF NamespaceInv, LogInv, Places
    <2>4. Cardinality(Places(r, i)) = 1
        BY <2>3, FS_Singleton
    <2>5. count[n] = TopicCount
        BY DEF NamespaceInv, FirstRecordRules
    <2>6. (Hash[Body[r][i]] % HighBit) % TopicCount = Hash[Body[r][i]] % TopicCount
        BY BodyKeys, HashType, CountsType, RemainderOfRemainder
    <2>7. GetPartition(Body[r][i], count[n]) = Target(r, i)
        BY <2>5, <2>6 DEF GetPartition, Target, KafkaPartition
    <2>8. QED
        BY <2>4, <2>7
<1>2. QED
    BY <1>1, NamespaceInvariant, PTL
=============================================================================
