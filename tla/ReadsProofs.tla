---------------------------- MODULE ReadsProofs ----------------------------
(* No goroutine of a get with a local partition blocks on `results', and   *)
(* what a successful read leaves out was left out in one of the places     *)
(* Complete names, for any number of nodes, partitions, hops and moves.    *)
EXTENDS Reads, FiniteSetTheorems, TLAPS

(* The request made for p is one of the model as long as the hops last. *)
LEMMA ChildType ==
    ASSUME NEW r \in Requests, NEW p \in Parts, Hop(r) < MaxHops
    PROVE  Child(r, p) \in Requests
BY BoundsType DEF Child, Hop, Requests, Proxied

(* The state keeps its type in every step; an answer taken over from       *)
(* another request is one of a request of the model.                       *)
LEMMA NextTyped == TypeOK /\ SentInv /\ [Next]_vars => TypeOK'
<1> SUFFICES ASSUME TypeOK, SentInv, [Next]_vars PROVE TypeOK'
    OBVIOUS
<1> USE DEF TypeOK, handlers, goroutines, responses
<1>c. ASSUME NEW r \in Requests, NEW p \in Parts,
             remote[r][p] \in {"calling", "sending"} \/ p \in results[r]
      PROVE  answer[Child(r, p)] \subseteq Parts /\ omitted[Child(r, p)] \subseteq Parts
    <2>1. Child(r, p) \in Requests
        BY <1>c, ChildType DEF SentInv, Sent
    <2>2. QED
        BY <2>1
<1>1. ASSUME NEW n \in Nodes, NEW p \in Parts, Move(n, p)
      PROVE  TypeOK'
    BY <1>1, BoundsType DEF Move
<1>2. ASSUME NEW n \in Nodes, NEW K \in SUBSET Parts, Receive(n, K)
      PROVE  TypeOK'
    BY <1>2 DEF Receive, Arrive, Requests
<1>3. ASSUME NEW r \in Requests, NEW p \in Parts, NEW n \in Nodes, Call(r, p, n)
      PROVE  TypeOK'
    BY <1>3, ChildType DEF Call, Arrive
<1>4. ASSUME NEW r \in Requests, SendLocal(r)
      PROVE  TypeOK'
    BY <1>4 DEF SendLocal
<1>5. ASSUME NEW r \in Requests, Respond(r)
      PROVE  TypeOK'
    <2>1. \A p \in results[r] \ {Local} : answer[Child(r, p)] \subseteq Parts
        BY <1>c
    <2>2. Drained(r) \subseteq Parts
        BY <2>1 DEF Drained
    <2>3. QED
        BY <1>5, <2>2 DEF Respond
<1>6. ASSUME NEW r \in Requests, NEW p \in Parts, ReadLocal(r, p)
      PROVE  TypeOK'
    <2>1. CASE read' = [read EXCEPT ![r] = @ \cup {p}] /\ UNCHANGED omitted
        BY <1>6, <2>1 DEF ReadLocal
    <2>2. CASE omitted' = [omitted EXCEPT ![r] = @ \cup {p}] /\ UNCHANGED read
        BY <1>6, <2>2 DEF ReadLocal
    <2>3. QED
        BY <1>6, <2>1, <2>2 DEF ReadLocal
<1>7. ASSUME NEW r \in Requests, NEW p \in Parts, NoAddress(r, p)
      PROVE  TypeOK'
    BY <1>7 DEF NoAddress
<1>8. ASSUME NEW r \in Requests, NEW p \in Parts, Reply(r, p)
      PROVE  TypeOK'
    BY <1>8 DEF Reply
<1>9. ASSUME NEW r \in Requests, NEW p \in Parts, CallFails(r, p)
      PROVE  TypeOK'
    BY <1>9 DEF CallFails
<1>10. ASSUME NEW r \in Requests, NEW p \in Parts, SendRemote(r, p)
       PROVE  TypeOK'
    <2>1. omitted[Child(r, p)] \subseteq Parts
        BY <1>10, <1>c DEF SendRemote
    <2>2. QED
        BY <1>10, <2>1 DEF SendRemote
<1>11. ASSUME NEW r \in Requests, ListStep(r)
       PROVE  \E s \in {"ok", "error"}, A \in SUBSET Parts, O \in SUBSET Parts :
                EndList(r, s, A, O)
    <2>1. PICK p \in Parts :
            ListLocal(r, p) \/ ListNoAddress(r, p) \/ ListReply(r, p) \/ ListCallFails(r, p)
        BY <1>11 DEF ListStep
    <2>2. CASE ListLocal(r, p)
        BY <2>2 DEF ListLocal
    <2>3. CASE ListNoAddress(r, p)
        BY <2>3 DEF ListNoAddress
    <2>4. CASE ListReply(r, p)
        BY <2>4, <1>c DEF ListReply
    <2>5. CASE ListCallFails(r, p)
        BY <2>5 DEF ListCallFails
    <2>6. QED
        BY <2>1, <2>2, <2>3, <2>4, <2>5
<1>12. ASSUME NEW r \in Requests, ListStep(r)
       PROVE  TypeOK'
    <2>1. PICK s \in {"ok", "error"}, A \in SUBSET Parts, O \in SUBSET Parts :
            EndList(r, s, A, O)
        BY <1>11, <1>12
    <2>2. QED
        BY <2>1 DEF EndList
<1>13. ASSUME NEW r \in Requests, NEW p \in Parts, LookupWedges(r, p)
       PROVE  TypeOK'
    BY <1>13 DEF LookupWedges
<1>14. CASE UNCHANGED vars
    BY <1>14 DEF vars
<1>15. QED
    BY <1>1, <1>2, <1>3, <1>4, <1>5, <1>6, <1>7, <1>8, <1>9, <1>10, <1>12, <1>13, <1>14
       DEF Next, GetStep

(* Each step leaves the goroutines of every request and what they have     *)
(* sent in agreement.                                                      *)
LEMMA SentStep == TypeOK /\ SentInv /\ [Next]_vars => SentInv'
<1> SUFFICES ASSUME TypeOK, SentInv, [Next]_vars, NEW r \in Requests
             PROVE  Sent(r)'
    BY DEF SentInv
<1>r. Sent(r)
    BY DEF SentInv
<1> USE DEF handlers, goroutines, responses
<1>1. ASSUME NEW n \in Nodes, NEW p \in Parts, Move(n, p)
      PROVE  Sent(r)'
    BY <1>1, <1>r DEF Move, Sent
<1>a. ASSUME NEW q \in Requests, NEW n \in Nodes, NEW K \in SUBSET Parts,
             Arrive(q, n, K), results' = results, local' = local,
             \A p \in Parts : remote'[r][p] # remote[r][p] =>
                 p \in remoteKeys[r] /\ remote'[r][p] = "calling" /\ Hop(r) < MaxHops
                   /\ status[r] = "running" /\ remote[r][p] = "address"
      PROVE  Sent(r)'
    <2>1. CASE q = r
        <3>1. remoteKeys[r] = {} /\ status[r] = "none"
            BY <1>a, <2>1, <1>r DEF Arrive, Sent
        <3>2. \A p \in Parts : remote'[r][p] = remote[r][p]
            BY <3>1, <1>a
        <3>3. \A p \in Parts : remote[r][p] = "address"
            BY <3>1, <1>r DEF Sent
        <3>4. results[r] = {}
            BY <3>1, <1>r DEF Sent
        <3>5. status'[r] = "running"
            BY <1>a, <2>1 DEF Arrive, TypeOK
        <3>6. QED
            BY <3>2, <3>3, <3>4, <3>5, <1>a DEF Sent
    <2>2. CASE q # r
        <3>1. remoteKeys'[r] = remoteKeys[r] /\ status'[r] = status[r]
            BY <1>a, <2>2 DEF Arrive, TypeOK
        <3>2. QED
            BY <3>1, <1>a, <1>r DEF Sent
    <2>3. QED
        BY <2>1, <2>2
<1>2. ASSUME NEW n \in Nodes, NEW K \in SUBSET Parts, Receive(n, K)
      PROVE  Sent(r)'
    <2>1. Root \in Requests
        BY DEF Requests
    <2>2. Arrive(Root, n, K) /\ UNCHANGED <<results, local, remote>>
        BY <1>2 DEF Receive
    <2>3. QED
        BY <1>a, <2>1, <2>2
<1>3. ASSUME NEW q \in Requests, NEW p \in Parts, NEW n \in Nodes, Call(q, p, n)
      PROVE  Sent(r)'
    <2>1. Child(q, p) \in Requests
        BY <1>3, ChildType DEF Call
    <2>2. Arrive(Child(q, p), n, {p}) /\ UNCHANGED <<results, local>>
        BY <1>3 DEF Call
    <2>3. \A s \in Parts : remote'[r][s] # remote[r][s] =>
            s \in remoteKeys[r] /\ remote'[r][s] = "calling" /\ Hop(r) < MaxHops
              /\ status[r] = "running" /\ remote[r][s] = "address"
        BY <1>3 DEF Call, TypeOK
    <2>4. QED
        BY <1>a, <2>1, <2>2, <2>3
<1>4. ASSUME NEW q \in Requests, SendLocal(q)
      PROVE  Sent(r)'
    <2>1. CASE q = r
        BY <1>4, <2>1, <1>r, LocalIsNoPartition
           DEF SendLocal, LocalSending, Getting, Sent, TypeOK
    <2>2. CASE q # r
        BY <1>4, <2>2, <1>r DEF SendLocal, Sent, TypeOK
    <2>3. QED
        BY <2>1, <2>2
<1>5. ASSUME NEW q \in Requests, Respond(q)
      PROVE  Sent(r)'
    BY <1>5, <1>r DEF Respond, Sent, TypeOK
<1>6. ASSUME NEW q \in Requests, NEW p \in Parts, ReadLocal(q, p)
      PROVE  Sent(r)'
    BY <1>6, <1>r DEF ReadLocal, Sent
<1>7. ASSUME NEW q \in Requests, NEW p \in Parts, NoAddress(q, p)
      PROVE  Sent(r)'
    BY <1>7, <1>r DEF NoAddress, Sent, TypeOK
<1>8. ASSUME NEW q \in Requests, NEW p \in Parts, Reply(q, p)
      PROVE  Sent(r)'
    BY <1>8, <1>r DEF Reply, Sent, TypeOK
<1>9. ASSUME NEW q \in Requests, NEW p \in Parts, CallFails(q, p)
      PROVE  Sent(r)'
    BY <1>9, <1>r DEF CallFails, Sent, TypeOK
<1>10. ASSUME NEW q \in Requests, NEW p \in Parts, SendRemote(q, p)
       PROVE  Sent(r)'
    <2>1. CASE q = r
        BY <1>10, <2>1, <1>r, LocalIsNoPartition DEF SendRemote, Getting, Sent, TypeOK
    <2>2. CASE q # r
        BY <1>10, <2>2, <1>r DEF SendRemote, Sent, TypeOK
    <2>3. QED
        BY <2>1, <2>2
<1>11. ASSUME NEW q \in Requests, ListStep(q)
       PROVE  Sent(r)'
    <2>1. /\ status'[r] = status[r] \/ status'[r] \in {"ok", "error"}
          /\ UNCHANGED <<remoteKeys, goroutines>>
        BY <1>11 DEF ListStep, ListLocal, ListNoAddress, ListReply, ListCallFails,
                     EndList, TypeOK
    <2>2. QED
        BY <2>1, <1>r DEF Sent
<1>12. ASSUME NEW q \in Requests, NEW p \in Parts, LookupWedges(q, p)
       PROVE  Sent(r)'
    BY <1>12, <1>r DEF LookupWedges, Sent, TypeOK
<1>13. CASE UNCHANGED vars
    BY <1>13, <1>r DEF vars, Sent
<1>14. QED
    BY <1>1, <1>2, <1>3, <1>4, <1>5, <1>6, <1>7, <1>8, <1>9, <1>10, <1>11, <1>12, <1>13
       DEF Next, GetStep

(* Whoever still has to send is not in the channel, so what is in it comes *)
(* from at most as many goroutines as there are remote partitions.         *)
LEMMA SentFits == TypeOK /\ SentInv => SendsFit
<1> SUFFICES ASSUME TypeOK, SentInv, NEW r \in Requests, localKeys[r] # {}
             PROVE  /\ LocalSending(r) => HasRoom(r)
                    /\ \A p \in Parts : remote[r][p] = "sending" => HasRoom(r)
    BY DEF SendsFit
<1>r. Sent(r)
    BY DEF SentInv
<1>1. IsFiniteSet(localKeys[r]) /\ IsFiniteSet(remoteKeys[r])
    BY NodesAndParts, FS_Subset DEF TypeOK
<1>2. Cardinality(localKeys[r]) \in Nat \ {0} /\ Cardinality(remoteKeys[r]) \in Nat
    BY <1>1, FS_CardinalityType, FS_EmptySet
<1>3. ASSUME NEW S, S \subseteq remoteKeys[r] PROVE Cardinality(S) <= Cardinality(remoteKeys[r])
    BY <1>1, <1>3, FS_Subset
<1>4. ASSUME LocalSending(r) PROVE HasRoom(r)
    <2>1. results[r] \subseteq remoteKeys[r]
        BY <1>4, <1>r DEF LocalSending, Sent
    <2>2. Cardinality(results[r]) \in Nat
        BY <2>1, <1>1, FS_Subset, FS_CardinalityType
    <2>3. QED
        BY <2>1, <2>2, <1>2, <1>3 DEF HasRoom, Capacity
<1>5. ASSUME NEW p \in Parts, remote[r][p] = "sending" PROVE HasRoom(r)
    <2>1. p \notin results[r] /\ p \in remoteKeys[r] /\ p # Local
        BY <1>5, <1>r, LocalIsNoPartition DEF Sent
    <2>2. results[r] \ {Local} \subseteq remoteKeys[r] \ {p}
        BY <2>1, <1>r DEF Sent
    <2>3. /\ IsFiniteSet(remoteKeys[r] \ {p})
          /\ Cardinality(remoteKeys[r] \ {p}) = Cardinality(remoteKeys[r]) - 1
        BY <1>1, <2>1, FS_RemoveElement
    <2>4. /\ IsFiniteSet(results[r] \ {Local})
          /\ Cardinality(results[r] \ {Local}) <= Cardinality(remoteKeys[r]) - 1
        BY <2>2, <2>3, FS_Subset
    <2>5. Cardinality(results[r] \ {Local}) \in Nat
        BY <2>4, FS_CardinalityType
    <2>6. Cardinality((results[r] \ {Local}) \cup {Local}) = Cardinality(results[r] \ {Local}) + 1
        BY <2>4, FS_AddElement
    <2>7. Cardinality(results[r]) <= Cardinality(results[r] \ {Local}) + 1
      <3>1. CASE Local \in results[r]
        <4>1. (results[r] \ {Local}) \cup {Local} = results[r]
            BY <3>1
        <4>2. QED
            BY <4>1, <2>5, <2>6
      <3>2. CASE Local \notin results[r]
        <4>1. results[r] \ {Local} = results[r]
            BY <3>2
        <4>2. Cardinality(results[r] \ {Local}) = Cardinality(results[r])
            BY <4>1
        <4>3. QED
            BY <4>2, <2>5
      <3>3. QED
        BY <3>1, <3>2
    <2>8. Cardinality(results[r]) \in Nat
      <3>1. IsFiniteSet(remoteKeys[r] \cup {Local})
        BY <1>1, FS_AddElement
      <3>2. IsFiniteSet(results[r])
        BY <3>1, <1>r, FS_Subset DEF Sent
      <3>3. QED
        BY <3>2, FS_CardinalityType
    <2>9. QED
        BY <2>4, <2>5, <2>7, <2>8, <1>2 DEF HasRoom, Capacity
<1>6. QED
    BY <1>4, <1>5

(* In every get with a local partition, on the client's node and on every  *)
(* node it is proxied to, no goroutine of handleGet ever waits for room in *)
(* `results', so g.Wait returns once the calls have.                       *)
THEOREM GetNeverBlocks == Spec => []SendsFit
<1>1. Init => TypeOK /\ SentInv
    BY BoundsType DEF Init, TypeOK, SentInv, Sent
<1>2. TypeOK /\ SentInv /\ [Next]_vars => (TypeOK /\ SentInv)'
    BY NextTyped, SentStep
<1>3. TypeOK /\ SentInv => SendsFit
    BY SentFits
<1>4. QED
    BY <1>1, <1>2, <1>3, PTL DEF Spec

-----------------------------------------------------------------------------
(* What the answers contain                                                *)

(* The partitions r was asked for: a request that was not made has none,   *)
(* a proxied one at most its own, a list at most one, and each is local or *)
(* remote.                                                                 *)
Scope(r) ==
    /\ status[r] = "none" => Keys(r) = {} /\ omitted[r] = {}
    /\ localKeys[r] \cap remoteKeys[r] = {}
    /\ \A p \in Keys(r) : r # Root => r[1] = p
    /\ op = "list" => \A p, q \in Keys(r) : p = q

(* Whoever called another node asked it for the one partition, and has     *)
(* its records only from an answer that was a success.                     *)
Called(r) ==
    \A p \in Parts :
        /\ remote[r][p] \in {"calling", "sending"} \/ p \in results[r] =>
             status[Child(r, p)] # "none" /\ Keys(Child(r, p)) = {p}
        /\ remote[r][p] = "sending" \/ p \in results[r] => status[Child(r, p)] = "ok"

(* A get that runs has left out the local partitions it passed without     *)
(* reading them and the remote ones without an address, and what the       *)
(* called nodes left out.                                                  *)
LeftOut(r, p) ==
    \/ p \in localKeys[r] \ (unread[r] \cup read[r])
    \/ /\ p \in remoteKeys[r] /\ remote[r][p] = "done"
       /\ p \in results[r] => p \in omitted[Child(r, p)]

Tally(r) ==
    /\ unread[r] \cup read[r] \subseteq localKeys[r]
    /\ unread[r] \cap read[r] = {}
    /\ local[r] = "done" => Local \in results[r] /\ unread[r] = {}
    /\ Getting(r) => \A p \in Parts : p \in omitted[r] <=> LeftOut(r, p)

(* Complete, for one request. *)
Ended(r) ==
    status[r] = "ok" =>
        /\ answer[r] \cup omitted[r] = Keys(r)
        /\ answer[r] \cap omitted[r] = {}

Sound(r) == Scope(r) /\ Called(r) /\ Tally(r) /\ Ended(r)

ReadInv == \A r \in Requests : Sound(r)

(* The partitions of a request do not change once it was made, and nothing *)
(* of it does once it has ended.                                           *)
LEMMA Frame ==
    ASSUME TypeOK, SentInv, [Next]_vars, NEW c \in Requests, status[c] # "none"
    PROVE  /\ localKeys'[c] = localKeys[c] /\ remoteKeys'[c] = remoteKeys[c]
           /\ status'[c] # "none"
           /\ status[c] \in {"ok", "error"} =>
                status'[c] = status[c] /\ answer'[c] = answer[c] /\ omitted'[c] = omitted[c]
<1> DEFINE Framed ==
             /\ localKeys'[c] = localKeys[c] /\ remoteKeys'[c] = remoteKeys[c]
             /\ status'[c] # "none"
             /\ status[c] \in {"ok", "error"} =>
                  status'[c] = status[c] /\ answer'[c] = answer[c] /\ omitted'[c] = omitted[c]
<1> USE DEF handlers, goroutines, responses
<1>1. ASSUME NEW n \in Nodes, NEW p \in Parts, Move(n, p) PROVE Framed
    BY <1>1 DEF Move
<1>2. ASSUME NEW n \in Nodes, NEW K \in SUBSET Parts, Receive(n, K) PROVE Framed
    BY <1>2 DEF Receive, Arrive, TypeOK, Requests
<1>3. ASSUME NEW r \in Requests, NEW p \in Parts, NEW n \in Nodes, Call(r, p, n) PROVE Framed
    <2>1. Child(r, p) \in Requests
        BY <1>3, ChildType DEF Call
    <2>2. QED
        BY <1>3, <2>1 DEF Call, Arrive, TypeOK
<1>4. ASSUME NEW r \in Requests, GetStep(r) PROVE Framed
    BY <1>4 DEF GetStep, SendLocal, LocalSending, Respond, ReadLocal, NoAddress, Reply,
                CallFails, SendRemote, Getting, TypeOK
<1>5. ASSUME NEW r \in Requests, ListStep(r) PROVE Framed
    BY <1>5 DEF ListStep, ListLocal, ListNoAddress, ListReply, ListCallFails, EndList,
                Listing, TypeOK
<1>6. ASSUME NEW r \in Requests, NEW p \in Parts, LookupWedges(r, p) PROVE Framed
    BY <1>6 DEF LookupWedges
<1>7. CASE UNCHANGED vars
    BY <1>7 DEF vars
<1>8. Framed
    BY <1>1, <1>2, <1>3, <1>4, <1>5, <1>6, <1>7 DEF Next
<1>9. QED
    BY <1>8

(* What a node that was called is asked for, and its answer, stay as they  *)
(* are.                                                                    *)
LEMMA ChildFrame ==
    ASSUME TypeOK, SentInv, ReadInv, [Next]_vars, NEW r \in Requests, NEW p \in Parts,
           remote[r][p] \in {"calling", "sending"} \/ p \in results[r]
    PROVE  /\ Child(r, p) \in Requests
           /\ status'[Child(r, p)] # "none" /\ Keys(Child(r, p))' = {p}
           /\ status[Child(r, p)] = "ok" =>
                status'[Child(r, p)] = "ok" /\ omitted'[Child(r, p)] = omitted[Child(r, p)]
<1>1. Sound(r) /\ Sent(r)
    BY DEF ReadInv, SentInv
<1>2. Child(r, p) \in Requests
    BY <1>1, ChildType DEF Sent
<1>3. status[Child(r, p)] # "none" /\ Keys(Child(r, p)) = {p}
    BY <1>1 DEF Sound, Called
<1>4. QED
    BY <1>2, <1>3, Frame DEF Keys

(* A step that leaves the request alone leaves what it holds sound. *)
LEMMA Untouched ==
    ASSUME TypeOK, SentInv, ReadInv, [Next]_vars, NEW r \in Requests, op' = op,
           status'[r] = status[r], localKeys'[r] = localKeys[r], remoteKeys'[r] = remoteKeys[r],
           unread'[r] = unread[r], read'[r] = read[r], local'[r] = local[r],
           remote'[r] = remote[r], results'[r] = results[r],
           answer'[r] = answer[r], omitted'[r] = omitted[r]
    PROVE  Sound(r)'
<1>1. Sound(r) /\ Sent(r)
    BY DEF ReadInv, SentInv
<1>2. ASSUME NEW p \in Parts,
             remote[r][p] \in {"calling", "sending"} \/ p \in results[r]
      PROVE  /\ status'[Child(r, p)] # "none" /\ Keys(Child(r, p))' = {p}
             /\ status[Child(r, p)] = "ok" =>
                  status'[Child(r, p)] = "ok" /\ omitted'[Child(r, p)] = omitted[Child(r, p)]
    BY <1>2, ChildFrame
<1>3. Scope(r)' /\ Ended(r)'
    BY <1>1 DEF Sound, Scope, Ended, Keys
<1>4. Called(r)'
    BY <1>1, <1>2 DEF Sound, Called
<1>5. \A p \in Parts : LeftOut(r, p)' <=> LeftOut(r, p)
    BY <1>1, <1>2 DEF LeftOut, Sound, Called
<1>6. Tally(r)'
    BY <1>1, <1>5 DEF Sound, Tally, Getting
<1>7. QED
    BY <1>3, <1>4, <1>6 DEF Sound

(* A request that arrives starts with nothing read and nothing left out. *)
LEMMA ArriveSound ==
    ASSUME TypeOK, SentInv, ReadInv, NEW r \in Requests, NEW n \in Nodes,
           NEW K \in SUBSET Parts, Arrive(r, n, K), op' = op,
           read'[r] = read[r], local'[r] = local[r], remote'[r] = remote[r],
           results'[r] = results[r], answer'[r] = answer[r], omitted'[r] = omitted[r],
           \A p \in K : r # Root => r[1] = p,
           op = "list" => \A p, q \in K : p = q
    PROVE  Sound(r)'
<1>1. Sound(r) /\ Sent(r)
    BY DEF ReadInv, SentInv
<1>2. status[r] = "none" /\ Keys(r) = {} /\ omitted[r] = {} /\ read[r] = {}
    BY <1>1 DEF Arrive, Sound, Scope, Tally, Keys
<1>3. results[r] = {} /\ local[r] = "reading" /\ \A p \in Parts : remote[r][p] = "address"
    BY <1>1, <1>2 DEF Sent, TypeOK
<1>4. /\ status'[r] = "running" /\ unread'[r] = localKeys'[r]
      /\ localKeys'[r] = K \cap holds[n] /\ remoteKeys'[r] = K \ holds[n]
    BY DEF Arrive, TypeOK
<1>5. Scope(r)'
    BY <1>4 DEF Scope, Keys
<1>6. Called(r)'
    BY <1>3 DEF Called
<1>7. Tally(r)'
    BY <1>2, <1>3, <1>4 DEF Tally, LeftOut, Getting
<1>8. Ended(r)'
    BY <1>4 DEF Ended
<1>9. QED
    BY <1>5, <1>6, <1>7, <1>8 DEF Sound

(* What r knows of a node it called: the answer, once it is there, covers  *)
(* the one partition.                                                      *)
LEMMA ChildSound ==
    ASSUME TypeOK, SentInv, ReadInv, NEW r \in Requests, NEW p \in Parts,
           remote[r][p] \in {"calling", "sending"} \/ p \in results[r]
    PROVE  /\ Child(r, p) \in Requests /\ p \in remoteKeys[r]
           /\ status[Child(r, p)] # "none" /\ Keys(Child(r, p)) = {p}
           /\ status[Child(r, p)] = "ok" =>
                /\ answer[Child(r, p)] \cup omitted[Child(r, p)] = {p}
                /\ answer[Child(r, p)] \cap omitted[Child(r, p)] = {}
<1>1. Sound(r) /\ Sent(r)
    BY DEF ReadInv, SentInv
<1>2. Child(r, p) \in Requests
    BY <1>1, ChildType DEF Sent
<1>3. p \in remoteKeys[r]
    BY <1>1, LocalIsNoPartition DEF Sent
<1>4. status[Child(r, p)] # "none" /\ Keys(Child(r, p)) = {p}
    BY <1>1 DEF Sound, Called
<1>5. Ended(Child(r, p))
    BY <1>2 DEF ReadInv, Sound
<1>6. QED
    BY <1>2, <1>3, <1>4, <1>5 DEF Ended

(* A get that ends in success has what its goroutines brought, and they    *)
(* brought or left out each partition.                                     *)
LEMMA RespondSound ==
    ASSUME TypeOK, SentInv, ReadInv, [Next]_vars, NEW r \in Requests, Respond(r)
    PROVE  Ended(r)'
<1> SUFFICES ASSUME ~ Failed(r)
             PROVE  /\ Drained(r) \cup omitted[r] = Keys(r)
                    /\ Drained(r) \cap omitted[r] = {}
    BY DEF Respond, Ended, Keys, TypeOK
<1>1. Sound(r) /\ Sent(r)
    BY DEF ReadInv, SentInv
<1>2. Local \in results[r] /\ unread[r] = {} /\ Getting(r)
    BY <1>1 DEF Respond, AllReturned, Sound, Tally
<1>3. \A p \in remoteKeys[r] : remote[r][p] = "done"
    BY DEF Respond, AllReturned, Failed
<1>4. \A p \in results[r] \ {Local} :
        /\ p \in remoteKeys[r] /\ p \in Parts
        /\ answer[Child(r, p)] \cup omitted[Child(r, p)] = {p}
        /\ answer[Child(r, p)] \cap omitted[Child(r, p)] = {}
    <2>1. \A p \in results[r] \ {Local} : p \in Parts /\ status[Child(r, p)] = "ok"
        BY <1>1 DEF Sound, Called, TypeOK
    <2>2. QED
        BY <2>1, ChildSound
<1>5. \A p : p \in Drained(r) <=>
        p \in read[r] \/ (p \in results[r] \ {Local} /\ p \in answer[Child(r, p)])
    BY <1>2, <1>4 DEF Drained
<1>6. \A p \in Parts : p \in omitted[r] <=> LeftOut(r, p)
    BY <1>1, <1>2 DEF Sound, Tally
<1>7. /\ localKeys[r] \cap remoteKeys[r] = {} /\ read[r] \subseteq localKeys[r]
      /\ Keys(r) = localKeys[r] \cup remoteKeys[r]
      /\ localKeys[r] \subseteq Parts /\ remoteKeys[r] \subseteq Parts /\ omitted[r] \subseteq Parts
    BY <1>1 DEF Sound, Scope, Tally, Keys, TypeOK
<1>8. ASSUME NEW p \in Parts
      PROVE  /\ p \in Drained(r) \cup omitted[r] <=> p \in Keys(r)
             /\ ~ (p \in Drained(r) /\ p \in omitted[r])
    <2>1. p # Local
        BY LocalIsNoPartition
    <2>2. CASE p \in localKeys[r]
        BY <1>2, <1>4, <1>5, <1>6, <1>7, <2>2 DEF LeftOut
    <2>3. CASE p \in remoteKeys[r]
        <3>1. p \notin localKeys[r] /\ p \notin read[r] /\ remote[r][p] = "done"
            BY <1>3, <1>7, <2>3
        <3>2. p \in omitted[r] <=> (p \in results[r] => p \in omitted[Child(r, p)])
            BY <1>6, <2>3, <3>1 DEF LeftOut
        <3>3. p \in Drained(r) <=> p \in results[r] /\ p \in answer[Child(r, p)]
            BY <1>5, <2>1, <3>1
        <3>4. QED
            BY <1>4, <1>7, <2>1, <2>3, <3>2, <3>3
    <2>4. CASE p \notin Keys(r)
        BY <1>4, <1>5, <1>6, <1>7, <2>1, <2>4 DEF LeftOut
    <2>5. QED
        BY <1>7, <2>2, <2>3, <2>4
<1>9. Drained(r) \subseteq Parts
    BY <1>4, <1>5, <1>7
<1>10. QED
    BY <1>7, <1>8, <1>9

(* Every step of a get's own goroutines keeps it sound. *)
LEMMA GetSound ==
    ASSUME TypeOK, SentInv, ReadInv, [Next]_vars, NEW r \in Requests, GetStep(r)
    PROVE  Sound(r)'
<1> USE DEF handlers, goroutines, responses
<1>1. Sound(r) /\ Sent(r)
    BY DEF ReadInv, SentInv
<1>2. /\ UNCHANGED <<op, localKeys, remoteKeys>> /\ Getting(r)
      /\ status'[r] \in {"running", "ok", "error"}
    BY DEF GetStep, SendLocal, LocalSending, Respond, ReadLocal, NoAddress, Reply, CallFails,
           SendRemote, Getting, TypeOK
<1>3. Scope(r)'
    BY <1>1, <1>2 DEF Sound, Scope, Keys
<1>4. ASSUME NEW p \in Parts,
             remote[r][p] \in {"calling", "sending"} \/ p \in results[r]
      PROVE  /\ status'[Child(r, p)] # "none" /\ Keys(Child(r, p))' = {p}
             /\ status[Child(r, p)] = "ok" =>
                  status'[Child(r, p)] = "ok" /\ omitted'[Child(r, p)] = omitted[Child(r, p)]
    BY <1>4, ChildFrame
<1>5. ASSUME \A p \in Parts :
                /\ remote'[r][p] \in {"calling", "sending"} \/ p \in results'[r] =>
                     remote[r][p] \in {"calling", "sending"} \/ p \in results[r]
                /\ remote'[r][p] = "sending" \/ p \in results'[r] => status[Child(r, p)] = "ok"
      PROVE  Called(r)'
    BY <1>4, <1>5 DEF Called
<1>6. \A p \in Parts : remote[r][p] = "sending" \/ p \in results[r] => status[Child(r, p)] = "ok"
    BY <1>1 DEF Sound, Called
<1>7. \A p \in Parts : p \in results[r] => omitted'[Child(r, p)] = omitted[Child(r, p)]
    BY <1>4, <1>6
<1>8. CASE SendLocal(r)
    <2>1. /\ results'[r] = results[r] \cup {Local} /\ local'[r] = "done" /\ unread[r] = {}
          /\ UNCHANGED <<status, unread, read, remote, answer, omitted>>
        BY <1>8 DEF SendLocal, LocalSending, TypeOK
    <2>2. \A p \in Parts : p \in results'[r] <=> p \in results[r]
        BY <2>1, LocalIsNoPartition
    <2>3. Called(r)'
        BY <1>5, <1>6, <2>1, <2>2
    <2>4. \A p \in Parts : LeftOut(r, p)' <=> LeftOut(r, p)
        BY <1>2, <1>7, <2>1, <2>2 DEF LeftOut
    <2>5. Tally(r)'
        BY <1>1, <1>2, <2>1, <2>4 DEF Sound, Tally, Getting
    <2>6. QED
        BY <1>1, <1>2, <1>3, <2>1, <2>3, <2>5 DEF Sound, Ended, Getting
<1>9. CASE Respond(r)
    <2>1. UNCHANGED <<unread, read, local, remote, results>> /\ status'[r] \in {"ok", "error"}
        BY <1>9 DEF Respond, TypeOK
    <2>2. Called(r)'
        BY <1>5, <1>6, <2>1
    <2>3. Tally(r)'
        BY <1>1, <1>2, <2>1 DEF Sound, Tally, Getting
    <2>4. QED
        BY <1>3, <1>9, <2>2, <2>3, RespondSound DEF Sound
<1>10. ASSUME NEW p \in Parts, ReadLocal(r, p) PROVE Sound(r)'
    <2>1. /\ p \in unread[r] /\ unread'[r] = unread[r] \ {p}
          /\ UNCHANGED <<status, local, remote, results, answer>>
          /\ \/ read'[r] = read[r] \cup {p} /\ omitted' = omitted
             \/ read' = read /\ omitted'[r] = omitted[r] \cup {p}
        BY <1>10 DEF ReadLocal, TypeOK
    <2>2. Called(r)'
        BY <1>5, <1>6, <2>1
    <2>3. p \in localKeys[r] /\ p \notin read[r] /\ p \notin remoteKeys[r]
        BY <1>1, <2>1 DEF Sound, Tally, Scope
    <2>4. \A s \in Parts \ {p} : LeftOut(r, s)' <=> LeftOut(r, s)
        BY <1>2, <1>7, <2>1 DEF LeftOut
    <2>5. LeftOut(r, p)' <=> p \notin read'[r]
        BY <1>2, <2>1, <2>3 DEF LeftOut
    <2>6. p \notin omitted[r]
        BY <1>1, <1>2, <2>1, <2>3 DEF Sound, Tally, LeftOut
    <2>7. Tally(r)'
        <3>1. local[r] = "reading"
            BY <1>1, <2>1 DEF Sound, Tally, TypeOK
        <3>2. \A s \in Parts : s \in omitted'[r] <=> LeftOut(r, s)'
            BY <1>1, <1>2, <2>1, <2>3, <2>4, <2>5, <2>6 DEF Sound, Tally
        <3>3. QED
            BY <1>1, <1>2, <2>1, <2>3, <3>1, <3>2 DEF Sound, Tally
    <2>8. QED
        BY <1>2, <1>3, <2>1, <2>2, <2>7 DEF Sound, Ended, Getting
<1>11. ASSUME NEW p \in Parts, NoAddress(r, p) PROVE Sound(r)'
    <2>1. /\ p \in remoteKeys[r] /\ remote[r][p] = "address" /\ remote'[r][p] = "done"
          /\ \A s \in Parts \ {p} : remote'[r][s] = remote[r][s]
          /\ omitted'[r] = omitted[r] \cup {p}
          /\ UNCHANGED <<status, unread, read, local, results, answer>>
        BY <1>11 DEF NoAddress, TypeOK
    <2>2. p \notin results[r]
        BY <1>1, <2>1 DEF Sent
    <2>3. Called(r)'
        BY <1>5, <1>6, <2>1
    <2>4. \A s \in Parts \ {p} : LeftOut(r, s)' <=> LeftOut(r, s)
        BY <1>2, <1>7, <2>1 DEF LeftOut
    <2>5. LeftOut(r, p)'
        BY <1>2, <2>1, <2>2 DEF LeftOut
    <2>6. Tally(r)'
        BY <1>1, <1>2, <2>1, <2>4, <2>5 DEF Sound, Tally, Getting
    <2>7. QED
        BY <1>2, <1>3, <2>1, <2>3, <2>6 DEF Sound, Ended, Getting
<1>12. ASSUME NEW p \in Parts, Reply(r, p) \/ CallFails(r, p) PROVE Sound(r)'
    <2>1. /\ remote[r][p] = "calling" /\ remote'[r][p] \in {"sending", "failed"}
          /\ remote'[r][p] = "sending" => status[Child(r, p)] = "ok"
          /\ \A s \in Parts \ {p} : remote'[r][s] = remote[r][s]
          /\ UNCHANGED <<status, unread, read, local, results, answer, omitted>>
        BY <1>12 DEF Reply, CallFails, TypeOK
    <2>2. Called(r)'
        BY <1>5, <1>6, <2>1
    <2>3. \A s \in Parts : LeftOut(r, s)' <=> LeftOut(r, s)
        BY <1>2, <1>7, <2>1 DEF LeftOut
    <2>4. Tally(r)'
        BY <1>1, <1>2, <2>1, <2>3 DEF Sound, Tally, Getting
    <2>5. QED
        BY <1>2, <1>3, <2>1, <2>2, <2>4 DEF Sound, Ended, Getting
<1>13. ASSUME NEW p \in Parts, SendRemote(r, p) PROVE Sound(r)'
    <2>1. /\ remote[r][p] = "sending" /\ remote'[r][p] = "done"
          /\ \A s \in Parts \ {p} : remote'[r][s] = remote[r][s]
          /\ results'[r] = results[r] \cup {p}
          /\ omitted'[r] = omitted[r] \cup omitted[Child(r, p)]
          /\ UNCHANGED <<status, unread, read, local, answer>>
        BY <1>13 DEF SendRemote, TypeOK
    <2>2. Called(r)'
        BY <1>5, <1>6, <2>1
    <2>3. /\ status[Child(r, p)] = "ok" /\ omitted'[Child(r, p)] = omitted[Child(r, p)]
          /\ omitted[Child(r, p)] \subseteq {p} /\ p \in remoteKeys[r]
        BY <1>4, <1>6, <2>1, ChildSound
    <2>4. p \notin localKeys[r]
        BY <1>1, <2>3 DEF Sound, Scope
    <2>5. \A s \in Parts \ {p} : LeftOut(r, s)' <=> LeftOut(r, s)
        BY <1>2, <1>7, <2>1 DEF LeftOut
    <2>6. LeftOut(r, p)' <=> p \in omitted[Child(r, p)]
        BY <1>2, <2>1, <2>3, <2>4 DEF LeftOut
    <2>7. p \notin omitted[r]
        BY <1>1, <1>2, <2>1, <2>4 DEF Sound, Tally, LeftOut
    <2>8. Tally(r)'
        <3>1. \A s \in Parts : s \in omitted'[r] <=> LeftOut(r, s)'
            BY <1>1, <1>2, <2>1, <2>3, <2>5, <2>6, <2>7 DEF Sound, Tally
        <3>2. QED
            BY <1>1, <1>2, <2>1, <3>1 DEF Sound, Tally
    <2>9. QED
        BY <1>2, <1>3, <2>1, <2>2, <2>8 DEF Sound, Ended, Getting
<1>14. QED
    BY <1>8, <1>9, <1>10, <1>11, <1>12, <1>13 DEF GetStep

(* A list that ends has the records of its one partition or has left it    *)
(* out.                                                                    *)
LEMMA ListSound ==
    ASSUME TypeOK, SentInv, ReadInv, [Next]_vars, NEW r \in Requests, ListStep(r)
    PROVE  Sound(r)'
<1> USE DEF handlers, goroutines, responses
<1>1. Sound(r) /\ Sent(r)
    BY DEF ReadInv, SentInv
<1>2. PICK p \in Parts :
        ListLocal(r, p) \/ ListNoAddress(r, p) \/ ListReply(r, p) \/ ListCallFails(r, p)
    BY DEF ListStep
<1>3. /\ UNCHANGED <<op, localKeys, remoteKeys, unread, read, local, remote, results>>
      /\ Listing(r) /\ status'[r] \in {"ok", "error"} /\ p \in Keys(r)
    BY <1>2 DEF ListLocal, ListNoAddress, ListReply, ListCallFails, EndList, Keys, TypeOK
<1>4. Keys(r) = {p}
    BY <1>1, <1>3 DEF Sound, Scope, Listing
<1>5. Scope(r)' /\ Tally(r)'
    BY <1>1, <1>3 DEF Sound, Scope, Tally, Keys, Getting, Listing
<1>6. Called(r)'
    <2>1. ASSUME NEW s \in Parts,
                 remote[r][s] \in {"calling", "sending"} \/ s \in results[r]
          PROVE  /\ status'[Child(r, s)] # "none" /\ Keys(Child(r, s))' = {s}
                 /\ status[Child(r, s)] = "ok" => status'[Child(r, s)] = "ok"
        BY <2>1, ChildFrame
    <2>2. \A s \in Parts : remote[r][s] = "sending" \/ s \in results[r] => status[Child(r, s)] = "ok"
        BY <1>1 DEF Sound, Called
    <2>3. QED
        BY <1>3, <2>1, <2>2 DEF Called
<1>7. Ended(r)'
    <2>1. ASSUME status'[r] = "ok"
          PROVE  answer'[r] \cup omitted'[r] = {p} /\ answer'[r] \cap omitted'[r] = {}
        <3>1. CASE ListLocal(r, p)
            BY <2>1, <3>1 DEF ListLocal, EndList, TypeOK
        <3>2. CASE ListNoAddress(r, p)
            BY <2>1, <3>2 DEF ListNoAddress, EndList, TypeOK
        <3>3. CASE ListReply(r, p)
            <4>1. /\ answer[Child(r, p)] \cup omitted[Child(r, p)] = {p}
                  /\ answer[Child(r, p)] \cap omitted[Child(r, p)] = {}
                BY <3>3, ChildSound DEF ListReply
            <4>2. answer'[r] = answer[Child(r, p)] /\ omitted'[r] = omitted[Child(r, p)]
                BY <3>3 DEF ListReply, EndList, TypeOK
            <4>3. QED
                BY <4>1, <4>2
        <3>4. CASE ListCallFails(r, p)
            BY <2>1, <3>4 DEF ListCallFails, EndList, TypeOK
        <3>5. QED
            BY <1>2, <3>1, <3>2, <3>3, <3>4
    <2>2. QED
        BY <1>3, <1>4, <2>1 DEF Ended, Keys
<1>8. QED
    BY <1>5, <1>6, <1>7 DEF Sound

(* Calling another node asks it for the one partition. *)
LEMMA CallSound ==
    ASSUME TypeOK, SentInv, ReadInv, [Next]_vars, NEW r \in Requests,
           NEW p \in Parts, NEW n \in Nodes, Call(r, p, n)
    PROVE  Sound(r)' /\ Sound(Child(r, p))'
<1> USE DEF handlers, goroutines, responses
<1>1. Sound(r) /\ Sent(r)
    BY DEF ReadInv, SentInv
<1>2. Child(r, p) \in Requests /\ Child(r, p) # r
    BY ChildType DEF Call, Arrive
<1>3. /\ Arrive(Child(r, p), n, {p}) /\ UNCHANGED <<op, read, local, results, answer, omitted>>
      /\ remote[r][p] = "address" /\ remote'[r][p] = "calling"
      /\ \A s \in Parts \ {p} : remote'[r][s] = remote[r][s]
      /\ remote'[Child(r, p)] = remote[Child(r, p)] /\ p \in remoteKeys[r]
    BY <1>2 DEF Call, TypeOK
<1>4. Child(r, p)[1] = p
    BY DEF Child
<1>5. Sound(Child(r, p))'
    <2>1. PICK c \in Requests : c = Child(r, p)
        BY <1>2
    <2>2. Sound(c)'
        BY <1>3, <1>4, <2>1, ArriveSound
    <2>3. QED
        BY <2>1, <2>2
<1>6. /\ status'[r] = status[r] /\ localKeys'[r] = localKeys[r]
      /\ remoteKeys'[r] = remoteKeys[r] /\ unread'[r] = unread[r]
    BY <1>2, <1>3 DEF Arrive, TypeOK
<1>7. Scope(r)' /\ Ended(r)'
    BY <1>1, <1>3, <1>6 DEF Sound, Scope, Ended, Keys
<1>8. ASSUME NEW s \in Parts,
             remote[r][s] \in {"calling", "sending"} \/ s \in results[r]
      PROVE  /\ status'[Child(r, s)] # "none" /\ Keys(Child(r, s))' = {s}
             /\ status[Child(r, s)] = "ok" =>
                  status'[Child(r, s)] = "ok" /\ omitted'[Child(r, s)] = omitted[Child(r, s)]
    BY <1>8, ChildFrame
<1>9. status'[Child(r, p)] = "running" /\ Keys(Child(r, p))' = {p}
    BY <1>2, <1>3 DEF Arrive, Keys, TypeOK
<1>10. p \notin results[r]
    BY <1>1, <1>3 DEF Sent
<1>11. Called(r)'
    BY <1>1, <1>3, <1>8, <1>9, <1>10 DEF Sound, Called
<1>12. \A s \in Parts : LeftOut(r, s)' <=> LeftOut(r, s)
    BY <1>3, <1>6 DEF LeftOut
<1>13. Tally(r)'
    BY <1>1, <1>3, <1>6, <1>12 DEF Sound, Tally, Getting
<1>14. QED
    BY <1>5, <1>7, <1>11, <1>13 DEF Sound

(* A lookup that never returns changes nothing that was sent or left out. *)
LEMMA WedgeSound ==
    ASSUME TypeOK, SentInv, ReadInv, [Next]_vars, NEW r \in Requests,
           NEW p \in Parts, LookupWedges(r, p)
    PROVE  Sound(r)'
<1> USE DEF handlers, goroutines, responses
<1>1. Sound(r) /\ Sent(r)
    BY DEF ReadInv, SentInv
<1>2. /\ remote[r][p] = "address" /\ remote'[r][p] = "wedged"
      /\ \A s \in Parts \ {p} : remote'[r][s] = remote[r][s]
      /\ UNCHANGED <<op, status, localKeys, remoteKeys, unread, read, local, results,
                     answer, omitted>>
    BY DEF LookupWedges, TypeOK
<1>3. p \notin results[r]
    BY <1>1, <1>2 DEF Sent
<1>4. Scope(r)' /\ Ended(r)'
    BY <1>1, <1>2 DEF Sound, Scope, Ended, Keys
<1>5. Called(r)'
    BY <1>1, <1>2, <1>3 DEF Sound, Called, Keys
<1>6. \A s \in Parts : LeftOut(r, s)' <=> LeftOut(r, s)
    BY <1>2, <1>3 DEF LeftOut
<1>7. Tally(r)'
    BY <1>1, <1>2, <1>6 DEF Sound, Tally, Getting
<1>8. QED
    BY <1>4, <1>5, <1>7 DEF Sound

(* Every step keeps every request sound. *)
LEMMA ReadStep == TypeOK /\ SentInv /\ ReadInv /\ [Next]_vars => ReadInv'
<1> SUFFICES ASSUME TypeOK, SentInv, ReadInv, [Next]_vars, NEW r \in Requests
             PROVE  Sound(r)'
    BY DEF ReadInv
<1> USE DEF handlers, goroutines, responses
<1>1. ASSUME NEW n \in Nodes, NEW p \in Parts, Move(n, p) PROVE Sound(r)'
    BY <1>1, Untouched DEF Move
<1>2. ASSUME NEW n \in Nodes, NEW K \in SUBSET Parts, Receive(n, K) PROVE Sound(r)'
    <2>1. CASE r = Root
        <3>1. IsFiniteSet(K)
            BY NodesAndParts, FS_Subset
        <3>2. op = "list" => \A p, q \in K : p = q
            BY <1>2, <3>1, FS_Singleton DEF Receive
        <3>3. QED
            BY <1>2, <2>1, <3>2, ArriveSound DEF Receive
    <2>2. CASE r # Root
        BY <1>2, <2>2, Untouched DEF Receive, Arrive, TypeOK
    <2>3. QED
        BY <2>1, <2>2
<1>3. ASSUME NEW q \in Requests, NEW p \in Parts, NEW n \in Nodes, Call(q, p, n) PROVE Sound(r)'
    <2>1. CASE r = q \/ r = Child(q, p)
        BY <1>3, <2>1, CallSound
    <2>2. CASE r # q /\ r # Child(q, p)
        BY <1>3, <2>2, Untouched DEF Call, Arrive, TypeOK
    <2>3. QED
        BY <2>1, <2>2
<1>4. ASSUME NEW q \in Requests, GetStep(q) \/ ListStep(q) PROVE Sound(r)'
    <2>1. CASE q = r
        BY <1>4, <2>1, GetSound, ListSound
    <2>2. CASE q # r
        <3>1. CASE GetStep(q)
            BY <2>2, <3>1, Untouched
               DEF GetStep, SendLocal, Respond, ReadLocal, NoAddress, Reply, CallFails,
                   SendRemote, TypeOK
        <3>2. CASE ListStep(q)
            BY <2>2, <3>2, Untouched
               DEF ListStep, ListLocal, ListNoAddress, ListReply, ListCallFails, EndList, TypeOK
        <3>3. QED
            BY <1>4, <3>1, <3>2
    <2>3. QED
        BY <2>1, <2>2
<1>5. ASSUME NEW q \in Requests, NEW p \in Parts, LookupWedges(q, p) PROVE Sound(r)'
    <2>1. CASE q = r
        BY <1>5, <2>1, WedgeSound
    <2>2. CASE q # r
        BY <1>5, <2>2, Untouched DEF LookupWedges, TypeOK
    <2>3. QED
        BY <2>1, <2>2
<1>6. CASE UNCHANGED vars
    BY <1>6, Untouched DEF vars
<1>7. QED
    BY <1>1, <1>2, <1>3, <1>4, <1>5, <1>6 DEF Next

LEMMA ReadsInvariant == Spec => [](TypeOK /\ SentInv /\ ReadInv)
<1>1. Init => TypeOK /\ SentInv /\ ReadInv
    BY BoundsType DEF Init, TypeOK, SentInv, Sent, ReadInv, Sound, Scope, Called, Tally, Ended,
                      Keys, Getting
<1>2. TypeOK /\ SentInv /\ ReadInv /\ [Next]_vars => (TypeOK /\ SentInv /\ ReadInv)'
    BY NextTyped, SentStep, ReadStep
<1>3. QED
    BY <1>1, <1>2, PTL DEF Spec

(* The maps, goroutines and answers of every request keep their types. *)
THEOREM ReadsTyped == Spec => []TypeOK
BY ReadsInvariant, PTL

(* A read that is answered with success has, at every hop, the records of  *)
(* each partition it was asked for, or left the partition out in one of    *)
(* the four places of Complete: no address, a partition not loaded, an     *)
(* error of its ReadRecords lost in the loop, an error of a list's call    *)
(* lost in the block.  The failed call of a get always shows in the status *)
(* and what a goroutine has sent is never lost (handleGet, handleList,     *)
(* ReadRecords).                                                           *)
THEOREM ReadsAreComplete == Spec => []Complete
<1>1. ReadInv => Complete
    BY DEF ReadInv, Sound, Ended, Complete
<1>2. QED
    BY <1>1, ReadsInvariant, PTL
=============================================================================
