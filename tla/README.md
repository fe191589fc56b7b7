# FireScroll in TLA+

A verification project for FireScroll, a key-value store whose writes go to a
Kafka topic and whose nodes materialise the partitions of that topic into local
badger databases. The modules model what the Go code does, TLC checks them on
small instances, and TLAPS proves the central results for every instance.

## The system

| Component | State | Operations | Talks to |
|---|---|---|---|
| `log_consumer` (LogConsumer) | Kafka client (positions, paused partitions), `Ready` | `topicInfoLoop` every 2 s, `pollRecords` in a loop | broker; PartitionManager |
| `partitions` (PartitionManager) | map of open partitions | Add, Remove, HandleMutation, Read, List, Shutdown | called by LogConsumer, API, gossip, main |
| `partitions` (Partition) | badger rows, `LastOffsetKey` row, `LastOffset`, `closeChan`, `BackupWg` | `handlePut`, `handleDelete`, reads, gc loop, backup loop | S3 |
| `partitions/if.go` | none | compile and run an `if` statement | expr engine |
| `partitions/backup.go` | objects in S3 named after an offset | `runBackup`, `checkAndRestoreFromS3` | S3, badger |
| `api` | none | put, delete (produce), get, list (local, or proxied) | broker, PartitionManager, gossip, other nodes |
| `gossip` | partition -> addresses | advertise, NotifyMsg, NotifyLeave, random address | memberlist, PartitionManager |
| `utils` | none | Murmur2, `GetPartition` | API |
| `main` | none | start, stop on a signal | all |

What is hard here: two goroutines of a node share the Kafka client and the map
of partitions and are ordered by nothing but their calls; assignments change at
any moment and are learnt by polling; a crash leaves directories behind that a
restart trusts; conditional mutations make a repeated or skipped record show for
good; goroutines are stopped by tokens in a channel of fixed size; a read fans
out into goroutines and other nodes and collects the answers in a channel of
fixed size; gossip views lag. `PROJECT.json` lists these hazards line by line.

## Modules

| Module | Models |
|---|---|
| `Records` | one mutation on the rows of a partition: `handlePut`, `handleDelete`, `if` verdicts, the offset written with them |
| `MaterialisedLog` | abstract store: a copy of a partition is a prefix of its log, materialised, until it is dropped or lost |
| `LogConsumer` | one replica group: topic, consumer group, `topicInfoLoop`, `pollRecords`, crash and restart |
| `PartitionLifecycle` | gc loop, backup loop, `closeChan`, RemovePartition, shutdown by main |
| `Reads` | get and list, local and proxied, with moving partitions |
| `Backups` | what backups contain and are named, restores, retention, crashes in between |
| `Gossip` | one node's map of its peers' partitions: advertisements, joins, leaves, lookups |
| `Namespace` | the agreement on the number of partitions, mutation requests, the two partitioners |
| `MCLogConsumer`, `MCPartitionLifecycle`, `MCReads`, `MCBackups`, `MCGossip`, `MCNamespace` | the instances TLC checks |
| `RecordsProofs` | lemmas about `Records`: what a mutation does to a row |
| `LogConsumerProofs`, `MaterialisedProofs` | theorems about `LogConsumer`: what holds of every copy, and of every copy that met no fault |
| `LifecycleProofs`, `ReadsProofs`, `BackupsProofs`, `GossipProofs`, `NamespaceProofs` | theorems about the module of that name (`PartitionLifecycle` for the first) |

### Records and LogConsumer

A row is `[data, created, updated]` or `Absent`; a key stands for (pk, sk). An
outcome is `"true"` (rows and offset written), `"false"` (the condition does not
hold: offset only), `"skip"` (a conditional delete of a missing row returns
before the offset is written) or `"error"` (transaction rolled back). The
expression engine is the constant operator `CompareIfStatement`.

`topicInfoLoop` is cut where it calls out, and its local variables are kept in
`news`, `gones`, `reset`: DescribeGroups, PauseFetchPartitions, AddPartition (one
goroutine per partition), SetOffsets, ResumeFetchPartitions (which also sets
`Ready`), RemovePartition and DeletePartition. `pollRecords` is PollRecords,
then one HandleRecord or FailRecord per record, the partitions of a batch in any
order. A batch that is polled and not handled is `fetched`. `disk` survives
Crash. `states` is a history variable: the rows after every prefix of the log,
which is what a copy is compared with. The group runs without `S3_RESTORE`:
`Opened` is `newPartition` up to line 109, and the restore behind it is in
`Backups`.

External: Assign and Revoke (group coordinator), JoinGroup and AutoCommit (the
franz-go client; auto-commit is left on). `BackupEnabled` guards DeletePartition
because the second Shutdown inside `delete()` only gets through with backups on,
which is what PartitionLifecycle shows.

**Faults.** Nothing orders the two goroutines, the coordinator and the client
but the calls they make, and an error is logged and forgotten. Four events cost
a copy records of its log, for good, because nothing in the code notices or
repairs them. The actions admit them whenever the code does; the history variable
`faults` notes that one happened to a copy, from the event alone and never from
the rows:

| Name | What happens | Where |
|---|---|---|
| `staleBatch` | AddPartition stores the partition while a batch polled before the pause is unhandled: it is applied to the freshly opened copy | `partition_manager.go:45`, `log_consumer.go:383` |
| `unrewound` | the client takes up a partition that is open already, at the committed offset, and no SetOffsets is to come: it joined after SetOffsets ran, or lost the partition and got it back between two ticks | `log_consumer.go:293`, `:343` |
| `fetchError` | an error of one partition's fetch makes `pollRecords` return; the records fetched for the others are dropped, their positions have moved | `log_consumer.go:384` |
| `failedRecord` | an error of a record ends the partition's goroutine with records of the batch behind it | `log_consumer.go:404` |

What the project says of them: a copy without a mark is exact, so no *other*
interleaving, crash or rebalance costs records (Materialised, Implements,
CatchesUp). A marked copy still has its offsets within the log and only rows
that were written (OffsetsInLog, RowsWereWritten). The mark goes with the
directory, in DeletePartition. Each mark is needed: without it InductiveInv has a
counterexample in the run `rebalance`. That the fourth contradicts the
documentation is the run `failing_if`; of the other three the documents say
nothing.

A member that has no partition left returns from `topicInfoLoop` before the
difference is taken. It is no longer ready and keeps its copies. This is in the
model, and two properties say how far the code goes: StaleCopiesRemoved is about
nodes that keep some partition, and deletes only what was open (a directory left
behind by a crash is never looked at, unless the partition comes back);
EventuallyReady is about partitions the node has not open when it gets them. An
idle member that gets back a partition it never dropped is not ready again.

### PartitionLifecycle

One variable per goroutine and one program counter per caller (`removal` for
RemovePartition, `halt` for the Shutdown main calls). `closeChan` is the number
of tokens in it. `BackupWg.Wait` is the state `"waiting"`, which BackupEnd
leaves. A dump ends only while the upload reads, because the two are joined by
an unbuffered pipe; a failed upload does not close the pipe.

### Reads

A request is handled on one node; a request proxied h times for partition p is
`<<p, h>>`. Records are represented by their partition, so an answer is a set of
partitions. Gossip is any address or none. `omitted` is a history variable: the
partitions left out of an answer without an error. There are four such places:
no address; a local partition gone from the map since the keys were split; a
local read that fails, since the `err` of the loop in `pm.ReadRecords` shadows
the returned one (`partition_manager.go:141`); and in a list the error of the
proxied call, lost the same way (`handler.go:266`). The first two look intended,
the others do not; Complete shows that in the model there is no fifth.

`LookupWedges` is the deadlock of `Gossip`, seen from the handler: the lookup of
an address never returns, and no context ends it. It has no fairness and may
strike any lookup. A handler whose own lookup is wedged does not answer, so
AnsweredIfLocal and Answered assume that the lookups of the client's handler
return (`LookupsReturn`); those of the nodes it calls need not.

### Backups

One partition, and the nodes that ever open it. `UpdateOffsetInTx` and `Commit`
are apart because `LastOffset` is set inside the transaction and `runBackup`
reads it without a lock. `runBackup` is StartBackup (the name is chosen),
Snapshot (`DB.Backup`), then Upload, UploadCut or UploadFails. A restore is
`getLatestBackupOffset`, `DB.Load` over what the directory holds, and the reset
of the client behind the *name* of the object. A copy is `[kv, off, sure,
clean]`: the rows and the `LastOffsetKey` row, and two history fields. `sure` is
the offset up to which a copy may replay records it already contains. `clean`
becomes FALSE at eight places, each named by what happens there and not by what
it does to the rows:

| | What happens | Where |
|---|---|---|
| 1 | a cell of the dump loses against the one in the directory, which has the higher badger version because its node replayed records | `backup.go:147` |
| 2 | the process ends in the middle of `DB.Load`: some cells are not loaded, and the directory then looks restored | `backup.go:147` |
| 3 | the directory has a row for which the dump has no cell (it was deleted and its tombstone compacted), and it survives: "deleting local DB" says the log message, and nothing deletes it | `backup.go:130` |
| 4 | the name is taken from a transaction that has not committed, so the object lacks the record it is named after | `partition.go:395` |
| 5 | the object holds more than its name says; a conditional mutation in between is judged again, on later rows | `backup.go:52` |
| 6 | the position lies before the start of the log and the client goes on behind the gap; the check is commented out | `partition_manager.go:63` |
| 7 | `DB.Backup` fails or is closed under, `pw.Close` makes it look complete | `backup.go:56` |
| 8 | a record that fails ends its batch, and the records behind it are lost | `log_consumer.go:404` |

A copy or object that passed none of them follows the log, and one that replays
unconditional mutations is exact again once the replay is over: that is what the
run checks and the proof shows, for what the module models. It is not a claim
about the parts taken as external (what S3 and badger may do beyond what is said
below) or about the faults of `LogConsumer` that are not repeated here (stale
batches, joins and fetch errors). A restore stays clean when the directory was
empty or held an earlier prefix of the same rows, all of them in the dump, and
its result is then checked against the log like any other. Without the mark of
3, 4, 5, 6, 7 or 8, or of 1 and 2, which share a conjunct of `Restored`, there is
a counterexample within the bounds. Place 3 contradicts what the code says of
itself: the run `restore_over_directory`.

External: badger (a dump is one snapshot; `Load` keeps versions) and S3 (an
object appears at once). Retention drops only what a backup covers and does not
overtake a node that consumes: that is how the README wants it set.

### Gossip

The maps of different nodes share nothing, so there is one observer. An
advertisement is handled in up to three critical sections of `remotePartMu`
(Diff, Remove, Add), a leave in one. Between them other goroutines run: this is
where differences become stale. `Added` is the early return of
`addRemotePartitions`, which stops at the first partition it makes a key for.
The address lists are sets: `lo.Filter` removes all duplicates of an address and
lookups pick from the list at random. `LocalState`, `MergeRemoteState` and
`NodeMeta` exchange a map that is always empty.

`transit[m]` is a set of advertisements any of which may be delivered, again or
never. `Wedged` is the deadlock of `GetRandomRemotePartition`: it holds the read
lock and takes it a second time while a writer waits. It can happen, and nothing
ends it; the liveness properties are stated for the behaviours in which it does
not. A node that died can be put back for good by an advertisement that is
handled after its leave. The message at `main.go:96` ("other nodes might take
some extra time to evict this node but otherwise it's fine") does not think of
that; the hypothesis of `GoneEvicted` excludes it.

### Namespace

`NewLogConsumer` polls the partitions topic for less than half a second, so it
may miss what is there, publishes, polls again, and compares its PARTITIONS with
the first record it gets. Requests arrive only at nodes that have started. A
mutation request is cut into groups by `GetPartition`, each produced by its own
goroutine; records of one group and one target are appended in order, those of
different groups in any order. A crash of the node leaves a request half
produced. Hashes are given by the constant `Hash`, and `HighBit` stands for
2^31; what matters is whether it is set.

## Runs

| Run | Instance | Shows |
|---|---|---|
| `rebalance` | 2 nodes, 1 partition, 2 records (a put, a put whose `if` may fail), batches of 2, 1 crash, 1 rebalance | TypeOK, Materialised, InductiveInv, OffsetsInLog, RowsWereWritten, OpenAndFlowing, Implements |
| `liveness` | 1 node, 2 partitions, 1 record (a put or a conditional delete), 1 crash, 1 rebalance, fairness | Implements, CatchesUp, StaleCopiesRemoved, EventuallyReady |
| `failing_if` | 1 node, 1 partition, 2 records, an `if` that fails at run time | violates CatchesUpPastErrors |
| `lifecycle` | 1 partition, backups on, fairness | TypeOK, NoStrayGoroutines, TokensInv, RemovalEnds, ShutdownEnds, GCProceeds |
| `lifecycle_no_backups` | the same with backups off | violates RemovalEnds |
| `reads` | 2 nodes, 2 partitions, 2 hops, 1 move, fairness | TypeOK, SendsFit, Complete, AnsweredIfLocal |
| `reads_all_remote` | the same without moves | violates Answered |
| `backups` | 2 nodes, 1 key, 4 records, 2 backups, crashes or removals | TypeOK, CopiesFollowLog, NoHole, NothingExpired |
| `restore_over_directory` | the same | violates RestoreReplaces |
| `gossip` | 1 peer, 2 partitions, 2 handlers, 1 lookup, 1 change among the peers, fairness | TypeOK, KeptListed, AddressesAppear, AddressesDisappear, GoneEvicted |
| `namespace` | 2 nodes that may differ in PARTITIONS (2 or 3), 2 requests with a key in common, 1 restart | TypeOK, OneCount, KeyOrder, RoutedIfMatching |
| `routing` | 1 node, 3 partitions, 1 request | violates Routed |

Bounds. Two records are enough for a repeated, a skipped, a reordered and a lost
record to show in the rows (`put x`, then `put y` with an `if` that fails on a
missing row); in `rebalance` a constraint leaves out the logs that have the same
record twice. In `rebalance` both nodes want the one partition, so every way to
lose it and get it back is there; a member with and one without partitions
are both reached. In `liveness` records go to one partition and the other is
there so that a node can lose the first and keep an assignment, and a fetch
error of one can take the other's records; with one record a batch has one.
One crash and one rebalance meet every step of the loop; the theorems remove all
of these bounds for the safety properties. Node symmetry is used only in runs
without liveness properties (`rebalance` and `restore_over_directory` check
safety properties as PROPERTY, for which it is sound). In `reads` the nodes are
interchangeable and the arrival of the client's request is not a fair action, so
an action constraint has the client ask one of them: every behaviour is such a
one with the nodes renamed, and TLC does no symmetry reduction under liveness. The
goroutines of two partitions share nothing but the sequential callers, so
`lifecycle` has one. Two events are enough for a backup and the crash, removal
or second backup that meets it, and four records for a replay that starts in the
middle of the log. Peers touch the observer's map
only in entries of their own, except that they make keys for each other, so
`gossip` has one peer; two handlers are enough for one to overtake the other.
`MaxChanges` bounds moves, stops and false alarms, not advertisements,
deliveries or losses. Two requests are enough for an order between them, three
records for two of one key with another between them. Deadlock checking is off
where the system ends: main returns, the requests are answered, or the bounds on
records and events are used up.

Fairness. Each goroutine of a running process is scheduled (WF), the client
takes up what it is assigned, uploads and collections end, a call ends at the
latest with its context (`NewTimeoutMiddleware`). A lookup of an address may
wedge instead of going on. A `select` with a tick and a
token ready picks either at random, so the token is taken in the end (SF on
BackupExit, whose ticker nothing stops). No fairness on writes, crashes,
restarts, rebalances, ticks, failures or signals. In `gossip` the ticker ticks
(WF on Advertise), handlers and lookups run, an advertisement has a limited number
of transmissions (WF on Exhaust). What is advertised again and again is delivered
again and again (SF on NotifyMsg), because memberlist picks targets at random.
NotifyLeave is SF too since the slots for handlers are a bound of the model that
the code does not have.

The properties with a hypothesis say when the code keeps its promise:
RemovalEnds and GCProceeds need uploads that do not fail, ShutdownEnds that no
removal overlaps the shutdown, AnsweredIfLocal a local partition and lookups
that return, CatchesUp a copy that met no fault, StaleCopiesRemoved a node that
keeps some partition, EventuallyReady a partition that was not open, the three
of `gossip` that no lookup is wedged, GoneEvicted also that nothing of the peer
is under way while it is not a member, RoutedIfMatching that PARTITIONS is the
number the topic has and divides the highest bit of a hash, so is a power of
two. Without the hypothesis each of them fails in the model. NothingExpired
names its exception: an object named after offset 0 is never found.

Findings (details in `PROJECT.json`): a failing `if` loses the rest of its batch
and makes replicas differ; without `BACKUP=1` the first removal of a partition
hangs `topicInfoLoop`; a get whose partitions are all remote is never answered;
a restore does not delete the local database it says it deletes, so a row that
was deleted can come back; with a number of partitions that is no power of two,
reads look for some keys in another partition than the one the producer puts
them in.

## Proofs

All constants are arbitrary, subject to the named ASSUMEs of the modules: sizes
and bounds are numbers, the values that stand for nothing (`NoDB`, `Absent`,
`Nobody`, `NoObject`, ...) are none of the values they stand beside, the
expression engine returns a verdict. Every invariant and every action property of
a passing run is a theorem; the type invariant of each module is proved along
with its inductive invariant.

- `LogConsumerProofs`: `TypeCorrect`,
  `OffsetsStayInLog`, `AlwaysOpenAndFlowing`, by induction on their conjunction
  `SafeInv`; the last two need each other's typing only. `RowsComeFromPuts` adds
  RowsWereWritten to it: any record of the log, in or out of turn, leaves rows
  that were written, and the records a node has polled are in the log.
- `MaterialisedProofs`: no timing and no failing statement is excluded; the
  faults are in the statements, as marks of single copies. `Materialised` is not
  inductive: a record is applied to whatever the copy holds, so one has to know
  that the next record of the batch, or of the client's position, is the one
  behind the rows of the copy. `InductiveInv` says that of every copy without a
  fault: between opening it and SetOffsets the partition is paused and has no
  batch under way; afterwards client, batch and copy are at the same record. The
  checkpoint may lag behind the rows because of skipped deletes; `Applied`
  separates the two. `GroupImplementsStore` maps `states` to `history` and
  `disk` to `replica`, with `Lost` for a copy that met a fault, and shows that
  every step is a step of the abstract store or leaves it alone.
- `LifecycleProofs`: `TokensAccounted` (what was sent is in the channel or ended
  a goroutine) gives `DeletedPartitionsAreQuiet`: four sends into a channel of
  two end both goroutines. No assumption on backups, failures or signals.
- `ReadsProofs`: `GetNeverBlocks`. `SentInv` says that a goroutine is in the
  channel at most once and only after it has sent; counting gives the room.
  `ReadsAreComplete` speaks only of the end of a request, so `ReadInv` says what
  is so on the way: whoever waits for a proxied call asked for that one
  partition (`Called`), a get that runs has left out exactly the partitions its
  goroutines passed without a result, the ones `pm.ReadRecords` did and the ones
  the called nodes left out (`Tally`), and the answer of a request that ended
  does not change (`Frame`).
- `BackupsProofs`: CopiesFollowLog says nothing of a copy in the middle of a
  replay. What such a copy holds is found without induction over the replayed
  records: `Ahead` says that a row is the one the log gives at *some* offset
  between the client's position and the end of the replay, except perhaps for
  CreatedAt, which then is the final one or is forgotten in a delete before. One
  more record keeps that true with the position one further (`ReplayStep`),
  because a mutation without a condition overwrites what it finds, all but
  CreatedAt, and one with a condition ends `clean`; when position and end meet,
  the row is exact. `FollowInv` asks it of every directory,
  open copy, dump under way and object; a restore takes over the row of the
  object, or of the directory where neither has one. `WholeInv` says that a dump
  without a mark has all live rows of the copy it was taken from, so what is
  missing in it is absent; `PassedCopy` says what a failed or skipped record does to
  a row that is ahead. `LogInv` says when CreatedAt of
  a row can change. NothingExpired needs `RetentionInv`: the newest object above
  offset 0 is found and covers the start of the log.
- `GossipProofs`: `KeptPartitionsStayListed` is a property of steps. It needs
  `KeptInv`: every advertisement under way, however old, and every difference a
  handler computed, however stale, has all that the peer has managed ever since.
- `NamespaceProofs`: `StartedNodesAgree` (a started node has the number of the
  first record, which nothing replaces), `MutationsInOrder` and
  `MutationsAreFound`. KeyOrder is inductive once one knows what is in the log at
  all: a record is there once if it was produced and not at all otherwise
  (`LogInv`), nothing is produced before its request is taken on and everything
  before it is answered with ok (`RequestInv`). So a record that is appended now
  lands behind all it has to follow.
  `RemainderOfRemainder` shows that dropping the highest bit of a hash keeps its
  remainder by a divisor of that bit, which is where the powers of two come from.

Only model-checked: the liveness properties (CatchesUp, StaleCopiesRemoved,
EventuallyReady, RemovalEnds, ShutdownEnds, GCProceeds, AnsweredIfLocal,
AddressesAppear, AddressesDisappear, GoneEvicted), since fairness and ENABLED are
beyond the prover. The proofs take `states` as the code's history and never unfold
it over the whole log: what all records together compute is not proved.

## Not modelled

- The bits of Murmur2, request validation, the encoding of keys and records, the
  HTTP servers, metrics, logging and the environment: sequential code without
  state of its own.
- The iteration of `ListRecords`: one read transaction, a scan of a sorted
  snapshot. Reading it next to `README.md:98` one notices that `sk_prefix` is a
  filter (`ValidForPrefix`) and not only a place to start, so the last key of a
  page does not continue the listing behind it as that line says.
- `lc.Shutdown`, and the order in which main starts the services: a node joins
  the consumer group before it has checked the number of partitions. In
  `LogConsumer` such a node is one that crashes.
- What badger does with a database that is closed under a reader.
- `badger_test`, a benchmark.

## Plan

1. `MaterialisedLog` with restore as a jump, refined by `Backups`; `FollowInv`
   already says where a restored copy jumps to.
2. `Reads` with the views of `Gossip` instead of arbitrary addresses, and
   Complete carried over to it.
3. Action properties that no run asks for yet: the checkpoint of an open copy
   does not go back, and an answered request stays answered.
