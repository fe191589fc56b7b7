------------------------------ MODULE Backups ------------------------------
(***************************************************************************)
(* Backups of one partition to S3 and restores from them.                  *)
(* (partitions/backup.go, newPartition and updateOffsetInTx of             *)
(* partitions/partition.go, with BACKUP=1 and S3_RESTORE=1)                *)
(*                                                                         *)
(* The nodes are the ones that ever get the partition: in turn within a    *)
(* replica group, at the same time in different groups.  A backup takes    *)
(* its name from LastOffset, then dumps the database while records go on   *)
(* being applied, then uploads; a node that opens the partition loads the  *)
(* object with the highest name over whatever its directory holds and      *)
(* consumes the log behind that name.                                      *)
(*                                                                         *)
(* A dump is a set of cells: the rows and the row LastOffsetKey.  badger   *)
(* and S3 are external: a dump is one snapshot, has no cell for a deleted  *)
(* row whose tombstone was compacted away, and ends early when DB.Backup   *)
(* fails, since pw.Close makes that look like the end of the file.  Load   *)
(* writes cells with the versions they had in the dump; a replica that     *)
(* never replayed anything gives a record the same version everywhere, so  *)
(* the later dump wins, otherwise either cell may.                         *)
(*                                                                         *)
(* A copy or an object stops being `clean' at the eight places, marked     *)
(* (1) to (8), where this model finds that the code lets it part from the  *)
(* log; each is marked by what happened there, never by comparing the rows *)
(* with the log or with a dump.  `sure' is the offset up to which a copy   *)
(* may have to replay what it already contains.                            *)
(***************************************************************************)
EXTENDS Records, Integers, Sequences, FiniteSetsExt

CONSTANTS
    Nodes,
    Workload,   \* Workload[o]: what clients may produce at offset o
    NoDB,       \* no badger directory
    NoObject,   \* no object of that name in the bucket; no job
    OffCell,    \* the cell of LastOffsetKey
    MaxLog,     \* bound on the length of the log
    MaxEvents   \* bound on backups, crashes and removals together

ASSUME WorkloadType == Workload \in [0 .. MaxLog - 1 -> SUBSET RecordMutation]

ASSUME OffCellIsNoRow == OffCell \notin Keys

ASSUME BoundsType == MaxLog \in Nat /\ MaxEvents \in Nat

VARIABLES
    log,        \* the mutation topic, offset o at index o + 1
    states,     \* the rows after each prefix of the log (history)
    start,      \* the first offset that retention has left
    disk,       \* disk[n]: NoDB, or the rows and the LastOffsetKey row
    phase,      \* phase[n]: what n does with the partition
    last,       \* last[n]: Partition.LastOffset
    next,       \* next[n]: the offset the client fetches next
    txn,        \* txn[n]: DB.Update has called its function, not committed
    job,        \* job[n]: runBackup, NoObject when it does not run
    bucket,     \* bucket[o]: the object named after offset o
    events      \* how many backups, crashes and removals there were

logVars == <<log, states, start>>
partVars == <<disk, phase, last, next, txn>>
vars == <<logVars, partVars, job, bucket, events>>

NoOffset == -1

Offsets == 0 .. MaxLog - 1

Cells == Keys \cup {OffCell}

Copy == [kv : Contents, off : Offsets \cup {NoOffset},
         sure : Offsets \cup {NoOffset}, clean : BOOLEAN]

(* A dump: a copy and the cells that are in it. *)
Object == [copy : Copy, cells : SUBSET Cells]

Phases == {"closed", "open", "closing"}

(* The key of the object, and the dump once DB.Backup has its snapshot. *)
Job == [name : Offsets, dump : Object \cup {NoObject}]

ASSUME NoDBIsNoCopy == NoDB \notin Copy

ASSUME NoObjectIsNothing == NoObject \notin Object /\ NoObject \notin Job

EmptyCopy == [kv |-> Empty, off |-> NoOffset, sure |-> NoOffset, clean |-> TRUE]

(* The types of the variables; the client of an open copy is behind its    *)
(* LastOffset (topicInfoLoop).                                             *)
TypeOK ==
    /\ log \in Seq(RecordMutation) /\ Len(log) <= MaxLog
    /\ states \in Seq(Contents) /\ Len(states) = Len(log) + 1
    /\ start \in 0 .. Len(log)
    /\ disk \in [Nodes -> Copy \cup {NoDB}]
    /\ phase \in [Nodes -> Phases]
    /\ last \in [Nodes -> Offsets \cup {NoOffset}]
    /\ next \in [Nodes -> 0 .. Len(log)]
    /\ txn \in [Nodes -> BOOLEAN]
    /\ job \in [Nodes -> Job \cup {NoObject}]
    /\ bucket \in [Offsets -> Object \cup {NoObject}]
    /\ events \in 0 .. MaxEvents
    /\ \A n \in Nodes : phase[n] = "open" =>
         disk[n] # NoDB /\ next[n] > last[n] - (IF txn[n] THEN 1 ELSE 0)

Init ==
    /\ log = <<>> /\ states = <<Empty>> /\ start = 0
    /\ disk = [n \in Nodes |-> NoDB]
    /\ phase = [n \in Nodes |-> "closed"]
    /\ last = [n \in Nodes |-> NoOffset]
    /\ next = [n \in Nodes |-> 0]
    /\ txn = [n \in Nodes |-> FALSE]
    /\ job = [n \in Nodes |-> NoObject]
    /\ bucket = [o \in Offsets |-> NoObject]
    /\ events = 0

Count ==
    /\ events < MaxEvents
    /\ events' = events + 1

-----------------------------------------------------------------------------
(* The log                                                                 *)

Produce(m) ==
    /\ Len(log) < MaxLog
    /\ m \in Workload[Len(log)]
    /\ log' = Append(log, m)
    /\ states' = Append(states, HandleMutation(states[Len(states)], m))
    /\ UNCHANGED <<start, partVars, job, bucket, events>>

(* Retention drops records below s once a backup covers them.  Retention   *)
(* is days: it does not overtake a node that consumes the log.             *)
Expire(s) ==
    /\ s > start
    /\ \E o \in Offsets : o >= s - 1 /\ bucket[o] # NoObject
    /\ \A n \in Nodes : phase[n] = "open" => next[n] >= s
    /\ start' = s
    /\ UNCHANGED <<log, states, partVars, job, bucket, events>>

-----------------------------------------------------------------------------
(* newPartition                                                            *)

NewestLowest == {o \in Offsets \ {0} : bucket[o] # NoObject
                                       /\ \A q \in 1 .. o - 1 : bucket[q] = NoObject}

(* getLatestBackupOffset: the highest name above 0, if there is one. *)
Newest == {o \in Offsets \ {0} : bucket[o] # NoObject
                                 /\ \A q \in Offsets : bucket[q] # NoObject => q <= o}

(* createLocalDB *)
LocalCopy(n) == IF disk[n] = NoDB THEN EmptyCopy ELSE disk[n]

(* offset <= *p.LastOffset: ErrRemoteOffsetLower. *)
RemoteNewer(n, o) == o > LocalCopy(n).off

ResetSame(o) == IF o = NoOffset THEN 0 ELSE o

ResetEnd(o) == Len(log)

(* The position topicInfoLoop sets for the offset AddPartition returns. *)
ResetOffset(o) == o + 1

(* AddPartition returns with LastOffset o, and the client is reset. *)
Opened(n, o) ==
    /\ phase' = [phase EXCEPT ![n] = "open"]
    /\ last' = [last EXCEPT ![n] = o]
    /\ next' = [next EXCEPT ![n] = ResetOffset(o)]

(* No backup, or none beyond the local copy. *)
OpenLocal(n) ==
    /\ phase[n] = "closed"
    /\ \A o \in Newest : ~ RemoteNewer(n, o)
    /\ disk' = [disk EXCEPT ![n] = LocalCopy(n)]
    /\ Opened(n, LocalCopy(n).off)
    /\ UNCHANGED <<logVars, txn, job, bucket, events>>

MergedKeepLocal(copy, dump, C) ==
    [kv |-> [k \in Keys |-> IF k \in C /\ copy.kv[k] = Absent THEN dump.kv[k] ELSE copy.kv[k]],
     off |-> IF OffCell \in C THEN dump.off ELSE copy.off]

(* DB.Load of the cells C of a dump over a copy; the directory is not      *)
(* emptied first.                                                          *)
Merged(copy, dump, C) ==
    [kv |-> [k \in Keys |-> IF k \in C THEN dump.kv[k] ELSE copy.kv[k]],
     off |-> IF OffCell \in C THEN dump.off ELSE copy.off]

(* The cells that win over the ones in the directory. *)
Winning(copy, cells) == IF copy.sure = NoOffset THEN {cells} ELSE SUBSET cells

(* The copy after the cells C of the object named o were loaded.  Not      *)
(* clean: a cell of the dump has lost against a higher version in the      *)
(* directory (1) or was not loaded any more (2), the directory has a row   *)
(* for which the dump has no cell (3), or the name is ahead of the dump    *)
(* (4).                                                                    *)
Restored(copy, o, C) ==
    LET dump == bucket[o].copy
        new == Merged(copy, dump, C)
    IN  [kv |-> new.kv, off |-> new.off,
         sure |-> IF dump.off = o THEN dump.sure ELSE Max({dump.sure, dump.off}),
         clean |-> /\ dump.clean
                   /\ C = bucket[o].cells
                   /\ \A k \in Keys \ C : copy.kv[k] = Absent
                   /\ o <= dump.off]

(* checkAndRestoreFromS3: the object is downloaded and loaded, and its     *)
(* name is LastOffset.                                                     *)
Restore(n, o, C) ==
    /\ phase[n] = "closed"
    /\ o \in Newest
    /\ RemoteNewer(n, o)
    /\ C \in Winning(LocalCopy(n), bucket[o].cells)
    /\ disk' = [disk EXCEPT ![n] = Restored(LocalCopy(n), o, C)]
    /\ Opened(n, o)
    /\ UNCHANGED <<logVars, txn, job, bucket, events>>

(* The process is gone in the middle of Load, or Load failed (Fatal): some *)
(* cells are in, and the directory may look restored.                      *)
CrashInLoad(n, o, C) ==
    /\ phase[n] = "closed"
    /\ o \in Newest
    /\ RemoteNewer(n, o)
    /\ C # {} /\ C \subseteq bucket[o].cells
    /\ Count
    /\ disk' = [disk EXCEPT ![n] = Restored(LocalCopy(n), o, C)]
    /\ UNCHANGED <<logVars, phase, last, next, txn, job, bucket>>

-----------------------------------------------------------------------------
(* pollRecords: one record                                                 *)

Record(n) == log[next[n] + 1]

Fetched(n) ==
    /\ phase[n] = "open"
    /\ start <= next[n] /\ next[n] < Len(log)

(* DB.Update has run its function: LastOffset is the record's offset. *)
UpdateOffsetInTx(n) ==
    /\ Fetched(n)
    /\ ~ txn[n]
    /\ Outcome(disk[n].kv, Record(n)) \in {"true", "false"}
    /\ last' = [last EXCEPT ![n] = next[n]]
    /\ txn' = [txn EXCEPT ![n] = TRUE]
    /\ UNCHANGED <<logVars, disk, phase, next, job, bucket, events>>

(* Whether a record is applied to a copy that contains it already and is   *)
(* decided by the rows it finds: not clean (5).                            *)
Rejudged(n) == next[n] <= disk[n].sure /\ Record(n).cond # NoIf

Commit(n) ==
    /\ txn[n]
    /\ disk' = [disk EXCEPT ![n].kv = HandleMutation(@, Record(n)),
                            ![n].off = next[n],
                            ![n].clean = @ /\ ~ Rejudged(n)]
    /\ next' = [next EXCEPT ![n] = @ + 1]
    /\ txn' = [txn EXCEPT ![n] = FALSE]
    /\ UNCHANGED <<logVars, phase, last, job, bucket, events>>

(* The function returned early: nothing is written. *)
Skip(n) ==
    /\ Fetched(n)
    /\ ~ txn[n]
    /\ Outcome(disk[n].kv, Record(n)) = "skip"
    /\ next' = [next EXCEPT ![n] = @ + 1]
    /\ disk' = [disk EXCEPT ![n].clean = @ /\ ~ Rejudged(n)]
    /\ UNCHANGED <<logVars, phase, last, txn, job, bucket, events>>

(* The function returned an error: the partition's goroutine ends, and the *)
(* client is at the end e of the batch already.  Not clean if the batch    *)
(* had more records (8).                                                   *)
FailRecord(n, e) ==
    /\ Fetched(n)
    /\ ~ txn[n]
    /\ Outcome(disk[n].kv, Record(n)) = "error"
    /\ e > next[n]
    /\ next' = [next EXCEPT ![n] = e]
    /\ disk' = [disk EXCEPT ![n].clean = @ /\ ~ Rejudged(n) /\ e = next[n] + 1]
    /\ UNCHANGED <<logVars, phase, last, txn, job, bucket, events>>

(* The position is out of range, so the client goes on at the start of the *)
(* log: not clean (6).                                                     *)
SkipExpired(n) ==
    /\ phase[n] = "open"
    /\ next[n] < start
    /\ next' = [next EXCEPT ![n] = start]
    /\ disk' = [disk EXCEPT ![n].clean = FALSE]
    /\ UNCHANGED <<logVars, phase, last, txn, job, bucket, events>>

-----------------------------------------------------------------------------
(* runBackup                                                               *)

StartBackup(n) ==
    /\ phase[n] = "open"
    /\ job[n] = NoObject
    /\ last[n] # NoOffset
    /\ Count
    /\ job' = [job EXCEPT ![n] = [name |-> last[n], dump |-> NoObject]]
    /\ UNCHANGED <<logVars, partVars, bucket>>

Live(copy) ==
    {k \in Keys : copy.kv[k] # Absent} \cup {c \in {OffCell} : copy.off # NoOffset}

(* DB.Backup takes its snapshot, whatever was committed since; C are the   *)
(* cells it has, some deleted rows among them.                             *)
Snapshot(n, C) ==
    /\ phase[n] = "open"
    /\ job[n] # NoObject
    /\ job[n].dump = NoObject
    /\ Live(disk[n]) \subseteq C
    /\ job' = [job EXCEPT ![n].dump = [copy |-> disk[n], cells |-> C]]
    /\ UNCHANGED <<logVars, partVars, bucket, events>>

(* The dump is uploaded. *)
Upload(n) ==
    /\ job[n] # NoObject
    /\ job[n].dump # NoObject
    /\ bucket' = [bucket EXCEPT ![job[n].name] = job[n].dump]
    /\ job' = [job EXCEPT ![n] = NoObject]
    /\ UNCHANGED <<logVars, partVars, events>>

(* DB.Backup fails, as it does when the database is closed: what was read  *)
(* so far is uploaded.  Not clean (7).                                     *)
UploadCut(n, C) ==
    /\ job[n] # NoObject
    /\ IF job[n].dump = NoObject
       THEN phase[n] = "closing" /\ C = {}
       ELSE C \subseteq job[n].dump.cells /\ C # job[n].dump.cells
    /\ bucket' = [bucket EXCEPT ![job[n].name] =
                    [copy |-> [EmptyCopy EXCEPT !.clean = FALSE,
                                 !.kv = IF C = {} THEN Empty ELSE job[n].dump.copy.kv,
                                 !.off = IF OffCell \in C THEN job[n].dump.copy.off ELSE NoOffset],
                     cells |-> C]]
    /\ job' = [job EXCEPT ![n] = NoObject]
    /\ UNCHANGED <<logVars, partVars, events>>

(* The upload fails or times out after the dump; while the dump goes on    *)
(* runBackup hangs in the pipe, which is a job that never ends.            *)
UploadFails(n) ==
    /\ job[n] # NoObject
    /\ job[n].dump # NoObject
    /\ job' = [job EXCEPT ![n] = NoObject]
    /\ UNCHANGED <<logVars, partVars, bucket, events>>

-----------------------------------------------------------------------------
(* The end                                                                 *)

(* RemovePartition: the database is closed under a transaction, whose      *)
(* commit then fails, and under a backup,                                  *)
CloseDB(n) ==
    /\ phase[n] = "open"
    /\ Count
    /\ phase' = [phase EXCEPT ![n] = "closing"]
    /\ txn' = [txn EXCEPT ![n] = FALSE]
    /\ UNCHANGED <<logVars, disk, last, next, job, bucket>>

(* and the directory deleted once the backup goroutine has ended. *)
DeleteDB(n) ==
    /\ phase[n] = "closing"
    /\ job[n] = NoObject
    /\ disk' = [disk EXCEPT ![n] = NoDB]
    /\ phase' = [phase EXCEPT ![n] = "closed"]
    /\ last' = [last EXCEPT ![n] = NoOffset]
    /\ next' = [next EXCEPT ![n] = 0]
    /\ UNCHANGED <<logVars, txn, job, bucket, events>>

(* The process is gone and comes back: transaction and upload are lost. *)
Crash(n) ==
    /\ phase[n] # "closed"
    /\ Count
    /\ phase' = [phase EXCEPT ![n] = "closed"]
    /\ last' = [last EXCEPT ![n] = NoOffset]
    /\ txn' = [txn EXCEPT ![n] = FALSE]
    /\ job' = [job EXCEPT ![n] = NoObject]
    /\ next' = [next EXCEPT ![n] = 0]
    /\ UNCHANGED <<logVars, disk, bucket>>

-----------------------------------------------------------------------------

Next ==
    \/ \E m \in UNION {Workload[o] : o \in Offsets} : Produce(m)
    \/ \E s \in 0 .. Len(log) : Expire(s)
    \/ \E n \in Nodes :
         \/ OpenLocal(n) \/ UpdateOffsetInTx(n) \/ Commit(n) \/ Skip(n) \/ SkipExpired(n)
         \/ StartBackup(n) \/ Upload(n) \/ UploadFails(n)
         \/ CloseDB(n) \/ DeleteDB(n) \/ Crash(n)
         \/ \E e \in 1 .. Len(log) : FailRecord(n, e)
         \/ \E C \in SUBSET Cells :
              \/ Snapshot(n, C) \/ UploadCut(n, C)
              \/ \E o \in Offsets : Restore(n, o, C) \/ CrashInLoad(n, o, C)

Spec == Init /\ [][Next]_vars

-----------------------------------------------------------------------------
(* Properties                                                              *)

(* The rows of a copy are the ones after its offset, unless it is not      *)
(* clean or still replays.                                                 *)
Exact(copy) ==
    copy.clean /\ copy.off >= copy.sure => copy.kv = states[copy.off + 2]

(* Every copy and every object follows the log, whatever records were      *)
(* committed while a backup was named, dumped and uploaded, and however    *)
(* often it was restored, except where one of the eight places marked      *)
(* above spoilt it; a copy that replays is exact again when the replay is  *)
(* over (runBackup, checkAndRestoreFromS3, updateOffsetInTx).              *)
CopiesFollowLog ==
    /\ \A n \in Nodes : disk[n] # NoDB => Exact(disk[n])
    /\ \A o \in Offsets : bucket[o] # NoObject => Exact(bucket[o].copy)

(* An open copy that is clean and not replaying misses nothing before the  *)
(* position of the client: no restore leaves a hole between the rows and   *)
(* the offset the log is consumed from, and a record that is passed over   *)
(* leaves none unless it ends a batch early (checkAndRestoreFromS3,        *)
(* pollRecords).                                                           *)
NoHole ==
    \A n \in Nodes :
        phase[n] = "open" /\ ~ txn[n] /\ disk[n].clean /\ last[n] >= disk[n].sure =>
            disk[n].kv = states[next[n] + 1]

(* A restore puts the backup in the place of what the directory held, as   *)
(* checkAndRestoreFromS3 announces ("deleting local DB"): after it, the    *)
(* rows are those of the backup, for one that is whole and of which every  *)
(* cell was loaded.                                                        *)
RestoreReplaces ==
    [][\A n \in Nodes, o \in Offsets :
          bucket[o] # NoObject /\ Restore(n, o, bucket[o].cells) /\ bucket[o].copy.clean
            => disk'[n].kv = bucket[o].copy.kv]_vars

(* While retention only drops what a backup covers, a node that opens the  *)
(* partition is never sent to a position below the start of the log, with  *)
(* one exception: a backup named after offset 0 is not found               *)
(* (getLatestBackupOffset).                                                *)
NothingExpired ==
    \A n \in Nodes : phase[n] = "open" /\ next[n] < start => start = 1
=============================================================================
