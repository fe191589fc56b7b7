------------------------ MODULE PartitionLifecycle ------------------------
(***************************************************************************)
(* The goroutines of the open partitions of one node, and how they are     *)
(* stopped.  (partitions/partition.go, partitions/backup.go,               *)
(* partitions/partition_manager.go, main.go)                               *)
(*                                                                         *)
(* newPartition starts a garbage collector (gcTickHandler) and, when       *)
(* backups are enabled, a backup loop (backupInterval).  Both end by       *)
(* taking one token from closeChan.  RemovePartition, called by            *)
(* topicInfoLoop for one partition at a time, shuts a partition down,      *)
(* shuts it down again inside delete() and removes its directory; main     *)
(* shuts every partition down when the process is told to stop.  Each      *)
(* Shutdown puts two tokens into closeChan and closes the database.        *)
(*                                                                         *)
(* The records a partition holds play no part here.  S3 and badger are     *)
(* external: an upload reads what the dump writes into the pipe until it   *)
(* sees the end or fails, and a garbage collection ends.                   *)
(***************************************************************************)
EXTENDS Integers

CONSTANTS
    Parts,          \* partitions the node may be assigned
    BackupEnabled   \* BACKUP=1

ASSUME BackupSwitch == BackupEnabled \in BOOLEAN

VARIABLES
    managed,    \* keys of PartitionManager.Partitions
    dir,        \* dir[p]: the partition's directory exists
    open,       \* open[p]: its database is open
    queue,      \* queue[p]: tokens in closeChan
    tick,       \* tick[p]: a tick waits in GCTicker.C
    gc,         \* gc[p]: the garbage collector
    backup,     \* backup[p]: the backup loop
    dump,       \* dump[p], upload[p]: the two goroutines of runBackup
    upload,
    removal,    \* removal[p]: next statement of RemovePartition, 0 for none
    main,       \* the main goroutine
    halt        \* halt[p]: next statement of the Shutdown main calls for p,
                \* 0 when p is not on its list

goroutines == <<tick, gc, backup, dump, upload>>
callers == <<removal, main, halt>>
vars == <<goroutines, callers, managed, dir, open, queue>>

CloseChanCapLarge == 4

CloseChanCapSmall == 1

(* make(chan struct{}, 2) *)
CloseChanCap == 2

(* The statements of RemovePartition: two of Shutdown's sends, its Close,  *)
(* the same again in delete, and os.RemoveAll.                             *)
RemovalSends == {1, 2, 4, 5}
RemovalCloses == {3, 6}
RemoveAll == 7

(* The statements of one Shutdown; 4 is behind the last. *)
ShutdownSends == {1, 2}
ShutdownClose == 3
ShutdownDone == 4

TypeOK ==
    /\ managed \subseteq Parts
    /\ dir \in [Parts -> BOOLEAN]
    /\ open \in [Parts -> BOOLEAN]
    /\ queue \in [Parts -> 0 .. CloseChanCap]
    /\ tick \in [Parts -> BOOLEAN]
    /\ gc \in [Parts -> {"select", "waiting", "collecting", "exited"}]
    /\ backup \in [Parts -> {"select", "running", "exited"}]
    /\ dump \in [Parts -> {"none", "writing", "closed"}]
    /\ upload \in [Parts -> {"none", "reading", "done", "failed"}]
    /\ removal \in [Parts -> 0 .. RemoveAll]
    /\ main \in {"running", "stopping", "exited"}
    /\ halt \in [Parts -> 0 .. ShutdownDone]

Init ==
    /\ managed = {}
    /\ dir = [p \in Parts |-> FALSE]
    /\ open = [p \in Parts |-> FALSE]
    /\ queue = [p \in Parts |-> 0]
    /\ tick = [p \in Parts |-> FALSE]
    /\ gc = [p \in Parts |-> "exited"]
    /\ backup = [p \in Parts |-> "exited"]
    /\ dump = [p \in Parts |-> "none"]
    /\ upload = [p \in Parts |-> "none"]
    /\ removal = [p \in Parts |-> 0]
    /\ main = "running"
    /\ halt = [p \in Parts |-> 0]

(* The process has not exited. *)
Running == main # "exited"

-----------------------------------------------------------------------------
(* gcTickHandler                                                           *)

(* GCTicker runs until the Shutdown of its partition stops it. *)
GCTick(p) ==
    /\ Running
    /\ p \in managed
    /\ halt[p] < 2
    /\ ~ tick[p]
    /\ tick' = [tick EXCEPT ![p] = TRUE]
    /\ UNCHANGED <<gc, backup, dump, upload, callers, managed, dir, open, queue>>

(* BackupWg.Wait returns at once unless a backup runs. *)
GCStart(p) ==
    /\ Running
    /\ gc[p] = "select"
    /\ tick[p]
    /\ tick' = [tick EXCEPT ![p] = FALSE]
    /\ gc' = [gc EXCEPT ![p] = IF backup[p] = "running" THEN "waiting"
                                                        ELSE "collecting"]
    /\ UNCHANGED <<backup, dump, upload, callers, managed, dir, open, queue>>

(* RunValueLogGC until it has nothing to rewrite, or fails. *)
GCDone(p) ==
    /\ Running
    /\ gc[p] = "collecting"
    /\ gc' = [gc EXCEPT ![p] = "select"]
    /\ UNCHANGED <<tick, backup, dump, upload, callers, managed, dir, open, queue>>

GCExitNoToken(p) ==
    /\ Running
    /\ gc[p] = "select"
    /\ queue' = [queue EXCEPT ![p] = @ - 1]
    /\ gc' = [gc EXCEPT ![p] = "exited"]
    /\ UNCHANGED <<tick, backup, dump, upload, callers, managed, dir, open>>

GCExit(p) ==
    /\ Running
    /\ gc[p] = "select"
    /\ queue[p] > 0
    /\ queue' = [queue EXCEPT ![p] = @ - 1]
    /\ gc' = [gc EXCEPT ![p] = "exited"]
    /\ UNCHANGED <<tick, backup, dump, upload, callers, managed, dir, open>>

GC(p) == GCStart(p) \/ GCDone(p) \/ GCExit(p)

-----------------------------------------------------------------------------
(* backupInterval, runBackup                                               *)

(* A tick of BackupTicker, which nothing stops.  (With LastOffset = nil    *)
(* runBackup returns at once and changes nothing.)                         *)
BackupStart(p) ==
    /\ Running
    /\ backup[p] = "select"
    /\ backup' = [backup EXCEPT ![p] = "running"]
    /\ dump' = [dump EXCEPT ![p] = "writing"]
    /\ upload' = [upload EXCEPT ![p] = "reading"]
    /\ UNCHANGED <<tick, gc, callers, managed, dir, open, queue>>

(* DB.Backup writes into the pipe, so it gets to its end, and to           *)
(* pw.Close, only while the upload reads.                                  *)
DumpEnd(p) ==
    /\ Running
    /\ dump[p] = "writing"
    /\ upload[p] = "reading"
    /\ dump' = [dump EXCEPT ![p] = "closed"]
    /\ UNCHANGED <<tick, gc, backup, upload, callers, managed, dir, open, queue>>

UploadEnd(p) ==
    /\ Running
    /\ upload[p] = "reading"
    /\ dump[p] = "closed"
    /\ upload' = [upload EXCEPT ![p] = "done"]
    /\ UNCHANGED <<tick, gc, backup, dump, callers, managed, dir, open, queue>>

(* The timeout or S3 ends the upload.  The read end stays open. *)
UploadFail(p) ==
    /\ Running
    /\ upload[p] = "reading"
    /\ upload' = [upload EXCEPT ![p] = "failed"]
    /\ UNCHANGED <<tick, gc, backup, dump, callers, managed, dir, open, queue>>

BackupEndNoDone(p) ==
    /\ Running
    /\ backup[p] = "running"
    /\ dump[p] = "closed"
    /\ upload[p] \in {"done", "failed"}
    /\ backup' = [backup EXCEPT ![p] = "select"]
    /\ dump' = [dump EXCEPT ![p] = "none"]
    /\ upload' = [upload EXCEPT ![p] = "none"]
    /\ UNCHANGED <<tick, gc, callers, managed, dir, open, queue>>

(* g.Wait returns when both goroutines have; BackupWg.Done lets a waiting  *)
(* garbage collector go on.                                                *)
BackupEnd(p) ==
    /\ Running
    /\ backup[p] = "running"
    /\ dump[p] = "closed"
    /\ upload[p] \in {"done", "failed"}
    /\ backup' = [backup EXCEPT ![p] = "select"]
    /\ dump' = [dump EXCEPT ![p] = "none"]
    /\ upload' = [upload EXCEPT ![p] = "none"]
    /\ gc' = [gc EXCEPT ![p] = IF @ = "waiting" THEN "collecting" ELSE @]
    /\ UNCHANGED <<tick, callers, managed, dir, open, queue>>

BackupExit(p) ==
    /\ Running
    /\ backup[p] = "select"
    /\ queue[p] > 0
    /\ queue' = [queue EXCEPT ![p] = @ - 1]
    /\ backup' = [backup EXCEPT ![p] = "exited"]
    /\ UNCHANGED <<tick, gc, dump, upload, callers, managed, dir, open>>

Backup(p) == DumpEnd(p) \/ UploadEnd(p) \/ BackupEnd(p) \/ BackupExit(p)

-----------------------------------------------------------------------------
(* topicInfoLoop: one call of the PartitionManager at a time               *)

NoRemoval == \A p \in Parts : removal[p] = 0

(* A new Partition with its goroutines.  (A partition main still has to    *)
(* close would be a second Partition that nobody closes: left out.)        *)
AddPartition(p) ==
    /\ Running
    /\ NoRemoval
    /\ p \notin managed
    /\ halt[p] = 0
    /\ managed' = managed \cup {p}
    /\ dir' = [dir EXCEPT ![p] = TRUE]
    /\ open' = [open EXCEPT ![p] = TRUE]
    /\ queue' = [queue EXCEPT ![p] = 0]
    /\ tick' = [tick EXCEPT ![p] = FALSE]
    /\ gc' = [gc EXCEPT ![p] = "select"]
    /\ backup' = [backup EXCEPT ![p] = IF BackupEnabled THEN "select" ELSE "exited"]
    /\ UNCHANGED <<dump, upload, callers>>

(* LoadAndDelete: the partition leaves the map before it is shut down. *)
RemovePartition(p) ==
    /\ Running
    /\ NoRemoval
    /\ p \in managed
    /\ managed' = managed \ {p}
    /\ removal' = [removal EXCEPT ![p] = 1]
    /\ UNCHANGED <<goroutines, main, halt, dir, open, queue>>

RemovalSend(p) ==
    /\ Running
    /\ removal[p] \in RemovalSends
    /\ queue[p] < CloseChanCap
    /\ queue' = [queue EXCEPT ![p] = @ + 1]
    /\ removal' = [removal EXCEPT ![p] = @ + 1]
    /\ UNCHANGED <<goroutines, main, halt, managed, dir, open>>

(* DB.Close; closing a closed database is no error. *)
RemovalClose(p) ==
    /\ Running
    /\ removal[p] \in RemovalCloses
    /\ open' = [open EXCEPT ![p] = FALSE]
    /\ removal' = [removal EXCEPT ![p] = @ + 1]
    /\ UNCHANGED <<goroutines, main, halt, managed, dir, queue>>

RemovalDelete(p) ==
    /\ Running
    /\ removal[p] = RemoveAll
    /\ dir' = [dir EXCEPT ![p] = FALSE]
    /\ removal' = [removal EXCEPT ![p] = 0]
    /\ UNCHANGED <<goroutines, main, halt, managed, open, queue>>

Removal(p) == RemovalSend(p) \/ RemovalClose(p) \/ RemovalDelete(p)

-----------------------------------------------------------------------------
(* main, on SIGTERM: PartitionManager.Shutdown, next to topicInfoLoop      *)

(* The partitions of the map are collected first. *)
Interrupt ==
    /\ main = "running"
    /\ main' = "stopping"
    /\ halt' = [p \in Parts |-> IF p \in managed THEN 1 ELSE 0]
    /\ UNCHANGED <<goroutines, removal, managed, dir, open, queue>>

(* main is at p: it shuts partitions down one after the other. *)
AtHalt(p) ==
    /\ main = "stopping"
    /\ \A q \in Parts \ {p} : halt[q] \in {0, 1, ShutdownDone}

HaltSend(p) ==
    /\ AtHalt(p)
    /\ halt[p] \in ShutdownSends
    /\ queue[p] < CloseChanCap
    /\ queue' = [queue EXCEPT ![p] = @ + 1]
    /\ halt' = [halt EXCEPT ![p] = @ + 1]
    /\ UNCHANGED <<goroutines, removal, main, managed, dir, open>>

HaltClose(p) ==
    /\ AtHalt(p)
    /\ halt[p] = ShutdownClose
    /\ open' = [open EXCEPT ![p] = FALSE]
    /\ halt' = [halt EXCEPT ![p] = ShutdownDone]
    /\ UNCHANGED <<goroutines, removal, main, managed, dir, queue>>

(* main returns, and with it the process ends. *)
Exit ==
    /\ main = "stopping"
    /\ \A p \in Parts : halt[p] \in {0, ShutdownDone}
    /\ main' = "exited"
    /\ UNCHANGED <<goroutines, removal, halt, managed, dir, open, queue>>

Shutdown == Exit \/ \E p \in Parts : HaltSend(p) \/ HaltClose(p)

-----------------------------------------------------------------------------

Next ==
    \/ Interrupt
    \/ Shutdown
    \/ \E p \in Parts :
         \/ AddPartition(p) \/ RemovePartition(p) \/ Removal(p)
         \/ GCTick(p) \/ GC(p)
         \/ BackupStart(p) \/ UploadFail(p) \/ Backup(p)

Spec == Init /\ [][Next]_vars

(* Every goroutine of a process that has not exited is scheduled, S3       *)
(* answers and RunValueLogGC ends.  A select with a tick and a token at    *)
(* hand picks either with equal chance, so a token that stays is taken in  *)
(* the end (SF).  Nothing makes ticks, failures, removals or SIGTERM       *)
(* happen.                                                                 *)
Fairness ==
    /\ WF_vars(Shutdown)
    /\ \A p \in Parts :
        /\ WF_vars(Removal(p))
        /\ WF_vars(GC(p))
        /\ WF_vars(Backup(p))
        /\ SF_vars(BackupExit(p))

FairSpec == Spec /\ Fairness

-----------------------------------------------------------------------------
(* Properties                                                              *)

(* When RemovePartition has deleted a directory both goroutines of the     *)
(* partition are gone: the partition can be added again and nothing of     *)
(* its predecessor touches the new files or takes tokens meant for the     *)
(* new goroutines (Shutdown only sends; no one waits for the goroutines    *)
(* to exit).                                                               *)
NoStrayGoroutines ==
    \A p \in Parts : ~ dir[p] => gc[p] = "exited" /\ backup[p] = "exited"

One(b) == IF b THEN 1 ELSE 0

(* How many tokens a partition's callers have put into closeChan. *)
SentBeforeRemoval(k) == One(k > 1) + One(k > 2) + One(k > 4) + One(k > 5)

SentBeforeHalt(k) == One(k > 1) + One(k > 2)

(* How many its goroutines have taken. *)
Taken(p) == One(gc[p] = "exited") + One(BackupEnabled /\ backup[p] = "exited")

(* The tokens of a partition are accounted for: what was sent is in the    *)
(* channel or ended a goroutine.  Four sends into a channel of two leave   *)
(* no goroutine behind.                                                    *)
Tokens(p) ==
    /\ dir[p] => queue[p] + Taken(p)
                   = SentBeforeRemoval(removal[p]) + SentBeforeHalt(halt[p])
    /\ ~ dir[p] => gc[p] = "exited" /\ backup[p] = "exited" /\ removal[p] = 0
    /\ dir[p] <=> p \in managed \/ removal[p] # 0
    /\ removal[p] # 0 => p \notin managed
    /\ main = "running" => halt[p] = 0
    /\ ~ BackupEnabled => backup[p] = "exited"

(* closeChan's tokens are accounted for in every partition, which is what  *)
(* makes NoStrayGoroutines inductive (Shutdown, gcTickHandler,             *)
(* backupInterval).                                                        *)
TokensInv == \A p \in Parts : Tokens(p)

(* As long as uploads do not fail and nobody stops the process,            *)
(* RemovePartition returns, and topicInfoLoop, which calls it and is the   *)
(* only one to take up new partitions, goes on (RemovePartition, delete).  *)
RemovalEnds ==
    [](main = "running" /\ \A p \in Parts : upload[p] # "failed") =>
        \A p \in Parts : removal[p] # 0 ~> removal[p] = 0

(* A process that is told to stop exits, even with a backup that hangs, as *)
(* long as topicInfoLoop removes no partition from then on                 *)
(* (PartitionManager.Shutdown).                                            *)
ShutdownEnds ==
    [](main = "stopping" => NoRemoval) =>
        (main = "stopping" ~> main = "exited")

(* A garbage collection that waits for a backup gets its turn when uploads *)
(* do not fail (BackupWg).                                                 *)
GCProceeds ==
    [](main = "running" /\ \A p \in Parts : upload[p] # "failed") =>
        \A p \in Parts : gc[p] = "waiting" ~> gc[p] = "collecting"
=============================================================================
