-------------------------- MODULE LifecycleProofs --------------------------
(* The tokens of closeChan are accounted for, so a deleted partition has   *)
(* no goroutine left: for any number of partitions, with backups or        *)
(* without, whatever fails or hangs and whenever the process is stopped.   *)
EXTENDS PartitionLifecycle, TLAPS

(* The state keeps its type; in particular closeChan never holds fewer     *)
(* than no tokens or more than its capacity.                               *)
LEMMA NextTyped == TypeOK /\ [Next]_vars => TypeOK'
<1> SUFFICES ASSUME TypeOK, [Next]_vars PROVE TypeOK'
    OBVIOUS
<1> USE DEF TypeOK, Running, CloseChanCap, RemoveAll, ShutdownDone, goroutines, callers
<1>1. CASE Interrupt
    BY <1>1 DEF Interrupt
<1>2. CASE Exit
    BY <1>2 DEF Exit
<1>3. ASSUME NEW p \in Parts, HaltSend(p)
      PROVE  TypeOK'
    BY <1>3 DEF HaltSend, ShutdownSends
<1>4. ASSUME NEW p \in Parts, HaltClose(p)
      PROVE  TypeOK'
    BY <1>4 DEF HaltClose, ShutdownClose
<1>5. ASSUME NEW p \in Parts, AddPartition(p)
      PROVE  TypeOK'
    BY <1>5 DEF AddPartition
<1>6. ASSUME NEW p \in Parts, RemovePartition(p)
      PROVE  TypeOK'
    BY <1>6 DEF RemovePartition
<1>7. ASSUME NEW p \in Parts, RemovalSend(p)
      PROVE  TypeOK'
    BY <1>7 DEF RemovalSend, RemovalSends
<1>8. ASSUME NEW p \in Parts, RemovalClose(p)
      PROVE  TypeOK'
    BY <1>8 DEF RemovalClose, RemovalCloses
<1>9. ASSUME NEW p \in Parts, RemovalDelete(p)
      PROVE  TypeOK'
    BY <1>9 DEF RemovalDelete
<1>10. ASSUME NEW p \in Parts, GCTick(p)
      PROVE  TypeOK'
    BY <1>10 DEF GCTick
<1>11. ASSUME NEW p \in Parts, GCStart(p)
      PROVE  TypeOK'
    BY <1>11 DEF GCStart
<1>12. ASSUME NEW p \in Parts, GCDone(p)
      PROVE  TypeOK'
    BY <1>12 DEF GCDone
<1>13. ASSUME NEW p \in Parts, GCExit(p)
      PROVE  TypeOK'
    BY <1>13 DEF GCExit
<1>14. ASSUME NEW p \in Parts, BackupStart(p)
      PROVE  TypeOK'
    BY <1>14 DEF BackupStart
<1>15. ASSUME NEW p \in Parts, UploadFail(p)
      PROVE  TypeOK'
    BY <1>15 DEF UploadFail
<1>16. ASSUME NEW p \in Parts, DumpEnd(p)
      PROVE  TypeOK'
    BY <1>16 DEF DumpEnd
<1>17. ASSUME NEW p \in Parts, UploadEnd(p)
      PROVE  TypeOK'
    BY <1>17 DEF UploadEnd
<1>18. ASSUME NEW p \in Parts, BackupEnd(p)
      PROVE  TypeOK'
    BY <1>18 DEF BackupEnd
<1>19. ASSUME NEW p \in Parts, BackupExit(p)
      PROVE  TypeOK'
    BY <1>19 DEF BackupExit
<1>20. CASE UNCHANGED vars
    BY <1>20 DEF vars
<1>21. QED
    BY <1>1, <1>2, <1>3, <1>4, <1>5, <1>6, <1>7, <1>8, <1>9, <1>10, <1>11, <1>12,
       <1>13, <1>14, <1>15, <1>16, <1>17, <1>18, <1>19, <1>20
       DEF Next, Shutdown, Removal, GC, Backup

(* The number a caller has sent is a number, and the next send adds one. *)
LEMMA SentCounts ==
    ASSUME NEW k \in 0 .. 7, NEW h \in 0 .. 4
    PROVE  /\ SentBeforeRemoval(k) \in 0 .. 4
           /\ SentBeforeHalt(h) \in 0 .. 2
           /\ k \in RemovalSends => SentBeforeRemoval(k + 1) = SentBeforeRemoval(k) + 1
           /\ k \in RemovalCloses => SentBeforeRemoval(k + 1) = SentBeforeRemoval(k)
           /\ h \in ShutdownSends => SentBeforeHalt(h + 1) = SentBeforeHalt(h) + 1
BY DEF One, SentBeforeRemoval, SentBeforeHalt, RemovalSends, RemovalCloses, ShutdownSends

(* os.RemoveAll comes after four sends into a channel of two: both         *)
(* goroutines have taken theirs.                                           *)
LEMMA BothTaken ==
    ASSUME NEW p \in Parts, TypeOK, Tokens(p), removal[p] = 7
    PROVE  gc[p] = "exited" /\ backup[p] = "exited"
<1>1. queue[p] + Taken(p) = 4 + SentBeforeHalt(halt[p])
    BY DEF Tokens, One, SentBeforeRemoval
<1>2. queue[p] \in 0 .. 2 /\ SentBeforeHalt(halt[p]) \in 0 .. 2
    BY SentCounts DEF TypeOK, CloseChanCap, ShutdownDone, RemoveAll
<1>3. Taken(p) \in 0 .. 2
    BY DEF Taken, One
<1>4. Taken(p) = 2
    BY <1>1, <1>2, <1>3
<1>5. QED
    BY <1>4 DEF Taken, One

(* The accounting is preserved by every step. *)
LEMMA TokensStep == TypeOK /\ TokensInv /\ [Next]_vars => TokensInv'
<1> SUFFICES ASSUME TypeOK, TokensInv, [Next]_vars, NEW p \in Parts
             PROVE  Tokens(p)'
    BY DEF TokensInv
<1>p. Tokens(p)
    BY DEF TokensInv
<1>t. /\ removal[p] \in 0 .. 7 /\ halt[p] \in 0 .. 4 /\ queue[p] \in 0 .. 2
      /\ Taken(p) \in 0 .. 2
      /\ dir[p] \in BOOLEAN
    BY DEF TypeOK, CloseChanCap, RemoveAll, ShutdownDone, Taken, One
<1>s. /\ SentBeforeRemoval(removal[p]) \in 0 .. 4
      /\ SentBeforeHalt(halt[p]) \in 0 .. 2
    BY <1>t, SentCounts
<1>1. CASE Interrupt
    BY <1>1, <1>p, <1>t DEF Interrupt, Tokens, Taken, SentBeforeHalt, TypeOK, goroutines
<1>2. CASE Exit
    BY <1>2, <1>p DEF Exit, Tokens, Taken, goroutines
<1>3. ASSUME NEW q \in Parts, HaltSend(q)
      PROVE  Tokens(p)'
    <2>1. CASE q = p
        <3>1. SentBeforeHalt(halt'[p]) = SentBeforeHalt(halt[p]) + 1
            BY <1>3, <2>1, <1>t, SentCounts DEF HaltSend, TypeOK
        <3>2. QED
            BY <3>1, <1>3, <2>1, <1>p, <1>t, <1>s
               DEF HaltSend, AtHalt, Tokens, Taken, TypeOK, goroutines
    <2>2. CASE q # p
        BY <1>3, <2>2, <1>p DEF HaltSend, Tokens, Taken, TypeOK, goroutines
    <2>3. QED
        BY <2>1, <2>2
<1>4. ASSUME NEW q \in Parts, HaltClose(q)
      PROVE  Tokens(p)'
    BY <1>4, <1>p, <1>t DEF HaltClose, AtHalt, ShutdownClose, ShutdownDone,
                            SentBeforeHalt, One, Tokens, Taken, TypeOK, goroutines
<1>5. ASSUME NEW q \in Parts, AddPartition(q)
      PROVE  Tokens(p)'
    <2>1. CASE q = p
        <3>1. /\ queue'[p] = 0 /\ removal'[p] = 0 /\ halt'[p] = 0 /\ dir'[p]
              /\ p \in managed' /\ main' = main
            BY <1>5, <2>1 DEF AddPartition, NoRemoval, TypeOK, callers
        <3>2. gc'[p] = "select" /\ (backup'[p] = "exited" <=> ~ BackupEnabled)
            BY <1>5, <2>1, BackupSwitch DEF AddPartition, TypeOK
        <3>3. Taken(p)' = 0
            BY <3>2, BackupSwitch DEF Taken, One
        <3>4. QED
            BY <3>1, <3>2, <3>3 DEF Tokens, SentBeforeRemoval, SentBeforeHalt, One
    <2>2. CASE q # p
        BY <1>5, <2>2, <1>p DEF AddPartition, Tokens, Taken, TypeOK, callers
    <2>3. QED
        BY <2>1, <2>2
<1>6. ASSUME NEW q \in Parts, RemovePartition(q)
      PROVE  Tokens(p)'
    BY <1>6, <1>p, <1>t DEF RemovePartition, NoRemoval, Tokens, Taken,
                            SentBeforeRemoval, TypeOK, goroutines
<1>7. ASSUME NEW q \in Parts, RemovalSend(q)
      PROVE  Tokens(p)'
    <2>1. CASE q = p
        <3>1. SentBeforeRemoval(removal'[p]) = SentBeforeRemoval(removal[p]) + 1
            BY <1>7, <2>1, <1>t, SentCounts DEF RemovalSend, TypeOK
        <3>2. QED
            BY <3>1, <1>7, <2>1, <1>p, <1>t, <1>s
               DEF RemovalSend, RemovalSends, Tokens, Taken, TypeOK, goroutines
    <2>2. CASE q # p
        BY <1>7, <2>2, <1>p DEF RemovalSend, Tokens, Taken, TypeOK, goroutines
    <2>3. QED
        BY <2>1, <2>2
<1>8. ASSUME NEW q \in Parts, RemovalClose(q)
      PROVE  Tokens(p)'
    BY <1>8, <1>p, <1>t DEF RemovalClose, RemovalCloses, One, SentBeforeRemoval,
                            Tokens, Taken, TypeOK, goroutines
<1>9. ASSUME NEW q \in Parts, RemovalDelete(q)
      PROVE  Tokens(p)'
    BY <1>9, <1>p, <1>t, BothTaken DEF RemovalDelete, RemoveAll, Tokens, Taken,
                            TypeOK, goroutines
<1>10. ASSUME NEW q \in Parts, GCExit(q)
       PROVE  Tokens(p)'
    <2>1. CASE q = p
        <3>1. dir[p] => Taken(p)' = Taken(p) + 1 /\ queue'[p] = queue[p] - 1
            BY <1>10, <2>1, <1>t DEF GCExit, Taken, One, TypeOK
        <3>2. QED
            BY <3>1, <1>10, <2>1, <1>p, <1>t, <1>s DEF GCExit, Tokens, TypeOK, callers
    <2>2. CASE q # p
        BY <1>10, <2>2, <1>p DEF GCExit, Tokens, Taken, TypeOK, callers
    <2>3. QED
        BY <2>1, <2>2
<1>11. ASSUME NEW q \in Parts, GCTick(q) \/ GCStart(q) \/ GCDone(q)
       PROVE  Tokens(p)'
    BY <1>11, <1>p DEF GCTick, GCStart, GCDone, Tokens, Taken, TypeOK, callers
<1>12. ASSUME NEW q \in Parts,
              BackupStart(q) \/ UploadFail(q) \/ DumpEnd(q) \/ UploadEnd(q)
       PROVE  Tokens(p)'
    BY <1>12, <1>p DEF BackupStart, UploadFail, DumpEnd, UploadEnd, Tokens,
                       Taken, TypeOK, callers
<1>13. ASSUME NEW q \in Parts, BackupEnd(q)
       PROVE  Tokens(p)'
    BY <1>13, <1>p DEF BackupEnd, Tokens, Taken, TypeOK, callers
<1>14. CASE UNCHANGED vars
    BY <1>14, <1>p DEF vars, Tokens, Taken, goroutines, callers
<1>15. ASSUME NEW q \in Parts, BackupExit(q)
       PROVE  Tokens(p)'
    <2>1. CASE q = p
        <3>1. BackupEnabled
            BY <1>15, <2>1, <1>p, BackupSwitch DEF BackupExit, Tokens
        <3>2. Taken(p)' = Taken(p) + 1 /\ queue'[p] = queue[p] - 1
            BY <3>1, <1>15, <2>1, <1>t DEF BackupExit, Taken, One, TypeOK
        <3>3. QED
            BY <3>1, <3>2, <1>15, <2>1, <1>p, <1>t, <1>s
               DEF BackupExit, Tokens, TypeOK, callers
    <2>2. CASE q # p
        BY <1>15, <2>2, <1>p DEF BackupExit, Tokens, Taken, TypeOK, callers
    <2>3. QED
        BY <2>1, <2>2
<1>16. QED
    BY <1>1, <1>2, <1>3, <1>4, <1>5, <1>6, <1>7, <1>8, <1>9, <1>10, <1>11, <1>12,
       <1>13, <1>14, <1>15 DEF Next, Shutdown, Removal, GC, Backup

(* The type invariant and the accounting of closeChan's tokens hold in     *)
(* every state of newPartition, RemovePartition, Shutdown and the two      *)
(* goroutines.                                                             *)
THEOREM TokensAccounted == Spec => [](TypeOK /\ TokensInv)
<1>1. Init => TypeOK /\ TokensInv
    BY DEF Init, TypeOK, TokensInv, Tokens, Taken, One, SentBeforeRemoval, SentBeforeHalt,
           CloseChanCap, RemoveAll, ShutdownDone
<1>2. TypeOK /\ TokensInv /\ [Next]_vars => (TypeOK /\ TokensInv)'
    BY NextTyped, TokensStep
<1>3. QED
    BY <1>1, <1>2, PTL DEF Spec

(* Every state of newPartition, RemovePartition, Shutdown and the two      *)
(* goroutines has its type: closeChan never holds more tokens than its     *)
(* capacity, and every goroutine is at one of its own steps.               *)
THEOREM LifecycleTyped == Spec => []TypeOK
BY TokensAccounted, PTL

(* A partition whose directory RemovePartition has deleted has no garbage  *)
(* collector and no backup loop left, although Shutdown never waits for    *)
(* them.                                                                   *)
THEOREM DeletedPartitionsAreQuiet == Spec => []NoStrayGoroutines
<1>1. TokensInv => NoStrayGoroutines
    BY DEF TokensInv, Tokens, NoStrayGoroutines
<1>2. QED
    BY <1>1, TokensAccounted, PTL
=============================================================================
