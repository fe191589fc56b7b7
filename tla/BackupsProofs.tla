--------------------------- MODULE BackupsProofs ---------------------------
(* Proofs about Backups for any number of nodes, keys, records, backups,   *)
(* crashes and removals, every workload and every expression engine.       *)
EXTENDS Backups, RecordsProofs

-----------------------------------------------------------------------------
(* The inductive invariant                                                 *)

(* The row of k after the record at offset o, in a history of the rows. *)
Row(st, o, k) == st[o + 2][k]

(* Each state of the rows is the one before with the next record applied,  *)
(* and CreatedAt of a row changes only if the row is deleted in between.   *)
LogInv ==
    /\ states[1] = Empty
    /\ \A o \in 0 .. Len(log) - 1 : states[o + 2] = HandleMutation(states[o + 1], log[o + 1])
    /\ \A k \in Keys : \A p \in -1 .. Len(log) - 1 : \A d \in p .. Len(log) - 1 :
         Row(states, p, k) # Absent /\ Row(states, d, k) # Absent =>
             \/ Row(states, p, k).created = Row(states, d, k).created
             \/ \E m \in p + 1 .. d : Row(states, m, k) = Absent

(* The row belongs to some offset p from o to d, except perhaps for        *)
(* CreatedAt, which is then the one it will have at d, or is forgotten in  *)
(* a delete before.  Replaying the records from o to d leads such a row to *)
(* the one after d.                                                        *)
Ahead(st, row, k, o, d) ==
    \E p \in o .. d :
        \/ row = Row(st, p, k)
        \/ /\ row # Absent /\ Row(st, p, k) # Absent
           /\ row.data = Row(st, p, k).data /\ row.updated = Row(st, p, k).updated
           /\ \/ Row(st, d, k) # Absent /\ row.created = Row(st, d, k).created
              \/ \E m \in p + 1 .. d : Row(st, m, k) = Absent

Later(a, b) == IF a >= b THEN a ELSE b

(* The records behind o lead the copy back to the log. *)
Follows(st, copy, o) ==
    copy.clean => \A k \in Keys : Ahead(st, copy.kv[k], k, o, Later(o, copy.sure))

(* The offsets of a copy are in the log. *)
InLog(copy) == copy.off < Len(log) /\ copy.sure < Len(log)

(* So is every other offset somebody holds; a transaction has a record and *)
(* an open database.                                                       *)
BoundsInv ==
    /\ \A n \in Nodes :
        /\ disk[n] # NoDB => InLog(disk[n])
        /\ txn[n] => phase[n] = "open" /\ start <= next[n] /\ next[n] < Len(log)
        /\ last[n] < Len(log)
        /\ job[n] # NoObject =>
             /\ job[n].name < Len(log)
             /\ job[n].dump # NoObject => InLog(job[n].dump.copy)
    /\ \A o \in Offsets : bucket[o] # NoObject => o < Len(log) /\ InLog(bucket[o].copy)

(* Every copy, wherever it is stored, follows the log from its offset on,  *)
(* and an open one from the client's position on.                          *)
FollowInv ==
    /\ \A n \in Nodes :
        /\ disk[n] # NoDB => Follows(states, disk[n], disk[n].off)
        /\ phase[n] = "open" => Follows(states, disk[n], next[n] - 1)
        /\ job[n] # NoObject =>
             (job[n].dump # NoObject => Follows(states, job[n].dump.copy, job[n].dump.copy.off))
    /\ \A o \in Offsets : bucket[o] # NoObject => Follows(states, bucket[o].copy, bucket[o].copy.off)

(* A dump has a cell for everything the copy it was taken of held; only an *)
(* object that was cut short lacks some.                                   *)
WholeInv ==
    /\ \A n \in Nodes : job[n] # NoObject =>
         (job[n].dump # NoObject => Live(job[n].dump.copy) \subseteq job[n].dump.cells)
    /\ \A o \in Offsets : bucket[o] # NoObject =>
         (bucket[o].copy.clean => Live(bucket[o].copy) \subseteq bucket[o].cells)

(* The newest backup is found, if there is one above offset 0, and what    *)
(* retention dropped is covered by a backup and behind every open copy.    *)
RetentionInv ==
    /\ (\E o \in Offsets \ {0} : bucket[o] # NoObject) => Newest # {}
    /\ start > 0 => \E o \in Offsets : o >= start - 1 /\ bucket[o] # NoObject
    /\ \A n \in Nodes : phase[n] = "open" => next[n] >= start \/ start = 1

-----------------------------------------------------------------------------
(* Types                                                                   *)

(* The library's Max of two numbers. *)
LEMMA MaxIsLater ==
    ASSUME NEW a \in Int, NEW b \in Int
    PROVE  Max({a, b}) = Later(a, b)
<1> DEFINE P(x) == x \in {a, b} /\ \A y \in {a, b} : x >= y
<1>1. P(Later(a, b))
    BY DEF Later
<1>2. P(CHOOSE x : P(x))
    BY <1>1
<1>3. Max({a, b}) = CHOOSE x : P(x)
    BY DEF Max
<1>4. QED
    BY <1>2, <1>3 DEF Later

(* A new directory is a copy without rows. *)
LEMMA EmptyCopyType ==
    /\ EmptyCopy \in Copy /\ EmptyCopy # NoDB
    /\ EmptyCopy.off = NoOffset /\ EmptyCopy.sure = NoOffset /\ EmptyCopy.kv = Empty
<1>1. EmptyCopy \in Copy
    BY NoRows DEF EmptyCopy, Copy
<1>2. QED
    BY <1>1, NoDBIsNoCopy DEF EmptyCopy

(* Opening a directory, old or new, gives a copy. *)
LEMMA LocalCopyType ==
    ASSUME TypeOK, NEW n \in Nodes
    PROVE  /\ LocalCopy(n) \in Copy /\ LocalCopy(n) # NoDB
           /\ BoundsInv => InLog(LocalCopy(n))
<1>1. LocalCopy(n) \in Copy /\ LocalCopy(n) # NoDB
    BY EmptyCopyType, NoDBIsNoCopy DEF TypeOK, LocalCopy
<1>2. Len(log) \in Nat
    BY DEF TypeOK
<1>3. ASSUME BoundsInv PROVE InLog(LocalCopy(n))
    BY <1>2, <1>3, EmptyCopyType DEF BoundsInv, InLog, LocalCopy, NoOffset
<1>4. QED
    BY <1>1, <1>3

(* So does loading cells of an object over it; the offsets are those of    *)
(* the directory or of the object.                                         *)
LEMMA RestoredType ==
    ASSUME TypeOK, BoundsInv, NEW n \in Nodes, NEW o \in Newest, NEW C \in SUBSET Cells
    PROVE  /\ Restored(LocalCopy(n), o, C) \in Copy
           /\ Restored(LocalCopy(n), o, C) # NoDB
           /\ InLog(Restored(LocalCopy(n), o, C))
           /\ o \in Offsets /\ o < Len(log)
<1> DEFINE copy == LocalCopy(n)
           dump == bucket[o].copy
           new == Restored(copy, o, C)
<1>1. o \in Offsets /\ bucket[o] # NoObject
    BY DEF Newest
<1>2. bucket[o] \in Object /\ dump \in Copy
    BY <1>1 DEF TypeOK, Object
<1>3. copy \in Copy
    BY LocalCopyType
<1>4. Merged(copy, dump, C).kv \in Contents
    BY <1>2, <1>3 DEF Merged, Copy, Contents
<1>5. Merged(copy, dump, C).off \in {dump.off, copy.off}
    BY DEF Merged
<1>6. /\ dump.sure \in Int /\ dump.off \in Int
      /\ dump.sure \in Offsets \cup {NoOffset} /\ dump.off \in Offsets \cup {NoOffset}
      /\ copy.off \in Offsets \cup {NoOffset}
    BY <1>2, <1>3 DEF Copy, Offsets, NoOffset
<1>7. new.sure \in {dump.sure, dump.off}
    BY <1>6, MaxIsLater DEF Restored, Later
<1>8. /\ new = [kv |-> new.kv, off |-> new.off, sure |-> new.sure, clean |-> new.clean]
      /\ new.kv = Merged(copy, dump, C).kv /\ new.off = Merged(copy, dump, C).off
      /\ new.clean \in BOOLEAN
    <2>1. dump.clean \in BOOLEAN
        BY <1>2 DEF Copy
    <2>2. QED
        BY <2>1 DEF Restored
<1> HIDE DEF copy, dump, new
<1>9. new \in Copy
    BY <1>4, <1>5, <1>6, <1>7, <1>8 DEF Copy
<1>10. InLog(new)
    <2>1. dump.off < Len(log) /\ dump.sure < Len(log) /\ copy.off < Len(log)
        BY <1>1, LocalCopyType DEF BoundsInv, InLog, dump, copy
    <2>2. QED
        BY <2>1, <1>5, <1>7, <1>8 DEF InLog
<1>11. o < Len(log)
    BY <1>1 DEF BoundsInv
<1>12. QED
    BY <1>1, <1>9, <1>10, <1>11, NoDBIsNoCopy DEF copy, new

(* A copy with its mark replaced, and with all but `sure' replaced, in the *)
(* order of Commit and in that of UploadCut.                               *)
Marked(c, v) == [c EXCEPT !.clean = v]

Committed(c, a, b, v) == [[[c EXCEPT !.kv = a] EXCEPT !.off = b] EXCEPT !.clean = v]

Cut(c, a, b, v) == [[[c EXCEPT !.clean = v] EXCEPT !.kv = a] EXCEPT !.off = b]

LEMMA CopyFields ==
    ASSUME NEW c \in Copy, NEW a, NEW b, NEW v
    PROVE  /\ Marked(c, v) = [kv |-> c.kv, off |-> c.off, sure |-> c.sure, clean |-> v]
           /\ Committed(c, a, b, v) = [kv |-> a, off |-> b, sure |-> c.sure, clean |-> v]
           /\ Cut(c, a, b, v) = [kv |-> a, off |-> b, sure |-> c.sure, clean |-> v]
<1>1. PICK p, q, r, s : c = [kv |-> p, off |-> q, sure |-> r, clean |-> s]
    BY DEF Copy
<1>2. [c EXCEPT !.clean = v] = [kv |-> p, off |-> q, sure |-> r, clean |-> v]
    BY <1>1
<1>3. [c EXCEPT !.kv = a] = [kv |-> a, off |-> q, sure |-> r, clean |-> s]
    BY <1>1
<1>4. [[kv |-> a, off |-> q, sure |-> r, clean |-> s] EXCEPT !.off = b]
        = [kv |-> a, off |-> b, sure |-> r, clean |-> s]
    OBVIOUS
<1>5. [[kv |-> a, off |-> b, sure |-> r, clean |-> s] EXCEPT !.clean = v]
        = [kv |-> a, off |-> b, sure |-> r, clean |-> v]
    OBVIOUS
<1>6. [[kv |-> p, off |-> q, sure |-> r, clean |-> v] EXCEPT !.kv = a]
        = [kv |-> a, off |-> q, sure |-> r, clean |-> v]
    OBVIOUS
<1>7. [[kv |-> a, off |-> q, sure |-> r, clean |-> v] EXCEPT !.off = b]
        = [kv |-> a, off |-> b, sure |-> r, clean |-> v]
    OBVIOUS
<1>8. c.kv = p /\ c.off = q /\ c.sure = r
    BY <1>1
<1>9. QED
    BY <1>2, <1>3, <1>4, <1>5, <1>6, <1>7, <1>8 DEF Marked, Committed, Cut

(* Commit writes the row of the record and the offset row; Skip and        *)
(* FailRecord leave both as they are, and none touches `sure'.             *)
LEMMA CommittedCopy ==
    ASSUME TypeOK, BoundsInv, NEW n \in Nodes, Commit(n)
    PROVE  /\ disk[n] \in Copy /\ next[n] \in 0 .. Len(log) - 1
           /\ phase[n] = "open" /\ Record(n) \in RecordMutation
           /\ disk' \in [Nodes -> Copy \cup {NoDB}] /\ disk'[n] \in Copy
           /\ \A i \in Nodes \ {n} : disk'[i] = disk[i]
           /\ disk'[n].kv = HandleMutation(disk[n].kv, Record(n))
           /\ disk'[n].off = next[n] /\ disk'[n].sure = disk[n].sure
           /\ disk'[n].clean = (disk[n].clean /\ ~ Rejudged(n))
<1>1. phase[n] = "open" /\ next[n] \in 0 .. Len(log) - 1 /\ disk[n] \in Copy
    BY DEF TypeOK, BoundsInv, Commit
<1>2. Record(n) \in RecordMutation
    BY <1>1 DEF TypeOK, Record
<1>3. HandleMutation(disk[n].kv, Record(n)) \in Contents
    BY <1>1, <1>2, MutationWrites DEF Copy
<1>4. next[n] \in Offsets
    BY <1>1, BoundsType DEF TypeOK, Offsets
<1>5. (disk[n].clean /\ ~ Rejudged(n)) \in BOOLEAN
    OBVIOUS
<1> DEFINE c == [kv |-> HandleMutation(disk[n].kv, Record(n)), off |-> next[n],
                 sure |-> disk[n].sure, clean |-> disk[n].clean /\ ~ Rejudged(n)]
<1>6. c \in Copy
    BY <1>1, <1>3, <1>4, <1>5 DEF Copy
<1>7. disk' = [disk EXCEPT ![n] = c]
    <2> DEFINE v == disk[n].clean /\ ~ Rejudged(n)
               kv == HandleMutation(disk[n].kv, Record(n))
    <2>1. Committed(disk[n], kv, next[n], v) = c
        BY <1>1, CopyFields
    <2>2. disk' = [disk EXCEPT ![n] = Committed(disk[n], kv, next[n], v)]
        BY <1>1 DEF Commit, TypeOK, Committed, Copy
    <2>3. QED
        BY <2>1, <2>2
<1>8. disk'[n] = c /\ disk' \in [Nodes -> Copy \cup {NoDB}]
      /\ \A i \in Nodes \ {n} : disk'[i] = disk[i]
    BY <1>6, <1>7 DEF TypeOK
<1>9. QED
    BY <1>1, <1>2, <1>6, <1>8

(* The record at the client's position is passed over, and the client goes *)
(* on at e.                                                                *)
PassOver(n, e) == (Skip(n) /\ e = next[n] + 1) \/ FailRecord(n, e)

LEMMA PassedCopy ==
    ASSUME TypeOK, NEW n \in Nodes, NEW e \in 0 .. Len(log), PassOver(n, e)
    PROVE  /\ disk[n] \in Copy /\ next[n] \in 0 .. Len(log) - 1
           /\ phase[n] = "open" /\ Record(n) \in RecordMutation
           /\ HandleMutation(disk[n].kv, Record(n)) = disk[n].kv
           /\ disk' \in [Nodes -> Copy \cup {NoDB}] /\ disk'[n] \in Copy
           /\ \A i \in Nodes \ {n} : disk'[i] = disk[i]
           /\ disk'[n].kv = disk[n].kv
           /\ disk'[n].off = disk[n].off /\ disk'[n].sure = disk[n].sure
           /\ disk'[n].clean = (disk[n].clean /\ ~ Rejudged(n) /\ e = next[n] + 1)
           /\ next' = [next EXCEPT ![n] = e] /\ e > next[n] /\ ~ txn[n]
           /\ UNCHANGED <<log, states, start, phase, last, txn, job, bucket, events>>
<1> DEFINE v == disk[n].clean /\ ~ Rejudged(n) /\ e = next[n] + 1
<1>1. next[n] \in 0 .. Len(log) - 1 /\ disk[n] \in Copy /\ phase[n] = "open"
    BY DEF TypeOK, PassOver, Skip, FailRecord, Fetched
<1>2. Record(n) \in RecordMutation
    BY <1>1 DEF TypeOK, Record
<1>3. HandleMutation(disk[n].kv, Record(n)) = disk[n].kv
    BY DEF PassOver, Skip, FailRecord, HandleMutation
<1>4. v \in BOOLEAN
    OBVIOUS
<1> DEFINE c == [kv |-> disk[n].kv, off |-> disk[n].off, sure |-> disk[n].sure, clean |-> v]
<1>5. c \in Copy
    BY <1>1, <1>4 DEF Copy
<1>6. disk' = [disk EXCEPT ![n] = c]
    <2>1. Marked(disk[n], v) = c
        BY <1>1, CopyFields
    <2>2. disk' = [disk EXCEPT ![n] = Marked(disk[n], v)]
        <3>1. CASE Skip(n) /\ e = next[n] + 1
            <4>1. v = (disk[n].clean /\ ~ Rejudged(n))
                BY <3>1
            <4>2. disk' = [disk EXCEPT ![n] = Marked(disk[n], disk[n].clean /\ ~ Rejudged(n))]
                BY <3>1 DEF Skip, TypeOK, Marked
            <4>3. QED
                BY <4>1, <4>2
        <3>2. CASE FailRecord(n, e)
            BY <3>2 DEF FailRecord, TypeOK, Marked
        <3>3. QED
            BY <3>1, <3>2 DEF PassOver
    <2> HIDE DEF c, v
    <2>3. QED
        BY <2>1, <2>2
<1>7. disk'[n] = c /\ disk' \in [Nodes -> Copy \cup {NoDB}]
      /\ \A i \in Nodes \ {n} : disk'[i] = disk[i]
    BY <1>5, <1>6 DEF TypeOK
<1>8. /\ next' = [next EXCEPT ![n] = e] /\ e > next[n] /\ ~ txn[n]
      /\ UNCHANGED <<log, states, start, phase, last, txn, job, bucket, events>>
    BY <1>1 DEF PassOver, Skip, FailRecord, logVars
<1>9. QED
    BY <1>1, <1>2, <1>3, <1>5, <1>7, <1>8

LEMMA ExpiredCopy ==
    ASSUME TypeOK, NEW n \in Nodes, SkipExpired(n)
    PROVE  /\ disk[n] \in Copy
           /\ disk' \in [Nodes -> Copy \cup {NoDB}] /\ disk'[n] \in Copy
           /\ \A i \in Nodes \ {n} : disk'[i] = disk[i]
           /\ disk'[n].off = disk[n].off /\ disk'[n].sure = disk[n].sure
           /\ disk'[n].clean = FALSE
<1>1. disk[n] \in Copy
    BY DEF TypeOK, SkipExpired
<1> DEFINE c == [kv |-> disk[n].kv, off |-> disk[n].off,
                 sure |-> disk[n].sure, clean |-> FALSE]
<1>2. c \in Copy
    BY <1>1 DEF Copy
<1>3. disk' = [disk EXCEPT ![n] = c]
    <2>1. Marked(disk[n], FALSE) = c
        BY <1>1, CopyFields
    <2> HIDE DEF c
    <2>2. QED
        BY <2>1 DEF SkipExpired, TypeOK, Marked
<1>4. disk'[n] = c /\ disk' \in [Nodes -> Copy \cup {NoDB}]
      /\ \A i \in Nodes \ {n} : disk'[i] = disk[i]
    BY <1>2, <1>3 DEF TypeOK
<1>5. QED
    BY <1>1, <1>2, <1>4

(* The cut dump of UploadCut is an object. *)
CutDump(n, C) ==
    [copy |-> [EmptyCopy EXCEPT !.clean = FALSE,
                 !.kv = IF C = {} THEN Empty ELSE job[n].dump.copy.kv,
                 !.off = IF OffCell \in C THEN job[n].dump.copy.off ELSE NoOffset],
     cells |-> C]

LEMMA CutDumpType ==
    ASSUME TypeOK, BoundsInv, NEW n \in Nodes, NEW C \in SUBSET Cells, UploadCut(n, C)
    PROVE  /\ CutDump(n, C) \in Object
           /\ CutDump(n, C).copy.clean = FALSE
           /\ InLog(CutDump(n, C).copy)
           /\ job[n] \in Job /\ bucket' = [bucket EXCEPT ![job[n].name] = CutDump(n, C)]
<1>1. job[n] \in Job
    BY DEF TypeOK, UploadCut
<1>2. C # {} => job[n].dump \in Object /\ job[n].dump.copy \in Copy /\ InLog(job[n].dump.copy)
    <2>1. C # {} => job[n].dump # NoObject
        BY DEF UploadCut
    <2>2. QED
        BY <1>1, <2>1 DEF Job, Object, BoundsInv, UploadCut
<1> DEFINE kv == IF C = {} THEN Empty ELSE job[n].dump.copy.kv
           off == IF OffCell \in C THEN job[n].dump.copy.off ELSE NoOffset
<1>3. kv \in Contents /\ off \in Offsets \cup {NoOffset}
    BY <1>2, NoRows DEF Copy
<1>4. off < Len(log) /\ NoOffset < Len(log)
    BY <1>2 DEF InLog, TypeOK, NoOffset
<1> HIDE DEF kv, off
<1> DEFINE c == [kv |-> kv, off |-> off, sure |-> NoOffset, clean |-> FALSE]
<1>5. Cut(EmptyCopy, kv, off, FALSE) = c
    <2>1. EmptyCopy \in Copy /\ EmptyCopy.sure = NoOffset
        BY EmptyCopyType
    <2>2. \A v : Cut(EmptyCopy, kv, off, v)
                  = [kv |-> kv, off |-> off, sure |-> NoOffset, clean |-> v]
        BY <2>1, CopyFields
    <2>3. QED
        BY <2>2
<1>6. CutDump(n, C) = [copy |-> c, cells |-> C]
    BY <1>5 DEF CutDump, Cut, kv, off
<1>7. c \in Copy
    BY <1>3 DEF Copy
<1>8. InLog(c) /\ c.clean = FALSE
    BY <1>4 DEF InLog
<1> HIDE DEF c
<1>9. [copy |-> c, cells |-> C] \in Object
    BY <1>7 DEF Object
<1>10. bucket' = [bucket EXCEPT ![job[n].name] = CutDump(n, C)]
    BY DEF UploadCut, CutDump
<1>11. QED
    BY <1>1, <1>6, <1>8, <1>9, <1>10

(* DB.Backup's snapshot is a dump of the directory. *)
LEMMA SnapshotType ==
    ASSUME TypeOK, BoundsInv, NEW n \in Nodes, NEW C \in SUBSET Cells, Snapshot(n, C)
    PROVE  /\ disk[n] \in Copy /\ job[n] \in Job
           /\ [copy |-> disk[n], cells |-> C] \in Object
           /\ job' = [job EXCEPT ![n] = [name |-> job[n].name,
                                         dump |-> [copy |-> disk[n], cells |-> C]]]
<1>1. disk[n] \in Copy /\ job[n] \in Job
    BY DEF TypeOK, Snapshot
<1> DEFINE d == [copy |-> disk[n], cells |-> C]
<1>2. d \in Object
    BY <1>1 DEF Object
<1> HIDE DEF d
<1>3. PICK a \in Offsets, b \in Object \cup {NoObject} : job[n] = [name |-> a, dump |-> b]
    BY <1>1 DEF Job
<1>4. [job[n] EXCEPT !.dump = d] = [name |-> job[n].name, dump |-> d]
    BY <1>3
<1>5. job' = [job EXCEPT ![n] = [job[n] EXCEPT !.dump = d]]
    BY DEF Snapshot, TypeOK, d
<1>6. QED
    BY <1>1, <1>2, <1>4, <1>5 DEF d

LEMMA PassesOver ==
    ASSUME TypeOK, NEW n \in Nodes, Skip(n) \/ \E e \in 1 .. Len(log) : FailRecord(n, e)
    PROVE  \E e \in 0 .. Len(log) : PassOver(n, e)
<1>1. CASE Skip(n)
    <2>1. next[n] + 1 \in 0 .. Len(log)
        BY <1>1 DEF Skip, Fetched, TypeOK
    <2>2. QED
        BY <1>1, <2>1 DEF PassOver
<1>2. ASSUME NEW e \in 1 .. Len(log), FailRecord(n, e) PROVE e \in 0 .. Len(log) /\ PassOver(n, e)
    BY <1>2 DEF PassOver, TypeOK
<1>3. QED
    BY <1>1, <1>2

(* Every step keeps the types. *)
LEMMA TypeStep ==
    ASSUME TypeOK, BoundsInv, [Next]_vars
    PROVE  TypeOK'
<1> USE DEF logVars, partVars
<1>0. CASE UNCHANGED vars
    BY <1>0 DEF vars, TypeOK
<1>1. ASSUME NEW m \in UNION {Workload[o] : o \in Offsets}, Produce(m) PROVE TypeOK'
    <2>1. m \in RecordMutation
        BY WorkloadType DEF Offsets
    <2>2. states[Len(states)] \in Contents
        BY DEF TypeOK
    <2>3. HandleMutation(states[Len(states)], m) \in Contents
        BY <2>1, <2>2, MutationWrites
    <2>4. /\ log' \in Seq(RecordMutation) /\ Len(log') = Len(log) + 1 /\ Len(log') <= MaxLog
          /\ states' \in Seq(Contents) /\ Len(states') = Len(states) + 1
        BY <1>1, <2>1, <2>3, BoundsType DEF Produce, TypeOK
    <2>5. start \in 0 .. Len(log') /\ next \in [Nodes -> 0 .. Len(log')]
        BY <2>4 DEF TypeOK
    <2>6. QED
        BY <1>1, <2>4, <2>5 DEF Produce, TypeOK
<1>2. ASSUME NEW s \in 0 .. Len(log), Expire(s) PROVE TypeOK'
    BY <1>2 DEF Expire, TypeOK
<1>3. ASSUME NEW n \in Nodes, OpenLocal(n) PROVE TypeOK'
    <2>1. LocalCopy(n) \in Copy /\ LocalCopy(n) # NoDB /\ InLog(LocalCopy(n))
        BY LocalCopyType
    <2>2. LocalCopy(n).off \in Offsets \cup {NoOffset}
        BY <2>1 DEF Copy
    <2>3. LocalCopy(n).off \in Int /\ LocalCopy(n).off + 1 \in 0 .. Len(log)
        BY <2>1, <2>2 DEF InLog, Offsets, NoOffset, TypeOK
    <2> DEFINE c == LocalCopy(n)
    <2> HIDE DEF c
    <2>4. /\ c \in Copy /\ c # NoDB /\ c.off \in Offsets \cup {NoOffset} /\ c.off \in Int
          /\ c.off + 1 \in 0 .. Len(log)
        BY <2>1, <2>2, <2>3 DEF c
    <2>5. /\ disk' = [disk EXCEPT ![n] = c] /\ phase' = [phase EXCEPT ![n] = "open"]
          /\ last' = [last EXCEPT ![n] = c.off] /\ next' = [next EXCEPT ![n] = c.off + 1]
          /\ UNCHANGED <<log, states, start, txn, job, bucket, events>>
        BY <1>3 DEF OpenLocal, Opened, ResetOffset, c
    <2>6. QED
        BY <2>4, <2>5 DEF TypeOK, Phases
<1>4. ASSUME NEW n \in Nodes, UpdateOffsetInTx(n) PROVE TypeOK'
    <2>1. next[n] \in Offsets
        BY <1>4, BoundsType DEF UpdateOffsetInTx, Fetched, TypeOK, Offsets
    <2>2. QED
        BY <1>4, <2>1 DEF UpdateOffsetInTx, Fetched, TypeOK, Offsets, NoOffset
<1>5. ASSUME NEW n \in Nodes, Commit(n) PROVE TypeOK'
    <2>1. /\ disk' \in [Nodes -> Copy \cup {NoDB}] /\ disk'[n] # NoDB
          /\ \A i \in Nodes \ {n} : disk'[i] = disk[i]
          /\ next[n] \in 0 .. Len(log) - 1 /\ phase[n] = "open"
        BY <1>5, CommittedCopy, NoDBIsNoCopy
    <2>2. /\ next' = [next EXCEPT ![n] = next[n] + 1] /\ txn' = [txn EXCEPT ![n] = FALSE]
          /\ txn[n]
          /\ UNCHANGED <<log, states, start, phase, last, job, bucket, events>>
        BY <1>5 DEF Commit
    <2>3. last[n] \in Int /\ next[n] \in Int /\ next[n] > last[n] - 1
        BY <2>1, <2>2, BoundsType DEF TypeOK, Offsets, NoOffset
    <2>4. next' \in [Nodes -> 0 .. Len(log)] /\ txn' \in [Nodes -> BOOLEAN]
        BY <2>1, <2>2 DEF TypeOK
    <2>5. \A i \in Nodes : phase[i] = "open" =>
            disk'[i] # NoDB /\ next'[i] > last[i] - (IF txn'[i] THEN 1 ELSE 0)
        <3>1. next'[n] > last[n] /\ txn'[n] = FALSE
            BY <2>2, <2>3 DEF TypeOK
        <3>2. \A i \in Nodes \ {n} : next'[i] = next[i] /\ txn'[i] = txn[i]
            BY <2>2 DEF TypeOK
        <3>3. last[n] - 0 = last[n]
            BY <2>3
        <3>4. QED
            BY <2>1, <3>1, <3>2, <3>3 DEF TypeOK
    <2>6. QED
        BY <2>1, <2>2, <2>4, <2>5 DEF TypeOK
<1>6. ASSUME NEW n \in Nodes, NEW e \in 0 .. Len(log), PassOver(n, e) PROVE TypeOK'
    <2>1. /\ disk' \in [Nodes -> Copy \cup {NoDB}] /\ disk'[n] # NoDB
          /\ \A i \in Nodes \ {n} : disk'[i] = disk[i]
          /\ next[n] \in 0 .. Len(log) - 1 /\ e > next[n]
          /\ next' = [next EXCEPT ![n] = e]
          /\ UNCHANGED <<log, states, start, phase, last, txn, job, bucket, events>>
        BY <1>6, PassedCopy, NoDBIsNoCopy
    <2>2. next' \in [Nodes -> 0 .. Len(log)] /\ \A i \in Nodes : next'[i] >= next[i]
        BY <2>1 DEF TypeOK
    <2>3. \A i \in Nodes : next[i] \in Int /\ next'[i] \in Int /\ last[i] \in Int
        BY <2>2, BoundsType DEF TypeOK, Offsets, NoOffset
    <2>4. \A i \in Nodes : phase[i] = "open" =>
            disk'[i] # NoDB /\ next'[i] > last[i] - (IF txn[i] THEN 1 ELSE 0)
        BY <2>1, <2>2, <2>3 DEF TypeOK
    <2>5. QED
        BY <2>1, <2>2, <2>4 DEF TypeOK
<1>7. ASSUME NEW n \in Nodes, SkipExpired(n) PROVE TypeOK'
    <2>1. /\ disk' \in [Nodes -> Copy \cup {NoDB}] /\ disk'[n] # NoDB
          /\ \A i \in Nodes \ {n} : disk'[i] = disk[i]
        BY <1>7, ExpiredCopy, NoDBIsNoCopy
    <2>2. /\ next' = [next EXCEPT ![n] = start] /\ next[n] < start
          /\ UNCHANGED <<log, states, start, phase, last, txn, job, bucket, events>>
        BY <1>7 DEF SkipExpired
    <2>3. /\ last[n] \in Int /\ next[n] \in Int
          /\ next[n] > last[n] - (IF txn[n] THEN 1 ELSE 0)
        BY <1>7, BoundsType DEF SkipExpired, TypeOK, Offsets, NoOffset
    <2>4. start > last[n] - (IF txn[n] THEN 1 ELSE 0) /\ start \in 0 .. Len(log)
        BY <2>2, <2>3 DEF TypeOK
    <2>5. QED
        BY <2>1, <2>2, <2>4 DEF TypeOK
<1>8. ASSUME NEW n \in Nodes, StartBackup(n) PROVE TypeOK'
    <2>1. last[n] \in Offsets
        BY <1>8 DEF StartBackup, TypeOK
    <2>2. [name |-> last[n], dump |-> NoObject] \in Job
        BY <2>1 DEF Job
    <2>3. QED
        BY <1>8, <2>2, BoundsType DEF StartBackup, Count, TypeOK
<1>9. ASSUME NEW n \in Nodes, Upload(n) PROVE TypeOK'
    <2>1. job[n] \in Job /\ job[n].dump # NoObject
        BY <1>9 DEF Upload, TypeOK
    <2>2. job[n].name \in Offsets /\ job[n].dump \in Object
        BY <2>1 DEF Job
    <2>3. QED
        BY <1>9, <2>2 DEF Upload, TypeOK
<1>10. ASSUME NEW n \in Nodes, UploadFails(n) PROVE TypeOK'
    BY <1>10 DEF UploadFails, TypeOK
<1>11. ASSUME NEW n \in Nodes, CloseDB(n) PROVE TypeOK'
    BY <1>11, BoundsType DEF CloseDB, Count, TypeOK, Phases
<1>12. ASSUME NEW n \in Nodes, DeleteDB(n) PROVE TypeOK'
    BY <1>12 DEF DeleteDB, TypeOK, Phases
<1>13. ASSUME NEW n \in Nodes, Crash(n) PROVE TypeOK'
    BY <1>13, BoundsType DEF Crash, Count, TypeOK, Phases
<1>14. ASSUME NEW n \in Nodes, NEW C \in SUBSET Cells, Snapshot(n, C) PROVE TypeOK'
    <2>1. /\ job[n] \in Job /\ [copy |-> disk[n], cells |-> C] \in Object
          /\ job' = [job EXCEPT ![n] = [name |-> job[n].name,
                                        dump |-> [copy |-> disk[n], cells |-> C]]]
        BY <1>14, SnapshotType
    <2>2. job[n].name \in Offsets
        BY <2>1 DEF Job
    <2>3. [name |-> job[n].name, dump |-> [copy |-> disk[n], cells |-> C]] \in Job
        BY <2>1, <2>2 DEF Job
    <2>4. job' \in [Nodes -> Job \cup {NoObject}]
        BY <2>1, <2>3 DEF TypeOK
    <2>5. QED
        BY <1>14, <2>4 DEF Snapshot, TypeOK
<1>15. ASSUME NEW n \in Nodes, NEW C \in SUBSET Cells, UploadCut(n, C) PROVE TypeOK'
    <2>1. /\ job[n] \in Job /\ CutDump(n, C) \in Object
          /\ bucket' = [bucket EXCEPT ![job[n].name] = CutDump(n, C)]
        BY <1>15, CutDumpType
    <2>2. job[n].name \in Offsets
        BY <2>1 DEF Job
    <2>3. bucket' \in [Offsets -> Object \cup {NoObject}]
        BY <2>1, <2>2 DEF TypeOK
    <2>4. /\ job' = [job EXCEPT ![n] = NoObject]
          /\ UNCHANGED <<log, states, start, disk, phase, last, next, txn, events>>
        BY <1>15 DEF UploadCut
    <2>5. QED
        BY <2>3, <2>4 DEF TypeOK
<1>16. ASSUME NEW n \in Nodes, NEW C \in SUBSET Cells, NEW o \in Offsets, Restore(n, o, C)
       PROVE  TypeOK'
    <2> DEFINE c == Restored(LocalCopy(n), o, C)
    <2>1. c \in Copy /\ c # NoDB /\ o < Len(log)
        BY <1>16, RestoredType DEF Restore
    <2>2. /\ disk' = [disk EXCEPT ![n] = c] /\ phase' = [phase EXCEPT ![n] = "open"]
          /\ last' = [last EXCEPT ![n] = o] /\ next' = [next EXCEPT ![n] = o + 1]
          /\ UNCHANGED <<log, states, start, txn, job, bucket, events>>
        BY <1>16 DEF Restore, Opened, ResetOffset
    <2> HIDE DEF c
    <2>3. o \in Int /\ o + 1 \in 0 .. Len(log)
        BY <2>1 DEF Offsets, TypeOK
    <2>4. QED
        BY <2>1, <2>2, <2>3 DEF TypeOK, Phases
<1>17. ASSUME NEW n \in Nodes, NEW C \in SUBSET Cells, NEW o \in Offsets, CrashInLoad(n, o, C)
       PROVE  TypeOK'
    <2> DEFINE c == Restored(LocalCopy(n), o, C)
    <2>1. c \in Copy /\ c # NoDB
        BY <1>17, RestoredType DEF CrashInLoad
    <2>2. /\ disk' = [disk EXCEPT ![n] = c] /\ Count
          /\ UNCHANGED <<log, states, start, phase, last, next, txn, job, bucket>>
        BY <1>17 DEF CrashInLoad
    <2> HIDE DEF c
    <2>3. QED
        BY <2>1, <2>2, BoundsType DEF TypeOK, Count
<1>18. QED
    BY <1>0, <1>1, <1>2, <1>3, <1>4, <1>5, <1>6, <1>7, <1>8, <1>9, <1>10, <1>11, <1>12,
       <1>13, <1>14, <1>15, <1>16, <1>17, PassesOver DEF Next

(* And keeps every offset within the log. *)
LEMMA BoundsStep ==
    ASSUME TypeOK, BoundsInv, [Next]_vars
    PROVE  BoundsInv'
<1> USE DEF logVars, partVars
<1>a. Len(log) \in Nat /\ Len(log)' \in Nat /\ TypeOK'
    BY TypeStep DEF TypeOK
<1>0. CASE UNCHANGED vars
    BY <1>0 DEF vars, BoundsInv, InLog
<1>1. ASSUME NEW m \in UNION {Workload[o] : o \in Offsets}, Produce(m) PROVE BoundsInv'
    <2>1. /\ Len(log') = Len(log) + 1
          /\ UNCHANGED <<start, disk, phase, last, next, txn, job, bucket>>
        BY <1>1 DEF Produce, TypeOK
    <2>2. \A x \in Int : x < Len(log) => x < Len(log')
        BY <1>a, <2>1
    <2>3. \A c \in Copy : c.off \in Int /\ c.sure \in Int
        BY BoundsType DEF Copy, Offsets, NoOffset
    <2>4. \A c \in Copy : InLog(c) => c.off < Len(log') /\ c.sure < Len(log')
        BY <2>2, <2>3 DEF InLog
    <2>5. \A n \in Nodes : next[n] \in Int /\ last[n] \in Int
        BY BoundsType DEF TypeOK, Offsets, NoOffset
    <2>6. \A n \in Nodes : job[n] # NoObject =>
             job[n].name \in Int /\ (job[n].dump # NoObject => job[n].dump.copy \in Copy)
        BY BoundsType DEF TypeOK, Job, Object, Offsets
    <2>7. \A o \in Offsets : o \in Int /\ (bucket[o] # NoObject => bucket[o].copy \in Copy)
        BY BoundsType DEF TypeOK, Object, Offsets
    <2>8. \A n \in Nodes : disk[n] # NoDB => disk[n] \in Copy
        BY DEF TypeOK
    <2>9. \A n \in Nodes :
            /\ disk'[n] # NoDB => InLog(disk[n])'
            /\ txn'[n] => phase'[n] = "open" /\ start' <= next'[n] /\ next'[n] < Len(log')
            /\ last'[n] < Len(log')
            /\ job'[n] # NoObject =>
                 /\ job'[n].name < Len(log')
                 /\ job'[n].dump # NoObject => InLog(job[n].dump.copy)'
        BY <2>1, <2>2, <2>4, <2>5, <2>6, <2>8 DEF BoundsInv, InLog
    <2>10. \A o \in Offsets : bucket'[o] # NoObject => o < Len(log') /\ InLog(bucket[o].copy)'
        BY <2>1, <2>2, <2>4, <2>7 DEF BoundsInv, InLog
    <2>11. QED
        BY <2>9, <2>10 DEF BoundsInv
<1>2. ASSUME NEW s \in 0 .. Len(log), Expire(s) PROVE BoundsInv'
    BY <1>2 DEF Expire, BoundsInv, InLog
<1>3. ASSUME NEW n \in Nodes, OpenLocal(n) PROVE BoundsInv'
    <2> DEFINE c == LocalCopy(n)
    <2>1. InLog(c)
        BY LocalCopyType
    <2>2. /\ disk' = [disk EXCEPT ![n] = c] /\ phase' = [phase EXCEPT ![n] = "open"]
          /\ last' = [last EXCEPT ![n] = c.off] /\ next' = [next EXCEPT ![n] = c.off + 1]
          /\ phase[n] = "closed"
          /\ UNCHANGED <<log, states, start, txn, job, bucket, events>>
        BY <1>3 DEF OpenLocal, Opened, ResetOffset
    <2> HIDE DEF c
    <2>3. QED
        BY <2>1, <2>2 DEF BoundsInv, InLog, TypeOK
<1>4. ASSUME NEW n \in Nodes, UpdateOffsetInTx(n) PROVE BoundsInv'
    BY <1>4 DEF UpdateOffsetInTx, Fetched, BoundsInv, InLog, TypeOK
<1>5. ASSUME NEW n \in Nodes, Commit(n) PROVE BoundsInv'
    <2>1. /\ \A i \in Nodes \ {n} : disk'[i] = disk[i]
          /\ disk'[n].off = next[n] /\ disk'[n].sure = disk[n].sure
          /\ disk[n] \in Copy /\ next[n] < Len(log)
        BY <1>5, <1>a, CommittedCopy
    <2>2. /\ next' = [next EXCEPT ![n] = next[n] + 1] /\ txn' = [txn EXCEPT ![n] = FALSE]
          /\ UNCHANGED <<log, states, start, phase, last, job, bucket, events>>
        BY <1>5 DEF Commit
    <2>3. QED
        BY <2>1, <2>2, NoDBIsNoCopy DEF BoundsInv, InLog, TypeOK
<1>6. ASSUME NEW n \in Nodes, NEW e \in 0 .. Len(log), PassOver(n, e) PROVE BoundsInv'
    <2>1. /\ \A i \in Nodes \ {n} : disk'[i] = disk[i]
          /\ disk'[n].off = disk[n].off /\ disk'[n].sure = disk[n].sure
          /\ disk[n] \in Copy
          /\ next' = [next EXCEPT ![n] = e] /\ ~ txn[n]
          /\ UNCHANGED <<log, states, start, phase, last, txn, job, bucket, events>>
        BY <1>6, PassedCopy
    <2>2. QED
        BY <2>1, NoDBIsNoCopy DEF BoundsInv, InLog, TypeOK
<1>7. ASSUME NEW n \in Nodes, SkipExpired(n) PROVE BoundsInv'
    <2>1. /\ \A i \in Nodes \ {n} : disk'[i] = disk[i]
          /\ disk'[n].off = disk[n].off /\ disk'[n].sure = disk[n].sure
          /\ disk[n] \in Copy
        BY <1>7, ExpiredCopy
    <2>2. /\ next' = [next EXCEPT ![n] = start] /\ next[n] < start
          /\ UNCHANGED <<log, states, start, phase, last, txn, job, bucket, events>>
        BY <1>7 DEF SkipExpired
    <2>3. ~ txn[n]
        BY <2>2 DEF BoundsInv, TypeOK
    <2>4. QED
        BY <2>1, <2>2, <2>3, NoDBIsNoCopy DEF BoundsInv, InLog, TypeOK
<1>8. ASSUME NEW n \in Nodes, StartBackup(n) PROVE BoundsInv'
    BY <1>8, NoObjectIsNothing DEF StartBackup, BoundsInv, InLog, TypeOK
<1>9. ASSUME NEW n \in Nodes, Upload(n) PROVE BoundsInv'
    <2>1. job[n] \in Job /\ job[n].dump # NoObject
        BY <1>9 DEF Upload, TypeOK
    <2>2. job[n].name \in Offsets
        BY <2>1 DEF Job
    <2>3. job[n].name < Len(log) /\ InLog(job[n].dump.copy)
        BY <1>9, <2>1 DEF Upload, BoundsInv
    <2>4. QED
        BY <1>9, <2>2, <2>3 DEF Upload, BoundsInv, InLog, TypeOK
<1>10. ASSUME NEW n \in Nodes, UploadFails(n) PROVE BoundsInv'
    BY <1>10 DEF UploadFails, BoundsInv, InLog, TypeOK
<1>11. ASSUME NEW n \in Nodes, CloseDB(n) PROVE BoundsInv'
    BY <1>11 DEF CloseDB, BoundsInv, InLog, TypeOK
<1>12. ASSUME NEW n \in Nodes, DeleteDB(n) PROVE BoundsInv'
    BY <1>12, <1>a DEF DeleteDB, BoundsInv, InLog, TypeOK, NoOffset
<1>13. ASSUME NEW n \in Nodes, Crash(n) PROVE BoundsInv'
    BY <1>13, <1>a DEF Crash, BoundsInv, InLog, TypeOK, NoOffset
<1>14. ASSUME NEW n \in Nodes, NEW C \in SUBSET Cells, Snapshot(n, C) PROVE BoundsInv'
    <2> DEFINE j == [name |-> job[n].name, dump |-> [copy |-> disk[n], cells |-> C]]
    <2>1. disk[n] \in Copy /\ job[n] \in Job /\ job' = [job EXCEPT ![n] = j]
        BY <1>14, SnapshotType
    <2>2. j.name = job[n].name /\ j.dump.copy = disk[n]
        OBVIOUS
    <2> HIDE DEF j
    <2>3. j.name < Len(log) /\ InLog(j.dump.copy)
        BY <1>14, <2>1, <2>2, NoDBIsNoCopy DEF Snapshot, BoundsInv
    <2>4. UNCHANGED <<log, states, start, disk, phase, last, next, txn, bucket, events>>
        BY <1>14 DEF Snapshot
    <2>5. QED
        BY <2>1, <2>3, <2>4 DEF BoundsInv, InLog, TypeOK
<1>15. ASSUME NEW n \in Nodes, NEW C \in SUBSET Cells, UploadCut(n, C) PROVE BoundsInv'
    <2> DEFINE d == CutDump(n, C)
    <2>1. /\ job[n] \in Job /\ InLog(d.copy)
          /\ bucket' = [bucket EXCEPT ![job[n].name] = d]
        BY <1>15, CutDumpType
    <2> HIDE DEF d
    <2>2. job[n].name \in Offsets /\ job[n].name < Len(log)
        BY <1>15, <2>1 DEF Job, UploadCut, BoundsInv
    <2>3. /\ job' = [job EXCEPT ![n] = NoObject]
          /\ UNCHANGED <<log, states, start, disk, phase, last, next, txn, events>>
        BY <1>15 DEF UploadCut
    <2>4. QED
        BY <2>1, <2>2, <2>3 DEF BoundsInv, InLog, TypeOK
<1>16. ASSUME NEW n \in Nodes, NEW C \in SUBSET Cells, NEW o \in Offsets, Restore(n, o, C)
       PROVE  BoundsInv'
    <2> DEFINE c == Restored(LocalCopy(n), o, C)
    <2>1. InLog(c) /\ o < Len(log)
        BY <1>16, RestoredType DEF Restore
    <2>2. /\ disk' = [disk EXCEPT ![n] = c] /\ phase' = [phase EXCEPT ![n] = "open"]
          /\ last' = [last EXCEPT ![n] = o] /\ next' = [next EXCEPT ![n] = o + 1]
          /\ phase[n] = "closed"
          /\ UNCHANGED <<log, states, start, txn, job, bucket, events>>
        BY <1>16 DEF Restore, Opened, ResetOffset
    <2> HIDE DEF c
    <2>3. QED
        BY <2>1, <2>2 DEF BoundsInv, InLog, TypeOK
<1>17. ASSUME NEW n \in Nodes, NEW C \in SUBSET Cells, NEW o \in Offsets, CrashInLoad(n, o, C)
       PROVE  BoundsInv'
    <2> DEFINE c == Restored(LocalCopy(n), o, C)
    <2>1. InLog(c)
        BY <1>17, RestoredType DEF CrashInLoad
    <2>2. /\ disk' = [disk EXCEPT ![n] = c]
          /\ UNCHANGED <<log, states, start, phase, last, next, txn, job, bucket>>
        BY <1>17 DEF CrashInLoad
    <2> HIDE DEF c
    <2>3. QED
        BY <2>1, <2>2 DEF BoundsInv, InLog, TypeOK
<1>18. QED
    BY <1>0, <1>1, <1>2, <1>3, <1>4, <1>5, <1>6, <1>7, <1>8, <1>9, <1>10, <1>11, <1>12,
       <1>13, <1>14, <1>15, <1>16, <1>17, PassesOver DEF Next

-----------------------------------------------------------------------------
(* The log and the rows it stands for                                      *)

(* The rows after every offset, and the record that made them. *)
LEMMA RowsTyped ==
    ASSUME TypeOK
    PROVE  /\ \A o \in -1 .. Len(log) - 1 : states[o + 2] \in Contents
           /\ \A o \in 0 .. Len(log) - 1 : log[o + 1] \in RecordMutation
           /\ Len(log) \in Nat
<1>1. Len(log) \in Nat /\ Len(states) = Len(log) + 1
    BY DEF TypeOK
<1>2. \A o \in -1 .. Len(log) - 1 : o + 2 \in 1 .. Len(states)
    BY <1>1
<1>3. \A o \in 0 .. Len(log) - 1 : o + 1 \in 1 .. Len(log)
    BY <1>1
<1>4. QED
    BY <1>1, <1>2, <1>3 DEF TypeOK

(* A produced record adds a state of the rows and changes none. *)
LEMMA Produced ==
    ASSUME TypeOK, NEW m, m \in RecordMutation, Produce(m)
    PROVE  /\ Len(log') = Len(log) + 1 /\ log'[Len(log) + 1] = m
           /\ \A o \in 0 .. Len(log) - 1 : log'[o + 1] = log[o + 1]
           /\ \A o \in -1 .. Len(log) - 1 : states'[o + 2] = states[o + 2]
           /\ states'[Len(log) + 2] = HandleMutation(states[Len(log) + 1], m)
<1>1. Len(log) \in Nat /\ Len(states) = Len(log) + 1 /\ log \in Seq(RecordMutation)
      /\ states \in Seq(Contents)
    BY DEF TypeOK
<1>2. HandleMutation(states[Len(states)], m) \in Contents
    BY <1>1, MutationWrites
<1> DEFINE kv == HandleMutation(states[Len(states)], m)
<1>3. log' = Append(log, m) /\ states' = Append(states, kv)
    BY DEF Produce
<1> HIDE DEF kv
<1>4. /\ Len(log') = Len(log) + 1 /\ log'[Len(log) + 1] = m
      /\ \A i \in 1 .. Len(log) : log'[i] = log[i]
    BY <1>1, <1>3
<1>5. /\ states'[Len(states) + 1] = kv
      /\ \A i \in 1 .. Len(states) : states'[i] = states[i]
    BY <1>1, <1>2, <1>3 DEF kv
<1>6. \A o \in 0 .. Len(log) - 1 : o + 1 \in 1 .. Len(log)
    BY <1>1
<1>7. \A o \in -1 .. Len(log) - 1 : o + 2 \in 1 .. Len(states)
    BY <1>1
<1>8. Len(states) + 1 = Len(log) + 2
    BY <1>1
<1>9. QED
    BY <1>1, <1>4, <1>5, <1>6, <1>7, <1>8 DEF kv

(* The history stays what the log makes of no rows. *)
LEMMA LogStep ==
    ASSUME TypeOK, LogInv, [Next]_vars
    PROVE  LogInv'
<1>1. CASE UNCHANGED <<log, states>>
    BY <1>1 DEF LogInv, Row
<1>2. ASSUME NEW m \in UNION {Workload[o] : o \in Offsets}, Produce(m) PROVE LogInv'
    <2>0. PICK L \in Nat : L = Len(log)
        BY RowsTyped
    <2>1. m \in RecordMutation
        BY WorkloadType DEF Offsets
    <2>2. /\ Len(log') = L + 1 /\ log'[L + 1] = m
          /\ \A o \in 0 .. L - 1 : log'[o + 1] = log[o + 1]
          /\ \A o \in -1 .. L - 1 : states'[o + 2] = states[o + 2]
          /\ states'[L + 2] = HandleMutation(states[L + 1], m)
        BY <1>2, <2>0, <2>1, Produced
    <2>3. L \in Nat /\ \A o \in -1 .. L - 1 : states[o + 2] \in Contents
        BY <2>0, RowsTyped
    <2>4. states[L + 1] \in Contents /\ states'[L + 1] = states[L + 1] /\ states'[1] = states[1]
        <3>1. L - 1 \in -1 .. L - 1 /\ -1 \in -1 .. L - 1 /\ (L - 1) + 2 = L + 1 /\ -1 + 2 = 1
            BY <2>3
        <3>2. /\ states[(L - 1) + 2] \in Contents /\ states'[(L - 1) + 2] = states[(L - 1) + 2]
              /\ states'[-1 + 2] = states[-1 + 2]
            BY <3>1, <2>2, <2>3
        <3>3. QED
            BY <3>1, <3>2
    <2>5. \A o \in 0 .. L : states'[o + 2] = HandleMutation(states'[o + 1], log'[o + 1])
        <3>1. SUFFICES ASSUME NEW o \in 0 .. L - 1
              PROVE  states'[o + 2] = HandleMutation(states'[o + 1], log'[o + 1])
            BY <2>2, <2>3, <2>4
        <3>2. o - 1 \in -1 .. L - 1 /\ (o - 1) + 2 = o + 1 /\ o \in -1 .. L - 1
            BY <2>3
        <3>3. states'[o + 1] = states[o + 1] /\ states'[o + 2] = states[o + 2]
            BY <2>2, <3>2
        <3>4. QED
            BY <2>0, <2>2, <3>3 DEF LogInv
    <2>6. ASSUME NEW k \in Keys, NEW p \in -1 .. L, NEW d \in p .. L,
                 Row(states', p, k) # Absent, Row(states', d, k) # Absent
          PROVE  \/ Row(states', p, k).created = Row(states', d, k).created
                 \/ \E i \in p + 1 .. d : Row(states', i, k) = Absent
        <3>1. \A o \in -1 .. L - 1 : Row(states', o, k) = Row(states, o, k)
            BY <2>2 DEF Row
        <3>2. CASE p = d
            BY <3>2
        <3>3. CASE d < L
            <4>1. p \in -1 .. L - 1 /\ d \in p .. L - 1 /\ \A i \in p + 1 .. d : i \in -1 .. L - 1
                BY <2>3, <3>3
            <4>2. QED
                BY <2>0, <2>6, <3>1, <4>1 DEF LogInv
        <3>4. CASE d = L /\ p # d
            <4>1. p \in -1 .. L - 1 /\ L - 1 \in p .. L - 1 /\ L - 1 \in -1 .. L - 1
                BY <2>3, <3>4
            <4>2. Row(states', p, k) = Row(states, p, k) /\ Row(states', L - 1, k) = Row(states, L - 1, k)
                BY <3>1, <4>1
            <4>3. CASE Row(states, L - 1, k) = Absent
                <5>1. L - 1 \in p + 1 .. d
                    BY <2>3, <2>6, <3>4, <4>1, <4>2, <4>3
                <5>2. QED
                    BY <4>2, <4>3, <5>1
            <4>4. CASE Row(states, L - 1, k) # Absent
                <5>1. \/ Row(states, p, k).created = Row(states, L - 1, k).created
                      \/ \E i \in p + 1 .. L - 1 : Row(states, i, k) = Absent
                    BY <2>0, <2>6, <4>1, <4>2, <4>4 DEF LogInv
                <5>2. Row(states, L - 1, k) = states[L + 1][k] /\ Row(states', d, k) = states'[L + 2][k]
                    BY <2>3, <3>4 DEF Row
                <5>3. Row(states', d, k).created = Row(states, L - 1, k).created
                    BY <2>1, <2>2, <2>4, <2>6, <4>4, <5>2, CreatedKept
                <5>4. \A i \in p + 1 .. L - 1 : i \in p + 1 .. d /\ Row(states', i, k) = Row(states, i, k)
                    BY <2>3, <3>1, <3>4
                <5>5. QED
                    BY <4>2, <5>1, <5>3, <5>4
            <4>5. QED
                BY <4>3, <4>4
        <3>5. QED
            BY <2>3, <3>2, <3>3, <3>4
    <2>7. states'[1] = Empty
        BY <2>4 DEF LogInv
    <2>8. Len(log') - 1 = L
        BY <2>2, <2>3
    <2>9. QED
        BY <2>5, <2>6, <2>7, <2>8 DEF LogInv
<1>3. (\E m \in UNION {Workload[o] : o \in Offsets} : Produce(m)) \/ UNCHANGED <<log, states>>
    <2>1. CASE UNCHANGED vars
        BY <2>1 DEF vars, logVars
    <2>2. ASSUME NEW s \in 0 .. Len(log), Expire(s) PROVE UNCHANGED <<log, states>>
        BY <2>2 DEF Expire
    <2>3. ASSUME NEW n \in Nodes,
                 \/ OpenLocal(n) \/ UpdateOffsetInTx(n) \/ Commit(n) \/ Skip(n) \/ SkipExpired(n)
                 \/ StartBackup(n) \/ Upload(n) \/ UploadFails(n)
                 \/ CloseDB(n) \/ DeleteDB(n) \/ Crash(n)
                 \/ \E e \in 1 .. Len(log) : FailRecord(n, e)
          PROVE  UNCHANGED <<log, states>>
        BY <2>3 DEF OpenLocal, UpdateOffsetInTx, Commit, Skip, SkipExpired, FailRecord,
                    StartBackup, Upload, UploadFails, CloseDB, DeleteDB, Crash, logVars
    <2>4. ASSUME NEW n \in Nodes, NEW C \in SUBSET Cells, Snapshot(n, C) \/ UploadCut(n, C)
          PROVE  UNCHANGED <<log, states>>
        BY <2>4 DEF Snapshot, UploadCut, logVars
    <2>5. ASSUME NEW n \in Nodes, NEW C \in SUBSET Cells, NEW o \in Offsets,
                 Restore(n, o, C) \/ CrashInLoad(n, o, C)
          PROVE  UNCHANGED <<log, states>>
        BY <2>5 DEF Restore, CrashInLoad, logVars
    <2>6. QED
        BY <2>1, <2>2, <2>3, <2>4, <2>5 DEF Next
<1>4. QED
    BY <1>1, <1>2, <1>3

-----------------------------------------------------------------------------
(* Replaying a part of the log                                             *)

(* A row that is ahead of the offset it is at is the row there. *)
LEMMA AheadExact ==
    ASSUME TypeOK, NEW o \in -1 .. Len(log) - 1, NEW k \in Keys,
           NEW row \in StoredRecord \cup {Absent}
    PROVE  Ahead(states, row, k, o, o) <=> row = Row(states, o, k)
<1>1. o .. o = {o} /\ o + 1 .. o = {}
    BY RowsTyped
<1>2. Row(states, o, k) \in StoredRecord \cup {Absent}
    BY RowsTyped, RowType DEF Row
<1>3. ASSUME row # Absent, Row(states, o, k) # Absent, row.data = Row(states, o, k).data,
             row.updated = Row(states, o, k).updated, row.created = Row(states, o, k).created
      PROVE  row = Row(states, o, k)
    BY <1>2, <1>3 DEF StoredRecord
<1>4. QED
    BY <1>1, <1>3 DEF Ahead

(* A row ahead of an offset is ahead of every offset below. *)
LEMMA AheadBelow ==
    ASSUME NEW o \in Int, NEW q \in Int, q <= o, NEW d \in Int, NEW k, NEW row,
           Ahead(states, row, k, o, d)
    PROVE  Ahead(states, row, k, q, d)
<1>1. \A p \in o .. d : p \in q .. d
    OBVIOUS
<1>2. QED
    BY <1>1 DEF Ahead

(* An unconditional record applied to a row ahead of the offset before     *)
(* leaves a row ahead of the record's offset: the replay never goes back.  *)
LEMMA ReplayStep ==
    ASSUME TypeOK, LogInv, NEW kv \in Contents, NEW k \in Keys,
           NEW o \in -1 .. Len(log) - 2, NEW d \in o + 1 .. Len(log) - 1,
           log[o + 2].cond = NoIf, Ahead(states, kv[k], k, o, d)
    PROVE  Ahead(states, HandleMutation(kv, log[o + 2])[k], k, o + 1, d)
<1> DEFINE m == log[o + 2]
           new == HandleMutation(kv, m)[k]
<1>0. /\ o + 1 \in 0 .. Len(log) - 1 /\ o \in -1 .. Len(log) - 1
      /\ (o + 1) + 1 = o + 2 /\ (o + 1) + 2 = o + 3 /\ Len(log) \in Nat
    BY RowsTyped
<1>1. m \in RecordMutation /\ states[o + 2] \in Contents
    <2>1. log[(o + 1) + 1] \in RecordMutation
        BY <1>0, RowsTyped
    <2>2. QED
        BY <1>0, <2>1, RowsTyped
<1>2. Row(states, o + 1, k) = HandleMutation(states[o + 2], m)[k] /\ Row(states, o, k) = states[o + 2][k]
    <2>1. states[(o + 1) + 2] = HandleMutation(states[(o + 1) + 1], log[(o + 1) + 1])
        BY <1>0 DEF LogInv
    <2>2. QED
        BY <1>0, <2>1 DEF Row
<1>3. PICK p \in o .. d :
        \/ kv[k] = Row(states, p, k)
        \/ /\ kv[k] # Absent /\ Row(states, p, k) # Absent
           /\ kv[k].data = Row(states, p, k).data /\ kv[k].updated = Row(states, p, k).updated
           /\ \/ Row(states, d, k) # Absent /\ kv[k].created = Row(states, d, k).created
              \/ \E i \in p + 1 .. d : Row(states, i, k) = Absent
    BY DEF Ahead
<1> HIDE DEF m, new
<1>4. m.cond = NoIf /\ new = HandleMutation(kv, m)[k]
    BY DEF m, new
<1>5. CASE k # m.key \/ m.op \notin {"put", "delete"}
    <2>1. new = kv[k] /\ Row(states, o + 1, k) = Row(states, o, k)
        BY <1>1, <1>2, <1>4, <1>5, MutationWrites, Unconditional
    <2>2. CASE p > o
        <3>1. p \in o + 1 .. d
            BY <1>0, <2>2
        <3>2. QED
            BY <1>3, <2>1, <3>1 DEF Ahead, new, m
    <2>3. CASE p = o
        <3>1. o + 1 \in o + 1 .. d
            BY <1>0
        <3>2. \A i \in o + 1 .. d : i = o + 1 \/ i \in (o + 1) + 1 .. d
            BY <1>0
        <3>3. QED
            BY <1>3, <2>1, <2>3, <3>1, <3>2 DEF Ahead, new, m
    <2>4. QED
        BY <1>0, <2>2, <2>3
<1>6. CASE k = m.key /\ m.op = "delete"
    <2>1. new = Absent /\ Row(states, o + 1, k) = Absent
        BY <1>1, <1>2, <1>4, <1>6, Unconditional
    <2>2. o + 1 \in o + 1 .. d
        BY <1>0
    <2>3. QED
        BY <2>1, <2>2 DEF Ahead, new, m
<1>7. CASE k = m.key /\ m.op = "put"
    <2>1. new = PutRow(kv[k], m) /\ Row(states, o + 1, k) = PutRow(Row(states, o, k), m)
        BY <1>1, <1>2, <1>4, <1>7, Unconditional
    <2>2. new # Absent /\ Row(states, o + 1, k) # Absent
        BY <1>1, <1>2, <1>7, <2>1, PutRowType, AbsentIsNoRow
    <2>3. /\ new.data = Row(states, o + 1, k).data /\ new.updated = Row(states, o + 1, k).updated
          /\ kv[k] # Absent => new.created = kv[k].created
        BY <2>1 DEF PutRow
    <2>4. SUFFICES ASSUME kv[k] # Row(states, o, k)
          PROVE  \/ Row(states, d, k) # Absent /\ new.created = Row(states, d, k).created
                 \/ \E i \in (o + 1) + 1 .. d : Row(states, i, k) = Absent
        <3>1. o + 1 \in o + 1 .. d
            BY <1>0
        <3>2. kv[k] = Row(states, o, k) => new = Row(states, o + 1, k)
            BY <2>1
        <3>3. QED
            BY <2>2, <2>3, <3>1, <3>2 DEF Ahead, new, m
    <2>5. \A i \in o + 1 .. d : Row(states, i, k) = Absent => i \in (o + 1) + 1 .. d
        BY <1>0, <2>2
    <2>6. CASE kv[k] = Absent
        <3>1. Row(states, p, k) = Absent /\ p \in o + 1 .. d
            BY <1>0, <1>3, <2>4, <2>6
        <3>2. QED
            BY <2>5, <3>1
    <2>7. CASE kv[k] # Absent /\ kv[k] = Row(states, p, k)
        <3>1. p \in o + 1 .. d /\ p \in -1 .. Len(log) - 1 /\ d \in p .. Len(log) - 1 /\ d \in o + 1 .. d
            BY <1>0, <2>4, <2>7
        <3>2. CASE Row(states, d, k) = Absent
            BY <2>5, <3>1, <3>2
        <3>3. CASE Row(states, d, k) # Absent
            <4>1. \/ Row(states, p, k).created = Row(states, d, k).created
                  \/ \E i \in p + 1 .. d : Row(states, i, k) = Absent
                BY <2>7, <3>1, <3>3 DEF LogInv
            <4>2. \A i \in p + 1 .. d : i \in o + 1 .. d
                BY <1>0
            <4>3. QED
                BY <2>3, <2>5, <2>7, <3>3, <4>1, <4>2
        <3>4. QED
            BY <3>2, <3>3
    <2>8. CASE kv[k] # Absent /\ kv[k] # Row(states, p, k)
        <3>1. \A i \in p + 1 .. d : i \in o + 1 .. d
            BY <1>0
        <3>2. QED
            BY <1>3, <2>3, <2>5, <2>8, <3>1
    <2>9. QED
        BY <2>6, <2>7, <2>8
<1>8. QED
    BY <1>5, <1>6, <1>7

(* A copy that is at an offset of the log and applies the next record is   *)
(* at that one's.                                                          *)
LEMMA ExactStep ==
    ASSUME TypeOK, LogInv, NEW kv \in Contents, NEW o \in -1 .. Len(log) - 2,
           \A k \in Keys : kv[k] = Row(states, o, k)
    PROVE  \A k \in Keys : HandleMutation(kv, log[o + 2])[k] = Row(states, o + 1, k)
<1>0. /\ o + 1 \in 0 .. Len(log) - 1 /\ o \in -1 .. Len(log) - 1
      /\ (o + 1) + 1 = o + 2 /\ (o + 1) + 2 = o + 3 /\ Len(log) \in Nat
    BY RowsTyped
<1>1. states[o + 2] \in Contents
    BY <1>0, RowsTyped
<1>2. kv = states[o + 2]
    BY <1>1 DEF Contents, Row
<1>3. states[(o + 1) + 2] = HandleMutation(states[(o + 1) + 1], log[(o + 1) + 1])
    BY <1>0 DEF LogInv
<1>4. QED
    BY <1>0, <1>2, <1>3 DEF Row

(* Hence a copy that applies a record, or passes one that writes nothing,  *)
(* follows the log one record further, unless the record is judged again.  *)
LEMMA FollowsStep ==
    ASSUME TypeOK, LogInv, NEW c \in Copy, NEW new \in Copy, InLog(c),
           NEW o \in -1 .. Len(log) - 2, Follows(states, c, o),
           new.kv = HandleMutation(c.kv, log[o + 2]), new.sure = c.sure,
           new.clean => c.clean /\ ~ (o + 1 <= c.sure /\ log[o + 2].cond # NoIf)
    PROVE  Follows(states, new, o + 1)
<1>1. SUFFICES ASSUME new.clean, NEW k \in Keys
      PROVE  Ahead(states, new.kv[k], k, o + 1, Later(o + 1, c.sure))
    BY DEF Follows
<1>2. c.kv \in Contents /\ c.sure \in Int /\ c.sure < Len(log) /\ Len(log) \in Nat
    BY BoundsType, RowsTyped DEF Copy, Offsets, NoOffset, InLog
<1>3. \A i \in Keys : Ahead(states, c.kv[i], i, o, Later(o, c.sure))
    BY <1>1 DEF Follows
<1>4. CASE o + 1 <= c.sure
    <2>1. Later(o, c.sure) = c.sure /\ Later(o + 1, c.sure) = c.sure
        BY <1>2, <1>4 DEF Later
    <2>2. c.sure \in o + 1 .. Len(log) - 1 /\ log[o + 2].cond = NoIf
        BY <1>1, <1>2, <1>4
    <2>3. Ahead(states, c.kv[k], k, o, c.sure)
        BY <1>3, <2>1
    <2>4. Ahead(states, HandleMutation(c.kv, log[o + 2])[k], k, o + 1, c.sure)
        BY <1>2, <2>2, <2>3, ReplayStep
    <2>5. QED
        BY <2>1, <2>4
<1>5. CASE c.sure <= o
    <2>1. Later(o, c.sure) = o /\ Later(o + 1, c.sure) = o + 1 /\ o \in -1 .. Len(log) - 1
          /\ o + 1 \in -1 .. Len(log) - 1
        BY <1>2, <1>5 DEF Later
    <2>2. \A i \in Keys : c.kv[i] = Row(states, o, i)
        <3>1. \A i \in Keys : c.kv[i] \in StoredRecord \cup {Absent}
            BY <1>2, RowType
        <3>2. \A i \in Keys : Ahead(states, c.kv[i], i, o, o)
            BY <1>3, <2>1
        <3>3. QED
            BY <2>1, <3>1, <3>2, AheadExact
    <2>3. new.kv[k] = Row(states, o + 1, k)
        BY <1>2, <2>2, ExactStep
    <2>4. new.kv[k] \in StoredRecord \cup {Absent}
        BY RowType DEF Copy
    <2>5. QED
        BY <2>1, <2>3, <2>4, AheadExact
<1>6. QED
    BY <1>2, <1>4, <1>5

(* A directory, old or new, follows the log from its offset on. *)
LEMMA LocalFollows ==
    ASSUME TypeOK, LogInv, FollowInv, NEW n \in Nodes
    PROVE  Follows(states, LocalCopy(n), LocalCopy(n).off)
<1>1. CASE disk[n] # NoDB
    BY <1>1 DEF FollowInv, LocalCopy
<1>2. CASE disk[n] = NoDB
    <2>1. LocalCopy(n) = EmptyCopy
        BY <1>2 DEF LocalCopy
    <2>2. \A k \in Keys : EmptyCopy.kv[k] = Row(states, -1, k)
        <3>1. -1 + 2 = 1
            OBVIOUS
        <3>2. QED
            BY <3>1, EmptyCopyType DEF LogInv, Row
    <2>3. Later(-1, -1) = -1 /\ -1 \in -1 .. -1
        BY DEF Later
    <2>4. QED
        BY <2>1, <2>2, <2>3, EmptyCopyType DEF Follows, Ahead, NoOffset
<1>3. QED
    BY <1>1, <1>2

(* A restored directory that is clean follows the log from its offset on   *)
(* and from the name of the object, even if the dump is newer than that.   *)
LEMMA RestoredFollows ==
    ASSUME TypeOK, BoundsInv, FollowInv, WholeInv,
           NEW n \in Nodes, NEW o \in Newest, NEW C \in SUBSET Cells
    PROVE  /\ Follows(states, Restored(LocalCopy(n), o, C), Restored(LocalCopy(n), o, C).off)
           /\ Follows(states, Restored(LocalCopy(n), o, C), o)
<1> DEFINE dump == bucket[o].copy
           new == Restored(LocalCopy(n), o, C)
<1>1. o \in Offsets /\ bucket[o] # NoObject
    BY DEF Newest
<1>2. dump \in Copy /\ Follows(states, dump, dump.off)
    BY <1>1 DEF TypeOK, Object, FollowInv
<1>3. dump.sure \in Int /\ dump.off \in Int /\ o \in Int
    BY <1>1, <1>2, BoundsType DEF Copy, Offsets, NoOffset
<1>4. /\ new.clean => dump.clean /\ new.kv = dump.kv /\ new.off = dump.off /\ o <= dump.off
      /\ new.sure = IF dump.off = o THEN dump.sure ELSE Later(dump.sure, dump.off)
    <2>1. /\ new.sure = IF dump.off = o THEN dump.sure ELSE Later(dump.sure, dump.off)
          /\ new.kv = Merged(LocalCopy(n), dump, C).kv /\ new.off = Merged(LocalCopy(n), dump, C).off
          /\ new.clean => /\ dump.clean /\ C = bucket[o].cells /\ o <= dump.off
                          /\ \A k \in Keys \ C : LocalCopy(n).kv[k] = Absent
        BY <1>3, MaxIsLater DEF Restored
    <2>2. ASSUME new.clean PROVE new.kv = dump.kv /\ new.off = dump.off
        <3>1. Live(dump) \subseteq C
            BY <1>1, <2>1, <2>2 DEF WholeInv
        <3>2. dump.off # NoOffset
            BY <1>1, <1>3, <2>1, <2>2 DEF Offsets, NoOffset
        <3>3. OffCell \in C
            BY <3>1, <3>2 DEF Live
        <3>4. \A k \in Keys \ C : dump.kv[k] = Absent
            BY <3>1 DEF Live
        <3>5. dump.kv \in Contents
            BY <1>2 DEF Copy
        <3>6. [k \in Keys |-> IF k \in C THEN dump.kv[k] ELSE LocalCopy(n).kv[k]] = dump.kv
            BY <2>1, <2>2, <3>4, <3>5 DEF Contents
        <3>7. QED
            BY <2>1, <3>3, <3>6 DEF Merged
    <2>3. QED
        BY <2>1, <2>2
<1> HIDE DEF dump, new
<1>5. /\ Later(dump.off, new.sure) = Later(dump.off, dump.sure)
      /\ o <= dump.off => Later(o, new.sure) = Later(dump.off, dump.sure)
      /\ Later(dump.off, dump.sure) \in Int
    BY <1>3, <1>4 DEF Later
<1>6. SUFFICES ASSUME new.clean, NEW k \in Keys
      PROVE  /\ Ahead(states, new.kv[k], k, new.off, Later(new.off, new.sure))
             /\ Ahead(states, new.kv[k], k, o, Later(o, new.sure))
    BY DEF Follows, new
<1>7. Ahead(states, dump.kv[k], k, dump.off, Later(dump.off, dump.sure))
    BY <1>2, <1>4, <1>6 DEF Follows
<1>8. o <= dump.off /\ new.kv = dump.kv /\ new.off = dump.off
    BY <1>4, <1>6
<1>9. Ahead(states, dump.kv[k], k, o, Later(dump.off, dump.sure))
    BY <1>3, <1>5, <1>7, <1>8, AheadBelow
<1>10. QED
    BY <1>5, <1>7, <1>8, <1>9

(* What follows the log still does when a record is produced. *)
LEMMA FollowsProduced ==
    ASSUME TypeOK, NEW m, m \in RecordMutation, Produce(m), NEW c \in Copy, c.sure < Len(log),
           NEW o \in -1 .. Len(log) - 1, Follows(states, c, o)
    PROVE  Follows(states', c, o)
<1>1. c.sure \in Int /\ Len(log) \in Nat
    BY BoundsType, RowsTyped DEF Copy, Offsets, NoOffset
<1> DEFINE d == Later(o, c.sure)
<1>2. d \in -1 .. Len(log) - 1
    BY <1>1 DEF Later
<1> HIDE DEF d
<1>3. \A k \in Keys : \A p \in -1 .. Len(log) - 1 : Row(states', p, k) = Row(states, p, k)
    BY Produced DEF Row
<1>4. \A p \in o .. d : p \in -1 .. Len(log) - 1 /\ \A i \in p + 1 .. d : i \in -1 .. Len(log) - 1
    BY <1>1, <1>2
<1>5. \A k \in Keys : Ahead(states, c.kv[k], k, o, d) => Ahead(states', c.kv[k], k, o, d)
    BY <1>2, <1>3, <1>4 DEF Ahead
<1>6. QED
    BY <1>5 DEF Follows, d

(* Dumps stay whole, from the snapshot into the bucket. *)
LEMMA WholeStep ==
    ASSUME TypeOK, BoundsInv, WholeInv, [Next]_vars
    PROVE  WholeInv'
<1> USE DEF logVars, partVars
<1>0. ASSUME UNCHANGED <<job, bucket>> PROVE WholeInv'
    BY <1>0 DEF WholeInv, Live
<1>1. ASSUME NEW n \in Nodes, job' = [job EXCEPT ![n] = NoObject], bucket' = bucket
      PROVE  WholeInv'
    BY <1>1 DEF WholeInv, Live, TypeOK
<1>2. ASSUME NEW n \in Nodes, StartBackup(n) PROVE WholeInv'
    <2>1. /\ job' = [job EXCEPT ![n] = [name |-> last[n], dump |-> NoObject]]
          /\ bucket' = bucket
        BY <1>2 DEF StartBackup
    <2>2. QED
        BY <2>1 DEF WholeInv, Live, TypeOK
<1>3. ASSUME NEW n \in Nodes, NEW C \in SUBSET Cells, Snapshot(n, C) PROVE WholeInv'
    <2> DEFINE j == [name |-> job[n].name, dump |-> [copy |-> disk[n], cells |-> C]]
    <2>1. job' = [job EXCEPT ![n] = j] /\ bucket' = bucket /\ Live(disk[n]) \subseteq C
        BY <1>3, SnapshotType DEF Snapshot
    <2>2. j.dump.copy = disk[n] /\ j.dump.cells = C
        OBVIOUS
    <2> HIDE DEF j
    <2>3. QED
        BY <2>1, <2>2 DEF WholeInv, Live, TypeOK
<1>4. ASSUME NEW n \in Nodes, Upload(n) PROVE WholeInv'
    <2>1. job[n] \in Job /\ job[n].dump # NoObject
        BY <1>4 DEF Upload, TypeOK
    <2>2. job[n].name \in Offsets /\ Live(job[n].dump.copy) \subseteq job[n].dump.cells
        BY <1>4, <2>1 DEF Job, Upload, WholeInv
    <2>3. QED
        BY <1>4, <2>2 DEF Upload, WholeInv, Live, TypeOK
<1>5. ASSUME NEW n \in Nodes, NEW C \in SUBSET Cells, UploadCut(n, C) PROVE WholeInv'
    <2> DEFINE d == CutDump(n, C)
    <2>1. /\ job[n] \in Job /\ d.copy.clean = FALSE
          /\ bucket' = [bucket EXCEPT ![job[n].name] = d]
        BY <1>5, CutDumpType
    <2> HIDE DEF d
    <2>2. job[n].name \in Offsets /\ job' = [job EXCEPT ![n] = NoObject]
        BY <1>5, <2>1 DEF Job, UploadCut
    <2>3. QED
        BY <2>1, <2>2 DEF WholeInv, Live, TypeOK
<1>6. ASSUME NEW n \in Nodes, UploadFails(n) \/ Crash(n) PROVE WholeInv'
    BY <1>1, <1>6 DEF UploadFails, Crash
<1>7. ASSUME NEW n \in Nodes,
             \/ OpenLocal(n) \/ UpdateOffsetInTx(n) \/ Commit(n) \/ Skip(n) \/ SkipExpired(n)
             \/ CloseDB(n) \/ DeleteDB(n) \/ \E e \in 1 .. Len(log) : FailRecord(n, e)
      PROVE  WholeInv'
    BY <1>0, <1>7 DEF OpenLocal, UpdateOffsetInTx, Commit, Skip, SkipExpired, FailRecord,
                      CloseDB, DeleteDB
<1>8. ASSUME NEW n \in Nodes, NEW C \in SUBSET Cells, NEW o \in Offsets,
             Restore(n, o, C) \/ CrashInLoad(n, o, C)
      PROVE  WholeInv'
    BY <1>0, <1>8 DEF Restore, CrashInLoad
<1>9. ASSUME (\E m \in UNION {Workload[o] : o \in Offsets} : Produce(m))
               \/ (\E s \in 0 .. Len(log) : Expire(s)) \/ UNCHANGED vars
      PROVE  WholeInv'
    BY <1>0, <1>9 DEF Produce, Expire, vars
<1>10. QED
    BY <1>2, <1>3, <1>4, <1>5, <1>6, <1>7, <1>8, <1>9 DEF Next

(* Every step keeps every copy on the log's track. *)
LEMMA FollowStep ==
    ASSUME TypeOK, BoundsInv, LogInv, FollowInv, WholeInv, [Next]_vars
    PROVE  FollowInv'
<1> USE DEF logVars, partVars
<1>0. CASE UNCHANGED vars
    BY <1>0 DEF vars, FollowInv
<1>1. ASSUME NEW m \in UNION {Workload[o] : o \in Offsets}, Produce(m) PROVE FollowInv'
    <2>1. m \in RecordMutation
        BY WorkloadType DEF Offsets
    <2>2. UNCHANGED <<disk, phase, next, job, bucket>>
        BY <1>1 DEF Produce
    <2>3. \A c \in Copy : \A o \in -1 .. Len(log) - 1 :
            c.sure < Len(log) /\ Follows(states, c, o) => Follows(states', c, o)
        BY <1>1, <2>1, FollowsProduced
    <2>4. \A c \in Copy : c.off \in Int /\ c.off >= -1 /\ Len(log) \in Nat
        BY BoundsType, RowsTyped DEF Copy, Offsets, NoOffset
    <2>5. \A c \in Copy : InLog(c) /\ Follows(states, c, c.off) => Follows(states', c, c.off)
        BY <2>3, <2>4 DEF InLog
    <2>6. ASSUME NEW n \in Nodes
          PROVE  /\ disk[n] # NoDB => Follows(states', disk[n], disk[n].off)
                 /\ phase[n] = "open" => Follows(states', disk[n], next[n] - 1)
                 /\ job[n] # NoObject =>
                      (job[n].dump # NoObject => Follows(states', job[n].dump.copy, job[n].dump.copy.off))
        <3>1. disk[n] # NoDB => disk[n] \in Copy /\ InLog(disk[n])
            BY DEF TypeOK, BoundsInv
        <3>2. next[n] - 1 \in -1 .. Len(log) - 1
            BY DEF TypeOK
        <3>3. phase[n] = "open" => disk[n] # NoDB /\ disk[n].sure < Len(log)
            BY <3>1 DEF TypeOK, InLog
        <3>4. job[n] # NoObject /\ job[n].dump # NoObject =>
                job[n].dump.copy \in Copy /\ InLog(job[n].dump.copy)
            BY DEF TypeOK, Job, Object, BoundsInv
        <3>5. disk[n] # NoDB => Follows(states', disk[n], disk[n].off)
            BY <2>5, <3>1 DEF FollowInv
        <3>6. phase[n] = "open" => Follows(states', disk[n], next[n] - 1)
            BY <2>3, <3>1, <3>2, <3>3 DEF FollowInv
        <3>7. QED
            BY <2>5, <3>4, <3>5, <3>6 DEF FollowInv
    <2>7. ASSUME NEW o \in Offsets, bucket[o] # NoObject
          PROVE  Follows(states', bucket[o].copy, bucket[o].copy.off)
        <3>1. bucket[o].copy \in Copy /\ InLog(bucket[o].copy)
            BY <2>7 DEF TypeOK, Object, BoundsInv
        <3>2. QED
            BY <2>5, <2>7, <3>1 DEF FollowInv
    <2>8. QED
        BY <2>2, <2>6, <2>7 DEF FollowInv
<1>2. ASSUME NEW s \in 0 .. Len(log), Expire(s) PROVE FollowInv'
    BY <1>2 DEF Expire, FollowInv
<1>3. ASSUME NEW n \in Nodes, OpenLocal(n) PROVE FollowInv'
    <2> DEFINE c == LocalCopy(n)
    <2>1. c \in Copy /\ Follows(states, c, c.off)
        BY LocalCopyType, LocalFollows
    <2>2. /\ disk' = [disk EXCEPT ![n] = c] /\ phase' = [phase EXCEPT ![n] = "open"]
          /\ next' = [next EXCEPT ![n] = c.off + 1]
          /\ UNCHANGED <<states, job, bucket>>
        BY <1>3 DEF OpenLocal, Opened, ResetOffset
    <2> HIDE DEF c
    <2>3. (c.off + 1) - 1 = c.off
        BY <2>1, BoundsType DEF Copy, Offsets, NoOffset
    <2>4. QED
        BY <2>1, <2>2, <2>3 DEF FollowInv, TypeOK
<1>4. ASSUME NEW n \in Nodes, UpdateOffsetInTx(n) PROVE FollowInv'
    BY <1>4 DEF UpdateOffsetInTx, FollowInv
<1>5. ASSUME NEW n \in Nodes, Commit(n) PROVE FollowInv'
    <2> DEFINE c == disk[n]
               o == next[n] - 1
    <2>1. /\ \A i \in Nodes \ {n} : disk'[i] = disk[i]
          /\ disk'[n] \in Copy /\ disk[n] \in Copy /\ next[n] \in 0 .. Len(log) - 1
          /\ phase[n] = "open" /\ disk'[n].kv = HandleMutation(c.kv, Record(n))
          /\ disk'[n].off = next[n] /\ disk'[n].sure = c.sure
          /\ disk'[n].clean = (c.clean /\ ~ Rejudged(n))
        BY <1>5, CommittedCopy
    <2>2. /\ o \in -1 .. Len(log) - 2 /\ o + 1 = next[n] /\ Len(log) \in Nat
          /\ Record(n) = log[o + 2] /\ next[n] + 1 - 1 = next[n]
        BY <2>1, RowsTyped DEF Record
    <2>3. InLog(c) /\ Follows(states, c, o)
        BY <2>1, NoDBIsNoCopy DEF BoundsInv, FollowInv
    <2>4. Rejudged(n) <=> o + 1 <= c.sure /\ log[o + 2].cond # NoIf
        BY <2>2 DEF Rejudged
    <2>5. Follows(states, disk'[n], next[n])
        <3> HIDE DEF c, o
        <3>1. PICK new \in Copy : new = disk'[n]
            BY <2>1
        <3>2. c \in Copy
            BY <2>1 DEF c
        <3>3. Follows(states, new, o + 1)
            BY <2>1, <2>2, <2>3, <2>4, <3>1, <3>2, FollowsStep
        <3>4. QED
            BY <2>2, <3>1, <3>3
    <2>6. next' = [next EXCEPT ![n] = next[n] + 1] /\ UNCHANGED <<states, phase, job, bucket>>
        BY <1>5 DEF Commit
    <2>7. /\ next'[n] - 1 = next[n] /\ \A i \in Nodes \ {n} : next'[i] = next[i]
          /\ Follows(states', disk'[n], disk'[n].off) /\ Follows(states', disk'[n], next'[n] - 1)
        BY <2>1, <2>2, <2>5, <2>6 DEF TypeOK
    <2>8. QED
        BY <2>1, <2>6, <2>7 DEF FollowInv
<1>6. ASSUME NEW n \in Nodes, NEW e \in 0 .. Len(log), PassOver(n, e) PROVE FollowInv'
    <2> DEFINE c == disk[n]
               o == next[n] - 1
    <2>1. /\ \A i \in Nodes \ {n} : disk'[i] = disk[i]
          /\ disk'[n] \in Copy /\ disk[n] \in Copy /\ next[n] \in 0 .. Len(log) - 1
          /\ phase[n] = "open" /\ HandleMutation(c.kv, Record(n)) = c.kv
          /\ disk'[n].kv = c.kv /\ disk'[n].off = c.off /\ disk'[n].sure = c.sure
          /\ disk'[n].clean = (c.clean /\ ~ Rejudged(n) /\ e = next[n] + 1)
          /\ next' = [next EXCEPT ![n] = e] /\ UNCHANGED <<states, phase, job, bucket>>
        BY <1>6, PassedCopy
    <2>2. /\ o \in -1 .. Len(log) - 2 /\ o + 1 = next[n] /\ Len(log) \in Nat
          /\ Record(n) = log[o + 2] /\ next[n] + 1 - 1 = next[n]
        BY <2>1, RowsTyped DEF Record
    <2>3. InLog(c) /\ Follows(states, c, o) /\ Follows(states, c, c.off)
        BY <2>1, NoDBIsNoCopy DEF BoundsInv, FollowInv
    <2>4. Rejudged(n) <=> o + 1 <= c.sure /\ log[o + 2].cond # NoIf
        BY <2>2 DEF Rejudged
    <2>5. Follows(states, disk'[n], e - 1) /\ Follows(states, disk'[n], disk'[n].off)
        <3> HIDE DEF c, o
        <3>1. PICK new \in Copy : new = disk'[n]
            BY <2>1
        <3>2. c \in Copy
            BY <2>1 DEF c
        <3>3. CASE e = next[n] + 1
            <4>1. Follows(states, new, o + 1)
                BY <2>1, <2>2, <2>3, <2>4, <3>1, <3>2, FollowsStep
            <4>2. e - 1 = o + 1
                BY <2>2, <3>3
            <4>3. QED
                BY <2>1, <2>3, <3>1, <4>1, <4>2 DEF Follows
        <3>4. CASE e # next[n] + 1
            BY <2>1, <3>4 DEF Follows
        <3>5. QED
            BY <3>3, <3>4
    <2>6. /\ next'[n] = e /\ \A i \in Nodes \ {n} : next'[i] = next[i]
        BY <2>1 DEF TypeOK
    <2>7. QED
        BY <2>1, <2>5, <2>6 DEF FollowInv
<1>7. ASSUME NEW n \in Nodes, SkipExpired(n) PROVE FollowInv'
    <2>1. /\ \A i \in Nodes \ {n} : disk'[i] = disk[i]
          /\ disk'[n].clean = FALSE
        BY <1>7, ExpiredCopy
    <2>2. next' = [next EXCEPT ![n] = start] /\ UNCHANGED <<states, phase, job, bucket>>
        BY <1>7 DEF SkipExpired
    <2>3. \A o : Follows(states, disk'[n], o)
        BY <2>1 DEF Follows
    <2>4. QED
        BY <2>1, <2>2, <2>3 DEF FollowInv, TypeOK
<1>8. ASSUME NEW n \in Nodes, StartBackup(n) PROVE FollowInv'
    BY <1>8, NoObjectIsNothing DEF StartBackup, FollowInv, TypeOK
<1>9. ASSUME NEW n \in Nodes, Upload(n) PROVE FollowInv'
    <2>1. job[n] \in Job /\ job[n].dump # NoObject
        BY <1>9 DEF Upload, TypeOK
    <2>2. job[n].name \in Offsets
        BY <2>1 DEF Job
    <2>3. Follows(states, job[n].dump.copy, job[n].dump.copy.off)
        BY <1>9 DEF Upload, FollowInv
    <2>4. QED
        BY <1>9, <2>2, <2>3 DEF Upload, FollowInv, TypeOK
<1>10. ASSUME NEW n \in Nodes, UploadFails(n) PROVE FollowInv'
    BY <1>10 DEF UploadFails, FollowInv, TypeOK
<1>11. ASSUME NEW n \in Nodes, CloseDB(n) PROVE FollowInv'
    BY <1>11 DEF CloseDB, FollowInv, TypeOK
<1>12. ASSUME NEW n \in Nodes, DeleteDB(n) PROVE FollowInv'
    BY <1>12 DEF DeleteDB, FollowInv, TypeOK
<1>13. ASSUME NEW n \in Nodes, Crash(n) PROVE FollowInv'
    BY <1>13 DEF Crash, FollowInv, TypeOK
<1>14. ASSUME NEW n \in Nodes, NEW C \in SUBSET Cells, Snapshot(n, C) PROVE FollowInv'
    <2> DEFINE j == [name |-> job[n].name, dump |-> [copy |-> disk[n], cells |-> C]]
    <2>1. disk[n] \in Copy /\ job' = [job EXCEPT ![n] = j]
        BY <1>14, SnapshotType
    <2>2. j.dump.copy = disk[n]
        OBVIOUS
    <2> HIDE DEF j
    <2>3. Follows(states, j.dump.copy, j.dump.copy.off)
        BY <2>1, <2>2, NoDBIsNoCopy DEF FollowInv
    <2>4. UNCHANGED <<states, disk, phase, next, bucket>>
        BY <1>14 DEF Snapshot
    <2>5. QED
        BY <2>1, <2>3, <2>4 DEF FollowInv, TypeOK
<1>15. ASSUME NEW n \in Nodes, NEW C \in SUBSET Cells, UploadCut(n, C) PROVE FollowInv'
    <2> DEFINE d == CutDump(n, C)
    <2>1. /\ job[n] \in Job /\ d.copy.clean = FALSE
          /\ bucket' = [bucket EXCEPT ![job[n].name] = d]
        BY <1>15, CutDumpType
    <2> HIDE DEF d
    <2>2. Follows(states, d.copy, d.copy.off)
        BY <2>1 DEF Follows
    <2>3. job[n].name \in Offsets
        BY <2>1 DEF Job
    <2>4. job' = [job EXCEPT ![n] = NoObject] /\ UNCHANGED <<states, disk, phase, next>>
        BY <1>15 DEF UploadCut
    <2>5. QED
        BY <2>1, <2>2, <2>3, <2>4 DEF FollowInv, TypeOK
<1>16. ASSUME NEW n \in Nodes, NEW C \in SUBSET Cells, NEW o \in Offsets, Restore(n, o, C)
       PROVE  FollowInv'
    <2> DEFINE c == Restored(LocalCopy(n), o, C)
    <2>1. Follows(states, c, c.off) /\ Follows(states, c, o)
        BY <1>16, RestoredFollows DEF Restore
    <2>2. /\ disk' = [disk EXCEPT ![n] = c] /\ phase' = [phase EXCEPT ![n] = "open"]
          /\ next' = [next EXCEPT ![n] = o + 1] /\ UNCHANGED <<states, job, bucket>>
        BY <1>16 DEF Restore, Opened, ResetOffset
    <2> HIDE DEF c
    <2>3. (o + 1) - 1 = o
        BY BoundsType DEF Offsets
    <2>4. QED
        BY <2>1, <2>2, <2>3 DEF FollowInv, TypeOK
<1>17. ASSUME NEW n \in Nodes, NEW C \in SUBSET Cells, NEW o \in Offsets, CrashInLoad(n, o, C)
       PROVE  FollowInv'
    <2> DEFINE c == Restored(LocalCopy(n), o, C)
    <2>1. Follows(states, c, c.off)
        BY <1>17, RestoredFollows DEF CrashInLoad
    <2>2. /\ disk' = [disk EXCEPT ![n] = c] /\ phase[n] = "closed"
          /\ UNCHANGED <<states, phase, next, job, bucket>>
        BY <1>17 DEF CrashInLoad
    <2> HIDE DEF c
    <2>3. QED
        BY <2>1, <2>2 DEF FollowInv, TypeOK
<1>18. QED
    BY <1>0, <1>1, <1>2, <1>3, <1>4, <1>5, <1>6, <1>7, <1>8, <1>9, <1>10, <1>11, <1>12,
       <1>13, <1>14, <1>15, <1>16, <1>17, PassesOver DEF Next

-----------------------------------------------------------------------------
(* Retention                                                               *)

(* A new object, whatever its name, leaves a newest one to be found. *)
LEMMA NewestFound ==
    ASSUME TypeOK, RetentionInv, NEW x \in Offsets, NEW d \in Object,
           bucket' = [bucket EXCEPT ![x] = d],
           NEW o \in Offsets \ {0}, bucket'[o] # NoObject
    PROVE  Newest' # {}
<1>1. /\ bucket'[x] # NoObject /\ \A q \in Offsets \ {x} : bucket'[q] = bucket[q]
      /\ \A q \in Offsets : q \in Int /\ q >= 0
    BY NoObjectIsNothing, BoundsType DEF TypeOK, Offsets
<1>2. CASE Newest = {}
    <2>1. \A q \in Offsets \ {0} : bucket[q] = NoObject
        BY <1>2 DEF RetentionInv
    <2>2. x = o
        BY <1>1, <2>1
    <2>3. \A q \in Offsets : bucket'[q] # NoObject => q <= x
        BY <1>1, <2>1, <2>2
    <2>4. x \in Newest'
        BY <1>1, <2>2, <2>3 DEF Newest
    <2>5. QED
        BY <2>4
<1>3. ASSUME NEW y \in Newest PROVE Newest' # {}
    <2>1. y \in Offsets \ {0} /\ bucket[y] # NoObject /\ \A q \in Offsets : bucket[q] # NoObject => q <= y
        BY DEF Newest
    <2>2. CASE x <= y
        <3>1. bucket'[y] # NoObject /\ \A q \in Offsets : bucket'[q] # NoObject => q <= y
            BY <1>1, <2>1, <2>2
        <3>2. y \in Newest'
            BY <2>1, <3>1 DEF Newest
        <3>3. QED
            BY <3>2
    <2>3. CASE x > y
        <3>1. x # 0 /\ \A q \in Offsets : bucket'[q] # NoObject => q <= x
            BY <1>1, <2>1, <2>3
        <3>2. x \in Newest'
            BY <1>1, <3>1 DEF Newest
        <3>3. QED
            BY <3>2
    <2>4. QED
        BY <1>1, <2>1, <2>2, <2>3
<1>4. QED
    BY <1>2, <1>3

(* The newest backup, if one is found, is the last that retention waits    *)
(* for; without one, retention has dropped nothing behind offset 0.        *)
LEMMA NewestCovers ==
    ASSUME TypeOK, RetentionInv
    PROVE  /\ start > 1 => Newest # {}
           /\ \A y \in Newest : y + 1 >= start
<1>1. start \in Int /\ \A q \in Offsets : q \in Int /\ q >= 0
    BY BoundsType DEF TypeOK, Offsets
<1>2. ASSUME start > 1 PROVE Newest # {}
    <2>1. PICK o \in Offsets : o >= start - 1 /\ bucket[o] # NoObject
        BY <1>1, <1>2 DEF RetentionInv
    <2>2. o \in Offsets \ {0}
        BY <1>1, <1>2, <2>1
    <2>3. QED
        BY <2>1, <2>2 DEF RetentionInv
<1>3. ASSUME NEW y \in Newest PROVE y + 1 >= start
    <2>1. y \in Offsets /\ \A q \in Offsets : bucket[q] # NoObject => q <= y
        BY DEF Newest
    <2>2. CASE start > 0
        <3>1. PICK o \in Offsets : o >= start - 1 /\ bucket[o] # NoObject
            BY <2>2 DEF RetentionInv
        <3>2. QED
            BY <1>1, <2>1, <3>1
    <2>3. CASE ~ (start > 0)
        BY <1>1, <2>1, <2>3
    <2>4. QED
        BY <2>2, <2>3
<1>4. QED
    BY <1>2, <1>3

(* Every step keeps what retention relies on. *)
LEMMA RetentionStep ==
    ASSUME TypeOK, BoundsInv, RetentionInv, [Next]_vars
    PROVE  RetentionInv'
<1> USE DEF logVars, partVars
<1>0. ASSUME UNCHANGED <<start, phase, next, bucket>> PROVE RetentionInv'
    BY <1>0 DEF RetentionInv, Newest
<1>a. ASSUME UNCHANGED <<start, bucket>>, NEW n \in Nodes,
             \A i \in Nodes \ {n} : phase'[i] = phase[i] /\ next'[i] = next[i],
             phase'[n] = "open" => next'[n] >= start \/ start = 1
      PROVE  RetentionInv'
    <2>1. Newest' = Newest
        BY <1>a DEF Newest
    <2>2. QED
        BY <1>a, <2>1 DEF RetentionInv
<1>b. start \in Int /\ Len(log) \in Nat
    BY DEF TypeOK
<1>1. ASSUME NEW s \in 0 .. Len(log), Expire(s) PROVE RetentionInv'
    <2>1. Newest' = Newest
        BY <1>1 DEF Expire, Newest
    <2>2. QED
        BY <1>1, <2>1 DEF Expire, RetentionInv
<1>2. ASSUME NEW n \in Nodes, OpenLocal(n) PROVE RetentionInv'
    <2> DEFINE c == LocalCopy(n)
    <2>1. c.off \in Int /\ c.off >= -1
        BY LocalCopyType, BoundsType DEF Copy, Offsets, NoOffset
    <2>2. /\ phase' = [phase EXCEPT ![n] = "open"] /\ next' = [next EXCEPT ![n] = c.off + 1]
          /\ UNCHANGED <<start, bucket>> /\ \A o \in Newest : ~ (o > c.off)
        BY <1>2 DEF OpenLocal, Opened, ResetOffset, RemoteNewer
    <2> HIDE DEF c
    <2>3. c.off + 1 >= start \/ start = 1
        <3>1. CASE start > 1
            <4>1. PICK y \in Newest : y + 1 >= start
                BY <3>1, NewestCovers
            <4>2. y \in Int
                BY BoundsType DEF Newest, Offsets
            <4>3. QED
                BY <1>b, <2>1, <2>2, <4>1, <4>2
        <3>2. CASE ~ (start > 1)
            BY <1>b, <2>1, <3>2 DEF TypeOK
        <3>3. QED
            BY <3>1, <3>2
    <2>4. QED
        BY <1>a, <2>2, <2>3 DEF TypeOK
<1>3. ASSUME NEW n \in Nodes, NEW e \in 0 .. Len(log), e > next[n],
             next' = [next EXCEPT ![n] = e], UNCHANGED <<start, phase, bucket>>
      PROVE  RetentionInv'
    <2>1. phase[n] = "open" => e >= start \/ start = 1
        BY <1>3, <1>b DEF RetentionInv, TypeOK
    <2>2. QED
        BY <1>3, <1>a, <2>1 DEF TypeOK
<1>c. ASSUME NEW n \in Nodes, Commit(n) PROVE RetentionInv'
    <2>1. next' = [next EXCEPT ![n] = next[n] + 1] /\ UNCHANGED <<start, phase, bucket>>
        BY <1>c DEF Commit
    <2>2. next[n] \in 0 .. Len(log) - 1
        BY <1>c, CommittedCopy
    <2>3. next[n] + 1 \in 0 .. Len(log) /\ next[n] + 1 > next[n]
        BY <1>b, <2>2
    <2>4. QED
        BY <1>3, <2>1, <2>3
<1>p. ASSUME NEW n \in Nodes, NEW e \in 0 .. Len(log), PassOver(n, e) PROVE RetentionInv'
    BY <1>3, <1>p, PassedCopy
<1>4. ASSUME NEW n \in Nodes, SkipExpired(n) PROVE RetentionInv'
    BY <1>4, <1>a, <1>b DEF SkipExpired, TypeOK
<1>5. ASSUME NEW n \in Nodes, NEW d \in Object, job[n] \in Job,
             bucket' = [bucket EXCEPT ![job[n].name] = d], UNCHANGED <<start, phase, next>>
      PROVE  RetentionInv'
    <2>1. PICK x \in Offsets : x = job[n].name
        BY <1>5 DEF Job
    <2>2. (\E o \in Offsets \ {0} : bucket'[o] # NoObject) => Newest' # {}
        BY <1>5, <2>1, NewestFound
    <2>3. \A o \in Offsets : bucket[o] # NoObject => bucket'[o] # NoObject
        BY <1>5, <2>1, NoObjectIsNothing DEF TypeOK
    <2>4. QED
        BY <1>5, <2>2, <2>3 DEF RetentionInv
<1>6. ASSUME NEW n \in Nodes, Upload(n) PROVE RetentionInv'
    <2>1. job[n] \in Job /\ job[n].dump # NoObject
        BY <1>6 DEF Upload, TypeOK
    <2>2. job[n].dump \in Object
        BY <2>1 DEF Job
    <2>3. QED
        BY <1>5, <1>6, <2>1, <2>2 DEF Upload
<1>7. ASSUME NEW n \in Nodes, NEW C \in SUBSET Cells, UploadCut(n, C) PROVE RetentionInv'
    <2> DEFINE d == CutDump(n, C)
    <2>1. /\ job[n] \in Job /\ d \in Object
          /\ bucket' = [bucket EXCEPT ![job[n].name] = d]
        BY <1>7, CutDumpType
    <2>2. UNCHANGED <<start, phase, next>>
        BY <1>7 DEF UploadCut
    <2> HIDE DEF d
    <2>3. PICK e \in Object : e = d
        BY <2>1
    <2>4. QED
        BY <1>5, <2>1, <2>2, <2>3
<1>8. ASSUME NEW n \in Nodes, CloseDB(n) \/ DeleteDB(n) \/ Crash(n) PROVE RetentionInv'
    <2>1. /\ UNCHANGED <<start, bucket>> /\ phase'[n] # "open"
          /\ \A i \in Nodes \ {n} : phase'[i] = phase[i] /\ next'[i] = next[i]
        BY <1>8 DEF CloseDB, DeleteDB, Crash, TypeOK
    <2>2. QED
        BY <1>a, <2>1
<1>9. ASSUME NEW n \in Nodes, NEW C \in SUBSET Cells, NEW o \in Offsets, Restore(n, o, C)
      PROVE  RetentionInv'
    <2>1. /\ phase' = [phase EXCEPT ![n] = "open"] /\ next' = [next EXCEPT ![n] = o + 1]
          /\ UNCHANGED <<start, bucket>> /\ o \in Newest
        BY <1>9 DEF Restore, Opened, ResetOffset
    <2>2. o + 1 >= start
        BY <2>1, NewestCovers
    <2>3. QED
        BY <1>a, <2>1, <2>2 DEF TypeOK
<1>10. ASSUME NEW m \in UNION {Workload[o] : o \in Offsets}, Produce(m) PROVE RetentionInv'
    BY <1>0, <1>10 DEF Produce
<1>11. ASSUME NEW n \in Nodes, UpdateOffsetInTx(n) \/ StartBackup(n) \/ UploadFails(n)
       PROVE  RetentionInv'
    BY <1>0, <1>11 DEF UpdateOffsetInTx, StartBackup, UploadFails
<1>12. ASSUME NEW n \in Nodes, NEW C \in SUBSET Cells,
              Snapshot(n, C) \/ \E o \in Offsets : CrashInLoad(n, o, C)
       PROVE  RetentionInv'
    BY <1>0, <1>12 DEF Snapshot, CrashInLoad
<1>13. CASE UNCHANGED vars
    BY <1>0, <1>13 DEF vars
<1>14. QED
    BY <1>1, <1>2, <1>c, <1>p, <1>4, <1>6, <1>7, <1>8, <1>9, <1>10, <1>11, <1>12, <1>13,
       PassesOver DEF Next

-----------------------------------------------------------------------------
(* Theorems                                                                *)

BackupsInv == TypeOK /\ BoundsInv /\ LogInv /\ FollowInv /\ WholeInv /\ RetentionInv

(* The invariant holds of a new cluster. *)
LEMMA BackupsInit == Init => BackupsInv
<1> SUFFICES ASSUME Init PROVE BackupsInv
    OBVIOUS
<1>1. log = <<>> /\ Len(log) = 0 /\ states = <<Empty>> /\ Len(states) = 1
    BY DEF Init
<1>2. TypeOK
    <2>1. states \in Seq(Contents) /\ log \in Seq(RecordMutation)
        BY <1>1, NoRows
    <2>2. QED
        BY <1>1, <2>1, BoundsType DEF Init, TypeOK, Phases
<1>3. BoundsInv
    BY <1>1 DEF Init, BoundsInv, NoOffset
<1>4. LogInv
    <2>1. states[1] = Empty /\ -1 + 2 = 1
        BY <1>1
    <2>2. \A p \in -1 .. Len(log) - 1 : \A d \in p .. Len(log) - 1 : p = d
        BY <1>1
    <2>3. \A o \in 0 .. Len(log) - 1 : FALSE
        BY <1>1
    <2>4. QED
        BY <2>1, <2>2, <2>3 DEF LogInv
<1>5. FollowInv
    BY DEF Init, FollowInv
<1>6. RetentionInv
    BY DEF Init, RetentionInv
<1>7. WholeInv
    BY DEF Init, WholeInv
<1>8. QED
    BY <1>2, <1>3, <1>4, <1>5, <1>6, <1>7 DEF BackupsInv

(* Every step keeps it. *)
LEMMA BackupsNext == BackupsInv /\ [Next]_vars => BackupsInv'
BY TypeStep, BoundsStep, LogStep, FollowStep, WholeStep, RetentionStep DEF BackupsInv

LEMMA BackupsInvariant == Spec => []BackupsInv
BY BackupsInit, BackupsNext, PTL DEF Spec

(* The variables keep their types, and the client of an open copy stays    *)
(* behind its LastOffset, through every interleaving of consuming, backing *)
(* up, restoring, closing and crashing.                                    *)
THEOREM BackupsTyped == Spec => []TypeOK
<1>1. BackupsInv => TypeOK
    BY DEF BackupsInv
<1>2. QED
    BY <1>1, BackupsInvariant, PTL

(* A copy that follows the log and replays nothing has the log's rows. *)
LEMMA FollowsExact ==
    ASSUME TypeOK, NEW c \in Copy, NEW o \in -1 .. Len(log) - 1, c.sure <= o,
           Follows(states, c, o), c.clean
    PROVE  c.kv = states[o + 2]
<1>1. c.kv \in Contents /\ states[o + 2] \in Contents /\ c.sure \in Int
    BY BoundsType, RowsTyped DEF Copy, Offsets, NoOffset
<1>2. Later(o, c.sure) = o
    BY <1>1 DEF Later
<1>3. \A k \in Keys : c.kv[k] \in StoredRecord \cup {Absent} /\ Ahead(states, c.kv[k], k, o, o)
    BY <1>1, <1>2, RowType DEF Follows
<1>4. \A k \in Keys : c.kv[k] = states[o + 2][k]
    BY <1>3, AheadExact DEF Row
<1>5. QED
    BY <1>1, <1>4 DEF Contents

(* For any number of nodes, keys and records and every expression engine,  *)
(* failing statements included, every copy and object that none of the     *)
(* eight marked places has spoilt has the rows of the log at its offset    *)
(* once nothing is replayed, however backups, commits and restores         *)
(* interleave (runBackup, checkAndRestoreFromS3, updateOffsetInTx,         *)
(* pollRecords).                                                           *)
THEOREM CopiesAreThoseOfTheLog == Spec => []CopiesFollowLog
<1>1. BackupsInv => CopiesFollowLog
    <2> SUFFICES ASSUME BackupsInv PROVE CopiesFollowLog
        OBVIOUS
    <2> USE DEF BackupsInv
    <2>1. \A c \in Copy : InLog(c) => c.off \in -1 .. Len(log) - 1
        BY BoundsType, RowsTyped DEF Copy, Offsets, NoOffset, InLog
    <2>2. \A c \in Copy : c.off \in Int /\ c.sure \in Int
        BY BoundsType DEF Copy, Offsets, NoOffset
    <2>3. \A c \in Copy : InLog(c) /\ Follows(states, c, c.off) => Exact(c)
        BY <2>1, <2>2, FollowsExact DEF Exact
    <2>4. \A n \in Nodes : disk[n] # NoDB => Exact(disk[n])
        BY <2>3 DEF TypeOK, BoundsInv, FollowInv
    <2>5. \A o \in Offsets : bucket[o] # NoObject => bucket[o].copy \in Copy
        BY DEF TypeOK, Object
    <2>6. \A o \in Offsets : bucket[o] # NoObject => Exact(bucket[o].copy)
        BY <2>3, <2>5 DEF BoundsInv, FollowInv
    <2>7. QED
        BY <2>4, <2>6 DEF CopiesFollowLog
<1>2. QED
    BY <1>1, BackupsInvariant, PTL

(* No restore, and no record that is passed over at the end of its batch,  *)
(* leaves a hole between the rows of an open, clean copy and the position  *)
(* its log is consumed from; a statement that fails earlier in a batch     *)
(* does, and is the eighth place (checkAndRestoreFromS3, pollRecords,      *)
(* topicInfoLoop).                                                         *)
THEOREM RestoresLeaveNoHole == Spec => []NoHole
<1>1. BackupsInv => NoHole
    <2> SUFFICES ASSUME BackupsInv, NEW n \in Nodes,
                        phase[n] = "open", ~ txn[n], disk[n].clean, last[n] >= disk[n].sure
                 PROVE  disk[n].kv = states[next[n] + 1]
        BY DEF NoHole
    <2> USE DEF BackupsInv
    <2>1. disk[n] \in Copy /\ Follows(states, disk[n], next[n] - 1)
        BY DEF TypeOK, FollowInv
    <2>2. /\ next[n] \in 0 .. Len(log) /\ next[n] > last[n] - 0
          /\ last[n] \in Int /\ Len(log) \in Nat
        BY BoundsType, RowsTyped DEF TypeOK, Offsets, NoOffset
    <2>3. disk[n].sure \in Int
        BY <2>1, BoundsType DEF Copy, Offsets, NoOffset
    <2>4. /\ next[n] - 1 \in -1 .. Len(log) - 1 /\ disk[n].sure <= next[n] - 1
          /\ (next[n] - 1) + 2 = next[n] + 1
        BY <2>2, <2>3
    <2>5. disk[n].kv = states[(next[n] - 1) + 2]
        BY <2>1, <2>4, FollowsExact
    <2>6. QED
        BY <2>4, <2>5
<1>2. QED
    BY <1>1, BackupsInvariant, PTL

(* While retention only drops what a backup covers, no node that opens the *)
(* partition is sent below the start of the log, except for the backup at  *)
(* offset 0 that getLatestBackupOffset does not find.                      *)
THEOREM OnlyOffsetZeroExpires == Spec => []NothingExpired
<1>1. BackupsInv => NothingExpired
    BY DEF BackupsInv, RetentionInv, NothingExpired, TypeOK
<1>2. QED
    BY <1>1, BackupsInvariant, PTL
=============================================================================
