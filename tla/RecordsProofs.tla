--------------------------- MODULE RecordsProofs ---------------------------
(* What one mutation can and cannot do to the rows of a partition, for     *)
(* every set of keys and payloads and every expression engine.             *)
EXTENDS Records, TLAPS

(* A new partition has no rows. *)
LEMMA NoRows == Empty \in Contents /\ \A k \in Keys : Empty[k] = Absent
BY DEF Empty, Contents

(* A row, if there is one, has the fields of a StoredRecord. *)
LEMMA RowType ==
    ASSUME NEW kv \in Contents, NEW k \in Keys
    PROVE  /\ kv[k] \in StoredRecord \cup {Absent}
           /\ kv[k] # Absent => kv[k] \in StoredRecord
BY DEF Contents

(* What handlePut writes: payload and UpdatedAt are the mutation's, and    *)
(* CreatedAt is the stored row's, if there is one.                         *)
PutRow(row, m) ==
    [data |-> m.data, created |-> IF row = Absent THEN m.ts ELSE row.created,
     updated |-> m.ts]

(* A row with two of its fields replaced. *)
LEMMA TwoFields ==
    ASSUME NEW r \in StoredRecord, NEW d, NEW t
    PROVE  [[r EXCEPT !.updated = t] EXCEPT !.data = d]
             = [data |-> d, created |-> r.created, updated |-> t]
<1> DEFINE s == [r EXCEPT !.updated = t]
<1>1. PICK a \in Data \cup {NoData}, b \in Times, c \in Times :
        r = [data |-> a, created |-> b, updated |-> c]
    BY DEF StoredRecord
<1>2. r.created = b /\ s = [data |-> a, created |-> b, updated |-> t]
    BY <1>1
<1> HIDE DEF s
<1>3. [s EXCEPT !.data = d] = [data |-> d, created |-> b, updated |-> t]
    BY <1>2
<1>4. QED
    BY <1>2, <1>3 DEF s

(* handlePut and handleDelete write that row, or none. *)
LEMMA NewRecordIs ==
    ASSUME NEW kv \in Contents, NEW m \in RecordMutation
    PROVE  NewRecord(kv, m) = IF m.op = "put" THEN PutRow(kv[m.key], m) ELSE Absent
<1>1. m.key \in Keys /\ m.ts \in Times
    BY DEF RecordMutation
<1>2. CASE kv[m.key] = Absent
    BY <1>2 DEF NewRecord, LoadedRecord, PutRow
<1>3. CASE kv[m.key] # Absent
    <2>1. kv[m.key] \in StoredRecord
        BY <1>1, <1>3, RowType
    <2>2. LoadedRecord(kv, m) = [kv[m.key] EXCEPT !.updated = m.ts]
        BY <1>3 DEF LoadedRecord
    <2>3. [[kv[m.key] EXCEPT !.updated = m.ts] EXCEPT !.data = m.data]
            = [data |-> m.data, created |-> kv[m.key].created, updated |-> m.ts]
        BY <2>1, TwoFields
    <2>4. QED
        BY <1>3, <2>2, <2>3 DEF NewRecord, PutRow
<1>4. QED
    BY <1>2, <1>3

(* The row handlePut writes is a StoredRecord. *)
LEMMA PutRowType ==
    ASSUME NEW kv \in Contents, NEW m \in RecordMutation
    PROVE  PutRow(kv[m.key], m) \in StoredRecord
<1>1. m.key \in Keys /\ m.ts \in Times /\ m.data \in Data
    BY DEF RecordMutation
<1>2. kv[m.key] # Absent => kv[m.key].created \in Times
    BY <1>1, RowType DEF StoredRecord
<1>3. QED
    BY <1>1, <1>2 DEF PutRow, StoredRecord

(* A mutation writes or deletes its own row, or nothing (handlePut,        *)
(* handleDelete), and what it leaves behind is again rows of a partition.  *)
LEMMA MutationWrites ==
    ASSUME NEW kv \in Contents, NEW m \in RecordMutation
    PROVE  /\ HandleMutation(kv, m) \in Contents
           /\ \A k \in Keys \ {m.key} : HandleMutation(kv, m)[k] = kv[k]
           /\ \/ HandleMutation(kv, m) = kv
              \/ m.op = "put" /\ HandleMutation(kv, m)[m.key] = PutRow(kv[m.key], m)
              \/ m.op = "delete" /\ HandleMutation(kv, m)[m.key] = Absent
<1>1. m.key \in Keys
    BY DEF RecordMutation
<1>2. NewRecord(kv, m) \in StoredRecord \cup {Absent}
    BY NewRecordIs, PutRowType
<1>3. CASE Outcome(kv, m) = "true"
    <2>1. m.op \in {"put", "delete"}
        BY <1>3 DEF Outcome
    <2>2. HandleMutation(kv, m) = [kv EXCEPT ![m.key] = NewRecord(kv, m)]
        BY <1>3 DEF HandleMutation
    <2>3. HandleMutation(kv, m)[m.key] = NewRecord(kv, m)
        BY <1>1, <2>2 DEF Contents
    <2>4. QED
        BY <1>1, <1>2, <2>1, <2>2, <2>3, NewRecordIs DEF Contents
<1>4. CASE Outcome(kv, m) # "true"
    BY <1>4 DEF HandleMutation
<1>5. QED
    BY <1>3, <1>4

(* CreatedAt survives every mutation that leaves the row there. *)
LEMMA CreatedKept ==
    ASSUME NEW kv \in Contents, NEW m \in RecordMutation, NEW k \in Keys,
           kv[k] # Absent, HandleMutation(kv, m)[k] # Absent
    PROVE  HandleMutation(kv, m)[k].created = kv[k].created
<1>1. CASE k # m.key
    BY <1>1, MutationWrites
<1>2. CASE k = m.key
    <2>1. PutRow(kv[k], m).created = kv[k].created
        BY DEF PutRow
    <2>2. QED
        BY <1>2, <2>1, MutationWrites
<1>3. QED
    BY <1>1, <1>2

(* Without a condition a put always writes and a delete always deletes. *)
LEMMA Unconditional ==
    ASSUME NEW kv \in Contents, NEW m \in RecordMutation, m.cond = NoIf
    PROVE  /\ m.op = "put" => HandleMutation(kv, m)[m.key] = PutRow(kv[m.key], m)
           /\ m.op = "delete" => HandleMutation(kv, m)[m.key] = Absent
           /\ m.op \notin {"put", "delete"} => HandleMutation(kv, m) = kv
           /\ Outcome(kv, m) # "skip"
<1>1. m.key \in Keys
    BY DEF RecordMutation
<1>2. /\ m.op \in {"put", "delete"} => Outcome(kv, m) = "true"
      /\ m.op \notin {"put", "delete"} => Outcome(kv, m) = "error"
    BY DEF Outcome, PutOutcome, DeleteOutcome, Verdict
<1>3. QED
    BY <1>1, <1>2, NewRecordIs DEF HandleMutation, Contents
=============================================================================
