------------------------------ MODULE Records ------------------------------
(***************************************************************************)
(* What one mutation does to the rows of one partition: the pure part of   *)
(* partitions/partition.go (handlePut, handleDelete), record.go, if.go and *)
(* operation.go.                                                           *)
(*                                                                         *)
(* A key stands for the pair (pk, sk).  The payload (a JSON object), the   *)
(* timestamps and the `if' statements are elements of small sets: nothing  *)
(* here looks inside a payload except the expression engine, which is the  *)
(* constant operator CompareIfStatement.                                   *)
(***************************************************************************)

CONSTANTS
    Keys,       \* (pk, sk) pairs
    Data,       \* payloads a put may carry
    Times,      \* values of RecordMutation.TsMs
    Stmts,      \* `if' statements
    NoIf,       \* RecordMutation.If = nil
    NoData,     \* the nil payload of a StoredRecord that was never written
    Absent,     \* badger.ErrKeyNotFound
    CompareIfStatement(_, _, _)  \* (statement, key, row): the expr engine

StoredRecord ==
    [data : Data \cup {NoData}, created : Times, updated : Times]

(* The rows of a partition: what badger holds under formatRecordKey. *)
Contents == [Keys -> StoredRecord \cup {Absent}]

Empty == [k \in Keys |-> Absent]

(* `op' is any string: HandleMutation refuses the ones it does not know. *)
RecordMutation ==
    [op : STRING, key : Keys, data : Data, ts : Times, cond : Stmts \cup {NoIf}]

ASSUME CompareType ==
    \A s \in Stmts, k \in Keys, r \in StoredRecord :
        CompareIfStatement(s, k, r) \in {"true", "false", "error"}

ASSUME AbsentIsNoRow == Absent \notin StoredRecord

ASSUME NoIfIsNoStatement == NoIf \notin Stmts

-----------------------------------------------------------------------------

(* nil is no condition; otherwise the engine is run on the given row. *)
Verdict(m, row) ==
    IF m.cond = NoIf THEN "true" ELSE CompareIfStatement(m.cond, m.key, row)

(* The row handlePut builds before it looks at the condition: UpdatedAt is *)
(* the timestamp of the mutation already, CreatedAt survives from the      *)
(* stored row.                                                             *)
LoadedRecord(kv, m) ==
    IF kv[m.key] = Absent
    THEN [data |-> NoData, created |-> m.ts, updated |-> m.ts]
    ELSE [kv[m.key] EXCEPT !.updated = m.ts]

PutOutcome(kv, m) == Verdict(m, LoadedRecord(kv, m))

(* "skip": a conditional delete of a row that does not exist returns       *)
(* before the offset is written.                                           *)
DeleteOutcome(kv, m) ==
    IF m.cond # NoIf /\ kv[m.key] = Absent THEN "skip"
                                           ELSE Verdict(m, kv[m.key])

(* How the transaction ends: "true" (rows and offset written), "false"     *)
(* (the offset alone), "skip" (committed, nothing written) or "error"      *)
(* (rolled back, and the error returned to the poll loop).                 *)
Outcome(kv, m) ==
    CASE m.op = "put"    -> PutOutcome(kv, m)
      [] m.op = "delete" -> DeleteOutcome(kv, m)
      [] OTHER           -> "error"

NewRecordBare(kv, m) == IF m.op = "put" THEN m.data ELSE Absent

NewRecordOldData(kv, m) == IF m.op = "put" THEN LoadedRecord(kv, m) ELSE Absent

(* txn.Set of the loaded row with the new payload, or txn.Delete. *)
NewRecord(kv, m) ==
    IF m.op = "put" THEN [LoadedRecord(kv, m) EXCEPT !.data = m.data]
                    ELSE Absent

(* The rows after the mutation. *)
HandleMutation(kv, m) ==
    IF Outcome(kv, m) = "true" THEN [kv EXCEPT ![m.key] = NewRecord(kv, m)]
                               ELSE kv

(* The offset in the row LastOffsetKey after the mutation at offset o. *)
LastOffset(kv, m, off, o) ==
    IF Outcome(kv, m) \in {"true", "false"} THEN o ELSE off
=============================================================================
