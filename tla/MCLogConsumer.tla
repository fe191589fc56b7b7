--------------------------- MODULE MCLogConsumer ---------------------------
(* Small instances of LogConsumer for TLC: one key, two payloads, a plain  *)
(* put, a put whose if fails on a missing row and a conditional delete, so *)
(* that the order of the records, their repetition, their loss and the     *)
(* offset a skipped delete does not write all show.                        *)
EXTENDS LogConsumer, TLC

CONSTANTS n1, n2, p1, p2, k1, x, y

\* The statements: "isX" is `data.v == "x"'; "nested" is `data.v.w == 1',
\* which the engine cannot evaluate on a row without payload.
MCCompareIfStatement(s, k, row) ==
    CASE s = "nested" /\ row.data = NoData -> "error"
      [] s = "nested" -> "true"
      [] row.data = x -> "true"
      [] OTHER        -> "false"

MCStmts == {"isX", "nested"}

PutX   == [op |-> "put", key |-> k1, data |-> x, ts |-> 1, cond |-> NoIf]
DelIfX == [op |-> "delete", key |-> k1, data |-> x, ts |-> 3, cond |-> "isX"]
PutYIfNested ==
    [op |-> "put", key |-> k1, data |-> y, ts |-> 2, cond |-> "nested"]

Skipping == {PutX, DelIfX}
Failing == {PutX, PutYIfNested}

\* Records go to p1; p2 is there to be owned, so that a node can lose p1 and
\* still have an assignment.
RecordsOnP1 == [p \in Parts |-> IF p = p1 THEN 2 ELSE 0]

RecordOnP1 == [p \in Parts |-> IF p = p1 THEN 1 ELSE 0]

\* No record is produced twice: the two logs that are left are the one in which
\* the if holds, and the one in which it fails and takes the put with it.
DistinctRecords ==
    \A p \in Parts : \A i, j \in DOMAIN log[p] : log[p][i] = log[p][j] => i = j

Symmetry == Permutations({n1, n2})
=============================================================================
