----------------------------- MODULE MCBackups -----------------------------
(* Two nodes, one row and short logs: a node backs up while it applies     *)
(* records, the other one restores into an empty or an outdated directory. *)
EXTENDS Backups, TLC

CONSTANTS n1, n2, k1, x, y

\* "isX" is `data.v == "x"'; "nested" is `data.v.w == 1', which the engine
\* cannot evaluate on a row without payload.
MCCompareIfStatement(s, k, row) ==
    CASE s = "nested" /\ row.data = NoData -> "error"
      [] s = "nested" -> "true"
      [] row.data = x -> "true"
      [] OTHER        -> "false"

Put(d, t) == [op |-> "put", key |-> k1, data |-> d, ts |-> t, cond |-> NoIf]
Del       == [op |-> "delete", key |-> k1, data |-> x, ts |-> 1, cond |-> NoIf]
DelIfX    == [op |-> "delete", key |-> k1, data |-> x, ts |-> 1, cond |-> "isX"]
PutIfNested == [op |-> "put", key |-> k1, data |-> x, ts |-> 1, cond |-> "nested"]

\* CreatedAt remembers a put and a delete shows in it, so that what is lost,
\* repeated or judged again shows in the row; the if of offset 2 fails behind
\* a delete, and the record behind it may be in the same batch.
MCWorkload ==
    [o \in 0 .. MaxLog - 1 |->
        CASE o = 0 -> {Put(y, 1)}
          [] o = 1 -> {Put(y, 2), Del}
          [] o = 2 -> {Put(x, 1), DelIfX, PutIfNested}
          [] o = 3 -> {Put(x, 2)}]

Symmetry == Permutations(Nodes)
=============================================================================
