------------------------------ MODULE RowLocks ------------------------------
(***************************************************************************)
(* Row locks of PostgreSQL: SELECT ... FOR UPDATE, FOR SHARE, and the lock *)
(* of an UPDATE.  A transaction follows the plan of its handler, a         *)
(* sequence of locks with a Check where it reads and decides.              *)
(***************************************************************************)
EXTENDS Naturals, Sequences, SequencesExt

Lock(table, id, mode) == [table |-> table, id |-> id, mode |-> mode]

Conflict(a, b) ==
    /\ a.table = b.table /\ a.id = b.id
    /\ ~(a.mode = "SHARE" /\ b.mode = "SHARE")

Check == [table |-> "check"]

\* FOR UPDATE or FOR SHARE of every row a condition selects.
LockAll(table, ids, mode) ==
    LET order == SetToSeq(ids)
    IN [n \in 1..Len(order) |-> Lock(table, order[n], mode)]
=============================================================================
