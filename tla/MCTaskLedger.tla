----------------------------- MODULE MCTaskLedger -----------------------------
(* Small instances of TaskLedger. *)
EXTENDS TaskLedger, TLC

CONSTANTS t1, t2, b1, b2

\* t1 may resolve differently on a retry; t2's payload fixes its batch.
TwoTasks == (t1 :> {b1, b2}) @@ (t2 :> {b2})

\* t2 writes no graph batch.
PlainSecond == (t1 :> {b1, b2}) @@ (t2 :> {})

OneTask == t1 :> {b1}
=============================================================================
