-------------------------- MODULE MCTransactionPool --------------------------
(* Small instances of TransactionPool for TLC. *)
EXTENDS TransactionPool, TLC

CONSTANTS t1, t2, q1, q2, c1, c2

BothQueriesInside == (t1 :> q1) @@ (t2 :> q2)
=============================================================================
