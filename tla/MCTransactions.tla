---------------------------- MODULE MCTransactions -----------------------------
(* A small instance of Transactions. *)
EXTENDS Transactions, TLC

CONSTANTS c1, c2, k1, k2

\* Every connection watches a key of its own.
OwnKeys == c1 :> {k1} @@ c2 :> {k2}
================================================================================
