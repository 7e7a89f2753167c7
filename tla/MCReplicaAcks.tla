----------------------------- MODULE MCReplicaAcks -----------------------------
(* A small instance of ReplicaAcks for TLC. *)
EXTENDS ReplicaAcks

CONSTANTS r1, r2

TwoReplicas == {r1, r2}

\* r1 stays for good; r2's connection may break.
Second == {r2}
================================================================================
