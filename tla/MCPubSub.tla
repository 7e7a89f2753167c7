------------------------------- MODULE MCPubSub --------------------------------
(* Small instances of PubSub for TLC. *)
EXTENDS PubSub, TLC

CONSTANTS c1, c2, c3, a

ThreeConns == {c1, c2, c3}
OneChannel == {a}

\* c1 does not read; c2 may go away.
AllButOne == {c2, c3}
Second == {c2}
================================================================================
