------------------------------ MODULE MCKeyspace -------------------------------
(* A small instance of Keyspace: a counter that is also pushed to, a bitmap    *)
(* with a deadline, and a bitmap without one.                                  *)
EXTENDS Keyspace

CONSTANTS c, b, d

\* The empty string, and one byte with its last bit set.
SomeTexts == {<<>>, <<{0}>>}

\* Into a key of its own, into one of its sources, from the same key twice.
SomeBitOps == {<<d, b, d>>, <<b, b, d>>, <<d, b, b>>}
================================================================================
