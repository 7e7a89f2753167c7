------------------------------- MODULE MCStreams -------------------------------
(* Small instances of Streams. *)
EXTENDS Streams

CONSTANTS k1, k2

\* "*", "0-*" and IDs at both ends of the range.
Adds == {[tag |-> "auto"], [tag |-> "ms", ms |-> 0],
         [tag |-> "id", id |-> [ms |-> 0, seq |-> 0]],
         [tag |-> "id", id |-> [ms |-> MaxHalf, seq |-> MaxHalf]]}

From(k, s) == [key |-> k, from |-> s]
Dollar == [tag |-> "$"]
At(m, s) == [tag |-> "id", id |-> [ms |-> m, seq |-> s]]

\* XREAD BLOCK on one stream and on two, from "$" and from an ID, and with an
\* argument that is no ID.
Calls == {<<From(k1, Dollar)>>, <<From(k1, At(0, 1)), From(k2, Dollar)>>,
          <<From(k2, [tag |-> "bad"])>>}
================================================================================
