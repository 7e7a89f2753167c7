----------------------------- MODULE MCSortedSet -------------------------------
(* A small instance of SortedSet for TLC. *)
EXTENDS SortedSet, TLC

WithNaN == {0, 1, NaN}

\* A cell that shares its score with a ZADD, and the corner of the grid.
Corners == {[lat |-> 1, lon |-> 0], [lat |-> Grid - 1, lon |-> Grid]}

\* Behaviours are cut off where a second oddity happens, a NaN or a GEOADD next to
\* an overlapping ZREM: what the properties say of the first does not depend on it.
OneOddity ==
    /\ Cardinality(odd) <= 1
    /\ odd = {} \/ \A m \in Members : place[m] = Nowhere

\* Overlapping ZREMs leave entries behind: at most as many entries as there are members.
ShortList == Len(sorted) <= Cardinality(Members)

Symmetry == Permutations(Clients)
================================================================================
