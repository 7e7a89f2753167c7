---------------------------- MODULE MCBlockingList ----------------------------
(* Small instances of BlockingList: the argument lists BLPOP is given. *)
EXTENDS BlockingList, TLC

\* One key per call.
OneKey == {<<k>> : k \in Keys}

\* One or two distinct keys, in both orders, or the same key twice.
UpToTwoKeys == OneKey \cup {<<k, l>> : k, l \in Keys}

Symmetry == Permutations(Clients)
===============================================================================
