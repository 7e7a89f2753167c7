----------------------------- MODULE WatchContract -----------------------------
(***************************************************************************)
(* What WATCH promises: optimistic locking.  A connection watches keys; a  *)
(* key it watches may change; when the connection asks for its queue to be *)
(* run, the answer is "run" if no watched key has changed and "abort"      *)
(* otherwise.  How a change is noticed is left open.                       *)
(***************************************************************************)
EXTENDS Naturals

CONSTANTS Clients, Keys

VARIABLES
    watched,    \* the keys each connection watches
    changed,    \* those among them that changed since
    verdict     \* "none", "run" or "abort"

cvars == <<watched, changed, verdict>>

CInit ==
    /\ watched = [c \in Clients |-> {}]
    /\ changed = [c \in Clients |-> {}]
    /\ verdict = [c \in Clients |-> "none"]

CWatch(c, ks) ==
    /\ verdict[c] = "none"
    /\ watched' = [watched EXCEPT ![c] = @ \cup ks]
    /\ UNCHANGED <<changed, verdict>>

CChange(k) ==
    /\ changed' = [c \in Clients |-> IF k \in watched[c] THEN changed[c] \cup {k}
                                                         ELSE changed[c]]
    /\ UNCHANGED <<watched, verdict>>

CDecide(c) ==
    /\ verdict[c] = "none"
    /\ verdict' = [verdict EXCEPT ![c] = IF changed[c] = {} THEN "run" ELSE "abort"]
    /\ UNCHANGED <<watched, changed>>

\* The connection stops watching: after a verdict, or because it says so.
CForget(c) ==
    /\ watched' = [watched EXCEPT ![c] = {}]
    /\ changed' = [changed EXCEPT ![c] = {}]
    /\ verdict' = [verdict EXCEPT ![c] = "none"]

CNext ==
    \/ \E c \in Clients, ks \in SUBSET Keys : CWatch(c, ks)
    \/ \E k \in Keys : CChange(k)
    \/ \E c \in Clients : CDecide(c) \/ CForget(c)

CSpec == CInit /\ [][CNext]_cvars
================================================================================
