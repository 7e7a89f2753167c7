----------------------------- MODULE Transactions ------------------------------
(***************************************************************************)
(* MULTI, EXEC, DISCARD, WATCH and UNWATCH (app/client.go) over the store's *)
(* registry of watching transactions (app/store.go: Watch, CheckDirty,     *)
(* Unwatch, markWatchersLocked).                                           *)
(*                                                                         *)
(* Each critical section of the store is one action.  EXEC is several: it  *)
(* reads the dirty flag, unwatches, and then runs its queue command by     *)
(* command, and other connections act in between.  A write is known by its *)
(* command and its key; what it writes is left out.  The queue slots of    *)
(* the registry that Unwatch empties or deletes are the empty set here.    *)
(***************************************************************************)
EXTENDS Naturals, Sequences, FiniteSets

CONSTANTS
    Clients,        \* connections
    Keys,
    WatchKeys,      \* WatchKeys[c]: the keys connection c may WATCH
    Ops,            \* the write commands in use, a subset of WriteOps
    Discarders,     \* the connections that use DISCARD
    MaxQueue        \* bound: commands queued in a transaction

\* The write commands that call markWatchersLocked, and those that do not.
MarkingOps == {"SET", "SETPX", "INCR", "ZADD", "GEOADD", "SETBIT"}
SilentOps  == {"RPUSH", "LPUSH", "LPOP", "BLPOP", "XADD", "ZREM", "BITOP"}

ASSUME WatchKeysAssumption == WatchKeys \in [Clients -> SUBSET Keys]
ASSUME OpsAssumption == Ops \subseteq MarkingOps \cup SilentOps
ASSUME QueueAssumption == MaxQueue \in Nat

VARIABLES
    watchers,   \* store.watchers: the transactions registered on each key
    active,     \* the connections inside MULTI
    queued,     \* tx.queued
    watched,    \* tx.watched
    dirty,      \* the connections whose tx.dirty is set
    aborted,    \* EXEC's local: the connections whose check found dirty
    pc,         \* where each handler is
    todo,       \* EXEC: the commands still to run
    temp,       \* the keys that have an expiry time
    changed     \* history: watched keys that changed since they were watched

vars == <<watchers, active, queued, watched, dirty, aborted, pc, todo, temp,
          changed>>

Cmds == [op : Ops, key : Keys]

Init ==
    /\ watchers = [k \in Keys |-> {}]
    /\ active = {}
    /\ queued = [c \in Clients |-> <<>>]
    /\ watched = [c \in Clients |-> {}]
    /\ dirty = {}
    /\ aborted = {}
    /\ pc = [c \in Clients |-> "idle"]
    /\ todo = [c \in Clients |-> <<>>]
    /\ temp = {}
    /\ changed = [c \in Clients |-> {}]

--------------------------------------------------------------------------------
(* Writes *)

\* Mutant: SET takes over the flag's old value and loses a mark.
MarkOnlyClean(op, k) ==
    dirty' = IF op \in MarkingOps THEN watchers[k] ELSE dirty

\* markWatchersLocked, called in the critical section that changes key k.
Mark(op, k) ==
    dirty' = IF op \in MarkingOps THEN dirty \cup watchers[k] ELSE dirty

\* History: k changed under every connection that watches it.
Changes(k) ==
    changed' = [c \in Clients |-> IF k \in watched[c] THEN changed[c] \cup {k}
                                                      ELSE changed[c]]

\* Which keys have an expiry time after the write.  SETBIT drops one that has
\* passed and keeps one that has not; BLPOP deletes a list it drains.
Expiry(op, k) ==
    \/ op = "SETPX" /\ temp' = temp \cup {k}
    \/ op \in {"SET", "LPUSH", "BITOP", "SETBIT", "BLPOP"} /\ temp' = temp \ {k}
    \/ op \in {"INCR", "RPUSH", "LPOP", "XADD", "ZADD", "GEOADD", "ZREM", "SETBIT", "BLPOP"}
       /\ temp' = temp

\* A write command that changes its key.  (One that is refused changes and
\* marks nothing.)
Apply(op, k) == Mark(op, k) /\ Changes(k) /\ Expiry(op, k)

\* A write outside MULTI.
Write(c, op, k) ==
    /\ pc[c] = "idle" /\ c \notin active
    /\ Apply(op, k)
    /\ UNCHANGED <<watchers, active, queued, watched, aborted, pc, todo>>

\* evictExpired deletes a key whose time has passed and marks its watchers.
EvictExpired(k) ==
    /\ k \in temp
    /\ temp' = temp \ {k}
    /\ dirty' = dirty \cup watchers[k]
    /\ Changes(k)
    /\ UNCHANGED <<watchers, active, queued, watched, aborted, pc, todo>>

--------------------------------------------------------------------------------
(* Transaction control *)

Multi(c) ==
    /\ pc[c] = "idle" /\ c \notin active
    /\ active' = active \cup {c}
    /\ UNCHANGED <<watchers, queued, watched, dirty, aborted, pc, todo, temp, changed>>

Queue(c, op, k) ==
    /\ pc[c] = "idle" /\ c \in active
    /\ Len(queued[c]) < MaxQueue
    /\ queued' = [queued EXCEPT ![c] = Append(@, [op |-> op, key |-> k])]
    /\ UNCHANGED <<watchers, active, watched, dirty, aborted, pc, todo, temp, changed>>

Watch(c, ks) ==
    /\ pc[c] = "idle" /\ c \notin active
    /\ ks # {}
    /\ watchers' = [k \in Keys |-> IF k \in ks THEN watchers[k] \cup {c} ELSE watchers[k]]
    /\ watched' = [watched EXCEPT ![c] = @ \cup ks]
    /\ UNCHANGED <<active, queued, dirty, aborted, pc, todo, temp, changed>>

\* The registry after store.Unwatch: every watcher of c's keys is dropped, c's
\* own and everybody else's.
Dropped(c) ==
    [k \in Keys |-> IF k \in watched[c] THEN {} ELSE watchers[k]]

\* Mutant: the registrations stay.
UnwatchKeeps(c) ==
    /\ pc[c] = "idle" /\ c \notin active
    /\ watched' = [watched EXCEPT ![c] = {}]
    /\ dirty' = dirty \ {c}
    /\ changed' = [changed EXCEPT ![c] = {}]
    /\ UNCHANGED <<watchers, active, queued, aborted, pc, todo, temp>>

\* UNWATCH.  Without watched keys the loop body never runs, and the flag stays.
Unwatch(c) ==
    /\ pc[c] = "idle" /\ c \notin active
    /\ watchers' = Dropped(c)
    /\ watched' = [watched EXCEPT ![c] = {}]
    /\ dirty' = IF watched[c] = {} THEN dirty ELSE dirty \ {c}
    /\ changed' = [changed EXCEPT ![c] = {}]
    /\ UNCHANGED <<active, queued, aborted, pc, todo, temp>>

\* DISCARD resets the connection's transaction and leaves the registry alone.
Discard(c) ==
    /\ pc[c] = "idle" /\ c \in active
    /\ active' = active \ {c}
    /\ queued' = [queued EXCEPT ![c] = <<>>]
    /\ watched' = [watched EXCEPT ![c] = {}]
    /\ dirty' = dirty \ {c}
    /\ changed' = [changed EXCEPT ![c] = {}]
    /\ UNCHANGED <<watchers, aborted, pc, todo, temp>>

\* Mutant: the flag is not looked at.
ExecCheckBlind(c) ==
    /\ pc[c] = "idle" /\ c \in active
    /\ aborted' = aborted \ {c}
    /\ pc' = [pc EXCEPT ![c] = "exec"]
    /\ UNCHANGED <<watchers, active, queued, watched, dirty, todo, temp, changed>>

\* EXEC, first critical section: CheckDirty.
ExecCheck(c) ==
    /\ pc[c] = "idle" /\ c \in active
    /\ aborted' = IF c \in dirty THEN aborted \cup {c} ELSE aborted \ {c}
    /\ pc' = [pc EXCEPT ![c] = "exec"]
    /\ UNCHANGED <<watchers, active, queued, watched, dirty, todo, temp, changed>>

\* EXEC, second critical section: Unwatch, and the reset of the transaction.
\* An aborted transaction ends here.
ExecUnwatch(c) ==
    /\ pc[c] = "exec"
    /\ watchers' = Dropped(c)
    /\ active' = active \ {c}
    /\ queued' = [queued EXCEPT ![c] = <<>>]
    /\ watched' = [watched EXCEPT ![c] = {}]
    /\ dirty' = dirty \ {c}
    /\ changed' = [changed EXCEPT ![c] = {}]
    /\ aborted' = aborted \ {c}
    /\ pc' = [pc EXCEPT ![c] = IF c \in aborted THEN "idle" ELSE "run"]
    /\ todo' = IF c \in aborted THEN todo ELSE [todo EXCEPT ![c] = queued[c]]
    /\ UNCHANGED temp

\* EXEC runs the next queued command, in a critical section of its own.
ExecRun(c) ==
    /\ pc[c] = "run" /\ todo[c] # <<>>
    /\ Apply(Head(todo[c]).op, Head(todo[c]).key)
    /\ todo' = [todo EXCEPT ![c] = Tail(@)]
    /\ UNCHANGED <<watchers, active, queued, watched, aborted, pc>>

\* EXEC returns.
ExecDone(c) ==
    /\ pc[c] = "run" /\ todo[c] = <<>>
    /\ pc' = [pc EXCEPT ![c] = "idle"]
    /\ UNCHANGED <<watchers, active, queued, watched, dirty, aborted, todo, temp, changed>>

\* The connection ends.  Its transaction stays registered.
Close(c) ==
    /\ pc[c] = "idle"
    /\ pc' = [pc EXCEPT ![c] = "closed"]
    /\ UNCHANGED <<watchers, active, queued, watched, dirty, aborted, todo, temp, changed>>

Exec(c) == ExecUnwatch(c) \/ ExecRun(c) \/ ExecDone(c)

Next ==
    \/ \E c \in Clients :
          \/ \E op \in Ops, k \in Keys : Write(c, op, k) \/ Queue(c, op, k)
          \/ \E ks \in SUBSET WatchKeys[c] : Watch(c, ks)
          \/ Multi(c) \/ Unwatch(c) \/ ExecCheck(c) \/ Exec(c) \/ Close(c)
    \/ \E c \in Discarders \cap Clients : Discard(c)
    \/ \E k \in Keys : EvictExpired(k)

Spec == Init /\ [][Next]_vars

--------------------------------------------------------------------------------
(* Properties *)

\* The type invariant: what is queued and run are whole commands.
TypeOK ==
    /\ watchers \in [Keys -> SUBSET Clients]
    /\ active \subseteq Clients
    /\ queued \in [Clients -> Seq(Cmds)]
    /\ watched \in [Clients -> SUBSET Keys]
    /\ dirty \subseteq Clients
    /\ aborted \subseteq Clients
    /\ pc \in [Clients -> {"idle", "exec", "run", "closed"}]
    /\ todo \in [Clients -> Seq(Cmds)]
    /\ temp \subseteq Keys
    /\ changed \in [Clients -> SUBSET Keys]

\* The window between "a watched key changed" and "the transaction knows" does
\* not exist: in every state, a connection one of whose watched keys changed
\* since it was watched has its dirty flag set.
DirtyTracksChange == \A c \in Clients : changed[c] # {} => c \in dirty

\* EXEC answers with a null array only when a watched key changed: the flag of a
\* connection that does not use DISCARD is never set for another reason.
NoSpuriousAbort == \A c \in dirty \ Discarders : changed[c] # {}

\* What the contract sees of the connections that do not use DISCARD.
Steady == Clients \ Discarders

verdict ==
    [c \in Steady |-> IF pc[c] # "exec" THEN "none"
                      ELSE IF c \in aborted THEN "abort" ELSE "run"]

swatched == [c \in Steady |-> watched[c]]
schanged == [c \in Steady |-> changed[c]]

Contract == INSTANCE WatchContract
                WITH Clients <- Steady, watched <- swatched, changed <- schanged

\* The dirty flags implement optimistic locking.  EXEC's check gives the verdict
\* WATCH promises: the queue runs exactly when no watched key has changed by then.
KeepsContract == Contract!CSpec
================================================================================
