------------------------------ MODULE ReplicaAcks ------------------------------
(***************************************************************************)
(* Replica links, offsets and WAIT (app/replication.go: replicaSet and the *)
(* follower's apply loop; app/client.go: PSYNC, REPLCONF ACK, WAIT).       *)
(*                                                                         *)
(* A link is a pair of FIFO channels.  The leader's stream carries writes  *)
(* and GETACKs, known by their sizes only; the follower's carries the      *)
(* offsets of its REPLCONF ACKs.  Each critical section of replicaSet.mu   *)
(* is one action.  ack() closes the ack channel and makes a new one: the   *)
(* n-th channel is the number n, closed when it is not the current one.    *)
(***************************************************************************)
EXTENDS Naturals, Sequences, FiniteSets

CONSTANTS
    Replicas,       \* followers, each with one link to the leader
    Clients,        \* connections that call WAIT
    WriteSize,      \* bytes of a propagated write
    GetAckSize,     \* bytes of REPLCONF GETACK *
    Needs,          \* the numbers of replicas WAIT is called with
    Timeouts,       \* subset of BOOLEAN: TRUE a finite timeout, FALSE "0"
    Breakable,      \* the followers that may die
    MaxOffset       \* bound: no call begins beyond this offset

ASSUME SizesAssumption == WriteSize \in Nat \ {0} /\ GetAckSize \in Nat \ {0}
ASSUME CallsAssumption == Needs \subseteq Nat /\ Timeouts \subseteq BOOLEAN
ASSUME FiniteAssumption == IsFiniteSet(Replicas)
ASSUME BoundsAssumption == Breakable \subseteq Replicas /\ MaxOffset \in Nat

VARIABLES
    offset,     \* replicaSet.offset
    members,    \* replicaSet.replicas
    acc,        \* replica.accOffset
    gen,        \* number of the current ack channel
    link,       \* the follower's end of each link
    stream,     \* leader to follower, in flight: "write" and "getack"
    roff,       \* the follower's offset
    acks,       \* follower to leader, in flight: offsets
    joined,     \* history: the leader's offset when the link was registered
    pc,         \* WAIT: where the caller is
    target,     \* WAIT: the offset to reach
    need,       \* WAIT: numReplicas
    timed,      \* the callers with a timer
    ch,         \* WAIT: the ack channel it holds
    count       \* WAIT: the last count

linkVars == <<link, stream, roff, acks, joined>>
waitVars == <<pc, target, need, timed, ch, count>>
vars == <<offset, members, acc, gen, link, stream, roff, acks, joined, pc,
          target, need, timed, ch, count>>

Size(item) == IF item = "write" THEN WriteSize ELSE GetAckSize

Init ==
    /\ offset = 0
    /\ members = {}
    /\ acc = [r \in Replicas |-> 0]
    /\ gen = 0
    /\ link = [r \in Replicas |-> "handshake"]
    /\ stream = [r \in Replicas |-> <<>>]
    /\ roff = [r \in Replicas |-> 0]
    /\ acks = [r \in Replicas |-> <<>>]
    /\ joined = [r \in Replicas |-> 0]
    /\ pc = [c \in Clients |-> "idle"]
    /\ target = [c \in Clients |-> 0]
    /\ need = [c \in Clients |-> 0]
    /\ timed = {}
    /\ ch = [c \in Clients |-> 0]
    /\ count = [c \in Clients |-> 0]

--------------------------------------------------------------------------------
(* The leader's side of a link *)

\* Mutant: a GETACK does not advance the offset.
PropagateWritesOnly(item) ==
    /\ stream' = [r \in Replicas |-> IF r \in members THEN Append(stream[r], item)
                                                      ELSE stream[r]]
    /\ offset' = IF item = "write" THEN offset + WriteSize ELSE offset

\* propagate: the item goes out on every registered link, and the offset
\* advances by its size.
Propagate(item) ==
    /\ stream' = [r \in Replicas |-> IF r \in members THEN Append(stream[r], item)
                                                      ELSE stream[r]]
    /\ offset' = offset + Size(item)

\* A connection's write command is propagated.
Write ==
    /\ offset < MaxOffset
    /\ Propagate("write")
    /\ UNCHANGED <<members, acc, gen, link, roff, acks, joined, waitVars>>

\* PSYNC, first part: FULLRESYNC with offset 0 and the empty RDB are written;
\* the follower reads them and enters its apply loop at offset 0.
Psync(r) ==
    /\ link[r] = "handshake"
    /\ link' = [link EXCEPT ![r] = "loop"]
    /\ UNCHANGED <<offset, members, acc, gen, stream, roff, acks, joined, waitVars>>

\* PSYNC, second part: the link is registered.
Add(r) ==
    /\ link[r] = "loop" /\ r \notin members
    /\ members' = members \cup {r}
    /\ acc' = [acc EXCEPT ![r] = 0]
    /\ joined' = [joined EXCEPT ![r] = offset]
    /\ UNCHANGED <<offset, gen, link, stream, roff, acks, waitVars>>

\* Mutant: the ack channel is only closed for an offset that is news.
AckQuiet(r) ==
    /\ acks[r] # <<>> /\ r \in members
    /\ acks' = [acks EXCEPT ![r] = Tail(@)]
    /\ acc' = [acc EXCEPT ![r] = Head(acks[r])]
    /\ gen' = IF acc[r] = 0 THEN gen + 1 ELSE gen
    /\ UNCHANGED <<offset, members, link, stream, roff, joined, waitVars>>

\* Mutant: an ACK is taken to mean "up to date".
AckIsNow(r) ==
    /\ acks[r] # <<>> /\ r \in members
    /\ acks' = [acks EXCEPT ![r] = Tail(@)]
    /\ acc' = [acc EXCEPT ![r] = offset]
    /\ gen' = gen + 1
    /\ UNCHANGED <<offset, members, link, stream, roff, joined, waitVars>>

\* REPLCONF ACK: record the offset, wake every WAIT.
Ack(r) ==
    /\ acks[r] # <<>> /\ r \in members
    /\ acks' = [acks EXCEPT ![r] = Tail(@)]
    /\ acc' = [acc EXCEPT ![r] = Head(acks[r])]
    /\ gen' = gen + 1
    /\ UNCHANGED <<offset, members, link, stream, roff, joined, waitVars>>

\* The link's handler fails to read, or is told to stop, and unregisters.
Unregister(r) ==
    /\ link[r] = "dead" /\ r \in members
    /\ members' = members \ {r}
    /\ UNCHANGED <<offset, acc, gen, linkVars, waitVars>>

--------------------------------------------------------------------------------
(* The follower *)

\* One turn of the apply loop: a GETACK is answered with the offset in front of
\* it, anything else goes to the dispatcher; the offset advances past either.
ReplicaApply(r) ==
    /\ link[r] = "loop" /\ stream[r] # <<>>
    /\ stream' = [stream EXCEPT ![r] = Tail(@)]
    /\ acks' = IF Head(stream[r]) = "getack"
               THEN [acks EXCEPT ![r] = Append(@, roff[r])] ELSE acks
    /\ roff' = [roff EXCEPT ![r] = @ + Size(Head(stream[r]))]
    /\ UNCHANGED <<offset, members, acc, gen, link, joined, waitVars>>

\* The follower is gone; what was in flight to it is lost.  It does not come
\* back: startReplication returns.
Die(r) ==
    /\ r \in Breakable /\ link[r] = "loop" /\ r \in members
    /\ link' = [link EXCEPT ![r] = "dead"]
    /\ stream' = [stream EXCEPT ![r] = <<>>]
    /\ UNCHANGED <<offset, members, acc, gen, roff, acks, joined, waitVars>>

--------------------------------------------------------------------------------
(* WAIT *)

\* The call returns n.
Return(c, n) ==
    /\ pc' = [pc EXCEPT ![c] = "idle"]
    /\ target' = [target EXCEPT ![c] = 0]
    /\ need' = [need EXCEPT ![c] = 0]
    /\ timed' = timed \ {c}
    /\ ch' = [ch EXCEPT ![c] = 0]
    /\ count' = [count EXCEPT ![c] = n]
    /\ UNCHANGED <<offset, members, acc, gen, linkVars>>

\* WAIT takes the current offset as its target.
Wait(c, n, t) ==
    /\ pc[c] = "idle" /\ offset < MaxOffset
    /\ pc' = [pc EXCEPT ![c] = IF offset = 0 THEN "fresh" ELSE "ask"]
    /\ target' = [target EXCEPT ![c] = offset]
    /\ need' = [need EXCEPT ![c] = n]
    /\ timed' = IF t THEN timed \cup {c} ELSE timed
    /\ UNCHANGED <<offset, members, acc, gen, linkVars, ch, count>>

\* Nothing was ever propagated: every replica is up to date.
WaitFresh(c) == pc[c] = "fresh" /\ Return(c, Cardinality(members))

\* GETACK is broadcast.
WaitAsk(c) ==
    /\ pc[c] = "ask"
    /\ Propagate("getack")
    /\ pc' = [pc EXCEPT ![c] = "scan"]
    /\ UNCHANGED <<members, acc, gen, link, roff, acks, joined, target, need, timed, ch, count>>

\* The replicas known to have reached c's target.
Reached(c) == {r \in members : acc[r] >= target[c]}

\* The loop's count; enough replicas have it.
WaitEnough(c) ==
    /\ pc[c] = "scan" /\ Cardinality(Reached(c)) >= need[c]
    /\ Return(c, Cardinality(Reached(c)))

\* The loop's count; not enough.  The ack channel is fetched in the same
\* critical section.
WaitMore(c) ==
    /\ pc[c] = "scan" /\ Cardinality(Reached(c)) < need[c]
    /\ pc' = [pc EXCEPT ![c] = "select"]
    /\ ch' = [ch EXCEPT ![c] = gen]
    /\ count' = [count EXCEPT ![c] = Cardinality(Reached(c))]
    /\ UNCHANGED <<offset, members, acc, gen, linkVars, target, need, timed>>

\* select: case <-ch.
WaitWake(c) ==
    /\ pc[c] = "select" /\ ch[c] # gen
    /\ pc' = [pc EXCEPT ![c] = "scan"]
    /\ UNCHANGED <<offset, members, acc, gen, linkVars, target, need, timed, ch, count>>

\* select: case <-timeoutCh.  The answer is the count of the last look.
WaitTimeout(c) == pc[c] = "select" /\ c \in timed /\ Return(c, count[c])

--------------------------------------------------------------------------------
Waiting(c) ==
    \/ WaitFresh(c) \/ WaitAsk(c) \/ WaitEnough(c) \/ WaitMore(c)
    \/ WaitWake(c) \/ WaitTimeout(c)

Links(r) == Add(r) \/ Ack(r) \/ Unregister(r) \/ ReplicaApply(r)

Next ==
    \/ Write
    \/ \E r \in Replicas : Psync(r) \/ Links(r) \/ Die(r)
    \/ \E c \in Clients : Waiting(c) \/ \E n \in Needs, t \in Timeouts : Wait(c, n, t)

Spec == Init /\ [][Next]_vars

\* Handlers and the follower's loop are scheduled, timers fire, and a healthy
\* link delivers.  Nothing says that a client writes or calls WAIT.
FairSpec ==
    /\ Spec
    /\ \A c \in Clients : WF_vars(Waiting(c))
    /\ \A r \in Replicas : WF_vars(Ack(r)) /\ WF_vars(ReplicaApply(r))

--------------------------------------------------------------------------------
(* Properties *)

\* The type invariant.
TypeOK ==
    /\ offset \in Nat /\ members \subseteq Replicas /\ acc \in [Replicas -> Nat]
    /\ gen \in Nat
    /\ link \in [Replicas -> {"handshake", "loop", "dead"}]
    /\ stream \in [Replicas -> Seq({"write", "getack"})]
    /\ roff \in [Replicas -> Nat]
    /\ acks \in [Replicas -> Seq(Nat)]
    /\ joined \in [Replicas -> Nat]
    /\ pc \in [Clients -> {"idle", "fresh", "ask", "scan", "select"}]
    /\ target \in [Clients -> Nat] /\ need \in [Clients -> Nat]
    /\ timed \subseteq Clients
    /\ ch \in [Clients -> Nat] /\ count \in [Clients -> Nat]

\* The follower's place in the leader's stream.
Position(r) == joined[r] + roff[r]

\* WAIT never counts a replica that has not applied everything propagated before
\* the call: when a call that had a target returns n, at least n followers are
\* past the target.
WaitCountsApplied ==
    [][\A c \in Clients :
          pc[c] \in {"scan", "select"} /\ pc'[c] = "idle" =>
              count'[c] <= Cardinality({r \in Replicas : Position(r) >= target[c]})]_vars

\* Bytes in flight to a follower.
Sent(r, item) == Cardinality({i \in DOMAIN stream[r] : stream[r][i] = item})
InFlight(r) == WriteSize * Sent(r, "write") + GetAckSize * Sent(r, "getack")

\* The leader's offset and a follower's never drift apart: what the follower has
\* applied and what is on the way to it is exactly what the leader counted since
\* it registered the link.
OffsetsTrack ==
    \A r \in members : link[r] = "loop" => Position(r) + InFlight(r) = offset

\* A WAIT returns when it has a timer, or when as many replicas as it asks for
\* are alive and were there from the start.
WaitReturns ==
    \A c \in Clients :
        (pc[c] # "idle" /\ (c \in timed
             \/ Cardinality({r \in members \ Breakable : joined[r] = 0}) >= need[c]))
            ~> pc[c] = "idle"
================================================================================
