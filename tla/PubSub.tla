-------------------------------- MODULE PubSub ---------------------------------
(***************************************************************************)
(* SUBSCRIBE, UNSUBSCRIBE and PUBLISH (app/pubsub.go, app/client.go).      *)
(*                                                                         *)
(* deliver copies a channel's subscribers under the registry's mutex, lets *)
(* go of it, and writes to one socket after the other.  A socket takes     *)
(* SocketCap frames its peer has not read; a write to a full one blocks.   *)
(* A frame is a confirmation, a message (known by its number) or the reply *)
(* to PUBLISH.  A command with several channels is the same iteration for  *)
(* each of them, so one channel per command stands for it.                 *)
(***************************************************************************)
EXTENDS Naturals, Sequences, FiniteSets

CONSTANTS
    Conns,          \* connections
    Channels,
    Nobody,         \* no connection
    NoChannel,      \* no channel
    Readers,        \* the connections whose peer keeps reading
    Breakable,      \* the connections whose peer may go away
    NilUnsub,       \* TRUE: some peers send UNSUBSCRIBE before any SUBSCRIBE
    SocketCap,      \* frames a socket takes
    MaxMsgs,        \* bound: messages published
    MaxSubs         \* bound: SUBSCRIBE and UNSUBSCRIBE commands

ASSUME PeersAssumption == Readers \subseteq Conns /\ Breakable \subseteq Conns
ASSUME NoneAssumption == Nobody \notin Conns /\ NoChannel \notin Channels
ASSUME NilAssumption == NilUnsub \in BOOLEAN
ASSUME BoundsAssumption ==
    SocketCap \in Nat \ {0} /\ MaxMsgs \in Nat /\ MaxSubs \in Nat

VARIABLES
    conn,       \* "open", "broken" (the peer is gone) or "closed" (handler done)
    mu,         \* who holds pubsub.mu, Nobody when it is free
    channels,   \* pubsub.channels: the subscribers of each channel
    subscribed, \* handleClient's local set
    sub,        \* "yes" once handleClient's sub is not nil
    pc,         \* where each handler is
    arg,        \* the channel of its command
    msg,        \* deliver: the message
    subs,       \* deliver: the subscribers still to be written to
    count,      \* deliver: len(subs)
    sock,       \* frames written to each connection and not read by its peer
    crashed,    \* "yes" once a handler has panicked
    nSub,       \* SUBSCRIBE and UNSUBSCRIBE commands so far
    nMsg,       \* messages so far
    log,        \* history: every frame written to each connection
    owed        \* history: connection and message, of confirmed subscriptions

delivery == <<msg, subs, count, nMsg, owed>>
registry == <<channels, subscribed, sub, nSub>>
vars == <<conn, mu, channels, subscribed, sub, pc, arg, msg, subs, count, sock,
          crashed, nSub, nMsg, log, owed>>

Init ==
    /\ conn = [c \in Conns |-> "open"]
    /\ mu = Nobody
    /\ channels = [ch \in Channels |-> {}]
    /\ subscribed = [c \in Conns |-> {}]
    /\ sub = [c \in Conns |-> "no"]
    /\ pc = [c \in Conns |-> "idle"]
    /\ arg = [c \in Conns |-> NoChannel]
    /\ msg = [c \in Conns |-> 0]
    /\ subs = [c \in Conns |-> <<>>]
    /\ count = [c \in Conns |-> 0]
    /\ sock = [c \in Conns |-> <<>>]
    /\ crashed = "no"
    /\ nSub = 0 /\ nMsg = 0
    /\ log = [c \in Conns |-> <<>>]
    /\ owed = {}

--------------------------------------------------------------------------------
(* Sockets *)

\* A write waits for room; on a connection whose peer is gone it fails at once,
\* and the error is dropped.
Write(d, tag, ch, n) ==
    LET frame == [tag |-> tag, ch |-> ch, n |-> n] IN
    IF conn[d] = "open"
    THEN /\ Len(sock[d]) < SocketCap
         /\ sock' = [sock EXCEPT ![d] = Append(@, frame)]
         /\ log' = [log EXCEPT ![d] = Append(@, frame)]
    ELSE UNCHANGED <<sock, log>>

\* The peer reads a frame.
PeerRead(c) ==
    /\ sock[c] # <<>>
    /\ sock' = [sock EXCEPT ![c] = Tail(@)]
    /\ UNCHANGED <<conn, mu, registry, pc, arg, delivery, crashed, log>>

\* The peer goes away, with what it has not read.
PeerGone(c) ==
    /\ crashed = "no" /\ conn[c] = "open" /\ c \in Breakable
    /\ conn' = [conn EXCEPT ![c] = "broken"]
    /\ sock' = [sock EXCEPT ![c] = <<>>]
    /\ UNCHANGED <<mu, registry, pc, arg, delivery, crashed, log>>

\* The handler's next read fails and it returns.  Its deferred calls close the
\* connection and remove it from the replica set; the registry keeps it.
HandlerReturn(c) ==
    /\ crashed = "no" /\ conn[c] = "broken" /\ pc[c] = "idle"
    /\ conn' = [conn EXCEPT ![c] = "closed"]
    /\ UNCHANGED <<mu, registry, pc, arg, delivery, sock, crashed, log>>

--------------------------------------------------------------------------------
(* SUBSCRIBE and UNSUBSCRIBE *)

Idle(c) == crashed = "no" /\ conn[c] # "closed" /\ pc[c] = "idle"

\* SUBSCRIBE: into the registry, then into the handler's own set.
Subscribe(c, ch) ==
    /\ Idle(c) /\ nSub < MaxSubs /\ mu = Nobody
    /\ sub' = [sub EXCEPT ![c] = "yes"]
    /\ channels' = [channels EXCEPT ![ch] = @ \cup {c}]
    /\ subscribed' = [subscribed EXCEPT ![c] = @ \cup {ch}]
    /\ arg' = [arg EXCEPT ![c] = ch]
    /\ pc' = [pc EXCEPT ![c] = "subscribed"]
    /\ nSub' = nSub + 1
    /\ UNCHANGED <<conn, mu, delivery, sock, crashed, log>>

\* sub.write: the confirmation, with the number of the connection's channels.
SubscribeReply(c) ==
    /\ crashed = "no" /\ pc[c] = "subscribed"
    /\ Write(c, "subscribe", arg[c], Cardinality(subscribed[c]))
    /\ pc' = [pc EXCEPT ![c] = "idle"]
    /\ arg' = [arg EXCEPT ![c] = NoChannel]
    /\ UNCHANGED <<conn, mu, registry, delivery, crashed>>

\* UNSUBSCRIBE: out of the registry, then out of the handler's own set.  The
\* number it will report is how many subscribers the channel has left.
Unsubscribe(c, ch) ==
    /\ Idle(c) /\ nSub < MaxSubs /\ mu = Nobody
    /\ sub[c] = "no" => NilUnsub
    /\ channels' = [channels EXCEPT ![ch] = @ \ {c}]
    /\ subscribed' = [subscribed EXCEPT ![c] = @ \ {ch}]
    /\ count' = [count EXCEPT ![c] = Cardinality(channels[ch] \ {c})]
    /\ arg' = [arg EXCEPT ![c] = ch]
    /\ pc' = [pc EXCEPT ![c] = "unsubscribed"]
    /\ nSub' = nSub + 1
    /\ UNCHANGED <<conn, mu, sub, msg, subs, nMsg, owed, sock, crashed, log>>

\* sub.write on a subscriber.
UnsubscribeReply(c) ==
    /\ crashed = "no" /\ pc[c] = "unsubscribed" /\ sub[c] = "yes"
    /\ Write(c, "unsubscribe", arg[c], count[c])
    /\ pc' = [pc EXCEPT ![c] = "idle"]
    /\ arg' = [arg EXCEPT ![c] = NoChannel]
    /\ count' = [count EXCEPT ![c] = 0]
    /\ UNCHANGED <<conn, mu, registry, msg, subs, nMsg, owed, crashed>>

\* sub.write on a nil subscriber: the process dies.
UnsubscribePanic(c) ==
    /\ crashed = "no" /\ pc[c] = "unsubscribed" /\ sub[c] = "no"
    /\ crashed' = "yes"
    /\ UNCHANGED <<conn, mu, registry, pc, arg, delivery, sock, log>>
--------------------------------------------------------------------------------
(* PUBLISH *)

\* What a peer has been told last about a channel is that it is subscribed.
Told(d, ch) ==
    LET about == SelectSeq(log[d], LAMBDA f : f.ch = ch /\ f.tag \in {"subscribe", "unsubscribe"})
    IN  about # <<>> /\ about[Len(about)].tag = "subscribe"

\* A peer that counts on the channel's messages: it has its confirmation and
\* has not sent an UNSUBSCRIBE since.
Confirmed(d, ch) ==
    conn[d] = "open" /\ Told(d, ch) /\ ~(pc[d] = "unsubscribed" /\ arg[d] = ch)

\* The orders in which the keys of a map may be visited.
Orders(S) == {q \in [1 .. Cardinality(S) -> S] : \A i, j \in DOMAIN q : i # j => q[i] # q[j]}

\* Mutant: the copy starts one too late.
DeliverLockShort(c, ch) ==
    /\ Idle(c) /\ subscribed[c] = {} /\ nMsg < MaxMsgs /\ mu = Nobody
    /\ mu' = c
    /\ nMsg' = nMsg + 1
    /\ msg' = [msg EXCEPT ![c] = nMsg + 1]
    /\ arg' = [arg EXCEPT ![c] = ch]
    /\ \E order \in Orders(channels[ch]) : subs' = [subs EXCEPT ![c] = SubSeq(order, 2, Len(order))]
    /\ count' = [count EXCEPT ![c] = Cardinality(channels[ch])]
    /\ pc' = [pc EXCEPT ![c] = "locked"]
    /\ owed' = owed \cup {<<d, nMsg + 1>> : d \in {e \in Conns : Confirmed(e, ch)}}
    /\ UNCHANGED <<conn, registry, sock, crashed, log>>

\* deliver copies the subscribers under the registry's mutex, in the order of a
\* map's iteration: any.  A connection with subscriptions may not PUBLISH.
DeliverLock(c, ch) ==
    /\ Idle(c) /\ subscribed[c] = {} /\ nMsg < MaxMsgs /\ mu = Nobody
    /\ mu' = c
    /\ nMsg' = nMsg + 1
    /\ msg' = [msg EXCEPT ![c] = nMsg + 1]
    /\ arg' = [arg EXCEPT ![c] = ch]
    /\ \E order \in Orders(channels[ch]) : subs' = [subs EXCEPT ![c] = order]
    /\ count' = [count EXCEPT ![c] = Cardinality(channels[ch])]
    /\ pc' = [pc EXCEPT ![c] = "locked"]
    /\ owed' = owed \cup {<<d, nMsg + 1>> : d \in {e \in Conns : Confirmed(e, ch)}}
    /\ UNCHANGED <<conn, registry, sock, crashed, log>>

\* Mutant: the mutex is kept while there is something to write.
DeliverUnlockLate(c) ==
    /\ crashed = "no" /\ pc[c] = "locked"
    /\ mu' = IF subs[c] = <<>> THEN Nobody ELSE c
    /\ pc' = [pc EXCEPT ![c] = "deliver"]
    /\ UNCHANGED <<conn, registry, arg, delivery, sock, crashed, log>>

\* The mutex is released before the first write.
DeliverUnlock(c) ==
    /\ crashed = "no" /\ pc[c] = "locked"
    /\ mu' = Nobody
    /\ pc' = [pc EXCEPT ![c] = "deliver"]
    /\ UNCHANGED <<conn, registry, arg, delivery, sock, crashed, log>>

\* Mutant: a write that had to wait is tried again.
DeliverWriteTwice(c) ==
    /\ crashed = "no" /\ pc[c] = "deliver"
    /\ subs[c] # <<>>
    /\ Write(Head(subs[c]), "message", arg[c], msg[c])
    /\ subs' = [subs EXCEPT ![c] = IF Len(sock[Head(@)]) + 1 = SocketCap THEN @ ELSE Tail(@)]
    /\ UNCHANGED <<conn, mu, registry, pc, arg, msg, count, nMsg, owed, crashed>>

\* One write; the next subscriber waits until it is done.
DeliverWrite(c) ==
    /\ crashed = "no" /\ pc[c] = "deliver"
    /\ subs[c] # <<>>
    /\ Write(Head(subs[c]), "message", arg[c], msg[c])
    /\ subs' = [subs EXCEPT ![c] = Tail(@)]
    /\ UNCHANGED <<conn, mu, registry, pc, arg, msg, count, nMsg, owed, crashed>>

\* PUBLISH replies with the number of subscribers it copied.
PublishReply(c) ==
    /\ crashed = "no" /\ pc[c] = "deliver" /\ subs[c] = <<>>
    /\ Write(c, "count", arg[c], count[c])
    /\ pc' = [pc EXCEPT ![c] = "idle"]
    /\ arg' = [arg EXCEPT ![c] = NoChannel]
    /\ msg' = [msg EXCEPT ![c] = 0]
    /\ count' = [count EXCEPT ![c] = 0]
    /\ UNCHANGED <<conn, mu, registry, subs, nMsg, owed, crashed>>

--------------------------------------------------------------------------------

Handler(c) ==
    \/ SubscribeReply(c) \/ UnsubscribeReply(c) \/ UnsubscribePanic(c)
    \/ DeliverUnlock(c) \/ DeliverWrite(c) \/ PublishReply(c) \/ HandlerReturn(c)

Command(c, ch) == Subscribe(c, ch) \/ Unsubscribe(c, ch) \/ DeliverLock(c, ch)

Next == \E c \in Conns :
    \/ Handler(c) \/ PeerRead(c) \/ PeerGone(c)
    \/ \E ch \in Channels : Command(c, ch)

Spec == Init /\ [][Next]_vars

\* The runtime runs every handler that can run; a reader's peer reads.
FairSpec == Spec /\ \A c \in Conns :
    WF_vars(Handler(c)) /\ (c \in Readers => WF_vars(PeerRead(c)))

--------------------------------------------------------------------------------
(* Properties *)

\* No connection is written the same message twice, however often it subscribed
\* and whatever its socket did.
OncePerMessage ==
    \A c \in Conns : \A i, j \in DOMAIN log[c] :
        (log[c][i].tag = "message" /\ log[c][j].tag = "message" /\ log[c][i].n = log[c][j].n)
            => i = j

\* A SUBSCRIBE or UNSUBSCRIBE of a peer that reads completes, and the registry is
\* never held for good: a subscriber that does not read cannot stop either.
RegistryAvailable ==
    /\ []<>(mu = Nobody \/ crashed = "yes")
    /\ \A c \in Readers :
          pc[c] \in {"subscribed", "unsubscribed"} ~> (pc[c] = "idle" \/ crashed = "yes")

\* A publisher waits for a peer that does not read.
HeldUp(n) ==
    \E p \in Conns :
        /\ msg[p] = n /\ subs[p] # <<>>
        /\ Head(subs[p]) \notin Readers /\ Len(sock[Head(subs[p])]) = SocketCap

\* A message owed to a peer that keeps reading is written to it in the end: only a
\* subscriber that does not read can hold it up, by blocking deliver's loop.
OwedArrives ==
    \A c \in Readers : \A n \in 1 .. MaxMsgs :
        <<c, n>> \in owed
            ~> (\/ conn[c] # "open" \/ crashed = "yes" \/ HeldUp(n)
                \/ \E i \in DOMAIN log[c] : log[c][i].tag = "message" /\ log[c][i].n = n)
================================================================================
