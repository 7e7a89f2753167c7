-------------------------------- MODULE Server ---------------------------------
(***************************************************************************)
(* The life of the server and of its connections.  main accepts            *)
(* connections and starts a handler for each; a handler reads a command,   *)
(* passes it through the gates of handleClient (authentication, then the   *)
(* queue of MULTI, then subscriber mode), runs it and writes the reply.  A *)
(* signal cancels the context and closes the listener; main then waits for *)
(* the sweeper, the replication link and every handler it has started.     *)
(*                                                                         *)
(* What the commands do to the data is in the other modules.  Here they    *)
(* are told apart by what they do to the connection and to the process.    *)
(***************************************************************************)
EXTENDS Integers, Sequences, FiniteSets

CONSTANTS
    Conns,
    Readers,        \* the connections whose peers read what they are sent
    Sends,          \* the commands the peer of each connection may send
    Passwords,      \* the passwords ACL SETUSER may add
    Attempts,       \* the passwords AUTH may be given
    IsReplica,      \* whether --replicaof was given
    MaxQueue,       \* bound: commands queued by a MULTI
    MaxPipelined    \* bound: commands that arrive together with one another

\* SET stands for the commands that return at once, WAIT for WAIT without a timeout;
\* WATCH is in Transactions.
Plain == {"MULTI", "EXEC", "DISCARD", "SUBSCRIBE", "UNSUBSCRIBE", "SET", "BLPOP", "WAIT"}
Cmds == [name : Plain, pw : {"none"}] \cup [name : {"AUTH"}, pw : Attempts]
        \cup [name : {"SETUSER"}, pw : Passwords]

ASSUME ServerAssumption ==
    /\ IsFiniteSet(Conns) /\ Readers \subseteq Conns /\ Passwords \subseteq Attempts
    /\ Sends \in [Conns -> SUBSET Cmds]
    /\ IsReplica \in BOOLEAN /\ MaxQueue \in Nat /\ MaxPipelined \in Nat

VARIABLES
    nopass,     \* the default user's "nopass" flag
    passwords,  \* the default user's passwords
    pc,         \* where each handler is
    user,       \* "yes" once currentUser is set
    active,     \* tx.active
    queued,     \* tx.queued
    todo,       \* the commands the handler has in hand
    subscribed, \* "yes" while the connection holds a subscription
    pipelined,  \* commands that lie in the reader's buffer
    deadline,   \* "yes" once the watcher has set the read deadline
    main,       \* "accept", "wait" or "exited"
    stop,       \* "no", "cancelled" or "closed": the signal's goroutine
    wg,         \* the wait group
    sweeper,    \* "on" or "off"
    link,       \* "on" or "off": the connection to the master
    locked,     \* history: connections accepted when nopass was gone
    sent        \* history: the right passwords each connection has given

acl == <<nopass, passwords>>
conn == <<user, active, queued, subscribed>>
proc == <<main, stop, sweeper, link>>
hist == <<locked, sent>>
vars == <<acl, conn, proc, hist, pc, todo, pipelined, deadline, wg>>

Init ==
    /\ nopass = "yes" /\ passwords = {}
    /\ pc = [c \in Conns |-> "away"]
    /\ user = [c \in Conns |-> "no"] /\ active = [c \in Conns |-> "no"]
    /\ queued = [c \in Conns |-> <<>>] /\ todo = [c \in Conns |-> <<>>]
    /\ subscribed = [c \in Conns |-> "no"]
    /\ pipelined = [c \in Conns |-> 0] /\ deadline = [c \in Conns |-> "no"]
    /\ main = "accept" /\ stop = "no" /\ sweeper = "on"
    /\ link = IF IsReplica THEN "on" ELSE "off"
    /\ wg = IF IsReplica THEN 2 ELSE 1
    /\ locked = {} /\ sent = [c \in Conns |-> {}]

Goto(c, p) == pc' = [pc EXCEPT ![c] = p]
--------------------------------------------------------------------------------
(* A connection is accepted. *)

\* Mutant: the handler is not counted.
AcceptUncounted(c) ==
    /\ main = "accept" /\ stop # "closed" /\ pc[c] = "away"
    /\ Goto(c, "start")
    /\ locked' = IF nopass = "no" THEN locked \cup {c} ELSE locked
    /\ UNCHANGED <<acl, conn, proc, sent, todo, pipelined, deadline, wg>>

\* l.Accept, wg.Add and the start of the handler's goroutine.  It still happens
\* between the cancellation and the closing of the listener.
Accept(c) ==
    /\ main = "accept" /\ stop # "closed" /\ pc[c] = "away"
    /\ Goto(c, "start")
    /\ wg' = wg + 1
    /\ locked' = IF nopass = "no" THEN locked \cup {c} ELSE locked
    /\ UNCHANGED <<acl, conn, proc, sent, todo, pipelined, deadline>>

\* The handler asks for the default user: defaultIfNoPass.
Start(c) ==
    /\ pc[c] = "start"
    /\ user' = [user EXCEPT ![c] = nopass]
    /\ Goto(c, "read")
    /\ UNCHANGED <<acl, active, queued, subscribed, proc, hist, todo, pipelined, deadline, wg>>

\* The watcher of a connection: the context ends its reads, not its writes.
Watcher(c) ==
    /\ stop # "no" /\ pc[c] \notin {"away", "gone"} /\ deadline[c] = "no"
    /\ deadline' = [deadline EXCEPT ![c] = "yes"]
    /\ UNCHANGED <<acl, conn, proc, hist, pc, todo, pipelined, wg>>
--------------------------------------------------------------------------------
(* A command arrives. *)

\* Mutant: only the data commands need a user.
GateDataOnly(c, name) ==
    IF user[c] = "no" /\ active[c] = "no" /\ name \in {"SET", "BLPOP", "WAIT", "SETUSER"} THEN "answer"
    ELSE IF active[c] = "yes" /\ name \notin {"MULTI", "EXEC", "DISCARD"} THEN "queue"
    ELSE IF subscribed[c] = "yes" /\ name \notin {"SUBSCRIBE", "UNSUBSCRIBE"} THEN "answer"
    ELSE "run"

\* Mutant: subscriptions are not queued.
GateSubscribeFirst(c, name) ==
    IF user[c] = "no" /\ name # "AUTH" THEN "answer"
    ELSE IF name = "SUBSCRIBE" THEN "run"
    ELSE IF active[c] = "yes" /\ name \notin {"MULTI", "EXEC", "DISCARD"} THEN "queue"
    ELSE IF subscribed[c] = "yes" /\ name \notin {"SUBSCRIBE", "UNSUBSCRIBE"} THEN "answer"
    ELSE "run"

\* The gates, in the order handleClient has them: "answer" is an error, or the
\* reply to a PING in subscriber mode.
Gate(c, name) ==
    IF user[c] = "no" /\ name # "AUTH" THEN "answer"
    ELSE IF active[c] = "yes" /\ name \notin {"MULTI", "EXEC", "DISCARD"} THEN "queue"
    ELSE IF subscribed[c] = "yes" /\ name \notin {"SUBSCRIBE", "UNSUBSCRIBE"} THEN "answer"
    ELSE "run"

\* ReadCommand returns a command: from the buffer, or from the socket together
\* with n more, unless the read deadline has passed.
Arrives(c) ==
    /\ pc[c] = "read"
    /\ \/ pipelined[c] > 0 /\ pipelined' = [pipelined EXCEPT ![c] = @ - 1]
       \/ /\ pipelined[c] = 0 /\ deadline[c] = "no"
          /\ \E n \in 0 .. MaxPipelined : pipelined' = [pipelined EXCEPT ![c] = n]
    /\ UNCHANGED <<proc, deadline, wg>>

Answer(c, m) ==
    /\ Arrives(c) /\ Gate(c, m.name) = "answer"
    /\ Goto(c, "write")
    /\ UNCHANGED <<acl, conn, hist, todo>>

\* What becomes of a queued command: the ones that only handleClient knows are
\* unknown to EXEC's handleCommands and return at once, as SET does.
Queued(m) == IF m.name \in {"BLPOP", "SETUSER"} THEN m ELSE [name |-> "SET", pw |-> "none"]

Queue(c, m) ==
    /\ Arrives(c) /\ Gate(c, m.name) = "queue" /\ Len(queued[c]) < MaxQueue
    /\ queued' = [queued EXCEPT ![c] = Append(@, Queued(m))]
    /\ Goto(c, "write")
    /\ UNCHANGED <<acl, user, active, subscribed, hist, todo>>

Multi(c, m) ==
    /\ Arrives(c) /\ m.name = "MULTI" /\ Gate(c, m.name) = "run"
    /\ active' = [active EXCEPT ![c] = "yes"]
    /\ Goto(c, "write")
    /\ UNCHANGED <<acl, user, queued, subscribed, hist, todo>>

Discard(c, m) ==
    /\ Arrives(c) /\ m.name = "DISCARD" /\ Gate(c, m.name) = "run"
    /\ active' = [active EXCEPT ![c] = "no"]
    /\ queued' = [queued EXCEPT ![c] = <<>>]
    /\ Goto(c, "write")
    /\ UNCHANGED <<acl, user, subscribed, hist, todo>>

\* EXEC takes the queue in hand, unless the transaction is dirty (Transactions).
\* Without MULTI it is an error.
Exec(c, m) ==
    /\ Arrives(c) /\ m.name = "EXEC" /\ Gate(c, m.name) = "run"
    /\ active' = [active EXCEPT ![c] = "no"]
    /\ queued' = [queued EXCEPT ![c] = <<>>]
    /\ \/ active[c] = "yes" /\ Goto(c, "run") /\ todo' = [todo EXCEPT ![c] = queued[c]]
       \/ Goto(c, "write") /\ UNCHANGED todo
    /\ UNCHANGED <<acl, user, subscribed, hist>>

\* SUBSCRIBE, and UNSUBSCRIBE from the one channel: before any SUBSCRIBE it ends
\* the process, see UnsubscribePanic in PubSub.
Subscribe(c, m) ==
    /\ Arrives(c) /\ m.name \in {"SUBSCRIBE", "UNSUBSCRIBE"} /\ Gate(c, m.name) = "run"
    /\ m.name = "UNSUBSCRIBE" => subscribed[c] = "yes"
    /\ subscribed' = [subscribed EXCEPT ![c] = IF m.name = "SUBSCRIBE" THEN "yes" ELSE "no"]
    /\ Goto(c, "write")
    /\ UNCHANGED <<acl, user, active, queued, hist, todo>>

\* AUTH: checkPassword takes any password while the user has "nopass".
Auth(c, m) ==
    /\ Arrives(c) /\ m.name = "AUTH" /\ Gate(c, m.name) = "run"
    /\ user' = IF nopass = "yes" \/ m.pw \in passwords THEN [user EXCEPT ![c] = "yes"] ELSE user
    /\ sent' = [sent EXCEPT ![c] = @ \cup ({m.pw} \cap passwords)]
    /\ Goto(c, "write")
    /\ UNCHANGED <<acl, active, queued, subscribed, locked, todo>>

\* The default case: handleCommands.
Take(c, m) ==
    /\ Arrives(c) /\ m.name \in {"SET", "BLPOP", "SETUSER"} /\ Gate(c, m.name) = "run"
    /\ Goto(c, "run") /\ todo' = [todo EXCEPT ![c] = <<m>>]
    /\ UNCHANGED <<acl, conn, hist>>

Wait(c, m) ==
    /\ Arrives(c) /\ m.name = "WAIT" /\ Gate(c, m.name) = "run"
    /\ Goto(c, "wait")
    /\ UNCHANGED <<acl, conn, hist, todo>>
--------------------------------------------------------------------------------
(* The commands in hand are run and the reply is written. *)

Done(c) == todo' = [todo EXCEPT ![c] = Tail(@)]

\* Commands that return at once.
Run(c) ==
    /\ pc[c] = "run" /\ todo[c] # <<>>
    /\ Head(todo[c]).name \notin {"BLPOP", "SETUSER"}
    /\ Done(c)
    /\ UNCHANGED <<acl, conn, proc, hist, pc, pipelined, deadline, wg>>

\* ACL SETUSER default >password, without the lock of the ACL: the password is
\* added first and "nopass" is dropped after it.
SetUserAdd(c) ==
    /\ pc[c] = "run" /\ todo[c] # <<>> /\ Head(todo[c]).name = "SETUSER"
    /\ passwords' = passwords \cup {Head(todo[c]).pw}
    /\ Goto(c, "setuser")
    /\ UNCHANGED <<nopass, conn, proc, hist, todo, pipelined, deadline, wg>>

SetUserLock(c) ==
    /\ pc[c] = "setuser"
    /\ nopass' = "no"
    /\ Goto(c, "run") /\ Done(c)
    /\ UNCHANGED <<passwords, conn, proc, hist, pipelined, deadline, wg>>

\* BLPOP on an empty list; XREAD BLOCK is alike.
Block(c) ==
    /\ pc[c] = "run" /\ todo[c] # <<>> /\ Head(todo[c]).name = "BLPOP"
    /\ Goto(c, "block")
    /\ UNCHANGED <<acl, conn, proc, hist, todo, pipelined, deadline, wg>>

\* An element, a timeout.
Served(c) ==
    /\ pc[c] = "block"
    /\ Goto(c, "run") /\ Done(c)
    /\ UNCHANGED <<acl, conn, proc, hist, pipelined, deadline, wg>>

\* Mutant: the call does not listen to the context.
CancelledNever(c) == stop = "no" /\ Served(c)

\* The context ends the call.
Cancelled(c) == stop # "no" /\ Served(c)

\* The acknowledgements WAIT counts have come in.  It does not see the context.
Acked(c) ==
    /\ pc[c] = "wait"
    /\ Goto(c, "write")
    /\ UNCHANGED <<acl, conn, proc, hist, todo, pipelined, deadline, wg>>

Ran(c) ==
    /\ pc[c] = "run" /\ todo[c] = <<>>
    /\ Goto(c, "write")
    /\ UNCHANGED <<acl, conn, proc, hist, todo, pipelined, deadline, wg>>

\* conn.Write: it returns when the peer has room for it.
Write(c) ==
    /\ pc[c] = "write"
    /\ Goto(c, "read")
    /\ UNCHANGED <<acl, conn, proc, hist, todo, pipelined, deadline, wg>>

\* The handler returns: the peer has left, or the read deadline has passed and
\* the buffer is empty.
Return(c) ==
    /\ pc[c] = "read"
    /\ Goto(c, "gone")
    /\ wg' = wg - 1
    /\ UNCHANGED <<acl, conn, proc, hist, todo, pipelined, deadline>>

Leave(c) == pipelined[c] = 0 /\ deadline[c] = "no" /\ Return(c)
TimeOut(c) == pipelined[c] = 0 /\ deadline[c] = "yes" /\ Return(c)
--------------------------------------------------------------------------------
(* The process stops. *)

Cancel ==
    /\ stop = "no" /\ stop' = "cancelled"
    /\ UNCHANGED <<acl, conn, main, sweeper, link, hist, pc, todo, pipelined, deadline, wg>>

CloseListener ==
    /\ stop = "cancelled" /\ stop' = "closed"
    /\ UNCHANGED <<acl, conn, main, sweeper, link, hist, pc, todo, pipelined, deadline, wg>>

\* Accept fails and the context is done.
StopAccepting ==
    /\ main = "accept" /\ stop = "closed"
    /\ main' = "wait"
    /\ UNCHANGED <<acl, conn, stop, sweeper, link, hist, pc, todo, pipelined, deadline, wg>>

SweeperStops ==
    /\ sweeper = "on" /\ stop # "no"
    /\ sweeper' = "off" /\ wg' = wg - 1
    /\ UNCHANGED <<acl, conn, main, stop, link, hist, pc, todo, pipelined, deadline>>

\* startReplication returns when the master hangs up or a step fails, not when
\* the context ends.
LinkEnds ==
    /\ link = "on"
    /\ link' = "off" /\ wg' = wg - 1
    /\ UNCHANGED <<acl, conn, main, stop, sweeper, hist, pc, todo, pipelined, deadline>>

\* wg.Wait returns and main with it.
Exit ==
    /\ main = "wait" /\ wg = 0
    /\ main' = "exited"
    /\ UNCHANGED <<acl, conn, stop, sweeper, link, hist, pc, todo, pipelined, deadline, wg>>

Receive(c) ==
    \E m \in Sends[c] :
        \/ Answer(c, m) \/ Queue(c, m) \/ Multi(c, m) \/ Discard(c, m) \/ Exec(c, m)
        \/ Subscribe(c, m) \/ Auth(c, m) \/ Take(c, m) \/ Wait(c, m)

Handle(c) ==
    Run(c) \/ SetUserAdd(c) \/ SetUserLock(c) \/ Block(c) \/ Cancelled(c) \/ Ran(c)

Next ==
    \/ \E c \in Conns : \/ Accept(c) \/ Start(c) \/ Watcher(c) \/ Receive(c) \/ Handle(c)
                        \/ Served(c) \/ Acked(c) \/ Write(c) \/ Leave(c) \/ TimeOut(c)
    \/ Cancel \/ CloseListener \/ StopAccepting \/ SweeperStops \/ LinkEnds \/ Exit

Spec == Init /\ [][Next]_vars

\* What the code does by itself happens: handlers, watchers, the sweeper, main and
\* the signal's goroutine run on, commands in the buffer are taken up, and a
\* write to a peer that reads returns.  Nothing makes a peer send or leave, an
\* element or an acknowledgement arrive, or the master hang up.
FairSpec ==
    /\ Spec
    /\ \A c \in Conns :
          /\ WF_vars(Start(c)) /\ WF_vars(Watcher(c)) /\ WF_vars(Handle(c))
          /\ WF_vars(pipelined[c] > 0 /\ Receive(c)) /\ WF_vars(TimeOut(c))
    /\ \A c \in Readers : WF_vars(Write(c))
    /\ WF_vars(CloseListener) /\ WF_vars(StopAccepting) /\ WF_vars(SweeperStops) /\ WF_vars(Exit)
--------------------------------------------------------------------------------
Executing(c) == pc[c] \in {"run", "setuser", "block", "wait"}

\* AuthHolds: once ACL SETUSER has taken "nopass" away, a connection accepted
\* later has no command run, not through MULTI and EXEC either, before it has
\* sent one of the passwords.
AuthHolds == \A c \in locked : Executing(c) => sent[c] \cap passwords # {}

\* SubscriberSilent: a connection with a subscription runs no data command, and
\* there is no back way through a transaction: it is never inside MULTI.
SubscriberSilent ==
    \A c \in Conns : subscribed[c] = "yes" => active[c] = "no" /\ ~Executing(c)

\* CleanExit: when main returns no handler is at work, whenever it was accepted:
\* a shutdown cuts no command short.
CleanExit == main = "exited" => \A c \in Conns : pc[c] \in {"away", "gone"}

\* HeldUp: the waits that the shutdown cannot end.
HeldUp ==
    \/ link = "on"
    \/ \E c \in Conns : pc[c] = "wait" \/ (pc[c] = "write" /\ c \notin Readers)

\* ShutdownEnds: after a signal the process exits, whatever its handlers were
\* doing, unless from some moment on it is held up by a WAIT without a timeout,
\* a peer that does not read its replies, or the link to the master.
ShutdownEnds == [](stop # "no" => <>(main = "exited" \/ []HeldUp))
================================================================================
