------------------------------- MODULE WritePath -------------------------------
(***************************************************************************)
(* A write command from the store to the replica and the append-only file  *)
(* (app/client.go: the default case of handleClient; app/aof.go;           *)
(* app/replication.go: propagate and the apply loop; app/main.go: boot and *)
(* shutdown).                                                              *)
(*                                                                         *)
(* A handler applies its command and replies, then propagates it, then     *)
(* appends it to the file: three steps under three mutexes, and other      *)
(* handlers act in between.  The same dispatcher runs the command on the   *)
(* replica and, at the next boot, from the file.                           *)
(*                                                                         *)
(* One string key and one list key stand for the data.  SET writes its own *)
(* number, RPUSH pushes it; BLPOP takes an element, or waits for one.      *)
(***************************************************************************)
EXTENDS Naturals, Sequences, FiniteSets, Functions

CONSTANTS
    Clients,        \* connections that write
    Kinds,          \* the commands in use: a subset of AllKinds
    LinkCap,        \* commands that fit into the replica's connection
    MaxCmds,        \* bound: commands in a behaviour
    MaxStops        \* bound: crashes and shutdowns in a behaviour

\* SETPX is SET with an expiry time, BLPOP0 is BLPOP without a timeout.
AllKinds == {"SET", "SETPX", "RPUSH", "BLPOP", "BLPOP0"}

ASSUME ClientsAssumption == IsFiniteSet(Clients)
ASSUME KindsAssumption == Kinds \subseteq AllKinds
ASSUME BoundsAssumption ==
    LinkCap \in Nat \ {0} /\ MaxCmds \in Nat /\ MaxStops \in Nat

VARIABLES
    mode,       \* the leader's process: "up", "down" or "boot"
    val,        \* the string key's value, 0 when the key is missing
    temp,       \* "yes" when the string key has an expiry time
    list,       \* the list
    waiters,    \* connections blocked in BLPOP, oldest first
    pc,         \* where each handler is
    cmd,        \* the command it works on
    stream,     \* commands in the replica's connection
    rval,       \* the replica's string key
    rtemp,      \* "yes" when it has an expiry time
    rlist,      \* the replica's list
    linked,     \* "yes" while the link is up
    file,       \* the append-only file
    at,         \* boot: the next command to replay
    done,       \* "yes" once the context is cancelled
    nCmd,       \* commands so far
    nStop,      \* crashes and shutdowns so far
    acked,      \* history: commands that were answered
    mixed       \* history: keys on which two commands were under way at once since
                \* the start of the process

dataVars == <<val, temp, list>>
replicaVars == <<stream, rval, rtemp, rlist, linked>>
vars == <<mode, val, temp, list, waiters, pc, cmd, stream, rval, rtemp, rlist, linked,
          file, at, done, nCmd, nStop, acked, mixed>>

NoCmd == [op |-> "none", id |-> 0]

Init ==
    /\ mode = "up"
    /\ val = 0 /\ temp = "no" /\ list = <<>>
    /\ waiters = <<>>
    /\ pc = [c \in Clients |-> "idle"]
    /\ cmd = [c \in Clients |-> NoCmd]
    /\ stream = <<>> /\ rval = 0 /\ rtemp = "no" /\ rlist = <<>> /\ linked = "yes"
    /\ file = <<>> /\ at = 1
    /\ done = "no"
    /\ nCmd = 0 /\ nStop = 0
    /\ acked = {} /\ mixed = {}

--------------------------------------------------------------------------------
(* The handler: handleCommands, propagate, Append *)

\* The handler reads a command.  (A cancelled context stops it only at the next
\* read from the socket; commands it has buffered are still run.)
Read(c, op) ==
    /\ mode = "up" /\ pc[c] = "idle" /\ nCmd < MaxCmds
    /\ nCmd' = nCmd + 1
    /\ cmd' = [cmd EXCEPT ![c] = [op |-> op, id |-> nCmd + 1]]

KeyOf(op) == IF op \in {"SET", "SETPX"} THEN "string" ELSE "list"

\* Another handler's command on the same key is applied and not yet in the file.
Mixes(c, op) ==
    IF \E d \in Clients \ {c} :
           pc[d] \in {"reply", "propagate", "append"} /\ KeyOf(cmd[d].op) = KeyOf(op)
    THEN mixed \cup {KeyOf(op)} ELSE mixed

\* SET, with or without PX.
Set(c, op) ==
    /\ op \in {"SET", "SETPX"} /\ Read(c, op)
    /\ val' = nCmd + 1 /\ temp' = IF op = "SETPX" THEN "yes" ELSE "no"
    /\ pc' = [pc EXCEPT ![c] = "reply"]
    /\ mixed' = Mixes(c, op)
    /\ UNCHANGED <<mode, list, waiters, replicaVars, file, at, done, nStop, acked>>

\* RPUSH serves the oldest waiter, or else appends.
RPush(c, op) ==
    /\ op = "RPUSH" /\ Read(c, op)
    /\ IF waiters = <<>>
       THEN /\ list' = Append(list, nCmd + 1)
            /\ pc' = [pc EXCEPT ![c] = "reply"]
            /\ mixed' = Mixes(c, op)
            /\ UNCHANGED waiters
       ELSE /\ waiters' = Tail(waiters)
            /\ pc' = [pc EXCEPT ![c] = "reply", ![Head(waiters)] = "reply"]
            /\ mixed' = mixed \cup {"list"}
            /\ UNCHANGED list
    /\ UNCHANGED <<mode, val, temp, replicaVars, file, at, done, nStop, acked>>

\* BLPOP takes the head of the list, or waits.
BLpop(c, op) ==
    /\ op \in {"BLPOP", "BLPOP0"} /\ Read(c, op)
    /\ IF list # <<>>
       THEN /\ list' = Tail(list)
            /\ pc' = [pc EXCEPT ![c] = "reply"]
            /\ mixed' = Mixes(c, op)
            /\ UNCHANGED waiters
       ELSE /\ waiters' = Append(waiters, c)
            /\ pc' = [pc EXCEPT ![c] = "blocked"]
            /\ UNCHANGED <<list, mixed>>
    /\ UNCHANGED <<mode, val, temp, replicaVars, file, at, done, nStop, acked>>

\* A waiting BLPOP runs out of time, or the server shuts down: the reply is nil.
GiveUp(c) ==
    /\ mode = "up" /\ pc[c] = "blocked"
    /\ cmd[c].op = "BLPOP" \/ done = "yes"
    /\ \E i \in DOMAIN waiters :
          /\ waiters[i] = c
          /\ waiters' = SubSeq(waiters, 1, i - 1) \o SubSeq(waiters, i + 1, Len(waiters))
    /\ pc' = [pc EXCEPT ![c] = "reply"]
    /\ mixed' = Mixes(c, cmd[c].op)
    /\ UNCHANGED <<mode, dataVars, cmd, replicaVars, file, at, done, nCmd, nStop, acked>>

\* handleCommands writes the reply.
Reply(c) ==
    /\ mode = "up" /\ pc[c] = "reply"
    /\ acked' = acked \cup {cmd[c].id}
    /\ pc' = [pc EXCEPT ![c] = "propagate"]
    /\ UNCHANGED <<mode, dataVars, waiters, cmd, replicaVars, file, at, done, nCmd, nStop, mixed>>

\* Mutant: a BLPOP is taken for a read and not sent.
PropagateNoPop(c) ==
    /\ mode = "up" /\ pc[c] = "propagate"
    /\ linked = "yes" => Len(stream) < LinkCap
    /\ stream' = IF linked = "yes" /\ cmd[c].op \notin {"BLPOP", "BLPOP0"}
                 THEN Append(stream, cmd[c]) ELSE stream
    /\ pc' = [pc EXCEPT ![c] = "append"]
    /\ UNCHANGED <<mode, dataVars, waiters, cmd, rval, rtemp, rlist, linked, file, at, done, nCmd, nStop,
                   acked, mixed>>

\* propagate: the command is written to the replica's connection.  A write to a
\* full connection blocks, with the replica set's mutex held; a write to a
\* broken one fails and the error is dropped.
Propagate(c) ==
    /\ mode = "up" /\ pc[c] = "propagate"
    /\ linked = "yes" => Len(stream) < LinkCap
    /\ stream' = IF linked = "yes" THEN Append(stream, cmd[c]) ELSE stream
    /\ pc' = [pc EXCEPT ![c] = "append"]
    /\ UNCHANGED <<mode, dataVars, waiters, cmd, rval, rtemp, rlist, linked, file, at, done, nCmd, nStop,
                   acked, mixed>>

\* Mutant: a BLPOP is not worth a line in the file.
AppendFileNoPop(c) ==
    /\ mode = "up" /\ pc[c] = "append"
    /\ file' = IF cmd[c].op \in {"BLPOP", "BLPOP0"} THEN file ELSE Append(file, cmd[c])
    /\ pc' = [pc EXCEPT ![c] = "idle"]
    /\ cmd' = [cmd EXCEPT ![c] = NoCmd]
    /\ UNCHANGED <<mode, dataVars, waiters, replicaVars, at, done, nCmd, nStop, acked, mixed>>

\* Append, with fsync "always": the command is in the file when it returns.
AppendFile(c) ==
    /\ mode = "up" /\ pc[c] = "append"
    /\ file' = Append(file, cmd[c])
    /\ pc' = [pc EXCEPT ![c] = "idle"]
    /\ cmd' = [cmd EXCEPT ![c] = NoCmd]
    /\ UNCHANGED <<mode, dataVars, waiters, replicaVars, at, done, nCmd, nStop, acked, mixed>>

\* The string key's time passes: reads miss it from now on and the sweeper
\* deletes it.
Expire ==
    /\ mode = "up" /\ temp = "yes" /\ val # 0
    /\ val' = 0 /\ temp' = "no"
    /\ UNCHANGED <<mode, list, waiters, pc, cmd, replicaVars, file, at, done, nCmd, nStop, acked, mixed>>

--------------------------------------------------------------------------------
(* The dispatcher without a client: replica and boot *)

\* What a command does to the string key and to the list.  A BLPOP that finds
\* the list empty and runs out of time does nothing.
StrAfter(v, x) == IF x.op \in {"SET", "SETPX"} THEN x.id ELSE v
TempAfter(t, x) == IF x.op = "SETPX" THEN "yes" ELSE IF x.op = "SET" THEN "no" ELSE t

ListAfter(l, x) ==
    IF x.op = "RPUSH" THEN Append(l, x.id)
    ELSE IF x.op \in {"BLPOP", "BLPOP0"} /\ l # <<>> THEN Tail(l) ELSE l

\* What it does to the state of the store.
After(s, x) ==
    [val |-> StrAfter(s.val, x), temp |-> TempAfter(s.temp, x), list |-> ListAfter(s.list, x)]

\* Mutant: a timeout is not honoured without a client.
HangsOnAnyPop(l, x) == x.op \in {"BLPOP", "BLPOP0"} /\ l = <<>>

\* The dispatcher would wait for good.
Hangs(l, x) == x.op = "BLPOP0" /\ l = <<>>

\* One turn of the replica's apply loop.
ReplicaApply ==
    /\ linked = "yes" /\ stream # <<>>
    /\ ~Hangs(rlist, Head(stream))
    /\ rval' = StrAfter(rval, Head(stream))
    /\ rtemp' = TempAfter(rtemp, Head(stream))
    /\ rlist' = ListAfter(rlist, Head(stream))
    /\ stream' = Tail(stream)
    /\ UNCHANGED <<mode, dataVars, waiters, pc, cmd, linked, file, at, done, nCmd, nStop, acked, mixed>>

\* The replica's copy of the key expires by the replica's clock.
ReplicaExpire ==
    /\ rtemp = "yes" /\ rval # 0
    /\ rval' = 0 /\ rtemp' = "no"
    /\ UNCHANGED <<mode, dataVars, waiters, pc, cmd, stream, rlist, linked, file, at, done, nCmd, nStop,
                   acked, mixed>>

\* One turn of Replay.
Replay ==
    /\ mode = "boot" /\ at <= Len(file)
    /\ ~Hangs(list, file[at])
    /\ val' = StrAfter(val, file[at])
    /\ temp' = TempAfter(temp, file[at])
    /\ list' = ListAfter(list, file[at])
    /\ at' = at + 1
    /\ UNCHANGED <<mode, waiters, pc, cmd, replicaVars, file, done, nCmd, nStop, acked, mixed>>

--------------------------------------------------------------------------------
(* The process *)

\* Mutant: the file's contents were still in a buffer.
StoppedUnflushed ==
    /\ mode' = "down"
    /\ val' = 0 /\ temp' = "no" /\ list' = <<>>
    /\ waiters' = <<>>
    /\ pc' = [c \in Clients |-> "idle"]
    /\ cmd' = [c \in Clients |-> NoCmd]
    /\ linked' = "no" /\ stream' = <<>>
    /\ file' = <<>>
    /\ at' = 1 /\ done' = "no"
    /\ mixed' = {}
    /\ UNCHANGED <<rval, rtemp, rlist, nCmd, acked>>

\* The process is gone: so are memory and connections.  The file stays.
Stopped ==
    /\ mode' = "down"
    /\ val' = 0 /\ temp' = "no" /\ list' = <<>>
    /\ waiters' = <<>>
    /\ pc' = [c \in Clients |-> "idle"]
    /\ cmd' = [c \in Clients |-> NoCmd]
    /\ linked' = "no" /\ stream' = <<>>
    /\ at' = 1 /\ done' = "no"
    /\ mixed' = {}
    /\ UNCHANGED <<rval, rtemp, rlist, file, nCmd, acked>>

Crash ==
    /\ mode = "up" /\ nStop < MaxStops
    /\ nStop' = nStop + 1
    /\ Stopped

\* The signal handler cancels the context.
Shutdown ==
    /\ mode = "up" /\ done = "no" /\ nStop < MaxStops
    /\ nStop' = nStop + 1
    /\ done' = "yes"
    /\ UNCHANGED <<mode, dataVars, waiters, pc, cmd, replicaVars, file, at, nCmd, acked, mixed>>

\* main returns when every handler has.
Exit ==
    /\ mode = "up" /\ done = "yes" /\ \A c \in Clients : pc[c] = "idle"
    /\ Stopped
    /\ UNCHANGED nStop

\* main starts again and opens the file.
Boot ==
    /\ mode = "down"
    /\ mode' = "boot"
    /\ UNCHANGED <<dataVars, waiters, pc, cmd, replicaVars, file, at, done, nCmd, nStop, acked, mixed>>

\* Replay reached the end of the file; main listens.
BootDone ==
    /\ mode = "boot" /\ at > Len(file)
    /\ mode' = "up"
    /\ UNCHANGED <<dataVars, waiters, pc, cmd, replicaVars, file, at, done, nCmd, nStop, acked, mixed>>

--------------------------------------------------------------------------------
Handler(c) == GiveUp(c) \/ Reply(c) \/ Propagate(c) \/ AppendFile(c)

Command(c, op) == Set(c, op) \/ RPush(c, op) \/ BLpop(c, op)

Next ==
    \/ \E c \in Clients : Handler(c) \/ \E op \in Kinds : Command(c, op)
    \/ Expire \/ ReplicaApply \/ ReplicaExpire
    \/ Crash \/ Shutdown \/ Exit \/ Boot \/ Replay \/ BootDone

Spec == Init /\ [][Next]_vars

\* Handlers, the replica's loop and the boot run when they can, timers fire and
\* a stopped server is started again.  Nothing says that a client sends a
\* command or that the server stops.
FairSpec ==
    /\ Spec
    /\ \A c \in Clients : WF_vars(Handler(c))
    /\ WF_vars(ReplicaApply)
    /\ WF_vars(Boot) /\ WF_vars(Replay) /\ WF_vars(BootDone)

--------------------------------------------------------------------------------
(* Properties *)

Commands == [op : AllKinds \cup {"none"}, id : Nat]

TypeOK ==
    /\ mode \in {"up", "down", "boot"}
    /\ val \in Nat /\ temp \in {"no", "yes"} /\ list \in Seq(Nat)
    /\ waiters \in Seq(Clients)
    /\ pc \in [Clients -> {"idle", "blocked", "reply", "propagate", "append"}]
    /\ cmd \in [Clients -> Commands]
    /\ stream \in Seq(Commands) /\ linked \in {"no", "yes"}
    /\ rval \in Nat /\ rtemp \in {"no", "yes"} /\ rlist \in Seq(Nat)
    /\ file \in Seq(Commands) /\ at \in Nat
    /\ done \in {"no", "yes"}
    /\ nCmd \in Nat /\ nStop \in Nat
    /\ acked \subseteq Nat /\ mixed \subseteq {"string", "list"}

\* No handler is inside a command.
Quiet == mode = "up" /\ \A c \in Clients : pc[c] = "idle"

\* Two copies of the string key agree, but that one of them has expired.
SameString(v, t, w, u) == v = w \/ (v = 0 /\ u = "yes") \/ (w = 0 /\ t = "yes")

Nothing == [val |-> 0, temp |-> "no", list |-> <<>>]

\* The states that a replay of f goes through, the i-th after i commands.
States(f) ==
    LET st[i \in 0 .. Len(f)] == IF i = 0 THEN Nothing ELSE After(st[i - 1], f[i]) IN st

\* The state that a replay of the file ends in.
Rebuilt == States(file)[Len(file)]

\* A replay of the file rebuilds the state: between commands, what the file says of
\* a key is what the store holds, as long as no two commands on that key were under
\* way at the same time.  (The file keeps the order of Append, not of the store.)
FileRebuilds ==
    Quiet => /\ "string" \notin mixed => SameString(val, temp, Rebuilt.val, Rebuilt.temp)
             /\ "list" \notin mixed => Rebuilt.list = list

\* A replica that has applied everything sent to it holds what the leader holds,
\* under the same condition.
ReplicaConverges ==
    Quiet /\ linked = "yes" /\ stream = <<>> =>
        /\ "string" \notin mixed => SameString(val, temp, rval, rtemp)
        /\ "list" \notin mixed => rlist = list

\* The commands in the file, and those on the way there.
FileIds == {file[i].id : i \in DOMAIN file}
InHand == {cmd[c].id : c \in {d \in Clients : pc[d] \in {"propagate", "append"}}}

\* What a crash takes away is bounded by the window between reply and Append: one
\* answered command per connection and stop, however many there were.
WindowOnly == Cardinality(acked \ (FileIds \cup InHand)) <= Cardinality(Clients) * nStop

\* The command without a timeout at the head of the replica's connection, or next
\* in the file, waits for an element that cannot come.
ReplicaWaits == stream # <<>> /\ Head(stream).op = "BLPOP0" /\ rlist = <<>>
BootWaits == at <= Len(file) /\ file[at].op = "BLPOP0" /\ list = <<>>

\* A handler that has its answer gets through with its command: no other client
\* stalls it, and of all commands only a BLPOP without a timeout, on a replica
\* whose list is empty, makes the full connection to the replica do so.
WritesComplete ==
    \A c \in Clients :
        pc[c] \in {"reply", "propagate", "append"} ~> pc[c] = "idle" \/ ReplicaWaits

\* A boot gets to the end of the file, unless it meets a BLPOP without a timeout
\* that finds the list empty.
BootCompletes == mode = "boot" ~> mode = "up" \/ BootWaits
================================================================================
