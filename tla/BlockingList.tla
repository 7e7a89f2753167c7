----------------------------- MODULE BlockingList -----------------------------
(***************************************************************************)
(* The list commands of the store and the clients parked in BLPOP          *)
(* (app/store.go: RPush, LPush, LPop, BLpop, cancelWait, removeWaiter).     *)
(*                                                                         *)
(* The store's mutex is explicit because RPush sends on a waiter's channel *)
(* while it holds it.  A critical section that cannot block is one action. *)
(* A loop whose body can block (RPush), or that visits the same queue more *)
(* than once (removeWaiter), takes one action per turn, with the mutex     *)
(* held in between.                                                        *)
(*                                                                         *)
(* Pushed values are numbered 1, 2, 3, ... in the order the pushes take    *)
(* the mutex, so that every element can be followed to its reader; the     *)
(* k-th blocking call creates channel number k.                            *)
(***************************************************************************)
EXTENDS Naturals, Sequences, Functions

CONSTANTS
    Keys,           \* list keys
    Clients,        \* connections (one handler goroutine each)
    NoClient,       \* "the mutex is free"
    KeyLists,       \* argument lists BLPOP is called with
    Timeouts,       \* subset of BOOLEAN: TRUE a finite timeout, FALSE "0"
    RPushSizes,     \* how many values an RPUSH carries
    LPushSizes,     \* how many values an LPUSH carries
    PopCounts,      \* counts LPOP is called with
    MaxVals,        \* bound: values pushed in a behaviour
    MaxChans        \* bound: blocking calls in a behaviour

ASSUME KeysAssumption ==
    Keys # {} /\ NoClient \notin Clients

ASSUME CallsAssumption ==
    (\A ks \in KeyLists : ks \in Seq(Keys) /\ ks # <<>>) /\ Timeouts \subseteq BOOLEAN

ASSUME SizesAssumption ==
    /\ RPushSizes \subseteq Nat \ {0}
    /\ LPushSizes \subseteq Nat \ {0}
    /\ PopCounts \subseteq Nat

ASSUME BoundsAssumption ==
    MaxVals \in Nat /\ MaxChans \in Nat

VARIABLES
    list,       \* data[k].list, empty when k is not in the map
    keyspace,   \* the keys present in data
    waiters,    \* waiters[k]: channels queued on key k, oldest first
    buf,        \* contents of each channel (capacity 1)
    mu,         \* who holds store.mu
    pc,         \* where each handler is
    key,        \* RPush: its key
    todo,       \* RPush: the values not yet placed
    keys,       \* BLpop: its keys
    ch,         \* BLpop: its channel, 0 outside a blocking call
    timed,      \* BLpop: does it have a timer
    at,         \* removeWaiter: next index into keys
    ctxDone,    \* the server's context is cancelled
    crashed,    \* a handler panicked: the process is gone
    nVal,       \* values pushed so far
    nCh,        \* channels made so far
    returned    \* history: values some caller was given

storeVars == <<list, keyspace, waiters, buf>>
pushVars  == <<key, todo>>
waitVars  == <<keys, ch, timed, at>>
vars == <<list, keyspace, waiters, buf, mu, pc, key, todo, keys, ch, timed,
          at, ctxDone, crashed, nVal, nCh, returned>>

Vals  == 1 .. MaxVals
Chans == 1 .. MaxChans
Phases == {"idle", "rpush", "select", "cancel", "remove", "found", "recv"}

\* The phases of a blocked BLPOP call, from make(chan) to its return.  Inside
\* removeWaiter the phase is its local "found": "remove" stands for false.
Waiting == {"select", "cancel", "remove", "found", "recv"}

AnyKey == CHOOSE k \in Keys : TRUE

Init ==
    /\ list = [k \in Keys |-> <<>>]
    /\ keyspace = {}
    /\ waiters = [k \in Keys |-> <<>>]
    /\ buf = [h \in Chans |-> <<>>]
    /\ mu = NoClient
    /\ pc = [c \in Clients |-> "idle"]
    /\ key = [c \in Clients |-> AnyKey]
    /\ todo = [c \in Clients |-> <<>>]
    /\ keys = [c \in Clients |-> <<>>]
    /\ ch = [c \in Clients |-> 0]
    /\ timed = [c \in Clients |-> FALSE]
    /\ at = [c \in Clients |-> 0]
    /\ ctxDone = FALSE
    /\ crashed = FALSE
    /\ nVal = 0
    /\ nCh = 0
    /\ returned = {}

-------------------------------------------------------------------------------
(* Pushes and LPOP *)

\* A handler that reads its next command and finds the mutex free.
Free(c) == ~crashed /\ mu = NoClient /\ pc[c] = "idle"

NewVals(n) == [i \in 1 .. n |-> nVal + i]

\* The same values, prepended one by one.
NewValsPrepended(n) == [i \in 1 .. n |-> nVal + ((n - i) + 1)]

\* RPush takes the mutex.
RPushLock(c, k, n) ==
    /\ Free(c)
    /\ nVal + n <= MaxVals
    /\ mu' = c
    /\ pc' = [pc EXCEPT ![c] = "rpush"]
    /\ key' = [key EXCEPT ![c] = k]
    /\ todo' = [todo EXCEPT ![c] = NewVals(n)]
    /\ nVal' = nVal + n
    /\ UNCHANGED <<storeVars, waitVars, ctxDone, crashed, nCh, returned>>

\* Mutant: the new value goes to the waiter that blocked last.
RPushHandLIFO(c) ==
    LET k == key[c] n == Len(waiters[key[c]]) h == waiters[k][n] IN
    /\ ~crashed /\ pc[c] = "rpush" /\ todo[c] # <<>>
    /\ waiters[k] # <<>>
    /\ buf[h] = <<>>
    /\ buf' = [buf EXCEPT ![h] = <<Head(todo[c])>>]
    /\ waiters' = [waiters EXCEPT ![k] = SubSeq(@, 1, n - 1)]
    /\ todo' = [todo EXCEPT ![c] = Tail(@)]
    /\ UNCHANGED <<list, keyspace, mu, pc, key, waitVars, ctxDone, crashed,
                   nVal, nCh, returned>>

\* Mutant: the waiter is served but stays in the queue.
RPushHandKeeps(c) ==
    LET k == key[c] h == Head(waiters[key[c]]) IN
    /\ ~crashed /\ pc[c] = "rpush" /\ todo[c] # <<>>
    /\ waiters[k] # <<>>
    /\ buf[h] = <<>>
    /\ buf' = [buf EXCEPT ![h] = <<Head(todo[c])>>]
    /\ todo' = [todo EXCEPT ![c] = Tail(@)]
    /\ UNCHANGED <<list, keyspace, waiters, mu, pc, key, waitVars, ctxDone,
                   crashed, nVal, nCh, returned>>

\* One turn of RPush's loop when a client waits: the longest waiting one gets
\* the value.  The send blocks, with the mutex held, while the channel's
\* single slot is taken.
RPushHand(c) ==
    LET k == key[c] h == Head(waiters[key[c]]) IN
    /\ ~crashed /\ pc[c] = "rpush" /\ todo[c] # <<>>
    /\ waiters[k] # <<>>
    /\ buf[h] = <<>>
    /\ buf' = [buf EXCEPT ![h] = <<Head(todo[c])>>]
    /\ waiters' = [waiters EXCEPT ![k] = Tail(@)]
    /\ todo' = [todo EXCEPT ![c] = Tail(@)]
    /\ UNCHANGED <<list, keyspace, mu, pc, key, waitVars, ctxDone, crashed,
                   nVal, nCh, returned>>

\* One turn of RPush's loop when nobody waits.  The code appends to a private
\* copy of the entry and stores it at the end; nobody can tell, as the mutex
\* is held until then.
RPushAppend(c) ==
    LET k == key[c] IN
    /\ ~crashed /\ pc[c] = "rpush" /\ todo[c] # <<>>
    /\ waiters[k] = <<>>
    /\ list' = [list EXCEPT ![k] = Append(@, Head(todo[c]))]
    /\ todo' = [todo EXCEPT ![c] = Tail(@)]
    /\ UNCHANGED <<keyspace, waiters, buf, mu, pc, key, waitVars, ctxDone,
                   crashed, nVal, nCh, returned>>

\* RPush stores the entry, empty or not, and returns.
RPushReturn(c) ==
    /\ ~crashed /\ pc[c] = "rpush" /\ todo[c] = <<>>
    /\ keyspace' = keyspace \cup {key[c]}
    /\ mu' = NoClient
    /\ pc' = [pc EXCEPT ![c] = "idle"]
    /\ key' = [key EXCEPT ![c] = AnyKey]
    /\ UNCHANGED <<list, waiters, buf, todo, waitVars, ctxDone, crashed,
                   nVal, nCh, returned>>

\* LPush prepends value after value and looks at no waiter.
LPush(c, k, n) ==
    /\ Free(c)
    /\ nVal + n <= MaxVals
    /\ list' = [list EXCEPT ![k] = NewValsPrepended(n) \o @]
    /\ keyspace' = keyspace \cup {k}
    /\ nVal' = nVal + n
    /\ UNCHANGED <<waiters, buf, mu, pc, pushVars, waitVars, ctxDone, crashed,
                   nCh, returned>>

\* Mutant: the popped prefix is returned but stays in the list.
LPopKeeps(c, k, n) ==
    /\ Free(c)
    /\ k \in keyspace
    /\ n <= Len(list[k])
    /\ returned' = returned \cup Range(SubSeq(list[k], 1, n))
    /\ UNCHANGED <<list, keyspace, waiters, buf, mu, pc, pushVars, waitVars,
                   ctxDone, crashed, nVal, nCh>>

\* LPop of a present key: the slice expressions list[0:n] and list[n:] take
\* the first n elements.  The emptied entry stays in the map.
LPop(c, k, n) ==
    /\ Free(c)
    /\ k \in keyspace
    /\ n <= Len(list[k])
    /\ list' = [list EXCEPT ![k] = SubSeq(@, n + 1, Len(@))]
    /\ returned' = returned \cup Range(SubSeq(list[k], 1, n))
    /\ UNCHANGED <<keyspace, waiters, buf, mu, pc, pushVars, waitVars,
                   ctxDone, crashed, nVal, nCh>>

\* LPop of a present key that is too short: list[n:] is out of range, the
\* handler panics, and nothing recovers it.
LPopPanic(c, k, n) ==
    /\ Free(c)
    /\ k \in keyspace
    /\ n > Len(list[k])
    /\ crashed' = TRUE
    /\ UNCHANGED <<storeVars, mu, pc, pushVars, waitVars, ctxDone, nVal, nCh,
                   returned>>

-------------------------------------------------------------------------------
(* BLPOP *)

\* BLpop finds an element at once: the head of the first non-empty list in
\* argument order.  A drained key is deleted.
BLpopTake(c, ks) ==
    \E i \in DOMAIN ks :
        LET k == ks[i] IN
        /\ Free(c)
        /\ list[k] # <<>>
        /\ \A j \in 1 .. i - 1 : list[ks[j]] = <<>>
        /\ returned' = returned \cup {Head(list[k])}
        /\ list' = [list EXCEPT ![k] = Tail(@)]
        /\ keyspace' = IF Len(list[k]) = 1 THEN keyspace \ {k} ELSE keyspace
        /\ UNCHANGED <<waiters, buf, mu, pc, pushVars, waitVars, ctxDone,
                       crashed, nVal, nCh>>

\* How often BLPOP names key k.
Times(ks, k) ==
    LET upTo[i \in 0 .. Len(ks)] ==
            IF i = 0 THEN 0 ELSE upTo[i - 1] + (IF ks[i] = k THEN 1 ELSE 0)
    IN  upTo[Len(ks)]

\* Mutant: blocks without having looked at the last key.
BLpopBlockBlind(c, ks, t) ==
    /\ Free(c)
    /\ nCh < MaxChans
    /\ \A i \in 1 .. Len(ks) - 1 : list[ks[i]] = <<>>
    /\ waiters' = [k \in Keys |->
                     waiters[k] \o [i \in 1 .. Times(ks, k) |-> nCh + 1]]
    /\ nCh' = nCh + 1
    /\ pc' = [pc EXCEPT ![c] = "select"]
    /\ keys' = [keys EXCEPT ![c] = ks]
    /\ ch' = [ch EXCEPT ![c] = nCh + 1]
    /\ timed' = [timed EXCEPT ![c] = t]
    /\ UNCHANGED <<list, keyspace, buf, mu, pushVars, at, ctxDone,
                   crashed, nVal, returned>>

\* BLpop finds nothing: it makes a channel and, before it lets go of the
\* mutex, queues it on every key it was given.
BLpopBlock(c, ks, t) ==
    /\ Free(c)
    /\ nCh < MaxChans
    /\ \A i \in DOMAIN ks : list[ks[i]] = <<>>
    /\ waiters' = [k \in Keys |->
                     waiters[k] \o [i \in 1 .. Times(ks, k) |-> nCh + 1]]
    /\ nCh' = nCh + 1
    /\ pc' = [pc EXCEPT ![c] = "select"]
    /\ keys' = [keys EXCEPT ![c] = ks]
    /\ ch' = [ch EXCEPT ![c] = nCh + 1]
    /\ timed' = [timed EXCEPT ![c] = t]
    /\ UNCHANGED <<list, keyspace, buf, mu, pushVars, at, ctxDone,
                   crashed, nVal, returned>>

\* The call is over: its locals are gone.
Leave(c) ==
    /\ pc' = [pc EXCEPT ![c] = "idle"]
    /\ keys' = [keys EXCEPT ![c] = <<>>]
    /\ ch' = [ch EXCEPT ![c] = 0]
    /\ timed' = [timed EXCEPT ![c] = FALSE]
    /\ at' = [at EXCEPT ![c] = 0]

\* The value in c's channel is received and returned.
Take(c) ==
    /\ buf[ch[c]] # <<>>
    /\ returned' = returned \cup {Head(buf[ch[c]])}
    /\ buf' = [buf EXCEPT ![ch[c]] = <<>>]
    /\ Leave(c)
    /\ UNCHANGED <<list, keyspace, waiters, mu, pushVars, ctxDone, crashed,
                   nVal, nCh>>

\* select: case v := <-ch.  The channel stays queued on the other keys.
Receive(c) == ~crashed /\ pc[c] = "select" /\ Take(c)

\* select: case <-timeoutCh (nil, hence never ready, without a timeout) or
\* case <-ctx.Done().
GiveUp(c) ==
    /\ ~crashed /\ pc[c] = "select"
    /\ timed[c] \/ ctxDone
    /\ pc' = [pc EXCEPT ![c] = "cancel"]
    /\ UNCHANGED <<storeVars, mu, pushVars, waitVars, ctxDone, crashed, nVal,
                   nCh, returned>>

\* cancelWait takes the mutex.
CancelLock(c) ==
    /\ ~crashed /\ pc[c] = "cancel" /\ mu = NoClient
    /\ mu' = c
    /\ pc' = [pc EXCEPT ![c] = "remove"]
    /\ at' = [at EXCEPT ![c] = 1]
    /\ UNCHANGED <<storeVars, pushVars, keys, ch, timed, ctxDone,
                   crashed, nVal, nCh, returned>>

\* A queue without its first entry h: append(queue[:i], queue[i+1:]...).
RemoveFirst(queue, h) ==
    LET At == {i \in DOMAIN queue : queue[i] = h}
        m == CHOOSE i \in At : \A j \in At : i <= j
    IN  IF At = {} THEN queue ELSE SubSeq(queue, 1, m - 1) \o SubSeq(queue, m + 1, Len(queue))

\* Mutant: the channel is dequeued but not reported as found.
RemoveWaiterForgets(c) ==
    LET k == keys[c][at[c]] IN
    /\ ~crashed /\ pc[c] \in {"remove", "found"} /\ at[c] <= Len(keys[c])
    /\ waiters' = [waiters EXCEPT ![k] = RemoveFirst(@, ch[c])]
    /\ at' = [at EXCEPT ![c] = @ + 1]
    /\ UNCHANGED <<list, keyspace, buf, mu, pc, pushVars, keys, ch, timed, ctxDone,
                   crashed, nVal, nCh, returned>>

\* One turn of removeWaiter's loop over keys: the first entry that is this
\* channel leaves the key's queue.
RemoveWaiter(c) ==
    LET k == keys[c][at[c]] IN
    /\ ~crashed /\ pc[c] \in {"remove", "found"} /\ at[c] <= Len(keys[c])
    /\ waiters' = [waiters EXCEPT ![k] = RemoveFirst(@, ch[c])]
    /\ pc' = IF ch[c] \in Range(waiters[k]) THEN [pc EXCEPT ![c] = "found"] ELSE pc
    /\ at' = [at EXCEPT ![c] = @ + 1]
    /\ UNCHANGED <<list, keyspace, buf, mu, pushVars, keys, ch, timed, ctxDone,
                   crashed, nVal, nCh, returned>>

\* removeWaiter is through; cancelWait lets go of the mutex.
Removed(c) == ~crashed /\ at[c] > Len(keys[c]) /\ mu' = NoClient

\* Mutant: a call that gives up never looks for a value handed to it.
CancelNilAlways(c) ==
    /\ pc[c] \in {"remove", "found"}
    /\ Removed(c)
    /\ Leave(c)
    /\ UNCHANGED <<storeVars, pushVars, ctxDone, crashed, nVal, nCh, returned>>

\* cancelWait found itself queued: nobody claimed it, the reply is nil.
CancelNil(c) ==
    /\ pc[c] = "found"
    /\ Removed(c)
    /\ Leave(c)
    /\ UNCHANGED <<storeVars, pushVars, ctxDone, crashed, nVal, nCh, returned>>

\* cancelWait was not queued any more: it goes on to wait for the value.
CancelClaimed(c) ==
    /\ pc[c] = "remove"
    /\ Removed(c)
    /\ pc' = [pc EXCEPT ![c] = "recv"]
    /\ UNCHANGED <<storeVars, pushVars, waitVars, ctxDone, crashed, nVal, nCh,
                   returned>>

\* cancelWait: return <-ch, true.
Drain(c) == ~crashed /\ pc[c] = "recv" /\ Take(c)

\* main.go: the signal handler cancels the server's context.
Shutdown ==
    /\ ~crashed /\ ~ctxDone
    /\ ctxDone' = TRUE
    /\ UNCHANGED <<storeVars, mu, pc, pushVars, waitVars, crashed, nVal, nCh,
                   returned>>

-------------------------------------------------------------------------------
(* What a handler does on its own once it is inside a call. *)
Progress(c) ==
    \/ RPushHand(c)
    \/ RPushAppend(c)
    \/ RPushReturn(c)
    \/ Receive(c)
    \/ GiveUp(c)
    \/ RemoveWaiter(c)
    \/ CancelNil(c)
    \/ CancelClaimed(c)
    \/ Drain(c)

(* The calls clients make. *)
Call(c) ==
    \/ \E k \in Keys, n \in RPushSizes : RPushLock(c, k, n)
    \/ \E k \in Keys, n \in LPushSizes : LPush(c, k, n)
    \/ \E k \in Keys, n \in PopCounts : LPop(c, k, n)
    \/ \E k \in Keys, n \in PopCounts : LPopPanic(c, k, n)
    \/ \E ks \in KeyLists : BLpopTake(c, ks)
    \/ \E ks \in KeyLists, t \in Timeouts : BLpopBlock(c, ks, t)

Next ==
    \/ \E c \in Clients : Call(c) \/ Progress(c) \/ CancelLock(c)
    \/ Shutdown

Spec == Init /\ [][Next]_vars

\* A runnable goroutine is scheduled and a set timer fires (weak fairness).  A
\* goroutine that asks for the mutex again and again finds it free again and
\* again and gets it: Go's mutexes hand over to a starving waiter (strong
\* fairness).  Nothing says that a client ever sends a command.
Fairness == \A c \in Clients : WF_vars(Progress(c)) /\ SF_vars(CancelLock(c))

FairSpec == Spec /\ Fairness

-------------------------------------------------------------------------------
(* Properties *)

\* The type invariant: a channel holds at most one value, and only values that
\* were pushed are ever returned (BLpop's zero value is not one).
TypeOK ==
    /\ list \in [Keys -> Seq(Vals)]
    /\ keyspace \subseteq Keys
    /\ waiters \in [Keys -> Seq(Chans)]
    /\ buf \in [Chans -> {<<>>} \cup {<<v>> : v \in Vals}]
    /\ mu \in Clients \cup {NoClient}
    /\ pc \in [Clients -> Phases]
    /\ key \in [Clients -> Keys]
    /\ todo \in [Clients -> Seq(Vals)]
    /\ keys \in [Clients -> Seq(Keys)]
    /\ ch \in [Clients -> Chans \cup {0}]
    /\ timed \in [Clients -> BOOLEAN]
    /\ at \in [Clients -> Nat]
    /\ ctxDone \in BOOLEAN
    /\ crashed \in BOOLEAN
    /\ nVal \in 0 .. MaxVals
    /\ nCh \in 0 .. MaxChans
    /\ returned \subseteq Vals

\* A reader was given value v or can still be given it: v is in a list, in the
\* hands of a running RPush, or in the channel of a call that will read it.
Accounted(v) ==
    \/ v \in returned
    \/ \E k \in Keys : v \in Range(list[k])
    \/ \E c \in Clients : v \in Range(todo[c])
    \/ \E c \in Clients : pc[c] \in Waiting /\ v \in Range(buf[ch[c]])

\* No pushed element is ever lost, whichever of a push, a timeout and a
\* shutdown a blocked BLPOP sees first (cancelWait's second look).
NothingLost == \A v \in 1 .. nVal : Accounted(v)

\* The places that hold value v: list slots, RPush arguments, channels and
\* replies.
PlacesOf(v) ==
    {<<"list", p>> : p \in
        {q \in Keys \X Vals : q[2] \in DOMAIN list[q[1]] /\ list[q[1]][q[2]] = v}}
      \cup {<<"todo", c>> : c \in {d \in Clients : v \in Range(todo[d])}}
      \cup {<<"chan", h>> : h \in {g \in Chans : v \in Range(buf[g])}}
      \cup {<<"reply">> : r \in returned \cap {v}}

\* No element is handed out twice, and none is handed out while it is still
\* stored: a pushed value is in at most one place.
AtMostOnce == \A v \in 1 .. nVal : \A p, q \in PlacesOf(v) : p = q

\* c is inside RPush, about to send on the oldest waiter's channel, and the
\* channel is full: the store's mutex is held for as long as that lasts.
SendBlocked(c) ==
    /\ pc[c] = "rpush" /\ todo[c] # <<>> /\ waiters[key[c]] # <<>>
    /\ buf[Head(waiters[key[c]])] # <<>>

\* RPush never blocks on a channel while it holds the store's mutex.
SendNeverBlocks == \A c \in Clients : ~SendBlocked(c)

\* A call that gave up and found itself dequeued has its value waiting: the
\* receive that ends cancelWait cannot block.
ClaimedHasValue ==
    \A c \in Clients : pc[c] = "recv" => buf[ch[c]] # <<>>

\* A client comes to be parked on a list that has elements only by an LPUSH,
\* which looks at no waiter: BLpop registers in the critical section of its scan,
\* so no RPUSH slips in between.
OnlyLPushPassesBy ==
    [][\A k \in Keys :
          /\ waiters[k] = <<>> \/ list[k] = <<>>
          /\ waiters'[k] # <<>> /\ list'[k] # <<>>
          => \E c \in Clients, n \in LPushSizes : LPush(c, k, n)]_vars

\* Clients blocked on a key are served in the order they blocked: when a push
\* serves channel h from key k, no channel still queued on k is older.
FirstComeFirstServed ==
    [][\A k \in Keys, h \in Chans :
          /\ h \in Range(waiters[k]) /\ waiters'[k] # waiters[k]
          /\ buf[h] = <<>> /\ buf'[h] # <<>>
          => \A g \in Range(waiters'[k]) : h <= g]_vars

\* A blocked BLPOP that has a timer, was handed a value, or meets the shutdown
\* returns to its client.
BlockedCallReturns ==
    \A c \in Clients :
        (pc[c] \in Waiting /\ (timed[c] \/ ctxDone \/ buf[ch[c]] # <<>>))
            ~> (pc[c] = "idle" \/ crashed)
===============================================================================
