-------------------------------- MODULE Streams --------------------------------
(***************************************************************************)
(* Streams (app/store.go: XAdd, XRange, XRead, XReadBlock) and the readers *)
(* parked in XREAD BLOCK.                                                  *)
(*                                                                         *)
(* Every critical section of the store is one action.  XAdd closes the     *)
(* store's notify channel and makes a new one; the n-th channel is the     *)
(* number n here, and a channel is closed when it is not the current one.  *)
(* The two halves of an ID are unsigned integers that wrap past MaxHalf    *)
(* (2^64 - 1 in the code).  Fields are left out; every entry carries its   *)
(* place in the order of all XADDs.                                        *)
(***************************************************************************)
EXTENDS Naturals, Sequences, FiniteSetsExt

CONSTANTS
    Keys,
    Clients,
    MaxHalf,        \* the largest half of an ID
    AddRequests,    \* the ID arguments XADD is called with
    ReadCalls,      \* the argument lists of XREAD BLOCK: sequences of [key, from]
    Timeouts,       \* subset of BOOLEAN: TRUE a finite timeout, FALSE "0"
    SetKeys,        \* the keys SET and the sweeper also work on
    MaxAdds         \* bound: XADDs in a behaviour

Half == 0 .. MaxHalf
IDs  == [ms : Half, seq : Half]

\* An XADD asks for "*", for "<ms>-*" or for an ID; an XREAD starts after "$" or
\* after an ID, or names no ID at all.
Requests == [tag : {"auto"}] \cup [tag : {"ms"}, ms : Half] \cup [tag : {"id"}, id : IDs]
Starts   == [tag : {"$"}] \cup [tag : {"id"}, id : IDs] \cup [tag : {"bad"}]

ASSUME HalfAssumption == MaxHalf \in Nat \ {0}
ASSUME RequestsAssumption == AddRequests \subseteq Requests
ASSUME CallsAssumption == ReadCalls \subseteq Seq([key : Keys, from : Starts])
ASSUME WorkAssumption == Timeouts \subseteq BOOLEAN /\ SetKeys \subseteq Keys /\ MaxAdds \in Nat

VARIABLES
    kind,       \* data[k].kind, "none" when k is not in the map
    entries,    \* data[k].stream.Entries
    lastID,     \* data[k].stream.LastID
    notify,     \* number of the store's current notify channel
    pc,         \* where each handler is
    call,       \* XReadBlock: its keys and raw IDs
    afters,     \* XReadBlock: the cursors
    ch,         \* XReadBlock: the notify channel it holds
    timed,      \* the handlers whose call has a timer
    since,      \* history: XADDs before the call began
    done,       \* the server's context is cancelled: "no" or "yes"
    crashed,    \* the runtime stopped the process: "no" or "yes"
    nAdd        \* XADDs so far

readVars == <<pc, call, afters, ch, timed, since>>
vars == <<kind, entries, lastID, notify, pc, call, afters, ch, timed, since, done,
          crashed, nAdd>>

Zero == [ms |-> 0, seq |-> 0]

\* less
Less(a, b) == IF a.ms # b.ms THEN a.ms < b.ms ELSE a.seq < b.seq

Init ==
    /\ kind = [k \in Keys |-> "none"]
    /\ entries = [k \in Keys |-> <<>>]
    /\ lastID = [k \in Keys |-> Zero]
    /\ notify = 0
    /\ pc = [c \in Clients |-> "idle"]
    /\ call = [c \in Clients |-> <<>>]
    /\ afters = [c \in Clients |-> <<>>]
    /\ ch = [c \in Clients |-> 0]
    /\ timed = {}
    /\ since = [c \in Clients |-> 0]
    /\ done = "no"
    /\ crashed = "no"
    /\ nAdd = 0

--------------------------------------------------------------------------------
(* XADD *)

\* nextSeq, in the arithmetic of its type.
NextSeq(ms, last) ==
    IF ms = last.ms THEN (last.seq + 1) % (MaxHalf + 1)
    ELSE IF ms = 0 THEN 1 ELSE 0

\* The ID an XADD would give its entry, when the wall clock says now.  The clock
\* may be set back, but an automatic ID never goes below the last one's time.
Candidate(req, last, now) ==
    LET ms == IF now < last.ms THEN last.ms ELSE now IN
    CASE req.tag = "auto" -> [ms |-> ms, seq |-> NextSeq(ms, last)]
      [] req.tag = "ms"   -> [ms |-> req.ms, seq |-> NextSeq(req.ms, last)]
      [] req.tag = "id"   -> req.id

\* Mutant: an ID equal to the last one is let through.
IsValidStreamIdOrEqual(last, new) == ~Less(new, last)

\* isValidStreamId
IsValidStreamId(last, new) ==
    /\ ~(new.ms < last.ms)
    /\ ~(new.ms = last.ms /\ new.seq <= last.seq)

\* Mutant: the notify channel is only closed for a stream that existed.
XAddQuietFirst(k, req, now) ==
    LET new == Candidate(req, lastID[k], now) IN
    /\ crashed = "no" /\ nAdd < MaxAdds
    /\ kind[k] \in {"none", "stream"}
    /\ new # Zero /\ IsValidStreamId(lastID[k], new)
    /\ kind' = [kind EXCEPT ![k] = "stream"]
    /\ entries' = [entries EXCEPT ![k] = Append(@, [id |-> new, n |-> nAdd + 1])]
    /\ lastID' = [lastID EXCEPT ![k] = new]
    /\ nAdd' = nAdd + 1
    /\ notify' = IF kind[k] = "none" THEN notify ELSE notify + 1
    /\ UNCHANGED <<readVars, done, crashed>>

\* XAdd succeeds; a refused one (wrong type, 0-0, not above the last ID)
\* changes nothing.
XAdd(k, req, now) ==
    LET new == Candidate(req, lastID[k], now) IN
    /\ crashed = "no" /\ nAdd < MaxAdds
    /\ kind[k] \in {"none", "stream"}
    /\ new # Zero /\ IsValidStreamId(lastID[k], new)
    /\ kind' = [kind EXCEPT ![k] = "stream"]
    /\ entries' = [entries EXCEPT ![k] = Append(@, [id |-> new, n |-> nAdd + 1])]
    /\ lastID' = [lastID EXCEPT ![k] = new]
    /\ nAdd' = nAdd + 1
    /\ notify' = notify + 1
    /\ UNCHANGED <<readVars, done, crashed>>

\* SET replaces whatever the key held.
Set(k) ==
    /\ crashed = "no" /\ k \in SetKeys
    /\ kind' = [kind EXCEPT ![k] = "string"]
    /\ entries' = [entries EXCEPT ![k] = <<>>]
    /\ lastID' = [lastID EXCEPT ![k] = Zero]
    /\ UNCHANGED <<notify, readVars, done, crashed, nAdd>>

\* The sweeper deletes a string that was SET with PX.
EvictExpired(k) ==
    /\ crashed = "no" /\ kind[k] = "string"
    /\ kind' = [kind EXCEPT ![k] = "none"]
    /\ UNCHANGED <<entries, lastID, notify, readVars, done, crashed, nAdd>>

--------------------------------------------------------------------------------
(* Reads *)

\* readAfterLocked: skips entries up to the cursor, copies the rest.
ReadAfter(k, after) ==
    LET Kept == {i \in DOMAIN entries[k] : Less(after, entries[k][i].id)}
    IN  IF Kept = {} THEN <<>>
        ELSE SubSeq(entries[k], Min(Kept), Len(entries[k]))

\* len(readAfterLocked(k, after)) > 0
HasNew(k, after) == \E i \in DOMAIN entries[k] : Less(after, entries[k][i].id)

\* Mutant: the upper bound is exclusive.
FilterOpen(k, start, end) ==
    LET lo == Min({i \in DOMAIN entries[k] : ~Less(entries[k][i].id, start)}
                      \cup {Len(entries[k]) + 1})
        hi == Min({i \in lo .. Len(entries[k]) : ~Less(entries[k][i].id, end)}
                      \cup {Len(entries[k]) + 1})
    IN  SubSeq(entries[k], lo, hi - 1)

\* Filter, behind XRANGE: lo skips what is below start, hi goes on from lo until
\* an entry is above end.
Filter(k, start, end) ==
    LET lo == Min({i \in DOMAIN entries[k] : ~Less(entries[k][i].id, start)}
                      \cup {Len(entries[k]) + 1})
        hi == Min({i \in lo .. Len(entries[k]) : Less(end, entries[k][i].id)}
                      \cup {Len(entries[k]) + 1})
    IN  SubSeq(entries[k], lo, hi - 1)

\* XRead of an argument that is no ID: the error path unlocks a mutex that is
\* only read-locked, and the runtime stops the process.
XReadBadID(c, args) ==
    /\ crashed = "no" /\ pc[c] = "idle"
    /\ \E i \in DOMAIN args : args[i].from.tag = "bad"
    /\ crashed' = "yes"
    /\ UNCHANGED <<kind, entries, lastID, notify, readVars, done, nAdd>>

\* The cursor a raw ID stands for.
Cursor(arg) == IF arg.from.tag = "$" THEN lastID[arg.key] ELSE arg.from.id

\* XReadBlock, first critical section: resolve the cursors.  (With an argument
\* that is no ID it returns nil at once.)
XReadBlock(c, args, t) ==
    /\ crashed = "no" /\ pc[c] = "idle"
    /\ \A i \in DOMAIN args : args[i].from.tag # "bad"
    /\ pc' = [pc EXCEPT ![c] = "scan"]
    /\ call' = [call EXCEPT ![c] = args]
    /\ afters' = [afters EXCEPT ![c] = [i \in DOMAIN args |-> Cursor(args[i])]]
    /\ timed' = IF t THEN timed \cup {c} ELSE timed
    /\ since' = [since EXCEPT ![c] = nAdd]
    /\ UNCHANGED <<kind, entries, lastID, notify, ch, done, crashed, nAdd>>

\* Some stream of c's call has entries beyond the cursor.
Found(c) == \E i \in DOMAIN call[c] : HasNew(call[c][i].key, afters[c][i])

\* The call returns to its client.
Return(c) ==
    /\ pc' = [pc EXCEPT ![c] = "idle"]
    /\ call' = [call EXCEPT ![c] = <<>>]
    /\ afters' = [afters EXCEPT ![c] = <<>>]
    /\ ch' = [ch EXCEPT ![c] = 0]
    /\ timed' = timed \ {c}
    /\ since' = [since EXCEPT ![c] = 0]
    /\ UNCHANGED <<kind, entries, lastID, notify, done, crashed, nAdd>>

\* XReadBlock's loop, the scan: entries are there and are returned.
ScanFound(c) == crashed = "no" /\ pc[c] = "scan" /\ Found(c) /\ Return(c)

\* XReadBlock's loop, the scan: nothing is there; the notify channel is fetched
\* in the same critical section.
ScanEmpty(c) ==
    /\ crashed = "no" /\ pc[c] = "scan" /\ ~Found(c)
    /\ pc' = [pc EXCEPT ![c] = "select"]
    /\ ch' = [ch EXCEPT ![c] = notify]
    /\ UNCHANGED <<kind, entries, lastID, notify, call, afters, timed, since, done,
                   crashed, nAdd>>

\* Mutant: "$" is resolved again when the reader wakes up.
WakeResolves(c) ==
    /\ crashed = "no" /\ pc[c] = "select" /\ ch[c] # notify
    /\ pc' = [pc EXCEPT ![c] = "scan"]
    /\ afters' = [afters EXCEPT ![c] = [i \in DOMAIN call[c] |-> Cursor(call[c][i])]]
    /\ UNCHANGED <<kind, entries, lastID, notify, call, ch, timed, since, done, crashed, nAdd>>

\* select: case <-ch, ready once XADD closed the channel.
Wake(c) ==
    /\ crashed = "no" /\ pc[c] = "select" /\ ch[c] # notify
    /\ pc' = [pc EXCEPT ![c] = "scan"]
    /\ UNCHANGED <<kind, entries, lastID, notify, call, afters, ch, timed, since, done,
                   crashed, nAdd>>

\* Mutant: the shutdown is not one of the select's cases.
GiveUpOnTimeOnly(c) ==
    /\ crashed = "no" /\ pc[c] = "select"
    /\ c \in timed
    /\ Return(c)

\* select: case <-timeoutCh or case <-ctx.Done().
GiveUp(c) ==
    /\ crashed = "no" /\ pc[c] = "select"
    /\ c \in timed \/ done = "yes"
    /\ Return(c)

Shutdown ==
    /\ crashed = "no" /\ done = "no"
    /\ done' = "yes"
    /\ UNCHANGED <<kind, entries, lastID, notify, readVars, crashed, nAdd>>

--------------------------------------------------------------------------------
Progress(c) == ScanFound(c) \/ ScanEmpty(c) \/ Wake(c) \/ GiveUp(c)

Next ==
    \/ \E k \in Keys, req \in AddRequests, now \in Half : XAdd(k, req, now)
    \/ \E k \in Keys : Set(k) \/ EvictExpired(k)
    \/ \E c \in Clients, args \in ReadCalls :
          XReadBadID(c, args) \/ \E t \in Timeouts : XReadBlock(c, args, t)
    \/ \E c \in Clients : Progress(c)
    \/ Shutdown

Spec == Init /\ [][Next]_vars

\* A runnable goroutine is scheduled and gets the mutex, which nobody holds for
\* longer than a critical section; a ready case of a select is taken.
FairSpec == Spec /\ \A c \in Clients : WF_vars(Progress(c))

--------------------------------------------------------------------------------
(* Properties *)

Entry == [id : IDs, n : Nat]

\* The type invariant: both halves of every ID stay within their width.
TypeOK ==
    /\ kind \in [Keys -> {"none", "string", "stream"}]
    /\ entries \in [Keys -> Seq(Entry)]
    /\ lastID \in [Keys -> IDs]
    /\ notify \in Nat
    /\ pc \in [Clients -> {"idle", "scan", "select"}]
    /\ call \in [Clients -> Seq([key : Keys, from : Starts])]
    /\ afters \in [Clients -> Seq(IDs)]
    /\ ch \in [Clients -> Nat]
    /\ timed \subseteq Clients
    /\ since \in [Clients -> Nat]
    /\ done \in {"no", "yes"}
    /\ crashed \in {"no", "yes"}
    /\ nAdd \in Nat

\* Stream IDs are strictly increasing and never 0-0, whatever the clock does and
\* when a sequence number wraps: the last ID bounds all of them.
IdsIncrease ==
    \A k \in Keys :
        /\ \A i \in DOMAIN entries[k] :
              Less(Zero, entries[k][i].id) /\ ~Less(lastID[k], entries[k][i].id)
        /\ \A i, j \in DOMAIN entries[k] : i < j => Less(entries[k][i].id, entries[k][j].id)

\* A reader parked on the current notify channel has nothing to read: no XADD
\* can slip in between the scan and the wait.
NoMissedWakeup ==
    \A c \in Clients : pc[c] = "select" /\ ch[c] = notify => ~Found(c)

\* r is what the stream q has at the positions in W, which are adjacent.
IsPart(r, q, W) ==
    \E lo \in 1 .. Len(q) + 1 :
        W = lo .. (lo + Len(r)) - 1 /\ \A j \in DOMAIN r : r[j] = q[(lo + j) - 1]

\* The loops that stop at the first entry beyond a bound return what their
\* command promises: XREAD every entry above the cursor, XRANGE every entry
\* within the inclusive bounds, in order.
ReadsAreExact ==
    \A k \in Keys, a \in IDs :
        /\ IsPart(ReadAfter(k, a), entries[k],
                  {i \in DOMAIN entries[k] : Less(a, entries[k][i].id)})
        /\ \A b \in IDs :
              IsPart(Filter(k, a, b), entries[k],
                     {i \in DOMAIN entries[k] : /\ ~Less(entries[k][i].id, a)
                                               /\ ~Less(b, entries[k][i].id)})

\* "$" means "entries added after this call started": when a blocked call has
\* something to return, each stream read from "$" yields exactly the entries
\* added since the call.  (Not a stream that SET replaces and the sweeper
\* removes meanwhile: a new one under its key may start below the old cursor.)
DollarIsNow ==
    \A c \in Clients :
        pc[c] = "scan" => \A i \in DOMAIN call[c] :
            LET k == call[c][i].key IN
            call[c][i].from.tag = "$" /\ k \notin SetKeys =>
                IsPart(ReadAfter(k, afters[c][i]), entries[k],
                       {j \in DOMAIN entries[k] : entries[k][j].n > since[c]})

\* A blocked reader returns when its time is up or the server shuts down, and once
\* there is something to read, unless the stream is replaced first.
ReaderReturns ==
    \A c \in Clients :
        /\ (pc[c] # "idle" /\ (c \in timed \/ done = "yes"))
              ~> (pc[c] = "idle" \/ crashed = "yes")
        /\ (pc[c] # "idle" /\ Found(c))
              ~> (pc[c] = "idle" \/ crashed = "yes" \/ ~Found(c))
================================================================================
