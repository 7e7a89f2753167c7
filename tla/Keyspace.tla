------------------------------- MODULE Keyspace --------------------------------
(***************************************************************************)
(* The keyspace of store.go: one map of entries under one lock, deadlines  *)
(* (SET key value PX ms) that are looked at when a key is read, and a      *)
(* sweeper that deletes what has expired every 100 ms.  Each command is    *)
(* one action: it holds the store's lock throughout.                       *)
(*                                                                         *)
(* A dead entry stays in the map until the sweeper comes by.  GET, STRLEN, *)
(* SETBIT and GETBIT treat it as missing; INCR, RPUSH, LPUSH, BITOP and    *)
(* BITCOUNT take it for a live one.                                        *)
(***************************************************************************)
EXTENDS Values

CONSTANTS
    Keys,
    Counters,   \* the keys that hold numbers: INCR is called on these
    Bitmaps,    \* the keys that hold bytes: SETBIT, BITOP and BITCOUNT
    Lists,      \* the keys that are pushed to
    Temporary,  \* the keys that SET gives a deadline
    DurHalf,    \* a time.Duration lies in -DurHalf .. DurHalf - 1
    Nums,       \* the numbers and the byte strings SET writes
    Texts,
    PxArgs,     \* the arguments of PX
    Offsets,    \* the offsets of SETBIT
    BitOpArgs,  \* the destinations and sources <<d, k1, k2>> of BITOP
    maxBitOffset,
    MaxTime,    \* bound: ticks of the clock
    MaxLen      \* bound: elements of a list

ASSUME KeyspaceAssumption ==
    /\ Counters \cup Bitmaps \cup Lists \cup Temporary \subseteq Keys
    /\ DurHalf \in Nat \ {0} /\ maxBitOffset \in Nat /\ MaxLen \in Nat
    /\ BitOpArgs \subseteq Bitmaps \X Bitmaps \X Bitmaps
    /\ PxArgs \subseteq Nat /\ Offsets \subseteq Nat
    /\ 0 \in Nums /\ Nums \subseteq Int
    /\ <<>> \in Texts /\ Texts \subseteq Seq(Byte)

VARIABLES
    clock,
    keys,       \* the keys of the map
    data,       \* their entries; Fresh for a key the map does not have
    blind       \* history: keys a command used after their deadline as if it had not
                \* passed, or whose deadline overflowed, and that were not SET since

vars == <<clock, keys, data, blind>>

Init ==
    /\ clock = 0
    /\ keys = {}
    /\ data = [k \in Keys |-> Fresh]
    /\ blind = {}

expired(k) == k \in keys /\ data[k].ttl = "yes" /\ clock > data[k].exp

\* time.Duration(ms) * time.Millisecond wraps.
Duration(ms) == ((ms + DurHalf) % (2 * DurHalf)) - DurHalf

Store(k, e) == /\ data' = [data EXCEPT ![k] = e]
               /\ keys' = keys \cup {k}

\* SET key value [PX ms].
Set(k, n, bs, ttl, ms) ==
    /\ Store(k, Text(n, bs, ttl, IF ttl = "yes" THEN clock + Duration(ms) ELSE 0))
    /\ blind' = IF ms >= DurHalf THEN blind \cup {k} ELSE blind \ {k}
    /\ UNCHANGED clock

\* Mutant: an expired key loses its deadline and keeps its bytes.
SetBitOnRemains(k, o, bit) ==
    LET e == IF expired(k) THEN [data[k] EXCEPT !.ttl = "no"] ELSE data[k]
    IN  /\ o <= maxBitOffset
        /\ k \in keys => e.kind = "string"
        /\ Store(k, SetBitOf(e, o, bit))
        /\ UNCHANGED <<clock, blind>>

\* SETBIT: an expired key is missing, so the new one starts from nothing.
SetBit(k, o, bit) ==
    LET e == IF expired(k) THEN Fresh ELSE data[k]
    IN  /\ o <= maxBitOffset
        /\ k \in keys /\ ~expired(k) => e.kind = "string"
        /\ Store(k, SetBitOf(e, o, bit))
        /\ UNCHANGED <<clock, blind>>

Blinded(k) == blind' = IF expired(k) THEN blind \cup {k} ELSE blind

\* INCR keeps the deadline it finds, passed or not.
Incr(k) ==
    /\ k \in keys => data[k].kind = "string"
    /\ Store(k, IncrOf(data[k]))
    /\ Blinded(k)
    /\ UNCHANGED clock

RPush(k) ==
    /\ data[k].list < MaxLen
    /\ Store(k, RPushOf(data[k]))
    /\ Blinded(k)
    /\ UNCHANGED clock

LPush(k) ==
    /\ data[k].list < MaxLen
    /\ Store(k, LPushOf(data[k]))
    /\ Blinded(k)
    /\ UNCHANGED clock

\* BITOP op d k1 k2: an empty result deletes the destination, another one is
\* stored only when the destination is not in the map.
BitOpTo(op, d, k1, k2) ==
    LET res == BitOp(op, data[k1].bytes, data[k2].bytes)
        unsure == \/ \E k \in {d, k1, k2} : expired(k)
                  \/ \E k \in {k1, k2} : k \in blind
    IN  /\ IF Len(res) = 0
           THEN data' = [data EXCEPT ![d] = Fresh] /\ keys' = keys \ {d}
           ELSE IF d \notin keys THEN Store(d, Text(0, res, "no", 0)) ELSE UNCHANGED <<data, keys>>
        /\ blind' = IF unsure THEN blind \cup {d}
                    ELSE IF Len(res) = 0 THEN blind \ {d} ELSE blind
        /\ UNCHANGED clock

\* BITCOUNT with a negative start indexes before the string, and with a start
\* and no stop it indexes past the arguments: the handler panics, and with the
\* process goes what it held in memory.
BitCountPanic ==
    /\ keys' = {}
    /\ data' = [k \in Keys |-> Fresh]
    /\ blind' = {}
    /\ UNCHANGED clock

Tick ==
    /\ clock < MaxTime
    /\ clock' = clock + 1
    /\ UNCHANGED <<keys, data, blind>>

\* Mutant: the sweeper spares the keys that hold a list.
SweepLists ==
    /\ \E k \in Keys : expired(k) /\ data[k].list = 0
    /\ keys' = {k \in keys : ~expired(k) \/ data[k].list > 0}
    /\ data' = [k \in Keys |-> IF expired(k) /\ data[k].list = 0 THEN Fresh ELSE data[k]]
    /\ UNCHANGED <<clock, blind>>

\* evictExpired: every dead key at once, under the lock.
Sweep ==
    /\ \E k \in Keys : expired(k)
    /\ keys' = {k \in keys : ~expired(k)}
    /\ data' = [k \in Keys |-> IF expired(k) THEN Fresh ELSE data[k]]
    /\ UNCHANGED <<clock, blind>>

Next ==
    \/ \E k \in Counters, n \in Nums : Set(k, n, <<>>, "no", 0)
    \/ \E k \in Counters \cap Temporary, n \in Nums, ms \in PxArgs : Set(k, n, <<>>, "yes", ms)
    \/ \E k \in Bitmaps, bs \in Texts : Set(k, 0, bs, "no", 0)
    \/ \E k \in Bitmaps \cap Temporary, bs \in Texts, ms \in PxArgs : Set(k, 0, bs, "yes", ms)
    \/ \E k \in Bitmaps, o \in Offsets, bit \in {0, 1} : SetBit(k, o, bit)
    \/ \E k \in Counters : Incr(k)
    \/ \E k \in Lists : RPush(k) \/ LPush(k)
    \/ \E op \in {"AND", "OR"}, a \in BitOpArgs : BitOpTo(op, a[1], a[2], a[3])
    \/ BitCountPanic
    \/ Tick
    \/ Sweep

Spec == Init /\ [][Next]_vars

\* The sweeper's ticker fires every 100 ms for as long as the process runs.
FairSpec == Spec /\ WF_vars(Sweep)
--------------------------------------------------------------------------------
TypeOK ==
    /\ clock \in Nat
    /\ keys \subseteq Keys
    /\ data \in [Keys -> Entry]
    /\ blind \subseteq Keys

\* What GET, STRLEN and GETBIT show of a key, and what SETBIT builds on.
View(k) == IF k \in blind THEN [st |-> "unknown", e |-> Fresh]
           ELSE IF k \in keys /\ ~expired(k) THEN [st |-> "live", e |-> data[k]]
           ELSE [st |-> "gone", e |-> Fresh]

C == INSTANCE ExpiringMap WITH live <- [k \in Keys |-> View(k)]

\* KeepsExpiry: seen through the commands that read deadlines, a map that keeps
\* its dead and sweeps them later changes only as one would in which a key is
\* gone the moment its deadline has passed: no dead value comes back, no live
\* one disappears, and the sweeper is not seen at all.
KeepsExpiry == C!CSpec

\* SweepReclaims: a key past its deadline does not stay in the map for ever,
\* even if INCR and RPUSH keep writing to its remains.
SweepReclaims == \A k \in Keys : (expired(k) ~> ~expired(k))

Ones(s) == {o \in 0 .. Len(s) * Width - 1 : GetBitIn(s, o) = 1}

\* BitsAreASet: a string is the set of its one-bits.  SETBIT adds or removes the
\* offset and nothing else, even when it grows the string, GETBIT tells whether
\* it is in, BITOP intersects and unites.
BitsAreASet ==
    \A k1, k2 \in Bitmaps :
        LET s == data[k1].bytes
            t == data[k2].bytes
        IN  /\ \A o \in Offsets : /\ Ones(SetBitIn(s, o, 1)) = Ones(s) \cup {o}
                                  /\ Ones(SetBitIn(s, o, 0)) = Ones(s) \ {o}
            /\ Ones(BitOp("AND", s, t)) = Ones(s) \cap Ones(t)
            /\ Ones(BitOp("OR", s, t)) = Ones(s) \cup Ones(t)

\* RangesExact: LRANGE returns the positions between its two ends, a negative
\* end counting from the back; BITCOUNT counts the one-bits of the bytes between
\* its two ends.  The range 0 0 of BITCOUNT stands for the whole string.
RangesExact ==
    \A k \in Keys :
        LET n == data[k].list
            s == data[k].bytes
            at(i) == IF i < 0 THEN n + i ELSE i
        IN  /\ \A i, j \in -(MaxLen + 1) .. MaxLen + 1 :
                   LRange(n, i, j) = {p \in 0 .. n - 1 : at(i) <= p /\ p <= at(j)}
            /\ \A i, j \in 0 .. Len(s) + 1 :
                   CountBit(s, i, j) =
                       Cardinality({o \in Ones(s) : (i = 0 /\ j = 0) \/ ByteIdx(o) \in i .. j})
================================================================================
