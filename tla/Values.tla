-------------------------------- MODULE Values ---------------------------------
(***************************************************************************)
(* The entries of the keyspace and what a command does to one entry,       *)
(* whatever its deadline: strings as bitmaps (SETBIT, GETBIT, BITCOUNT,    *)
(* BITOP), strings as counters (INCR), lists (RPUSH, LPUSH, LRANGE).       *)
(*                                                                         *)
(* A byte is the set of its one-bits, bit Width - 1 the most significant.  *)
(* A string has two faces, bytes and num; a key uses one of them.  A list  *)
(* is its length: its elements are their positions.                        *)
(***************************************************************************)
EXTENDS Integers, Sequences, FiniteSets

CONSTANTS
    Width,      \* bits in a byte: 8
    IntHalf     \* an int64 lies in -IntHalf .. IntHalf - 1: 2^63

ASSUME ValuesAssumption == Width \in Nat \ {0} /\ IntHalf \in Nat \ {0}

Byte == SUBSET (0 .. Width - 1)

\* The entry a read of a missing map key yields: Go's zero value.
Fresh == [kind |-> "", num |-> 0, bytes |-> <<>>, list |-> 0, ttl |-> "no", exp |-> 0]

Entry == [kind : {"", "string"}, num : Int, bytes : Seq(Byte), list : Nat,
          ttl : {"no", "yes"}, exp : Int]

Longer(m, n) == IF m < n THEN n ELSE m
--------------------------------------------------------------------------------
(* Bitmaps. *)

\* The byte an offset falls in, and its bit: the first bit is the highest one.
ByteIdx(o) == o \div Width
Mask(o) == Width - 1 - (o % Width)

\* Past the end a string reads as zero bytes.  Indices count from 0.
ByteAt(s, i) == IF i < Len(s) THEN s[i + 1] ELSE {}

\* Mutant: the grown buffer does not keep the old bytes.
GrownEmpty(s, n) == IF n > Len(s) THEN [i \in 1 .. n |-> {}] ELSE s

Grown(s, n) == [i \in 1 .. Longer(n, Len(s)) |-> ByteAt(s, i - 1)]

SetBitIn(s, o, bit) ==
    [Grown(s, ByteIdx(o) + 1) EXCEPT
        ![ByteIdx(o) + 1] = IF bit = 1 THEN @ \cup {Mask(o)} ELSE @ \ {Mask(o)}]

GetBitIn(s, o) == IF Mask(o) \in ByteAt(s, ByteIdx(o)) THEN 1 ELSE 0

BitOp(op, s, t) ==
    [i \in 1 .. Longer(Len(s), Len(t)) |->
        IF op = "AND" THEN ByteAt(s, i - 1) \cap ByteAt(t, i - 1)
                      ELSE ByteAt(s, i - 1) \cup ByteAt(t, i - 1)]

\* The last byte BITCOUNT looks at: stop clamped to the string, and the whole
\* string for the range 0 0, which is what BITCOUNT without a range passes.
LastByte(s, start, stop) ==
    LET clamped == IF stop >= Len(s) THEN Len(s) - 1 ELSE stop
    IN  IF start = 0 /\ clamped = 0 THEN Len(s) - 1 ELSE clamped

\* Mutant: the last byte is left out.
CountBitShort(s, start, stop) ==
    IF start > Len(s) \/ start > stop THEN 0
    ELSE Cardinality(UNION {{i} \X ByteAt(s, i) : i \in start .. (LastByte(s, start, stop) - 1)})

\* A negative start that passes the two tests indexes before the string: see
\* BitCountPanic in Keyspace.
CountBit(s, start, stop) ==
    IF start > Len(s) \/ start > stop THEN 0
    ELSE Cardinality(UNION {{i} \X ByteAt(s, i) : i \in start .. LastByte(s, start, stop)})
--------------------------------------------------------------------------------
(* What each command makes of the entry it finds. *)

SetBitOf(e, o, bit) == [e EXCEPT !.kind = "string", !.bytes = SetBitIn(@, o, bit)]

\* v++ on an int64 wraps.
IncrOf(e) ==
    [e EXCEPT !.kind = "string", !.num = IF @ = IntHalf - 1 THEN -IntHalf ELSE @ + 1]

RPushOf(e) == [e EXCEPT !.list = @ + 1]

\* LPUSH also drops the deadline.
LPushOf(e) == [e EXCEPT !.list = @ + 1, !.ttl = "no", !.exp = 0]

\* A new string.
Text(n, bs, ttl, exp) ==
    [kind |-> "string", num |-> n, bytes |-> bs, list |-> 0, ttl |-> ttl, exp |-> exp]

\* The positions LRANGE returns of a list of n elements.
LRange(n, start, stop) ==
    LET low(i) == IF i < 0 THEN i + n ELSE i
        from == IF low(start) < 0 THEN 0 ELSE low(start)
        to   == IF low(stop) >= n THEN n - 1 ELSE low(stop)
    IN  IF from > to \/ from >= n THEN {} ELSE from .. to
================================================================================
