---------------------------------- MODULE Rdb ----------------------------------
(***************************************************************************)
(* The snapshot format (app/rdb/rdb.go: readSize, readString,              *)
(* readPlainSize).  The operators return what those of Resp do: a value    *)
(* and the position after it, or the error.                                *)
(***************************************************************************)
EXTENDS Resp

opAux == 250
opResizeDB == 251
opExpireMs == 252
opExpireSec == 253
opSelectDB == 254
opEOF == 255
typeString == 0

\* io.ReadFull of n bytes.
ReadFull(b, p, n) == IF p + n - 1 > Len(b) THEN Short ELSE Got(SubSeq(b, p, p + n - 1), p + n)

BigEndian(w) == FoldLeft(LAMBDA n, c : n * 256 + c, 0, w)
LittleEndian(w) == BigEndian(Reverse(w))

\* int8, int16 and int32 of a little-endian word.
Signed(w) ==
    LET top == Last(w) IN
    (IF top < 128 THEN top ELSE top - 256) * 256^(Len(w) - 1) + LittleEndian(Front(w))

\* Lengths of 6, 14 and 32 bits; the special ones name an encoding.
readSize(b, p) ==
    LET Size(n, special, q) == Got([n |-> n, special |-> special], q)
        low == b[p] % 64
    IN  IF p > Len(b) THEN Short
        ELSE CASE b[p] \div 64 = 0 -> Size(low, FALSE, p + 1)
               [] b[p] \div 64 = 1 -> IF p = Len(b) THEN Short
                                      ELSE Size(low * 256 + b[p + 1], FALSE, p + 2)
               [] b[p] \div 64 = 2 -> After(ReadFull(b, p + 1, 4),
                                           LAMBDA long : Size(BigEndian(long.v), FALSE, long.p))
               [] OTHER -> Size(low, TRUE, p + 1)

\* An integer of 1, 2 or 4 bytes, as text.  One of 2 bytes that is cut off is taken
\* for an empty string, and what is left of it is consumed.
readInteger(b, p, n) ==
    IF n > 2 THEN Protocol
    ELSE IF n = 1 /\ p + 1 > Len(b) THEN Got(<<>>, Len(b) + 1)
    ELSE After(ReadFull(b, p, 2^n), LAMBDA int : Got(Decimal(Signed(int.v)), int.p))

readString(b, p) ==
    After(readSize(b, p),
          LAMBDA size : IF size.v.special THEN readInteger(b, size.p, size.v.n)
                        ELSE ReadFull(b, size.p, size.v.n))

readPlainSize(b, p) ==
    After(readSize(b, p), LAMBDA size : IF size.v.special THEN Protocol ELSE size)
================================================================================
