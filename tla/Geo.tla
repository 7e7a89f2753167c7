---------------------------------- MODULE Geo ----------------------------------
(***************************************************************************)
(* The geospatial score (app/store.go: spread, interleave, encode, decode, *)
(* compactInt64ToInt32).                                                   *)
(*                                                                         *)
(* A coordinate is the number of its grid cell, 0 .. Grid: what the        *)
(* conversion to uint32 leaves of it.  The largest latitude and the        *)
(* largest longitude get the number Grid.  A machine word is the set of    *)
(* its 1-bits, so shifts and masks are the ones of the code.               *)
(***************************************************************************)
EXTENDS Integers

CONSTANT GridBits       \* 26 in the code

ASSUME GridBitsAssumption == GridBits \in 1 .. 31

\* The digits a code may have: two for each digit of the number Grid.
Width == 2 * GridBits + 2

\* The powers of two, and how many cells a coordinate has.
Power[i \in 0 .. Width] == IF i = 0 THEN 1 ELSE 2 * Power[i - 1]
Grid == Power[GridBits]

\* The digits of a float64, 53 in the code: one more than two coordinates have.
Mantissa == 2 * GridBits + 1

\* A uint64 and its 1-bits: they are the last digits of the number and its halves,
\* and the number is read from the highest bit down.
Bits(n) ==
    LET cut[i \in 0 .. Width] ==
            IF i = 0 THEN [rest |-> n, word |-> {}]
            ELSE LET c == cut[i - 1] IN
                 [rest |-> c.rest \div 2,
                  word |-> c.word \cup (IF c.rest % 2 = 1 THEN {i - 1} ELSE {})]
    IN  cut[Width].word
Number(w) ==
    LET read[i \in 0 .. Width] == IF i = 0 THEN 0
                               ELSE (IF Width - i \in w THEN 1 ELSE 0) + 2 * read[i - 1]
    IN  read[Width]

Shl(w, k) == {i + k : i \in w} \cap 0 .. 63
Shr(w, k) == {i - k : i \in {j \in w : j >= k}}

\* The masks 0x5555..., 0x3333..., 0x0F0F... and so on: k bits in, k bits out.
Mask == [k \in {1, 2, 4, 8, 16, 32} |-> {i \in 0 .. 63 : (i \div k) % 2 = 0}]

\* One line of spread and one of compactInt64ToInt32.
Apart(r, k) == (r \cup Shl(r, k)) \cap Mask[k]
Together(r, k) == (r \cup Shr(r, k)) \cap Mask[2 * k]

spread(v) == Apart(Apart(Apart(Apart(Apart(v, 16), 8), 4), 2), 1)

\* Mutant: the round of 4 is left out.
compactSkipping(v) == Together(Together(Together(Together(v \cap Mask[1], 1), 2), 8), 16)

compactInt64ToInt32(v) ==
    Together(Together(Together(Together(Together(v \cap Mask[1], 1), 2), 4), 8), 16)

interleave(x, y) == spread(x) \cup Shl(spread(y), 1)

encode(lat, lon) == Number(interleave(Bits(lat), Bits(lon)))

decode(code) ==
    [lat |-> Number(compactInt64ToInt32(Bits(code))),
     lon |-> Number(compactInt64ToInt32(Shr(Bits(code), 1)))]

\* The conversion to float64: a number of one digit more than the mantissa is
\* rounded to even.
float64(n) ==
    IF n < Power[Mantissa] \/ n % 2 = 0 THEN n ELSE IF n % 4 = 1 THEN n - 1 ELSE n + 1
================================================================================
