----------------------------- MODULE MCPersistence -----------------------------
(* A small instance of Persistence for TLC.  97 is the letter a. *)
EXTENDS Persistence

Item(bytes, cmd) == [bytes |-> bytes, cmd |-> cmd, ok |-> TRUE]
Break(bytes) == [bytes |-> bytes, cmd |-> <<>>, ok |-> FALSE]
As(n) == [i \in 1 .. n |-> 97]

\* A payload that is itself CRLF, an empty one, one with a length of two digits,
\* an inline command, and the two kinds of input that are skipped; an array that is
\* too long, a payload longer than it says, a line without its CR.
PeerItems == {
    Item(<<42, 50, 13, 10, 36, 49, 13, 10, 97, 13, 10, 36, 50, 13, 10, 13, 10, 13, 10>>, <<As(1), CRLF>>),
    Item(<<42, 49, 13, 10, 36, 48, 13, 10, 13, 10>>, << <<>> >>),
    Item(<<42, 49, 13, 10, 36, 49, 48, 13, 10>> \o As(10) \o <<13, 10>>, <<As(10)>>),
    Item(<<32, 97, 32, 32, 97, 97, 13, 10>>, <<As(1), As(2)>>),
    Item(<<42, 48, 13, 10>>, <<>>),
    Item(<<13, 10>>, <<>>),
    Break(<<42, 53, 13, 10>>),
    Break(<<42, 49, 13, 10, 36, 49, 13, 10, 97, 97, 10>>),
    Break(<<97, 10>>)}

\* "REDIS0011"
Header == Magic \o <<48, 48, 49, 49>>

Value(v, t) == [value |-> v, expiresAt |-> t]
Snapshot(body, entries) == [bytes |-> Header \o body, whole |-> TRUE, entries |-> entries]

\* Lengths of 6 bits and integers of 1 and 2 bytes, an expiry in milliseconds for
\* the first key only.
Small == Snapshot(
    <<250, 1, 97, 192, 255, 254, 0, 251, 2, 1,
      252, 232, 3, 0, 0, 0, 0, 0, 0, 0, 1, 97, 2, 97, 97,
      0, 1, 98, 193, 254, 255, 255>>,
    (<<97>> :> Value(As(2), 1000)) @@ (<<98>> :> Value(<<Minus, Zero + 2>>, Never)))

\* Lengths of 14 and 32 bits, an integer of 4 bytes, -2^31 + 1, an expiry in
\* seconds, a key that is there twice.
Large == Snapshot(
    <<0, 64, 1, 97, 194, 1, 0, 0, 128,
      253, 2, 0, 0, 0, 0, 128, 0, 0, 0, 1, 98, 65, 1>> \o As(257) \o
    <<0, 1, 99, 1, 97, 0, 1, 99, 0, 255>>,
    (<<97>> :> Value(Decimal(-2147483647), Never)) @@ (<<98>> :> Value(As(257), 2000))
        @@ (<<99>> :> Value(<<>>, Never)))

\* The file ends after n bytes.
Cut(s, n) == [s EXCEPT !.bytes = SubSeq(@, 1, n), !.whole = FALSE]

\* Another magic, an opcode and a string encoding that the loader does not know.
Damaged == {
    [Small EXCEPT !.bytes[1] = 0, !.whole = FALSE],
    [Small EXCEPT !.bytes[10] = 247, !.whole = FALSE],
    [Small EXCEPT !.bytes[13] = 195, !.whole = FALSE]}

SnapshotFiles ==
    {Small, Large} \cup Damaged
        \cup {Cut(Small, n) : n \in 0 .. Len(Small.bytes) - 1}
        \cup {Cut(Large, n) : n \in 9 .. 40} \cup {Cut(Large, Len(Large.bytes) - n) : n \in 1 .. 7}

\* Connections are explored behind one of the whole snapshots only.
OneBase == snap = Small \/ sent = <<>>
================================================================================
