--------------------------------- MODULE Resp ----------------------------------
(***************************************************************************)
(* The wire format (app/resp/reader.go, EncodeRaw and encodeCommand in     *)
(* app/resp_write.go).  Bytes are their numbers; a command is a sequence   *)
(* of arguments, an argument a sequence of bytes.                          *)
(*                                                                         *)
(* A reading operator takes the bytes b that have arrived and the position *)
(* p to read from, and returns what the function of the code does: a value *)
(* and the position after it, or the error.  Short is the end of the       *)
(* input: a wait for more while the connection is open.                    *)
(***************************************************************************)
EXTENDS Integers, SequencesExt

CONSTANTS
    maxLineLength,
    maxBulkLength,
    maxArrayLen

ASSUME LimitsAssumption == {maxLineLength, maxBulkLength, maxArrayLen} \subseteq Nat

LF == 10
CR == 13
Space == 32
Dollar == 36
Star == 42
Minus == 45
Zero == 48

CRLF == <<CR, LF>>

Got(v, p) == [is |-> "got", v |-> v, p |-> p]
Short == [is |-> "short", v |-> <<>>, p |-> 0]
Protocol == [is |-> "protocol", v |-> <<>>, p |-> 0]

--------------------------------------------------------------------------------
(* Numbers *)

RECURSIVE Digits(_)
Digits(n) == IF n < 10 THEN <<Zero + n>> ELSE Append(Digits(n \div 10), Zero + (n % 10))

\* %d of fmt, and strconv.Itoa.
Decimal(n) == IF n < 0 THEN <<Minus>> \o Digits(-n) ELSE Digits(n)

\* parseInt, -1 standing for its errors: both callers answer an error and a
\* negative number alike.
parseInt(line) ==
    LET neg == line # <<>> /\ Head(line) = Minus
        digits == IF neg THEN Tail(line) ELSE line
        n == FoldLeft(LAMBDA acc, c : acc * 10 + (c - Zero), 0, digits)
    IN  IF digits = <<>> \/ \E i \in DOMAIN digits : digits[i] \notin Zero .. Zero + 9 THEN -1
        ELSE IF n > maxBulkLength THEN -1
        ELSE IF neg THEN -n ELSE n

--------------------------------------------------------------------------------
(* The reader *)

\* The next stage of a read, unless this one has failed.
After(r, Stage(_)) == IF r.is = "got" THEN Stage(r) ELSE r

\* A line that starts at p and whose LF is at e.
LineTo(b, p, e) ==
    IF e - p + 1 > maxLineLength \/ e = p THEN Protocol
    ELSE IF b[e - 1] # CR THEN Protocol
    ELSE Got(SubSeq(b, p, e - 2), e + 1)

readLine(b, p) ==
    LET ends == {i \in p .. Len(b) : b[i] = LF} IN
    IF ends = {} THEN Short ELSE LineTo(b, p, Min(ends))

\* Mutant: the payload is read up to its line end.
readBulkStringLine(b, p) == After(readLine(b, p), LAMBDA line : readLine(b, line.p))

\* A payload of n bytes and its CRLF.
Payload(b, p, n) ==
    IF n < 0 \/ n > maxBulkLength THEN Protocol
    ELSE IF p + n + 1 > Len(b) THEN Short
    ELSE IF SubSeq(b, p + n, p + n + 1) # CRLF THEN Protocol
    ELSE Got(SubSeq(b, p, p + n - 1), p + n + 2)

readBulkString(b, p) ==
    After(readLine(b, p), LAMBDA line : Payload(b, line.p, parseInt(line.v)))

\* The loop of readCommandArray: n more arguments after args.
RECURSIVE ReadArgs(_, _, _, _)
ReadArgs(b, p, n, args) ==
    IF n = 0 THEN Got(args, p)
    ELSE IF p > Len(b) THEN Short
    ELSE IF b[p] # Dollar THEN Protocol
    ELSE After(readBulkString(b, p + 1),
               LAMBDA arg : ReadArgs(b, arg.p, n - 1, Append(args, arg.v)))

\* An empty array yields no command, <<>>.
Args(b, p, n) == IF n < 0 \/ n > maxArrayLen THEN Protocol ELSE ReadArgs(b, p, n, <<>>)

readCommandArray(b, p) ==
    After(readLine(b, p), LAMBDA line : Args(b, line.p, parseInt(line.v)))

\* bytes.Fields: the runs of bytes that are no white space.
Fields(line) ==
    LET Blank(i) == line[i] \in {Space, CR} \cup 9 .. 12
        starts == {i \in DOMAIN line : ~Blank(i) /\ (i = 1 \/ Blank(i - 1))}
        End(i) == CHOOSE j \in i .. Len(line) :
                      (j = Len(line) \/ Blank(j + 1)) /\ \A k \in i .. j : ~Blank(k)
    IN  LET from == SetToSortSeq(starts, <) IN
        [k \in DOMAIN from |-> SubSeq(line, from[k], End(from[k]))]

readInlineCommand(b, p) ==
    After(readLine(b, p), LAMBDA line : Got(Fields(line.v), line.p))

\* ReadCommand: the next command that is not empty.  The end of the input before
\* its first byte is io.EOF, anywhere else io.ErrUnexpectedEOF.
RECURSIVE ReadCommand(_, _)
ReadCommand(b, p) ==
    IF p > Len(b) THEN [Short EXCEPT !.is = "end"]
    ELSE After(IF b[p] = Star THEN readCommandArray(b, p + 1) ELSE readInlineCommand(b, p),
               LAMBDA cmd : IF cmd.v = <<>> THEN ReadCommand(b, cmd.p) ELSE cmd)

--------------------------------------------------------------------------------
(* The writer *)

\* EncodeRaw and encodeCommand.
EncodeRaw(cmd) ==
    FoldLeft(LAMBDA b, arg : b \o <<Dollar>> \o Decimal(Len(arg)) \o CRLF \o arg \o CRLF,
             <<Star>> \o Decimal(Len(cmd)) \o CRLF, cmd)
================================================================================
