------------------------------ MODULE ExpiringMap ------------------------------
(***************************************************************************)
(* What the keyspace promises about deadlines: a key is there until the    *)
(* moment after its deadline and then it is gone, at once and for every    *)
(* reader.  Nothing is ever swept, because nothing dead is ever kept.      *)
(*                                                                         *)
(* The promise has a gap.  INCR, RPUSH, LPUSH and BITOP do not look at     *)
(* deadlines, so a key that is gone when one of them uses it may come out  *)
(* "unknown": no promise until the next SET of the key.  The same goes for *)
(* a PX argument too large for the type of durations.                      *)
(***************************************************************************)
EXTENDS Values

CONSTANTS
    Keys,
    DurHalf,    \* a duration lies in -DurHalf .. DurHalf - 1
    Nums,       \* the numbers, the byte strings and the PX arguments that SET is
    Texts,      \* given; the offsets that SETBIT is given
    PxArgs,
    Offsets,
    BitOpArgs   \* the destinations and sources <<d, k1, k2>> of BITOP

VARIABLES
    clock,
    live        \* what a reader sees of each key

cvars == <<clock, live>>

Gone == [st |-> "gone", e |-> Fresh]
Unknown == [st |-> "unknown", e |-> Fresh]
Live(e) == [st |-> "live", e |-> e]

CInit == clock = 0 /\ live = [k \in Keys |-> Gone]

CTick ==
    /\ clock' = clock + 1
    /\ live' = [k \in Keys |-> IF live[k].e.ttl = "yes" /\ clock + 1 > live[k].e.exp
                               THEN Gone ELSE live[k]]

CSet(k, n, bs, ttl, ms) ==
    /\ live' = [live EXCEPT ![k] =
           IF ms >= DurHalf THEN Unknown
           ELSE Live(Text(n, bs, ttl, IF ttl = "yes" THEN clock + ms ELSE 0))]
    /\ UNCHANGED clock

\* A command that reads the deadline: what it makes of the key is certain.
CSetBit(k, o, bit) ==
    /\ live[k].st = "live" => live[k].e.kind = "string"
    /\ live' = [live EXCEPT ![k] =
           IF @.st = "unknown" THEN @ ELSE Live(SetBitOf(@.e, o, bit))]
    /\ UNCHANGED clock

\* A command that does not: certain on a key that is live.
CBlind(k, e) ==
    /\ live' = [live EXCEPT ![k] = IF @.st = "unknown" THEN @ ELSE Live(e)]
    /\ UNCHANGED clock

CIncr(k) == /\ live[k].st = "live" => live[k].e.kind = "string"
            /\ CBlind(k, IncrOf(live[k].e))

CPush(k) == CBlind(k, RPushOf(live[k].e)) \/ CBlind(k, LPushOf(live[k].e))

\* The result goes to a destination that does not exist; an empty one removes it.
CBitOp(op, d, k1, k2) ==
    LET res == BitOp(op, live[k1].e.bytes, live[k2].e.bytes)
    IN  /\ \A k \in {k1, k2} : live[k].st # "unknown"
        /\ live' = [live EXCEPT ![d] = IF Len(res) = 0 THEN Gone
                                       ELSE IF @.st = "gone" THEN Live(Text(0, res, "no", 0)) ELSE @]
        /\ UNCHANGED clock

\* The gap: a blind command met a key that was not there, or not known.
CLose(d, used) ==
    /\ live[used].st # "live"
    /\ live' = [live EXCEPT ![d] = Unknown]
    /\ UNCHANGED clock

\* The process ends and starts again with nothing.
CCrash == live' = [k \in Keys |-> Gone] /\ UNCHANGED clock

CNext ==
    \/ CTick
    \/ CCrash
    \/ \E op \in {"AND", "OR"}, a \in BitOpArgs : CBitOp(op, a[1], a[2], a[3])
    \/ \E k \in Keys :
          \/ \E n \in Nums, bs \in Texts : CSet(k, n, bs, "no", 0)
          \/ \E n \in Nums, bs \in Texts, ms \in PxArgs : CSet(k, n, bs, "yes", ms)
          \/ \E o \in Offsets, bit \in {0, 1} : CSetBit(k, o, bit)
          \/ CIncr(k)
          \/ CPush(k)
          \/ \E used \in Keys : CLose(k, used)

CSpec == CInit /\ [][CNext]_cvars
================================================================================
