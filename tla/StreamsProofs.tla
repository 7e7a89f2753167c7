----------------------------- MODULE StreamsProofs -----------------------------
(***************************************************************************)
(* For any number of streams, readers and XADDs and any size of an ID's    *)
(* halves: IDs increase strictly, no XADD slips past a parked reader, a    *)
(* read returns exactly what its bounds promise, and "$" means the moment  *)
(* of the call.                                                            *)
(***************************************************************************)
EXTENDS Streams, SequenceTheorems, WellFoundedInduction, TLAPS

\* less is a strict order: what is not above b is below whatever is above b.
LEMMA LessTransitive ==
    ASSUME NEW a \in IDs, NEW b \in IDs, NEW d \in IDs, ~Less(b, a), Less(b, d)
    PROVE  Less(a, d)
<1>1. /\ a.ms \in Nat /\ a.seq \in Nat /\ b.ms \in Nat /\ b.seq \in Nat
      /\ d.ms \in Nat /\ d.seq \in Nat
  BY HalfAssumption DEF IDs, Half
<1>2. QED  BY <1>1 DEF Less

\* An ID that passes isValidStreamId is above the last one.
LEMMA ValidIsAbove ==
    ASSUME NEW last \in IDs, NEW new \in IDs, IsValidStreamId(last, new)
    PROVE  Less(last, new)
<1>1. last.ms \in Nat /\ last.seq \in Nat /\ new.ms \in Nat /\ new.seq \in Nat
  BY HalfAssumption DEF IDs, Half
<1>2. QED  BY <1>1 DEF Less, IsValidStreamId

\* Every ID but 0-0 is above 0-0, and none is below.
LEMMA ZeroIsLeast ==
    ASSUME NEW a \in IDs
    PROVE  /\ Zero \in IDs /\ ~Less(a, Zero) /\ ~Less(a, a)
           /\ a # Zero => Less(Zero, a)
<1>1. a.ms \in Nat /\ a.seq \in Nat /\ a = [ms |-> a.ms, seq |-> a.seq]
  BY HalfAssumption DEF IDs, Half
<1>2. Zero \in IDs
  BY HalfAssumption DEF IDs, Half, Zero
<1>3. ~Less(a, Zero) /\ ~Less(a, a)
  BY <1>1 DEF Less, Zero
<1>4. a # Zero => Less(Zero, a)
  BY <1>1 DEF Less, Zero
<1>5. QED  BY <1>2, <1>3, <1>4, Zenon

\* nextSeq stays within the width of an ID's half.
LEMMA NextSeqType ==
    ASSUME NEW ms \in Half, NEW last \in IDs PROVE NextSeq(ms, last) \in Half
<1>1. last.seq \in Nat /\ MaxHalf + 1 \in Nat \ {0} /\ last.seq + 1 \in Nat
  BY HalfAssumption DEF IDs, Half
<1>2. \A a \in Nat, b \in Nat \ {0} : a % b \in 0 .. b - 1
  OBVIOUS
<1>3. (last.seq + 1) % (MaxHalf + 1) \in 0 .. (MaxHalf + 1) - 1
  BY <1>1, <1>2, Zenon
<1>4. (last.seq + 1) % (MaxHalf + 1) \in Half
  BY <1>3, HalfAssumption DEF Half
<1>5. QED  BY <1>4, HalfAssumption DEF NextSeq, Half

\* XADD's candidate is an ID.
LEMMA CandidateType ==
    ASSUME NEW req \in Requests, NEW last \in IDs, NEW now \in Half
    PROVE  Candidate(req, last, now) \in IDs
<1>1. last.ms \in Half
  BY Zenon DEF IDs
<1>2. ASSUME NEW ms \in Half PROVE [ms |-> ms, seq |-> NextSeq(ms, last)] \in IDs
  BY <1>2, NextSeqType, Zenon DEF IDs
<1>3. CASE req.tag = "auto"
  BY <1>1, <1>2, <1>3, Zenon DEF Candidate
<1>4. CASE req.tag = "ms"
  <2>1. req.ms \in Half
    BY <1>4, Zenon DEF Requests
  <2>2. QED  BY <1>2, <1>4, <2>1, Zenon DEF Candidate
<1>5. CASE req.tag = "id"
  <2>1. req.id \in IDs
    BY <1>5, Zenon DEF Requests
  <2>2. QED  BY <1>5, <2>1, Zenon DEF Candidate
<1>6. QED  BY <1>3, <1>4, <1>5, Zenon DEF Requests

--------------------------------------------------------------------------------
(* The inductive invariant *)

\* A reader never holds a channel that is yet to be made.  NoMissedWakeup needs
\* this: the channel XADD makes is new to every parked reader.
OldChannels == \A c \in Clients : ch[c] <= notify

StInv == TypeOK /\ IdsIncrease /\ OldChannels /\ NoMissedWakeup

\* XADD keeps the IDs in order and leaves every parked reader with a closed
\* channel.
LEMMA XAddStep ==
    ASSUME StInv, NEW k \in Keys, NEW req \in AddRequests, NEW now \in Half, XAdd(k, req, now)
    PROVE  StInv'
<1>0. PICK new : new = Candidate(req, lastID[k], now)
  BY Zenon
<1>1. /\ kind' = [kind EXCEPT ![k] = "stream"]
      /\ entries' = [entries EXCEPT ![k] = Append(entries[k], [id |-> new, n |-> nAdd + 1])]
      /\ lastID' = [lastID EXCEPT ![k] = new] /\ nAdd' = nAdd + 1 /\ notify' = notify + 1
      /\ new # Zero /\ IsValidStreamId(lastID[k], new)
      /\ UNCHANGED <<pc, call, afters, ch, timed, since, done, crashed>>
  BY <1>0, Zenon DEF XAdd, readVars
<1>2. lastID[k] \in IDs /\ entries[k] \in Seq(Entry) /\ nAdd \in Nat /\ notify \in Nat
  BY Zenon DEF StInv, TypeOK
<1>3. new \in IDs
  BY <1>0, <1>2, CandidateType, RequestsAssumption, Zenon
<1>4. PICK e : e = [id |-> new, n |-> nAdd + 1]
  BY Zenon
<1>5. e \in Entry /\ e.id = new
  BY <1>2, <1>3, <1>4 DEF Entry
<1>6. TypeOK'
  <2>1. Append(entries[k], e) \in Seq(Entry)
    BY <1>2, <1>5
  <2>2. entries' \in [Keys -> Seq(Entry)]
    BY <1>1, <1>4, <2>1, Zenon DEF StInv, TypeOK
  <2>3. kind' \in [Keys -> {"none", "string", "stream"}] /\ lastID' \in [Keys -> IDs]
    BY <1>1, <1>3, Zenon DEF StInv, TypeOK
  <2>4. notify' \in Nat /\ nAdd' \in Nat
    BY <1>1, <1>2
  <2>5. QED  BY <1>1, <2>2, <2>3, <2>4, Zenon DEF StInv, TypeOK
<1>7. PICK q : q = entries[k]
  BY Zenon
<1>8. /\ entries'[k] = Append(q, e) /\ lastID'[k] = new
      /\ \A l \in Keys : l # k => entries'[l] = entries[l] /\ lastID'[l] = lastID[l]
  BY <1>1, <1>4, <1>7, Zenon DEF StInv, TypeOK
<1>9. /\ q \in Seq(Entry) /\ Len(q) \in Nat /\ DOMAIN q = 1 .. Len(q)
      /\ DOMAIN Append(q, e) = 1 .. Len(q) + 1
      /\ \A i \in 1 .. Len(q) : Append(q, e)[i] = q[i]
      /\ Append(q, e)[Len(q) + 1] = e
  BY <1>2, <1>5, <1>7
<1>10. Less(lastID[k], new) /\ Less(Zero, new) /\ ~Less(new, new)
  BY <1>1, <1>2, <1>3, ValidIsAbove, ZeroIsLeast, Zenon
<1>11. \A i \in 1 .. Len(q) :
          /\ q[i].id \in IDs /\ Less(Zero, q[i].id)
          /\ Less(q[i].id, new)
  <2>1. TAKE i \in 1 .. Len(q)
  <2>2. q[i].id \in IDs
    <3>1. q[i] \in Entry
      BY <1>9, ElementOfSeq, Zenon
    <3>2. QED  BY <3>1, Zenon DEF Entry
  <2>3. Less(Zero, q[i].id) /\ ~Less(lastID[k], q[i].id)
    BY <1>7, <1>9, Zenon DEF StInv, IdsIncrease
  <2>4. Less(q[i].id, new)
    BY <1>2, <1>3, <1>10, <2>2, <2>3, LessTransitive, Zenon
  <2>5. QED  BY <2>2, <2>3, <2>4, Zenon
<1>12. \A i \in 1 .. Len(q) : ~Less(new, q[i].id)
  <2>1. TAKE i \in 1 .. Len(q)
  <2>2. Less(new, q[i].id) => Less(new, new)
    <3>1. /\ q[i].id.ms \in Nat /\ q[i].id.seq \in Nat /\ new.ms \in Nat /\ new.seq \in Nat
      BY <1>3, <1>11, HalfAssumption DEF IDs, Half
    <3>2. QED  BY <1>11, <3>1 DEF Less
  <2>3. QED  BY <1>10, <2>2, Zenon
<1>13. IdsIncrease'
  <2>1. ASSUME NEW i \in DOMAIN Append(q, e)
        PROVE  Less(Zero, Append(q, e)[i].id) /\ ~Less(new, Append(q, e)[i].id)
    BY <1>5, <1>9, <1>10, <1>11, <1>12, <2>1
  <2>2. \A i, j \in 1 .. Len(q) : i < j => Less(q[i].id, q[j].id)
    BY <1>7, <1>9, Zenon DEF StInv, IdsIncrease
  <2>3. ASSUME NEW i \in DOMAIN Append(q, e), NEW j \in DOMAIN Append(q, e), i < j
        PROVE  Less(Append(q, e)[i].id, Append(q, e)[j].id)
    <3>1. i \in 1 .. Len(q) /\ (j \in 1 .. Len(q) \/ j = Len(q) + 1)
      BY <1>9, <2>3
    <3>2. CASE j \in 1 .. Len(q)
      BY <1>9, <2>2, <2>3, <3>1, <3>2, Zenon
    <3>3. CASE j = Len(q) + 1
      BY <1>5, <1>9, <1>11, <3>1, <3>3, Zenon
    <3>4. QED  BY <3>1, <3>2, <3>3, Zenon
  <2>4. /\ \A i \in DOMAIN entries'[k] :
              Less(Zero, entries'[k][i].id) /\ ~Less(lastID'[k], entries'[k][i].id)
        /\ \A i, j \in DOMAIN entries'[k] :
              i < j => Less(entries'[k][i].id, entries'[k][j].id)
    BY <1>8, <2>1, <2>3, Zenon
  <2>5. ASSUME NEW l \in Keys, l # k
        PROVE  /\ \A i \in DOMAIN entries'[l] :
                     Less(Zero, entries'[l][i].id) /\ ~Less(lastID'[l], entries'[l][i].id)
               /\ \A i, j \in DOMAIN entries'[l] :
                     i < j => Less(entries'[l][i].id, entries'[l][j].id)
    BY <1>8, <2>5, Zenon DEF StInv, IdsIncrease
  <2>6. QED  BY <2>4, <2>5, Zenon DEF IdsIncrease
<1>14. \A c \in Clients : ch'[c] <= notify' /\ ch'[c] # notify'
  BY <1>1, <1>2 DEF StInv, OldChannels, TypeOK
<1>15. OldChannels' /\ NoMissedWakeup'
  BY <1>14, Zenon DEF OldChannels, NoMissedWakeup
<1>16. QED  BY <1>6, <1>13, <1>15, Zenon DEF StInv

\* A step that leaves the streams and the notify channel alone.
LEMMA StreamsKept ==
    ASSUME StInv, UNCHANGED <<entries, lastID>> PROVE IdsIncrease'
BY Zenon DEF StInv, IdsIncrease

\* Replacing a stream takes entries away only.
LEMMA SetStep == ASSUME StInv, NEW k \in Keys, Set(k) PROVE StInv'
<1>1. /\ kind' = [kind EXCEPT ![k] = "string"] /\ entries' = [entries EXCEPT ![k] = <<>>]
      /\ lastID' = [lastID EXCEPT ![k] = Zero]
      /\ UNCHANGED <<notify, pc, call, afters, ch, timed, since, done, crashed, nAdd>>
  BY Zenon DEF Set, readVars
<1>2. Zero \in IDs
  BY HalfAssumption DEF IDs, Half, Zero
<1>3. TypeOK'
  <2>1. entries' \in [Keys -> Seq(Entry)]
    BY <1>1 DEF StInv, TypeOK
  <2>2. kind' \in [Keys -> {"none", "string", "stream"}] /\ lastID' \in [Keys -> IDs]
    BY <1>1, <1>2, Zenon DEF StInv, TypeOK
  <2>3. QED  BY <1>1, <2>1, <2>2, Zenon DEF StInv, TypeOK
<1>4. /\ entries'[k] = <<>>
      /\ \A l \in Keys : l # k => entries'[l] = entries[l] /\ lastID'[l] = lastID[l]
  BY <1>1, Zenon DEF StInv, TypeOK
<1>5. IdsIncrease'
  BY <1>4 DEF StInv, IdsIncrease
<1>6. OldChannels'
  BY <1>1, Zenon DEF StInv, OldChannels
<1>7. ASSUME NEW c \in Clients, Found(c)' PROVE Found(c)
  <2>1. PICK i \in DOMAIN call[c] : HasNew(call[c][i].key, afters[c][i])'
    BY <1>1, <1>7, Zenon DEF Found
  <2>2. PICK l : l = call[c][i].key
    BY Zenon
  <2>3. l \in Keys
    <3>1. call[c] \in Seq([key : Keys, from : Starts])
      BY Zenon DEF StInv, TypeOK
    <3>2. call[c][i] \in [key : Keys, from : Starts]
      BY <3>1, ElementOfSeq, LenProperties, Zenon
    <3>3. QED  BY <2>2, <3>2, Zenon
  <2>4. entries'[l] = entries[l] \/ entries'[l] = <<>>
    BY <1>4, <2>3, Zenon
  <2>5. HasNew(l, afters[c][i])
    <3>1. \E j \in DOMAIN entries'[l] : Less(afters[c][i], entries'[l][j].id)
      BY <1>1, <2>1, <2>2, Zenon DEF HasNew
    <3>2. entries'[l] # <<>>
      BY <3>1
    <3>3. QED  BY <2>4, <3>1, <3>2, Zenon DEF HasNew
  <2>6. QED  BY <2>2, <2>5, Zenon DEF Found
<1>8. NoMissedWakeup'
  BY <1>1, <1>7, Zenon DEF StInv, NoMissedWakeup
<1>9. QED  BY <1>3, <1>5, <1>6, <1>8, Zenon DEF StInv

\* The cursor of an argument that is not malformed is an ID.
LEMMA CursorType ==
    ASSUME TypeOK, NEW arg \in [key : Keys, from : Starts], arg.from.tag # "bad"
    PROVE  Cursor(arg) \in IDs
<1>1. CASE arg.from.tag = "$"
  BY <1>1, Zenon DEF Cursor, TypeOK
<1>2. CASE arg.from.tag = "id"
  <2>1. arg.from.id \in IDs
    BY <1>2, Zenon DEF Starts
  <2>2. QED  BY <1>2, <2>1, Zenon DEF Cursor
<1>3. QED  BY <1>1, <1>2, Zenon DEF Starts

\* A call that begins is not parked.
LEMMA XReadBlockStep ==
    ASSUME StInv, NEW c \in Clients, NEW args \in ReadCalls, NEW t \in Timeouts,
           XReadBlock(c, args, t)
    PROVE  StInv'
<1>1. /\ pc' = [pc EXCEPT ![c] = "scan"] /\ call' = [call EXCEPT ![c] = args]
      /\ afters' = [afters EXCEPT ![c] = [i \in DOMAIN args |-> Cursor(args[i])]]
      /\ timed' \subseteq timed \cup {c} /\ since' = [since EXCEPT ![c] = nAdd]
      /\ UNCHANGED <<kind, entries, lastID, notify, ch, done, crashed, nAdd>>
      /\ \A i \in DOMAIN args : args[i].from.tag # "bad"
  BY Zenon DEF XReadBlock
<1>2. args \in Seq([key : Keys, from : Starts])
  BY CallsAssumption, Zenon
<1>3. [i \in DOMAIN args |-> Cursor(args[i])] \in Seq(IDs)
  <2>1. Len(args) \in Nat /\ DOMAIN args = 1 .. Len(args)
    BY <1>2
  <2>2. ASSUME NEW i \in 1 .. Len(args) PROVE Cursor(args[i]) \in IDs
    <3>1. args[i] \in [key : Keys, from : Starts]
      BY <1>2, ElementOfSeq, Zenon
    <3>2. args[i].from.tag # "bad"
      BY <1>1, <2>1, Zenon
    <3>3. QED  BY <3>1, <3>2, CursorType, Zenon DEF StInv
  <2>3. QED  BY <2>1, <2>2
<1>4. TypeOK'
  BY <1>1, <1>2, <1>3, Zenon DEF StInv, TypeOK
<1>5. /\ pc'[c] = "scan"
      /\ \A d \in Clients : d # c => pc'[d] = pc[d] /\ call'[d] = call[d] /\ afters'[d] = afters[d]
  BY <1>1, Zenon DEF StInv, TypeOK
<1>6. OldChannels'
  BY <1>1, Zenon DEF StInv, OldChannels
<1>7. ASSUME NEW d \in Clients, pc'[d] = "select" /\ ch'[d] = notify', Found(d)'
      PROVE  FALSE
  <2>1. d # c /\ pc[d] = "select" /\ ch[d] = notify
    BY <1>1, <1>5, <1>7, SMTT(30)
  <2>2. Found(d)
    BY <1>1, <1>5, <1>7, <2>1, Zenon DEF Found, HasNew
  <2>3. QED  BY <2>1, <2>2, Zenon DEF StInv, NoMissedWakeup
<1>8. NoMissedWakeup'
  BY <1>7, Zenon DEF NoMissedWakeup
<1>9. QED  BY <1>1, <1>4, <1>6, <1>8, StreamsKept, Zenon DEF StInv

\* A call that returns is not parked.
LEMMA ReturnStep == ASSUME StInv, NEW c \in Clients, Return(c) PROVE StInv'
<1>1. /\ pc' = [pc EXCEPT ![c] = "idle"] /\ call' = [call EXCEPT ![c] = <<>>]
      /\ afters' = [afters EXCEPT ![c] = <<>>] /\ ch' = [ch EXCEPT ![c] = 0]
      /\ timed' = timed \ {c} /\ since' = [since EXCEPT ![c] = 0]
      /\ UNCHANGED <<kind, entries, lastID, notify, done, crashed, nAdd>>
  BY Zenon DEF Return
<1>2. TypeOK'
  <2>1. \A S : <<>> \in Seq(S)
    OBVIOUS
  <2>2. /\ call' \in [Clients -> Seq([key : Keys, from : Starts])]
        /\ afters' \in [Clients -> Seq(IDs)]
    BY <1>1, <2>1, Zenon DEF StInv, TypeOK
  <2>3. /\ pc' \in [Clients -> {"idle", "scan", "select"}] /\ timed' \subseteq Clients
        /\ ch' \in [Clients -> Nat] /\ since' \in [Clients -> Nat]
    BY <1>1, Zenon DEF StInv, TypeOK
  <2>4. QED  BY <1>1, <2>2, <2>3, Zenon DEF StInv, TypeOK
<1>3. /\ pc'[c] = "idle" /\ ch'[c] = 0
      /\ \A d \in Clients : d # c => /\ pc'[d] = pc[d] /\ call'[d] = call[d]
                                    /\ afters'[d] = afters[d] /\ ch'[d] = ch[d]
  BY <1>1, Zenon DEF StInv, TypeOK
<1>4. OldChannels'
  BY <1>1, <1>3 DEF StInv, OldChannels, TypeOK
<1>5. ASSUME NEW d \in Clients, pc'[d] = "select" /\ ch'[d] = notify', Found(d)'
      PROVE  FALSE
  <2>1. d # c /\ pc[d] = "select" /\ ch[d] = notify
    BY <1>1, <1>3, <1>5, SMTT(30)
  <2>2. Found(d)
    BY <1>1, <1>3, <1>5, <2>1, Zenon DEF Found, HasNew
  <2>3. QED  BY <2>1, <2>2, Zenon DEF StInv, NoMissedWakeup
<1>6. NoMissedWakeup'
  BY <1>5, Zenon DEF NoMissedWakeup
<1>7. QED  BY <1>1, <1>2, <1>4, <1>6, StreamsKept, Zenon DEF StInv

\* Scan and channel are read in one critical section: a reader that parks has
\* nothing to read.
LEMMA ScanEmptyStep == ASSUME StInv, NEW c \in Clients, ScanEmpty(c) PROVE StInv'
<1>1. /\ pc' = [pc EXCEPT ![c] = "select"] /\ ch' = [ch EXCEPT ![c] = notify] /\ ~Found(c)
      /\ UNCHANGED <<kind, entries, lastID, notify, call, afters, timed, since, done, crashed, nAdd>>
  BY Zenon DEF ScanEmpty
<1>2. TypeOK'
  BY <1>1, Zenon DEF StInv, TypeOK
<1>3. /\ ch'[c] = notify /\ \A d \in Clients : d # c => pc'[d] = pc[d] /\ ch'[d] = ch[d]
  BY <1>1, Zenon DEF StInv, TypeOK
<1>4. \A d \in Clients : Found(d)' <=> Found(d)
  BY <1>1, Zenon DEF Found, HasNew
<1>5. OldChannels'
  BY <1>1, <1>3 DEF StInv, OldChannels, TypeOK
<1>6. NoMissedWakeup'
  BY <1>1, <1>3, <1>4, Zenon DEF StInv, NoMissedWakeup
<1>7. QED  BY <1>1, <1>2, <1>5, <1>6, StreamsKept, Zenon DEF StInv

\* A reader that wakes up is not parked.
LEMMA WakeStep == ASSUME StInv, NEW c \in Clients, Wake(c) PROVE StInv'
<1>1. /\ pc' = [pc EXCEPT ![c] = "scan"]
      /\ UNCHANGED <<kind, entries, lastID, notify, call, afters, ch, timed, since, done, crashed, nAdd>>
  BY Zenon DEF Wake
<1>2. TypeOK'
  BY <1>1, Zenon DEF StInv, TypeOK
<1>3. pc'[c] = "scan" /\ \A d \in Clients : d # c => pc'[d] = pc[d]
  BY <1>1, Zenon DEF StInv, TypeOK
<1>4. \A d \in Clients : Found(d)' <=> Found(d)
  BY <1>1, Zenon DEF Found, HasNew
<1>5. OldChannels' /\ NoMissedWakeup'
  BY <1>1, <1>3, <1>4, Zenon DEF StInv, OldChannels, NoMissedWakeup
<1>6. QED  BY <1>1, <1>2, <1>5, StreamsKept, Zenon DEF StInv

\* The remaining steps touch neither a stream nor a reader.
LEMMA FlagsStep ==
    ASSUME StInv, UNCHANGED <<entries, lastID, notify, pc, call, afters, ch, timed, since, nAdd>>,
           kind' \in [Keys -> {"none", "string", "stream"}],
           done' \in {"no", "yes"}, crashed' \in {"no", "yes"}
    PROVE  StInv'
<1>1. TypeOK'
  BY Zenon DEF StInv, TypeOK
<1>2. OldChannels' /\ NoMissedWakeup'
  BY Zenon DEF StInv, OldChannels, NoMissedWakeup, Found, HasNew
<1>3. QED  BY <1>1, <1>2, StreamsKept, Zenon DEF StInv

\* Every step preserves the invariant.
LEMMA StInvNext == ASSUME StInv, [Next]_vars PROVE StInv'
<1>0. /\ kind \in [Keys -> {"none", "string", "stream"}]
      /\ done \in {"no", "yes"} /\ crashed \in {"no", "yes"}
  BY Zenon DEF StInv, TypeOK
<1>1. ASSUME NEW k \in Keys, NEW req \in AddRequests, NEW now \in Half, XAdd(k, req, now)
      PROVE  StInv'
  BY <1>1, XAddStep, Zenon
<1>2. ASSUME NEW k \in Keys, Set(k) PROVE StInv'
  BY <1>2, SetStep, Zenon
<1>3. ASSUME NEW k \in Keys, EvictExpired(k) PROVE StInv'
  BY <1>0, <1>3, FlagsStep, Zenon DEF EvictExpired, readVars
<1>4. ASSUME NEW c \in Clients, NEW args \in ReadCalls, XReadBadID(c, args) PROVE StInv'
  BY <1>0, <1>4, FlagsStep, Zenon DEF XReadBadID, readVars
<1>5. ASSUME NEW c \in Clients, NEW args \in ReadCalls, NEW t \in Timeouts,
             XReadBlock(c, args, t)
      PROVE  StInv'
  BY <1>5, XReadBlockStep, Zenon
<1>6. ASSUME NEW c \in Clients, Progress(c) PROVE StInv'
  BY <1>6, ReturnStep, ScanEmptyStep, WakeStep, Zenon DEF Progress, ScanFound, GiveUp
<1>7. CASE Shutdown
  BY <1>0, <1>7, FlagsStep, Zenon DEF Shutdown, readVars
<1>8. CASE UNCHANGED vars
  BY <1>0, <1>8, FlagsStep, Zenon DEF vars
<1>9. QED  BY <1>1, <1>2, <1>3, <1>4, <1>5, <1>6, <1>7, <1>8, Zenon DEF Next

\* It holds of an empty store.
LEMMA StInvInit == Init => StInv
<1> SUFFICES ASSUME Init PROVE StInv
  BY Zenon
<1>1. Zero \in IDs
  BY HalfAssumption DEF IDs, Half, Zero
<1>2. TypeOK
  BY <1>1 DEF Init, TypeOK
<1>3. IdsIncrease /\ OldChannels /\ NoMissedWakeup
  BY DEF Init, IdsIncrease, OldChannels, NoMissedWakeup
<1>4. QED  BY <1>2, <1>3, Zenon DEF StInv

\* The invariant holds in every reachable state.
LEMMA StreamsInductive == Spec => []StInv
BY StInvInit, StInvNext, PTL DEF Spec

\* Type correctness: in particular no ID leaves the width of its halves and no
\* cursor is anything but an ID.
THEOREM StreamsTypeCorrect == Spec => []TypeOK
<1>1. StInv => TypeOK
  BY Zenon DEF StInv
<1>2. QED  BY <1>1, StreamsInductive, PTL

\* Stream IDs increase strictly and are never 0-0, for every width of the ID's
\* halves, every clock and every order of XADD, SET and eviction; in particular
\* a sequence number that wraps is refused.
THEOREM StreamIdsIncrease == Spec => []IdsIncrease
<1>1. StInv => IdsIncrease
  BY Zenon DEF StInv
<1>2. QED  BY <1>1, StreamsInductive, PTL

\* No wake-up is lost: a reader parked on the current notify channel has nothing
\* to read, for any number of readers, streams and writers.
THEOREM NoWakeupIsLost == Spec => []NoMissedWakeup
<1>1. StInv => NoMissedWakeup
  BY Zenon DEF StInv
<1>2. QED  BY <1>1, StreamsInductive, PTL

--------------------------------------------------------------------------------
(* What a read returns *)

\* Every non-empty set of natural numbers has a least member, and it is Min.
LEMMA MinIsLeast ==
    ASSUME NEW T, T \subseteq Nat, T # {}
    PROVE  Min(T) \in T /\ \A n \in T : Min(T) <= n
<1>1. PICK m \in T : \A n \in T : ~ (<<n, m>> \in {s \in Nat \X Nat : s[1] < s[2]})
  BY NatLessThanWellFounded, WFMin, Zenon DEF OpToRel
<1>2. \A n \in T : ~ (n < m)
  BY <1>1, Zenon
<1>3. \A n \in T : m <= n
  BY <1>2
<1>4. QED  BY <1>3, Zenon DEF Min

\* What is above an ID is not below it.
LEMMA LessAsymmetric ==
    ASSUME NEW a \in IDs, NEW b \in IDs, Less(a, b) PROVE ~Less(b, a)
<1>1. a.ms \in Nat /\ a.seq \in Nat /\ b.ms \in Nat /\ b.seq \in Nat
  BY HalfAssumption DEF IDs, Half
<1>2. QED  BY <1>1 DEF Less

\* A sub-sequence is a part, from its first position to its last.
LEMMA SubSeqIsPart ==
    ASSUME NEW S, NEW q \in Seq(S), NEW lo \in 1 .. Len(q) + 1, NEW hi \in Nat,
           lo - 1 <= hi, hi <= Len(q)
    PROVE  IsPart(SubSeq(q, lo, hi), q, lo .. hi)
<1> DEFINE r == SubSeq(q, lo, hi)
<1>1. Len(q) \in Nat /\ lo \in Nat /\ lo >= 1
  OBVIOUS
<1>2. Len(r) = (hi - lo) + 1 /\ DOMAIN r = 1 .. (hi - lo) + 1
  BY <1>1
<1>3. \A j \in 1 .. (hi - lo) + 1 : r[j] = q[(lo + j) - 1]
  BY <1>1
<1> HIDE DEF r
<1>4. lo .. hi = lo .. (lo + Len(r)) - 1
  BY <1>1, <1>2
<1>5. \A j \in DOMAIN r : r[j] = q[(lo + j) - 1]
  BY <1>2, <1>3, Zenon
<1>6. IsPart(r, q, lo .. hi)
  BY <1>4, <1>5, Zenon DEF IsPart
<1>7. QED  BY <1>6, Zenon DEF r

\* A set of positions that holds every position after one of its own is what
\* there is from some position on.
LEMMA Suffix ==
    ASSUME NEW n \in Nat, NEW W, W \subseteq 1 .. n,
           \A i \in W, j \in 1 .. n : i < j => j \in W
    PROVE  LET lo == Min(W \cup {n + 1})
           IN  lo \in 1 .. n + 1 /\ W = lo .. n
<1> DEFINE lo == Min(W \cup {n + 1})
<1>1. W \cup {n + 1} \subseteq Nat /\ W \cup {n + 1} # {}
  OBVIOUS
<1>2. lo \in W \cup {n + 1} /\ \A i \in W \cup {n + 1} : lo <= i
  BY <1>1, MinIsLeast, Zenon
<1> HIDE DEF lo
<1>3. lo \in 1 .. n + 1 /\ (lo \in W \/ lo = n + 1) /\ \A i \in W : lo <= i
  BY <1>2
<1>4. \A i \in 1 .. n : i \in W <=> lo <= i
  BY <1>3
<1>5. \A i \in 1 .. n : i \in lo .. n <=> lo <= i
  BY <1>3
<1>6. lo .. n \subseteq 1 .. n
  BY <1>3
<1>7. W = lo .. n
  BY <1>4, <1>5, <1>6, Zenon
<1>8. QED  BY <1>3, <1>7, Zenon DEF lo

\* Because IDs increase, whatever follows an entry above a bound is above it too,
\* and whatever follows an entry that is not below a bound is not below it.
LEMMA BoundsCut ==
    ASSUME StInv, NEW k \in Keys, NEW a \in IDs,
           NEW i \in DOMAIN entries[k], NEW j \in DOMAIN entries[k], i < j
    PROVE  /\ Less(a, entries[k][i].id) => Less(a, entries[k][j].id)
           /\ ~Less(entries[k][i].id, a) => ~Less(entries[k][j].id, a)
<1>1. entries[k] \in Seq(Entry)
  BY Zenon DEF StInv, TypeOK
<1>2. entries[k][i] \in Entry /\ entries[k][j] \in Entry
  BY <1>1, ElementOfSeq, LenProperties, Zenon
<1>3. PICK x, y : x = entries[k][i].id /\ y = entries[k][j].id
  BY Zenon
<1>4. x \in IDs /\ y \in IDs
  BY <1>2, <1>3, Zenon DEF Entry
<1>5. Less(x, y)
  BY <1>3, Zenon DEF StInv, IdsIncrease
<1>6. ~Less(x, a) => Less(a, y)
  BY <1>4, <1>5, LessTransitive, Zenon
<1>7. Less(a, x) => ~Less(x, a)
  BY <1>4, LessAsymmetric, Zenon
<1>8. Less(a, y) => ~Less(y, a)
  BY <1>4, LessAsymmetric, Zenon
<1>9. QED  BY <1>3, <1>6, <1>7, <1>8, Zenon

\* readAfterLocked returns every entry above its cursor.
LEMMA ReadAfterExact ==
    ASSUME StInv, NEW k \in Keys, NEW a \in IDs
    PROVE  IsPart(ReadAfter(k, a), entries[k],
                  {i \in DOMAIN entries[k] : Less(a, entries[k][i].id)})
<1> DEFINE q == entries[k]
           n == Len(q)
           W == {i \in DOMAIN entries[k] : Less(a, entries[k][i].id)}
<1>1. q \in Seq(Entry)
  BY Zenon DEF StInv, TypeOK
<1>2. n \in Nat /\ DOMAIN q = 1 .. n
  BY <1>1, LenProperties, Zenon
<1>3. W \subseteq 1 .. n
  BY <1>2, Zenon
<1>4. \A i \in W, j \in 1 .. n : i < j => j \in W
  BY <1>2, BoundsCut, Zenon
<1>5. ReadAfter(k, a) = IF W = {} THEN <<>> ELSE SubSeq(q, Min(W), n)
  BY Zenon DEF ReadAfter
<1> HIDE DEF W
<1>6. CASE W = {}
  <2>1. W = 1 .. (1 + Len(<<>>)) - 1 /\ DOMAIN <<>> = {}
    BY <1>6
  <2>2. 1 \in 1 .. n + 1
    BY <1>2
  <2>3. IsPart(<<>>, q, W)
    BY <2>1, <2>2, Zenon DEF IsPart
  <2>4. QED  BY <1>5, <1>6, <2>3, Zenon DEF W
<1>7. CASE W # {}
  <2>1. W \subseteq Nat
    BY <1>2, <1>3
  <2>2. Min(W) \in W /\ \A i \in W : Min(W) <= i
    BY <1>7, <2>1, MinIsLeast, Zenon
  <2>3. PICK lo : lo = Min(W)
    BY Zenon
  <2>4. lo \in 1 .. n /\ \A i \in W : lo <= i
    BY <1>3, <2>2, <2>3, Zenon
  <2>5. \A i \in 1 .. n : i \in W <=> i \in lo .. n
    BY <1>2, <1>4, <2>2, <2>3, <2>4
  <2>6. W = lo .. n
    <3>1. lo .. n \subseteq 1 .. n
      BY <1>2, <2>4
    <3>2. QED  BY <1>3, <2>5, <3>1, Zenon
  <2>7. lo \in 1 .. n + 1 /\ lo - 1 <= n /\ n <= n
    BY <1>2, <2>4
  <2>8. IsPart(SubSeq(q, lo, n), q, lo .. n)
    BY <1>1, <1>2, <2>7, SubSeqIsPart, Zenon
  <2>9. QED  BY <1>5, <1>7, <2>3, <2>6, <2>8, Zenon DEF W
<1>8. QED  BY <1>6, <1>7, Zenon

\* Filter returns every entry within its bounds, whatever the bounds.
LEMMA FilterExact ==
    ASSUME StInv, NEW k \in Keys, NEW a \in IDs, NEW b \in IDs
    PROVE  IsPart(Filter(k, a, b), entries[k],
                  {i \in DOMAIN entries[k] : /\ ~Less(entries[k][i].id, a)
                                            /\ ~Less(b, entries[k][i].id)})
<1> DEFINE q == entries[k]
           n == Len(q)
           A == {i \in DOMAIN entries[k] : ~Less(entries[k][i].id, a)}
           lo == Min(A \cup {n + 1})
           B == {i \in lo .. n : Less(b, entries[k][i].id)}
           hi == Min(B \cup {n + 1})
           W == {i \in DOMAIN entries[k] : /\ ~Less(entries[k][i].id, a)
                                          /\ ~Less(b, entries[k][i].id)}
<1>1. q \in Seq(Entry)
  BY Zenon DEF StInv, TypeOK
<1>2. n \in Nat /\ DOMAIN q = 1 .. n
  BY <1>1, LenProperties, Zenon
<1>3. Filter(k, a, b) = SubSeq(q, lo, hi - 1)
  BY Zenon DEF Filter
<1>4. A \subseteq 1 .. n
  BY <1>2, Zenon
<1>5. \A i \in A, j \in 1 .. n : i < j => j \in A
  BY <1>2, BoundsCut, Zenon
<1>6. lo \in 1 .. n + 1 /\ A = lo .. n
  BY <1>2, <1>4, <1>5, Suffix, Zenon
<1>7. \A i \in lo .. n : i \in DOMAIN q
  BY <1>2, <1>6, Zenon
<1>8. B \subseteq 1 .. n
  BY <1>2, <1>7, Zenon
<1>9. \A i \in B, j \in 1 .. n : i < j => j \in B
  <2>1. TAKE i \in B, j \in 1 .. n
  <2>2. HAVE i < j
  <2>3. i \in lo .. n /\ i \in DOMAIN q /\ j \in DOMAIN q /\ Less(b, entries[k][i].id)
    BY <1>2, <1>7, Zenon
  <2>4. Less(b, entries[k][j].id)
    BY <2>2, <2>3, BoundsCut, Zenon
  <2> HIDE DEF lo
  <2>5. j \in lo .. n
    BY <1>2, <1>6, <2>2, <2>3
  <2>6. QED  BY <2>4, <2>5, Zenon
<1>10. hi \in 1 .. n + 1 /\ B = hi .. n
  BY <1>2, <1>8, <1>9, Suffix, Zenon
<1>11. W = A \ B
  BY <1>6, Zenon
<1>12. B \subseteq lo .. n
  BY Zenon
<1> HIDE DEF A, B, lo, hi, W
<1>13. lo <= hi
  BY <1>2, <1>6, <1>10, <1>12
<1>14. W = lo .. hi - 1
  BY <1>2, <1>6, <1>10, <1>11, <1>13
<1>15. hi - 1 \in Nat /\ lo - 1 <= hi - 1 /\ hi - 1 <= n
  BY <1>2, <1>6, <1>10, <1>13
<1>16. IsPart(SubSeq(q, lo, hi - 1), q, lo .. hi - 1)
  BY <1>1, <1>6, <1>15, SubSeqIsPart, Zenon
<1>17. QED  BY <1>3, <1>14, <1>16, Zenon DEF W

\* XREAD returns every entry above the cursor and XRANGE every entry within the
\* bounds, in order, although both loops stop at the first entry beyond: for
\* streams of any length and IDs of any width.
THEOREM ReadsReturnExactly == Spec => []ReadsAreExact
<1>1. StInv => ReadsAreExact
  BY ReadAfterExact, FilterExact, Zenon DEF ReadsAreExact
<1>2. QED  BY <1>1, StreamsInductive, PTL

--------------------------------------------------------------------------------
(* What "$" stands for *)

\* XADDs are numbered in their order.
NumbersInv ==
    /\ \A k \in Keys : \A j \in DOMAIN entries[k] : entries[k][j].n <= nAdd
    /\ \A c \in Clients : since[c] <= nAdd

\* In a stream q with LastID last, the cursor a separates the entries that the
\* first n XADDs made from the later ones, and will go on doing so: it is not
\* above last.
Separates(last, q, a, n) ==
    /\ ~Less(last, a)
    /\ \A j \in DOMAIN q : Less(a, q[j].id) <=> q[j].n > n

\* From the moment a call is made until it returns, whether it scans or is parked,
\* each "$" is resolved to a cursor that separates what was there from what came
\* after.
CursorInv ==
    \A c \in Clients : pc[c] # "idle" =>
        /\ DOMAIN afters[c] = DOMAIN call[c]
        /\ \A i \in DOMAIN call[c] :
              call[c][i].from.tag = "$" /\ call[c][i].key \notin SetKeys =>
                  Separates(lastID[call[c][i].key], entries[call[c][i].key],
                            afters[c][i], since[c])

DollarInv == StInv /\ NumbersInv /\ CursorInv

\* The argument at any place of a call names a key, and its cursor is an ID.
LEMMA CallTypes ==
    ASSUME TypeOK, NEW c \in Clients, DOMAIN afters[c] = DOMAIN call[c],
           NEW i \in DOMAIN call[c]
    PROVE  call[c][i].key \in Keys /\ afters[c][i] \in IDs
<1>1. call[c] \in Seq([key : Keys, from : Starts]) /\ afters[c] \in Seq(IDs)
  BY Zenon DEF TypeOK
<1>2. call[c][i] \in [key : Keys, from : Starts]
  BY <1>1, ElementOfSeq, LenProperties, Zenon
<1>3. afters[c][i] \in IDs
  BY <1>1, ElementOfSeq, LenProperties, Zenon
<1>4. QED  BY <1>2, <1>3, Zenon

\* An entry that XADD appends is beyond every cursor taken before.
LEMMA SeparatesAppend ==
    ASSUME NEW last \in IDs, NEW new \in IDs, NEW a \in IDs, NEW q \in Seq(Entry),
           NEW n \in Nat, NEW e \in Entry, e.id = new, e.n > n, Less(last, new),
           Separates(last, q, a, n)
    PROVE  Separates(new, Append(q, e), a, n)
<1>1. ~Less(new, last)
  BY LessAsymmetric, Zenon
<1>2. ~Less(new, a)
  BY <1>1, LessTransitive, Zenon DEF Separates
<1>3. Less(a, new)
  BY LessTransitive, Zenon DEF Separates
<1>4. \A j \in DOMAIN q : Less(a, q[j].id) <=> q[j].n > n
  BY Zenon DEF Separates
<1>5. /\ DOMAIN q = 1 .. Len(q) /\ Len(q) \in Nat /\ DOMAIN Append(q, e) = 1 .. Len(q) + 1
      /\ \A j \in 1 .. Len(q) : Append(q, e)[j] = q[j]
      /\ Append(q, e)[Len(q) + 1] = e
  OBVIOUS
<1>6. \A j \in 1 .. Len(q) + 1 : j \in 1 .. Len(q) \/ j = Len(q) + 1
  BY <1>5
<1>7. \A j \in DOMAIN Append(q, e) : Less(a, Append(q, e)[j].id) <=> Append(q, e)[j].n > n
  BY <1>3, <1>4, <1>5, <1>6, Zenon
<1>8. QED  BY <1>2, <1>7, Zenon DEF Separates

\* XADD makes an entry with a new number beyond every resolved "$".
LEMMA XAddDollar ==
    ASSUME DollarInv, NEW k \in Keys, NEW req \in AddRequests, NEW now \in Half,
           XAdd(k, req, now)
    PROVE  NumbersInv' /\ CursorInv'
<1>0. PICK new : new = Candidate(req, lastID[k], now)
  BY Zenon
<1>1. /\ entries' = [entries EXCEPT ![k] = Append(entries[k], [id |-> new, n |-> nAdd + 1])]
      /\ lastID' = [lastID EXCEPT ![k] = new] /\ nAdd' = nAdd + 1
      /\ IsValidStreamId(lastID[k], new)
      /\ pc' = pc /\ call' = call /\ afters' = afters /\ since' = since
  BY <1>0, Zenon DEF XAdd, readVars
<1>2. TypeOK
  BY Zenon DEF DollarInv, StInv
<1>3. /\ lastID[k] \in IDs /\ entries[k] \in Seq(Entry) /\ nAdd \in Nat
      /\ \A c \in Clients : since[c] \in Nat
  BY <1>2, Zenon DEF TypeOK
<1>4. new \in IDs
  BY <1>0, <1>3, CandidateType, RequestsAssumption, Zenon
<1>5. Less(lastID[k], new)
  BY <1>1, <1>3, <1>4, ValidIsAbove, Zenon
<1>6. PICK e : e = [id |-> new, n |-> nAdd + 1]
  BY Zenon
<1>7. e \in Entry /\ e.id = new /\ e.n = nAdd + 1
  BY <1>3, <1>4, <1>6 DEF Entry
<1>8. /\ entries'[k] = Append(entries[k], e) /\ lastID'[k] = new
      /\ \A l \in Keys : l # k => entries'[l] = entries[l] /\ lastID'[l] = lastID[l]
  BY <1>1, <1>2, <1>6, Zenon DEF TypeOK
<1>9. \A c \in Clients : since[c] <= nAdd /\ since[c] <= nAdd + 1 /\ nAdd + 1 > since[c]
  BY <1>3 DEF DollarInv, NumbersInv
<1>10. NumbersInv'
  <2>1. ASSUME NEW l \in Keys, NEW j \in DOMAIN entries[l]
        PROVE  entries[l][j].n <= nAdd + 1
    <3>1. entries[l] \in Seq(Entry)
      BY <1>2, Zenon DEF TypeOK
    <3>2. entries[l][j] \in Entry
      BY <3>1, ElementOfSeq, LenProperties, Zenon
    <3>3. entries[l][j].n \in Nat /\ entries[l][j].n <= nAdd
      BY <3>2, Zenon DEF DollarInv, NumbersInv, Entry
    <3>4. QED  BY <1>3, <3>3
  <2>2. \A j \in DOMAIN Append(entries[k], e) :
           \/ j \in DOMAIN entries[k] /\ Append(entries[k], e)[j] = entries[k][j]
           \/ Append(entries[k], e)[j] = e
    BY <1>3, <1>7
  <2>3. nAdd + 1 <= nAdd + 1
    BY <1>3
  <2>4. ASSUME NEW l \in Keys, NEW j \in DOMAIN entries'[l]
        PROVE  entries'[l][j].n <= nAdd + 1
    BY <1>7, <1>8, <2>1, <2>2, <2>3, <2>4, Zenon
  <2>5. QED  BY <1>1, <1>9, <2>4, Zenon DEF NumbersInv
<1>11. ASSUME NEW c \in Clients, pc[c] # "idle", NEW i \in DOMAIN call[c],
              call[c][i].from.tag = "$", call[c][i].key \notin SetKeys
       PROVE  Separates(lastID'[call[c][i].key], entries'[call[c][i].key], afters[c][i], since[c])
  <2>1. PICK l, a : l = call[c][i].key /\ a = afters[c][i]
    BY Zenon
  <2>2. Separates(lastID[l], entries[l], a, since[c]) /\ l \in Keys /\ a \in IDs
    BY <1>2, <1>11, <2>1, CallTypes, Zenon DEF DollarInv, CursorInv
  <2>3. CASE l = k
    <3>1. e.n > since[c]
      BY <1>7, <1>9, Zenon
    <3>2. Separates(new, Append(entries[k], e), a, since[c])
      BY <1>3, <1>4, <1>5, <1>7, <2>2, <2>3, <3>1, SeparatesAppend, Zenon
    <3>3. QED  BY <1>8, <2>1, <2>3, <3>2, Zenon
  <2>4. CASE l # k
    BY <1>8, <2>1, <2>2, <2>4, Zenon
  <2>5. QED  BY <2>3, <2>4, Zenon
<1>12. CursorInv'
  BY <1>1, <1>11, Zenon DEF DollarInv, CursorInv
<1>13. QED  BY <1>10, <1>12, Zenon

\* SET takes entries away, and only from a stream whose "$" the property leaves out.
LEMMA SetDollar ==
    ASSUME DollarInv, NEW k \in Keys, Set(k) PROVE NumbersInv' /\ CursorInv'
<1>1. /\ k \in SetKeys /\ entries' = [entries EXCEPT ![k] = <<>>]
      /\ lastID' = [lastID EXCEPT ![k] = Zero] /\ nAdd' = nAdd
      /\ pc' = pc /\ call' = call /\ afters' = afters /\ since' = since
  BY Zenon DEF Set, readVars
<1>2. TypeOK
  BY Zenon DEF DollarInv, StInv
<1>3. /\ entries'[k] = <<>>
      /\ \A l \in Keys : l # k => entries'[l] = entries[l] /\ lastID'[l] = lastID[l]
  BY <1>1, <1>2, Zenon DEF TypeOK
<1>4. \A j \in DOMAIN <<>> : FALSE
  OBVIOUS
<1>5. NumbersInv'
  BY <1>1, <1>3, <1>4, Zenon DEF DollarInv, NumbersInv
<1>6. ASSUME NEW c \in Clients, pc[c] # "idle", NEW i \in DOMAIN call[c],
             call[c][i].from.tag = "$", call[c][i].key \notin SetKeys
      PROVE  Separates(lastID'[call[c][i].key], entries'[call[c][i].key], afters[c][i], since[c])
  BY <1>1, <1>2, <1>3, <1>6, CallTypes, Zenon DEF DollarInv, CursorInv
<1>7. CursorInv'
  BY <1>1, <1>6, Zenon DEF DollarInv, CursorInv
<1>8. QED  BY <1>5, <1>7, Zenon

\* The LastID of a stream separates what it holds from what will be added.
LEMMA SeparatesNow ==
    ASSUME DollarInv, NEW k \in Keys
    PROVE  Separates(lastID[k], entries[k], lastID[k], nAdd)
<1>1. lastID[k] \in IDs /\ entries[k] \in Seq(Entry) /\ nAdd \in Nat
  BY Zenon DEF DollarInv, StInv, TypeOK
<1>2. ~Less(lastID[k], lastID[k])
  BY <1>1, ZeroIsLeast, Zenon
<1>3. ASSUME NEW j \in DOMAIN entries[k]
      PROVE  ~Less(lastID[k], entries[k][j].id) /\ ~ (entries[k][j].n > nAdd)
  <2>1. entries[k][j] \in Entry
    BY <1>1, ElementOfSeq, LenProperties, Zenon
  <2>2. entries[k][j].n \in Nat
    BY <2>1, Zenon DEF Entry
  <2>3. entries[k][j].n <= nAdd
    BY Zenon DEF DollarInv, NumbersInv
  <2>4. ~ (entries[k][j].n > nAdd)
    BY <1>1, <2>2, <2>3
  <2>5. QED  BY <2>4, Zenon DEF DollarInv, StInv, IdsIncrease
<1>4. QED  BY <1>2, <1>3, Zenon DEF Separates

\* A call that begins resolves each "$" to the LastID of its stream.
LEMMA XReadBlockDollar ==
    ASSUME DollarInv, NEW c \in Clients, NEW args \in ReadCalls, NEW t \in Timeouts,
           XReadBlock(c, args, t)
    PROVE  NumbersInv' /\ CursorInv'
<1>1. /\ pc' = [pc EXCEPT ![c] = "scan"] /\ call' = [call EXCEPT ![c] = args]
      /\ afters' = [afters EXCEPT ![c] = [i \in DOMAIN args |-> Cursor(args[i])]]
      /\ since' = [since EXCEPT ![c] = nAdd]
      /\ entries' = entries /\ lastID' = lastID /\ nAdd' = nAdd
  BY Zenon DEF XReadBlock
<1>2. TypeOK
  BY Zenon DEF DollarInv, StInv
<1>3. args \in Seq([key : Keys, from : Starts]) /\ nAdd \in Nat
  BY <1>2, CallsAssumption, Zenon DEF TypeOK
<1>4. /\ call'[c] = args /\ since'[c] = nAdd
      /\ afters'[c] = [i \in DOMAIN args |-> Cursor(args[i])]
      /\ \A d \in Clients : d # c => /\ pc'[d] = pc[d] /\ call'[d] = call[d]
                                    /\ afters'[d] = afters[d] /\ since'[d] = since[d]
  BY <1>1, <1>2, Zenon DEF TypeOK
<1>5. nAdd <= nAdd
  BY <1>3
<1>6. NumbersInv'
  BY <1>1, <1>4, <1>5, Zenon DEF DollarInv, NumbersInv
<1>7. ASSUME NEW i \in DOMAIN args, args[i].from.tag = "$"
      PROVE  Separates(lastID[args[i].key], entries[args[i].key], Cursor(args[i]), nAdd)
  <2>1. args[i] \in [key : Keys, from : Starts]
    BY <1>3, ElementOfSeq, LenProperties, Zenon
  <2>2. args[i].key \in Keys
    BY <2>1, Zenon
  <2>3. Cursor(args[i]) = lastID[args[i].key]
    BY <1>7, Zenon DEF Cursor
  <2>4. QED  BY <2>2, <2>3, SeparatesNow, Zenon
<1>8. /\ DOMAIN afters'[c] = DOMAIN call'[c]
      /\ \A i \in DOMAIN call'[c] : call'[c][i].from.tag = "$" =>
            Separates(lastID'[call'[c][i].key], entries'[call'[c][i].key], afters'[c][i], since'[c])
  <2>1. DOMAIN afters'[c] = DOMAIN args
    BY <1>4, Zenon
  <2>2. \A i \in DOMAIN args : afters'[c][i] = Cursor(args[i])
    BY <1>4, Zenon
  <2>3. ASSUME NEW i \in DOMAIN args, args[i].from.tag = "$"
        PROVE  Separates(lastID'[args[i].key], entries'[args[i].key], afters'[c][i], nAdd)
    <3>1. Separates(lastID[args[i].key], entries[args[i].key], afters'[c][i], nAdd)
      BY <1>7, <2>2, <2>3, Zenon
    <3>2. QED  BY <1>1, <3>1, Zenon
  <2>4. QED  BY <1>4, <2>1, <2>3, Zenon
<1>9. ASSUME NEW d \in Clients, d # c, pc'[d] # "idle"
      PROVE  /\ DOMAIN afters'[d] = DOMAIN call'[d]
             /\ \A i \in DOMAIN call'[d] :
                   call'[d][i].from.tag = "$" /\ call'[d][i].key \notin SetKeys =>
                       Separates(lastID'[call'[d][i].key], entries'[call'[d][i].key],
                                 afters'[d][i], since'[d])
  BY <1>1, <1>4, <1>9, Zenon DEF DollarInv, CursorInv
<1>10. ASSUME NEW d \in Clients, pc'[d] # "idle"
       PROVE  /\ DOMAIN afters'[d] = DOMAIN call'[d]
              /\ \A i \in DOMAIN call'[d] :
                    call'[d][i].from.tag = "$" /\ call'[d][i].key \notin SetKeys =>
                        Separates(lastID'[call'[d][i].key], entries'[call'[d][i].key],
                                  afters'[d][i], since'[d])
  <2>1. CASE d = c
    BY <1>8, <2>1, Zenon
  <2>2. CASE d # c
    BY <1>9, <1>10, <2>2, Zenon
  <2>3. QED  BY <2>1, <2>2, Zenon
<1>11. CursorInv'
  BY <1>10, Zenon DEF CursorInv
<1>12. QED  BY <1>6, <1>11, Zenon

\* A call that returns leaves the other cursors alone.
LEMMA ReturnDollar ==
    ASSUME DollarInv, NEW c \in Clients, Return(c) PROVE NumbersInv' /\ CursorInv'
<1>1. /\ pc' = [pc EXCEPT ![c] = "idle"] /\ call' = [call EXCEPT ![c] = <<>>]
      /\ afters' = [afters EXCEPT ![c] = <<>>] /\ since' = [since EXCEPT ![c] = 0]
      /\ entries' = entries /\ lastID' = lastID /\ nAdd' = nAdd
  BY Zenon DEF Return
<1>2. TypeOK
  BY Zenon DEF DollarInv, StInv
<1>3. /\ pc'[c] = "idle" /\ since'[c] = 0
      /\ \A d \in Clients : d # c => /\ pc'[d] = pc[d] /\ call'[d] = call[d]
                                    /\ afters'[d] = afters[d] /\ since'[d] = since[d]
  BY <1>1, <1>2, Zenon DEF TypeOK
<1>4. 0 <= nAdd
  BY <1>2 DEF TypeOK
<1>5. NumbersInv'
  BY <1>1, <1>3, <1>4, Zenon DEF DollarInv, NumbersInv
<1>6. CursorInv'
  BY <1>1, <1>3, Zenon DEF DollarInv, CursorInv
<1>7. QED  BY <1>5, <1>6, Zenon

\* A step that changes neither a stream nor a call, and starts none, keeps the
\* cursors where they are.
LEMMA CallsKept ==
    ASSUME DollarInv, entries' = entries, lastID' = lastID, nAdd' = nAdd, call' = call,
           afters' = afters, since' = since,
           \A c \in Clients : pc[c] = "idle" => pc'[c] = "idle"
    PROVE  NumbersInv' /\ CursorInv'
BY Zenon DEF DollarInv, NumbersInv, CursorInv

\* Every step preserves the invariant.
LEMMA DollarNext == ASSUME DollarInv, [Next]_vars PROVE DollarInv'
<1>1. StInv'
  BY StInvNext, Zenon DEF DollarInv
<1>2. pc \in [Clients -> {"idle", "scan", "select"}]
  BY Zenon DEF DollarInv, StInv, TypeOK
<1>3. ASSUME NEW k \in Keys, EvictExpired(k) PROVE NumbersInv' /\ CursorInv'
  BY <1>3, CallsKept, Zenon DEF EvictExpired, readVars
<1>4. ASSUME NEW c \in Clients, NEW args \in ReadCalls, XReadBadID(c, args)
      PROVE  NumbersInv' /\ CursorInv'
  BY <1>4, CallsKept, Zenon DEF XReadBadID, readVars
<1>5. ASSUME NEW c \in Clients, ScanEmpty(c) \/ Wake(c) PROVE NumbersInv' /\ CursorInv'
  <2>1. \A d \in Clients : pc[d] = "idle" => pc'[d] = "idle"
    BY <1>2, <1>5, Zenon DEF ScanEmpty, Wake
  <2>2. QED  BY <1>5, <2>1, CallsKept, Zenon DEF ScanEmpty, Wake
<1>6. ASSUME NEW c \in Clients, Progress(c) PROVE NumbersInv' /\ CursorInv'
  BY <1>5, <1>6, ReturnDollar, Zenon DEF Progress, ScanFound, GiveUp
<1>7. ASSUME Shutdown PROVE NumbersInv' /\ CursorInv'
  BY <1>7, CallsKept, Zenon DEF Shutdown, readVars
<1>8. ASSUME UNCHANGED vars PROVE NumbersInv' /\ CursorInv'
  BY <1>8, CallsKept, Zenon DEF vars
<1>9. NumbersInv' /\ CursorInv'
  BY XAddDollar, SetDollar, XReadBlockDollar, <1>3, <1>4, <1>6, <1>7, <1>8, Zenon DEF Next
<1>10. QED  BY <1>1, <1>9, Zenon DEF DollarInv

\* "$" means "from now on": when a blocked call has something to return, each
\* stream it reads from "$" yields exactly the entries added since the call began,
\* however often it was parked and woken meanwhile, for any number of streams,
\* readers and writers (streams that SET replaces excepted).
THEOREM DollarMeansFromNowOn == Spec => []DollarIsNow
<1>1. Init => DollarInv
  <2> SUFFICES ASSUME Init PROVE DollarInv
    BY Zenon
  <2>1. StInv
    BY StInvInit, Zenon
  <2>2. NumbersInv /\ CursorInv
    BY DEF Init, NumbersInv, CursorInv
  <2>3. QED  BY <2>1, <2>2, Zenon DEF DollarInv
<1>2. DollarInv => DollarIsNow
  <2> SUFFICES ASSUME DollarInv, NEW c \in Clients, pc[c] = "scan", NEW i \in DOMAIN call[c],
                      call[c][i].from.tag = "$", call[c][i].key \notin SetKeys
               PROVE  IsPart(ReadAfter(call[c][i].key, afters[c][i]), entries[call[c][i].key],
                             {j \in DOMAIN entries[call[c][i].key] :
                                 entries[call[c][i].key][j].n > since[c]})
    BY Zenon DEF DollarIsNow
  <2>1. PICK k, a : k = call[c][i].key /\ a = afters[c][i]
    BY Zenon
  <2>2. pc[c] # "idle"
    BY Zenon
  <2>3. k \in Keys /\ a \in IDs /\ Separates(lastID[k], entries[k], a, since[c])
    BY <2>1, <2>2, CallTypes, Zenon DEF DollarInv, CursorInv, StInv
  <2>4. {j \in DOMAIN entries[k] : Less(a, entries[k][j].id)}
           = {j \in DOMAIN entries[k] : entries[k][j].n > since[c]}
    BY <2>3, Zenon DEF Separates
  <2>5. IsPart(ReadAfter(k, a), entries[k], {j \in DOMAIN entries[k] : Less(a, entries[k][j].id)})
    BY <2>3, ReadAfterExact, Zenon DEF DollarInv
  <2>6. QED  BY <2>1, <2>4, <2>5, Zenon
<1>3. QED  BY <1>1, <1>2, DollarNext, PTL DEF Spec

================================================================================
