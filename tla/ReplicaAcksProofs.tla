--------------------------- MODULE ReplicaAcksProofs ---------------------------
(***************************************************************************)
(* For any number of followers and callers and any sizes of the commands:  *)
(* the offsets of leader and follower never drift apart, and WAIT counts   *)
(* no follower that is behind its target.                                  *)
(***************************************************************************)
EXTENDS ReplicaAcks, FiniteSetTheorems, TLAPS

Items == {"write", "getack"}

--------------------------------------------------------------------------------
(* Counting the items of a stream *)

Count(s, x) == Cardinality({i \in DOMAIN s : s[i] = x})

\* An empty stream has no items.
LEMMA CountEmpty == ASSUME NEW x PROVE Count(<<>>, x) = 0
<1>1. {i \in DOMAIN <<>> : <<>>[i] = x} = {}
  OBVIOUS
<1>2. QED  BY <1>1, FS_EmptySet, Zenon DEF Count

\* The places of an item are finitely many.
LEMMA CountType ==
    ASSUME NEW s \in Seq(Items), NEW x
    PROVE  IsFiniteSet({i \in DOMAIN s : s[i] = x}) /\ Count(s, x) \in Nat
<1>1. DOMAIN s = 1 .. Len(s) /\ Len(s) \in Nat
  OBVIOUS
<1>2. IsFiniteSet(1 .. Len(s))
  BY <1>1, FS_Interval
<1>3. {i \in DOMAIN s : s[i] = x} \in SUBSET (1 .. Len(s))
  BY <1>1, Zenon
<1>4. IsFiniteSet({i \in DOMAIN s : s[i] = x})
  BY <1>2, <1>3, FS_Subset, Zenon
<1>5. QED  BY <1>4, FS_CardinalityType, Zenon DEF Count

\* An appended item counts once.
LEMMA CountAppend ==
    ASSUME NEW s \in Seq(Items), NEW y \in Items, NEW x
    PROVE  Count(Append(s, y), x) = Count(s, x) + (IF y = x THEN 1 ELSE 0)
<1> DEFINE S == {i \in DOMAIN s : s[i] = x}
           T == {i \in DOMAIN Append(s, y) : Append(s, y)[i] = x}
           n == Len(s)
<1>1. /\ n \in Nat /\ DOMAIN s = 1 .. n /\ DOMAIN Append(s, y) = 1 .. n + 1
      /\ \A i \in 1 .. n : Append(s, y)[i] = s[i]
      /\ Append(s, y)[n + 1] = y
  OBVIOUS
<1>2. n + 1 \notin S /\ T = IF y = x THEN S \cup {n + 1} ELSE S
  BY <1>1
<1>3. IsFiniteSet(S) /\ Cardinality(S) \in Nat
  BY CountType, Zenon DEF Count
<1>4. Count(s, x) = Cardinality(S) /\ Count(Append(s, y), x) = Cardinality(T)
  BY Zenon DEF Count
<1> HIDE DEF S, T
<1>5. CASE y = x
  <2>1. Cardinality(S \cup {n + 1}) = Cardinality(S) + 1
    BY <1>2, <1>3, FS_AddElement, Zenon
  <2>2. QED  BY <1>2, <1>4, <1>5, <2>1, Zenon
<1>6. CASE y # x
  BY <1>2, <1>3, <1>4, <1>6
<1>7. QED  BY <1>5, <1>6, Zenon

\* What is taken from the front counts no more.
LEMMA CountTail ==
    ASSUME NEW s \in Seq(Items), s # <<>>, NEW x
    PROVE  Count(s, x) = Count(Tail(s), x) + (IF Head(s) = x THEN 1 ELSE 0)
<1> DEFINE t == Tail(s)
           n == Len(s)
           S == {i \in DOMAIN s : s[i] = x}
           T == {i \in DOMAIN t : t[i] = x}
           U == S \ {1}
           f == [i \in T |-> i + 1]
<1>1. /\ n \in Nat \ {0} /\ DOMAIN s = 1 .. n /\ t \in Seq(Items) /\ DOMAIN t = 1 .. n - 1
      /\ \A i \in 1 .. n - 1 : t[i] = s[i + 1]
      /\ Head(s) = s[1]
  OBVIOUS
<1>2. IsFiniteSet(S) /\ IsFiniteSet(T) /\ Cardinality(S) \in Nat /\ Cardinality(T) \in Nat
  BY <1>1, CountType, Zenon DEF Count
<1>3. f \in Bijection(T, U)
  <2>1. f \in [T -> U]
    BY <1>1
  <2>2. \A i, j \in T : f[i] = f[j] => i = j
    BY <1>1
  <2>3. \A u \in U : u - 1 \in T /\ f[u - 1] = u
    BY <1>1
  <2>4. QED  BY <2>1, <2>2, <2>3, Zenon DEF Bijection, Injection, Surjection, IsInjective
<1>4. Count(s, x) = Cardinality(S) /\ Count(t, x) = Cardinality(T)
  BY Zenon DEF Count
<1>5. 1 \in S <=> Head(s) = x
  BY <1>1
<1> HIDE DEF S, T, f
<1>6. Cardinality(U) = Cardinality(T)
  BY <1>2, <1>3, FS_Bijection, Zenon DEF ExistsBijection
<1>7. Cardinality(U) = IF 1 \in S THEN Cardinality(S) - 1 ELSE Cardinality(S)
  BY <1>2, FS_RemoveElement, Zenon
<1>8. QED  BY <1>2, <1>4, <1>5, <1>6, <1>7

--------------------------------------------------------------------------------
(* The inductive invariant *)

\* A follower that is not registered has been sent nothing.  What a registered one
\* has applied and what is on the way to it add up to the leader's offset.
LinkInv ==
    \A r \in Replicas :
        /\ r \in members => link[r] # "handshake"
        /\ r \notin members /\ link[r] # "dead" =>
              stream[r] = <<>> /\ roff[r] = 0 /\ joined[r] = 0
        /\ r \in members /\ link[r] = "loop" => Position(r) + InFlight(r) = offset

\* No ACK, recorded or in flight, is ahead of the follower that sent it.
AckInv ==
    \A r \in Replicas :
        /\ acc[r] <= roff[r]
        /\ \A i \in DOMAIN acks[r] : acks[r][i] <= roff[r]

\* The followers that have applied everything up to offset t.
Past(t) == {r \in Replicas : Position(r) >= t}

\* The count of a caller's last look is still covered: followers do not go back.
CountInv ==
    \A c \in Clients : pc[c] = "select" => count[c] <= Cardinality(Past(target[c]))

IInv == TypeOK /\ LinkInv /\ AckInv /\ CountInv

\* Sets of followers are finite, and larger sets have larger counts.
LEMMA CountOfReplicas ==
    ASSUME NEW S, NEW T, S \subseteq T, T \subseteq Replicas
    PROVE  Cardinality(S) \in Nat /\ Cardinality(T) \in Nat /\ Cardinality(S) <= Cardinality(T)
<1>1. IsFiniteSet(T) /\ S \in SUBSET T
  BY FiniteAssumption, FS_Subset, Zenon
<1>2. QED  BY <1>1, FS_Subset, FS_CardinalityType, Zenon

\* What the count of a caller's last look says stays true as long as the caller stays
\* and no follower goes back.
LEMMA CountKept ==
    ASSUME CountInv, TypeOK, TypeOK', UNCHANGED <<target, count>>,
           \A c \in Clients : pc'[c] = "select" => pc[c] = "select",
           \A r \in Replicas : Position(r) <= Position(r)'
    PROVE  CountInv'
<1> SUFFICES ASSUME NEW c \in Clients, pc'[c] = "select"
             PROVE  count[c] <= Cardinality(Past(target[c])')
  BY Zenon DEF CountInv, Past
<1>1. count[c] \in Nat /\ count[c] <= Cardinality(Past(target[c]))
  BY Zenon DEF CountInv, TypeOK
<1>2. Past(target[c]) \subseteq Past(target[c])'
  <2>1. target'[c] = target[c] /\ target[c] \in Nat
    BY Zenon DEF TypeOK
  <2>2. \A r \in Replicas : joined[r] \in Nat /\ roff[r] \in Nat
                             /\ joined'[r] \in Nat /\ roff'[r] \in Nat
    BY Zenon DEF TypeOK
  <2>3. \A r \in Replicas : Position(r) >= target[c] => Position(r)' >= target'[c]
    BY <2>1, <2>2 DEF Position
  <2>4. QED  BY <2>3, Zenon DEF Past
<1>3. Past(target[c])' \subseteq Replicas
  BY Zenon DEF Past
<1> DEFINE P == Past(target[c])
           Q == Past(target[c])'
<1> HIDE DEF P, Q
<1>4. P \subseteq Q /\ Q \subseteq Replicas
  BY <1>2, <1>3, Zenon DEF P, Q
<1>5. Cardinality(P) \in Nat /\ Cardinality(Q) \in Nat /\ Cardinality(P) <= Cardinality(Q)
  BY <1>4, CountOfReplicas, Zenon
<1>6. count[c] <= Cardinality(Q)
  BY <1>1, <1>5 DEF P
<1>7. QED  BY <1>6, Zenon DEF Q

\* The bytes in flight to r, in terms of its stream.
LEMMA InFlightCounts ==
    ASSUME NEW r PROVE InFlight(r) = WriteSize * Count(stream[r], "write")
                                     + GetAckSize * Count(stream[r], "getack")
BY Zenon DEF InFlight, Sent, Count

\* One more item on a stream is as many bytes more in flight as it has, and one item
\* less as many less.
LEMMA BytesOf ==
    ASSUME NEW s \in Seq(Items), NEW t \in Seq(Items), NEW item \in Items,
           \A x \in Items : Count(t, x) = Count(s, x) + (IF item = x THEN 1 ELSE 0)
    PROVE  /\ WriteSize * Count(t, "write") + GetAckSize * Count(t, "getack")
                 = WriteSize * Count(s, "write") + GetAckSize * Count(s, "getack") + Size(item)
           /\ WriteSize * Count(s, "write") + GetAckSize * Count(s, "getack") \in Nat
           /\ Size(item) \in Nat \ {0}
<1> DEFINE a == Count(s, "write")
           b == Count(s, "getack")
<1>1. a \in Nat /\ b \in Nat
  BY CountType, Zenon
<1>2. WriteSize \in Nat \ {0} /\ GetAckSize \in Nat \ {0}
  BY SizesAssumption, Zenon
<1>3. "write" \in Items /\ "getack" \in Items /\ "write" # "getack"
  BY Zenon DEF Items
<1> HIDE DEF a, b
<1>4. WriteSize * a \in Nat /\ GetAckSize * b \in Nat
  BY <1>1, <1>2
<1>5. WriteSize * (a + 1) = WriteSize * a + WriteSize /\ GetAckSize * (b + 1) = GetAckSize * b + GetAckSize
  BY <1>1, <1>2
<1>6. CASE item = "write"
  <2>1. Count(t, "write") = a + 1 /\ Count(t, "getack") = b
    BY <1>1, <1>3, <1>6 DEF a, b
  <2>2. Size(item) = WriteSize
    BY <1>6, Zenon DEF Size
  <2>3. QED  BY <1>2, <1>4, <1>5, <2>1, <2>2 DEF a, b
<1>7. CASE item = "getack"
  <2>1. Count(t, "write") = a /\ Count(t, "getack") = b + 1
    BY <1>1, <1>3, <1>7 DEF a, b
  <2>2. Size(item) = GetAckSize
    BY <1>3, <1>7, Zenon DEF Size
  <2>3. QED  BY <1>2, <1>4, <1>5, <2>1, <2>2 DEF a, b
<1>8. QED  BY <1>6, <1>7, Zenon DEF Items

--------------------------------------------------------------------------------
(* Every step preserves it *)

\* What goes out on every registered link advances the leader's offset as much as
\* it lengthens the streams.
LEMMA PropagateStep ==
    ASSUME IInv, NEW item \in Items, Propagate(item),
           UNCHANGED <<members, acc, gen, link, roff, acks, joined, target, need, timed,
                       ch, count>>,
           pc' \in [Clients -> {"idle", "fresh", "ask", "scan", "select"}],
           \A c \in Clients : pc'[c] = "select" => pc[c] = "select"
    PROVE  IInv'
<1>1. /\ offset' = offset + Size(item)
      /\ stream' = [r \in Replicas |-> IF r \in members THEN Append(stream[r], item)
                                                        ELSE stream[r]]
  BY Zenon DEF Propagate
<1>2. \A r \in Replicas : stream[r] \in Seq(Items) /\ Append(stream[r], item) \in Seq(Items)
  BY DEF IInv, TypeOK, Items
<1>3. Size(item) \in Nat
  BY SizesAssumption, Zenon DEF Size
<1>4. TypeOK'
  <2>1. stream' \in [Replicas -> Seq(Items)]
    BY <1>1, <1>2, Zenon
  <2>2. offset' \in Nat
    BY <1>1, <1>3 DEF IInv, TypeOK
  <2>3. QED  BY <2>1, <2>2, Zenon DEF IInv, TypeOK, Items
<1>5. LinkInv'
  <2>1. ASSUME NEW r \in Replicas, r \in members, link[r] = "loop"
        PROVE  Position(r)' + InFlight(r)' = offset'
    <3>1. stream'[r] = Append(stream[r], item)
      BY <1>1, <2>1, Zenon
    <3>2. \A x \in Items :
             Count(stream'[r], x) = Count(stream[r], x) + (IF item = x THEN 1 ELSE 0)
      BY <1>2, <3>1, CountAppend
    <3>3. InFlight(r)' = InFlight(r) + Size(item) /\ InFlight(r) \in Nat
      <4>1. stream[r] \in Seq(Items) /\ stream'[r] \in Seq(Items)
        BY <1>2, <3>1, Zenon
      <4>2. InFlight(r)' = WriteSize * Count(stream'[r], "write")
                           + GetAckSize * Count(stream'[r], "getack")
        BY Zenon DEF InFlight, Sent, Count
      <4>3. QED  BY <3>2, <4>1, <4>2, BytesOf, InFlightCounts
    <3>4. Position(r)' = Position(r) /\ Position(r) \in Nat
      BY DEF Position, IInv, TypeOK
    <3>5. Position(r) + InFlight(r) = offset
      BY <2>1, Zenon DEF IInv, LinkInv
    <3>6. QED  BY <1>1, <1>3, <3>3, <3>4, <3>5
  <2>2. \A r \in Replicas : r \notin members => stream'[r] = stream[r]
    BY <1>1, Zenon
  <2>3. QED  BY <2>1, <2>2, Zenon DEF IInv, LinkInv
<1>6. AckInv'
  BY Zenon DEF IInv, AckInv
<1>7. CountInv'
  <2>1. \A r \in Replicas : Position(r) <= Position(r)'
    BY DEF Position, IInv, TypeOK
  <2>2. QED  BY <1>4, <2>1, CountKept, Zenon DEF IInv
<1>8. QED  BY <1>4, <1>5, <1>6, <1>7, Zenon DEF IInv

\* A follower that enters its apply loop, one that is registered and one that is
\* unregistered keep every offset where it was.
LEMMA MembershipStep ==
    ASSUME IInv, NEW r \in Replicas, Psync(r) \/ Add(r) \/ Unregister(r)
    PROVE  IInv'
<1>1. TypeOK'
  <2>1. CASE Psync(r)
    BY <2>1, Zenon DEF IInv, TypeOK, Psync, waitVars
  <2>2. CASE Add(r)
    BY <2>2, Zenon DEF IInv, TypeOK, Add, waitVars
  <2>3. CASE Unregister(r)
    BY <2>3, Zenon DEF IInv, TypeOK, Unregister, linkVars, waitVars
  <2>4. QED  BY <2>1, <2>2, <2>3, Zenon
<1>2. LinkInv'
  <2>1. CASE Psync(r)
    BY <2>1, Zenon DEF IInv, TypeOK, LinkInv, Psync, Position, InFlight, Sent
  <2>2. CASE Unregister(r)
    BY <2>2, Zenon DEF IInv, TypeOK, LinkInv, Unregister, linkVars, Position, InFlight, Sent
  <2>3. CASE Add(r)
    <3>1. Position(r)' + InFlight(r)' = offset'
      <4>1. stream'[r] = <<>> /\ roff'[r] = 0 /\ joined'[r] = offset /\ offset' = offset
        BY <2>3, Zenon DEF Add, IInv, LinkInv, TypeOK
      <4>2. Count(stream'[r], "write") = 0 /\ Count(stream'[r], "getack") = 0
        BY <4>1, CountEmpty, Zenon
      <4>3. InFlight(r)' = WriteSize * Count(stream'[r], "write")
                           + GetAckSize * Count(stream'[r], "getack")
        BY Zenon DEF InFlight, Sent, Count
      <4>4. InFlight(r)' = 0
        BY <4>2, <4>3, SizesAssumption
      <4>5. QED  BY <4>1, <4>4 DEF Position, IInv, TypeOK
    <3>2. \A q \in Replicas \ {r} : Position(q)' = Position(q) /\ InFlight(q)' = InFlight(q)
      BY <2>3, Zenon DEF Add, IInv, TypeOK, Position, InFlight, Sent
    <3>3. QED  BY <2>3, <3>1, <3>2, Zenon DEF IInv, TypeOK, LinkInv, Add
  <2>4. QED  BY <2>1, <2>2, <2>3, Zenon
<1>3. AckInv'
  <2>1. UNCHANGED <<roff, acks>>
    BY Zenon DEF Psync, Add, Unregister, linkVars
  <2>2. \A q \in Replicas : acc'[q] = acc[q] \/ acc'[q] = 0
    BY Zenon DEF IInv, TypeOK, Psync, Add, Unregister
  <2>3. \A q \in Replicas : roff[q] \in Nat
    BY Zenon DEF IInv, TypeOK
  <2>4. QED  BY <2>1, <2>2, <2>3 DEF IInv, AckInv
<1>4. CountInv'
  <2>1. \A q \in Replicas : Position(q) <= Position(q)'
    <3>1. \A q \in Replicas : roff'[q] = roff[q] /\ roff[q] \in Nat /\ joined[q] \in Nat
      BY Zenon DEF IInv, TypeOK, Psync, Add, Unregister, linkVars
    <3>2. \A q \in Replicas : joined'[q] = joined[q] \/ (joined[q] = 0 /\ joined'[q] \in Nat)
      BY Zenon DEF IInv, TypeOK, LinkInv, Psync, Add, Unregister, linkVars
    <3>3. QED  BY <3>1, <3>2 DEF Position
  <2>2. UNCHANGED <<target, count, pc>>
    BY Zenon DEF Psync, Add, Unregister, waitVars
  <2>3. QED  BY <1>1, <2>1, <2>2, CountKept, Zenon DEF IInv
<1>5. QED  BY <1>1, <1>2, <1>3, <1>4, Zenon DEF IInv

\* An ACK carries an offset its follower has been at.
LEMMA AckStep ==
    ASSUME IInv, NEW r \in Replicas, Ack(r)
    PROVE  IInv'
<1>1. /\ acks[r] \in Seq(Nat) /\ acks[r] # <<>> /\ Head(acks[r]) = acks[r][1]
      /\ Tail(acks[r]) \in Seq(Nat) /\ Head(acks[r]) \in Nat /\ 1 \in DOMAIN acks[r]
      /\ \A i \in DOMAIN Tail(acks[r]) :
            i + 1 \in DOMAIN acks[r] /\ Tail(acks[r])[i] = acks[r][i + 1]
  BY DEF IInv, TypeOK, Ack
<1>2. TypeOK'
  <2>1. acks' \in [Replicas -> Seq(Nat)]
    BY <1>1, Zenon DEF IInv, TypeOK, Ack
  <2>2. acc' \in [Replicas -> Nat] /\ gen' \in Nat
    BY <1>1 DEF IInv, TypeOK, Ack
  <2>3. QED  BY <2>1, <2>2, Zenon DEF IInv, TypeOK, Ack, waitVars
<1>3. LinkInv'
  BY Zenon DEF IInv, LinkInv, Ack, Position, InFlight, Sent
<1>4. AckInv'
  <2>1. acc'[r] <= roff'[r] /\ \A i \in DOMAIN acks'[r] : acks'[r][i] <= roff'[r]
    BY <1>1, Zenon DEF IInv, TypeOK, AckInv, Ack
  <2>2. \A q \in Replicas \ {r} : acc'[q] = acc[q] /\ acks'[q] = acks[q] /\ roff'[q] = roff[q]
    BY Zenon DEF Ack, IInv, TypeOK
  <2>3. QED  BY <2>1, <2>2, Zenon DEF IInv, AckInv
<1>5. CountInv'
  <2>1. \A q \in Replicas : Position(q) <= Position(q)'
    BY DEF IInv, TypeOK, Position, Ack
  <2>2. UNCHANGED <<target, count, pc>>
    BY Zenon DEF Ack, waitVars
  <2>3. QED  BY <1>2, <2>1, <2>2, CountKept, Zenon DEF IInv
<1>6. QED  BY <1>2, <1>3, <1>4, <1>5, Zenon DEF IInv

\* Applying an item moves the follower forward by the bytes that are no longer on
\* their way to it.
LEMMA ApplyStep ==
    ASSUME IInv, NEW r \in Replicas, ReplicaApply(r)
    PROVE  IInv'
<1> DEFINE item == Head(stream[r])
<1>1. /\ stream[r] \in Seq(Items) /\ stream[r] # <<>> /\ item \in Items
      /\ Tail(stream[r]) \in Seq(Items) /\ roff[r] \in Nat /\ acks[r] \in Seq(Nat)
  BY DEF IInv, TypeOK, ReplicaApply, Items
<1>2. Size(item) \in Nat
  BY SizesAssumption, Zenon DEF Size
<1>3. /\ stream' = [stream EXCEPT ![r] = Tail(stream[r])]
      /\ roff' = [roff EXCEPT ![r] = roff[r] + Size(item)]
      /\ acks' = acks \/ acks' = [acks EXCEPT ![r] = Append(acks[r], roff[r])]
      /\ UNCHANGED <<offset, members, acc, gen, link, joined, waitVars>>
  BY Zenon DEF ReplicaApply
<1> HIDE DEF item
<1>4. TypeOK'
  <2>1. stream' \in [Replicas -> Seq(Items)] /\ roff' \in [Replicas -> Nat]
    BY <1>1, <1>2, <1>3 DEF IInv, TypeOK, Items
  <2>2. acks' \in [Replicas -> Seq(Nat)]
    <3>1. acks \in [Replicas -> Seq(Nat)] /\ Append(acks[r], roff[r]) \in Seq(Nat)
      BY <1>1 DEF IInv, TypeOK
    <3>2. QED  BY <1>3, <3>1, Zenon
  <2>3. QED  BY <1>3, <2>1, <2>2, Zenon DEF IInv, TypeOK, Items, waitVars
<1>5. Position(r)' = Position(r) + Size(item)
      /\ \A q \in Replicas \ {r} : Position(q)' = Position(q)
  BY <1>2, <1>3 DEF IInv, TypeOK, Position
<1>6. LinkInv'
  <2>1. r \in members /\ link[r] = "loop"
    BY Zenon DEF IInv, LinkInv, TypeOK, ReplicaApply
  <2>2. Position(r)' + InFlight(r)' = offset'
    <3>1. stream'[r] = Tail(stream[r])
      BY <1>3, Zenon DEF IInv, TypeOK
    <3>2. \A x \in Items :
             Count(stream[r], x) = Count(stream'[r], x) + (IF item = x THEN 1 ELSE 0)
      BY <1>1, <3>1, CountTail, Zenon DEF item
    <3>3. InFlight(r) = InFlight(r)' + Size(item) /\ InFlight(r)' \in Nat
      <4>1. InFlight(r)' = WriteSize * Count(stream'[r], "write")
                           + GetAckSize * Count(stream'[r], "getack")
        BY Zenon DEF InFlight, Sent, Count
      <4>2. stream'[r] \in Seq(Items)
        BY <1>1, <3>1, Zenon
      <4>3. stream[r] \in Seq(Items) /\ item \in Items
        BY <1>1, Zenon
      <4>4. /\ WriteSize * Count(stream[r], "write") + GetAckSize * Count(stream[r], "getack")
                 = WriteSize * Count(stream'[r], "write")
                   + GetAckSize * Count(stream'[r], "getack") + Size(item)
            /\ WriteSize * Count(stream'[r], "write")
                  + GetAckSize * Count(stream'[r], "getack") \in Nat
        BY <3>2, <4>2, <4>3, BytesOf
      <4>5. QED  BY <4>1, <4>4, InFlightCounts, Zenon
    <3>4. Position(r) + InFlight(r) = offset /\ offset' = offset /\ Position(r) \in Nat
      BY <1>3, <2>1 DEF IInv, LinkInv, TypeOK, Position
    <3>5. QED  BY <1>2, <1>5, <3>3, <3>4
  <2>3. \A q \in Replicas \ {r} :
           stream'[q] = stream[q] /\ roff'[q] = roff[q] /\ InFlight(q)' = InFlight(q)
    BY <1>3, Zenon DEF IInv, TypeOK, InFlight, Sent
  <2>4. UNCHANGED <<members, link, joined, offset>>
    BY <1>3, Zenon
  <2>5. QED  BY <1>5, <2>1, <2>2, <2>3, <2>4, Zenon DEF IInv, LinkInv
<1>7. AckInv'
  <2>1. acc[r] \in Nat /\ acc[r] <= roff[r] /\ roff'[r] = roff[r] + Size(item)
    BY <1>3, Zenon DEF IInv, TypeOK, AckInv
  <2>2. \A i \in DOMAIN acks'[r] : acks'[r][i] <= roff'[r]
    <3>1. \A i \in DOMAIN acks[r] : acks[r][i] \in Nat /\ acks[r][i] <= roff[r]
      BY <1>1 DEF IInv, AckInv
    <3>2. CASE acks'[r] = acks[r]
      BY <1>1, <1>2, <2>1, <3>1, <3>2
    <3>3. CASE acks'[r] = Append(acks[r], roff[r])
      BY <1>1, <1>2, <2>1, <3>1, <3>3
    <3>4. QED  BY <1>3, <3>2, <3>3, Zenon DEF IInv, TypeOK
  <2>3. \A q \in Replicas \ {r} : acks'[q] = acks[q] /\ roff'[q] = roff[q]
    BY <1>3, Zenon DEF IInv, TypeOK
  <2>4. QED  BY <1>1, <1>2, <1>3, <2>1, <2>2, <2>3 DEF IInv, AckInv
<1>8. CountInv'
  <2>1. \A q \in Replicas : Position(q) <= Position(q)'
    <3>1. \A q \in Replicas : Position(q) \in Nat
      BY DEF IInv, TypeOK, Position
    <3>2. QED  BY <1>2, <1>5, <3>1
  <2>2. UNCHANGED <<target, count, pc>>
    BY <1>3, Zenon DEF waitVars
  <2>3. QED  BY <1>4, <2>1, <2>2, CountKept, Zenon DEF IInv
<1>9. QED  BY <1>4, <1>6, <1>7, <1>8, Zenon DEF IInv

\* A follower that dies stays where it was.
LEMMA DieStep ==
    ASSUME IInv, NEW r \in Replicas, Die(r)
    PROVE  IInv'
<1>1. TypeOK'
  <2>1. stream' \in [Replicas -> Seq(Items)] /\ link' \in [Replicas -> {"handshake", "loop", "dead"}]
    BY DEF IInv, TypeOK, Die, Items
  <2>2. QED  BY <2>1, Zenon DEF IInv, TypeOK, Die, waitVars, Items
<1>2. LinkInv'
  <2>1. \A q \in Replicas \ {r} : stream'[q] = stream[q] /\ link'[q] = link[q]
    BY Zenon DEF IInv, TypeOK, Die
  <2>2. link'[r] = "dead"
    BY Zenon DEF IInv, TypeOK, Die
  <2>3. \A q \in Replicas \ {r} : Position(q)' = Position(q) /\ InFlight(q)' = InFlight(q)
    BY <2>1, Zenon DEF Die, Position, InFlight, Sent
  <2>4. UNCHANGED <<members, roff, joined, offset>>
    BY Zenon DEF Die
  <2>5. QED  BY <2>1, <2>2, <2>3, <2>4, Zenon DEF IInv, LinkInv
<1>3. AckInv'
  BY Zenon DEF IInv, AckInv, Die
<1>4. CountInv'
  <2>1. \A q \in Replicas : Position(q) <= Position(q)'
    <3>1. \A q \in Replicas : Position(q) \in Nat /\ Position(q)' = Position(q)
      BY DEF IInv, TypeOK, Position, Die
    <3>2. QED  BY <3>1
  <2>2. UNCHANGED <<target, count, pc>>
    BY Zenon DEF Die, waitVars
  <2>3. QED  BY <1>1, <2>1, <2>2, CountKept, Zenon DEF IInv
<1>5. QED  BY <1>1, <1>2, <1>3, <1>4, Zenon DEF IInv

\* A follower that the leader's last look counts has applied everything up to the
\* caller's target.
LEMMA ReachedArePast ==
    ASSUME IInv, NEW c \in Clients
    PROVE  /\ Cardinality(Reached(c)) \in Nat
           /\ Cardinality(Reached(c)) <= Cardinality(Past(target[c]))
<1>1. \A r \in members : /\ r \in Replicas /\ acc[r] \in Nat /\ roff[r] \in Nat
                          /\ joined[r] \in Nat /\ acc[r] <= roff[r]
  BY Zenon DEF IInv, TypeOK, AckInv
<1>2. target[c] \in Nat
  BY Zenon DEF IInv, TypeOK
<1>3. Reached(c) \subseteq Past(target[c])
  BY <1>1, <1>2 DEF Reached, Past, Position
<1>4. Past(target[c]) \subseteq Replicas
  BY Zenon DEF Past
<1>5. QED  BY <1>3, <1>4, CountOfReplicas, Zenon

\* A step that moves no follower and no link, and leaves what the waiting callers
\* have counted, keeps the invariant if the caller's own count is right.
LEMMA CallerStep ==
    ASSUME IInv, NEW c \in Clients, UNCHANGED <<offset, members, acc, gen, linkVars>>,
           TypeOK',
           \A d \in Clients \ {c} : pc'[d] = pc[d] /\ target'[d] = target[d]
                                                  /\ count'[d] = count[d],
           pc'[c] = "select" => /\ target'[c] = target[c]
                                /\ count'[c] <= Cardinality(Past(target[c]))
    PROVE  IInv'
<1>1. UNCHANGED <<offset, members, acc, link, stream, roff, acks, joined>>
  BY Zenon DEF linkVars
<1>2. LinkInv'
  BY <1>1, Zenon DEF IInv, LinkInv, Position, InFlight, Sent
<1>3. AckInv'
  BY <1>1, Zenon DEF IInv, AckInv
<1>4. CountInv'
  <2> SUFFICES ASSUME NEW d \in Clients, pc'[d] = "select"
               PROVE  count'[d] <= Cardinality(Past(target[d])')
    BY Zenon DEF CountInv
  <2>1. Past(target[d])' = Past(target[d])
    BY <1>1, Zenon DEF Past, Position
  <2>2. CASE d = c
    BY <2>1, <2>2, Zenon
  <2>3. CASE d # c
    BY <2>1, <2>3, Zenon DEF IInv, CountInv
  <2>4. QED  BY <2>2, <2>3, Zenon
<1>5. QED  BY <1>2, <1>3, <1>4, Zenon DEF IInv

\* A call that returns has a number to return.
LEMMA ReturnStep ==
    ASSUME IInv, NEW c \in Clients, NEW n \in Nat, Return(c, n)
    PROVE  IInv'
<1>1. TypeOK'
  <2>1. UNCHANGED <<link, stream, roff, acks, joined, offset, members, acc, gen>>
    BY Zenon DEF Return, linkVars
  <2>2. QED  BY <2>1, Zenon DEF IInv, TypeOK, Return
<1>2. pc'[c] = "idle" /\ \A d \in Clients \ {c} : pc'[d] = pc[d] /\ target'[d] = target[d]
                                                    /\ count'[d] = count[d]
  BY Zenon DEF IInv, TypeOK, Return
<1>3. UNCHANGED <<offset, members, acc, gen, linkVars>>
  BY Zenon DEF Return
<1>4. QED  BY <1>1, <1>2, <1>3, CallerStep, Zenon

\* Every step of WAIT preserves the invariant.
LEMMA WaitStep ==
    ASSUME IInv, NEW c \in Clients,
           Waiting(c) \/ \E n \in Needs, t \in Timeouts : Wait(c, n, t)
    PROVE  IInv'
<1>1. CASE WaitFresh(c)
  <2>1. Cardinality(members) \in Nat
    BY CountOfReplicas, Zenon DEF IInv, TypeOK
  <2>2. QED  BY <1>1, <2>1, ReturnStep, Zenon DEF WaitFresh
<1>2. CASE WaitAsk(c)
  <2>1. pc' \in [Clients -> {"idle", "fresh", "ask", "scan", "select"}]
    BY <1>2, Zenon DEF WaitAsk, IInv, TypeOK
  <2>2. \A d \in Clients : pc'[d] = "select" => pc[d] = "select"
    BY <1>2, Zenon DEF WaitAsk, IInv, TypeOK
  <2>3. Propagate("getack") /\ UNCHANGED <<members, acc, gen, link, roff, acks, joined,
                                           target, need, timed, ch, count>>
    BY <1>2, Zenon DEF WaitAsk
  <2>4. QED  BY <2>1, <2>2, <2>3, PropagateStep, Zenon DEF Items
<1>3. CASE WaitEnough(c)
  BY <1>3, ReachedArePast, ReturnStep, Zenon DEF WaitEnough
<1>4. CASE WaitMore(c)
  <2>1. /\ UNCHANGED <<offset, members, acc, gen, linkVars, target, need, timed>>
        /\ pc' = [pc EXCEPT ![c] = "select"]
        /\ ch' = [ch EXCEPT ![c] = gen]
        /\ count' = [count EXCEPT ![c] = Cardinality(Reached(c))]
    BY <1>4, Zenon DEF WaitMore
  <2>2. TypeOK'
    BY <2>1, ReachedArePast, Zenon DEF IInv, TypeOK, linkVars
  <2>3. /\ \A d \in Clients \ {c} : pc'[d] = pc[d] /\ count'[d] = count[d]
        /\ count'[c] = Cardinality(Reached(c))
    BY <2>1, Zenon DEF IInv, TypeOK
  <2>4. QED  BY <2>1, <2>2, <2>3, ReachedArePast, CallerStep, Zenon
<1>5. CASE WaitWake(c)
  <2>1. /\ UNCHANGED <<offset, members, acc, gen, linkVars, target, need, timed, ch, count>>
        /\ pc' = [pc EXCEPT ![c] = "scan"]
    BY <1>5, Zenon DEF WaitWake
  <2>2. TypeOK'
    BY <2>1, Zenon DEF IInv, TypeOK, linkVars
  <2>3. pc'[c] = "scan" /\ \A d \in Clients \ {c} : pc'[d] = pc[d]
    BY <2>1, Zenon DEF IInv, TypeOK
  <2>4. QED  BY <2>1, <2>2, <2>3, CallerStep, Zenon
<1>6. CASE WaitTimeout(c)
  <2>1. count[c] \in Nat
    BY Zenon DEF IInv, TypeOK
  <2>2. QED  BY <1>6, <2>1, ReturnStep, Zenon DEF WaitTimeout
<1>7. ASSUME NEW n \in Needs, NEW t \in Timeouts, Wait(c, n, t)
      PROVE  IInv'
  <2>1. /\ UNCHANGED <<offset, members, acc, gen, linkVars, ch, count>>
        /\ pc' = [pc EXCEPT ![c] = IF offset = 0 THEN "fresh" ELSE "ask"]
        /\ target' = [target EXCEPT ![c] = offset]
        /\ need' = [need EXCEPT ![c] = n]
        /\ timed' \subseteq timed \cup {c}
    BY <1>7, Zenon DEF Wait
  <2>2. n \in Nat
    BY CallsAssumption, Zenon
  <2>3. TypeOK'
    BY <2>1, <2>2, Zenon DEF IInv, TypeOK, linkVars
  <2>4. pc'[c] # "select" /\ \A d \in Clients \ {c} : pc'[d] = pc[d] /\ target'[d] = target[d]
    BY <2>1, Zenon DEF IInv, TypeOK
  <2>5. QED  BY <2>1, <2>3, <2>4, CallerStep, Zenon
<1>8. QED  BY <1>1, <1>2, <1>3, <1>4, <1>5, <1>6, <1>7, Zenon DEF Waiting

--------------------------------------------------------------------------------
(* The theorems *)

\* No link, no call and no byte yet.
LEMMA InitIInv == Init => IInv
<1> SUFFICES ASSUME Init PROVE IInv
  BY Zenon
<1>1. TypeOK
  BY DEF Init, TypeOK
<1>2. LinkInv /\ AckInv /\ CountInv
  BY DEF Init, LinkInv, AckInv, CountInv
<1>3. QED  BY <1>1, <1>2, Zenon DEF IInv

\* Every step preserves the invariant.
LEMMA NextIInv == IInv /\ [Next]_vars => IInv'
<1> SUFFICES ASSUME IInv, [Next]_vars PROVE IInv'
  BY Zenon
<1>1. CASE Write
  BY <1>1, PropagateStep, Zenon DEF Write, waitVars, Items, IInv, TypeOK
<1>2. ASSUME NEW r \in Replicas, Psync(r) \/ Links(r) \/ Die(r)
      PROVE  IInv'
  BY <1>2, MembershipStep, AckStep, ApplyStep, DieStep, Zenon DEF Links
<1>3. ASSUME NEW c \in Clients,
             Waiting(c) \/ \E n \in Needs, t \in Timeouts : Wait(c, n, t)
      PROVE  IInv'
  BY <1>3, WaitStep, Zenon
<1>4. CASE UNCHANGED vars
  BY <1>4, Zenon DEF vars, IInv, TypeOK, LinkInv, AckInv, CountInv, Past, Position, InFlight, Sent
<1>5. QED  BY <1>1, <1>2, <1>3, <1>4, Zenon DEF Next

\* The inductive invariant holds throughout.
LEMMA Inductive == Spec => []IInv
BY InitIInv, NextIInv, PTL DEF Spec

\* Links, offsets and calls keep their types.
THEOREM TypeCorrect == Spec => []TypeOK
<1>1. IInv => TypeOK
  BY Zenon DEF IInv
<1>2. QED  BY <1>1, Inductive, PTL

\* For any number of followers and callers and any sizes of writes and GETACKs, what
\* a registered follower has applied and what is on the way to it is exactly what
\* the leader's offset says.
THEOREM OffsetsAgree == Spec => []OffsetsTrack
<1>1. IInv => OffsetsTrack
  BY Zenon DEF IInv, LinkInv, OffsetsTrack, TypeOK
<1>2. QED  BY <1>1, Inductive, PTL

\* For any number of followers and callers, WAIT never counts a follower that has
\* not applied everything that was propagated before the call, however the ACKs, the
\* other callers' GETACKs, deaths, late registrations and the timer interleave.
THEOREM WaitIsHonest == Spec => WaitCountsApplied
<1> DEFINE Honest == \A c \in Clients :
                        pc[c] \in {"scan", "select"} /\ pc'[c] = "idle" =>
                            count'[c] <= Cardinality({r \in Replicas : Position(r) >= target[c]})
<1>1. IInv /\ [Next]_vars => [Honest]_vars
  <2> SUFFICES ASSUME IInv, Next, NEW c \in Clients,
                      pc[c] \in {"scan", "select"}, pc'[c] = "idle"
               PROVE  count'[c] <= Cardinality(Past(target[c]))
    BY Zenon DEF Past
  <2>1. ASSUME NEW n, Return(c, n) PROVE count'[c] = n
    BY <2>1, Zenon DEF Return, IInv, TypeOK
  <2>2. WaitEnough(c) \/ WaitTimeout(c)
    <3>1. pc' # pc
      BY Zenon DEF IInv, TypeOK
    <3>2. PICK d \in Clients : Waiting(d) \/ \E n \in Needs, t \in Timeouts : Wait(d, n, t)
      BY <3>1, Zenon DEF Next, Write, Psync, Links, Add, Ack, Unregister, ReplicaApply, Die, waitVars
    <3>3. d = c
      BY <3>2, Zenon DEF IInv, TypeOK, Waiting, Wait, WaitFresh, WaitAsk, WaitEnough, WaitMore,
                  WaitWake, WaitTimeout, Return
    <3>4. QED
      BY <3>2, <3>3, Zenon DEF IInv, TypeOK, Waiting, Wait, WaitFresh, WaitAsk, WaitMore, WaitWake
  <2>3. CASE WaitEnough(c)
    BY <2>1, <2>3, ReachedArePast, Zenon DEF WaitEnough
  <2>4. CASE WaitTimeout(c)
    BY <2>1, <2>4, Zenon DEF WaitTimeout, IInv, CountInv
  <2>5. QED  BY <2>2, <2>3, <2>4, Zenon
<1>2. QED  BY <1>1, Inductive, PTL DEF Spec, WaitCountsApplied
================================================================================
