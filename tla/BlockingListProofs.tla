-------------------------- MODULE BlockingListProofs --------------------------
(***************************************************************************)
(* For any argument lists of BLPOP, and any number of keys, clients,       *)
(* values and calls: every variable keeps its type, no element is handed   *)
(* out twice, one that is lost sits in a channel nobody reads, clients     *)
(* blocked on a key are served in the order they blocked, and only an      *)
(* LPUSH passes by a parked client.  For calls with one key each: no       *)
(* element is lost, RPush never blocks on a channel while it holds the     *)
(* mutex, and a call that gave up too late finds its value.                *)
(***************************************************************************)
EXTENDS BlockingList, WellFoundedInduction, TLAPS

-------------------------------------------------------------------------------
(* Sequences *)

\* The elements of a sequence over S are in S.
LEMMA RangeIsIn ==
    ASSUME NEW S, NEW q \in Seq(S)
    PROVE  Range(q) \in SUBSET S /\ Range(q) = {q[i] : i \in 1 .. Len(q)}
<1>1. DOMAIN q = 1 .. Len(q) /\ \A i \in 1 .. Len(q) : q[i] \in S
  OBVIOUS
<1>2. QED  BY <1>1, Zenon DEF Range

\* Two sequences joined.
LEMMA Joined ==
    ASSUME NEW S, NEW q \in Seq(S), NEW r \in Seq(S)
    PROVE  /\ q \o r \in Seq(S) /\ Len(q \o r) = Len(q) + Len(r)
           /\ \A i \in 1 .. Len(q) + Len(r) :
                 (q \o r)[i] = IF i <= Len(q) THEN q[i] ELSE r[i - Len(q)]
OBVIOUS

\* Joining two sequences joins their elements, and an empty one adds nothing.
LEMMA RangeJoined ==
    ASSUME NEW S, NEW q \in Seq(S), NEW r \in Seq(S)
    PROVE  Range(q \o r) = Range(q) \cup Range(r) /\ q \o <<>> = q
<1> DEFINE w == q \o r
<1>1. /\ w \in Seq(S) /\ Len(w) = Len(q) + Len(r)
      /\ \A i \in 1 .. Len(q) + Len(r) :
            w[i] = IF i <= Len(q) THEN q[i] ELSE r[i - Len(q)]
  BY Joined, Zenon
<1>2. q \o <<>> = q
  OBVIOUS
<1> HIDE DEF w
<1>3. /\ DOMAIN q = 1 .. Len(q) /\ DOMAIN r = 1 .. Len(r) /\ DOMAIN w = 1 .. Len(q) + Len(r)
      /\ Len(q) \in Nat /\ Len(r) \in Nat
  BY <1>1
<1>4. \A i \in 1 .. Len(r) : Len(q) + i \in 1 .. Len(q) + Len(r) /\ w[Len(q) + i] = r[i]
  <2>1. TAKE i \in 1 .. Len(r)
  <2>2. /\ Len(q) + i \in 1 .. Len(q) + Len(r) /\ (Len(q) + i) - Len(q) = i
        /\ ~ (Len(q) + i <= Len(q))
    BY <1>3
  <2>3. QED  BY <1>1, <2>2, Zenon
<1>5. \A i \in 1 .. Len(q) : i \in 1 .. Len(q) + Len(r) /\ w[i] = q[i]
  BY <1>1, <1>3
<1>6. \A i \in 1 .. Len(q) + Len(r) :
         \/ i \in 1 .. Len(q) /\ w[i] = q[i]
         \/ i - Len(q) \in 1 .. Len(r) /\ w[i] = r[i - Len(q)]
  BY <1>1, <1>3
<1>7. Range(w) = Range(q) \cup Range(r)
  <2>1. \A x \in Range(w) : x \in Range(q) \cup Range(r)
    BY <1>3, <1>6, Zenon DEF Range
  <2>2. \A x \in Range(q) : x \in Range(w)
    BY <1>3, <1>5, Zenon DEF Range
  <2>3. \A x \in Range(r) : x \in Range(w)
    BY <1>3, <1>4, Zenon DEF Range
  <2>4. QED  BY <2>1, <2>2, <2>3, Zenon
<1>8. QED  BY <1>2, <1>7, Zenon DEF w

\* The elements of a sequence of at most one element.
LEMMA RangeOfBuffer ==
    Range(<<>>) = {} /\ \A v : Range(<<v>>) = {v}
BY DEF Range

\* The elements of a non-empty sequence are its head and those of its tail.
LEMMA RangeHeadTail ==
    ASSUME NEW S, NEW q \in Seq(S), q # <<>>
    PROVE  /\ Head(q) \in S
           /\ Tail(q) \in Seq(S)
           /\ Range(q) = {Head(q)} \cup Range(Tail(q))
<1>1. Head(q) = q[1] /\ Tail(q) \in Seq(S) /\ Len(q) \in Nat \ {0}
  OBVIOUS
<1>2. Len(Tail(q)) = Len(q) - 1 /\ \A i \in 1 .. Len(q) - 1 : Tail(q)[i] = q[i + 1]
  OBVIOUS
<1>3. /\ Range(q) = {q[i] : i \in 1 .. Len(q)}
      /\ Range(Tail(q)) = {Tail(q)[i] : i \in 1 .. Len(q) - 1}
  BY <1>1, <1>2, RangeIsIn, Zenon
<1>4. \A i \in 1 .. Len(q) : q[i] = Head(q) \/ q[i] \in Range(Tail(q))
  <2>1. \A i \in 1 .. Len(q) : i # 1 => i - 1 \in 1 .. Len(q) - 1 /\ Tail(q)[i - 1] = q[i]
    BY <1>1, <1>2
  <2>2. QED  BY <1>1, <1>3, <2>1, SMTT(30)
<1>5. \A i \in 1 .. Len(q) - 1 : i + 1 \in 1 .. Len(q) /\ Tail(q)[i] = q[i + 1]
  BY <1>1, <1>2
<1>6. QED  BY <1>1, <1>3, <1>4, <1>5

\* A sequence without repetitions does not repeat its head in its tail.
LEMMA InjectiveTail ==
    ASSUME NEW S, NEW q \in Seq(S), q # <<>>, IsInjective(q)
    PROVE  Head(q) \notin Range(Tail(q)) /\ IsInjective(Tail(q))
<1>1. Head(q) = q[1] /\ Tail(q) \in Seq(S) /\ Len(q) \in Nat \ {0}
  OBVIOUS
<1>2. Len(Tail(q)) = Len(q) - 1 /\ \A i \in 1 .. Len(q) - 1 : Tail(q)[i] = q[i + 1]
  OBVIOUS
<1>3. Range(Tail(q)) = {Tail(q)[i] : i \in 1 .. Len(q) - 1}
  BY <1>1, <1>2, RangeIsIn, Zenon
<1>4. \A i, j \in 1 .. Len(q) : q[i] = q[j] => i = j
  BY DEF IsInjective
<1>5. \A i \in 1 .. Len(q) - 1 : Tail(q)[i] # q[1]
  BY <1>1, <1>2, <1>4
<1>6. \A i, j \in 1 .. Len(q) - 1 : Tail(q)[i] = Tail(q)[j] => i = j
  BY <1>1, <1>2, <1>4
<1>7. DOMAIN Tail(q) = 1 .. Len(q) - 1
  BY <1>1, <1>2
<1>8. QED  BY <1>1, <1>3, <1>5, <1>6, <1>7, Zenon DEF IsInjective

\* Appending a new element keeps a sequence free of repetitions.
LEMMA InjectiveAppend ==
    ASSUME NEW S, NEW q \in Seq(S), NEW h \in S
    PROVE  /\ Append(q, h) \in Seq(S)
           /\ Range(Append(q, h)) = Range(q) \cup {h}
           /\ IsInjective(q) /\ h \notin Range(q) => IsInjective(Append(q, h))
<1>1. /\ Append(q, h) \in Seq(S) /\ Len(q) \in Nat
      /\ Len(Append(q, h)) = Len(q) + 1
      /\ \A i \in 1 .. Len(q) : Append(q, h)[i] = q[i]
      /\ Append(q, h)[Len(q) + 1] = h
  OBVIOUS
<1>2. /\ Range(q) = {q[i] : i \in 1 .. Len(q)}
      /\ Range(Append(q, h)) = {Append(q, h)[i] : i \in 1 .. Len(q) + 1}
  BY <1>1, RangeIsIn, Zenon
<1>3. Range(Append(q, h)) = Range(q) \cup {h}
  <2>1. \A i \in 1 .. Len(q) + 1 : i = Len(q) + 1 \/ i \in 1 .. Len(q)
    BY <1>1
  <2>2. Len(q) + 1 \in 1 .. Len(q) + 1 /\ \A i \in 1 .. Len(q) : i \in 1 .. Len(q) + 1
    BY <1>1
  <2>3. QED  BY <1>1, <1>2, <2>1, <2>2, Zenon
<1>4. ASSUME IsInjective(q), h \notin Range(q) PROVE IsInjective(Append(q, h))
  <2>1. \A i, j \in 1 .. Len(q) : q[i] = q[j] => i = j
    BY <1>4 DEF IsInjective
  <2>2. \A i \in 1 .. Len(q) : q[i] # h
    BY <1>2, <1>4, Zenon
  <2>3. DOMAIN Append(q, h) = 1 .. Len(q) + 1
    BY <1>1
  <2>4. \A i, j \in 1 .. Len(q) + 1 : Append(q, h)[i] = Append(q, h)[j] => i = j
    BY <1>1, <2>1, <2>2
  <2>5. QED  BY <2>3, <2>4, Zenon DEF IsInjective
<1>5. QED  BY <1>1, <1>3, <1>4, Zenon

\* What is left of a sequence after its first n elements.
LEMMA CutProperties ==
    ASSUME NEW S, NEW q \in Seq(S), NEW n \in 0 .. Len(q)
    PROVE  LET b == SubSeq(q, n + 1, Len(q))
           IN  /\ b \in Seq(S) /\ Len(b) = Len(q) - n
               /\ \A i \in 1 .. Len(q) - n : b[i] = q[n + i]
OBVIOUS

\* Cutting a sequence in two keeps its elements, and an element that does not repeat
\* is in one part only.
LEMMA RangeCut ==
    ASSUME NEW S, NEW q \in Seq(S), NEW n \in 0 .. Len(q)
    PROVE  LET a == SubSeq(q, 1, n)
               b == SubSeq(q, n + 1, Len(q))
           IN  /\ a \in Seq(S) /\ b \in Seq(S) /\ Range(q) = Range(a) \cup Range(b)
               /\ IsInjective(q) => IsInjective(b) /\ Range(a) \cap Range(b) = {}
<1> DEFINE a == SubSeq(q, 1, n)
           b == SubSeq(q, n + 1, Len(q))
<1>1. a \in Seq(S) /\ b \in Seq(S)
  OBVIOUS
<1>2. /\ Len(a) = n /\ \A i \in 1 .. n : a[i] = q[i]
      /\ Len(b) = Len(q) - n /\ \A i \in 1 .. Len(q) - n : b[i] = q[n + i]
  OBVIOUS
<1> HIDE DEF a, b
<1>3. /\ DOMAIN a = 1 .. n /\ DOMAIN b = 1 .. Len(q) - n /\ DOMAIN q = 1 .. Len(q)
      /\ Len(q) \in Nat /\ n \in Nat /\ n <= Len(q)
  BY <1>1, <1>2
<1>4. Range(q) = Range(a) \cup Range(b)
  <2>1. \A i \in 1 .. Len(q) :
           \/ i \in 1 .. n /\ q[i] = a[i]
           \/ i - n \in 1 .. Len(q) - n /\ q[i] = b[i - n]
    <3>1. TAKE i \in 1 .. Len(q)
    <3>2. i \in 1 .. n \/ (i - n \in 1 .. Len(q) - n /\ n + (i - n) = i)
      BY <1>3
    <3>3. QED  BY <1>2, <3>2, Zenon
  <2>2. \A i \in 1 .. n : i \in 1 .. Len(q) /\ a[i] = q[i]
    BY <1>2, <1>3
  <2>3. \A i \in 1 .. Len(q) - n : n + i \in 1 .. Len(q) /\ b[i] = q[n + i]
    BY <1>2, <1>3
  <2>4. \A x \in Range(q) : x \in Range(a) \cup Range(b)
    BY <1>3, <2>1, Zenon DEF Range
  <2>5. \A x \in Range(a) : x \in Range(q)
    BY <1>3, <2>2, Zenon DEF Range
  <2>6. \A x \in Range(b) : x \in Range(q)
    BY <1>3, <2>3, Zenon DEF Range
  <2>7. QED  BY <2>4, <2>5, <2>6, Zenon
<1>5. ASSUME IsInjective(q) PROVE IsInjective(b) /\ Range(a) \cap Range(b) = {}
  <2>1. /\ Len(q) \in Nat /\ n \in Nat /\ n <= Len(q)
        /\ \A i, j \in 1 .. Len(q) : q[i] = q[j] => i = j
    BY <1>5 DEF IsInjective
  <2>2. Range(a) = {a[i] : i \in 1 .. n} /\ Range(b) = {b[i] : i \in 1 .. Len(q) - n}
    BY <1>3, Zenon DEF Range
  <2>3. \A i \in 1 .. Len(q) - n : n + i \in 1 .. Len(q) /\ b[i] = q[n + i]
    BY <1>2, <2>1
  <2>4. \A i, j \in 1 .. Len(q) - n : b[i] = b[j] => i = j
    BY <2>1, <2>3
  <2>5. \A i \in 1 .. n, j \in 1 .. Len(q) - n : i \in 1 .. Len(q) /\ i # n + j
    BY <2>1
  <2>6. \A i \in 1 .. n, j \in 1 .. Len(q) - n : a[i] # b[j]
    BY <1>2, <2>1, <2>3, <2>5
  <2>7. QED  BY <1>3, <2>2, <2>4, <2>6, Zenon DEF IsInjective
<1>6. QED  BY <1>1, <1>4, <1>5, Zenon DEF a, b

\* Two sequences without repetitions and without a common element make one.
LEMMA InjectiveConcat ==
    ASSUME NEW S, NEW a \in Seq(S), NEW b \in Seq(S), IsInjective(a), IsInjective(b),
           Range(a) \cap Range(b) = {}
    PROVE  /\ a \o b \in Seq(S) /\ Range(a \o b) = Range(a) \cup Range(b)
           /\ IsInjective(a \o b)
<1>1. a \o b \in Seq(S) /\ Range(a \o b) = Range(a) \cup Range(b)
  BY RangeJoined
<1>2. Len(a) \in Nat /\ Len(b) \in Nat /\ Len(a \o b) = Len(a) + Len(b)
  OBVIOUS
<1>3. /\ \A i, j \in 1 .. Len(a) : a[i] = a[j] => i = j
      /\ \A i, j \in 1 .. Len(b) : b[i] = b[j] => i = j
      /\ \A i \in 1 .. Len(a), j \in 1 .. Len(b) : a[i] # b[j]
  <2>1. DOMAIN a = 1 .. Len(a) /\ DOMAIN b = 1 .. Len(b)
    OBVIOUS
  <2>2. Range(a) = {a[i] : i \in 1 .. Len(a)}
    BY RangeIsIn, Zenon
  <2>3. Range(b) = {b[i] : i \in 1 .. Len(b)}
    BY RangeIsIn, Zenon
  <2>4. \A i \in 1 .. Len(a), j \in 1 .. Len(b) : a[i] # b[j]
    BY <2>2, <2>3, Zenon
  <2>5. QED  BY <2>1, <2>4, Zenon DEF IsInjective
<1> DEFINE w == a \o b
<1>4. \A i \in 1 .. Len(a) + Len(b) :
         \/ i \in 1 .. Len(a) /\ w[i] = a[i]
         \/ i - Len(a) \in 1 .. Len(b) /\ w[i] = b[i - Len(a)]
  OBVIOUS
<1>5. DOMAIN w = 1 .. Len(a) + Len(b)
  BY <1>1, <1>2
<1> HIDE DEF w
<1>6. \A i, j \in 1 .. Len(a) + Len(b) : w[i] = w[j] => i = j
  BY <1>2, <1>3, <1>4
<1>7. QED  BY <1>1, <1>5, <1>6, Zenon DEF IsInjective, w

\* A sequence without its m-th element.
LEMMA CutOut ==
    ASSUME NEW S, NEW q \in Seq(S), NEW m \in 1 .. Len(q)
    PROVE  LET w == SubSeq(q, 1, m - 1) \o SubSeq(q, m + 1, Len(q))
           IN  /\ w \in Seq(S) /\ Len(w) = Len(q) - 1
               /\ \A i \in 1 .. Len(q) - 1 : w[i] = IF i < m THEN q[i] ELSE q[i + 1]
<1> DEFINE a == SubSeq(q, 1, m - 1)
           b == SubSeq(q, m + 1, Len(q))
           w == a \o b
<1>0. Len(q) \in Nat /\ m \in Nat /\ 1 <= m /\ m <= Len(q)
  OBVIOUS
<1>1. a \in Seq(S) /\ Len(a) = m - 1 /\ \A i \in 1 .. m - 1 : a[i] = q[i]
  <2>1. m - 1 \in Int /\ \A i \in 1 .. m - 1 : q[i] \in S
    BY <1>0
  <2>2. QED  BY <1>0, <2>1, SMTT(30)
<1>2. /\ b \in Seq(S) /\ Len(b) = Len(q) - m
      /\ \A i \in 1 .. Len(q) - m : b[i] = q[m + i]
  <2>1. m \in 0 .. Len(q)
    BY <1>0
  <2>2. QED  BY <2>1, CutProperties, Zenon
<1> HIDE DEF a, b
<1>3. /\ w \in Seq(S) /\ Len(w) = Len(a) + Len(b)
      /\ \A i \in 1 .. Len(a) + Len(b) :
            w[i] = IF i <= Len(a) THEN a[i] ELSE b[i - Len(a)]
  BY <1>1, <1>2, Joined, Zenon
<1> HIDE DEF w
<1>4. Len(w) = Len(q) - 1
  BY <1>0, <1>1, <1>2, <1>3
<1>5. ASSUME NEW i \in 1 .. Len(q) - 1
      PROVE  w[i] = IF i < m THEN q[i] ELSE q[i + 1]
  <2>1. i \in 1 .. Len(a) + Len(b)
    BY <1>0, <1>1, <1>2
  <2>2. w[i] = IF i <= Len(a) THEN a[i] ELSE b[i - Len(a)]
    BY <1>3, <2>1, Zenon
  <2>3. CASE i < m
    <3>1. i <= m - 1 /\ i \in 1 .. m - 1
      BY <1>0, <2>3
    <3>2. QED  BY <1>1, <2>2, <2>3, <3>1, Zenon
  <2>4. CASE ~ (i < m)
    <3>1. /\ ~ (i <= m - 1) /\ i - (m - 1) \in 1 .. Len(q) - m
          /\ m + (i - (m - 1)) = i + 1
      BY <1>0, <2>4
    <3>2. QED  BY <1>1, <1>2, <2>2, <2>4, <3>1, Zenon
  <2>5. QED  BY <2>3, <2>4, Zenon
<1>6. QED  BY <1>3, <1>4, <1>5, Zenon DEF w, a, b

\* A sequence of numbers that never falls.
Ordered(q) == \A i, j \in DOMAIN q : i <= j => q[i] <= q[j]

\* The tail of a sequence is the sequence one further on.
LEMMA TailAt ==
    ASSUME NEW S, NEW q \in Seq(S), q # <<>>
    PROVE  \A i \in DOMAIN Tail(q) : i + 1 \in DOMAIN q /\ Tail(q)[i] = q[i + 1]
OBVIOUS

\* Nothing in the tail of such a sequence is below its head.
LEMMA OrderedTail ==
    ASSUME NEW S, S \subseteq Nat, NEW q \in Seq(S), q # <<>>, Ordered(q)
    PROVE  Ordered(Tail(q)) /\ \A g \in Range(Tail(q)) : Head(q) <= g
<1> DEFINE t == Tail(q)
<1>1. /\ Head(q) = q[1] /\ Len(q) \in Nat \ {0}
      /\ DOMAIN q = 1 .. Len(q) /\ DOMAIN t = 1 .. Len(q) - 1
      /\ \A i \in 1 .. Len(q) - 1 : t[i] = q[i + 1]
      /\ \A i \in 1 .. Len(q) : q[i] \in S
  OBVIOUS
<1> HIDE DEF t
<1>2. \A i, j \in 1 .. Len(q) : i <= j => q[i] <= q[j]
  BY <1>1, Zenon DEF Ordered
<1>3. \A i, j \in 1 .. Len(q) - 1 : i <= j => t[i] <= t[j]
  BY <1>1, <1>2
<1>4. \A i \in 1 .. Len(q) - 1 : Head(q) <= t[i]
  BY <1>1, <1>2
<1>5. QED  BY <1>1, <1>3, <1>4, Zenon DEF Ordered, Range, t

\* Copies of a number that is not below any other go to the end.
LEMMA OrderedExtend ==
    ASSUME NEW S, S \subseteq Nat, NEW q \in Seq(S), NEW h \in S, NEW n \in Nat, Ordered(q),
           \A i \in DOMAIN q : q[i] <= h
    PROVE  LET w == q \o [i \in 1 .. n |-> h]
           IN  w \in Seq(S) /\ Ordered(w) /\ \A i \in DOMAIN w : w[i] <= h
<1> DEFINE b == [i \in 1 .. n |-> h]
           w == q \o b
<1>1. b \in Seq(S) /\ Len(b) = n /\ \A i \in 1 .. n : b[i] = h
  OBVIOUS
<1> HIDE DEF b
<1>2. /\ w \in Seq(S) /\ Len(w) = Len(q) + n
      /\ \A i \in 1 .. Len(q) + n :
            w[i] = IF i <= Len(q) THEN q[i] ELSE b[i - Len(q)]
  BY <1>1, Joined, Zenon
<1> HIDE DEF w
<1>3. Len(q) \in Nat /\ DOMAIN q = 1 .. Len(q) /\ DOMAIN w = 1 .. Len(q) + n
  BY <1>2
<1>4. \A i \in 1 .. Len(q) + n :
         \/ i \in 1 .. Len(q) /\ w[i] = q[i]
         \/ i > Len(q) /\ w[i] = h
  <2>1. TAKE i \in 1 .. Len(q) + n
  <2>2. i <= Len(q) => i \in 1 .. Len(q)
    BY <1>3
  <2>3. ~ (i <= Len(q)) => i > Len(q) /\ i - Len(q) \in 1 .. n
    BY <1>3
  <2>4. QED  BY <1>1, <1>2, <2>2, <2>3, Zenon
<1>5. h \in Nat /\ \A i \in 1 .. Len(q) : q[i] \in Nat /\ q[i] <= h
  <2>1. \A i \in 1 .. Len(q) : q[i] \in S
    OBVIOUS
  <2>2. QED  BY <1>3, <2>1, Zenon
<1>6. Ordered(w)
  BY <1>3, <1>4, <1>5 DEF Ordered
<1>7. \A i \in DOMAIN w : w[i] <= h
  BY <1>3, <1>4, <1>5
<1>8. QED  BY <1>2, <1>6, <1>7, Zenon DEF w, b

\* What is left of an ordered sequence without its m-th element is ordered.
LEMMA OrderedCut ==
    ASSUME NEW l \in Nat, NEW m \in 1 .. l, NEW q, NEW w, NEW n \in Nat,
           DOMAIN q = 1 .. l, DOMAIN w = 1 .. l - 1,
           \A i \in 1 .. l : q[i] \in Nat /\ q[i] <= n,
           \A i \in 1 .. l - 1 : w[i] = IF i < m THEN q[i] ELSE q[i + 1],
           Ordered(q)
    PROVE  Ordered(w) /\ \A i \in DOMAIN w : w[i] <= n
<1>1. \A i, j \in 1 .. l : i <= j => q[i] <= q[j]
  BY Zenon DEF Ordered
<1>2. ASSUME NEW i \in 1 .. l - 1, NEW j \in 1 .. l - 1, i <= j
      PROVE  w[i] <= w[j]
  <2>1. i \in 1 .. l /\ j \in 1 .. l /\ i + 1 \in 1 .. l /\ j + 1 \in 1 .. l
    OBVIOUS
  <2>2. CASE j < m
    BY <1>1, <1>2, <2>1, <2>2
  <2>3. CASE ~ (i < m)
    <3>1. w[i] = q[i + 1] /\ w[j] = q[j + 1] /\ i + 1 <= j + 1
      BY <1>2, <2>1, <2>3
    <3>2. QED  BY <1>1, <2>1, <3>1, Zenon
  <2>4. CASE i < m /\ ~ (j < m)
    <3>1. w[i] = q[i] /\ w[j] = q[j + 1] /\ i <= j + 1
      BY <1>2, <2>1, <2>4
    <3>2. QED  BY <1>1, <2>1, <3>1, Zenon
  <2>5. QED  BY <2>2, <2>3, <2>4, Zenon
<1>3. \A i \in 1 .. l - 1 : w[i] <= n
  OBVIOUS
<1>4. QED  BY <1>2, <1>3, Zenon DEF Ordered

\* The values an RPUSH or an LPUSH of n values brings.
LEMMA NewValsType ==
    ASSUME NEW n \in Nat, nVal \in Nat, nVal + n <= MaxVals
    PROVE  /\ NewVals(n) \in Seq(Vals)
           /\ Range(NewVals(n)) = nVal + 1 .. nVal + n /\ IsInjective(NewVals(n))
           /\ NewValsPrepended(n) \in Seq(Vals)
           /\ Range(NewValsPrepended(n)) = nVal + 1 .. nVal + n
           /\ IsInjective(NewValsPrepended(n))
<1>1. /\ NewVals(n) \in Seq(Vals) /\ Len(NewVals(n)) = n
      /\ \A i \in 1 .. n : NewVals(n)[i] = nVal + i
  BY BoundsAssumption DEF NewVals, Vals
<1>2. /\ NewValsPrepended(n) \in Seq(Vals) /\ Len(NewValsPrepended(n)) = n
      /\ \A i \in 1 .. n : NewValsPrepended(n)[i] = nVal + ((n - i) + 1)
  BY BoundsAssumption DEF NewValsPrepended, Vals
<1> DEFINE a == NewVals(n)
           b == NewValsPrepended(n)
<1> HIDE DEF a, b
<1>3. /\ Range(a) = {a[i] : i \in 1 .. n}
      /\ Range(b) = {b[i] : i \in 1 .. n}
  <2>1. a \in Seq(Vals) /\ Len(a) = n /\ b \in Seq(Vals) /\ Len(b) = n
    BY <1>1, <1>2, Zenon DEF a, b
  <2>2. Range(a) = {a[i] : i \in 1 .. Len(a)} /\ Range(b) = {b[i] : i \in 1 .. Len(b)}
    BY <2>1, RangeIsIn, Zenon
  <2>3. QED  BY <2>1, <2>2, Zenon
<1>4. \A v \in nVal + 1 .. nVal + n : v - nVal \in 1 .. n /\ v = nVal + (v - nVal)
  OBVIOUS
<1>5. \A i \in 1 .. n : nVal + i \in nVal + 1 .. nVal + n
  OBVIOUS
<1>6. Range(NewVals(n)) = nVal + 1 .. nVal + n
  BY <1>1, <1>3, <1>4, <1>5 DEF a
<1>7. \A v \in nVal + 1 .. nVal + n :
         /\ (nVal + n + 1) - v \in 1 .. n
         /\ v = nVal + ((n - ((nVal + n + 1) - v)) + 1)
  OBVIOUS
<1>8. \A i \in 1 .. n : nVal + ((n - i) + 1) \in nVal + 1 .. nVal + n
  OBVIOUS
<1>9. Range(NewValsPrepended(n)) = nVal + 1 .. nVal + n
  BY <1>2, <1>3, <1>7, <1>8 DEF b
<1>10. IsInjective(NewVals(n))
  BY DEF IsInjective, NewVals
<1>11. IsInjective(NewValsPrepended(n))
  BY DEF IsInjective, NewValsPrepended
<1>12. QED  BY <1>1, <1>2, <1>6, <1>9, <1>10, <1>11, Zenon

\* Dropping one element of a sequence without repetitions drops it for good.
LEMMA RangeRemoveFirst ==
    ASSUME NEW S, NEW q \in Seq(S), NEW h, IsInjective(q)
    PROVE  /\ RemoveFirst(q, h) \in Seq(S)
           /\ Range(RemoveFirst(q, h)) = Range(q) \ {h}
           /\ IsInjective(RemoveFirst(q, h))
<1>0. /\ Len(q) \in Nat /\ DOMAIN q = 1 .. Len(q)
      /\ Range(q) = {q[i] : i \in 1 .. Len(q)}
  BY RangeIsIn
<1>1. CASE h \notin Range(q)
  BY <1>0, <1>1, Zenon DEF RemoveFirst
<1>2. CASE h \in Range(q)
  <2>1. PICK m \in 1 .. Len(q) : q[m] = h
    BY <1>0, <1>2, Zenon
  <2>2. \A i, j \in 1 .. Len(q) : q[i] = q[j] => i = j
    BY <1>0, Zenon DEF IsInjective
  <2>3. {i \in DOMAIN q : q[i] = h} = {m}
    BY <1>0, <2>1, <2>2, Zenon
  <2> DEFINE w == SubSeq(q, 1, m - 1) \o SubSeq(q, m + 1, Len(q))
  <2>4. Len(q) \in Nat /\ m \in 1 .. Len(q) /\ q[m] = h
    BY <1>0, <2>1, Zenon
  <2>5. RemoveFirst(q, h) = w
    <3>1. (CHOOSE i \in {m} : \A j \in {m} : i <= j) = m
      BY <2>4
    <3>2. QED  BY <2>3, <3>1, Zenon DEF RemoveFirst
  <2>6. /\ w \in Seq(S) /\ Len(w) = Len(q) - 1
        /\ \A i \in 1 .. Len(q) - 1 : w[i] = IF i < m THEN q[i] ELSE q[i + 1]
    BY <2>4, CutOut, Zenon
  <2> HIDE DEF w
  <2>7. Range(w) = {w[i] : i \in 1 .. Len(q) - 1} /\ DOMAIN w = 1 .. Len(q) - 1
    BY <2>6, RangeIsIn
  <2>8. \A i, j \in 1 .. Len(q) - 1 : w[i] = w[j] => i = j
    <3> DEFINE s(i) == IF i < m THEN i ELSE i + 1
    <3>1. \A i \in 1 .. Len(q) - 1 : s(i) \in 1 .. Len(q) /\ w[i] = q[s(i)]
      BY <2>4, <2>6
    <3>2. \A i, j \in 1 .. Len(q) - 1 : s(i) = s(j) => i = j
      BY <2>4
    <3> HIDE DEF s
    <3>3. \A i, j \in 1 .. Len(q) : q[i] = q[j] => i = j
      BY <1>0, <2>2, Zenon
    <3>4. QED  BY <3>1, <3>2, <3>3, Zenon
  <2>9. \A i \in 1 .. Len(q) - 1 : w[i] \in Range(q) /\ w[i] # h
    <3>1. TAKE i \in 1 .. Len(q) - 1
    <3>2. \E j \in 1 .. Len(q) : w[i] = q[j] /\ j # m
      <4>1. CASE i < m
        BY <1>0, <2>4, <2>6, <4>1
      <4>2. CASE ~ (i < m)
        <5>1. i + 1 \in 1 .. Len(q) /\ w[i] = q[i + 1] /\ i + 1 # m
          BY <1>0, <2>4, <2>6, <4>2
        <5>2. QED  BY <5>1, Zenon
      <4>3. QED  BY <4>1, <4>2, Zenon
    <3>3. QED  BY <1>0, <2>2, <2>4, <3>2, Zenon
  <2>10. \A j \in 1 .. Len(q) : q[j] # h => q[j] \in Range(w)
    <3>1. TAKE j \in 1 .. Len(q)
    <3>2. HAVE q[j] # h
    <3>3. CASE j < m
      <4>1. j \in 1 .. Len(q) - 1 /\ w[j] = q[j]
        BY <1>0, <2>4, <2>6, <3>3
      <4>2. QED  BY <2>7, <4>1, Zenon
    <3>4. CASE m < j
      <4>1. j - 1 \in 1 .. Len(q) - 1 /\ w[j - 1] = q[j]
        BY <1>0, <2>4, <2>6, <3>4
      <4>2. QED  BY <2>7, <4>1, Zenon
    <3>5. QED  BY <1>0, <2>4, <3>2, <3>3, <3>4
  <2>11. Range(w) = Range(q) \ {h}
    BY <1>0, <2>7, <2>9, <2>10, Zenon
  <2>12. QED  BY <2>5, <2>6, <2>7, <2>8, <2>11, Zenon DEF IsInjective
<1>3. QED  BY <1>1, <1>2, Zenon

\* The numbers of the channels.
LEMMA ChanNumbers ==
    /\ Chans \subseteq Nat
    /\ \A n \in 0 .. MaxChans :
          /\ n \in Nat /\ \A g \in Chans : g <= n => g <= n + 1
          /\ n < MaxChans => n + 1 \in Chans /\ n + 1 \in 0 .. MaxChans
          /\ 1 .. n \subseteq 1 .. n + 1 /\ n + 1 \in 1 .. n + 1 /\ n + 1 \notin 1 .. n
BY BoundsAssumption DEF Chans

\* The places where an argument list names key l.
Named(q, l) == {i \in DOMAIN q : q[i] = l}

\* A list of one key has that key once and no other key.
LEMMA OneKeyList ==
    ASSUME NEW S, NEW q \in Seq(S), Len(q) = 1
    PROVE  /\ q[1] \in S /\ Named(q, q[1]) = {1}
           /\ \A l : l # q[1] => Named(q, l) = {}
BY DEF Named

\* Queueing a channel once, and not at all.
LEMMA QueuedTimes ==
    ASSUME NEW S, NEW q \in Seq(S), NEW h \in S
    PROVE  /\ q \o [i \in 1 .. 1 |-> h] = Append(q, h)
           /\ q \o [i \in 1 .. 0 |-> h] = q
<1>1. [i \in 1 .. 1 |-> h] = <<h>> /\ [i \in 1 .. 0 |-> h] = <<>>
  OBVIOUS
<1>2. q \o <<h>> = Append(q, h) /\ q \o <<>> = q
  OBVIOUS
<1>3. QED  BY <1>1, <1>2, Zenon

\* removeWaiter leaves a queue as it was or cuts one entry out of it.
Cuts(q, h) ==
    \/ RemoveFirst(q, h) = q
    \/ \E m \in 1 .. Len(q) :
          RemoveFirst(q, h) = SubSeq(q, 1, m - 1) \o SubSeq(q, m + 1, Len(q))

\* What removeWaiter leaves of an ordered queue is ordered.
LEMMA OrderedRemove ==
    ASSUME NEW S, S \subseteq Nat, NEW q \in Seq(S), NEW h, NEW n \in Nat, Ordered(q),
           \A i \in DOMAIN q : q[i] <= n, Cuts(q, h)
    PROVE  /\ RemoveFirst(q, h) \in Seq(S) /\ Ordered(RemoveFirst(q, h))
           /\ \A i \in DOMAIN RemoveFirst(q, h) : RemoveFirst(q, h)[i] <= n
<1>1. CASE RemoveFirst(q, h) = q
  BY <1>1, Zenon
<1>2. ASSUME NEW m \in 1 .. Len(q)
      PROVE  LET w == SubSeq(q, 1, m - 1) \o SubSeq(q, m + 1, Len(q))
             IN  w \in Seq(S) /\ Ordered(w) /\ \A i \in DOMAIN w : w[i] <= n
  <2> DEFINE w == SubSeq(q, 1, m - 1) \o SubSeq(q, m + 1, Len(q))
  <2>1. /\ w \in Seq(S) /\ Len(w) = Len(q) - 1
        /\ \A i \in 1 .. Len(q) - 1 : w[i] = IF i < m THEN q[i] ELSE q[i + 1]
    BY CutOut, Zenon
  <2> HIDE DEF w
  <2>2. /\ Len(q) \in Nat /\ DOMAIN q = 1 .. Len(q) /\ DOMAIN w = 1 .. Len(q) - 1
        /\ \A i \in 1 .. Len(q) : q[i] \in Nat /\ q[i] <= n
    <3>1. Len(q) \in Nat /\ DOMAIN q = 1 .. Len(q) /\ \A i \in 1 .. Len(q) : q[i] \in S
      OBVIOUS
    <3>2. DOMAIN w = 1 .. Len(q) - 1
      BY <2>1, <3>1
    <3>3. QED  BY <3>1, <3>2, Zenon
  <2>3. Ordered(w) /\ \A i \in DOMAIN w : w[i] <= n
    <3>1. PICK l : l = Len(q)
      BY Zenon
    <3>2. /\ l \in Nat /\ m \in 1 .. l /\ DOMAIN q = 1 .. l /\ DOMAIN w = 1 .. l - 1
          /\ \A i \in 1 .. l : q[i] \in Nat /\ q[i] <= n
          /\ \A i \in 1 .. l - 1 : w[i] = IF i < m THEN q[i] ELSE q[i + 1]
      BY <2>1, <2>2, <3>1, Zenon
    <3>3. QED  BY ONLY <3>2, n \in Nat, Ordered(q), OrderedCut, Zenon
  <2>4. QED  BY <2>1, <2>3, Zenon DEF w
<1>3. QED  BY <1>1, <1>2, Zenon DEF Cuts

-------------------------------------------------------------------------------
(* The inductive invariant for any argument lists *)

\* A blocked call has a channel, removeWaiter's loop starts at the first key, and
\* only RPush has values in hand.
PhaseInv ==
    \A c \in Clients :
        /\ pc[c] # "rpush" => todo[c] = <<>>
        /\ pc[c] \in Waiting => ch[c] \in Chans
        /\ pc[c] \in {"remove", "found"} => at[c] # 0

\* Whoever holds values: lists, running RPUSHes, channels, and the callers that got
\* their reply, as one.
Holders ==
    ({"list"} \X Keys) \cup ({"todo"} \X Clients) \cup ({"chan"} \X Chans)
       \cup {<<"reply", 0>>}

\* The values p holds.
Held(p) ==
    IF p[1] = "list" THEN Range(list[p[2]])
    ELSE IF p[1] = "todo" THEN Range(todo[p[2]])
    ELSE IF p[1] = "chan" THEN Range(buf[p[2]]) ELSE returned

\* The values that were pushed are held, those and no others, each by one.
ApartInv ==
    /\ \A p \in Holders : Held(p) \subseteq 1 .. nVal
    /\ \A v \in 1 .. nVal : \E p \in Holders : v \in Held(p)
    /\ \A p, q \in Holders : p # q => Held(p) \cap Held(q) = {}

\* Neither a list nor an RPUSH has a value twice.
DistinctInv ==
    /\ \A k \in Keys : IsInjective(list[k])
    /\ \A c \in Clients : IsInjective(todo[c])

\* Every queue is in the order its channels were made.
OrderInv ==
    \A k \in Keys :
        Ordered(waiters[k]) /\ \A i \in DOMAIN waiters[k] : waiters[k][i] <= nCh

\* The inductive invariant for any argument lists of BLPOP.
AnyInv == TypeOK /\ PhaseInv /\ ApartInv /\ DistinctInv /\ OrderInv

\* The holders one by one.
LEMMA HeldBy ==
    /\ \A k \in Keys : <<"list", k>> \in Holders
          /\ Held(<<"list", k>>) = Range(list[k]) /\ Held(<<"list", k>>)' = Range(list'[k])
    /\ \A c \in Clients : <<"todo", c>> \in Holders
          /\ Held(<<"todo", c>>) = Range(todo[c]) /\ Held(<<"todo", c>>)' = Range(todo'[c])
    /\ \A h \in Chans : <<"chan", h>> \in Holders
          /\ Held(<<"chan", h>>) = Range(buf[h]) /\ Held(<<"chan", h>>)' = Range(buf'[h])
    /\ <<"reply", 0>> \in Holders
    /\ Held(<<"reply", 0>>) = returned /\ Held(<<"reply", 0>>)' = returned'
BY Zenon DEF Holders, Held

\* There are no others.
LEMMA HolderCases ==
    ASSUME NEW p \in Holders
    PROVE  \/ \E k \in Keys : p = <<"list", k>>
           \/ \E c \in Clients : p = <<"todo", c>>
           \/ \E h \in Chans : p = <<"chan", h>>
           \/ p = <<"reply", 0>>
BY DEF Holders

\* A holder holds what it held if its list, arguments or channel did not change.
LEMMA OthersHold ==
    ASSUME NEW P, returned' = returned \/ <<"reply", 0>> \in P,
           \A k \in Keys : list'[k] = list[k] \/ <<"list", k>> \in P,
           \A c \in Clients : todo'[c] = todo[c] \/ <<"todo", c>> \in P,
           \A h \in Chans : buf'[h] = buf[h] \/ <<"chan", h>> \in P
    PROVE  \A r \in Holders : r \notin P => Held(r)' = Held(r)
<1> SUFFICES ASSUME NEW r \in Holders, r \notin P PROVE Held(r)' = Held(r)
  BY Zenon
<1>1. ASSUME NEW k \in Keys, r = <<"list", k>> PROVE Held(r)' = Held(r)
  BY <1>1, HeldBy, Zenon
<1>2. ASSUME NEW c \in Clients, r = <<"todo", c>> PROVE Held(r)' = Held(r)
  BY <1>2, HeldBy, Zenon
<1>3. ASSUME NEW h \in Chans, r = <<"chan", h>> PROVE Held(r)' = Held(r)
  BY <1>3, HeldBy, Zenon
<1>4. ASSUME r = <<"reply", 0>> PROVE Held(r)' = Held(r)
  BY <1>4, HeldBy, Zenon
<1>5. QED  BY <1>1, <1>2, <1>3, <1>4, HolderCases, Zenon

\* The phases by name, and an empty channel.
LEMMA PhaseNames ==
    /\ "idle" \in Phases /\ "rpush" \in Phases /\ "select" \in Phases /\ "cancel" \in Phases
    /\ "remove" \in Phases /\ "found" \in Phases /\ "recv" \in Phases
    /\ <<>> \in {<<>>} \cup {<<v>> : v \in Vals} /\ <<>> \in Seq(Keys) /\ <<>> \in Seq(Vals)
    /\ 0 \in Chans \cup {0} /\ 0 \in Nat /\ 1 \in Nat /\ 2 \in Nat /\ FALSE \in BOOLEAN
BY DEF Phases

\* Values that go from one holder to another are still held by one.
LEMMA Moved ==
    ASSUME ApartInv, nVal' = nVal, NEW p \in Holders, NEW q \in Holders, p # q, NEW V,
           V \subseteq Held(p), Held(p)' = Held(p) \ V, Held(q)' = Held(q) \cup V,
           \A r \in Holders : r \notin {p, q} => Held(r)' = Held(r)
    PROVE  ApartInv'
<1>1. \A r \in Holders : Held(r)' \subseteq 1 .. nVal'
  BY DEF ApartInv
<1>2. ASSUME NEW v \in 1 .. nVal' PROVE \E r \in Holders : v \in Held(r)'
  <2>1. PICK r \in Holders : v \in Held(r)
    BY <1>2, Zenon DEF ApartInv
  <2>2. v \in Held(r)' \/ v \in Held(q)'
    BY <2>1, Zenon
  <2>3. QED  BY <2>2, Zenon
<1>3. ASSUME NEW r \in Holders, NEW s \in Holders, r # s
      PROVE  Held(r)' \cap Held(s)' = {}
  <2>1. \A t \in Holders : t # p => Held(t) \cap Held(p) = {}
    BY Zenon DEF ApartInv
  <2>2. Held(r) \cap Held(s) = {}
    BY <1>3, Zenon DEF ApartInv
  <2>3. QED  BY <1>3, <2>1, <2>2, Zenon
<1>4. Holders' = Holders
  BY Zenon DEF Holders
<1>5. QED  BY <1>1, <1>2, <1>3, <1>4, Zenon DEF ApartInv

\* New values are held by whoever brings them.
LEMMA Added ==
    ASSUME ApartInv, nVal \in Nat, NEW n \in Nat, nVal' = nVal + n, NEW q \in Holders,
           Held(q)' = Held(q) \cup (nVal + 1 .. nVal + n),
           \A r \in Holders : r \notin {q} => Held(r)' = Held(r)
    PROVE  ApartInv'
<1> DEFINE V == nVal + 1 .. nVal + n
<1>0. 1 .. nVal' = (1 .. nVal) \cup V /\ V \cap (1 .. nVal) = {}
  OBVIOUS
<1>1. Held(q)' = Held(q) \cup V
  BY Zenon
<1> HIDE DEF V
<1>2. \A r \in Holders : Held(r)' \subseteq 1 .. nVal'
  BY <1>0, <1>1 DEF ApartInv
<1>3. \A v \in 1 .. nVal' : \E r \in Holders : v \in Held(r)'
  BY <1>0, <1>1 DEF ApartInv
<1>4. ASSUME NEW r \in Holders, NEW s \in Holders, r # s
      PROVE  Held(r)' \cap Held(s)' = {}
  <2>1. \A t \in Holders : Held(t) \cap V = {}
    BY <1>0, Zenon DEF ApartInv
  <2>2. Held(r) \cap Held(s) = {}
    BY <1>4, Zenon DEF ApartInv
  <2>3. QED  BY <1>1, <1>4, <2>1, <2>2, Zenon
<1>5. Holders' = Holders
  BY Zenon DEF Holders
<1>6. QED  BY <1>2, <1>3, <1>4, <1>5, Zenon DEF ApartInv

-------------------------------------------------------------------------------
(* One lemma per operation: it preserves that invariant *)

\* A step that moves no value, and one that leaves the queues alone.
LEMMA Framed ==
    ASSUME AnyInv
    PROVE  /\ UNCHANGED <<list, todo, buf, returned, nVal>> => ApartInv' /\ DistinctInv'
           /\ UNCHANGED <<waiters, nCh>> => OrderInv'
BY DEF AnyInv, ApartInv, DistinctInv, OrderInv, Held, Holders

\* RPush takes the mutex and has its values in hand.
LEMMA RPushLockAny ==
    ASSUME AnyInv, NEW c \in Clients, NEW k \in Keys, NEW n \in RPushSizes, RPushLock(c, k, n)
    PROVE  AnyInv'
<1>1. /\ pc[c] = "idle" /\ mu' = c
      /\ pc' = [pc EXCEPT ![c] = "rpush"] /\ key' = [key EXCEPT ![c] = k]
      /\ todo' = [todo EXCEPT ![c] = NewVals(n)] /\ nVal' = nVal + n /\ nVal + n <= MaxVals
      /\ UNCHANGED <<list, keyspace, waiters, buf, keys, ch, timed, at, ctxDone, crashed,
                     nCh, returned>>
  BY Zenon DEF RPushLock, Free, storeVars, waitVars
<1>2. n \in Nat /\ nVal \in Nat /\ nVal + n \in 0 .. MaxVals
  <2>1. nVal \in 0 .. MaxVals /\ n \in Nat \ {0}
    BY SizesAssumption, Zenon DEF AnyInv, TypeOK
  <2>2. QED  BY <1>1, <2>1, BoundsAssumption
<1>3. /\ NewVals(n) \in Seq(Vals) /\ Range(NewVals(n)) = nVal + 1 .. nVal + n
      /\ IsInjective(NewVals(n))
  BY <1>1, <1>2, NewValsType, Zenon
<1>4. TypeOK'
  BY <1>1, <1>2, <1>3, PhaseNames, Zenon DEF AnyInv, TypeOK
<1>5. /\ pc'[c] = "rpush" /\ \A d \in Clients : d # c => pc'[d] = pc[d]
      /\ todo'[c] = NewVals(n) /\ \A d \in Clients : d # c => todo'[d] = todo[d]
  BY <1>1, Zenon DEF AnyInv, TypeOK
<1>6. PhaseInv'
  BY <1>1, <1>5, Zenon DEF AnyInv, PhaseInv, Waiting
<1>7. ApartInv'
  <2>1. Held(<<"todo", c>>)' = Held(<<"todo", c>>) \cup (nVal + 1 .. nVal + n)
    <3>1. Range(todo[c]) = {}
      BY <1>1, RangeOfBuffer, Zenon DEF AnyInv, PhaseInv
    <3>2. Held(<<"todo", c>>) = Range(todo[c]) /\ Held(<<"todo", c>>)' = Range(NewVals(n))
      BY <1>5, HeldBy, Zenon
    <3>3. QED  BY <1>3, <3>1, <3>2, Zenon
  <2>2. \A r \in Holders : r \notin {<<"todo", c>>} => Held(r)' = Held(r)
    BY <1>1, <1>5, OthersHold, Zenon
  <2>3. <<"todo", c>> \in Holders
    BY HeldBy, Zenon
  <2>4. QED  BY <1>1, <1>2, <2>1, <2>2, <2>3, Added, Zenon DEF AnyInv
<1>8. DistinctInv'
  BY <1>1, <1>3, <1>5, Zenon DEF AnyInv, DistinctInv
<1>9. QED  BY <1>1, <1>4, <1>6, <1>7, <1>8, Framed, Zenon DEF AnyInv

\* A hand-over moves a value from RPush's arguments to the channel that was queued
\* first.
LEMMA RPushHandAny ==
    ASSUME AnyInv, NEW c \in Clients, RPushHand(c) PROVE AnyInv'
<1>0. PICK k, h, v : k = key[c] /\ h = Head(waiters[k]) /\ v = Head(todo[c])
  BY Zenon
<1>1. /\ todo[c] \in Seq(Vals) /\ todo[c] # <<>> /\ k \in Keys /\ IsInjective(todo[c])
      /\ waiters[k] \in Seq(Chans) /\ waiters[k] # <<>>
  BY <1>0, Zenon DEF RPushHand, AnyInv, TypeOK, DistinctInv
<1>2. /\ v \in Vals /\ Tail(todo[c]) \in Seq(Vals)
      /\ Range(todo[c]) = {v} \cup Range(Tail(todo[c]))
      /\ h \in Chans /\ Tail(waiters[k]) \in Seq(Chans)
  BY <1>0, <1>1, RangeHeadTail, Zenon
<1>3. v \notin Range(Tail(todo[c])) /\ IsInjective(Tail(todo[c]))
  BY <1>0, <1>1, InjectiveTail, Zenon
<1>5. /\ buf' = [buf EXCEPT ![h] = <<v>>]
      /\ waiters' = [waiters EXCEPT ![k] = Tail(waiters[k])]
      /\ todo' = [todo EXCEPT ![c] = Tail(todo[c])]
      /\ buf[h] = <<>> /\ pc[c] = "rpush"
      /\ UNCHANGED <<list, keyspace, mu, pc, key, keys, ch, timed, at, ctxDone, crashed,
                     nVal, nCh, returned>>
  BY <1>0, Zenon DEF RPushHand, waitVars
<1>6. TypeOK'
  BY <1>1, <1>2, <1>5, Zenon DEF AnyInv, TypeOK
<1>7. /\ buf'[h] = <<v>> /\ \A g \in Chans : g # h => buf'[g] = buf[g]
      /\ waiters'[k] = Tail(waiters[k]) /\ \A l \in Keys : l # k => waiters'[l] = waiters[l]
      /\ todo'[c] = Tail(todo[c]) /\ \A e \in Clients : e # c => todo'[e] = todo[e]
  BY <1>1, <1>2, <1>5, Zenon DEF AnyInv, TypeOK
<1>8. PhaseInv'
  BY <1>5, <1>7, Zenon DEF AnyInv, PhaseInv
<1>9. ApartInv'
  <2>1. Held(<<"todo", c>>)' = Held(<<"todo", c>>) \ {v} /\ {v} \subseteq Held(<<"todo", c>>)
    <3>1. Held(<<"todo", c>>) = Range(todo[c]) /\ Held(<<"todo", c>>)' = Range(Tail(todo[c]))
      BY <1>7, HeldBy, Zenon
    <3>2. QED  BY <1>2, <1>3, <3>1, Zenon
  <2>2. Held(<<"chan", h>>)' = Held(<<"chan", h>>) \cup {v}
    <3>1. Range(buf[h]) = {} /\ Range(buf'[h]) = {v}
      BY <1>5, <1>7, RangeOfBuffer, Zenon
    <3>2. QED  BY <1>2, <3>1, HeldBy, Zenon
  <2>3. \A r \in Holders : r \notin {<<"todo", c>>, <<"chan", h>>} => Held(r)' = Held(r)
    BY <1>5, <1>7, OthersHold, Zenon
  <2>4. <<"todo", c>> \in Holders /\ <<"chan", h>> \in Holders /\ <<"todo", c>> # <<"chan", h>>
    BY <1>2, HeldBy, Zenon
  <2>5. ApartInv /\ nVal' = nVal
    BY <1>5, Zenon DEF AnyInv
  <2>6. QED  BY <2>1, <2>2, <2>3, <2>4, <2>5, Moved, Zenon
<1>10. DistinctInv'
  BY <1>3, <1>5, <1>7, Zenon DEF AnyInv, DistinctInv
<1>11. OrderInv'
  <2>1. Chans \subseteq Nat
    BY DEF Chans
  <2>2. Ordered(Tail(waiters[k]))
    BY <1>1, <2>1, OrderedTail, Zenon DEF AnyInv, OrderInv
  <2>3. \A i \in DOMAIN Tail(waiters[k]) : Tail(waiters[k])[i] <= nCh
    <3>1. \A i \in DOMAIN waiters[k] : waiters[k][i] <= nCh
      BY <1>1, Zenon DEF AnyInv, OrderInv
    <3>2. \A i \in DOMAIN Tail(waiters[k]) :
              i + 1 \in DOMAIN waiters[k] /\ Tail(waiters[k])[i] = waiters[k][i + 1]
      BY <1>1, TailAt, Zenon
    <3>3. QED  BY <3>1, <3>2, Zenon
  <2>4. QED  BY <1>5, <1>7, <2>2, <2>3, Zenon DEF AnyInv, OrderInv
<1>12. QED  BY <1>6, <1>8, <1>9, <1>10, <1>11, Zenon DEF AnyInv

\* An append moves a value from RPush's arguments to the list.
LEMMA RPushAppendAny ==
    ASSUME AnyInv, NEW c \in Clients, RPushAppend(c) PROVE AnyInv'
<1>0. PICK k, v : k = key[c] /\ v = Head(todo[c])
  BY Zenon
<1>1. /\ todo[c] \in Seq(Vals) /\ todo[c] # <<>> /\ k \in Keys /\ list[k] \in Seq(Vals)
      /\ IsInjective(todo[c]) /\ IsInjective(list[k])
  BY <1>0, Zenon DEF RPushAppend, AnyInv, TypeOK, DistinctInv
<1>2. /\ v \in Vals /\ Tail(todo[c]) \in Seq(Vals)
      /\ Range(todo[c]) = {v} \cup Range(Tail(todo[c]))
  BY <1>0, <1>1, RangeHeadTail, Zenon
<1>3. v \notin Range(Tail(todo[c])) /\ IsInjective(Tail(todo[c]))
  BY <1>0, <1>1, InjectiveTail, Zenon
<1>4. /\ list' = [list EXCEPT ![k] = Append(list[k], v)]
      /\ todo' = [todo EXCEPT ![c] = Tail(todo[c])] /\ pc[c] = "rpush"
      /\ UNCHANGED <<keyspace, waiters, buf, mu, pc, key, keys, ch, timed, at, ctxDone,
                     crashed, nVal, nCh, returned>>
  BY <1>0, Zenon DEF RPushAppend, waitVars
<1>5. v \notin Range(list[k])
  <2>1. Held(<<"todo", c>>) \cap Held(<<"list", k>>) = {}
    BY <1>1, HeldBy, Zenon DEF AnyInv, ApartInv
  <2>2. QED  BY <1>1, <1>2, <2>1, HeldBy, Zenon
<1>6. /\ Append(list[k], v) \in Seq(Vals) /\ Range(Append(list[k], v)) = Range(list[k]) \cup {v}
      /\ IsInjective(Append(list[k], v))
  <2>1. list[k] \in Seq(Vals) /\ v \in Vals /\ IsInjective(list[k]) /\ v \notin Range(list[k])
    BY <1>1, <1>2, <1>5, Zenon
  <2>2. QED  BY <2>1, InjectiveAppend
<1>7. TypeOK'
  BY <1>1, <1>2, <1>4, <1>6, Zenon DEF AnyInv, TypeOK
<1>8. /\ list'[k] = Append(list[k], v) /\ \A l \in Keys : l # k => list'[l] = list[l]
      /\ todo'[c] = Tail(todo[c]) /\ \A d \in Clients : d # c => todo'[d] = todo[d]
  BY <1>1, <1>4, Zenon DEF AnyInv, TypeOK
<1>9. PhaseInv'
  BY <1>4, <1>8, Zenon DEF AnyInv, PhaseInv
<1>10. ApartInv'
  <2>1. Held(<<"todo", c>>)' = Held(<<"todo", c>>) \ {v} /\ {v} \subseteq Held(<<"todo", c>>)
    <3>1. Held(<<"todo", c>>) = Range(todo[c]) /\ Held(<<"todo", c>>)' = Range(Tail(todo[c]))
      BY <1>8, HeldBy, Zenon
    <3>2. QED  BY <1>2, <1>3, <3>1, Zenon
  <2>2. Held(<<"list", k>>)' = Held(<<"list", k>>) \cup {v}
    BY <1>1, <1>6, <1>8, HeldBy, Zenon
  <2>3. \A r \in Holders : r \notin {<<"todo", c>>, <<"list", k>>} => Held(r)' = Held(r)
    BY <1>4, <1>8, OthersHold, Zenon
  <2>4. <<"todo", c>> \in Holders /\ <<"list", k>> \in Holders /\ <<"todo", c>> # <<"list", k>>
    BY <1>1, HeldBy, Zenon
  <2>5. ApartInv /\ nVal' = nVal
    BY <1>4, Zenon DEF AnyInv
  <2>6. QED  BY <2>1, <2>2, <2>3, <2>4, <2>5, Moved, Zenon
<1>11. DistinctInv'
  BY <1>3, <1>6, <1>8, Zenon DEF AnyInv, DistinctInv
<1>12. QED  BY <1>4, <1>7, <1>9, <1>10, <1>11, Framed, Zenon DEF AnyInv

\* RPush returns with nothing in hand.
LEMMA RPushReturnAny ==
    ASSUME AnyInv, NEW c \in Clients, RPushReturn(c) PROVE AnyInv'
<1>1. /\ todo[c] = <<>> /\ pc' = [pc EXCEPT ![c] = "idle"] /\ key' = [key EXCEPT ![c] = AnyKey]
      /\ keyspace' = keyspace \cup {key[c]} /\ mu' = NoClient
      /\ UNCHANGED <<list, waiters, buf, todo, keys, ch, timed, at, ctxDone, crashed,
                     nVal, nCh, returned>>
  BY Zenon DEF RPushReturn, waitVars
<1>2. AnyKey \in Keys
  BY KeysAssumption, Zenon DEF AnyKey
<1>3. TypeOK'
  BY <1>1, <1>2, Zenon DEF AnyInv, TypeOK, Phases
<1>4. pc'[c] = "idle" /\ \A d \in Clients : d # c => pc'[d] = pc[d]
  BY <1>1, Zenon DEF AnyInv, TypeOK
<1>5. PhaseInv'
  BY <1>1, <1>4, Zenon DEF AnyInv, PhaseInv, Waiting
<1>6. QED  BY <1>1, <1>3, <1>5, Framed, Zenon DEF AnyInv

\* LPush puts new values in front of the list.
LEMMA LPushAny ==
    ASSUME AnyInv, NEW c \in Clients, NEW k \in Keys, NEW n \in LPushSizes, LPush(c, k, n)
    PROVE  AnyInv'
<1> DEFINE new == NewValsPrepended(n)
<1>1. /\ list' = [list EXCEPT ![k] = new \o list[k]]
      /\ keyspace' = keyspace \cup {k} /\ nVal' = nVal + n /\ nVal + n <= MaxVals
      /\ UNCHANGED <<waiters, buf, mu, pc, key, todo, keys, ch, timed, at, ctxDone, crashed,
                     nCh, returned>>
  BY Zenon DEF LPush, pushVars, waitVars
<1>2. /\ n \in Nat /\ nVal \in Nat /\ nVal + n \in 0 .. MaxVals /\ list[k] \in Seq(Vals)
      /\ IsInjective(list[k])
  <2>1. nVal \in 0 .. MaxVals /\ list[k] \in Seq(Vals) /\ IsInjective(list[k]) /\ n \in Nat \ {0}
    BY SizesAssumption, Zenon DEF AnyInv, TypeOK, DistinctInv
  <2>2. QED  BY <1>1, <2>1, BoundsAssumption
<1>3. new \in Seq(Vals) /\ Range(new) = nVal + 1 .. nVal + n /\ IsInjective(new)
  BY <1>1, <1>2, NewValsType, Zenon
<1> HIDE DEF new
<1>4. Range(new) \cap Range(list[k]) = {}
  <2>1. Range(list[k]) \subseteq 1 .. nVal
    <3>1. Held(<<"list", k>>) \subseteq 1 .. nVal
      BY HeldBy, Zenon DEF AnyInv, ApartInv
    <3>2. QED  BY <3>1, HeldBy, Zenon
  <2>2. QED  BY <1>2, <1>3, <2>1
<1>5. /\ new \o list[k] \in Seq(Vals) /\ Range(new \o list[k]) = Range(new) \cup Range(list[k])
      /\ IsInjective(new \o list[k])
  BY <1>2, <1>3, <1>4, InjectiveConcat, Zenon
<1>6. TypeOK'
  BY <1>1, <1>2, <1>5, Zenon DEF AnyInv, TypeOK
<1>7. list'[k] = new \o list[k] /\ \A l \in Keys : l # k => list'[l] = list[l]
  BY <1>1, Zenon DEF AnyInv, TypeOK
<1>8. PhaseInv'
  BY <1>1, Zenon DEF AnyInv, PhaseInv
<1>9. ApartInv'
  <2>1. Held(<<"list", k>>)' = Held(<<"list", k>>) \cup (nVal + 1 .. nVal + n)
    BY <1>3, <1>5, <1>7, HeldBy, Zenon
  <2>2. \A r \in Holders : r \notin {<<"list", k>>} => Held(r)' = Held(r)
    BY <1>1, <1>7, OthersHold, Zenon
  <2>3. <<"list", k>> \in Holders
    BY HeldBy, Zenon
  <2>4. QED  BY <1>1, <1>2, <2>1, <2>2, <2>3, Added, Zenon DEF AnyInv
<1>10. DistinctInv'
  BY <1>1, <1>5, <1>7, Zenon DEF AnyInv, DistinctInv
<1>11. QED  BY <1>1, <1>6, <1>8, <1>9, <1>10, Framed, Zenon DEF AnyInv

\* LPop moves what it takes from the list to its caller.
LEMMA LPopAny ==
    ASSUME AnyInv, NEW c \in Clients, NEW k \in Keys, NEW n \in PopCounts, LPop(c, k, n)
    PROVE  AnyInv'
<1> DEFINE a == SubSeq(list[k], 1, n)
           b == SubSeq(list[k], n + 1, Len(list[k]))
<1>1. /\ list' = [list EXCEPT ![k] = b] /\ returned' = returned \cup Range(a)
      /\ n <= Len(list[k])
      /\ UNCHANGED <<keyspace, waiters, buf, mu, pc, key, todo, keys, ch, timed, at,
                     ctxDone, crashed, nVal, nCh>>
  BY Zenon DEF LPop, pushVars, waitVars
<1>2. list[k] \in Seq(Vals) /\ n \in 0 .. Len(list[k]) /\ IsInjective(list[k])
  <2>1. list[k] \in Seq(Vals) /\ IsInjective(list[k]) /\ n \in Nat
    BY SizesAssumption, Zenon DEF AnyInv, TypeOK, DistinctInv
  <2>2. QED  BY <1>1, <2>1
<1>3. /\ a \in Seq(Vals) /\ b \in Seq(Vals) /\ Range(list[k]) = Range(a) \cup Range(b)
      /\ IsInjective(b) /\ Range(a) \cap Range(b) = {}
  BY <1>2, RangeCut, Zenon
<1> HIDE DEF a, b
<1>4. Range(a) \subseteq Vals
  BY <1>3, RangeIsIn, Zenon
<1>5. TypeOK'
  BY <1>1, <1>3, <1>4, Zenon DEF AnyInv, TypeOK
<1>6. list'[k] = b /\ \A l \in Keys : l # k => list'[l] = list[l]
  BY <1>1, Zenon DEF AnyInv, TypeOK
<1>7. PhaseInv'
  BY <1>1, Zenon DEF AnyInv, PhaseInv
<1>8. ApartInv'
  <2>1. Held(<<"list", k>>)' = Held(<<"list", k>>) \ Range(a)
        /\ Range(a) \subseteq Held(<<"list", k>>)
    <3>1. Held(<<"list", k>>) = Range(list[k]) /\ Held(<<"list", k>>)' = Range(b)
      BY <1>6, HeldBy, Zenon
    <3>2. QED  BY <1>3, <3>1, Zenon
  <2>2. Held(<<"reply", 0>>)' = Held(<<"reply", 0>>) \cup Range(a)
    BY <1>1, HeldBy, Zenon
  <2>3. \A r \in Holders : r \notin {<<"list", k>>, <<"reply", 0>>} => Held(r)' = Held(r)
    BY <1>1, <1>6, OthersHold, Zenon
  <2>4. <<"list", k>> \in Holders /\ <<"reply", 0>> \in Holders /\ <<"list", k>> # <<"reply", 0>>
    BY HeldBy, Zenon
  <2>5. ApartInv /\ nVal' = nVal
    BY <1>1, Zenon DEF AnyInv
  <2>6. QED  BY <2>1, <2>2, <2>3, <2>4, <2>5, Moved, Zenon
<1>9. DistinctInv'
  BY <1>1, <1>3, <1>6, Zenon DEF AnyInv, DistinctInv
<1>10. QED  BY <1>1, <1>5, <1>7, <1>8, <1>9, Framed, Zenon DEF AnyInv

\* BLpop moves the element it takes from a list to its caller.
LEMMA BLpopTakeAny ==
    ASSUME AnyInv, NEW c \in Clients, NEW ks \in KeyLists, BLpopTake(c, ks) PROVE AnyInv'
<1>1. PICK i \in DOMAIN ks :
        /\ list[ks[i]] # <<>>
        /\ returned' = returned \cup {Head(list[ks[i]])}
        /\ list' = [list EXCEPT ![ks[i]] = Tail(@)]
        /\ keyspace' \subseteq keyspace
        /\ UNCHANGED <<waiters, buf, mu, pc, key, todo, keys, ch, timed, at, ctxDone,
                       crashed, nVal, nCh>>
  BY Zenon DEF BLpopTake, pushVars, waitVars
<1>2. PICK k \in Keys : k = ks[i]
  <2>1. ks \in Seq(Keys)
    BY CallsAssumption, Zenon
  <2>2. QED  BY <2>1
<1>3. PICK v : v = Head(list[k])
  BY Zenon
<1>4. list[k] \in Seq(Vals) /\ list[k] # <<>> /\ IsInjective(list[k])
  BY <1>1, <1>2, Zenon DEF AnyInv, TypeOK, DistinctInv
<1>5. /\ v \in Vals /\ Tail(list[k]) \in Seq(Vals)
      /\ Range(list[k]) = {v} \cup Range(Tail(list[k]))
  BY <1>3, <1>4, RangeHeadTail, Zenon
<1>6. v \notin Range(Tail(list[k])) /\ IsInjective(Tail(list[k]))
  BY <1>3, <1>4, InjectiveTail, Zenon
<1>7. TypeOK'
  BY <1>1, <1>2, <1>3, <1>5, Zenon DEF AnyInv, TypeOK
<1>8. list'[k] = Tail(list[k]) /\ \A l \in Keys : l # k => list'[l] = list[l]
  BY <1>1, <1>2, Zenon DEF AnyInv, TypeOK
<1>9. PhaseInv'
  BY <1>1, Zenon DEF AnyInv, PhaseInv
<1>10. ApartInv'
  <2>1. Held(<<"list", k>>)' = Held(<<"list", k>>) \ {v} /\ {v} \subseteq Held(<<"list", k>>)
    <3>1. Held(<<"list", k>>) = Range(list[k]) /\ Held(<<"list", k>>)' = Range(Tail(list[k]))
      BY <1>8, HeldBy, Zenon
    <3>2. QED  BY <1>5, <1>6, <3>1, Zenon
  <2>2. Held(<<"reply", 0>>)' = Held(<<"reply", 0>>) \cup {v}
    BY <1>1, <1>2, <1>3, HeldBy, Zenon
  <2>3. \A r \in Holders : r \notin {<<"list", k>>, <<"reply", 0>>} => Held(r)' = Held(r)
    BY <1>1, <1>8, OthersHold, Zenon
  <2>4. <<"list", k>> \in Holders /\ <<"reply", 0>> \in Holders /\ <<"list", k>> # <<"reply", 0>>
    BY HeldBy, Zenon
  <2>5. ApartInv /\ nVal' = nVal
    BY <1>1, Zenon DEF AnyInv
  <2>6. QED  BY <2>1, <2>2, <2>3, <2>4, <2>5, Moved, Zenon
<1>11. DistinctInv'
  BY <1>1, <1>6, <1>8, Zenon DEF AnyInv, DistinctInv
<1>12. QED  BY <1>1, <1>7, <1>9, <1>10, <1>11, Framed, Zenon DEF AnyInv

\* A received value moves from the channel to the caller.
LEMMA TakeAny ==
    ASSUME AnyInv, NEW c \in Clients, pc[c] \in {"select", "recv"}, Take(c) PROVE AnyInv'
<1>0. PICK h : h = ch[c]
  BY Zenon
<1>1. h \in Chans
  BY <1>0, Zenon DEF AnyInv, PhaseInv, Waiting
<1>2. PICK v \in Vals : buf[h] = <<v>>
  <2>1. buf[h] \in {<<>>} \cup {<<v>> : v \in Vals} /\ buf[h] # <<>>
    BY <1>0, <1>1, Zenon DEF Take, AnyInv, TypeOK
  <2>2. QED  BY <2>1, Zenon
<1>3. /\ returned' = returned \cup {v} /\ buf' = [buf EXCEPT ![h] = <<>>]
      /\ pc' = [pc EXCEPT ![c] = "idle"] /\ keys' = [keys EXCEPT ![c] = <<>>]
      /\ ch' = [ch EXCEPT ![c] = 0] /\ timed' = [timed EXCEPT ![c] = FALSE]
      /\ at' = [at EXCEPT ![c] = 0]
      /\ UNCHANGED <<list, keyspace, waiters, mu, key, todo, ctxDone, crashed, nVal, nCh>>
  <2>1. Head(buf[h]) = v
    BY <1>2
  <2>2. QED  BY <1>0, <2>1, Zenon DEF Take, Leave, pushVars
<1>4. TypeOK'
  BY <1>1, <1>2, <1>3, PhaseNames, Zenon DEF AnyInv, TypeOK
<1>5. /\ buf'[h] = <<>> /\ \A g \in Chans : g # h => buf'[g] = buf[g]
      /\ pc'[c] = "idle" /\ \A e \in Clients : e # c => pc'[e] = pc[e]
      /\ \A e \in Clients : e # c => ch'[e] = ch[e] /\ at'[e] = at[e]
  BY <1>1, <1>3, Zenon DEF AnyInv, TypeOK
<1>6. PhaseInv'
  BY <1>3, <1>5, Zenon DEF AnyInv, PhaseInv, Waiting
<1>7. ApartInv'
  <2>1. Held(<<"chan", h>>)' = Held(<<"chan", h>>) \ {v} /\ {v} \subseteq Held(<<"chan", h>>)
    <3>1. Range(buf[h]) = {v} /\ Range(buf'[h]) = {}
      BY <1>2, <1>5, RangeOfBuffer, Zenon
    <3>2. QED  BY <1>1, <3>1, HeldBy, Zenon
  <2>2. Held(<<"reply", 0>>)' = Held(<<"reply", 0>>) \cup {v}
    BY <1>3, HeldBy, Zenon
  <2>3. \A r \in Holders : r \notin {<<"chan", h>>, <<"reply", 0>>} => Held(r)' = Held(r)
    BY <1>3, <1>5, OthersHold, Zenon
  <2>4. <<"chan", h>> \in Holders /\ <<"reply", 0>> \in Holders /\ <<"chan", h>> # <<"reply", 0>>
    BY <1>1, HeldBy, Zenon
  <2>5. ApartInv /\ nVal' = nVal
    BY <1>3, Zenon DEF AnyInv
  <2>6. QED  BY <2>1, <2>2, <2>3, <2>4, <2>5, Moved, Zenon
<1>8. DistinctInv'
  BY <1>3, Zenon DEF AnyInv, DistinctInv
<1>9. QED  BY <1>3, <1>4, <1>6, <1>7, <1>8, Framed, Zenon DEF AnyInv

\* A call gives up, takes the mutex, or leaves it: no value moves.
LEMMA GiveUpAny ==
    ASSUME AnyInv, NEW c \in Clients,
           GiveUp(c) \/ CancelLock(c) \/ CancelNil(c) \/ CancelClaimed(c)
    PROVE  AnyInv'
<1>1. UNCHANGED <<list, keyspace, waiters, buf, key, todo, ctxDone, crashed, nVal, nCh, returned>>
  BY Zenon DEF GiveUp, CancelLock, CancelNil, CancelClaimed, storeVars, pushVars
<1>2. CASE GiveUp(c)
  <2>1. /\ pc[c] = "select" /\ pc' = [pc EXCEPT ![c] = "cancel"]
        /\ UNCHANGED <<mu, keys, ch, timed, at>>
    BY <1>2, Zenon DEF GiveUp, waitVars
  <2>2. TypeOK'
    BY <1>1, <2>1, PhaseNames, Zenon DEF AnyInv, TypeOK
  <2>3. PhaseInv'
    BY <1>1, <2>1, Zenon DEF AnyInv, TypeOK, PhaseInv, Waiting
  <2>4. QED  BY <1>1, <2>2, <2>3, Framed, Zenon DEF AnyInv
<1>3. CASE CancelLock(c)
  <2>1. /\ pc[c] = "cancel" /\ pc' = [pc EXCEPT ![c] = "remove"] /\ mu' = c
        /\ at' = [at EXCEPT ![c] = 1] /\ UNCHANGED <<keys, ch, timed>>
    BY <1>3, Zenon DEF CancelLock
  <2>2. TypeOK'
    BY <1>1, <2>1, PhaseNames, Zenon DEF AnyInv, TypeOK
  <2>3. PhaseInv'
    <3>1. 1 # 0 /\ "cancel" \in Waiting /\ "remove" # "rpush"
      BY DEF Waiting
    <3>2. pc'[c] = "remove" /\ at'[c] = 1 /\ \A e \in Clients : e # c => pc'[e] = pc[e] /\ at'[e] = at[e]
      BY <2>1, Zenon DEF AnyInv, TypeOK
    <3>3. QED  BY <1>1, <2>1, <3>1, <3>2, Zenon DEF AnyInv, PhaseInv
  <2>4. QED  BY <1>1, <2>2, <2>3, Framed, Zenon DEF AnyInv
<1>4. CASE CancelNil(c)
  <2>1. /\ pc[c] = "found" /\ pc' = [pc EXCEPT ![c] = "idle"]
        /\ keys' = [keys EXCEPT ![c] = <<>>]
        /\ ch' = [ch EXCEPT ![c] = 0] /\ timed' = [timed EXCEPT ![c] = FALSE]
        /\ at' = [at EXCEPT ![c] = 0] /\ mu' = NoClient
    BY <1>4, Zenon DEF CancelNil, Removed, Leave
  <2>2. TypeOK'
    BY <1>1, <2>1, PhaseNames, Zenon DEF AnyInv, TypeOK
  <2>3. PhaseInv'
    BY <1>1, <2>1, Zenon DEF AnyInv, TypeOK, PhaseInv, Waiting
  <2>4. QED  BY <1>1, <2>2, <2>3, Framed, Zenon DEF AnyInv
<1>5. CASE CancelClaimed(c)
  <2>1. /\ pc[c] = "remove" /\ pc' = [pc EXCEPT ![c] = "recv"] /\ mu' = NoClient
        /\ UNCHANGED <<keys, ch, timed, at>>
    BY <1>5, Zenon DEF CancelClaimed, Removed, waitVars
  <2>2. TypeOK'
    BY <1>1, <2>1, PhaseNames, Zenon DEF AnyInv, TypeOK
  <2>3. PhaseInv'
    BY <1>1, <2>1, Zenon DEF AnyInv, TypeOK, PhaseInv, Waiting
  <2>4. QED  BY <1>1, <2>2, <2>3, Framed, Zenon DEF AnyInv
<1>6. QED  BY <1>2, <1>3, <1>4, <1>5, Zenon

\* LPOP's panic and the shutdown change nothing of the store.
LEMMA FlagAny ==
    ASSUME AnyInv, crashed' \in BOOLEAN, ctxDone' \in BOOLEAN,
           UNCHANGED <<list, keyspace, waiters, buf, mu, pc, key, todo, keys, ch, timed, at,
                       nVal, nCh, returned>>
    PROVE  AnyInv'
<1>1. TypeOK'
  BY Zenon DEF AnyInv, TypeOK
<1>2. PhaseInv'
  BY Zenon DEF AnyInv, PhaseInv
<1>3. QED  BY <1>1, <1>2, Framed, Zenon DEF AnyInv

\* A blocking call queues a channel that is younger than every queued one.
LEMMA BLpopBlockAny ==
    ASSUME AnyInv, NEW c \in Clients, NEW ks \in KeyLists, NEW t \in Timeouts,
           BLpopBlock(c, ks, t), \A l \in Keys : Times(ks, l) \in Nat
    PROVE  AnyInv'
<1>0. PICK h : h = nCh + 1
  BY Zenon
<1>1. /\ pc[c] = "idle" /\ nCh < MaxChans /\ nCh' = h
      /\ waiters' = [l \in Keys |-> waiters[l] \o [i \in 1 .. Times(ks, l) |-> h]]
      /\ pc' = [pc EXCEPT ![c] = "select"] /\ keys' = [keys EXCEPT ![c] = ks]
      /\ ch' = [ch EXCEPT ![c] = h] /\ timed' = [timed EXCEPT ![c] = t]
      /\ UNCHANGED <<list, keyspace, buf, mu, key, todo, at, ctxDone, crashed, nVal, returned>>
  BY <1>0, Zenon DEF BLpopBlock, Free, pushVars
<1>2. /\ ks \in Seq(Keys) /\ t \in BOOLEAN /\ nCh \in Nat /\ h \in Chans
      /\ h \in 0 .. MaxChans /\ Chans \subseteq Nat
  <2>1. ks \in Seq(Keys) /\ t \in BOOLEAN
    BY CallsAssumption, Zenon
  <2>2. nCh \in 0 .. MaxChans
    BY Zenon DEF AnyInv, TypeOK
  <2>3. QED  BY <1>0, <1>1, <2>1, <2>2, ChanNumbers, Zenon
<1>3. \A l \in Keys : Times(ks, l) \in Nat
  BY Zenon
<1>4. ASSUME NEW l \in Keys
      PROVE  /\ waiters'[l] \in Seq(Chans) /\ Ordered(waiters'[l])
             /\ \A i \in DOMAIN waiters'[l] : waiters'[l][i] <= h
  <2>1. waiters'[l] = waiters[l] \o [i \in 1 .. Times(ks, l) |-> h]
    BY <1>1, Zenon
  <2>2. waiters[l] \in Seq(Chans) /\ Ordered(waiters[l])
    BY Zenon DEF AnyInv, TypeOK, OrderInv
  <2>3. \A i \in DOMAIN waiters[l] : waiters[l][i] <= h
    <3>1. \A i \in DOMAIN waiters[l] : waiters[l][i] \in Chans
      BY <2>2
    <3>2. \A g \in Chans : g <= nCh => g <= h
      BY <1>0, ChanNumbers, Zenon DEF AnyInv, TypeOK
    <3>3. QED  BY <3>1, <3>2, Zenon DEF AnyInv, OrderInv
  <2> DEFINE w == waiters[l] \o [i \in 1 .. Times(ks, l) |-> h]
  <2>4. w \in Seq(Chans) /\ Ordered(w) /\ \A i \in DOMAIN w : w[i] <= h
    BY <1>2, <1>3, <2>2, <2>3, OrderedExtend, Zenon
  <2>5. waiters'[l] = w
    BY <2>1, Zenon
  <2> HIDE DEF w
  <2>6. QED  BY <2>4, <2>5, Zenon
<1>5. TypeOK'
  <2>1. waiters' \in [Keys -> Seq(Chans)]
    BY <1>1, <1>4, Zenon
  <2>2. QED  BY <1>1, <1>2, <2>1, PhaseNames, Zenon DEF AnyInv, TypeOK
<1>6. /\ pc'[c] = "select" /\ \A e \in Clients : e # c => pc'[e] = pc[e]
      /\ ch'[c] = h /\ \A e \in Clients : e # c => ch'[e] = ch[e]
  BY <1>1, Zenon DEF AnyInv, TypeOK
<1>7. PhaseInv'
  BY <1>1, <1>2, <1>6, Zenon DEF AnyInv, PhaseInv
<1>8. OrderInv'
  BY <1>1, <1>4, Zenon DEF OrderInv
<1>9. QED  BY <1>1, <1>5, <1>7, <1>8, Framed, Zenon DEF AnyInv

\* removeWaiter keeps every queue in order.
LEMMA RemoveWaiterAny ==
    ASSUME AnyInv, NEW c \in Clients, RemoveWaiter(c),
           \A q \in Seq(Chans) : \A h : Cuts(q, h)
    PROVE  AnyInv'
<1>0. PICK k, h : k = keys[c][at[c]] /\ h = ch[c]
  BY Zenon
<1>1. /\ waiters' = [waiters EXCEPT ![k] = RemoveFirst(waiters[k], h)]
      /\ pc' = pc \/ pc' = [pc EXCEPT ![c] = "found"]
      /\ at' = [at EXCEPT ![c] = at[c] + 1]
      /\ pc[c] \in {"remove", "found"} /\ at[c] <= Len(keys[c])
      /\ UNCHANGED <<list, keyspace, buf, mu, key, todo, keys, ch, timed, ctxDone, crashed,
                     nVal, nCh, returned>>
  BY <1>0, Zenon DEF RemoveWaiter, pushVars
<1>2. k \in Keys
  <2>1. keys[c] \in Seq(Keys) /\ at[c] \in Nat /\ at[c] # 0
    BY <1>1, Zenon DEF AnyInv, TypeOK, PhaseInv
  <2>2. QED  BY <1>0, <1>1, <2>1
<1>3. PICK w : w = RemoveFirst(waiters[k], h)
  BY Zenon
<1>4. w \in Seq(Chans) /\ Ordered(w) /\ \A i \in DOMAIN w : w[i] <= nCh
  <2>1. /\ waiters[k] \in Seq(Chans) /\ Ordered(waiters[k]) /\ nCh \in 0 .. MaxChans
        /\ \A i \in DOMAIN waiters[k] : waiters[k][i] <= nCh
    BY <1>2, Zenon DEF AnyInv, TypeOK, OrderInv
  <2>2. nCh \in Nat /\ Chans \subseteq Nat
    BY <2>1, ChanNumbers, Zenon
  <2>3. QED  BY <1>3, <2>1, <2>2, OrderedRemove, Zenon
<1>5. TypeOK'
  <2>1. waiters' \in [Keys -> Seq(Chans)]
    BY <1>1, <1>2, <1>3, <1>4, Zenon DEF AnyInv, TypeOK
  <2>2. pc' \in [Clients -> Phases] /\ at' \in [Clients -> Nat]
    <3>0. \A n \in Nat : n + 1 \in Nat
      OBVIOUS
    <3>1. pc \in [Clients -> Phases] /\ at \in [Clients -> Nat] /\ at[c] + 1 \in Nat
      BY <3>0, Zenon DEF AnyInv, TypeOK
    <3>2. QED  BY <1>1, <3>1, PhaseNames, Zenon
  <2>3. QED  BY <1>1, <2>1, <2>2, Zenon DEF AnyInv, TypeOK
<1>6. PhaseInv'
  <2>1. at'[c] # 0 /\ \A d \in Clients : d # c => at'[d] = at[d] /\ pc'[d] = pc[d]
    <3>1. at[c] \in Nat /\ at[c] + 1 # 0
      BY DEF AnyInv, TypeOK
    <3>2. QED  BY <1>1, <3>1, Zenon DEF AnyInv, TypeOK
  <2>2. QED  BY <1>1, <2>1, Zenon DEF AnyInv, PhaseInv, Waiting
<1>7. OrderInv'
  <2>1. waiters'[k] = w /\ \A l \in Keys : l # k => waiters'[l] = waiters[l]
    BY <1>1, <1>2, <1>3, Zenon DEF AnyInv, TypeOK
  <2>2. QED  BY <1>1, <1>4, <2>1, Zenon DEF AnyInv, OrderInv
<1>8. QED  BY <1>1, <1>5, <1>6, <1>7, Framed, Zenon DEF AnyInv

-------------------------------------------------------------------------------
(* The inductive invariant for calls with one key *)

\* Every BLPOP call names one key.  With more keys the invariants below fail: a
\* call that was served from one key leaves its channel queued on the others.
SingleKey == \A ks \in KeyLists : Len(ks) = 1

\* The mutex is held exactly by the handler inside RPush's or removeWaiter's loop.
MutexInv == \A c \in Clients : pc[c] \in {"rpush", "remove", "found"} <=> mu = c

\* A blocked call has one key and a channel that no other call has.
CallInv ==
    /\ \A c \in Clients :
        /\ pc[c] \in Waiting => ch[c] \in 1 .. nCh /\ Len(keys[c]) = 1
        /\ pc[c] = "remove" => at[c] \in {1, 2}
        /\ pc[c] = "found" => at[c] = 2 /\ buf[ch[c]] = <<>>
    /\ \A c, d \in Clients :
        pc[c] \in Waiting /\ pc[d] \in Waiting /\ ch[c] = ch[d] => c = d

\* c is parked on key k with channel h.
Parked(c, k, h) ==
    /\ ch[c] = h /\ keys[c][1] = k
    /\ pc[c] \in {"select", "cancel"} \/ (pc[c] = "remove" /\ at[c] = 1)

\* A queued channel is empty and belongs to a call parked on that key.
QueueInv ==
    /\ \A k \in Keys : IsInjective(waiters[k])
    /\ \A k \in Keys : \A h \in Range(waiters[k]) :
          buf[h] = <<>> /\ \E c \in Clients : Parked(c, k, h)

\* A channel with a value belongs to a blocked call.
OwnerInv ==
    \A h \in Chans : buf[h] # <<>> => \E c \in Clients : pc[c] \in Waiting /\ ch[c] = h

\* A blocked call with an empty channel is queued, or has just found itself
\* queued: this is why giving up, and receiving without a look, are safe.
ClaimInv ==
    \A c \in Clients :
        pc[c] \in Waiting /\ buf[ch[c]] = <<>> =>
            ch[c] \in Range(waiters[keys[c][1]]) \/ pc[c] = "found"

\* NothingLost and SendNeverBlocks are not inductive as they stand: what keeps
\* them is where a call and its channel may be.
OneKeyInv == MutexInv /\ CallInv /\ QueueInv /\ OwnerInv /\ ClaimInv
IInv == AnyInv /\ OneKeyInv

-------------------------------------------------------------------------------
(* One lemma per operation: it preserves that invariant *)

\* A step that leaves the calls, the queues and the channels alone: RPush's
\* append, LPush, LPop, a BLpop that finds an element, the shutdown.
LEMMA QuietStep ==
    ASSUME OneKeyInv, UNCHANGED <<waiters, buf, mu, pc, keys, ch, at, nCh>>
    PROVE  OneKeyInv'
<1>1. MutexInv' /\ OwnerInv'
  BY Zenon DEF OneKeyInv, MutexInv, OwnerInv
<1>2. CallInv'
  BY Zenon DEF OneKeyInv, CallInv
<1>3. QueueInv'
  <2>1. \A d \in Clients : \A k, h : Parked(d, k, h) => Parked(d, k, h)'
    BY Zenon DEF Parked
  <2>2. QED  BY <2>1, Zenon DEF OneKeyInv, QueueInv
<1>4. ClaimInv'
  BY Zenon DEF OneKeyInv, ClaimInv
<1>5. QED  BY <1>1, <1>2, <1>3, <1>4, Zenon DEF OneKeyInv

\* The channel and the key of a blocked call.
LEMMA CalledChans ==
    ASSUME TypeOK, OneKeyInv
    PROVE  \A e \in Clients : pc[e] \in Waiting => ch[e] \in Chans /\ keys[e][1] \in Keys
<1>1. 1 .. nCh \subseteq Chans
  BY BoundsAssumption DEF TypeOK, Chans
<1>2. TAKE e \in Clients
<1>3. keys[e] \in Seq(Keys)
  BY Zenon DEF TypeOK
<1>4. Len(keys[e]) = 1 => keys[e][1] \in Keys
  BY <1>3
<1>5. QED  BY <1>1, <1>4, Zenon DEF OneKeyInv, CallInv

\* RPush takes the mutex or lets go of it.
LEMMA RPushEndsStep ==
    ASSUME TypeOK, OneKeyInv, NEW c \in Clients,
           (\E k \in Keys, n \in RPushSizes : RPushLock(c, k, n)) \/ RPushReturn(c)
    PROVE  OneKeyInv'
<1>1. /\ pc[c] \in {"idle", "rpush"} /\ mu = (IF pc[c] = "idle" THEN NoClient ELSE c)
      /\ mu' = (IF pc[c] = "idle" THEN c ELSE NoClient)
      /\ pc' = [pc EXCEPT ![c] = IF pc[c] = "idle" THEN "rpush" ELSE "idle"]
      /\ UNCHANGED <<waiters, buf, keys, ch, at, nCh>>
  BY Zenon DEF RPushLock, RPushReturn, Free, storeVars, waitVars, OneKeyInv, MutexInv
<1>2. /\ \/ pc[c] = "idle" /\ mu = NoClient /\ mu' = c /\ pc'[c] = "rpush"
         \/ pc[c] = "rpush" /\ mu = c /\ mu' = NoClient /\ pc'[c] = "idle"
      /\ \A d \in Clients : d # c => pc'[d] = pc[d]
  BY <1>1, Zenon DEF TypeOK
<1>3. MutexInv'
  BY <1>2, KeysAssumption, Zenon DEF OneKeyInv, MutexInv
<1>4. /\ pc[c] \notin Waiting /\ pc'[c] \notin Waiting
      /\ \A k, h : ~ Parked(c, k, h)
      /\ pc'[c] # "remove" /\ pc'[c] # "found"
  BY <1>2, Zenon DEF Waiting, Parked
<1>5. CallInv'
  BY <1>1, <1>2, <1>4, Zenon DEF OneKeyInv, CallInv
<1>6. ClaimInv'
  BY <1>1, <1>2, <1>4, Zenon DEF OneKeyInv, ClaimInv
<1>7. OwnerInv'
  BY <1>1, <1>2, <1>4, Zenon DEF OneKeyInv, OwnerInv
<1>8. QueueInv'
  <2>1. \A d \in Clients : \A k, h : Parked(d, k, h) => Parked(d, k, h)'
    BY <1>1, <1>2, <1>4, Zenon DEF Parked
  <2>2. QED  BY <1>1, <2>1, Zenon DEF OneKeyInv, QueueInv
<1>9. QED  BY <1>3, <1>5, <1>6, <1>7, <1>8, Zenon DEF OneKeyInv

\* A hand-over fills the channel of the call that waits longest on the key.
LEMMA RPushHandStep ==
    ASSUME TypeOK, OneKeyInv, NEW c \in Clients, RPushHand(c) PROVE OneKeyInv'
<1>0. PICK k, h, v : k = key[c] /\ h = Head(waiters[k]) /\ v = Head(todo[c])
  BY Zenon
<1>1. k \in Keys /\ waiters[k] \in Seq(Chans) /\ waiters[k] # <<>>
  BY <1>0, Zenon DEF RPushHand, TypeOK
<1>2. h \in Chans /\ Range(waiters[k]) = {h} \cup Range(Tail(waiters[k]))
  BY <1>0, <1>1, RangeHeadTail, Zenon
<1>3. h \notin Range(Tail(waiters[k])) /\ IsInjective(Tail(waiters[k]))
  BY <1>0, <1>1, InjectiveTail, Zenon DEF OneKeyInv, QueueInv
<1>4. PICK d \in Clients : Parked(d, k, h)
  BY <1>1, <1>2, Zenon DEF OneKeyInv, QueueInv
<1>5. /\ buf' = [buf EXCEPT ![h] = <<v>>]
      /\ waiters' = [waiters EXCEPT ![k] = Tail(waiters[k])]
      /\ pc[c] = "rpush" /\ UNCHANGED <<mu, pc, keys, ch, at, nCh>>
  BY <1>0, Zenon DEF RPushHand, waitVars
<1>6. /\ buf'[h] = <<v>> /\ \A g \in Chans : g # h => buf'[g] = buf[g]
      /\ waiters'[k] = Tail(waiters[k]) /\ \A l \in Keys : l # k => waiters'[l] = waiters[l]
  BY <1>1, <1>2, <1>5, Zenon DEF TypeOK
<1>7. d # c /\ pc[d] \in {"select", "cancel"} /\ ch[d] = h /\ keys[d][1] = k
  BY <1>4, <1>5, Zenon DEF OneKeyInv, MutexInv, Parked
<1>8. \A e \in Clients : e # d /\ pc[e] \in Waiting => ch[e] # h
  BY <1>7, Zenon DEF OneKeyInv, CallInv, Waiting
<1>9. \A e \in Clients : pc[e] \in Waiting => ch[e] \in Chans
  BY CalledChans, Zenon
<1>10. MutexInv' /\ OwnerInv'
  <2>1. pc'[d] \in Waiting /\ ch'[d] = h
    BY <1>5, <1>7, Zenon DEF Waiting
  <2>2. MutexInv'
    BY <1>5, Zenon DEF OneKeyInv, MutexInv
  <2>3. QED  BY <1>5, <1>6, <2>1, <2>2, Zenon DEF OneKeyInv, OwnerInv
<1>11. CallInv'
  <2>1. ASSUME NEW e \in Clients, pc[e] = "found" PROVE buf'[ch[e]] = <<>>
    <3>1. e # d /\ pc[e] \in Waiting
      BY <1>7, <2>1, Zenon DEF Waiting
    <3>2. ch[e] \in Chans /\ ch[e] # h /\ buf[ch[e]] = <<>>
      BY <1>8, <1>9, <2>1, <3>1, Zenon DEF OneKeyInv, CallInv
    <3>3. QED  BY <1>6, <3>2, Zenon
  <2>2. QED  BY <1>5, <2>1, Zenon DEF OneKeyInv, CallInv
<1>12. QueueInv'
  <2>1. \A l \in Keys : IsInjective(waiters'[l])
    BY <1>3, <1>6, Zenon DEF OneKeyInv, QueueInv
  <2>2. ASSUME NEW l \in Keys, NEW g \in Range(waiters'[l])
        PROVE  g # h /\ g \in Range(waiters[l])
    <3>1. CASE l = k
      BY <1>2, <1>3, <1>6, <2>2, <3>1, Zenon
    <3>2. CASE l # k
      <4>1. g \in Range(waiters[l])
        BY <1>6, <2>2, <3>2, Zenon
      <4>2. PICK e \in Clients : Parked(e, l, g)
        BY <4>1, Zenon DEF OneKeyInv, QueueInv
      <4>3. QED  BY <1>7, <1>8, <3>2, <4>1, <4>2, Zenon DEF Parked, Waiting
    <3>3. QED  BY <3>1, <3>2, Zenon
  <2>3. \A l \in Keys : \A g \in Range(waiters[l]) : g \in Chans
    BY RangeIsIn, Zenon DEF TypeOK
  <2>4. \A l \in Keys : \A g \in Range(waiters'[l]) :
           buf'[g] = <<>> /\ \E e \in Clients : Parked(e, l, g)'
    <3>1. \A e \in Clients : \A l, g : Parked(e, l, g) => Parked(e, l, g)'
      BY <1>5, Zenon DEF Parked
    <3>2. QED  BY <1>6, <2>2, <2>3, <3>1, Zenon DEF OneKeyInv, QueueInv
  <2>5. QED  BY <2>1, <2>4, Zenon DEF QueueInv
<1>13. ClaimInv'
  <2>1. ASSUME NEW e \in Clients, pc[e] \in Waiting, buf'[ch[e]] = <<>>
        PROVE  ch[e] \in Range(waiters'[keys[e][1]]) \/ pc[e] = "found"
    <3>1. e # d
      <4>1. <<v>> # <<>>
        OBVIOUS
      <4>2. QED  BY <1>6, <1>7, <2>1, <4>1, Zenon
    <3>2. ch[e] # h /\ buf[ch[e]] = <<>>
      BY <1>6, <1>8, <1>9, <2>1, <3>1, Zenon
    <3>3. ch[e] \in Range(waiters[keys[e][1]]) \/ pc[e] = "found"
      BY <2>1, <3>2, Zenon DEF OneKeyInv, ClaimInv
    <3>4. keys[e][1] \in Keys
      BY <2>1, CalledChans, Zenon
    <3>5. QED  BY <1>2, <1>6, <3>2, <3>3, <3>4, Zenon
  <2>2. QED  BY <1>5, <2>1, Zenon DEF ClaimInv
<1>14. QED  BY <1>10, <1>11, <1>12, <1>13, Zenon DEF OneKeyInv

\* A step that starts no call keeps CallInv when the calls in removeWaiter obey it.
LEMMA CallKept ==
    ASSUME CallInv, nCh' = nCh,
           \A e \in Clients : pc'[e] \in Waiting =>
               pc[e] \in Waiting /\ ch'[e] = ch[e] /\ keys'[e] = keys[e],
           \A e \in Clients : pc'[e] = "remove" => at'[e] \in {1, 2},
           \A e \in Clients : pc'[e] = "found" => at'[e] = 2 /\ buf'[ch'[e]] = <<>>
    PROVE  CallInv'
<1>1. \A e \in Clients : pc'[e] \in Waiting => ch'[e] \in 1 .. nCh' /\ Len(keys'[e]) = 1
  BY Zenon DEF CallInv
<1>2. \A e, d \in Clients :
          pc'[e] \in Waiting /\ pc'[d] \in Waiting /\ ch'[e] = ch'[d] => e = d
  BY Zenon DEF CallInv
<1>3. QED  BY <1>1, <1>2, Zenon DEF CallInv

\* A received value leaves its channel; the channel is in no queue, so nothing is
\* left behind.
LEMMA TakeStep ==
    ASSUME TypeOK, OneKeyInv, NEW c \in Clients, pc[c] \in {"select", "recv"}, Take(c)
    PROVE  OneKeyInv'
<1>0. PICK h : h = ch[c]
  BY Zenon
<1>1. \A e \in Clients : pc[e] \in Waiting => ch[e] \in Chans
  BY CalledChans, Zenon
<1>2. h \in Chans /\ pc[c] \in Waiting
  BY <1>0, <1>1, Zenon DEF Waiting
<1>3. /\ buf[h] # <<>> /\ buf' = [buf EXCEPT ![h] = <<>>]
      /\ pc' = [pc EXCEPT ![c] = "idle"] /\ keys' = [keys EXCEPT ![c] = <<>>]
      /\ ch' = [ch EXCEPT ![c] = 0] /\ at' = [at EXCEPT ![c] = 0]
      /\ UNCHANGED <<waiters, mu, nCh>>
  BY <1>0, Zenon DEF Take, Leave
<1>4. /\ buf'[h] = <<>> /\ \A g \in Chans : g # h => buf'[g] = buf[g]
      /\ pc'[c] = "idle" /\ \A e \in Clients : e # c => pc'[e] = pc[e]
      /\ \A e \in Clients : e # c => keys'[e] = keys[e] /\ ch'[e] = ch[e] /\ at'[e] = at[e]
  BY <1>2, <1>3, Zenon DEF TypeOK
<1>5. \A e \in Clients : e # c /\ pc[e] \in Waiting => ch[e] # h
  BY <1>0, <1>2, Zenon DEF OneKeyInv, CallInv
<1>6. MutexInv'
  BY <1>3, <1>4, Zenon DEF OneKeyInv, MutexInv
<1>7. pc'[c] \notin Waiting /\ pc'[c] # "remove" /\ pc'[c] # "found"
  BY <1>4, Zenon DEF Waiting
<1>8. CallInv'
  <2>1. ASSUME NEW e \in Clients, e # c, pc[e] = "found" PROVE at[e] = 2 /\ buf'[ch[e]] = <<>>
    <3>1. pc[e] \in Waiting /\ at[e] = 2 /\ buf[ch[e]] = <<>>
      BY <2>1, Zenon DEF Waiting, OneKeyInv, CallInv
    <3>2. QED  BY <1>1, <1>4, <1>5, <2>1, <3>1, Zenon
  <2>2. \A e \in Clients : pc'[e] = "remove" => at'[e] \in {1, 2}
    BY <1>4, <1>7, Zenon DEF OneKeyInv, CallInv
  <2>3. \A e \in Clients : pc'[e] = "found" => at'[e] = 2 /\ buf'[ch'[e]] = <<>>
    BY <1>4, <1>7, <2>1, Zenon
  <2>4. QED  BY <1>3, <1>4, <1>7, <2>2, <2>3, CallKept, Zenon DEF OneKeyInv
<1>9. QueueInv'
  <2>1. ASSUME NEW l \in Keys, NEW g \in Range(waiters[l])
        PROVE  buf'[g] = <<>> /\ \E e \in Clients : Parked(e, l, g)'
    <3>1. PICK e \in Clients : Parked(e, l, g) /\ buf[g] = <<>>
      BY <2>1, Zenon DEF OneKeyInv, QueueInv
    <3>2. g = ch[e] /\ pc[e] \in Waiting
      BY <3>1, Zenon DEF Parked, Waiting
    <3>3. g # h /\ e # c /\ g \in Chans
      BY <1>0, <1>1, <1>3, <3>1, <3>2, Zenon
    <3>4. QED  BY <1>4, <3>1, <3>3, Zenon DEF Parked
  <2>2. QED  BY <1>3, <2>1, Zenon DEF OneKeyInv, QueueInv
<1>10. OwnerInv'
  <2>1. ASSUME NEW g \in Chans, buf'[g] # <<>> PROVE \E e \in Clients : pc'[e] \in Waiting /\ ch'[e] = g
    <3>1. g # h /\ buf[g] # <<>>
      BY <1>4, <2>1, Zenon
    <3>2. PICK e \in Clients : pc[e] \in Waiting /\ ch[e] = g
      BY <3>1, Zenon DEF OneKeyInv, OwnerInv
    <3>3. QED  BY <1>0, <1>4, <3>1, <3>2, Zenon
  <2>2. QED  BY <2>1, Zenon DEF OwnerInv
<1>11. ClaimInv'
  <2>1. ASSUME NEW e \in Clients, pc'[e] \in Waiting, buf'[ch'[e]] = <<>>
        PROVE  ch'[e] \in Range(waiters'[keys'[e][1]]) \/ pc'[e] = "found"
    <3>1. e # c
      BY <1>7, <2>1, Zenon
    <3>2. /\ pc'[e] = pc[e] /\ ch'[e] = ch[e] /\ keys'[e] = keys[e] /\ waiters' = waiters
          /\ ch[e] # h /\ ch[e] \in Chans
      BY <1>1, <1>3, <1>4, <1>5, <2>1, <3>1, Zenon
    <3>3. pc[e] \in Waiting /\ buf[ch[e]] = <<>>
      BY <1>4, <2>1, <3>2, Zenon
    <3>4. QED  BY <3>2, <3>3, Zenon DEF OneKeyInv, ClaimInv
  <2>2. QED  BY <2>1, Zenon DEF ClaimInv
<1>12. QED  BY <1>6, <1>8, <1>9, <1>10, <1>11, Zenon DEF OneKeyInv

\* A timer or the shutdown takes a call out of its select, and cancelWait takes
\* the mutex.
LEMMA GiveUpStep ==
    ASSUME TypeOK, OneKeyInv, NEW c \in Clients, GiveUp(c) \/ CancelLock(c) PROVE OneKeyInv'
<1>1. /\ \/ pc[c] = "select" /\ pc' = [pc EXCEPT ![c] = "cancel"] /\ mu' = mu /\ at' = at
         \/ /\ pc[c] = "cancel" /\ pc' = [pc EXCEPT ![c] = "remove"]
            /\ mu = NoClient /\ mu' = c /\ at' = [at EXCEPT ![c] = 1]
      /\ UNCHANGED <<waiters, buf, keys, ch, nCh>>
  BY Zenon DEF GiveUp, CancelLock, storeVars, waitVars
<1>2. /\ pc[c] \in {"select", "cancel"}
      /\ \/ pc'[c] = "cancel" /\ pc[c] = "select" /\ mu' = mu
         \/ pc'[c] = "remove" /\ mu = NoClient /\ mu' = c /\ at'[c] = 1
      /\ \A e \in Clients : e # c => pc'[e] = pc[e] /\ at'[e] = at[e]
  BY <1>1, Zenon DEF TypeOK
<1>3. MutexInv'
  BY <1>2, KeysAssumption, Zenon DEF OneKeyInv, MutexInv
<1>4. /\ pc[c] \in Waiting /\ pc'[c] \in Waiting /\ pc[c] # "found" /\ pc'[c] # "found"
      /\ pc'[c] = "remove" => at'[c] \in {1, 2}
  BY <1>2, Zenon DEF Waiting
<1>5. CallInv'
  <2>1. \A e \in Clients : pc'[e] = "remove" => at'[e] \in {1, 2}
    BY <1>2, <1>4, Zenon DEF OneKeyInv, CallInv
  <2>2. \A e \in Clients : pc'[e] = "found" => at'[e] = 2 /\ buf'[ch'[e]] = <<>>
    BY <1>1, <1>2, <1>4, Zenon DEF OneKeyInv, CallInv
  <2>3. QED  BY <1>1, <1>2, <1>4, <2>1, <2>2, CallKept, Zenon DEF OneKeyInv
<1>6. ClaimInv'
  BY <1>1, <1>2, <1>4, Zenon DEF OneKeyInv, ClaimInv
<1>7. OwnerInv'
  BY <1>1, <1>2, <1>4, Zenon DEF OneKeyInv, OwnerInv
<1>8. QueueInv'
  <2>1. \A d \in Clients : \A k, h : Parked(d, k, h) => Parked(d, k, h)'
    <3>1. \A k, h : Parked(c, k, h) => Parked(c, k, h)'
      BY <1>1, <1>2, Zenon DEF Parked
    <3>2. \A d \in Clients : \A k, h : d # c => (Parked(d, k, h) => Parked(d, k, h)')
      BY <1>1, <1>2, Zenon DEF Parked
    <3>3. QED  BY <3>1, <3>2, Zenon
  <2>2. QED  BY <1>1, <2>1, Zenon DEF OneKeyInv, QueueInv
<1>9. QED  BY <1>3, <1>5, <1>6, <1>7, <1>8, Zenon DEF OneKeyInv

\* removeWaiter leaves the call's channel in no queue, and knows whether it
\* was in one.
LEMMA RemoveWaiterStep ==
    ASSUME TypeOK, OneKeyInv, NEW c \in Clients, RemoveWaiter(c) PROVE OneKeyInv'
<1>0. PICK k, h : k = keys[c][1] /\ h = ch[c]
  BY Zenon
<1>1. pc[c] \in {"remove", "found"} /\ at[c] <= Len(keys[c])
  BY Zenon DEF RemoveWaiter
<1>2. Len(keys[c]) = 1 /\ h \in 1 .. nCh
  BY <1>0, <1>1, Zenon DEF OneKeyInv, CallInv, Waiting
<1>3. pc[c] = "remove" /\ at[c] = 1
  <2>1. (pc[c] = "remove" => at[c] \in {1, 2}) /\ (pc[c] = "found" => at[c] = 2)
    BY Zenon DEF OneKeyInv, CallInv
  <2>2. QED  BY <1>1, <1>2, <2>1
<1>4. k \in Keys /\ waiters[k] \in Seq(Chans) /\ IsInjective(waiters[k])
  <2>1. keys[c] \in Seq(Keys)
    BY Zenon DEF TypeOK
  <2>2. k \in Keys
    BY <1>0, <1>2, <2>1
  <2>3. QED  BY <2>2, Zenon DEF TypeOK, OneKeyInv, QueueInv
<1>5. /\ waiters' = [waiters EXCEPT ![k] = RemoveFirst(waiters[k], h)]
      /\ pc' = IF h \in Range(waiters[k]) THEN [pc EXCEPT ![c] = "found"] ELSE pc
      /\ at' = [at EXCEPT ![c] = 2] /\ UNCHANGED <<buf, mu, keys, ch, nCh>>
  <2>1. 1 + 1 = 2
    OBVIOUS
  <2>2. QED  BY <1>0, <1>3, <2>1, Zenon DEF RemoveWaiter
<1>6. PICK w : w = RemoveFirst(waiters[k], h)
  BY Zenon
<1>7. Range(w) = Range(waiters[k]) \ {h} /\ IsInjective(w)
  BY <1>4, <1>6, RangeRemoveFirst, Zenon
<1>8. /\ waiters'[k] = w /\ \A l \in Keys : l # k => waiters'[l] = waiters[l]
      /\ pc'[c] = IF h \in Range(waiters[k]) THEN "found" ELSE "remove"
      /\ at'[c] = 2 /\ \A e \in Clients : e # c => at'[e] = at[e] /\ pc'[e] = pc[e]
  BY <1>3, <1>4, <1>5, <1>6, Zenon DEF TypeOK
<1>9. \A e \in Clients : e # c /\ pc[e] \in Waiting => ch[e] # h
  BY <1>0, <1>3, Zenon DEF OneKeyInv, CallInv, Waiting
<1>10. MutexInv' /\ OwnerInv'
  <2>1. pc[c] \in Waiting /\ pc'[c] \in Waiting /\ pc'[c] \in {"remove", "found"}
    BY <1>3, <1>8, Zenon DEF Waiting
  <2>2. MutexInv'
    BY <1>3, <1>5, <1>8, <2>1, Zenon DEF OneKeyInv, MutexInv
  <2>3. QED  BY <1>5, <1>8, <2>1, <2>2, Zenon DEF OneKeyInv, OwnerInv
<1>11. h \in Range(waiters[k]) => buf[h] = <<>>
  BY <1>4, Zenon DEF OneKeyInv, QueueInv
<1>12. CallInv'
  <2>1. pc[c] \in Waiting /\ (pc'[c] = "found" => buf'[h] = <<>>) /\ 2 \in {1, 2}
    BY <1>3, <1>5, <1>8, <1>11, Zenon DEF Waiting
  <2>2. \A e \in Clients : pc'[e] \in Waiting => pc[e] \in Waiting
    BY <1>8, <2>1, Zenon
  <2>3. \A e \in Clients : pc'[e] = "remove" => at'[e] \in {1, 2}
    BY <1>8, <2>1, Zenon DEF OneKeyInv, CallInv
  <2>4. \A e \in Clients : pc'[e] = "found" => at'[e] = 2 /\ buf'[ch'[e]] = <<>>
    <3>1. \A e \in Clients : pc[e] = "found" => at[e] = 2 /\ buf[ch[e]] = <<>>
      BY Zenon DEF OneKeyInv, CallInv
    <3>2. QED  BY <1>0, <1>5, <1>8, <2>1, <3>1, Zenon
  <2>5. QED  BY <1>5, <2>2, <2>3, <2>4, CallKept, Zenon DEF OneKeyInv
<1>13. QueueInv'
  <2>1. \A l \in Keys : IsInjective(waiters'[l])
    BY <1>7, <1>8, Zenon DEF OneKeyInv, QueueInv
  <2>2. ASSUME NEW l \in Keys, NEW g \in Range(waiters'[l])
        PROVE  buf'[g] = <<>> /\ \E e \in Clients : Parked(e, l, g)'
    <3>1. g \in Range(waiters[l]) /\ ~ (l = k /\ g = h)
      BY <1>7, <1>8, <2>2, Zenon
    <3>2. PICK e \in Clients : Parked(e, l, g) /\ buf[g] = <<>>
      BY <3>1, Zenon DEF OneKeyInv, QueueInv
    <3>3. e # c
      BY <1>0, <3>1, <3>2, Zenon DEF Parked
    <3>4. QED  BY <1>5, <1>8, <3>2, <3>3, Zenon DEF Parked
  <2>3. QED  BY <2>1, <2>2, Zenon DEF QueueInv
<1>14. ClaimInv'
  <2>1. ASSUME NEW e \in Clients, pc'[e] \in Waiting, buf'[ch'[e]] = <<>>
        PROVE  ch'[e] \in Range(waiters'[keys'[e][1]]) \/ pc'[e] = "found"
    <3>1. CASE e = c
      <4>1. h \in Range(waiters[k])
        BY <1>0, <1>3, <1>5, <2>1, <3>1, Zenon DEF OneKeyInv, ClaimInv, Waiting
      <4>2. QED  BY <1>8, <3>1, <4>1, Zenon
    <3>2. CASE e # c
      <4>1. pc[e] \in Waiting /\ buf[ch[e]] = <<>>
        BY <1>5, <1>8, <2>1, <3>2, Zenon
      <4>2. ch[e] \in Range(waiters[keys[e][1]]) \/ pc[e] = "found"
        BY <4>1, Zenon DEF OneKeyInv, ClaimInv
      <4>3. keys[e][1] \in Keys /\ ch[e] # h
        BY <1>9, <3>2, <4>1, CalledChans, Zenon
      <4>4. \A l \in Keys : Range(waiters'[l]) = Range(waiters[l])
                           \/ Range(waiters'[l]) = Range(waiters[l]) \ {h}
        BY <1>7, <1>8, Zenon
      <4>5. ch[e] \in Range(waiters'[keys[e][1]]) \/ pc[e] = "found"
        BY <4>2, <4>3, <4>4, Zenon
      <4>6. QED  BY <1>5, <1>8, <3>2, <4>5, Zenon
    <3>3. QED  BY <3>1, <3>2, Zenon
  <2>2. QED  BY <2>1, Zenon DEF ClaimInv
<1>15. QED  BY <1>10, <1>12, <1>13, <1>14, Zenon DEF OneKeyInv

\* A call that found itself queued leaves with an empty channel; one that was not
\* queued any more keeps its channel.
LEMMA CancelStep ==
    ASSUME TypeOK, OneKeyInv, NEW c \in Clients, CancelNil(c) \/ CancelClaimed(c)
    PROVE  OneKeyInv'
<1>1. CASE CancelNil(c)
  <2>1. /\ pc[c] = "found" /\ mu' = NoClient
        /\ pc' = [pc EXCEPT ![c] = "idle"] /\ keys' = [keys EXCEPT ![c] = <<>>]
        /\ ch' = [ch EXCEPT ![c] = 0] /\ at' = [at EXCEPT ![c] = 0]
        /\ UNCHANGED <<waiters, buf, nCh>>
    BY <1>1, Zenon DEF CancelNil, Removed, Leave, storeVars
  <2>2. /\ pc'[c] = "idle" /\ \A e \in Clients : e # c => pc'[e] = pc[e]
        /\ \A e \in Clients : e # c => keys'[e] = keys[e] /\ ch'[e] = ch[e] /\ at'[e] = at[e]
    BY <2>1, Zenon DEF TypeOK
  <2>3. mu = c /\ buf[ch[c]] = <<>>
    BY <2>1, Zenon DEF OneKeyInv, MutexInv, CallInv
  <2>4. MutexInv' /\ OwnerInv'
    <3>1. MutexInv'
      BY <2>1, <2>2, <2>3, KeysAssumption, Zenon DEF OneKeyInv, MutexInv
    <3>2. OwnerInv'
      <4>1. ASSUME NEW g \in Chans, buf'[g] # <<>>
            PROVE  \E e \in Clients : pc'[e] \in Waiting /\ ch'[e] = g
        <5>1. PICK e \in Clients : pc[e] \in Waiting /\ ch[e] = g
          BY <2>1, <4>1, Zenon DEF OneKeyInv, OwnerInv
        <5>2. e # c
          BY <2>1, <2>3, <4>1, <5>1, Zenon
        <5>3. QED  BY <2>2, <5>1, <5>2, Zenon
      <4>2. QED  BY <4>1, Zenon DEF OwnerInv
    <3>3. QED  BY <3>1, <3>2
  <2>5. CallInv'
    <3>1. pc'[c] \notin Waiting /\ pc'[c] # "remove" /\ pc'[c] # "found"
      BY <2>2, Zenon DEF Waiting
    <3>2. \A e \in Clients : pc'[e] = "remove" => at'[e] \in {1, 2}
      BY <2>2, <3>1, Zenon DEF OneKeyInv, CallInv
    <3>3. \A e \in Clients : pc'[e] = "found" => at'[e] = 2 /\ buf'[ch'[e]] = <<>>
      <4>1. \A e \in Clients : pc[e] = "found" => at[e] = 2 /\ buf[ch[e]] = <<>>
        BY Zenon DEF OneKeyInv, CallInv
      <4>2. QED  BY <2>1, <2>2, <3>1, <4>1, Zenon
    <3>4. QED  BY <2>1, <2>2, <3>1, <3>2, <3>3, CallKept, Zenon DEF OneKeyInv
  <2>6. ClaimInv'
    BY <2>1, <2>2, Zenon DEF OneKeyInv, ClaimInv, Waiting
  <2>7. ASSUME NEW l \in Keys, NEW g \in Range(waiters[l])
        PROVE  \E e \in Clients : Parked(e, l, g)'
    <3>1. PICK e \in Clients : Parked(e, l, g)
      BY <2>7, Zenon DEF OneKeyInv, QueueInv
    <3>2. e # c
      BY <2>1, <3>1, Zenon DEF Parked
    <3>3. QED  BY <2>2, <3>1, <3>2, Zenon DEF Parked
  <2>8. QueueInv'
    BY <2>1, <2>7, Zenon DEF OneKeyInv, QueueInv
  <2>9. QED  BY <2>4, <2>5, <2>6, <2>8, Zenon DEF OneKeyInv
<1>2. CASE CancelClaimed(c)
  <2>1. /\ pc[c] = "remove" /\ mu' = NoClient /\ at[c] > Len(keys[c])
        /\ pc' = [pc EXCEPT ![c] = "recv"] /\ UNCHANGED <<waiters, buf, keys, ch, at, nCh>>
    BY <1>2, Zenon DEF CancelClaimed, Removed, storeVars, waitVars
  <2>2. pc'[c] = "recv" /\ \A e \in Clients : e # c => pc'[e] = pc[e]
    BY <2>1, Zenon DEF TypeOK
  <2>3. mu = c /\ at[c] = 2
    <3>1. mu = c
      BY <2>1, Zenon DEF OneKeyInv, MutexInv
    <3>2. at[c] \in {1, 2} /\ Len(keys[c]) = 1
      BY <2>1, Zenon DEF OneKeyInv, CallInv, Waiting
    <3>3. QED  BY <2>1, <3>1, <3>2
  <2>0. pc[c] \in Waiting /\ pc'[c] \in Waiting /\ pc'[c] # "remove" /\ pc'[c] # "found"
    BY <2>1, <2>2, Zenon DEF Waiting
  <2>4. MutexInv' /\ OwnerInv'
    <3>1. MutexInv'
      BY <2>1, <2>2, <2>3, KeysAssumption, Zenon DEF OneKeyInv, MutexInv
    <3>2. OwnerInv'
      BY <2>0, <2>1, <2>2, Zenon DEF OneKeyInv, OwnerInv
    <3>3. QED  BY <3>1, <3>2
  <2>5. CallInv'
    <3>1. \A e \in Clients : pc'[e] = "remove" => at'[e] \in {1, 2}
      BY <2>0, <2>1, <2>2, Zenon DEF OneKeyInv, CallInv
    <3>2. \A e \in Clients : pc'[e] = "found" => at'[e] = 2 /\ buf'[ch'[e]] = <<>>
      <4>1. \A e \in Clients : pc[e] = "found" => at[e] = 2 /\ buf[ch[e]] = <<>>
        BY Zenon DEF OneKeyInv, CallInv
      <4>2. QED  BY <2>0, <2>1, <2>2, <4>1, Zenon
    <3>3. QED  BY <2>0, <2>1, <2>2, <3>1, <3>2, CallKept, Zenon DEF OneKeyInv
  <2>6. ClaimInv'
    BY <2>1, <2>2, Zenon DEF OneKeyInv, ClaimInv, Waiting
  <2>7. QueueInv'
    <3>1. at[c] # 1
      BY <2>3
    <3>2. \A d \in Clients : \A k, h : Parked(d, k, h) => Parked(d, k, h)'
      BY <2>1, <2>2, <3>1, Zenon DEF Parked
    <3>3. QED  BY <2>1, <3>2, Zenon DEF OneKeyInv, QueueInv
  <2>8. QED  BY <2>4, <2>5, <2>6, <2>7, Zenon DEF OneKeyInv
<1>3. QED  BY <1>1, <1>2, Zenon

\* A blocking call queues a channel that no queue and no call holds yet.
LEMMA BLpopBlockStep ==
    ASSUME SingleKey, TypeOK, OneKeyInv, NEW c \in Clients, NEW ks \in KeyLists, NEW t \in Timeouts,
           BLpopBlock(c, ks, t),
           \A l \in Keys : Named(ks, l) = {1} => Times(ks, l) = 1,
           \A l \in Keys : Named(ks, l) = {} => Times(ks, l) = 0
    PROVE  OneKeyInv'
<1>0. PICK h, k : h = nCh + 1 /\ k = ks[1]
  BY Zenon
<1>1. /\ pc[c] = "idle" /\ nCh < MaxChans /\ nCh' = h
      /\ waiters' = [l \in Keys |-> waiters[l] \o [i \in 1 .. Times(ks, l) |-> h]]
      /\ pc' = [pc EXCEPT ![c] = "select"] /\ keys' = [keys EXCEPT ![c] = ks]
      /\ ch' = [ch EXCEPT ![c] = h] /\ timed' = [timed EXCEPT ![c] = t]
      /\ UNCHANGED <<list, keyspace, buf, mu, key, todo, at, ctxDone, crashed, nVal, returned>>
  BY <1>0, Zenon DEF BLpopBlock, Free, pushVars
<1>2. /\ ks \in Seq(Keys) /\ Len(ks) = 1 /\ k \in Keys /\ nCh \in 0 .. MaxChans /\ h \in Chans
  <2>1. ks \in Seq(Keys) /\ Len(ks) = 1 /\ nCh \in 0 .. MaxChans
    BY CallsAssumption, Zenon DEF SingleKey, TypeOK
  <2>2. QED  BY <1>0, <1>1, <2>1, ChanNumbers, OneKeyList, Zenon
<1>3. \A l \in Keys : waiters[l] \in Seq(Chans) /\ Range(waiters[l]) \subseteq Chans
  BY RangeIsIn, Zenon DEF OneKeyInv, TypeOK
<1>4. \A l \in Keys : \A g \in Range(waiters[l]) : g \in 1 .. nCh
  <2>1. TAKE l \in Keys
  <2>2. TAKE g \in Range(waiters[l])
  <2>3. PICK e \in Clients : Parked(e, l, g)
    BY Zenon DEF OneKeyInv, QueueInv
  <2>4. ch[e] = g /\ pc[e] \in Waiting
    BY <2>3, Zenon DEF Parked, Waiting
  <2>5. QED  BY <2>4, Zenon DEF OneKeyInv, CallInv
<1>5. \A l \in Keys : h \notin Range(waiters[l])
  BY <1>0, <1>2, <1>4, ChanNumbers, Zenon
<1>6. waiters'[k] = Append(waiters[k], h)
  <2>0. Named(ks, k) = {1}
    BY <1>0, <1>2, OneKeyList, Zenon
  <2>1. Times(ks, k) = 1
    BY <1>2, <2>0, Zenon
  <2>2. waiters'[k] = waiters[k] \o [i \in 1 .. 1 |-> h]
    BY <1>1, <1>2, <2>1, Zenon
  <2>3. QED  BY <1>2, <1>3, <2>2, QueuedTimes, Zenon
<1>7. \A l \in Keys : l # k => waiters'[l] = waiters[l]
  <2>1. TAKE l \in Keys
  <2>2. HAVE l # k
  <2>0. Named(ks, l) = {}
    BY <1>0, <1>2, <2>2, OneKeyList, Zenon
  <2>3. Times(ks, l) = 0
    BY <2>0, Zenon
  <2>4. waiters'[l] = waiters[l] \o [i \in 1 .. 0 |-> h]
    BY <1>1, <2>3, Zenon
  <2>5. QED  BY <1>2, <1>3, <2>4, QueuedTimes, Zenon
<1>8. /\ waiters'[k] \in Seq(Chans)
      /\ Range(waiters'[k]) = Range(waiters[k]) \cup {h}
      /\ IsInjective(waiters'[k])
  <2>1. waiters[k] \in Seq(Chans) /\ IsInjective(waiters[k]) /\ h \notin Range(waiters[k])
    BY <1>2, <1>3, <1>5, Zenon DEF OneKeyInv, QueueInv
  <2>2. QED  BY <1>2, <1>6, <2>1, InjectiveAppend
<1>9. /\ pc'[c] = "select" /\ \A e \in Clients : e # c => pc'[e] = pc[e]
      /\ keys'[c] = ks /\ \A e \in Clients : e # c => keys'[e] = keys[e]
      /\ ch'[c] = h /\ \A e \in Clients : e # c => ch'[e] = ch[e]
  BY <1>1, Zenon DEF OneKeyInv, TypeOK
<1>10. pc[c] \notin Waiting /\ pc'[c] \notin {"rpush", "remove", "found"}
       /\ pc[c] \notin {"rpush", "remove", "found"}
  BY <1>1, <1>9, Zenon DEF Waiting
<1>11. MutexInv' /\ OwnerInv'
  <2>1. MutexInv'
    BY <1>1, <1>9, <1>10, Zenon DEF OneKeyInv, MutexInv
  <2>2. \A e \in Clients : pc[e] \in Waiting => pc'[e] \in Waiting /\ ch'[e] = ch[e]
    BY <1>9, <1>10, Zenon
  <2>3. OwnerInv'
    BY <1>1, <2>2, Zenon DEF OneKeyInv, OwnerInv
  <2>4. QED  BY <2>1, <2>3, Zenon
<1>12. \A e \in Clients : pc[e] \in Waiting =>
           /\ ch[e] \in 1 .. nCh /\ ch[e] \in 1 .. h /\ ch[e] # h /\ Len(keys[e]) = 1
  <2>1. \A e \in Clients : pc[e] \in Waiting => ch[e] \in 1 .. nCh /\ Len(keys[e]) = 1
    BY Zenon DEF OneKeyInv, CallInv
  <2>2. 1 .. nCh \subseteq 1 .. h /\ h \notin 1 .. nCh
    BY <1>0, <1>2, ChanNumbers, Zenon
  <2>3. QED  BY <2>1, <2>2, Zenon
<1>13. CallInv'
  <2>1. h \in 1 .. h
    BY <1>0, <1>2, ChanNumbers, Zenon
  <2>2. \A e \in Clients : pc'[e] \in Waiting => ch'[e] \in 1 .. nCh' /\ Len(keys'[e]) = 1
    BY <1>1, <1>2, <1>9, <1>12, <2>1, Zenon
  <2>3. \A e \in Clients : pc'[e] = "remove" => at'[e] \in {1, 2}
    BY <1>1, <1>9, Zenon DEF OneKeyInv, CallInv
  <2>4. \A e \in Clients : pc'[e] = "found" => at'[e] = 2 /\ buf'[ch'[e]] = <<>>
    BY <1>1, <1>9, Zenon DEF OneKeyInv, CallInv
  <2>5. \A e, d \in Clients :
            pc[e] \in Waiting /\ pc[d] \in Waiting /\ ch[e] = ch[d] => e = d
    BY Zenon DEF OneKeyInv, CallInv
  <2>6. \A e, d \in Clients :
            pc'[e] \in Waiting /\ pc'[d] \in Waiting /\ ch'[e] = ch'[d] => e = d
    BY <1>9, <1>12, <2>5, Zenon
  <2>7. QED  BY <2>2, <2>3, <2>4, <2>6, Zenon DEF CallInv
<1>14. QueueInv'
  <2>1. \A l \in Keys : IsInjective(waiters'[l])
    BY <1>7, <1>8, Zenon DEF OneKeyInv, QueueInv
  <2>2. ASSUME NEW l \in Keys, NEW g \in Range(waiters'[l])
        PROVE  buf'[g] = <<>> /\ \E e \in Clients : Parked(e, l, g)'
    <3>1. CASE g \in Range(waiters[l])
      <4>1. PICK e \in Clients : Parked(e, l, g)
        BY <3>1, Zenon DEF OneKeyInv, QueueInv
      <4>2. e # c /\ buf[g] = <<>>
        BY <1>1, <3>1, <4>1, Zenon DEF OneKeyInv, QueueInv, Parked
      <4>3. QED  BY <1>1, <1>9, <4>1, <4>2, Zenon DEF Parked
    <3>2. CASE g \notin Range(waiters[l])
      <4>1. l = k /\ g = h
        BY <1>7, <1>8, <2>2, <3>2, Zenon
      <4>2. buf[h] = <<>>
        BY <1>2, <1>12, Zenon DEF OneKeyInv, OwnerInv
      <4>3. QED  BY <1>0, <1>1, <1>9, <4>1, <4>2, Zenon DEF Parked
    <3>3. QED  BY <3>1, <3>2, Zenon
  <2>3. QED  BY <2>1, <2>2, Zenon DEF QueueInv
<1>15. ClaimInv'
  <2>1. ASSUME NEW e \in Clients, pc'[e] \in Waiting, buf'[ch'[e]] = <<>>
        PROVE  ch'[e] \in Range(waiters'[keys'[e][1]]) \/ pc'[e] = "found"
    <3>1. CASE e = c
      BY <1>0, <1>8, <1>9, <3>1, Zenon
    <3>2. CASE e # c
      <4>1. ch[e] \in Range(waiters[keys[e][1]]) \/ pc[e] = "found"
        BY <1>1, <1>9, <2>1, <3>2, Zenon DEF OneKeyInv, ClaimInv
      <4>2. keys[e][1] \in Keys
        BY <1>9, <2>1, <3>2, CalledChans, Zenon
      <4>3. \A l \in Keys : Range(waiters[l]) \subseteq Range(waiters'[l])
        BY <1>7, <1>8, Zenon
      <4>4. QED  BY <1>9, <3>2, <4>1, <4>2, <4>3, Zenon
    <3>3. QED  BY <3>1, <3>2, Zenon
  <2>2. QED  BY <2>1, Zenon DEF ClaimInv
<1>16. QED  BY <1>11, <1>13, <1>14, <1>15, Zenon DEF OneKeyInv

-------------------------------------------------------------------------------
(* Counts, and removal from a queue *)

\* A set of natural numbers that is not empty has a least element.
LEMMA LeastNat ==
    ASSUME NEW T, T \subseteq Nat, T # {}
    PROVE  \E m \in T : \A n \in T : m <= n
<1>1. PICK m \in T : \A n \in T : ~ (<<n, m>> \in {s \in Nat \X Nat : s[1] < s[2]})
  BY NatLessThanWellFounded, WFMin, Zenon DEF OpToRel
<1>2. \A n \in T : ~ (n < m)
  BY <1>1, Zenon
<1>3. QED  BY <1>2

\* Counting the first n entries of a list that are l.
Hit(q, l, i) == IF q[i] = l THEN 1 ELSE 0
IsCount(q, l, n, s) ==
    s = [i \in 0 .. n |-> IF i = 0 THEN 0 ELSE s[i - 1] + Hit(q, l, i)]

\* What a count is, position by position.
LEMMA CountAt ==
    ASSUME NEW q, NEW l, NEW n \in Nat, NEW s, IsCount(q, l, n, s)
    PROVE  /\ s[0] = 0
           /\ \A i \in 1 .. n : s[i] = s[i - 1] + Hit(q, l, i)
<1>1. s = [i \in 0 .. n |-> IF i = 0 THEN 0 ELSE s[i - 1] + Hit(q, l, i)]
  BY Zenon DEF IsCount
<1>2. 0 \in 0 .. n /\ \A i \in 1 .. n : i \in 0 .. n /\ i # 0
  OBVIOUS
<1>3. QED  BY <1>1, <1>2, Zenon

\* A count of any length exists.
LEMMA CountExists == ASSUME NEW q, NEW l, NEW n \in Nat PROVE \E s : IsCount(q, l, n, s)
<1> DEFINE T == {i \in Nat : ~ \E s : IsCount(q, l, i, s)}
<1> SUFFICES ASSUME T # {} PROVE FALSE
  BY Zenon
<1>1. PICK m \in T : \A k \in T : m <= k
  BY LeastNat, Zenon
<1>2. m \in Nat /\ \A k \in Nat : ~ (m <= k) => \E s : IsCount(q, l, k, s)
  BY <1>1, Zenon
<1>3. ASSUME m = 0 PROVE FALSE
  <2> DEFINE s == [i \in 0 .. 0 |-> 0]
  <2>1. \A i \in 0 .. 0 : i = 0
    OBVIOUS
  <2>2. IsCount(q, l, 0, s)
    BY <2>1, Zenon DEF IsCount
  <2>3. QED  BY <1>1, <1>3, <2>2, Zenon
<1>4. ASSUME m # 0 PROVE FALSE
  <2>1. m - 1 \in Nat /\ ~ (m <= m - 1)
    BY <1>2, <1>4
  <2>2. PICK s : IsCount(q, l, m - 1, s)
    BY <1>2, <2>1, Zenon
  <2>3. s[0] = 0 /\ \A i \in 1 .. m - 1 : s[i] = s[i - 1] + Hit(q, l, i)
    BY <2>1, <2>2, CountAt, Zenon
  <2> DEFINE st == [i \in 0 .. m |->
                      IF i < m THEN s[i] ELSE s[m - 1] + Hit(q, l, m)]
  <2>4. ASSUME NEW i \in 0 .. m
        PROVE  st[i] = IF i = 0 THEN 0 ELSE st[i - 1] + Hit(q, l, i)
    <3>1. st[i] = IF i < m THEN s[i] ELSE s[m - 1] + Hit(q, l, m)
      BY Zenon
    <3>2. i # 0 => i - 1 \in 0 .. m /\ i - 1 < m
      BY <1>2
    <3>3. i # 0 => st[i - 1] = s[i - 1]
      BY <3>2, Zenon
    <3> HIDE DEF st
    <3>4. CASE i = 0
      <4>1. i < m
        BY <1>2, <1>4, <3>4
      <4>2. QED  BY <2>3, <3>1, <3>4, <4>1, Zenon
    <3>5. CASE i # 0 /\ i < m
      <4>1. i \in 1 .. m - 1
        BY <1>2, <3>5
      <4>2. QED  BY <2>3, <3>1, <3>3, <3>5, <4>1, Zenon
    <3>6. CASE i = m
      <4>1. ~ (i < m)
        BY <1>2, <3>6
      <4>2. QED  BY <1>4, <3>1, <3>3, <3>6, <4>1, Zenon
    <3>7. i = 0 \/ (i # 0 /\ i < m) \/ i = m
      BY <1>2
    <3>8. QED  BY <3>4, <3>5, <3>6, <3>7, Zenon
  <2>5. IsCount(q, l, m, st)
    BY <2>4, Zenon DEF IsCount
  <2>6. QED  BY <1>1, <2>5, Zenon
<1>5. QED  BY <1>3, <1>4, Zenon

\* How often a call names a key: a number, 0 when it does not name it, and 1 when
\* only its first argument does.
LEMMA CountTimes ==
    ASSUME NEW ks \in KeyLists, NEW l
    PROVE  /\ Times(ks, l) \in Nat
           /\ Named(ks, l) = {1} => Times(ks, l) = 1
           /\ Named(ks, l) = {} => Times(ks, l) = 0
<1> DEFINE n == Len(ks)
<1>1. ks \in Seq(Keys) /\ ks # <<>>
  BY CallsAssumption, Zenon
<1>2. n \in Nat /\ n >= 1 /\ DOMAIN ks = 1 .. n
  BY <1>1
<1>3. PICK t : IsCount(ks, l, n, t) /\ Times(ks, l) = t[n]
  <2>1. \E s : IsCount(ks, l, n, s)
    BY <1>2, CountExists, Zenon
  <2>2. Times(ks, l) = (CHOOSE s : IsCount(ks, l, n, s))[n]
    BY Zenon DEF Times, IsCount, Hit
  <2>3. QED  BY <2>1, <2>2, Zenon
<1> HIDE DEF n
<1>4. t[0] = 0 /\ \A i \in 1 .. n : t[i] = t[i - 1] + Hit(ks, l, i)
  BY <1>2, <1>3, CountAt, Zenon
<1> DEFINE Good(i) == /\ t[i] \in Nat
                      /\ Named(ks, l) = {1} => i = 0 \/ t[i] = 1
                      /\ Named(ks, l) = {} => t[i] = 0
           T == {i \in Nat : i <= n /\ ~ Good(i)}
<1>5. T = {}
  <2> SUFFICES ASSUME T # {} PROVE FALSE
    OBVIOUS
  <2>1. PICK m \in T : \A k \in T : m <= k
    BY LeastNat, Zenon
  <2>2. m \in Nat /\ m <= n /\ ~ Good(m)
    BY <2>1, Zenon
  <2>3. m # 0
    BY <1>4, <2>2
  <2>4. m - 1 \in Nat /\ m - 1 <= n /\ ~ (m <= m - 1) /\ m \in 1 .. n
    BY <1>2, <2>2, <2>3
  <2>5. Good(m - 1)
    BY <2>1, <2>4, Zenon
  <2>6. t[m] = t[m - 1] + Hit(ks, l, m)
    BY <1>4, <2>4, Zenon
  <2>7. ks[m] = l <=> m \in Named(ks, l)
    BY <1>2, <2>4, Zenon DEF Named
  <2>8. QED  BY <1>4, <2>2, <2>3, <2>4, <2>5, <2>6, <2>7 DEF Hit
<1>6. Good(n)
  BY <1>2, <1>5
<1>7. QED  BY <1>2, <1>3, <1>6

\* removeWaiter leaves a queue as it was or cuts one entry out of it.
LEMMA RemoveFirstCuts ==
    ASSUME NEW S, NEW q \in Seq(S), NEW h PROVE Cuts(q, h)
<1> DEFINE At == {i \in DOMAIN q : q[i] = h}
           m == CHOOSE i \in At : \A j \in At : i <= j
<1>1. At \subseteq 1 .. Len(q) /\ At \subseteq Nat
  OBVIOUS
<1>2. CASE At = {}
  BY <1>2, Zenon DEF RemoveFirst, Cuts
<1>3. CASE At # {}
  <2> HIDE DEF At
  <2>1. \E i \in At : \A j \in At : i <= j
    BY <1>1, <1>3, LeastNat, Zenon
  <2>2. m \in At
    BY <2>1, Zenon
  <2>3. m \in 1 .. Len(q)
    BY <1>1, <2>2, Zenon
  <2>4. RemoveFirst(q, h) = SubSeq(q, 1, m - 1) \o SubSeq(q, m + 1, Len(q))
    BY <1>3, Zenon DEF RemoveFirst, At
  <2>5. QED  BY <2>3, <2>4, Zenon DEF Cuts
<1>4. QED  BY <1>2, <1>3, Zenon

-------------------------------------------------------------------------------
(* For any argument lists *)

\* The empty store satisfies the invariant.
LEMMA AnyInit == Init => AnyInv
<1> SUFFICES ASSUME Init PROVE AnyInv
  BY Zenon
<1>1. AnyKey \in Keys
  BY KeysAssumption, Zenon DEF AnyKey
<1>2. TypeOK
  <2>1. /\ list \in [Keys -> Seq(Vals)] /\ waiters \in [Keys -> Seq(Chans)]
        /\ buf \in [Chans -> {<<>>} \cup {<<v>> : v \in Vals}]
        /\ todo \in [Clients -> Seq(Vals)] /\ keys \in [Clients -> Seq(Keys)]
    BY DEF Init
  <2>2. /\ pc \in [Clients -> Phases] /\ key \in [Clients -> Keys]
        /\ ch \in [Clients -> Chans \cup {0}] /\ timed \in [Clients -> BOOLEAN]
        /\ at \in [Clients -> Nat]
    BY <1>1, Zenon DEF Init, Phases
  <2>3. ctxDone \in BOOLEAN /\ crashed \in BOOLEAN
    BY Zenon DEF Init
  <2>4. nVal = 0 /\ nCh = 0 /\ keyspace = {} /\ returned = {} /\ mu = NoClient
    BY Zenon DEF Init
  <2>5. nVal \in 0 .. MaxVals /\ nCh \in 0 .. MaxChans
    BY <2>4, BoundsAssumption
  <2>6. QED  BY <2>1, <2>2, <2>3, <2>4, <2>5, Zenon DEF TypeOK
<1>3. PhaseInv
  BY Zenon DEF Init, PhaseInv, Waiting
<1>4. ApartInv
  <2>1. ASSUME NEW p \in Holders PROVE Held(p) = {}
    <3>1. /\ returned = {} /\ \A k \in Keys : list[k] = <<>>
          /\ \A c \in Clients : todo[c] = <<>>
          /\ \A h \in Chans : buf[h] = <<>>
      BY Zenon DEF Init
    <3>2. QED  BY <3>1, HolderCases, HeldBy, RangeOfBuffer
  <2>2. 1 .. nVal = {}
    BY DEF Init
  <2>3. QED  BY <2>1, <2>2, Zenon DEF ApartInv
<1>5. DistinctInv /\ OrderInv
  BY DEF Init, DistinctInv, OrderInv, Ordered, IsInjective
<1>6. QED  BY <1>2, <1>3, <1>4, <1>5, Zenon DEF AnyInv

\* Every step preserves the invariant.
LEMMA AnyNext == AnyInv /\ [Next]_vars => AnyInv'
<1> SUFFICES ASSUME AnyInv, [Next]_vars PROVE AnyInv'
  BY Zenon
<1>0. crashed \in BOOLEAN /\ ctxDone \in BOOLEAN
  BY Zenon DEF AnyInv, TypeOK
<1>1. ASSUME NEW c \in Clients, Call(c) PROVE AnyInv'
  <2>1. ASSUME NEW k \in Keys, NEW n \in RPushSizes, RPushLock(c, k, n) PROVE AnyInv'
    BY <2>1, RPushLockAny, Zenon
  <2>2. ASSUME NEW k \in Keys, NEW n \in LPushSizes, LPush(c, k, n) PROVE AnyInv'
    BY <2>2, LPushAny, Zenon
  <2>3. ASSUME NEW k \in Keys, NEW n \in PopCounts, LPop(c, k, n) PROVE AnyInv'
    BY <2>3, LPopAny, Zenon
  <2>4. ASSUME NEW k \in Keys, NEW n \in PopCounts, LPopPanic(c, k, n) PROVE AnyInv'
    BY <1>0, <2>4, FlagAny, Zenon DEF LPopPanic, storeVars, pushVars, waitVars
  <2>5. ASSUME NEW ks \in KeyLists, BLpopTake(c, ks) PROVE AnyInv'
    BY <2>5, BLpopTakeAny, Zenon
  <2>6. ASSUME NEW ks \in KeyLists, NEW t \in Timeouts, BLpopBlock(c, ks, t) PROVE AnyInv'
    BY <2>6, CountTimes, BLpopBlockAny, Zenon
  <2>7. QED  BY <1>1, <2>1, <2>2, <2>3, <2>4, <2>5, <2>6, Zenon DEF Call
<1>2. ASSUME NEW c \in Clients, Progress(c) \/ CancelLock(c) PROVE AnyInv'
  <2>1. CASE RPushHand(c) \/ RPushAppend(c) \/ RPushReturn(c)
    BY <2>1, RPushHandAny, RPushAppendAny, RPushReturnAny, Zenon
  <2>2. CASE Receive(c) \/ Drain(c)
    BY <2>2, TakeAny, Zenon DEF Receive, Drain
  <2>3. CASE RemoveWaiter(c)
    BY <2>3, RemoveFirstCuts, RemoveWaiterAny, Zenon
  <2>4. CASE GiveUp(c) \/ CancelLock(c) \/ CancelNil(c) \/ CancelClaimed(c)
    BY <2>4, GiveUpAny, Zenon
  <2>5. QED  BY <1>2, <2>1, <2>2, <2>3, <2>4, Zenon DEF Progress
<1>3. CASE Shutdown
  BY <1>0, <1>3, FlagAny, Zenon DEF Shutdown, storeVars, pushVars, waitVars
<1>4. CASE UNCHANGED vars
  BY <1>0, <1>4, FlagAny, Zenon DEF vars
<1>5. QED  BY <1>1, <1>2, <1>3, <1>4, Zenon DEF Next

\* The invariant holds in every reachable state.
LEMMA AnyInductive == Spec => []AnyInv
BY AnyInit, AnyNext, PTL DEF Spec

\* Every variable keeps its type: in particular no index into a key list, no
\* channel and no popped element is ever undefined.
THEOREM TypeCorrect == Spec => []TypeOK
<1>1. AnyInv => TypeOK
  BY Zenon DEF AnyInv
<1>2. QED  BY <1>1, AnyInductive, PTL

\* A place that holds v belongs to a holder of v, and only one place of that holder
\* has v.
LEMMA PlaceOfHolder ==
    ASSUME AnyInv, NEW v, NEW x \in PlacesOf(v), NEW y \in PlacesOf(v)
    PROVE  x = y
<1> DEFINE InList(z, k, i) == /\ z = <<"list", <<k, i>>>> /\ i \in DOMAIN list[k] /\ list[k][i] = v
           In(z) == \/ \E k \in Keys, i \in Vals : InList(z, k, i)
                    \/ \E c \in Clients : z = <<"todo", c>> /\ v \in Held(<<"todo", c>>)
                    \/ \E h \in Chans : z = <<"chan", h>> /\ v \in Held(<<"chan", h>>)
                    \/ z = <<"reply">> /\ v \in Held(<<"reply", 0>>)
<1>1. \A z \in PlacesOf(v) : In(z)
  <2>1. TAKE z \in PlacesOf(v)
  <2>2. \A p \in Keys \X Vals : p = <<p[1], p[2]>> /\ p[1] \in Keys /\ p[2] \in Vals
    OBVIOUS
  <2>3. CASE \E p \in {p \in Keys \X Vals : p[2] \in DOMAIN list[p[1]] /\ list[p[1]][p[2]] = v} :
                z = <<"list", p>>
    BY <2>2, <2>3, Zenon
  <2>4. CASE \E c \in {d \in Clients : v \in Range(todo[d])} : z = <<"todo", c>>
    BY <2>4, HeldBy, Zenon
  <2>5. CASE \E h \in {g \in Chans : v \in Range(buf[g])} : z = <<"chan", h>>
    BY <2>5, HeldBy, Zenon
  <2>6. CASE \E x2 \in returned \cap {v} : z = <<"reply">>
    BY <2>6, HeldBy, Zenon
  <2>7. QED  BY <2>1, <2>3, <2>4, <2>5, <2>6, Zenon DEF PlacesOf
<1>2. \A k \in Keys, i \in Vals : \A z : InList(z, k, i) => v \in Held(<<"list", k>>)
  BY HeldBy, Zenon DEF Range
<1>3. \A p, q \in Holders : v \in Held(p) /\ v \in Held(q) => p = q
  BY Zenon DEF AnyInv, ApartInv
<1>4. ASSUME NEW k \in Keys, NEW l \in Keys, NEW i \in Vals, NEW j \in Vals,
             InList(x, k, i), InList(y, l, j)
      PROVE  x = y
  <2>1. <<"list", k>> = <<"list", l>>
    BY <1>2, <1>3, <1>4, HeldBy, Zenon
  <2>2. k = l
    BY <2>1, Zenon
  <2>3. i = j
    BY <1>4, <2>2, Zenon DEF AnyInv, DistinctInv, IsInjective
  <2>4. QED  BY <1>4, <2>2, <2>3, Zenon
<1>5. ASSUME NEW k \in Keys, NEW i \in Vals, NEW z, NEW u,
             InList(z, k, i), In(u), ~ \E l \in Keys, j \in Vals : InList(u, l, j)
      PROVE  FALSE
  BY <1>2, <1>3, <1>5, HeldBy, Zenon
<1> HIDE DEF InList, In
<1>6. QED
  <2>1. In(x) /\ In(y)
    BY <1>1, Zenon
  <2>2. CASE \/ \E k \in Keys, i \in Vals : InList(x, k, i)
             \/ \E k \in Keys, i \in Vals : InList(y, k, i)
    <3>1. ASSUME NEW k \in Keys, NEW i \in Vals, InList(x, k, i) PROVE x = y
      <4>1. \E l \in Keys, j \in Vals : InList(y, l, j)
        BY <1>5, <2>1, <3>1, Zenon
      <4>2. QED  BY <1>4, <3>1, <4>1, Zenon
    <3>2. ASSUME NEW k \in Keys, NEW i \in Vals, InList(y, k, i) PROVE x = y
      <4>1. \E l \in Keys, j \in Vals : InList(x, l, j)
        BY <1>5, <2>1, <3>2, Zenon
      <4>2. QED  BY <1>4, <3>2, <4>1, Zenon
    <3>3. QED  BY <2>2, <3>1, <3>2, Zenon
  <2>3. CASE ~ \/ \E k \in Keys, i \in Vals : InList(x, k, i)
               \/ \E k \in Keys, i \in Vals : InList(y, k, i)
    BY <1>3, <2>1, <2>3, HeldBy, Zenon DEF In
  <2>4. QED  BY <2>2, <2>3, Zenon

\* No element is handed out twice or handed out while it is still stored, for any
\* argument lists and any number of keys, clients, values and calls.
THEOREM HandedOutOnce == Spec => []AtMostOnce
<1>1. ASSUME AnyInv, NEW v, NEW x \in PlacesOf(v), NEW y \in PlacesOf(v) PROVE x = y
  BY <1>1, PlaceOfHolder, Zenon
<1>2. AnyInv => AtMostOnce
  BY <1>1, Zenon DEF AtMostOnce
<1>3. QED  BY <1>2, AnyInductive, PTL

\* Value v sits in channel h, which no blocked call reads.
Stranded(v, h) ==
    v \in Range(buf[h]) /\ ~ \E c \in Clients : pc[c] \in Waiting /\ ch[c] = h

\* A value that is neither stored, in flight nor returned is in such a channel.
LEMMA AccountedOrStranded ==
    ASSUME AnyInv, NEW v \in 1 .. nVal PROVE Accounted(v) \/ \E h \in Chans : Stranded(v, h)
<1>1. PICK p \in Holders : v \in Held(p)
  BY Zenon DEF AnyInv, ApartInv
<1>2. ASSUME NEW h \in Chans, p = <<"chan", h>> PROVE Accounted(v) \/ Stranded(v, h)
  <2>1. v \in Range(buf[h])
    BY <1>1, <1>2, HeldBy, Zenon
  <2>2. QED  BY <2>1, Zenon DEF Accounted, Stranded
<1>3. ASSUME NEW k \in Keys, p = <<"list", k>> PROVE Accounted(v)
  BY <1>1, <1>3, HeldBy, Zenon DEF Accounted
<1>4. ASSUME NEW c \in Clients, p = <<"todo", c>> PROVE Accounted(v)
  BY <1>1, <1>4, HeldBy, Zenon DEF Accounted
<1>5. CASE p = <<"reply", 0>>
  BY <1>1, <1>5, HeldBy, Zenon DEF Accounted
<1>6. QED  BY <1>2, <1>3, <1>4, <1>5, HolderCases, Zenon

\* For any argument lists, an element gets lost in one way only: RPush handed it to
\* a queued channel, and no BLPOP call that is still blocked reads that channel.
THEOREM LostOnlyInChannels ==
    Spec => [](\A v \in 1 .. nVal : Accounted(v) \/ \E h \in Chans : Stranded(v, h))
<1>1. AnyInv => \A v \in 1 .. nVal : Accounted(v) \/ \E h \in Chans : Stranded(v, h)
  BY AccountedOrStranded, Zenon
<1>2. QED  BY <1>1, AnyInductive, PTL

\* A step that changes neither the lists nor the queues, RPush's hand-over, and
\* whatever else happens to lists and queues besides LPush: none leaves a client
\* parked on a list with elements unless one was parked there before.
LEMMA NotPassedBy ==
    ASSUME AnyInv, Next, NEW k \in Keys, waiters[k] = <<>> \/ list[k] = <<>>,
           waiters'[k] # <<>>, list'[k] # <<>>
    PROVE  \E c \in Clients, n \in LPushSizes : LPush(c, k, n)
<1>0. \A l \in Keys : list[l] \in Seq(Vals) /\ waiters[l] \in Seq(Chans)
  BY Zenon DEF AnyInv, TypeOK
<1>1. ~ (waiters'[k] = waiters[k] /\ list'[k] = list[k])
  BY Zenon
<1>2. CASE Shutdown
  BY <1>1, <1>2, Zenon DEF Shutdown, storeVars
<1>3. ASSUME NEW c \in Clients, Progress(c) \/ CancelLock(c) PROVE FALSE
  <2>1. CASE RPushHand(c)
    <3>1. list' = list /\ waiters[key[c]] # <<>>
          /\ waiters' = [waiters EXCEPT ![key[c]] = Tail(waiters[key[c]])]
      BY <2>1, Zenon DEF RPushHand
    <3>2. waiters[k] # <<>>
      BY <1>1, <3>1, Zenon DEF AnyInv, TypeOK
    <3>3. QED  BY <3>1, <3>2, Zenon
  <2>2. CASE RPushAppend(c)
    <3>1. /\ waiters' = waiters /\ waiters[key[c]] = <<>>
          /\ \A l \in Keys : l # key[c] => list'[l] = list[l]
      BY <2>2, Zenon DEF RPushAppend, AnyInv, TypeOK
    <3>2. QED  BY <1>1, <3>1, Zenon
  <2>3. CASE RemoveWaiter(c)
    <3>1. PICK l, h : waiters' = [waiters EXCEPT ![l] = RemoveFirst(waiters[l], h)] /\ list' = list
      BY <2>3, Zenon DEF RemoveWaiter
    <3>2. waiters[k] = <<>> => waiters'[k] = <<>>
      <4>1. RemoveFirst(<<>>, h) = <<>>
        BY DEF RemoveFirst
      <4>2. QED  BY <3>1, <4>1, Zenon DEF AnyInv, TypeOK
    <3>3. QED  BY <3>1, <3>2, Zenon
  <2>4. CASE RPushReturn(c) \/ Receive(c) \/ GiveUp(c) \/ CancelNil(c) \/ CancelClaimed(c)
              \/ Drain(c) \/ CancelLock(c)
    <3>1. UNCHANGED <<list, waiters>>
      BY <2>4, Zenon DEF RPushReturn, Receive, GiveUp, CancelNil, CancelClaimed, Drain, CancelLock,
                  Take, storeVars
    <3>2. QED  BY <1>1, <3>1, Zenon
  <2>5. QED  BY <1>3, <2>1, <2>2, <2>3, <2>4, Zenon DEF Progress
<1>4. ASSUME NEW c \in Clients, Call(c) PROVE \E n \in LPushSizes : LPush(c, k, n)
  <2>1. ASSUME NEW l \in Keys, NEW n \in RPushSizes, RPushLock(c, l, n) PROVE FALSE
    BY <1>1, <2>1, Zenon DEF RPushLock, storeVars
  <2>2. ASSUME NEW l \in Keys, NEW n \in LPushSizes, LPush(c, l, n) PROVE LPush(c, k, n)
    <3>1. k # l => list'[k] = list[k] /\ waiters'[k] = waiters[k]
      BY <2>2, Zenon DEF LPush, AnyInv, TypeOK
    <3>2. QED  BY <1>1, <2>2, <3>1, Zenon
  <2>3. ASSUME NEW l \in Keys, NEW n \in PopCounts, LPop(c, l, n) PROVE FALSE
    <3>1. /\ waiters' = waiters /\ n \in Nat /\ n <= Len(list[l])
          /\ list' = [list EXCEPT ![l] = SubSeq(list[l], n + 1, Len(list[l]))]
      BY <2>3, SizesAssumption, Zenon DEF LPop
    <3>2. k = l /\ list[l] = <<>>
      BY <1>1, <3>1, Zenon DEF AnyInv, TypeOK
    <3>3. list'[k] = SubSeq(<<>>, n + 1, 0) /\ n = 0
      BY <3>1, <3>2 DEF AnyInv, TypeOK
    <3>4. SubSeq(<<>>, 1, 0) = <<>>
      OBVIOUS
    <3>5. QED  BY <3>3, <3>4
  <2>4. ASSUME NEW l \in Keys, NEW n \in PopCounts, LPopPanic(c, l, n) PROVE FALSE
    BY <1>1, <2>4, Zenon DEF LPopPanic, storeVars
  <2>5. ASSUME NEW ks \in KeyLists, BLpopTake(c, ks) PROVE FALSE
    <3>1. PICK l : /\ list[l] # <<>> /\ list' = [list EXCEPT ![l] = Tail(list[l])]
                   /\ waiters' = waiters
      BY <2>5, Zenon DEF BLpopTake
    <3>2. QED  BY <1>1, <3>1, Zenon DEF AnyInv, TypeOK
  <2>6. ASSUME NEW ks \in KeyLists, NEW t \in Timeouts, BLpopBlock(c, ks, t) PROVE FALSE
    <3>1. /\ list' = list /\ \A i \in DOMAIN ks : list[ks[i]] = <<>>
          /\ waiters'[k] = waiters[k] \o [i \in 1 .. Times(ks, k) |-> nCh + 1]
      BY <2>6, Zenon DEF BLpopBlock
    <3>2. waiters[k] = <<>> /\ Named(ks, k) = {}
      BY <3>1, Zenon DEF Named
    <3>3. Times(ks, k) = 0
      BY <3>2, CountTimes, Zenon
    <3>4. [i \in 1 .. Times(ks, k) |-> nCh + 1] = <<>>
      BY <3>3
    <3>5. QED  BY <3>1, <3>2, <3>4
  <2>7. QED  BY <1>4, <2>1, <2>2, <2>3, <2>4, <2>5, <2>6, Zenon DEF Call
<1>5. QED  BY <1>2, <1>3, <1>4, Zenon DEF Next

\* Only an LPUSH leaves a client parked on a list that has elements: BLpop looks and
\* queues in one critical section, and RPush serves whoever is queued first.
THEOREM OnlyLPushPasses == Spec => OnlyLPushPassesBy
<1>1. AnyInv /\ [Next]_vars =>
        [\A k \in Keys :
            /\ waiters[k] = <<>> \/ list[k] = <<>>
            /\ waiters'[k] # <<>> /\ list'[k] # <<>>
            => \E c \in Clients, n \in LPushSizes : LPush(c, k, n)]_vars
  BY NotPassedBy, Zenon
<1>2. QED  BY <1>1, AnyInductive, PTL DEF Spec, OnlyLPushPassesBy

\* Clients blocked on a key are served in the order they blocked, for any argument
\* lists: every queue is in the order its channels were made, and RPush takes the
\* first.
THEOREM ServedInOrder == Spec => FirstComeFirstServed
<1>1. ASSUME AnyInv, Next, NEW k \in Keys, NEW h \in Chans, h \in Range(waiters[k]),
             waiters'[k] # waiters[k], buf[h] = <<>>, buf'[h] # <<>>
      PROVE  \A g \in Range(waiters'[k]) : h <= g
  <2>1. PICK c \in Clients : RPushHand(c)
    <3>1. ASSUME NEW c \in Clients, Take(c) PROVE FALSE
      BY <1>1, <3>1, Zenon DEF Take, AnyInv, TypeOK
    <3>2. buf' # buf
      BY <1>1, Zenon
    <3>3. QED
      BY <1>1, <3>1, <3>2, ZenonT(30)
      DEF Next, Call, Progress, RPushLock, LPush, LPop, LPopPanic, BLpopTake, BLpopBlock,
        RPushAppend, RPushReturn, Receive, GiveUp, RemoveWaiter, CancelNil,
        CancelClaimed, Drain, CancelLock, Shutdown, storeVars
  <2>2. PICK l : /\ l = key[c] /\ waiters[l] # <<>>
                 /\ buf' = [buf EXCEPT ![Head(waiters[l])] = <<Head(todo[c])>>]
                 /\ waiters' = [waiters EXCEPT ![l] = Tail(waiters[l])]
    BY <2>1, Zenon DEF RPushHand
  <2>3. k = l /\ h = Head(waiters[k]) /\ waiters'[k] = Tail(waiters[k])
    BY <1>1, <2>2, Zenon DEF AnyInv, TypeOK
  <2>4. waiters[k] \in Seq(Chans) /\ Chans \subseteq Nat /\ Ordered(waiters[k])
    BY <1>1 DEF AnyInv, TypeOK, OrderInv, Chans
  <2>5. QED  BY <2>2, <2>3, <2>4, OrderedTail, Zenon
<1>2. AnyInv /\ [Next]_vars =>
        [\A k \in Keys, h \in Chans :
            /\ h \in Range(waiters[k]) /\ waiters'[k] # waiters[k]
            /\ buf[h] = <<>> /\ buf'[h] # <<>>
            => \A g \in Range(waiters'[k]) : h <= g]_vars
  BY <1>1, Zenon
<1>3. QED  BY <1>2, AnyInductive, PTL DEF Spec, FirstComeFirstServed

-------------------------------------------------------------------------------
(* For calls with one key *)

\* The empty store satisfies the invariant.
LEMMA InitIInv == Init => IInv
<1> SUFFICES ASSUME Init PROVE IInv
  BY Zenon
<1>1. AnyInv
  BY AnyInit, Zenon
<1>2. MutexInv /\ CallInv /\ ClaimInv /\ OwnerInv
  <2>1. mu = NoClient /\ (\A c \in Clients : pc[c] = "idle") /\ \A h \in Chans : buf[h] = <<>>
    BY Zenon DEF Init
  <2>2. MutexInv
    BY <2>1, KeysAssumption, Zenon DEF MutexInv
  <2>3. QED  BY <2>1, <2>2, Zenon DEF CallInv, ClaimInv, OwnerInv, Waiting
<1>3. QueueInv
  <2>1. \A k \in Keys : waiters[k] = <<>> /\ Range(waiters[k]) = {}
    BY RangeOfBuffer, Zenon DEF Init
  <2>2. IsInjective(<<>>)
    BY DEF IsInjective
  <2>3. QED  BY <2>1, <2>2, Zenon DEF Init, QueueInv
<1>4. QED  BY <1>1, <1>2, <1>3, Zenon DEF IInv, OneKeyInv

\* Every step preserves the invariant when each call names one key.
LEMMA NextIInv == ASSUME SingleKey, IInv, [Next]_vars PROVE IInv'
<1>0. AnyInv' /\ TypeOK /\ OneKeyInv
  BY AnyNext, Zenon DEF IInv, AnyInv
<1>1. ASSUME NEW c \in Clients, Call(c) PROVE OneKeyInv'
  <2>1. ASSUME NEW k \in Keys, NEW n \in RPushSizes, RPushLock(c, k, n) PROVE OneKeyInv'
    BY <1>0, <2>1, RPushEndsStep, Zenon
  <2>2. ASSUME NEW ks \in KeyLists, NEW t \in Timeouts, BLpopBlock(c, ks, t) PROVE OneKeyInv'
    BY <1>0, <2>2, CountTimes, BLpopBlockStep, Zenon
  <2>3. CASE UNCHANGED <<waiters, buf, mu, pc, keys, ch, at, nCh>>
    BY <1>0, <2>3, QuietStep, Zenon
  <2>4. QED
    BY <1>1, <2>1, <2>2, <2>3, Zenon
    DEF Call, LPush, LPop, LPopPanic, BLpopTake, storeVars, waitVars
<1>2. ASSUME NEW c \in Clients, Progress(c) \/ CancelLock(c) PROVE OneKeyInv'
  <2>1. CASE RPushHand(c)
    BY <1>0, <2>1, RPushHandStep, Zenon
  <2>2. CASE RPushAppend(c)
    BY <1>0, <2>2, QuietStep, Zenon DEF RPushAppend, waitVars
  <2>3. CASE RPushReturn(c)
    BY <1>0, <2>3, RPushEndsStep, Zenon
  <2>4. CASE Receive(c) \/ Drain(c)
    BY <1>0, <2>4, TakeStep, Zenon DEF Receive, Drain
  <2>5. CASE GiveUp(c) \/ CancelLock(c)
    BY <1>0, <2>5, GiveUpStep, Zenon
  <2>6. CASE RemoveWaiter(c)
    BY <1>0, <2>6, RemoveWaiterStep, Zenon
  <2>7. CASE CancelNil(c) \/ CancelClaimed(c)
    BY <1>0, <2>7, CancelStep, Zenon
  <2>8. QED  BY <1>2, <2>1, <2>2, <2>3, <2>4, <2>5, <2>6, <2>7, Zenon DEF Progress
<1>3. CASE Shutdown
  <2>1. UNCHANGED <<waiters, buf, mu, pc, keys, ch, at, nCh>>
    BY <1>3, Zenon DEF Shutdown, storeVars, waitVars
  <2>2. QED  BY <1>0, <2>1, QuietStep, Zenon DEF IInv
<1>4. CASE UNCHANGED vars
  <2>1. UNCHANGED <<waiters, buf, mu, pc, keys, ch, at, nCh>>
    BY <1>4, Zenon DEF vars
  <2>2. QED  BY <1>0, <2>1, QuietStep, Zenon DEF IInv
<1>5. QED  BY <1>0, <1>1, <1>2, <1>3, <1>4, Zenon DEF Next, IInv

\* The invariant holds in every reachable state.
LEMMA Inductive == ASSUME SingleKey PROVE Spec => []IInv
<1>1. Init => IInv
  BY InitIInv, Zenon
<1>2. IInv /\ [Next]_vars => IInv'
  BY NextIInv, Zenon
<1>3. QED  BY <1>1, <1>2, PTL DEF Spec

\* BLPOP on one key loses no element, whatever the number of keys, clients,
\* values and blocking calls, and in whichever order a push, the timeout and
\* the shutdown reach a blocked call: a value that RPush hands over is read,
\* because cancelWait looks again under the mutex.
THEOREM NoElementLost == ASSUME SingleKey PROVE Spec => []NothingLost
<1>1. ASSUME IInv, NEW v \in 1 .. nVal PROVE Accounted(v)
  <2>1. ASSUME NEW h \in Chans, Stranded(v, h) PROVE FALSE
    <3>1. buf[h] # <<>>
      BY <2>1, RangeOfBuffer, Zenon DEF Stranded
    <3>2. QED  BY <1>1, <2>1, <3>1, Zenon DEF Stranded, IInv, OneKeyInv, OwnerInv
  <2>2. QED  BY <1>1, <2>1, AccountedOrStranded, Zenon DEF IInv
<1>2. IInv => NothingLost
  BY <1>1, Zenon DEF NothingLost
<1>3. QED  BY <1>2, Inductive, PTL

\* RPush never waits for room in a channel while it holds the store's mutex:
\* a queued channel is empty.
THEOREM PushNeverStalls == ASSUME SingleKey PROVE Spec => []SendNeverBlocks
<1>1. ASSUME IInv PROVE SendNeverBlocks
  <2>1. ASSUME NEW c \in Clients, waiters[key[c]] # <<>>
        PROVE  buf[Head(waiters[key[c]])] = <<>>
    <3>1. key[c] \in Keys /\ waiters[key[c]] \in Seq(Chans)
      BY <1>1, Zenon DEF IInv, AnyInv, TypeOK
    <3>2. Head(waiters[key[c]]) \in Range(waiters[key[c]])
      BY <2>1, <3>1, RangeHeadTail, Zenon
    <3>3. QED  BY <1>1, <3>1, <3>2, Zenon DEF IInv, OneKeyInv, QueueInv
  <2>2. QED  BY <2>1, Zenon DEF SendNeverBlocks, SendBlocked
<1>2. QED  BY <1>1, Inductive, PTL

\* A call that gave up and found itself dequeued has its value waiting: the
\* bare receive that ends cancelWait returns at once.
THEOREM ClaimedIsServed == ASSUME SingleKey PROVE Spec => []ClaimedHasValue
<1>1. ASSUME IInv PROVE ClaimedHasValue
  <2>1. ASSUME NEW c \in Clients, pc[c] = "recv", buf[ch[c]] = <<>> PROVE FALSE
    <3>1. PICK k : k = keys[c][1]
      BY Zenon
    <3>2. ch[c] \in Range(waiters[k]) /\ pc[c] \in Waiting
      BY <1>1, <2>1, <3>1, Zenon DEF IInv, OneKeyInv, ClaimInv, Waiting
    <3>3. k \in Keys
      BY <1>1, <3>1, <3>2, CalledChans, Zenon DEF IInv, AnyInv
    <3>4. PICK d \in Clients : Parked(d, k, ch[c])
      BY <1>1, <3>2, <3>3, Zenon DEF IInv, OneKeyInv, QueueInv
    <3>5. ch[d] = ch[c] /\ pc[d] \in Waiting /\ pc[d] # "recv"
      BY <3>4, Zenon DEF Parked, Waiting
    <3>6. QED  BY <1>1, <2>1, <3>2, <3>5, Zenon DEF IInv, OneKeyInv, CallInv
  <2>2. QED  BY <2>1, Zenon DEF ClaimedHasValue
<1>2. QED  BY <1>1, Inductive, PTL
===============================================================================
