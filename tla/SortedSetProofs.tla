---------------------------- MODULE SortedSetProofs ----------------------------
(***************************************************************************)
(* For any members, scores, positions and clients: the list stays in order *)
(* while no score is NaN, it mirrors the map between commands that do not  *)
(* overlap, ranks and slices are then exact, and GEOPOS returns what       *)
(* GEOADD stored.                                                          *)
(***************************************************************************)
EXTENDS SortedSet, FiniteSetTheorems, TLAPS

--------------------------------------------------------------------------------
(* Lists and recursive functions *)

\* A function on 1 .. n is a list of length n.
LEMMA FcnSeq ==
    ASSUME NEW S, NEW n \in Nat, NEW w \in [1 .. n -> S] PROVE w \in Seq(S) /\ Len(w) = n
OBVIOUS

\* A set of natural numbers that is not empty has a least element.
LEMMA LeastNat ==
    ASSUME NEW T, T \subseteq Nat, T # {}
    PROVE  \E m \in T : \A n \in T : m <= n
<1>1. PICK m \in T : \A n \in T : ~ (<<n, m>> \in {s \in Nat \X Nat : s[1] < s[2]})
  BY NatLessThanWellFounded, WFMin, Zenon DEF OpToRel
<1>2. \A n \in T : ~ (n < m)
  BY <1>1, Zenon
<1>3. QED  BY <1>2

\* What is kept by every step up to n holds at n, for a set T of numbers.
LEMMA Reaches ==
    ASSUME NEW n \in Nat, NEW T, 0 \in T, \A i \in 1 .. n : i - 1 \in T => i \in T
    PROVE  \A i \in 0 .. n : i \in T
<1> DEFINE B == {i \in 0 .. n : i \notin T}
<1> SUFFICES ASSUME B # {} PROVE FALSE
  BY Zenon
<1>1. B \subseteq Nat
  OBVIOUS
<1>2. PICK m \in B : \A k \in B : m <= k
  BY <1>1, LeastNat, Zenon
<1>3. m # 0
  BY <1>2, Zenon
<1>4. m \in 1 .. n /\ m - 1 \in 0 .. n /\ ~ (m <= m - 1)
  BY <1>2, <1>3
<1>5. m - 1 \in T
  BY <1>2, <1>4, Zenon
<1>6. QED  BY <1>2, <1>4, <1>5, Zenon

\* The values of f[0 .. n] are x and then F[1], F[2], ... of the value before.
Step(F, i, y) == F[i][y]
IsRun(F, x, n, f) == f = [i \in 0 .. n |-> IF i = 0 THEN x ELSE Step(F, i, f[i - 1])]

\* A run, step by step.
Follows(F, x, n, f) == f[0] = x /\ \A i \in 1 .. n : f[i] = Step(F, i, f[i - 1])

\* A run goes step by step.
LEMMA RunAt ==
    ASSUME NEW F, NEW x, NEW n \in Nat, NEW f, IsRun(F, x, n, f)
    PROVE  Follows(F, x, n, f)
<1>1. f = [i \in 0 .. n |-> IF i = 0 THEN x ELSE Step(F, i, f[i - 1])]
  BY Zenon DEF IsRun
<1>2. 0 \in 0 .. n /\ \A i \in 1 .. n : i \in 0 .. n /\ i # 0
  OBVIOUS
<1>3. QED  BY <1>1, <1>2, Zenon DEF Follows

\* A run of any length exists.
LEMMA RunExists == ASSUME NEW F, NEW x, NEW n \in Nat PROVE \E f : IsRun(F, x, n, f)
<1> DEFINE T == {i \in Nat : \E f : IsRun(F, x, i, f)}
<1>1. 0 \in T
  <2> DEFINE f == [i \in 0 .. 0 |-> x]
  <2>1. 0 \in Nat /\ \A i \in 0 .. 0 : i = 0
    OBVIOUS
  <2>2. IsRun(F, x, 0, f)
    BY <2>1, Zenon DEF IsRun
  <2>3. QED  BY <2>1, <2>2, Zenon
<1>2. ASSUME NEW m \in 1 .. n, m - 1 \in T PROVE m \in T
  <2>1. m - 1 \in Nat /\ m \in Nat /\ m # 0
    BY <1>2
  <2>2. PICK s : IsRun(F, x, m - 1, s)
    BY <1>2, Zenon
  <2>3. s[0] = x /\ \A i \in 1 .. m - 1 : s[i] = Step(F, i, s[i - 1])
    <3>1. Follows(F, x, m - 1, s)
      BY <2>1, <2>2, RunAt, Zenon
    <3>2. QED  BY <3>1, Zenon DEF Follows
  <2> DEFINE f == [i \in 0 .. m |-> IF i < m THEN s[i] ELSE Step(F, m, s[m - 1])]
  <2>4. ASSUME NEW i \in 0 .. m PROVE f[i] = IF i = 0 THEN x ELSE Step(F, i, f[i - 1])
    <3>1. f[i] = IF i < m THEN s[i] ELSE Step(F, m, s[m - 1])
      BY Zenon
    <3>2. i # 0 => i - 1 \in 0 .. m /\ i - 1 < m
      BY <2>1
    <3>3. i # 0 => f[i - 1] = s[i - 1]
      BY <3>2, Zenon
    <3> HIDE DEF f
    <3>4. CASE i = 0
      <4>1. i < m
        BY <2>1, <3>4
      <4>2. QED  BY <2>3, <3>1, <3>4, <4>1, Zenon
    <3>5. CASE i # 0 /\ i < m
      <4>1. i \in 1 .. m - 1
        BY <2>1, <3>5
      <4>2. QED  BY <2>3, <3>1, <3>3, <3>5, <4>1, Zenon
    <3>6. CASE i = m
      <4>1. ~ (i < m)
        BY <2>1, <3>6
      <4>2. QED  BY <2>1, <3>1, <3>3, <3>6, <4>1, Zenon
    <3>7. i = 0 \/ (i # 0 /\ i < m) \/ i = m
      BY <2>1
    <3>8. QED  BY <3>4, <3>5, <3>6, <3>7, Zenon
  <2>5. IsRun(F, x, m, f)
    BY <2>4, Zenon DEF IsRun
  <2>6. QED  BY <2>1, <2>5, Zenon
<1>3. \A i \in 0 .. n : i \in T
  <2> HIDE DEF T
  <2>1. QED  BY <1>1, <1>2, Reaches, Zenon
<1>4. n \in 0 .. n
  OBVIOUS
<1>5. QED  BY <1>3, <1>4, Zenon

\* Steps within a set S make a run within S.
LEMMA RunWithin ==
    ASSUME NEW S, NEW n \in Nat, NEW x \in S, NEW F \in [1 .. n -> [S -> S]]
    PROVE  \E f : IsRun(F, x, n, f) /\ \A i \in 0 .. n : f[i] \in S
<1>1. PICK f : IsRun(F, x, n, f)
  BY RunExists, Zenon
<1>2. f[0] = x /\ \A i \in 1 .. n : f[i] = Step(F, i, f[i - 1])
  <2>1. Follows(F, x, n, f)
    BY <1>1, RunAt, Zenon
  <2>2. QED  BY <2>1, Zenon DEF Follows
<1> DEFINE T == {i \in 0 .. n : f[i] \in S}
<1>3. 0 \in T
  BY <1>2
<1>4. ASSUME NEW i \in 1 .. n, i - 1 \in T PROVE i \in T
  <2>1. i \in 0 .. n
    OBVIOUS
  <2>2. f[i - 1] \in S
    BY <1>4, Zenon
  <2>3. Step(F, i, f[i - 1]) \in S
    BY <2>2, Zenon DEF Step
  <2>4. QED  BY <1>2, <2>1, <2>3, Zenon
<1>5. \A i \in 0 .. n : i \in T
  <2> HIDE DEF T
  <2>1. QED  BY <1>3, <1>4, Reaches, Zenon
<1>6. QED  BY <1>1, <1>5, Zenon

--------------------------------------------------------------------------------
(* Numbers and words *)

\* The sizes of a grid.
LEMMA Sizes ==
    /\ GridBits \in Nat /\ GridBits >= 1 /\ GridBits <= 31
    /\ Width \in Nat /\ Width = 2 * GridBits + 2 /\ Mantissa = Width - 1
BY GridBitsAssumption DEF Width, Mantissa

\* The powers of two.
LEMMA Powers ==
    /\ Power[0] = 1 /\ \A i \in 1 .. Width : Power[i] = 2 * Power[i - 1]
    /\ \A i \in 0 .. Width : Power[i] \in Nat /\ Power[i] >= 1
<1> DEFINE F == [i \in 1 .. Width |-> [y \in Nat |-> 2 * y]]
           Is(f) == f = [i \in 0 .. Width |-> IF i = 0 THEN 1 ELSE 2 * f[i - 1]]
<1>1. Width \in Nat /\ 1 \in Nat
  BY Sizes, Zenon
<1>2. F \in [1 .. Width -> [Nat -> Nat]]
  OBVIOUS
<1>3. PICK g : IsRun(F, 1, Width, g) /\ \A i \in 0 .. Width : g[i] \in Nat
  <2> HIDE DEF F
  <2>1. QED  BY <1>1, <1>2, RunWithin, Zenon
<1>4. ASSUME NEW i \in 0 .. Width, i # 0 PROVE Step(F, i, g[i - 1]) = 2 * g[i - 1]
  <2>1. i \in 1 .. Width /\ i - 1 \in 0 .. Width
    BY <1>1, <1>4
  <2>2. QED  BY <1>3, <2>1, Zenon DEF Step
<1>5. Is(g)
  <2>1. g = [i \in 0 .. Width |-> IF i = 0 THEN 1 ELSE Step(F, i, g[i - 1])]
    BY <1>3, Zenon DEF IsRun
  <2> HIDE DEF F
  <2>2. QED  BY <1>4, <2>1, Zenon
<1>6. Is(Power)
  <2>1. Power = CHOOSE f : Is(f)
    BY Zenon DEF Power
  <2> HIDE DEF Is
  <2>2. QED  BY <1>5, <2>1, Zenon
<1>7. Power[0] = 1 /\ \A i \in 1 .. Width : Power[i] = 2 * Power[i - 1]
  <2>1. 0 \in 0 .. Width /\ \A i \in 1 .. Width : i \in 0 .. Width /\ i # 0
    BY <1>1
  <2>2. QED  BY <1>6, <2>1, Zenon
<1> DEFINE T == {i \in 0 .. Width : Power[i] \in Nat /\ Power[i] >= 1}
<1>8. 0 \in T
  BY <1>1, <1>7
<1>9. ASSUME NEW i \in 1 .. Width, i - 1 \in T PROVE i \in T
  BY <1>1, <1>7, <1>9
<1>10. \A i \in 0 .. Width : i \in T
  <2> HIDE DEF T
  <2>1. QED  BY <1>1, <1>8, <1>9, Reaches, Zenon
<1>11. QED  BY <1>7, <1>10, Zenon

\* What is left of a number after each halving, and what has been read of a word
\* after each digit.
Digit(w, j) == IF j \in w THEN 1 ELSE 0
Halves(n, h) ==
    /\ h \in [0 .. Width -> Nat] /\ h[0] = n
    /\ \A i \in 1 .. Width : h[i] = h[i - 1] \div 2
Reads(w, r) ==
    /\ r \in [0 .. Width -> Nat] /\ r[0] = 0
    /\ \A i \in 1 .. Width : r[i] = Digit(w, Width - i) + 2 * r[i - 1]

\* The bits of a number are its digits after each halving.
LEMMA BitsHalves ==
    ASSUME NEW n \in Nat
    PROVE  \E h : Halves(n, h) /\ Bits(n) = {i \in 0 .. Width - 1 : h[i] % 2 = 1}
<1> DEFINE S == [rest : Nat, word : SUBSET Nat]
           x == [rest |-> n, word |-> {}]
           G(i, c) == [rest |-> c.rest \div 2,
                       word |-> c.word \cup (IF c.rest % 2 = 1 THEN {i - 1} ELSE {})]
           F == [i \in 1 .. Width |-> [c \in S |-> G(i, c)]]
           Is(f) == f = [i \in 0 .. Width |-> IF i = 0 THEN x ELSE G(i, f[i - 1])]
<1>1. Width \in Nat
  BY Sizes, Zenon
<1>2. x \in S
  OBVIOUS
<1>3. ASSUME NEW i \in 1 .. Width, NEW c \in S PROVE G(i, c) \in S
  <2>1. i - 1 \in Nat /\ c.rest \div 2 \in Nat
    BY <1>1
  <2>2. c.word \cup (IF c.rest % 2 = 1 THEN {i - 1} ELSE {}) \in SUBSET Nat
    BY <2>1, Zenon
  <2>3. QED  BY <2>1, <2>2, Zenon
<1>0. /\ x.rest = n /\ x.word = {}
      /\ \A i, c : /\ G(i, c).rest = c.rest \div 2
                   /\ G(i, c).word = c.word \cup (IF c.rest % 2 = 1 THEN {i - 1} ELSE {})
  BY Zenon
<1> HIDE DEF G, S, x
<1>4. F \in [1 .. Width -> [S -> S]]
  BY <1>3, Zenon
<1>5. PICK g : IsRun(F, x, Width, g) /\ \A i \in 0 .. Width : g[i] \in S
  <2> HIDE DEF F
  <2>1. QED  BY <1>1, <1>2, <1>4, RunWithin, Zenon
<1>6. ASSUME NEW i \in 0 .. Width, i # 0 PROVE Step(F, i, g[i - 1]) = G(i, g[i - 1])
  <2>1. i \in 1 .. Width /\ i - 1 \in 0 .. Width
    BY <1>1, <1>6
  <2>2. QED  BY <1>5, <2>1, Zenon DEF Step
<1>7. Is(g)
  <2>1. g = [i \in 0 .. Width |-> IF i = 0 THEN x ELSE Step(F, i, g[i - 1])]
    BY <1>5, Zenon DEF IsRun
  <2> HIDE DEF F
  <2>2. QED  BY <1>6, <2>1, Zenon
<1>8. PICK f : Is(f) /\ Bits(n) = f[Width].word
  <2>1. Bits(n) = (CHOOSE f : Is(f))[Width].word
    BY Zenon DEF Bits, G, x
  <2> HIDE DEF Is
  <2>2. QED  BY <1>7, <2>1, Zenon
<1>9. f[0] = x /\ \A i \in 1 .. Width : f[i] = G(i, f[i - 1])
  <2>1. 0 \in 0 .. Width /\ \A i \in 1 .. Width : i \in 0 .. Width /\ i # 0
    BY <1>1
  <2>2. QED  BY <1>8, <2>1, Zenon
<1> DEFINE h == [i \in 0 .. Width |-> f[i].rest]
           Odd(i) == {j \in 0 .. i - 1 : h[j] % 2 = 1}
           T == {i \in 0 .. Width : f[i].rest \in Nat /\ f[i].word = Odd(i)}
<1>10. ASSUME NEW i \in 1 .. Width
       PROVE  /\ h[i] = h[i - 1] \div 2 /\ f[i].rest = f[i - 1].rest \div 2
              /\ f[i].word = f[i - 1].word \cup (IF h[i - 1] % 2 = 1 THEN {i - 1} ELSE {})
  <2>1. i \in 0 .. Width /\ i - 1 \in 0 .. Width
    BY <1>1
  <2>2. h[i] = f[i].rest /\ h[i - 1] = f[i - 1].rest
    BY <2>1, Zenon
  <2> HIDE DEF h
  <2>3. f[i] = G(i, f[i - 1])
    BY <1>9, Zenon
  <2>4. /\ G(i, f[i - 1]).rest = f[i - 1].rest \div 2
        /\ G(i, f[i - 1]).word = f[i - 1].word \cup (IF f[i - 1].rest % 2 = 1 THEN {i - 1} ELSE {})
    BY <1>0, Zenon
  <2>5. QED  BY <2>2, <2>3, <2>4, Zenon
<1>11. 0 \in T
  <2>1. f[0].rest = n /\ f[0].word = {}
    BY <1>0, <1>9, Zenon
  <2>2. 0 \in 0 .. Width /\ Odd(0) = {}
    BY <1>1
  <2>3. QED  BY <2>1, <2>2, Zenon
<1>12. ASSUME NEW i \in 1 .. Width, i - 1 \in T PROVE i \in T
  <2>1. f[i - 1].rest \in Nat /\ f[i - 1].word = Odd(i - 1)
    BY <1>12, Zenon
  <2>2. f[i].rest \in Nat /\ i \in 0 .. Width
    <3>1. f[i].rest = f[i - 1].rest \div 2 /\ f[i - 1].rest \in Nat
      BY <1>10, <2>1, Zenon
    <3>2. \A y \in Nat : y \div 2 \in Nat
      OBVIOUS
    <3>3. i \in 0 .. Width
      BY <1>1
    <3>4. QED  BY <3>1, <3>2, <3>3, Zenon
  <2>3. 0 .. i - 1 = (0 .. (i - 1) - 1) \cup {i - 1}
    BY <1>1
  <2>4. Odd(i) = Odd(i - 1) \cup (IF h[i - 1] % 2 = 1 THEN {i - 1} ELSE {})
    <3> HIDE DEF h
    <3>1. QED  BY <2>3, Zenon
  <2>5. QED  BY <1>10, <2>1, <2>2, <2>4, Zenon
<1>13. \A i \in 0 .. Width : i \in T
  <2> HIDE DEF T
  <2>1. QED  BY <1>1, <1>11, <1>12, Reaches, Zenon
<1>14. \A i \in 0 .. Width : h[i] = f[i].rest
  BY Zenon
<1>15. h \in [0 .. Width -> Nat]
  BY <1>13, Zenon
<1>16. 0 \in 0 .. Width /\ Width \in 0 .. Width
  BY <1>1
<1>17. h[0] = n
  BY <1>0, <1>9, <1>14, <1>16, Zenon
<1>18. Bits(n) = Odd(Width)
  BY <1>8, <1>13, <1>16, Zenon
<1>19. QED  BY <1>10, <1>15, <1>17, <1>18, Zenon DEF Halves

\* The number of a word is what has been read after all its digits.
LEMMA NumberReads == ASSUME NEW w PROVE \E r : Reads(w, r) /\ Number(w) = r[Width]
<1> DEFINE F == [i \in 1 .. Width |-> [y \in Nat |-> Digit(w, Width - i) + 2 * y]]
           Is(f) == f = [i \in 0 .. Width |-> IF i = 0 THEN 0
                                              ELSE Digit(w, Width - i) + 2 * f[i - 1]]
<1>1. Width \in Nat /\ 0 \in Nat
  BY Sizes, Zenon
<1>2. F \in [1 .. Width -> [Nat -> Nat]]
  BY DEF Digit
<1>3. PICK g : IsRun(F, 0, Width, g) /\ \A i \in 0 .. Width : g[i] \in Nat
  <2> HIDE DEF F
  <2>1. QED  BY <1>1, <1>2, RunWithin, Zenon
<1>4. ASSUME NEW i \in 0 .. Width, i # 0
      PROVE  Step(F, i, g[i - 1]) = Digit(w, Width - i) + 2 * g[i - 1]
  <2>1. i \in 1 .. Width /\ i - 1 \in 0 .. Width
    BY <1>1, <1>4
  <2>2. QED  BY <1>3, <2>1, Zenon DEF Step
<1>5. Is(g)
  <2>1. g = [i \in 0 .. Width |-> IF i = 0 THEN 0 ELSE Step(F, i, g[i - 1])]
    BY <1>3, Zenon DEF IsRun
  <2> HIDE DEF F
  <2>2. QED  BY <1>4, <2>1, Zenon
<1>6. PICK f : Is(f) /\ Number(w) = f[Width]
  <2>1. Number(w) = (CHOOSE f : Is(f))[Width]
    BY Zenon DEF Number, Digit
  <2> HIDE DEF Is
  <2>2. QED  BY <1>5, <2>1, Zenon
<1>7. f[0] = 0 /\ \A i \in 1 .. Width : f[i] = Digit(w, Width - i) + 2 * f[i - 1]
  <2>1. 0 \in 0 .. Width /\ \A i \in 1 .. Width : i \in 0 .. Width /\ i # 0
    BY <1>1
  <2>2. QED  BY <1>6, <2>1, Zenon
<1> DEFINE T == {i \in 0 .. Width : f[i] \in Nat}
<1>8. 0 \in T
  BY <1>1, <1>7
<1>9. ASSUME NEW i \in 1 .. Width, i - 1 \in T PROVE i \in T
  BY <1>1, <1>7, <1>9 DEF Digit
<1>10. \A i \in 0 .. Width : i \in T
  <2> HIDE DEF T
  <2>1. QED  BY <1>1, <1>8, <1>9, Reaches, Zenon
<1>11. f \in [0 .. Width -> Nat]
  BY <1>6, <1>10, Zenon
<1>12. QED  BY <1>6, <1>7, <1>11, Zenon DEF Reads

\* Halving what was read drops the last digit again.
LEMMA ReadBack ==
    ASSUME NEW w, NEW r, Reads(w, r), NEW h, Halves(r[Width], h)
    PROVE  /\ \A j \in 0 .. Width : h[j] = r[Width - j]
           /\ \A j \in 0 .. Width - 1 : h[j] % 2 = Digit(w, j)
<1>1. Width \in Nat
  BY Sizes, Zenon
<1>2. /\ \A i \in 0 .. Width : r[i] \in Nat
      /\ \A i \in 1 .. Width : r[i] = Digit(w, Width - i) + 2 * r[i - 1]
      /\ h[0] = r[Width] /\ \A i \in 1 .. Width : h[i] = h[i - 1] \div 2
  BY Zenon DEF Reads, Halves
<1>3. ASSUME NEW j \in 1 .. Width
      PROVE  r[Width - (j - 1)] \div 2 = r[Width - j] /\ r[Width - (j - 1)] % 2 = Digit(w, j - 1)
  <2>1. /\ Width - (j - 1) \in 1 .. Width /\ (Width - (j - 1)) - 1 = Width - j
        /\ Width - (Width - (j - 1)) = j - 1 /\ Width - j \in 0 .. Width
    BY <1>1
  <2>2. r[Width - (j - 1)] = Digit(w, j - 1) + 2 * r[Width - j] /\ r[Width - j] \in Nat
    BY <1>2, <2>1
  <2>3. \A y \in Nat : \A d \in {0, 1} : (d + 2 * y) \div 2 = y /\ (d + 2 * y) % 2 = d
    OBVIOUS
  <2>4. Digit(w, j - 1) \in {0, 1}
    BY Zenon DEF Digit
  <2>5. QED  BY <2>2, <2>3, <2>4, Zenon
<1> DEFINE T == {j \in 0 .. Width : h[j] = r[Width - j]}
<1>4. 0 \in T
  BY <1>1, <1>2
<1>5. ASSUME NEW j \in 1 .. Width, j - 1 \in T PROVE j \in T
  <2>1. j \in 0 .. Width
    BY <1>1
  <2>2. QED  BY <1>2, <1>3, <1>5, <2>1, Zenon
<1>6. \A j \in 0 .. Width : j \in T
  <2> HIDE DEF T
  <2>1. QED  BY <1>1, <1>4, <1>5, Reaches, Zenon
<1>7. ASSUME NEW j \in 0 .. Width - 1 PROVE h[j] % 2 = Digit(w, j)
  <2>1. j + 1 \in 1 .. Width /\ (j + 1) - 1 = j /\ j \in 0 .. Width
    BY <1>1
  <2>2. h[j] = r[Width - j]
    BY <1>6, <2>1, Zenon
  <2>3. r[Width - ((j + 1) - 1)] % 2 = Digit(w, (j + 1) - 1)
    BY <1>3, <2>1, Zenon
  <2>4. QED  BY <2>1, <2>2, <2>3, Zenon
<1>8. QED  BY <1>6, <1>7, Zenon

\* A word is not changed by a trip through its number.
LEMMA BitsNumber ==
    ASSUME NEW w \in SUBSET (0 .. Width - 1)
    PROVE  Bits(Number(w)) = w /\ Number(w) \in Nat
<1>1. PICK r : Reads(w, r) /\ Number(w) = r[Width]
  BY NumberReads, Zenon
<1>2. Width \in 0 .. Width
  BY Sizes
<1>3. r[Width] \in Nat
  BY <1>1, <1>2, Zenon DEF Reads
<1>4. PICK h : /\ Halves(r[Width], h)
               /\ Bits(r[Width]) = {i \in 0 .. Width - 1 : h[i] % 2 = 1}
  BY <1>3, BitsHalves, Zenon
<1>5. \A j \in 0 .. Width - 1 : h[j] % 2 = 1 <=> j \in w
  <2>1. \A j \in 0 .. Width - 1 : h[j] % 2 = Digit(w, j)
    BY <1>1, <1>4, ReadBack, Zenon
  <2>2. QED  BY <2>1 DEF Digit
<1>6. QED  BY <1>1, <1>3, <1>4, <1>5, Zenon

\* The lowest two digits of the number of a word.
LEMMA LowDigits ==
    ASSUME NEW w \in SUBSET (0 .. Width - 1)
    PROVE  /\ 0 \notin w => Number(w) % 2 = 0
           /\ 0 \in w /\ 1 \notin w => Number(w) % 2 = 1 /\ Number(w) % 4 = 1
<1>1. PICK r : Reads(w, r) /\ Number(w) = r[Width]
  BY NumberReads, Zenon
<1>2. /\ Width \in 0 .. Width /\ 0 \in 0 .. Width - 1 /\ 1 \in 0 .. Width - 1 /\ 1 \in 1 .. Width
      /\ 1 - 1 = 0
  BY Sizes
<1>3. r[Width] \in Nat
  BY <1>1, <1>2, Zenon DEF Reads
<1>4. PICK h : Halves(r[Width], h)
  BY <1>3, BitsHalves, Zenon
<1>5. h[0] % 2 = Digit(w, 0) /\ h[1] % 2 = Digit(w, 1)
  <2>1. \A j \in 0 .. Width - 1 : h[j] % 2 = Digit(w, j)
    BY <1>1, <1>4, ReadBack, Zenon
  <2>2. QED  BY <1>2, <2>1, Zenon
<1>6. h[0] = r[Width] /\ h[1] = h[0] \div 2
  BY <1>2, <1>4, Zenon DEF Halves
<1>7. \A y \in Nat : y % 2 = 1 /\ (y \div 2) % 2 = 0 => y % 4 = 1
  OBVIOUS
<1>8. Digit(w, 0) = (IF 0 \in w THEN 1 ELSE 0) /\ Digit(w, 1) = (IF 1 \in w THEN 1 ELSE 0)
  BY Zenon DEF Digit
<1>9. CASE 0 \notin w
  BY <1>1, <1>5, <1>6, <1>8, <1>9, Zenon
<1>10. CASE 0 \in w /\ 1 \notin w
  <2>1. r[Width] % 2 = 1 /\ (r[Width] \div 2) % 2 = 0
    BY <1>5, <1>6, <1>8, <1>10, Zenon
  <2>2. QED  BY <1>1, <1>3, <1>7, <1>10, <2>1, Zenon
<1>11. QED  BY <1>9, <1>10, Zenon

\* A number below a power of two is used up after that many halvings.
LEMMA HalvesEnd ==
    ASSUME NEW n \in Nat, NEW h, Halves(n, h), NEW k \in 0 .. Width, n < Power[k]
    PROVE  \A i \in 0 .. Width : i >= k => h[i] = 0
<1>1. Width \in Nat /\ k \in Nat
  BY Sizes
<1>2. /\ \A i \in 0 .. Width : h[i] \in Nat
      /\ h[0] = n /\ \A i \in 1 .. Width : h[i] = h[i - 1] \div 2
  BY Zenon DEF Halves
<1> DEFINE T == {i \in 0 .. Width : (i <= k => h[i] < Power[k - i]) /\ (i >= k => h[i] = 0)}
<1>3. 0 \in T
  <2>1. k - 0 = k /\ 0 \in 0 .. Width /\ (0 >= k => k = 0)
    BY <1>1
  <2>2. k = 0 => n = 0
    BY Powers
  <2>3. QED  BY <1>2, <2>1, <2>2, Zenon
<1>4. ASSUME NEW i \in 1 .. Width, i - 1 \in T PROVE i \in T
  <2>1. /\ (i - 1 <= k => h[i - 1] < Power[k - (i - 1)]) /\ (i - 1 >= k => h[i - 1] = 0)
        /\ h[i] = h[i - 1] \div 2 /\ h[i - 1] \in Nat
    <3>1. i - 1 \in 0 .. Width
      BY <1>1
    <3>2. QED  BY <1>2, <1>4, <3>1, Zenon
  <2>2. CASE i <= k
    <3>1. i - 1 <= k /\ k - (i - 1) \in 1 .. Width /\ (k - (i - 1)) - 1 = k - i /\ k - i \in 0 .. Width
      BY <1>1, <2>2
    <3>2. Power[k - (i - 1)] = 2 * Power[k - i] /\ Power[k - i] \in Nat
      BY <3>1, Powers
    <3>3. h[i] < Power[k - i]
      BY <2>1, <3>1, <3>2
    <3>4. i >= k => h[i] = 0
      <4>1. i >= k => k - i = 0
        BY <1>1, <2>2
      <4>2. h[i] \in Nat
        BY <2>1
      <4>3. QED  BY <3>3, <4>1, <4>2, Powers
    <3>5. i \in 0 .. Width
      BY <1>1
    <3>6. QED  BY <3>3, <3>4, <3>5, Zenon
  <2>3. CASE ~ (i <= k)
    <3>1. i - 1 >= k /\ i \in 0 .. Width
      BY <1>1, <2>3
    <3>2. h[i] = 0
      BY <2>1, <3>1
    <3>3. QED  BY <2>3, <3>1, <3>2, Zenon
  <2>4. QED  BY <2>2, <2>3, Zenon
<1>5. \A i \in 0 .. Width : i \in T
  <2> HIDE DEF T
  <2>1. QED  BY <1>1, <1>3, <1>4, Reaches, Zenon
<1>6. QED  BY <1>5, Zenon

\* A number below a power of two has no bit from there on.
LEMMA BitsBound ==
    ASSUME NEW n \in Nat, NEW k \in 0 .. Width, n < Power[k]
    PROVE  Bits(n) \subseteq 0 .. k - 1
<1>1. PICK h : Halves(n, h) /\ Bits(n) = {i \in 0 .. Width - 1 : h[i] % 2 = 1}
  BY BitsHalves, Zenon
<1>2. \A i \in 0 .. Width : i >= k => h[i] = 0
  BY <1>1, HalvesEnd, Zenon
<1>3. ASSUME NEW i \in Bits(n) PROVE i \in 0 .. k - 1
  <2>1. i \in 0 .. Width - 1 /\ h[i] % 2 = 1
    BY <1>1, Zenon
  <2>2. i \in 0 .. Width /\ (i >= k \/ i \in 0 .. k - 1)
    BY <2>1, Sizes
  <2>3. h[i] # 0
    BY <2>1
  <2>4. QED  BY <1>2, <2>2, <2>3, Zenon
<1>4. QED  BY <1>3, Zenon

\* A number is not changed by a trip through its bits.
LEMMA NumberBits ==
    ASSUME NEW n \in Nat, NEW k \in 0 .. Width, n < Power[k] PROVE Number(Bits(n)) = n
<1> DEFINE w == Bits(n)
<1>1. PICK h : Halves(n, h) /\ w = {i \in 0 .. Width - 1 : h[i] % 2 = 1}
  BY BitsHalves, Zenon
<1> HIDE DEF w
<1>2. PICK r : Reads(w, r) /\ Number(w) = r[Width]
  BY NumberReads, Zenon
<1>3. Width \in Nat /\ Width \in 0 .. Width /\ Width >= k
  BY Sizes
<1>4. h[Width] = 0
  BY <1>1, <1>3, HalvesEnd, Zenon
<1>5. /\ \A i \in 0 .. Width : h[i] \in Nat
      /\ h[0] = n /\ \A i \in 1 .. Width : h[i] = h[i - 1] \div 2
      /\ r[0] = 0 /\ \A i \in 1 .. Width : r[i] = Digit(w, Width - i) + 2 * r[i - 1]
  BY <1>1, <1>2, Zenon DEF Halves, Reads
<1> DEFINE T == {i \in 0 .. Width : r[i] = h[Width - i]}
<1>6. 0 \in T
  BY <1>3, <1>4, <1>5
<1>7. ASSUME NEW i \in 1 .. Width, i - 1 \in T PROVE i \in T
  <2>1. /\ i \in 0 .. Width /\ Width - i \in 0 .. Width - 1 /\ Width - i \in 0 .. Width
        /\ Width - (i - 1) \in 1 .. Width /\ (Width - (i - 1)) - 1 = Width - i
    BY <1>3
  <2>2. r[i - 1] = h[Width - (i - 1)]
    BY <1>7, Zenon
  <2>3. h[Width - (i - 1)] = h[Width - i] \div 2 /\ h[Width - i] \in Nat
    BY <1>5, <2>1
  <2>4. r[i] = Digit(w, Width - i) + 2 * r[i - 1]
    BY <1>5, Zenon
  <2>5. Digit(w, Width - i) = IF h[Width - i] % 2 = 1 THEN 1 ELSE 0
    BY <1>1, <2>1, Zenon DEF Digit
  <2>6. r[i] = h[Width - i]
    BY <2>2, <2>3, <2>4, <2>5
  <2>7. QED  BY <2>1, <2>6, Zenon
<1>8. \A i \in 0 .. Width : i \in T
  <2> HIDE DEF T
  <2>1. QED  BY <1>3, <1>6, <1>7, Reaches, Zenon
<1>9. Width - Width = 0
  BY <1>3
<1>10. r[Width] = h[0]
  BY <1>3, <1>8, <1>9, Zenon
<1>11. QED  BY <1>2, <1>5, <1>10, Zenon DEF w

\* A word without bits from k on has a number below that power of two.
LEMMA NumberBound ==
    ASSUME NEW k \in 0 .. Width, NEW w, w \subseteq 0 .. k - 1 PROVE Number(w) < Power[k]
<1>1. PICK r : Reads(w, r) /\ Number(w) = r[Width]
  BY NumberReads, Zenon
<1>2. Width \in Nat /\ k \in Nat /\ k <= Width
  BY Sizes
<1>3. /\ \A i \in 0 .. Width : r[i] \in Nat
      /\ r[0] = 0 /\ \A i \in 1 .. Width : r[i] = Digit(w, Width - i) + 2 * r[i - 1]
  BY <1>1, Zenon DEF Reads
<1> DEFINE d == Width - k
           T == {i \in 0 .. Width : (i <= d => r[i] = 0) /\ (i >= d => r[i] < Power[i - d])}
<1>4. d \in Nat /\ d <= Width
  BY <1>2
<1>5. 0 \in T
  BY <1>2, <1>3, Powers
<1>6. ASSUME NEW i \in 1 .. Width, i - 1 \in T PROVE i \in T
  <2>1. /\ (i - 1 <= d => r[i - 1] = 0) /\ (i - 1 >= d => r[i - 1] < Power[(i - 1) - d])
        /\ r[i] = Digit(w, Width - i) + 2 * r[i - 1] /\ r[i - 1] \in Nat
    <3>1. i - 1 \in 0 .. Width
      BY <1>2
    <3>2. QED  BY <1>3, <1>6, <3>1, Zenon
  <2>2. CASE i <= d
    <3>1. i - 1 <= d /\ i \in 0 .. Width /\ Width - i \notin 0 .. k - 1
      BY <1>2, <2>2
    <3>2. Digit(w, Width - i) = 0
      BY <3>1, Zenon DEF Digit
    <3>3. r[i] = 0
      BY <2>1, <3>1, <3>2
    <3>4. i >= d => r[i] < Power[i - d]
      <4>1. i >= d => i - d = 0
        BY <1>4, <2>2
      <4>2. QED  BY <3>3, <4>1, Powers
    <3>5. QED  BY <3>1, <3>3, <3>4, Zenon
  <2>3. CASE ~ (i <= d)
    <3>1. /\ i - 1 >= d /\ i \in 0 .. Width /\ i - d \in 1 .. Width /\ (i - d) - 1 = (i - 1) - d
          /\ (i - 1) - d \in 0 .. Width
      BY <1>2, <1>4, <2>3
    <3>2. Power[i - d] = 2 * Power[(i - 1) - d] /\ Power[(i - 1) - d] \in Nat
      <4>1. Power[i - d] = 2 * Power[(i - d) - 1]
        BY <3>1, Powers, Zenon
      <4>2. Power[(i - 1) - d] \in Nat
        BY <3>1, Powers, Zenon
      <4>3. QED  BY <3>1, <4>1, <4>2, Zenon
    <3>3. Digit(w, Width - i) \in {0, 1}
      BY Zenon DEF Digit
    <3>4. r[i] < Power[i - d]
      BY <2>1, <3>1, <3>2, <3>3
    <3>5. QED  BY <2>3, <3>1, <3>4, Zenon
  <2>4. QED  BY <2>2, <2>3, Zenon
<1>7. \A i \in 0 .. Width : i \in T
  <2> HIDE DEF T
  <2>1. QED  BY <1>2, <1>5, <1>6, Reaches, Zenon
<1>8. Width \in 0 .. Width /\ Width >= d /\ Width - d = k
  BY <1>2
<1>9. r[Width] < Power[k]
  BY <1>7, <1>8, Zenon
<1>10. QED  BY <1>1, <1>9, Zenon

\* Without its lowest bit a word stands for one less.
LEMMA NumberLess ==
    ASSUME NEW w, 0 \in w PROVE Number(w \ {0}) = Number(w) - 1
<1> DEFINE v == w \ {0}
<1>1. PICK r : Reads(w, r) /\ Number(w) = r[Width]
  BY NumberReads, Zenon
<1>2. PICK s : Reads(v, s) /\ Number(v) = s[Width]
  BY NumberReads, Zenon
<1>3. Width \in Nat /\ Width >= 4
  BY Sizes
<1>4. \A j : j # 0 => Digit(v, j) = Digit(w, j)
  BY Zenon DEF Digit
<1>5. Digit(v, 0) = 0 /\ Digit(w, 0) = 1
  BY Zenon DEF Digit
<1> HIDE DEF v
<1>6. /\ \A i \in 0 .. Width : r[i] \in Nat
      /\ r[0] = 0 /\ \A i \in 1 .. Width : r[i] = Digit(w, Width - i) + 2 * r[i - 1]
      /\ s[0] = 0 /\ \A i \in 1 .. Width : s[i] = Digit(v, Width - i) + 2 * s[i - 1]
  BY <1>1, <1>2, Zenon DEF Reads
<1> DEFINE m == Width - 1
           T == {i \in 0 .. m : s[i] = r[i]}
<1>7. m \in Nat /\ m + 1 = Width
  BY <1>3
<1>8. 0 \in T
  BY <1>6, <1>7
<1>9. ASSUME NEW i \in 1 .. m, i - 1 \in T PROVE i \in T
  <2>1. i \in 1 .. Width /\ Width - i # 0 /\ i \in 0 .. m
    BY <1>7
  <2>2. QED  BY <1>4, <1>6, <1>9, <2>1, Zenon
<1>10. \A i \in 0 .. m : i \in T
  <2> HIDE DEF T, m
  <2>1. QED  BY <1>7, <1>8, <1>9, Reaches, Zenon
<1>11. Width \in 1 .. Width /\ Width - Width = 0 /\ m \in 0 .. m /\ m \in 0 .. Width
  BY <1>3
<1>12. s[m] = r[m] /\ r[m] \in Nat
  BY <1>6, <1>10, <1>11, Zenon
<1>13. r[Width] = 1 + 2 * r[m] /\ s[Width] = 0 + 2 * s[m]
  BY <1>5, <1>6, <1>11, Zenon
<1>14. s[Width] = r[Width] - 1
  BY <1>12, <1>13
<1>15. QED  BY <1>1, <1>2, <1>14, Zenon DEF v

\* A power of two has one bit.
LEMMA PowerBits == ASSUME NEW k \in 0 .. Width - 1 PROVE Bits(Power[k]) = {k}
<1>1. Width \in Nat /\ k \in Nat /\ k \in 0 .. Width
  BY Sizes
<1>2. Power[k] \in Nat
  BY <1>1, Powers, Zenon
<1>3. PICK h : /\ Halves(Power[k], h)
               /\ Bits(Power[k]) = {i \in 0 .. Width - 1 : h[i] % 2 = 1}
  BY <1>2, BitsHalves, Zenon
<1>4. /\ \A i \in 0 .. Width : h[i] \in Nat
      /\ h[0] = Power[k] /\ \A i \in 1 .. Width : h[i] = h[i - 1] \div 2
  BY <1>3, Zenon DEF Halves
<1> DEFINE T == {i \in 0 .. Width : h[i] = IF i <= k THEN Power[k - i] ELSE 0}
<1>5. 0 \in T
  BY <1>1, <1>4
<1>6. ASSUME NEW i \in 1 .. Width, i - 1 \in T PROVE i \in T
  <2>1. h[i] = h[i - 1] \div 2 /\ h[i - 1] = IF i - 1 <= k THEN Power[k - (i - 1)] ELSE 0
    BY <1>4, <1>6, Zenon
  <2>2. i \in 0 .. Width
    BY <1>1
  <2>3. CASE i <= k
    <3>1. i - 1 <= k /\ k - (i - 1) \in 1 .. Width /\ (k - (i - 1)) - 1 = k - i /\ k - i \in 0 .. Width
      BY <1>1, <2>3
    <3>2. Power[k - (i - 1)] = 2 * Power[k - i] /\ Power[k - i] \in Nat
      BY <3>1, Powers
    <3>3. h[i] = Power[k - i]
      BY <2>1, <3>1, <3>2
    <3>4. QED  BY <2>2, <2>3, <3>3, Zenon
  <2>4. CASE i = k + 1
    <3>1. i - 1 <= k /\ k - (i - 1) = 0 /\ ~ (i <= k)
      BY <1>1, <2>4
    <3>2. h[i] = 0
      BY <2>1, <3>1, Powers
    <3>3. QED  BY <2>2, <3>1, <3>2, Zenon
  <2>5. CASE i > k + 1
    <3>1. ~ (i - 1 <= k) /\ ~ (i <= k)
      BY <1>1, <2>5
    <3>2. h[i] = 0
      BY <2>1, <3>1
    <3>3. QED  BY <2>2, <3>1, <3>2, Zenon
  <2>6. QED  BY <1>1, <2>3, <2>4, <2>5
<1>7. \A i \in 0 .. Width : i \in T
  <2> HIDE DEF T
  <2>1. QED  BY <1>1, <1>5, <1>6, Reaches, Zenon
<1>8. ASSUME NEW i \in 0 .. Width - 1 PROVE h[i] % 2 = 1 <=> i = k
  <2>1. i \in 0 .. Width /\ h[i] = IF i <= k THEN Power[k - i] ELSE 0
    BY <1>1, <1>7
  <2>2. CASE i = k
    <3>1. k - i = 0 /\ i <= k
      BY <1>1, <2>2
    <3>2. QED  BY <2>1, <2>2, <3>1, Powers
  <2>3. CASE i < k
    <3>1. k - i \in 1 .. Width /\ (k - i) - 1 \in 0 .. Width /\ i <= k /\ i # k
      BY <1>1, <2>3
    <3>2. Power[k - i] = 2 * Power[(k - i) - 1] /\ Power[(k - i) - 1] \in Nat
      BY <3>1, Powers
    <3>3. QED  BY <2>1, <3>1, <3>2
  <2>4. CASE k < i
    BY <1>1, <2>1, <2>4
  <2>5. QED  BY <1>1, <2>2, <2>3, <2>4
<1>9. QED  BY <1>3, <1>8, Zenon

\* The conversion to float64 makes a number of a number.
LEMMA FloatType == ASSUME NEW n \in Nat PROVE float64(n) \in Nat
<1>1. n % 4 = 1 => n - 1 \in Nat
  OBVIOUS
<1>2. n + 1 \in Nat
  OBVIOUS
<1>3. QED  BY <1>1, <1>2, Zenon DEF float64

--------------------------------------------------------------------------------
(* Spreading and compacting *)

\* Where bit i is when the bits lie in groups of k, with k free places after each.
Spot(k, i) == 2 * k * (i \div k) + (i % k)
Placed(k, x) == {Spot(k, i) : i \in x}

\* The widths of spread's and compactInt64ToInt32's rounds.
Rounds == {1, 2, 4, 8, 16}

\* A round of spread moves every second group of k bits by k places, and the mask
\* keeps one of the two copies of each bit.
LEMMA ApartSpot ==
    ASSUME NEW k \in Rounds, NEW i \in 0 .. 31
    PROVE  /\ Spot(2 * k, i) \in 0 .. 63 /\ Spot(k, i) \in 0 .. 63
           /\ (Spot(2 * k, i) \div k) % 2 = 0 =>
                Spot(k, i) = Spot(2 * k, i) /\ ((Spot(2 * k, i) + k) \div k) % 2 # 0
           /\ (Spot(2 * k, i) \div k) % 2 # 0 =>
                Spot(k, i) = Spot(2 * k, i) + k /\ (Spot(k, i) \div k) % 2 = 0
<1>1. CASE k = 1
  BY <1>1 DEF Spot
<1>2. CASE k = 2
  BY <1>2 DEF Spot
<1>3. CASE k = 4
  BY <1>3 DEF Spot
<1>4. CASE k = 8
  BY <1>4 DEF Spot
<1>5. CASE k = 16
  BY <1>5 DEF Spot
<1>6. QED  BY <1>1, <1>2, <1>3, <1>4, <1>5, Zenon DEF Rounds

\* A round of compactInt64ToInt32 moves them back.
LEMMA TogetherSpot ==
    ASSUME NEW k \in Rounds, NEW i \in 0 .. 31
    PROVE  /\ (Spot(k, i) \div (2 * k)) % 2 = 0 =>
                /\ Spot(2 * k, i) = Spot(k, i)
                /\ Spot(k, i) >= k => ((Spot(k, i) - k) \div (2 * k)) % 2 # 0
           /\ (Spot(k, i) \div (2 * k)) % 2 # 0 =>
                /\ Spot(k, i) >= k /\ Spot(2 * k, i) = Spot(k, i) - k
                /\ (Spot(2 * k, i) \div (2 * k)) % 2 = 0
<1>1. CASE k = 1
  BY <1>1 DEF Spot
<1>2. CASE k = 2
  BY <1>2 DEF Spot
<1>3. CASE k = 4
  BY <1>3 DEF Spot
<1>4. CASE k = 8
  BY <1>4 DEF Spot
<1>5. CASE k = 16
  <2>1. \/ i < 16 /\ i \div 16 = 0 /\ i % 16 = i
        \/ i >= 16 /\ i \div 16 = 1 /\ i % 16 = i - 16
    OBVIOUS
  <2>2. i \div 32 = 0 /\ i % 32 = i
    OBVIOUS
  <2>3. Spot(32, i) = i /\ Spot(16, i) = IF i < 16 THEN i ELSE i + 16
    <3>1. Spot(32, i) = 2 * 32 * (i \div 32) + (i % 32)
      BY Zenon DEF Spot
    <3>2. Spot(16, i) = 2 * 16 * (i \div 16) + (i % 16)
      BY Zenon DEF Spot
    <3>3. QED  BY <2>1, <2>2, <3>1, <3>2
  <2>4. \A j \in 0 .. 31 : j \div 32 = 0 /\ (j \div 32) % 2 = 0
    OBVIOUS
  <2>5. \A j \in 32 .. 63 : j \div 32 = 1 /\ (j \div 32) % 2 # 0
    OBVIOUS
  <2>6. CASE i < 16
    <3>1. Spot(16, i) = i /\ i \in 0 .. 31 /\ ~ (i >= 16)
      BY <2>3, <2>6
    <3>2. QED  BY <1>5, <2>3, <2>4, <3>1
  <2>7. CASE ~ (i < 16)
    <3>1. Spot(16, i) = i + 16 /\ i + 16 \in 32 .. 63 /\ i + 16 >= 16 /\ (i + 16) - 16 = i
      BY <2>3, <2>7
    <3>2. QED  BY <1>5, <2>3, <2>4, <2>5, <3>1
  <2>8. QED  BY <2>6, <2>7, Zenon
<1>6. QED  BY <1>1, <1>2, <1>3, <1>4, <1>5, Zenon DEF Rounds

\* A round of spread.
LEMMA ApartRound ==
    ASSUME NEW x \in SUBSET (0 .. 31), NEW k \in Rounds
    PROVE  Apart(Placed(2 * k, x), k) = Placed(k, x)
<1> DEFINE r == Placed(2 * k, x)
<1>0. Mask[k] = {i \in 0 .. 63 : (i \div k) % 2 = 0}
  <2>1. k \in {1, 2, 4, 8, 16, 32}
    BY Zenon DEF Rounds
  <2>2. QED  BY <2>1, Zenon DEF Mask
<1>1. ASSUME NEW j \in Apart(r, k) PROVE j \in Placed(k, x)
  <2>1. /\ j \in r \/ \E g \in r : j = g + k
        /\ (j \div k) % 2 = 0
    BY <1>0, Zenon DEF Apart, Shl
  <2>2. PICK i \in x : j = Spot(2 * k, i) \/ j = Spot(2 * k, i) + k
    BY <2>1, Zenon DEF Placed
  <2>3. i \in 0 .. 31
    BY Zenon
  <2>4. j = Spot(k, i)
    BY <2>1, <2>2, <2>3, ApartSpot, Zenon
  <2>5. QED  BY <2>4, Zenon DEF Placed
<1>2. ASSUME NEW j \in Placed(k, x) PROVE j \in Apart(r, k)
  <2>1. PICK i \in x : j = Spot(k, i)
    BY Zenon DEF Placed
  <2>2. i \in 0 .. 31
    BY Zenon
  <2>3. Spot(2 * k, i) \in r
    BY Zenon DEF Placed
  <2>4. /\ j \in 0 .. 63 /\ (j \div k) % 2 = 0
        /\ j = Spot(2 * k, i) \/ j = Spot(2 * k, i) + k
    BY <2>1, <2>2, ApartSpot, Zenon
  <2> HIDE DEF r
  <2>5. QED  BY <1>0, <2>3, <2>4, Zenon DEF Apart, Shl
<1>3. QED  BY <1>1, <1>2, Zenon

\* A round of compactInt64ToInt32.
LEMMA TogetherRound ==
    ASSUME NEW x \in SUBSET (0 .. 31), NEW k \in Rounds
    PROVE  Together(Placed(k, x), k) = Placed(2 * k, x)
<1> DEFINE r == Placed(k, x)
<1>0. Mask[2 * k] = {i \in 0 .. 63 : (i \div (2 * k)) % 2 = 0}
  <2>1. 2 * k \in {1, 2, 4, 8, 16, 32}
    BY DEF Rounds
  <2>2. QED  BY <2>1, Zenon DEF Mask
<1>1. ASSUME NEW j \in Together(r, k) PROVE j \in Placed(2 * k, x)
  <2>1. /\ j \in r \/ \E g \in r : g >= k /\ j = g - k
        /\ (j \div (2 * k)) % 2 = 0
    BY <1>0, Zenon DEF Together, Shr
  <2>2. PICK i \in x : j = Spot(k, i) \/ (Spot(k, i) >= k /\ j = Spot(k, i) - k)
    BY <2>1, Zenon DEF Placed
  <2>3. i \in 0 .. 31
    BY Zenon
  <2>4. j = Spot(2 * k, i)
    BY <2>1, <2>2, <2>3, TogetherSpot, Zenon
  <2>5. QED  BY <2>4, Zenon DEF Placed
<1>2. ASSUME NEW j \in Placed(2 * k, x) PROVE j \in Together(r, k)
  <2>1. PICK i \in x : j = Spot(2 * k, i)
    BY Zenon DEF Placed
  <2>2. i \in 0 .. 31
    BY Zenon
  <2>3. Spot(k, i) \in r
    BY Zenon DEF Placed
  <2>4. /\ (j \div (2 * k)) % 2 = 0
        /\ j = Spot(k, i) \/ (Spot(k, i) >= k /\ j = Spot(k, i) - k)
    BY <2>1, <2>2, TogetherSpot, Zenon
  <2>5. j \in 0 .. 63
    BY <2>1, <2>2, ApartSpot, Zenon
  <2> HIDE DEF r
  <2>6. QED  BY <1>0, <2>3, <2>4, <2>5, Zenon DEF Together, Shr
<1>3. QED  BY <1>1, <1>2, Zenon

\* spread puts bit i of a 32-bit word at place 2 * i, and compactInt64ToInt32 takes it
\* from there.
LEMMA SpreadCompact ==
    ASSUME NEW x \in SUBSET (0 .. 31)
    PROVE  /\ spread(x) = Placed(1, x)
           /\ \A v : v \cap Mask[1] = Placed(1, x) => compactInt64ToInt32(v) = x
<1>1. \A i \in 0 .. 31 : Spot(32, i) = i
  <2>1. \A i \in 0 .. 31 : i \div 32 = 0 /\ i % 32 = i
    OBVIOUS
  <2>2. QED  BY <2>1 DEF Spot
<1>2. Placed(32, x) = x
  <2>1. \A i \in x : i = Spot(32, i) /\ Spot(32, i) \in x
    BY <1>1, Zenon
  <2>2. QED  BY <2>1, Zenon DEF Placed
<1>3. /\ 1 \in Rounds /\ 2 \in Rounds /\ 4 \in Rounds /\ 8 \in Rounds /\ 16 \in Rounds
      /\ 2 * 1 = 2 /\ 2 * 2 = 4 /\ 2 * 4 = 8 /\ 2 * 8 = 16 /\ 2 * 16 = 32
  BY DEF Rounds
<1>4. /\ Apart(Placed(32, x), 16) = Placed(16, x) /\ Apart(Placed(16, x), 8) = Placed(8, x)
      /\ Apart(Placed(8, x), 4) = Placed(4, x) /\ Apart(Placed(4, x), 2) = Placed(2, x)
      /\ Apart(Placed(2, x), 1) = Placed(1, x)
  <2>1. \A k \in Rounds : Apart(Placed(2 * k, x), k) = Placed(k, x)
    BY ApartRound, Zenon
  <2>2. QED  BY <1>3, <2>1
<1>5. /\ Together(Placed(1, x), 1) = Placed(2, x) /\ Together(Placed(2, x), 2) = Placed(4, x)
      /\ Together(Placed(4, x), 4) = Placed(8, x) /\ Together(Placed(8, x), 8) = Placed(16, x)
      /\ Together(Placed(16, x), 16) = Placed(32, x)
  <2>1. \A k \in Rounds : Together(Placed(k, x), k) = Placed(2 * k, x)
    BY TogetherRound, Zenon
  <2>2. QED  BY <1>3, <2>1
<1>6. spread(x) = Placed(1, x)
  BY <1>2, <1>4, Zenon DEF spread
<1>7. ASSUME NEW v, v \cap Mask[1] = Placed(1, x) PROVE compactInt64ToInt32(v) = x
  BY <1>2, <1>5, <1>7, Zenon DEF compactInt64ToInt32
<1>8. QED  BY <1>6, <1>7, Zenon

\* The interleaving of two words has the bits of the one at the even places and
\* those of the other at the odd ones: each comes back.
LEMMA Interleaved ==
    ASSUME NEW x \in SUBSET (0 .. 31), NEW y \in SUBSET (0 .. 31)
    PROVE  /\ interleave(x, y) = {2 * i : i \in x} \cup {2 * i + 1 : i \in y}
           /\ compactInt64ToInt32(interleave(x, y)) = x
           /\ compactInt64ToInt32(Shr(interleave(x, y), 1)) = y
<1> DEFINE I == {2 * i : i \in x} \cup {2 * i + 1 : i \in y}
<1>1. \A i \in 0 .. 31 : Spot(1, i) = 2 * i
  BY DEF Spot
<1>2. \A z \in SUBSET (0 .. 31) : Placed(1, z) = {2 * i : i \in z}
  BY <1>1, Zenon DEF Placed
<1>3. interleave(x, y) = I
  <2>1. spread(x) = {2 * i : i \in x} /\ spread(y) = {2 * i : i \in y}
    BY <1>2, SpreadCompact, Zenon
  <2>2. \A i \in y : 2 * i + 1 \in 0 .. 63
    OBVIOUS
  <2>3. Shl(spread(y), 1) = {2 * i + 1 : i \in y}
    BY <2>1, <2>2, Zenon DEF Shl
  <2>4. QED  BY <2>1, <2>3, Zenon DEF interleave
<1>4. \A i \in 0 .. 63 : i \in Mask[1] <=> i % 2 = 0
  BY DEF Mask
<1>5. I \cap Mask[1] = {2 * i : i \in x}
  <2>1. \A i \in 0 .. 31 : 2 * i \in Mask[1] /\ 2 * i + 1 \notin Mask[1]
    BY <1>4
  <2>2. QED  BY <2>1, Zenon
<1>6. Shr(I, 1) \cap Mask[1] = {2 * i : i \in y}
  <2>1. \A i \in 0 .. 31 : /\ 2 * i \in Mask[1] /\ 2 * i + 1 >= 1 /\ (2 * i + 1) - 1 = 2 * i
                           /\ 2 * i >= 1 => 2 * i - 1 \notin Mask[1]
    BY <1>4
  <2>2. QED  BY <2>1, Zenon DEF Shr
<1> HIDE DEF I
<1>7. QED  BY <1>2, <1>3, <1>5, <1>6, SpreadCompact, Zenon DEF I

--------------------------------------------------------------------------------
(* Positions *)

\* The bits of a coordinate.
LEMMA CoordinateBits ==
    ASSUME NEW a \in 0 .. Grid
    PROVE  /\ a \in Nat /\ Bits(a) \subseteq 0 .. (GridBits + 1) - 1
           /\ Number(Bits(a)) = a
<1> DEFINE k == GridBits + 1
<1>1. /\ k \in 0 .. Width /\ k \in 1 .. Width /\ k - 1 = GridBits /\ GridBits \in 0 .. Width
      /\ GridBits \in Nat
  BY Sizes
<1>2. Grid \in Nat /\ Grid < Power[k]
  <2>1. Power[k] = 2 * Power[k - 1]
    BY <1>1, Powers, Zenon
  <2>2. Power[GridBits] \in Nat /\ Power[GridBits] >= 1
    BY <1>1, Powers, Zenon
  <2>3. Power[k] = 2 * Power[GridBits]
    BY <1>1, <2>1, Zenon
  <2>4. QED  BY <2>2, <2>3 DEF Grid
<1>3. a \in Nat /\ a < Power[k]
  <2>1. Power[k] \in Nat
    BY <1>1, Powers, Zenon
  <2> HIDE DEF k
  <2>2. QED  BY <1>2, <2>1
<1>4. Bits(a) \subseteq 0 .. k - 1 /\ Number(Bits(a)) = a
  <2> HIDE DEF k
  <2>1. QED  BY <1>1, <1>3, BitsBound, NumberBits, Zenon
<1>5. QED  BY <1>3, <1>4, Zenon

\* The code of a position, as a word.
Code(lat, lon) == interleave(Bits(lat), Bits(lon))

\* The bits of a coordinate, and of the code of a position.
LEMMA CodeBits ==
    ASSUME NEW lat \in 0 .. Grid, NEW lon \in 0 .. Grid
    PROVE  /\ Bits(lat) \in SUBSET (0 .. 31) /\ Bits(lon) \in SUBSET (0 .. 31)
           /\ Number(Bits(lat)) = lat /\ Number(Bits(lon)) = lon
           /\ Code(lat, lon) = {2 * i : i \in Bits(lat)} \cup {2 * i + 1 : i \in Bits(lon)}
           /\ Code(lat, lon) \in SUBSET (0 .. Width - 1)
           /\ lon < Grid => Code(lat, lon) \subseteq 0 .. Mantissa - 1
<1> DEFINE k == GridBits + 1
<1>1. k \in 0 .. Width /\ GridBits \in 0 .. Width /\ 0 .. k - 1 \subseteq 0 .. 31
  BY Sizes
<1>2. /\ lat \in Nat /\ Bits(lat) \subseteq 0 .. k - 1 /\ Number(Bits(lat)) = lat
      /\ lon \in Nat /\ Bits(lon) \subseteq 0 .. k - 1 /\ Number(Bits(lon)) = lon
  BY CoordinateBits, Zenon
<1> HIDE DEF k
<1>6. Bits(lat) \in SUBSET (0 .. 31) /\ Bits(lon) \in SUBSET (0 .. 31)
  BY <1>1, <1>2, Zenon
<1>7. Code(lat, lon) = {2 * i : i \in Bits(lat)} \cup {2 * i + 1 : i \in Bits(lon)}
  BY <1>6, Interleaved, Zenon DEF Code
<1>8. \A i \in 0 .. k - 1 : 2 * i \in 0 .. Width - 1 /\ 2 * i + 1 \in 0 .. Width - 1
  BY Sizes DEF k
<1>9. Code(lat, lon) \in SUBSET (0 .. Width - 1)
  BY <1>2, <1>7, <1>8, Zenon
<1>10. ASSUME lon < Grid PROVE Code(lat, lon) \subseteq 0 .. Mantissa - 1
  <2>1. Bits(lon) \subseteq 0 .. GridBits - 1
    BY <1>1, <1>2, <1>10, BitsBound, Zenon DEF Grid
  <2>2. \A i \in 0 .. k - 1 : 2 * i \in 0 .. Mantissa - 1
    BY Sizes DEF k
  <2>3. \A i \in 0 .. GridBits - 1 : 2 * i + 1 \in 0 .. Mantissa - 1
    BY Sizes
  <2>4. QED  BY <1>2, <1>7, <2>1, <2>2, <2>3, Zenon
<1>11. QED  BY <1>2, <1>6, <1>7, <1>9, <1>10, Zenon

\* The score of a position is a number.
LEMMA ScoreType ==
    ASSUME NEW lat \in 0 .. Grid, NEW lon \in 0 .. Grid
    PROVE  float64(encode(lat, lon)) \in Nat
<1>1. encode(lat, lon) \in Nat
  BY CodeBits, BitsNumber, Zenon DEF encode, Code
<1>2. QED  BY <1>1, FloatType, Zenon

\* Within the grid a position comes back from its score.
LEMMA InsideReturns ==
    ASSUME NEW lat \in 0 .. Grid, NEW lon \in 0 .. Grid, lon < Grid
    PROVE  decode(float64(encode(lat, lon))) = [lat |-> lat, lon |-> lon]
<1> DEFINE w == Code(lat, lon)
<1>1. /\ Bits(lat) \in SUBSET (0 .. 31) /\ Bits(lon) \in SUBSET (0 .. 31)
      /\ Number(Bits(lat)) = lat /\ Number(Bits(lon)) = lon
      /\ w \in SUBSET (0 .. Width - 1) /\ w \subseteq 0 .. Mantissa - 1
  BY CodeBits, Zenon
<1>2. encode(lat, lon) = Number(w)
  BY Zenon DEF encode, Code
<1>3. Mantissa \in 0 .. Width
  BY Sizes
<1>4. Number(w) < Power[Mantissa]
  BY <1>1, <1>3, NumberBound, Zenon
<1>5. float64(encode(lat, lon)) = Number(w)
  BY <1>2, <1>4, Zenon DEF float64
<1>6. Bits(Number(w)) = w
  BY <1>1, BitsNumber, Zenon
<1>7. compactInt64ToInt32(w) = Bits(lat) /\ compactInt64ToInt32(Shr(w, 1)) = Bits(lon)
  BY <1>1, Interleaved, Zenon DEF Code
<1>8. QED  BY <1>1, <1>5, <1>6, <1>7, Zenon DEF decode

\* On the largest longitude the code has one digit more than the mantissa, and an odd
\* latitude is rounded down.
LEMMA EdgeReturns ==
    ASSUME NEW lat \in 0 .. Grid
    PROVE  decode(float64(encode(lat, Grid))) = [lat |-> lat - (lat % 2), lon |-> Grid]
<1> DEFINE w == Code(lat, Grid)
           x == Bits(lat)
<1>1. GridBits \in 0 .. Width - 1 /\ GridBits \in 0 .. Width /\ GridBits >= 1 /\ GridBits \in 0 .. 31
  BY Sizes
<1>2. Grid \in Nat
  BY <1>1, Powers, Zenon DEF Grid
<1>3. Grid \in 0 .. Grid /\ lat \in Nat
  BY <1>2
<1>4. Bits(Grid) = {GridBits}
  BY <1>1, PowerBits, Zenon DEF Grid
<1>5. /\ x \in SUBSET (0 .. 31) /\ {GridBits} \in SUBSET (0 .. 31)
      /\ Number(x) = lat /\ Number({GridBits}) = Grid
      /\ w = {2 * i : i \in x} \cup {2 * i + 1 : i \in {GridBits}}
      /\ w \in SUBSET (0 .. Width - 1)
  BY <1>3, <1>4, CodeBits, Zenon
<1>6. w = interleave(x, {GridBits})
  BY <1>4, Zenon DEF Code
<1>7. encode(lat, Grid) = Number(w)
  BY Zenon DEF encode, Code
<1>8. Bits(Number(w)) = w /\ Number(w) \in Nat
  BY <1>5, BitsNumber, Zenon
<1> HIDE DEF x, w
<1>9. /\ \A i \in 0 .. 31 : 2 * i # 1 /\ 2 * i + 1 # 0 /\ (2 * i = 0 <=> i = 0)
      /\ 2 * GridBits + 1 = Mantissa /\ 2 * GridBits + 1 # 1 /\ 2 * 0 = 0 /\ Mantissa \in 0 .. Width
      /\ Mantissa \notin 0 .. Mantissa - 1
  BY Sizes
<1>0. \A j : j \in w <=> (\E i \in x : j = 2 * i) \/ j = 2 * GridBits + 1
  BY <1>5, Zenon
<1>10. Mantissa \in w /\ 1 \notin w /\ (0 \in w <=> 0 \in x)
  <2>1. \A i \in x : 2 * i # 1 /\ (2 * i = 0 <=> i = 0)
    BY <1>5, <1>9, Zenon
  <2>2. 2 * GridBits + 1 # 0
    BY <1>1, <1>9, Zenon
  <2>3. QED  BY <1>0, <1>9, <2>1, <2>2, Zenon
<1>11. ~ (Number(w) < Power[Mantissa])
  <2>1. Number(w) < Power[Mantissa] => w \subseteq 0 .. Mantissa - 1
    BY <1>8, <1>9, BitsBound, Zenon
  <2>2. QED  BY <1>9, <1>10, <2>1, Zenon
<1>12. CASE 0 \notin x
  <2>1. Number(w) % 2 = 0
    BY <1>5, <1>10, <1>12, LowDigits, Zenon
  <2>2. float64(encode(lat, Grid)) = Number(w)
    BY <1>7, <2>1, Zenon DEF float64
  <2>3. compactInt64ToInt32(w) = x /\ compactInt64ToInt32(Shr(w, 1)) = {GridBits}
    <3>1. /\ compactInt64ToInt32(interleave(x, {GridBits})) = x
          /\ compactInt64ToInt32(Shr(interleave(x, {GridBits}), 1)) = {GridBits}
      BY <1>5, Interleaved, Zenon
    <3>2. QED  BY <1>6, <3>1, Zenon
  <2>4. decode(float64(encode(lat, Grid))) = [lat |-> lat, lon |-> Grid]
    BY <1>5, <1>8, <2>2, <2>3, Zenon DEF decode
  <2>5. x \in SUBSET (0 .. Width - 1)
    <3>1. x \subseteq 0 .. (GridBits + 1) - 1
      BY <1>3, CoordinateBits, Zenon DEF x
    <3>2. QED  BY <3>1, Sizes
  <2>6. lat % 2 = 0
    BY <1>5, <1>12, <2>5, LowDigits, Zenon
  <2>7. lat - (lat % 2) = lat
    BY <1>3, <2>6
  <2>8. QED  BY <2>4, <2>7, Zenon
<1>13. CASE 0 \in x
  <2>1. Number(w) % 2 = 1 /\ Number(w) % 4 = 1
    BY <1>5, <1>10, <1>13, LowDigits, Zenon
  <2>2. float64(encode(lat, Grid)) = Number(w) - 1
    <3>1. Number(w) % 2 # 0
      BY <2>1
    <3>2. QED  BY <1>7, <1>11, <2>1, <3>1, Zenon DEF float64
  <2> DEFINE y == x \ {0}
             v == interleave(y, {GridBits})
  <2>3. y \in SUBSET (0 .. 31)
    BY <1>5, Zenon
  <2>4. v = {2 * i : i \in y} \cup {2 * i + 1 : i \in {GridBits}}
    BY <1>5, <2>3, Interleaved, Zenon
  <2>5. v = w \ {0}
    <3>1. 2 * GridBits + 1 # 0
      BY <1>1, <1>9, Zenon
    <3>2. \A i \in x : 2 * i = 0 <=> i = 0
      BY <1>5, <1>9, Zenon
    <3>3. \A j : j \in v <=> (\E i \in y : j = 2 * i) \/ j = 2 * GridBits + 1
      BY <2>4, Zenon
    <3> HIDE DEF v
    <3>4. ASSUME NEW j PROVE j \in v <=> j \in w /\ j # 0
      BY <1>0, <3>1, <3>2, <3>3, Zenon
    <3>5. QED  BY <3>4, Zenon
  <2>6. Number(v) = Number(w) - 1 /\ Number(y) = lat - 1
    BY <1>5, <1>10, <1>13, <2>5, NumberLess, Zenon
  <2>7. v \in SUBSET (0 .. Width - 1)
    BY <1>5, <2>5, Zenon
  <2>8. Bits(Number(v)) = v
    BY <2>7, BitsNumber, Zenon
  <2>9. compactInt64ToInt32(v) = y /\ compactInt64ToInt32(Shr(v, 1)) = {GridBits}
    BY <1>5, <2>3, Interleaved, Zenon
  <2> HIDE DEF v, y
  <2>10. decode(float64(encode(lat, Grid))) = [lat |-> lat - 1, lon |-> Grid]
    BY <1>5, <2>2, <2>6, <2>8, <2>9, Zenon DEF decode
  <2>11. lat % 2 = 1
    <3>1. Number(y) % 2 = 0
      <4>1. x \subseteq 0 .. (GridBits + 1) - 1
        BY <1>3, CoordinateBits, Zenon DEF x
      <4>2. 0 .. (GridBits + 1) - 1 \subseteq 0 .. Width - 1
        BY Sizes
      <4>3. y \in SUBSET (0 .. Width - 1) /\ 0 \notin y
        BY <4>1, <4>2, Zenon DEF y
      <4>4. QED  BY <4>3, LowDigits, Zenon
    <3>2. QED  BY <1>3, <2>6, <3>1
  <2>12. QED  BY <2>10, <2>11, Zenon
<1>14. QED  BY <1>12, <1>13, Zenon

--------------------------------------------------------------------------------
(* Binary search *)

\* The intervals a search may be in: what is before them compares as smaller, what
\* is after them does not.
Spans(seq, e) ==
    {r \in [lo : 0 .. Len(seq), hi : 0 .. Len(seq)] :
        /\ r.lo <= r.hi
        /\ r.lo > 0 => compare(seq[r.lo], e)
        /\ r.hi < Len(seq) => ~compare(seq[r.hi + 1], e)}

\* A round of the search stays within them and makes the interval smaller.
LEMMA HalveSpans ==
    ASSUME NEW seq, Len(seq) \in Nat, NEW e, NEW r \in Spans(seq, e)
    PROVE  /\ Halve(seq, e, r) \in Spans(seq, e)
           /\ Halve(seq, e, r).lo < Halve(seq, e, r).hi =>
                Halve(seq, e, r).hi - Halve(seq, e, r).lo < r.hi - r.lo
<1> DEFINE n == Len(seq)
           h == (r.lo + r.hi) \div 2
<1>1. /\ r \in [lo : 0 .. n, hi : 0 .. n] /\ r.lo <= r.hi
      /\ r.lo > 0 => compare(seq[r.lo], e)
      /\ r.hi < n => ~compare(seq[r.hi + 1], e)
  BY Zenon DEF Spans
<1>2. r.lo \in 0 .. n /\ r.hi \in 0 .. n /\ n \in Nat
  BY <1>1
<1>3. CASE r.lo >= r.hi
  <2>1. Halve(seq, e, r) = r
    BY <1>3, Zenon DEF Halve
  <2>2. ~ (r.lo < r.hi)
    BY <1>2, <1>3
  <2>3. QED  BY <2>1, <2>2, Zenon
<1>4. CASE ~ (r.lo >= r.hi)
  <2>1. h \in 0 .. n /\ h + 1 \in 0 .. n /\ r.lo <= h /\ h < r.hi /\ (h + 1) - 1 = h
    BY <1>2, <1>4
  <2>2. CASE ~compare(seq[h + 1], e)
    <3> DEFINE t == [r EXCEPT !.hi = h]
    <3>1. Halve(seq, e, r) = t
      BY <1>4, <2>2, Zenon DEF Halve
    <3>2. t.hi = h /\ t.lo = r.lo /\ t \in [lo : 0 .. n, hi : 0 .. n]
      BY <1>1, <1>2, <2>1
    <3>3. t \in Spans(seq, e)
      BY <1>1, <2>1, <2>2, <3>2, Zenon DEF Spans
    <3>4. h - r.lo < r.hi - r.lo
      BY <1>2, <2>1
    <3>5. QED  BY <3>1, <3>2, <3>3, <3>4, Zenon
  <2>3. CASE compare(seq[h + 1], e)
    <3> DEFINE t == [r EXCEPT !.lo = h + 1]
    <3>1. Halve(seq, e, r) = t
      BY <1>4, <2>3, Zenon DEF Halve
    <3>2. t.hi = r.hi /\ t.lo = h + 1 /\ t \in [lo : 0 .. n, hi : 0 .. n]
      BY <1>1, <1>2, <2>1
    <3>3. h + 1 <= r.hi
      BY <1>2, <2>1
    <3>4. t \in Spans(seq, e)
      BY <1>1, <2>1, <2>3, <3>2, <3>3, Zenon DEF Spans
    <3>5. r.hi - (h + 1) < r.hi - r.lo
      BY <1>2, <2>1
    <3>6. QED  BY <3>1, <3>2, <3>4, <3>5, Zenon
  <2>4. QED  BY <2>2, <2>3, Zenon
<1>5. QED  BY <1>3, <1>4, Zenon

\* Where a search ends: everything up to there compares as smaller and the entry
\* after it does not.  The list need not be in order.
Splits(seq, e, p) ==
    /\ p \in 0 .. Len(seq)
    /\ p > 0 => compare(seq[p], e)
    /\ p < Len(seq) => ~compare(seq[p + 1], e)

\* Search ends at such a place: Len(seq) rounds leave no interval.
LEMMA SearchSplits ==
    ASSUME NEW seq, Len(seq) \in Nat, NEW e PROVE Splits(seq, e, Search(seq, e))
<1> DEFINE n == Len(seq)
           S == Spans(seq, e)
           x == [lo |-> 0, hi |-> n]
           F == [i \in 1 .. n |-> [r \in S |-> Halve(seq, e, r)]]
           Is(f) == f = [i \in 0 .. n |-> IF i = 0 THEN x ELSE Halve(seq, e, f[i - 1])]
<1>1. x \in S
  <2>1. x.lo = 0 /\ x.hi = n /\ x \in [lo : 0 .. n, hi : 0 .. n] /\ 0 <= n /\ ~ (0 > 0) /\ ~ (n < n)
    OBVIOUS
  <2>2. QED  BY <2>1, Zenon DEF Spans
<1>2. F \in [1 .. n -> [S -> S]]
  BY HalveSpans, Zenon
<1>3. \E f : Is(f)
  <2>1. PICK f : IsRun(F, x, n, f) /\ \A i \in 0 .. n : f[i] \in S
    <3> HIDE DEF S, x, F, n
    <3>1. n \in Nat
      BY DEF n
    <3>2. QED  BY <1>1, <1>2, <3>1, RunWithin, Zenon
  <2>2. ASSUME NEW i \in 0 .. n, i # 0 PROVE Step(F, i, f[i - 1]) = Halve(seq, e, f[i - 1])
    <3>1. i \in 1 .. n /\ i - 1 \in 0 .. n
      BY <2>2
    <3>2. QED  BY <2>1, <3>1, Zenon DEF Step
  <2>3. f = [i \in 0 .. n |-> IF i = 0 THEN x ELSE Step(F, i, f[i - 1])]
    BY <2>1, Zenon DEF IsRun
  <2>4. Is(f)
    <3> HIDE DEF F, x, n
    <3>1. QED  BY <2>2, <2>3, Zenon
  <2>5. QED  BY <2>4, Zenon
<1>4. PICK f : Is(f) /\ Search(seq, e) = f[n].lo
  <2>1. Search(seq, e) = (CHOOSE f : Is(f))[n].lo
    BY Zenon DEF Search
  <2> HIDE DEF Is
  <2>2. QED  BY <1>3, <2>1, Zenon
<1>5. f[0] = x /\ \A i \in 1 .. n : f[i] = Halve(seq, e, f[i - 1])
  <2>1. 0 \in 0 .. n /\ \A i \in 1 .. n : i \in 0 .. n /\ i # 0
    OBVIOUS
  <2> HIDE DEF x, n
  <2>2. QED  BY <1>4, <2>1, Zenon
<1> DEFINE T == {i \in 0 .. n : f[i] \in S /\ f[i].hi - f[i].lo <= n - i}
<1>6. 0 \in T
  BY <1>1, <1>5
<1>7. ASSUME NEW i \in 1 .. n, i - 1 \in T PROVE i \in T
  <2> DEFINE r == f[i - 1]
             s == f[i]
  <2>1. r \in S /\ r.hi - r.lo <= n - (i - 1) /\ s = Halve(seq, e, r)
    BY <1>5, <1>7, Zenon
  <2>2. s \in S /\ (s.lo < s.hi => s.hi - s.lo < r.hi - r.lo)
    BY <2>1, HalveSpans, Zenon
  <2>3. \A t \in S : t.lo \in 0 .. n /\ t.hi \in 0 .. n /\ t.lo <= t.hi
    BY DEF Spans
  <2>4. r.lo \in 0 .. n /\ r.hi \in 0 .. n /\ s.lo \in 0 .. n /\ s.hi \in 0 .. n /\ s.lo <= s.hi
    BY <2>1, <2>2, <2>3, Zenon
  <2> HIDE DEF r, s, S
  <2>5. s.hi - s.lo <= n - i
    BY <2>1, <2>2, <2>4
  <2>6. i \in 0 .. n
    OBVIOUS
  <2>7. QED  BY <2>2, <2>5, <2>6, Zenon DEF s
<1>8. \A i \in 0 .. n : i \in T
  <2> HIDE DEF T
  <2>1. QED  BY <1>6, <1>7, Reaches, Zenon
<1>9. f[n] \in S /\ f[n].hi - f[n].lo <= n - n
  BY <1>8
<1>10. f[n].lo \in 0 .. n /\ f[n].hi \in 0 .. n /\ f[n].lo <= f[n].hi
  BY <1>9 DEF Spans
<1>11. f[n].lo = f[n].hi
  BY <1>9, <1>10
<1>12. QED  BY <1>4, <1>9, <1>10, <1>11, Zenon DEF Splits, Spans

--------------------------------------------------------------------------------
(* Insertion and deletion *)

\* w is q with e put in behind position p, and with the entry behind it taken out.
Inserted(q, p, e, w) ==
    \A j \in 1 .. Len(q) + 1 : w[j] = IF j <= p THEN q[j] ELSE IF j = p + 1 THEN e ELSE q[j - 1]
Deleted(q, p, w) == \A j \in 1 .. Len(q) - 1 : w[j] = IF j <= p THEN q[j] ELSE q[j + 1]

\* An insertion shifts what is behind it.
LEMMA InsertShape ==
    ASSUME NEW S, NEW q \in Seq(S), NEW p \in 0 .. Len(q), NEW e \in S
    PROVE  /\ Insert(q, p, e) \in Seq(S) /\ Len(Insert(q, p, e)) = Len(q) + 1
           /\ Inserted(q, p, e, Insert(q, p, e))
<1> DEFINE n == Len(q)
           w == [j \in 1 .. n + 1 |-> IF j <= p THEN q[j] ELSE IF j = p + 1 THEN e ELSE q[j - 1]]
<1>1. n \in Nat /\ \A j \in 1 .. n : q[j] \in S
  OBVIOUS
<1>2. \A j \in 1 .. n + 1 : w[j] \in S
  BY <1>1
<1>3. w \in [1 .. n + 1 -> S] /\ n + 1 \in Nat
  BY <1>1, <1>2
<1>4. \A j \in 1 .. n + 1 : w[j] = IF j <= p THEN q[j] ELSE IF j = p + 1 THEN e ELSE q[j - 1]
  BY Zenon
<1>5. w = Insert(q, p, e)
  BY Zenon DEF Insert
<1> HIDE DEF w
<1>6. w \in Seq(S) /\ Len(w) = n + 1
  BY <1>3, FcnSeq, Zenon
<1>7. QED  BY <1>4, <1>5, <1>6, Zenon DEF Inserted

\* A deletion closes the gap.
LEMMA DeleteShape ==
    ASSUME NEW S, NEW q \in Seq(S), NEW p \in Nat, p < Len(q)
    PROVE  /\ Delete(q, p) \in Seq(S) /\ Len(Delete(q, p)) = Len(q) - 1
           /\ Deleted(q, p, Delete(q, p))
<1> DEFINE n == Len(q)
           w == [j \in 1 .. n - 1 |-> IF j <= p THEN q[j] ELSE q[j + 1]]
<1>1. n \in Nat /\ n - 1 \in Nat /\ \A j \in 1 .. n : q[j] \in S
  OBVIOUS
<1>2. \A j \in 1 .. n - 1 : w[j] \in S
  BY <1>1
<1>3. w \in [1 .. n - 1 -> S]
  BY <1>1, <1>2
<1>4. \A j \in 1 .. n - 1 : w[j] = IF j <= p THEN q[j] ELSE q[j + 1]
  BY Zenon
<1>5. w = Delete(q, p)
  BY Zenon DEF Delete
<1> HIDE DEF w
<1>6. w \in Seq(S) /\ Len(w) = n - 1
  BY <1>1, <1>3, FcnSeq, Zenon
<1>7. QED  BY <1>4, <1>5, <1>6, Zenon DEF Deleted

\* Entries: a member with its score.  Numbered ones have a score that is not NaN.
Values == Nat \cup {NaN}
Entry == [name : Members, score : Values]
Numbered == [name : Members, score : Nat]

\* No entry of the list comes before a smaller one.
NotAfter(a, b) == a.score < b.score \/ (a.score = b.score /\ a.name <= b.name)
Ascends(q) == \A i, j \in 1 .. Len(q) : i < j => NotAfter(q[i], q[j])

\* The order on numbered entries, and what it has to do with compare.
LEMMA EntryOrder ==
    ASSUME NEW a \in Numbered, NEW b \in Numbered
    PROVE  /\ compare(a, b) => NotAfter(a, b)
           /\ ~compare(a, b) => NotAfter(b, a)
           /\ NotAfter(b, a) => ~compare(a, b)
           /\ NotAfter(a, b) /\ a.name # b.name => compare(a, b)
           /\ \A d \in Numbered : NotAfter(a, b) /\ NotAfter(b, d) => NotAfter(a, d)
<1>1. \A d \in Numbered : d.name \in Nat /\ d.score \in Nat /\ d.score # NaN
  <2>1. \A s \in Nat : s # NaN
    BY DEF NaN
  <2>2. \A d \in Numbered : d.name \in Members /\ d.score \in Nat
    BY Zenon DEF Numbered
  <2>3. QED  BY <2>1, <2>2, MembersAssumption, Zenon
<1>2. \A d, g \in Numbered :
        compare(d, g) <=> IF d.score = g.score THEN d.name < g.name ELSE d.score < g.score
  BY <1>1, Zenon DEF compare, SameScore, LessScore
<1>3. /\ compare(a, b) => NotAfter(a, b)
      /\ ~compare(a, b) => NotAfter(b, a)
      /\ NotAfter(b, a) => ~compare(a, b)
  BY <1>1, <1>2 DEF NotAfter
<1>4. NotAfter(a, b) /\ a.name # b.name => compare(a, b)
  BY <1>1, <1>2 DEF NotAfter
<1>5. \A d \in Numbered : NotAfter(a, b) /\ NotAfter(b, d) => NotAfter(a, d)
  BY <1>1 DEF NotAfter
<1>6. QED  BY <1>3, <1>4, <1>5, Zenon

\* What compare says of them.
LEMMA CompareNumbered ==
    ASSUME NEW a \in Numbered, NEW b \in Numbered
    PROVE  compare(a, b) <=> a.score < b.score \/ (a.score = b.score /\ a.name < b.name)
<1>1. a.score \in Nat /\ b.score \in Nat
  BY Zenon DEF Numbered
<1>2. a.score # NaN /\ b.score # NaN /\ (a.score = b.score => ~ (a.score < b.score))
  BY <1>1 DEF NaN
<1>3. QED  BY <1>2, Zenon DEF compare, SameScore, LessScore

\* An insertion where the search ended keeps a list in order.
LEMMA InsertAscends ==
    ASSUME NEW q \in Seq(Numbered), Ascends(q), NEW e \in Numbered
    PROVE  /\ Insert(q, Search(q, e), e) \in Seq(Numbered)
           /\ Ascends(Insert(q, Search(q, e), e))
<1> DEFINE n == Len(q)
           p == Search(q, e)
           w == Insert(q, p, e)
<1>1. n \in Nat /\ \A j \in 1 .. n : q[j] \in Numbered
  OBVIOUS
<1>2. p \in 0 .. n /\ (p > 0 => compare(q[p], e)) /\ (p < n => ~compare(q[p + 1], e))
  BY <1>1, SearchSplits, Zenon DEF Splits
<1> HIDE DEF p
<1>3. /\ w \in Seq(Numbered) /\ Len(w) = n + 1
      /\ \A j \in 1 .. n + 1 : w[j] = IF j <= p THEN q[j] ELSE IF j = p + 1 THEN e ELSE q[j - 1]
  <2>1. w \in Seq(Numbered) /\ Len(w) = n + 1 /\ Inserted(q, p, e, w)
    BY <1>2, InsertShape, Zenon
  <2>2. QED  BY <2>1, Zenon DEF Inserted
<1> HIDE DEF w, n
<1>4. \A i, j \in 1 .. n : i < j => NotAfter(q[i], q[j])
  BY Zenon DEF Ascends, n
<1>5. ASSUME NEW i \in 1 .. n, i <= p PROVE NotAfter(q[i], e)
  <2>1. p \in 1 .. n /\ p > 0 /\ (i = p \/ i < p)
    BY <1>1, <1>2, <1>5
  <2>2. NotAfter(q[p], e)
    BY <1>1, <1>2, <2>1, EntryOrder, Zenon
  <2>3. QED  BY <1>1, <1>4, <2>1, <2>2, EntryOrder, Zenon
<1>6. ASSUME NEW i \in 1 .. n, p < i PROVE NotAfter(e, q[i])
  <2>1. p + 1 \in 1 .. n /\ p < n /\ (i = p + 1 \/ p + 1 < i)
    BY <1>1, <1>2, <1>6
  <2>2. NotAfter(e, q[p + 1])
    BY <1>1, <1>2, <2>1, EntryOrder, Zenon
  <2>3. QED  BY <1>1, <1>4, <2>1, <2>2, EntryOrder, Zenon
<1>7. ASSUME NEW i \in 1 .. n + 1, NEW j \in 1 .. n + 1, i < j PROVE NotAfter(w[i], w[j])
  <2>1. CASE j <= p
    <3>1. i \in 1 .. n /\ j \in 1 .. n /\ i <= p
      BY <1>1, <1>2, <1>7, <2>1
    <3>2. QED  BY <1>3, <1>4, <1>7, <2>1, <3>1, Zenon
  <2>2. CASE j = p + 1
    <3>1. i \in 1 .. n /\ i <= p /\ ~ (j <= p)
      BY <1>1, <1>2, <1>7, <2>2
    <3>2. QED  BY <1>3, <1>5, <2>2, <3>1, Zenon
  <2>3. CASE p + 1 < j
    <3>1. j - 1 \in 1 .. n /\ ~ (j <= p) /\ j # p + 1 /\ p < j - 1
      BY <1>1, <1>2, <1>7, <2>3
    <3>2. w[j] = q[j - 1]
      BY <1>3, <3>1, Zenon
    <3>3. CASE i <= p
      <4>1. i \in 1 .. n /\ i < j - 1
        BY <1>1, <1>2, <1>7, <2>3, <3>3
      <4>2. QED  BY <1>3, <1>4, <3>1, <3>2, <3>3, <4>1, Zenon
    <3>4. CASE i = p + 1
      <4>1. ~ (i <= p)
        BY <1>2, <3>4
      <4>2. QED  BY <1>3, <1>6, <3>1, <3>2, <3>4, <4>1, Zenon
    <3>5. CASE p + 1 < i
      <4>1. i - 1 \in 1 .. n /\ i - 1 < j - 1 /\ ~ (i <= p) /\ i # p + 1
        BY <1>1, <1>2, <1>7, <3>5
      <4>2. QED  BY <1>3, <1>4, <3>1, <3>2, <4>1, Zenon
    <3>6. QED  BY <1>2, <3>3, <3>4, <3>5
  <2>4. QED  BY <1>2, <2>1, <2>2, <2>3
<1>8. QED  BY <1>3, <1>7, Zenon DEF Ascends, w, p

\* A deletion keeps a list in order.
LEMMA DeleteAscends ==
    ASSUME NEW q \in Seq(Numbered), Ascends(q), NEW p \in Nat, p < Len(q)
    PROVE  Delete(q, p) \in Seq(Numbered) /\ Ascends(Delete(q, p))
<1> DEFINE n == Len(q)
           w == Delete(q, p)
<1>1. n \in Nat
  OBVIOUS
<1>2. /\ w \in Seq(Numbered) /\ Len(w) = n - 1
      /\ \A j \in 1 .. n - 1 : w[j] = IF j <= p THEN q[j] ELSE q[j + 1]
  <2>1. w \in Seq(Numbered) /\ Len(w) = n - 1 /\ Deleted(q, p, w)
    BY DeleteShape, Zenon
  <2>2. QED  BY <2>1, Zenon DEF Deleted
<1>3. \A i, j \in 1 .. n : i < j => NotAfter(q[i], q[j])
  BY Zenon DEF Ascends
<1> HIDE DEF w, n
<1>4. ASSUME NEW i \in 1 .. n - 1, NEW j \in 1 .. n - 1, i < j PROVE NotAfter(w[i], w[j])
  <2>1. /\ i \in 1 .. n /\ j \in 1 .. n /\ i + 1 \in 1 .. n /\ j + 1 \in 1 .. n
        /\ i < j + 1 /\ i + 1 < j + 1 /\ (j <= p => i <= p)
    BY <1>1, <1>4
  <2>2. QED  BY <1>2, <1>3, <1>4, <2>1, Zenon
<1>5. QED  BY <1>2, <1>4, Zenon DEF Ascends, w

--------------------------------------------------------------------------------
(* Types *)

\* An entry put where the search for it ends.
Put(q, e) == Insert(q, Search(q, e), e)

\* It is a list again, with the entry at some place.
LEMMA PutShape ==
    ASSUME NEW S, NEW q \in Seq(S), NEW e \in S
    PROVE  /\ Put(q, e) \in Seq(S) /\ Len(Put(q, e)) = Len(q) + 1
           /\ \E p \in 0 .. Len(q) : Inserted(q, p, e, Put(q, e))
<1>1. Len(q) \in Nat
  OBVIOUS
<1>2. Search(q, e) \in 0 .. Len(q)
  BY <1>1, SearchSplits, Zenon DEF Splits
<1>3. QED  BY <1>2, InsertShape, Zenon DEF Put

\* The types of the map, the list, the ZREMs under way and the positions.
TypeInv ==
    /\ kind \in {"none", "zset", "string"}
    /\ DOMAIN scores \subseteq Members /\ scores \in [DOMAIN scores -> Values]
    /\ sorted \in Seq(Entry)
    /\ pc \in [Clients -> {"idle", "forget", "find", "cut"}]
    /\ arg \in [Clients -> Nat] /\ index \in [Clients -> Nat]
    /\ \A c \in Clients : pc[c] # "idle" => arg[c] \in Members
    /\ place \in [Members -> Places \cup {Nowhere}]

\* What ZAdd does to the map and the list: the member is new, has that score
\* already, or is moved; or its entry is looked for past the end.
Adds(m, s) ==
    /\ m \notin DOMAIN scores /\ crashed' = "no"
    /\ scores' = [x \in DOMAIN scores \cup {m} |-> IF x = m THEN s ELSE scores[x]]
    /\ sorted' = Put(sorted, [name |-> m, score |-> s])
Keeps(m, s) ==
    m \in DOMAIN scores /\ scores[m] = s /\ s # NaN /\ UNCHANGED <<scores, sorted, crashed>>
Breaks == crashed' = "yes" /\ UNCHANGED <<scores, sorted>>
Rescores(m, s, i) ==
    /\ m \in DOMAIN scores /\ crashed' = "no"
    /\ i = Search(sorted, [name |-> m, score |-> scores[m]]) /\ i < Len(sorted)
    /\ scores' = [scores EXCEPT ![m] = s]
    /\ sorted' = Put(Delete(sorted, i), [name |-> m, score |-> s])

\* ZAdd does one of them.
LEMMA ZAddKinds ==
    ASSUME TypeInv, NEW c, NEW m, NEW s, NEW p, ZAddAt(c, m, s, p)
    PROVE  Adds(m, s) \/ Keeps(m, s) \/ Breaks \/ \E i \in Nat : Rescores(m, s, i)
<1>1. crashed = "no"
  BY Zenon DEF ZAddAt
<1>2. CASE m \notin DOMAIN scores
  <2>1. AddMember(m, s)
    BY <1>2, Zenon DEF ZAddAt
  <2>2. QED  BY <1>1, <1>2, <2>1, Zenon DEF AddMember, Adds, Put
<1>3. CASE m \in DOMAIN scores
  <2>1. UpdateMemberScore(m, s)
    BY <1>3, Zenon DEF ZAddAt
  <2> DEFINE i == Search(sorted, [name |-> m, score |-> scores[m]])
  <2>2. Len(sorted) \in Nat
    BY DEF TypeInv
  <2>3. i \in 0 .. Len(sorted)
    BY <2>2, SearchSplits, Zenon DEF Splits
  <2>4. i \in Nat /\ (i >= Len(sorted) \/ i < Len(sorted))
    <3> HIDE DEF i
    <3>1. QED  BY <2>2, <2>3
  <2>5. CASE SameScore(scores[m], s)
    BY <1>3, <2>1, <2>5, Zenon DEF UpdateMemberScore, Keeps, SameScore
  <2>6. CASE ~SameScore(scores[m], s) /\ i >= Len(sorted)
    BY <2>1, <2>6, Zenon DEF UpdateMemberScore, Breaks
  <2>7. CASE ~SameScore(scores[m], s) /\ ~ (i >= Len(sorted))
    <3>1. Rescores(m, s, i)
      BY <1>1, <1>3, <2>1, <2>4, <2>7, Zenon DEF UpdateMemberScore, Rescores, Put
    <3>2. QED  BY <2>4, <3>1, Zenon
  <2>8. QED  BY <2>5, <2>6, <2>7, Zenon
<1>4. QED  BY <1>2, <1>3, Zenon

\* The scores that are given to ZAdd.
LEMMA Given ==
    /\ \A s \in Scores : s \in Values
    /\ \A q \in Places : /\ q.lat \in 0 .. Grid /\ q.lon \in 0 .. Grid
                         /\ q = [lat |-> q.lat, lon |-> q.lon]
                         /\ float64(encode(q.lat, q.lon)) \in Nat
<1>1. \A s \in Scores : s \in Values
  BY ScoresAssumption, Zenon DEF Values
<1>2. ASSUME NEW q \in Places
      PROVE  /\ q.lat \in 0 .. Grid /\ q.lon \in 0 .. Grid
             /\ q = [lat |-> q.lat, lon |-> q.lon]
             /\ float64(encode(q.lat, q.lon)) \in Nat
  <2>1. q \in [lat : 0 .. Grid, lon : 0 .. Grid]
    BY PlacesAssumption, Zenon
  <2>2. q.lat \in 0 .. Grid /\ q.lon \in 0 .. Grid /\ q = [lat |-> q.lat, lon |-> q.lon]
    BY <2>1, Zenon
  <2>3. QED  BY <2>2, ScoreType, Zenon
<1>3. QED  BY <1>1, <1>2, Zenon

\* ZAdd keeps the types.
LEMMA ZAddType ==
    ASSUME TypeInv, NEW c \in Clients, NEW m \in Members, NEW s \in Values,
           NEW p \in Places \cup {Nowhere}, ZAddAt(c, m, s, p)
    PROVE  TypeInv'
<1> DEFINE e == [name |-> m, score |-> s]
<1>1. e \in Entry
  BY Zenon DEF Entry
<1>2. /\ kind' \in {"none", "zset", "string"} /\ pc' = pc /\ arg' = arg /\ index' = index
      /\ place' \in [Members -> Places \cup {Nowhere}]
  BY Zenon DEF ZAddAt, TypeInv
<1>3. DOMAIN scores \subseteq Members /\ scores \in [DOMAIN scores -> Values] /\ sorted \in Seq(Entry)
  BY Zenon DEF TypeInv
<1> HIDE DEF e
<1>4. CASE Adds(m, s)
  <2>1. DOMAIN scores' = DOMAIN scores \cup {m} /\ scores' \in [DOMAIN scores' -> Values]
    BY <1>3, <1>4, Zenon DEF Adds
  <2>2. sorted' \in Seq(Entry)
    BY <1>1, <1>3, <1>4, PutShape, Zenon DEF Adds, e
  <2>3. QED  BY <1>2, <1>3, <2>1, <2>2, Zenon DEF TypeInv
<1>5. CASE Keeps(m, s) \/ Breaks
  BY <1>2, <1>5, Zenon DEF Keeps, Breaks, TypeInv
<1>6. ASSUME NEW i \in Nat, Rescores(m, s, i) PROVE TypeInv'
  <2>1. DOMAIN scores' = DOMAIN scores /\ scores' \in [DOMAIN scores' -> Values]
    BY <1>3, <1>6, Zenon DEF Rescores
  <2>2. Delete(sorted, i) \in Seq(Entry)
    BY <1>3, <1>6, DeleteShape, Zenon DEF Rescores
  <2>3. sorted' \in Seq(Entry)
    BY <1>1, <1>6, <2>2, PutShape, Zenon DEF Rescores, e
  <2>4. QED  BY <1>2, <1>3, <2>1, <2>3, Zenon DEF TypeInv
<1>7. QED  BY <1>4, <1>5, <1>6, ZAddKinds, Zenon

\* The position ZREM finds: the first entry of its member, or 0.
Found(q, x) ==
    LET at == {i \in DOMAIN q : q[i].name = x} IN
    IF at = {} THEN 0 ELSE (CHOOSE i \in at : \A j \in at : i <= j) - 1

\* It is the position of an entry of the member if there is one.
LEMMA FindPosition ==
    ASSUME NEW q, Len(q) \in Nat, DOMAIN q = 1 .. Len(q), NEW x
    PROVE  /\ Found(q, x) \in Nat
           /\ (\E k \in DOMAIN q : q[k].name = x) =>
                 Found(q, x) + 1 \in DOMAIN q /\ q[Found(q, x) + 1].name = x
<1> DEFINE at == {k \in DOMAIN q : q[k].name = x}
           f == CHOOSE k \in at : \A j \in at : k <= j
<1>1. CASE at = {}
  <2>1. Found(q, x) = 0
    BY <1>1, Zenon DEF Found
  <2>2. 0 \in Nat
    BY Zenon
  <2>3. ~ \E k \in DOMAIN q : q[k].name = x
    BY <1>1, Zenon
  <2>4. QED  BY <2>1, <2>2, <2>3, Zenon
<1>2. CASE at # {}
  <2>1. at \subseteq Nat
    OBVIOUS
  <2>2. \E k \in at : \A j \in at : k <= j
    <3> HIDE DEF at
    <3>1. QED  BY <1>2, <2>1, LeastNat, Zenon
  <2>3. f \in at
    BY <2>2, Zenon
  <2>4. Found(q, x) = f - 1
    BY <1>2, Zenon DEF Found
  <2>5. f \in 1 .. Len(q) /\ q[f].name = x
    BY <2>3, Zenon
  <2> HIDE DEF f
  <2>6. Found(q, x) \in Nat /\ Found(q, x) + 1 = f
    <3>1. \A g \in 1 .. Len(q) : g - 1 \in Nat /\ (g - 1) + 1 = g
      OBVIOUS
    <3>2. QED  BY <2>4, <2>5, <3>1, Zenon
  <2>7. QED  BY <2>5, <2>6, Zenon
<1>3. QED  BY <1>1, <1>2, Zenon

\* Every step keeps the types.
LEMMA TypeStep == ASSUME TypeInv, [Next]_vars PROVE TypeInv'
<1>0. Len(sorted) \in Nat /\ DOMAIN sorted = 1 .. Len(sorted) /\ \A m \in Members : m \in Nat
  BY MembersAssumption DEF TypeInv
<1>1. ASSUME NEW c \in Clients, NEW m \in Members, NEW s \in Scores, ZAdd(c, m, s) PROVE TypeInv'
  BY <1>1, Given, ZAddType, Zenon DEF ZAdd
<1>2. ASSUME NEW c \in Clients, NEW m \in Members, NEW p \in Places, GeoAdd(c, m, p) PROVE TypeInv'
  <2>1. float64(encode(p.lat, p.lon)) \in Values
    BY Given, Zenon DEF Values
  <2>2. QED  BY <1>2, <2>1, ZAddType, Zenon DEF GeoAdd
<1>3. ASSUME NEW c \in Clients, NEW m \in Members, ZRem(c, m) PROVE TypeInv'
  BY <1>0, <1>3, Zenon DEF ZRem, TypeInv
<1>4. ASSUME NEW c \in Clients, ZRemForget(c) PROVE TypeInv'
  BY <1>4, Zenon DEF ZRemForget, TypeInv
<1>5. ASSUME NEW c \in Clients, ZRemFatal(c) \/ ReadNil(c) PROVE TypeInv'
  BY <1>5, Zenon DEF ZRemFatal, ReadNil, TypeInv
<1>6. ASSUME NEW c \in Clients, ZRemFind(c) PROVE TypeInv'
  <2>1. index' = [index EXCEPT ![c] = Found(sorted, arg[c])]
    BY <1>6, Zenon DEF ZRemFind, Found
  <2>2. Found(sorted, arg[c]) \in Nat
    BY <1>0, FindPosition, Zenon
  <2>3. QED  BY <1>6, <2>1, <2>2, Zenon DEF ZRemFind, TypeInv
<1>7. ASSUME NEW c \in Clients, ZRemCut(c) PROVE TypeInv'
  <2>1. index[c] \in Nat /\ sorted \in Seq(Entry) /\ 0 \in Nat
    BY Zenon DEF TypeInv
  <2>2. sorted' \in Seq(Entry)
    BY <1>7, <2>1, DeleteShape, Zenon DEF ZRemCut
  <2>3. QED  BY <1>7, <2>1, <2>2, Zenon DEF ZRemCut, TypeInv
<1>8. CASE UNCHANGED vars
  BY <1>8, Zenon DEF vars, TypeInv
<1>9. QED  BY <1>1, <1>2, <1>3, <1>4, <1>5, <1>6, <1>7, <1>8, Zenon DEF Next

--------------------------------------------------------------------------------
(* Order *)

\* While no score is NaN: the list has numbers and is in order, and the map has
\* numbers.
OrderInv ==
    "nan" \notin odd => /\ sorted \in Seq(Numbered) /\ Ascends(sorted)
                        /\ \A m \in DOMAIN scores : scores[m] \in Nat

\* ZAdd keeps the order.
LEMMA ZAddOrder ==
    ASSUME TypeInv, OrderInv, NEW c, NEW m \in Members, NEW s \in Values, NEW p, ZAddAt(c, m, s, p)
    PROVE  OrderInv'
<1> SUFFICES ASSUME "nan" \notin odd'
             PROVE  /\ sorted' \in Seq(Numbered) /\ Ascends(sorted')
                    /\ \A x \in DOMAIN scores' : scores'[x] \in Nat
  BY Zenon DEF OrderInv
<1> DEFINE e == [name |-> m, score |-> s]
<1>1. "nan" \notin odd /\ s # NaN
  BY Zenon DEF ZAddAt
<1>2. s \in Nat
  BY <1>1, Zenon DEF Values
<1>3. e \in Numbered
  BY <1>2, Zenon DEF Numbered
<1>4. sorted \in Seq(Numbered) /\ Ascends(sorted) /\ \A x \in DOMAIN scores : scores[x] \in Nat
  BY <1>1, Zenon DEF OrderInv
<1> HIDE DEF e
<1>5. CASE Adds(m, s)
  <2>1. sorted' = Put(sorted, e)
    BY <1>5, Zenon DEF Adds, e
  <2>2. sorted' \in Seq(Numbered) /\ Ascends(sorted')
    BY <1>3, <1>4, <2>1, InsertAscends, Zenon DEF Put
  <2>3. \A x \in DOMAIN scores' : scores'[x] \in Nat
    BY <1>2, <1>4, <1>5, Zenon DEF Adds
  <2>4. QED  BY <2>2, <2>3, Zenon
<1>6. CASE Keeps(m, s) \/ Breaks
  BY <1>4, <1>6, Zenon DEF Keeps, Breaks
<1>7. ASSUME NEW i \in Nat, Rescores(m, s, i)
      PROVE  /\ sorted' \in Seq(Numbered) /\ Ascends(sorted')
             /\ \A x \in DOMAIN scores' : scores'[x] \in Nat
  <2>1. i < Len(sorted) /\ sorted' = Put(Delete(sorted, i), e)
    BY <1>7, Zenon DEF Rescores, e
  <2>2. Delete(sorted, i) \in Seq(Numbered) /\ Ascends(Delete(sorted, i))
    BY <1>4, <2>1, DeleteAscends, Zenon
  <2>3. sorted' \in Seq(Numbered) /\ Ascends(sorted')
    BY <1>3, <2>1, <2>2, InsertAscends, Zenon DEF Put
  <2>4. \A x \in DOMAIN scores' : scores'[x] \in Nat
    BY <1>2, <1>4, <1>7, Zenon DEF Rescores
  <2>5. QED  BY <2>3, <2>4, Zenon
<1>8. QED  BY <1>5, <1>6, <1>7, ZAddKinds, Zenon

\* Every step keeps the order.
LEMMA OrderStep == ASSUME TypeInv, OrderInv, [Next]_vars PROVE OrderInv'
<1>1. ASSUME NEW c \in Clients, NEW m \in Members, NEW s \in Scores, ZAdd(c, m, s) PROVE OrderInv'
  BY <1>1, Given, ZAddOrder, Zenon DEF ZAdd
<1>2. ASSUME NEW c \in Clients, NEW m \in Members, NEW p \in Places, GeoAdd(c, m, p) PROVE OrderInv'
  <2>1. float64(encode(p.lat, p.lon)) \in Values
    BY Given, Zenon DEF Values
  <2>2. QED  BY <1>2, <2>1, ZAddOrder, Zenon DEF GeoAdd
<1>3. ASSUME NEW c \in Clients, NEW m \in Members, ZRem(c, m) PROVE OrderInv'
  BY <1>3, Zenon DEF ZRem, OrderInv
<1>4. ASSUME NEW c \in Clients, ZRemForget(c) PROVE OrderInv'
  BY <1>4, Zenon DEF ZRemForget, OrderInv
<1>5. ASSUME NEW c \in Clients, ZRemFatal(c) \/ ReadNil(c) \/ ZRemFind(c) PROVE OrderInv'
  <2>1. odd' = odd /\ sorted' = sorted /\ scores' = scores
    BY <1>5, Zenon DEF ZRemFatal, ReadNil, ZRemFind
  <2>2. QED  BY <2>1, Zenon DEF OrderInv
<1>6. ASSUME NEW c \in Clients, ZRemCut(c) PROVE OrderInv'
  <2>1. odd' = odd /\ scores' = scores /\ index[c] \in Nat
    BY <1>6, Zenon DEF ZRemCut, TypeInv
  <2>2. sorted' = sorted \/ (index[c] < Len(sorted) /\ sorted' = Delete(sorted, index[c]))
    BY <1>6, Zenon DEF ZRemCut
  <2>3. QED  BY <2>1, <2>2, DeleteAscends, Zenon DEF OrderInv
<1>7. CASE UNCHANGED vars
  BY <1>7, Zenon DEF vars, OrderInv
<1>8. QED  BY <1>1, <1>2, <1>3, <1>4, <1>5, <1>6, <1>7, Zenon DEF Next

\* In the initial state the map and the list are empty.
LEMMA InitEmpty ==
    ASSUME Init PROVE sorted = <<>> /\ DOMAIN scores = {} /\ TypeInv /\ OrderInv
<1>1. sorted = <<>> /\ DOMAIN scores = {} /\ scores \in [DOMAIN scores -> Values]
  BY Zenon DEF Init
<1>2. \A S : <<>> \in Seq(S)
  OBVIOUS
<1>3. Ascends(<<>>)
  BY DEF Ascends
<1>4. TypeInv
  BY <1>1, <1>2, KindsAssumption DEF Init, TypeInv
<1>5. QED  BY <1>1, <1>2, <1>3, <1>4, Zenon DEF OrderInv

\* The map, the list, every ZREM's state and every recorded position keep their types.
THEOREM SortedSetTyped == Spec => []TypeInv
<1>1. Init => TypeInv
  BY InitEmpty, Zenon
<1>2. TypeInv /\ [Next]_vars => TypeInv'
  BY TypeStep, Zenon
<1>3. QED  BY <1>1, <1>2, PTL DEF Spec

\* No sequence of commands, overlapping ones included, puts an entry before a
\* smaller one, as long as no score is NaN: for any members, scores, positions and
\* clients.
THEOREM ListInOrder == Spec => []InOrder
<1>1. Init => TypeInv /\ OrderInv
  BY InitEmpty, Zenon
<1>2. TypeInv /\ OrderInv /\ [Next]_vars => TypeInv' /\ OrderInv'
  BY TypeStep, OrderStep, Zenon
<1>3. ASSUME TypeInv, OrderInv PROVE InOrder
  <2>1. DOMAIN sorted = 1 .. Len(sorted)
    BY <1>3 DEF TypeInv
  <2>2. QED  BY <1>3, <2>1, Zenon DEF OrderInv, InOrder, Ascends, NotAfter
<1>4. QED  BY <1>1, <1>2, <1>3, PTL DEF Spec

--------------------------------------------------------------------------------
(* Positions and scores *)

\* Until a crash, a member that a GEOADD placed has the score of its position.
PlaceInv ==
    crashed = "no" => \A m \in DOMAIN scores : place[m] # Nowhere =>
        place[m] \in Places /\ scores[m] = float64(encode(place[m].lat, place[m].lon))

\* ZAdd and GEOADD keep it.
LEMMA ZAddPlace ==
    ASSUME TypeInv, PlaceInv, NEW c, NEW m \in Members, NEW s, NEW p, ZAddAt(c, m, s, p),
           p = Nowhere \/ (p \in Places /\ s = float64(encode(p.lat, p.lon)))
    PROVE  PlaceInv'
<1>1. crashed = "no" /\ place' = [place EXCEPT ![m] = p]
  BY Zenon DEF ZAddAt
<1>2. place'[m] = p /\ \A x \in Members : x # m => place'[x] = place[x]
  BY <1>1, Zenon DEF TypeInv
<1>3. DOMAIN scores \subseteq Members
  BY Zenon DEF TypeInv
<1>4. ASSUME /\ DOMAIN scores' \subseteq DOMAIN scores \cup {m} /\ scores'[m] = s
             /\ \A x \in DOMAIN scores : x # m => scores'[x] = scores[x]
      PROVE  PlaceInv'
  <2>1. ASSUME NEW x \in DOMAIN scores', place'[x] # Nowhere
        PROVE  /\ place'[x] \in Places
               /\ scores'[x] = float64(encode(place'[x].lat, place'[x].lon))
    <3>1. CASE x = m
      BY <1>2, <1>4, <2>1, <3>1, Zenon
    <3>2. CASE x # m
      <4>1. x \in DOMAIN scores /\ place'[x] = place[x] /\ scores'[x] = scores[x]
        BY <1>2, <1>3, <1>4, <2>1, <3>2, Zenon
      <4>2. QED  BY <1>1, <2>1, <4>1, Zenon DEF PlaceInv
    <3>3. QED  BY <3>1, <3>2, Zenon
  <2>2. QED  BY <2>1, Zenon DEF PlaceInv
<1>5. CASE Adds(m, s)
  BY <1>4, <1>5, Zenon DEF Adds
<1>6. CASE Keeps(m, s)
  BY <1>4, <1>6, Zenon DEF Keeps
<1>7. CASE Breaks
  BY <1>7 DEF Breaks, PlaceInv
<1>8. ASSUME NEW i \in Nat, Rescores(m, s, i) PROVE PlaceInv'
  BY <1>4, <1>8, Zenon DEF Rescores, TypeInv
<1>9. QED  BY <1>5, <1>6, <1>7, <1>8, ZAddKinds, Zenon

\* Every step keeps it.
LEMMA PlaceStep == ASSUME TypeInv, PlaceInv, [Next]_vars PROVE PlaceInv'
<1>1. ASSUME NEW c \in Clients, NEW m \in Members, NEW s \in Scores, ZAdd(c, m, s) PROVE PlaceInv'
  BY <1>1, ZAddPlace, Zenon DEF ZAdd
<1>2. ASSUME NEW c \in Clients, NEW m \in Members, NEW p \in Places, GeoAdd(c, m, p) PROVE PlaceInv'
  BY <1>2, ZAddPlace, Zenon DEF GeoAdd
<1>3. ASSUME NEW c \in Clients, (\E m \in Members : ZRem(c, m)) \/ ZRemFind(c) PROVE PlaceInv'
  <2>1. crashed' = crashed /\ scores' = scores /\ place' = place
    BY <1>3, Zenon DEF ZRem, ZRemFind
  <2>2. QED  BY <2>1, Zenon DEF PlaceInv
<1>4. ASSUME NEW c \in Clients, ZRemForget(c) PROVE PlaceInv'
  <2>1. /\ crashed' = crashed /\ arg[c] \in Members
        /\ \A x \in DOMAIN scores' : x \in DOMAIN scores /\ x # arg[c] /\ scores'[x] = scores[x]
        /\ \A x \in Members : x # arg[c] => place'[x] = place[x]
    BY <1>4, Zenon DEF ZRemForget, TypeInv
  <2>2. DOMAIN scores \subseteq Members
    BY Zenon DEF TypeInv
  <2>3. QED  BY <2>1, <2>2, Zenon DEF PlaceInv
<1>5. ASSUME NEW c \in Clients, ZRemFatal(c) \/ ReadNil(c) PROVE PlaceInv'
  <2>1. crashed' = "yes"
    BY <1>5, Zenon DEF ZRemFatal, ReadNil
  <2>2. QED  BY <2>1 DEF PlaceInv
<1>6. ASSUME NEW c \in Clients, ZRemCut(c) PROVE PlaceInv'
  <2>1. scores' = scores /\ place' = place /\ crashed = "no"
    BY <1>6, Zenon DEF ZRemCut
  <2>2. QED  BY <2>1, Zenon DEF PlaceInv
<1>7. CASE UNCHANGED vars
  BY <1>7, Zenon DEF vars, PlaceInv
<1>8. QED  BY <1>1, <1>2, <1>3, <1>4, <1>5, <1>6, <1>7, Zenon DEF Next

\* GEOPOS returns the cell of the last GEOADD, whatever else was stored, rescored
\* or removed, on every grid of up to 31 digits: but for the largest longitude,
\* where an odd latitude is rounded down.
THEOREM PositionsReturn == Spec => []GeoInverts
<1>1. Init => TypeInv /\ PlaceInv
  BY InitEmpty, Zenon DEF PlaceInv
<1>2. TypeInv /\ PlaceInv /\ [Next]_vars => TypeInv' /\ PlaceInv'
  BY TypeStep, PlaceStep, Zenon
<1>3. ASSUME PlaceInv, crashed = "no", NEW m \in DOMAIN scores, place[m] # Nowhere
      PROVE  GeoPos(m) = IF place[m].lon < Grid THEN place[m]
                         ELSE [place[m] EXCEPT !.lat = place[m].lat - (place[m].lat % 2)]
  <2> DEFINE p == place[m]
  <2>1. p \in Places /\ scores[m] = float64(encode(p.lat, p.lon))
    BY <1>3, Zenon DEF PlaceInv
  <2>2. p.lat \in 0 .. Grid /\ p.lon \in 0 .. Grid /\ p = [lat |-> p.lat, lon |-> p.lon]
    BY <2>1, Given, Zenon
  <2>3. GeoPos(m) = decode(float64(encode(p.lat, p.lon)))
    BY <2>1, Zenon DEF GeoPos
  <2> HIDE DEF p
  <2>4. CASE p.lon < Grid
    BY <2>2, <2>3, <2>4, InsideReturns, Zenon DEF p
  <2>5. CASE ~ (p.lon < Grid)
    <3>1. Grid \in Nat
      BY Sizes, Powers DEF Grid
    <3>2. p.lon = Grid
      BY <2>2, <2>5, <3>1
    <3>3. GeoPos(m) = [lat |-> p.lat - (p.lat % 2), lon |-> Grid]
      BY <2>2, <2>3, <3>2, EdgeReturns, Zenon
    <3>4. [p EXCEPT !.lat = p.lat - (p.lat % 2)] = [lat |-> p.lat - (p.lat % 2), lon |-> p.lon]
      BY <2>2
    <3>5. QED  BY <2>5, <3>2, <3>3, <3>4, Zenon DEF p
  <2>6. QED  BY <2>4, <2>5, Zenon
<1>4. PlaceInv => GeoInverts
  BY <1>3, Zenon DEF GeoInverts
<1>5. QED  BY <1>1, <1>2, <1>4, PTL DEF Spec

--------------------------------------------------------------------------------
(* One entry per member *)

\* The list has exactly one entry for each name of N.
Lists(q, N) ==
    /\ \A i, j \in 1 .. Len(q) : q[i].name = q[j].name => i = j
    /\ N = {q[i].name : i \in 1 .. Len(q)}

\* Every entry of w is one of q or in E.
Within(w, q, E) == \A j \in 1 .. Len(w) : w[j] \in E \/ \E i \in 1 .. Len(q) : w[j] = q[i]

\* The place before one that is past a gap.
LEMMA Past ==
    ASSUME NEW n \in Nat, NEW p \in Nat, NEW i \in 1 .. n, i # p + 1, ~ (i <= p)
    PROVE  i - 1 \in 1 .. n - 1 /\ ~ (i - 1 <= p) /\ (i - 1) + 1 = i
<1>1. p + 1 < i
  OBVIOUS
<1>2. i - 1 \in 1 .. n - 1
  BY <1>1
<1>3. ~ (i - 1 <= p) /\ (i - 1) + 1 = i
  BY <1>1
<1>4. QED  BY <1>2, <1>3, Zenon

\* An insertion of a new name lists one name more.
LEMMA InsertLists ==
    ASSUME NEW S, NEW q \in Seq(S), NEW N, Lists(q, N), NEW e \in S, e.name \notin N
    PROVE  Lists(Put(q, e), N \cup {e.name}) /\ Within(Put(q, e), q, {e})
<1> DEFINE n == Len(q)
           w == Put(q, e)
<1>1. n \in Nat
  OBVIOUS
<1>2. PICK p \in 0 .. n : Len(w) = n + 1 /\ Inserted(q, p, e, w)
  BY PutShape, Zenon
<1> HIDE DEF w
<1>3. \A j \in 1 .. n + 1 : w[j] = IF j <= p THEN q[j] ELSE IF j = p + 1 THEN e ELSE q[j - 1]
  BY <1>2, Zenon DEF Inserted
<1>4. /\ \A i, j \in 1 .. n : q[i].name = q[j].name => i = j
      /\ \A x : x \in N <=> \E i \in 1 .. n : x = q[i].name
  BY Zenon DEF Lists
<1> HIDE DEF n
\* Where an entry of w was in q.
<1> DEFINE at(j) == IF j <= p THEN j ELSE j - 1
<1>5. ASSUME NEW j \in 1 .. n + 1, j # p + 1 PROVE at(j) \in 1 .. n /\ w[j] = q[at(j)]
  <2>1. at(j) \in 1 .. n
    BY <1>1, <1>5
  <2>2. w[j] = q[at(j)]
    BY <1>3, <1>5, Zenon
  <2>3. QED  BY <2>1, <2>2, Zenon
<1>6. /\ p + 1 \in 1 .. n + 1 /\ w[p + 1] = e
  <2>1. p + 1 \in 1 .. n + 1 /\ ~ (p + 1 <= p)
    BY <1>1
  <2>2. QED  BY <1>3, <2>1, Zenon
<1>7. ASSUME NEW i \in 1 .. n PROVE \E j \in 1 .. n + 1 : w[j] = q[i]
  <2>1. CASE i <= p
    <3>1. i \in 1 .. n + 1
      BY <1>1
    <3>2. QED  BY <1>3, <2>1, <3>1, Zenon
  <2>2. CASE ~ (i <= p)
    <3>1. i + 1 \in 1 .. n + 1 /\ ~ (i + 1 <= p) /\ i + 1 # p + 1 /\ (i + 1) - 1 = i
      <4>1. i \in 1 .. n /\ p \in Int /\ n \in Int
        BY <1>1
      <4>2. QED  BY <2>2, <4>1
    <3>2. w[i + 1] = q[i]
      <4>1. w[i + 1] = q[(i + 1) - 1]
        BY <1>3, <3>1, Zenon
      <4>2. QED  BY <3>1, <4>1, Zenon
    <3>3. QED  BY <3>1, <3>2, Zenon
  <2>3. QED  BY <2>1, <2>2, Zenon
<1>8. ASSUME NEW i \in 1 .. n + 1, NEW j \in 1 .. n + 1, at(i) = at(j), i # p + 1, j # p + 1 PROVE i = j
  BY <1>8
<1> HIDE DEF at
<1>9. ASSUME NEW i \in 1 .. n + 1, NEW j \in 1 .. n + 1, w[i].name = w[j].name PROVE i = j
  <2>1. CASE i = p + 1 \/ j = p + 1
    BY <1>4, <1>5, <1>6, <1>9, <2>1, Zenon
  <2>2. CASE i # p + 1 /\ j # p + 1
    <3>1. at(i) \in 1 .. n /\ at(j) \in 1 .. n /\ w[i] = q[at(i)] /\ w[j] = q[at(j)]
      BY <1>5, <2>2, Zenon
    <3>2. at(i) = at(j)
      BY <1>4, <1>9, <3>1, Zenon
    <3>3. QED  BY <1>8, <2>2, <3>2, Zenon
  <2>3. QED  BY <2>1, <2>2, Zenon
<1>10. \A j \in 1 .. n + 1 : w[j] = e \/ \E i \in 1 .. n : w[j] = q[i]
  BY <1>5, <1>6, Zenon
<1>11. ASSUME NEW x PROVE x \in N \cup {e.name} <=> x \in {w[j].name : j \in 1 .. n + 1}
  <2>1. ASSUME x \in N \cup {e.name} PROVE \E j \in 1 .. n + 1 : x = w[j].name
    <3>1. CASE x = e.name
      BY <1>6, <3>1, Zenon
    <3>2. ASSUME NEW i \in 1 .. n, x = q[i].name PROVE \E j \in 1 .. n + 1 : x = w[j].name
      <4>1. PICK j \in 1 .. n + 1 : w[j] = q[i]
        BY <1>7, Zenon
      <4>2. QED  BY <3>2, <4>1, Zenon
    <3>3. QED  BY <1>4, <2>1, <3>1, <3>2, Zenon
  <2>2. ASSUME NEW j \in 1 .. n + 1, x = w[j].name PROVE x \in N \cup {e.name}
    BY <1>4, <1>10, <2>2, Zenon
  <2>3. QED  BY <2>1, <2>2, Zenon
<1>12. N \cup {e.name} = {w[j].name : j \in 1 .. n + 1}
  BY <1>11, Zenon
<1>13. Lists(w, N \cup {e.name})
  BY <1>2, <1>9, <1>12, Zenon DEF Lists
<1>14. Within(w, q, {e})
  BY <1>2, <1>10, Zenon DEF Within, n
<1>15. QED  BY <1>13, <1>14, Zenon DEF w

\* A deletion lists one name less.
LEMMA DeleteLists ==
    ASSUME NEW S, NEW q \in Seq(S), NEW N, Lists(q, N), NEW p \in Nat, p < Len(q)
    PROVE  Lists(Delete(q, p), N \ {q[p + 1].name}) /\ Within(Delete(q, p), q, {})
<1> DEFINE n == Len(q)
           w == Delete(q, p)
<1>1. n \in Nat
  OBVIOUS
<1>2. Len(w) = n - 1 /\ Deleted(q, p, w)
  BY DeleteShape, Zenon
<1> HIDE DEF w
<1>3. \A j \in 1 .. n - 1 : w[j] = IF j <= p THEN q[j] ELSE q[j + 1]
  BY <1>2, Zenon DEF Deleted
<1>4. /\ \A i, j \in 1 .. n : q[i].name = q[j].name => i = j
      /\ \A x : x \in N <=> \E i \in 1 .. n : x = q[i].name
  BY Zenon DEF Lists
<1>5. p < n
  BY Zenon
<1> HIDE DEF n
<1> DEFINE at(j) == IF j <= p THEN j ELSE j + 1
<1>6. ASSUME NEW j \in 1 .. n - 1 PROVE at(j) \in 1 .. n /\ at(j) # p + 1 /\ w[j] = q[at(j)]
  <2>1. at(j) \in 1 .. n /\ at(j) # p + 1
    BY <1>1, <1>6
  <2>2. w[j] = q[at(j)]
    BY <1>3, <1>6, Zenon
  <2>3. QED  BY <2>1, <2>2, Zenon
<1>7. ASSUME NEW i \in 1 .. n, i # p + 1 PROVE \E j \in 1 .. n - 1 : w[j] = q[i]
  <2>1. CASE i <= p
    <3>1. i \in 1 .. n - 1
      BY <1>1, <1>5, <2>1
    <3>2. QED  BY <1>3, <2>1, <3>1, Zenon
  <2>2. CASE ~ (i <= p)
    <3>1. i - 1 \in 1 .. n - 1 /\ ~ (i - 1 <= p) /\ (i - 1) + 1 = i
      BY <1>1, <1>7, <2>2, Past, Zenon
    <3>2. w[i - 1] = q[i]
      BY <1>3, <3>1, Zenon
    <3>3. QED  BY <3>1, <3>2, Zenon
  <2>3. QED  BY <2>1, <2>2, Zenon
<1>8. ASSUME NEW i \in 1 .. n - 1, NEW j \in 1 .. n - 1, at(i) = at(j) PROVE i = j
  BY <1>8
<1>9. p + 1 \in 1 .. n
  BY <1>1, <1>5
<1> HIDE DEF at
<1>10. ASSUME NEW i \in 1 .. n - 1, NEW j \in 1 .. n - 1, w[i].name = w[j].name PROVE i = j
  <2>1. at(i) \in 1 .. n /\ at(j) \in 1 .. n /\ w[i] = q[at(i)] /\ w[j] = q[at(j)]
    BY <1>6, Zenon
  <2>2. at(i) = at(j)
    BY <1>4, <1>10, <2>1, Zenon
  <2>3. QED  BY <1>8, <2>2, Zenon
<1>11. ASSUME NEW x PROVE x \in N \ {q[p + 1].name} <=> x \in {w[j].name : j \in 1 .. n - 1}
  <2>1. ASSUME x \in N \ {q[p + 1].name} PROVE \E j \in 1 .. n - 1 : x = w[j].name
    <3>1. PICK i \in 1 .. n : x = q[i].name
      BY <1>4, <2>1, Zenon
    <3>2. i # p + 1
      BY <2>1, <3>1, Zenon
    <3>3. PICK j \in 1 .. n - 1 : w[j] = q[i]
      BY <1>7, <3>2, Zenon
    <3>4. QED  BY <3>1, <3>3, Zenon
  <2>2. ASSUME NEW j \in 1 .. n - 1, x = w[j].name PROVE x \in N \ {q[p + 1].name}
    BY <1>4, <1>6, <1>9, <2>2, Zenon
  <2>3. QED  BY <2>1, <2>2, Zenon
<1>12. N \ {q[p + 1].name} = {w[j].name : j \in 1 .. n - 1}
  BY <1>11, Zenon
<1>13. Lists(w, N \ {q[p + 1].name})
  BY <1>2, <1>10, <1>12, Zenon DEF Lists
<1>14. Within(w, q, {})
  BY <1>2, <1>6, Zenon DEF Within, n
<1>15. QED  BY <1>13, <1>14, Zenon DEF w

\* In a list in order, the order of entries is the order of their positions.
LEMMA OrderOfPositions ==
    ASSUME NEW q \in Seq(Numbered), Ascends(q), NEW N, Lists(q, N),
           NEW i \in 1 .. Len(q), NEW k \in 1 .. Len(q)
    PROVE  compare(q[i], q[k]) <=> i < k
<1>1. \A j \in 1 .. Len(q) : q[j] \in Numbered
  OBVIOUS
<1>2. i < k \/ i = k \/ k < i
  OBVIOUS
<1>3. ~ (i < i) /\ (k < i => ~ (i < k)) /\ (i < k => i # k)
  OBVIOUS
<1>4. NotAfter(q[i], q[i])
  BY <1>1, EntryOrder, Zenon
<1>5. CASE i = k
  BY <1>1, <1>3, <1>4, <1>5, EntryOrder, Zenon
<1>6. CASE k < i
  <2>1. NotAfter(q[k], q[i])
    BY <1>6, Zenon DEF Ascends
  <2>2. QED  BY <1>1, <1>3, <1>6, <2>1, EntryOrder, Zenon
<1>7. CASE i < k
  <2>1. NotAfter(q[i], q[k])
    BY <1>7, Zenon DEF Ascends
  <2>2. q[i].name # q[k].name
    BY <1>3, <1>7, Zenon DEF Lists
  <2>3. QED  BY <1>1, <1>7, <2>1, <2>2, EntryOrder, Zenon
<1>8. QED  BY <1>2, <1>5, <1>6, <1>7, Zenon

\* In such a list, a search for an entry ends right before it.
LEMMA SearchFinds ==
    ASSUME NEW q \in Seq(Numbered), Ascends(q), NEW N, Lists(q, N), NEW k \in 1 .. Len(q)
    PROVE  Search(q, q[k]) = k - 1
<1> DEFINE p == Search(q, q[k])
<1>1. Len(q) \in Nat
  OBVIOUS
<1>2. p \in 0 .. Len(q) /\ (p > 0 => compare(q[p], q[k])) /\ (p < Len(q) => ~compare(q[p + 1], q[k]))
  BY <1>1, SearchSplits, Zenon DEF Splits
<1> HIDE DEF p
<1>3. /\ p > 0 => p \in 1 .. Len(q)
      /\ p < Len(q) => p + 1 \in 1 .. Len(q)
  BY <1>1, <1>2
<1>4. (p > 0 => p < k) /\ (p < Len(q) => ~ (p + 1 < k))
  BY <1>2, <1>3, OrderOfPositions, Zenon
<1>5. p = k - 1
  BY <1>1, <1>2, <1>4
<1>6. QED  BY <1>5, Zenon DEF p

\* The first entries of a list have as many names.
LEMMA CountNames ==
    ASSUME NEW q, Len(q) \in Nat, NEW N, Lists(q, N), NEW k \in 0 .. Len(q)
    PROVE  /\ IsFiniteSet({q[i].name : i \in 1 .. k})
           /\ Cardinality({q[i].name : i \in 1 .. k}) = k
<1> DEFINE T == {q[i].name : i \in 1 .. k}
           f == [i \in 1 .. k |-> q[i].name]
<1>1. \A i \in 1 .. k : i \in 1 .. Len(q)
  OBVIOUS
<1>2. \A i, j \in 1 .. k : q[i].name = q[j].name => i = j
  BY <1>1, Zenon DEF Lists
<1>3. f \in [1 .. k -> T]
  BY Zenon
<1>4. \A i, j \in 1 .. k : f[i] = f[j] => i = j
  BY <1>2, Zenon
<1>5. \A t \in T : \E i \in 1 .. k : f[i] = t
  BY Zenon
<1>6. f \in Bijection(1 .. k, T)
  <2>1. DOMAIN f = 1 .. k
    BY Zenon
  <2> HIDE DEF f, T
  <2>2. QED
    BY <1>3, <1>4, <1>5, <2>1, Zenon DEF Bijection, Injection, Surjection, IsInjective
<1>7. IsFiniteSet(1 .. k) /\ Cardinality(1 .. k) = k
  BY FS_Interval
<1>8. ExistsBijection(1 .. k, T)
  BY <1>6, Zenon DEF ExistsBijection
<1> HIDE DEF T
<1>9. IsFiniteSet(T) /\ Cardinality(T) = Cardinality(1 .. k)
  BY <1>7, <1>8, FS_Bijection, Zenon
<1>10. QED  BY <1>7, <1>9, Zenon DEF T

\* The members that a ZREM has taken out of the map and not yet out of the list.
Leaving == {arg[c] : c \in {d \in Clients : pc[d] \in {"find", "cut"}}}

\* Until a crash, an overlap or a NaN: at most one ZREM is under way; the list has one
\* entry for each member of the map, with its score, and one for the member that is
\* leaving; and a ZREM that is about to cut has found it.
MirrorInv ==
    crashed = "no" /\ odd = {} =>
        /\ \A c, d \in Clients : pc[c] # "idle" /\ pc[d] # "idle" => c = d
        /\ \A c \in Clients : pc[c] = "forget" => arg[c] \in DOMAIN scores
        /\ DOMAIN scores \cap Leaving = {}
        /\ \A c \in Clients : pc[c] = "cut" =>
               index[c] < Len(sorted) /\ sorted[index[c] + 1].name = arg[c]
        /\ Lists(sorted, DOMAIN scores \cup Leaving)
        /\ \A i \in 1 .. Len(sorted) :
               sorted[i].name \in DOMAIN scores => sorted[i].score = scores[sorted[i].name]

\* With no ZREM under way it says that the list is that of the map.
Mirrors(q, f) ==
    /\ Lists(q, DOMAIN f)
    /\ \A i \in 1 .. Len(q) : q[i].score = f[q[i].name]

\* When every client is idle nothing is leaving, and the invariant is that.
LEMMA IdleMirrors ==
    ASSUME \A c \in Clients : pc[c] = "idle"
    PROVE  /\ Leaving = {}
           /\ MirrorInv /\ crashed = "no" /\ odd = {} => Mirrors(sorted, scores)
           /\ Mirrors(sorted, scores) => MirrorInv
<1>1. \A c \in Clients : pc[c] # "forget" /\ pc[c] # "find" /\ pc[c] # "cut"
  OBVIOUS
<1>2. Leaving = {}
  BY <1>1, Zenon DEF Leaving
<1>3. DOMAIN scores \cup Leaving = DOMAIN scores /\ DOMAIN scores \cap Leaving = {}
  BY <1>2, Zenon
<1>4. ASSUME MirrorInv, crashed = "no", odd = {} PROVE Mirrors(sorted, scores)
  <2>1. /\ Lists(sorted, DOMAIN scores)
        /\ \A i \in 1 .. Len(sorted) :
             sorted[i].name \in DOMAIN scores => sorted[i].score = scores[sorted[i].name]
    BY <1>3, <1>4, Zenon DEF MirrorInv
  <2>2. \A i \in 1 .. Len(sorted) : sorted[i].name \in DOMAIN scores
    BY <2>1, Zenon DEF Lists
  <2>3. QED  BY <2>1, <2>2, Zenon DEF Mirrors
<1>5. Mirrors(sorted, scores) => MirrorInv
  BY <1>1, <1>3, Zenon DEF MirrorInv, Mirrors
<1>6. QED  BY <1>2, <1>4, <1>5, Zenon

\* The map with a new member.
Extended(f, m, s) == [x \in DOMAIN f \cup {m} |-> IF x = m THEN s ELSE f[x]]

\* A new member is entered into both.
LEMMA AddMirrors ==
    ASSUME NEW q \in Seq(Entry), NEW f, Mirrors(q, f), NEW m, m \notin DOMAIN f, NEW s,
           NEW e \in Entry, e = [name |-> m, score |-> s]
    PROVE  Mirrors(Put(q, e), Extended(f, m, s))
<1> DEFINE w == Put(q, e)
           g == Extended(f, m, s)
<1>1. e.name = m /\ e.score = s
  BY Zenon
<1>2. Lists(q, DOMAIN f) /\ \A i \in 1 .. Len(q) : q[i].score = f[q[i].name] /\ q[i].name \in DOMAIN f
  BY Zenon DEF Mirrors, Lists
<1>3. /\ Lists(w, DOMAIN f \cup {m})
      /\ \A j \in 1 .. Len(w) : w[j] = e \/ \E i \in 1 .. Len(q) : w[j] = q[i]
  <2>1. e.name \notin DOMAIN f
    BY <1>1, Zenon
  <2>2. Lists(w, DOMAIN f \cup {e.name}) /\ Within(w, q, {e})
    BY <1>2, <2>1, InsertLists, Zenon
  <2>3. QED  BY <1>1, <2>2, Zenon DEF Within
<1> HIDE DEF w
<1>4. DOMAIN g = DOMAIN f \cup {m} /\ g[m] = s /\ \A x \in DOMAIN f : x # m /\ g[x] = f[x]
  BY Zenon DEF Extended
<1> HIDE DEF g
<1>5. ASSUME NEW j \in 1 .. Len(w) PROVE w[j].score = g[w[j].name]
  <2>1. CASE w[j] = e
    BY <1>1, <1>4, <2>1, Zenon
  <2>2. ASSUME NEW i \in 1 .. Len(q), w[j] = q[i] PROVE w[j].score = g[w[j].name]
    <3>1. w[j].name \in DOMAIN f /\ w[j].score = f[w[j].name]
      BY <1>2, <2>2, Zenon
    <3>2. QED  BY <1>4, <3>1, Zenon
  <2>3. QED  BY <1>3, <2>1, <2>2, Zenon
<1>6. QED  BY <1>3, <1>4, <1>5, Zenon DEF Mirrors, w, g

\* A rescoring deletes the entry of its member, no other, and enters the new one.
LEMMA RescoreMirrors ==
    ASSUME NEW q \in Seq(Numbered), Ascends(q), NEW f, Mirrors(q, f), NEW m \in DOMAIN f, NEW s,
           NEW e \in Numbered, e = [name |-> m, score |-> s], NEW g,
           g = [f EXCEPT ![m] = s], DOMAIN g = DOMAIN f,
           NEW i \in Nat, i = Search(q, [name |-> m, score |-> f[m]])
    PROVE  Mirrors(Put(Delete(q, i), e), g)
<1>1. /\ e.name = m /\ e.score = s
      /\ Lists(q, DOMAIN f) /\ \A k \in 1 .. Len(q) : q[k].score = f[q[k].name] /\ q[k].name \in DOMAIN f
  BY Zenon DEF Mirrors, Lists
<1>2. PICK k \in 1 .. Len(q) : q[k].name = m
  BY <1>1, Zenon DEF Lists
<1>3. q[k] \in Numbered
  OBVIOUS
<1>4. q[k] = [name |-> m, score |-> f[m]]
  BY <1>1, <1>2, <1>3, Zenon DEF Numbered
<1>5. i = k - 1
  BY <1>1, <1>4, SearchFinds, Zenon
<1>6. i + 1 = k /\ i < Len(q)
  BY <1>5
<1> DEFINE d == Delete(q, i)
           w == Put(d, e)
<1>7. d \in Seq(Numbered) /\ Lists(d, DOMAIN f \ {m}) /\ Within(d, q, {})
  <2>1. d \in Seq(Numbered)
    BY <1>6, DeleteShape, Zenon
  <2>2. Lists(d, DOMAIN f \ {q[i + 1].name}) /\ Within(d, q, {})
    BY <1>1, <1>6, DeleteLists, Zenon
  <2>3. QED  BY <1>2, <1>6, <2>1, <2>2, Zenon
<1>8. \A j \in 1 .. Len(d) : d[j].name \in DOMAIN f /\ d[j].name # m /\ d[j].score = f[d[j].name]
  <2> HIDE DEF d
  <2>1. \A j \in 1 .. Len(d) : d[j].name \in DOMAIN f \ {m}
    BY <1>7, Zenon DEF Lists
  <2>2. \A j \in 1 .. Len(d) : \E h \in 1 .. Len(q) : d[j] = q[h]
    BY <1>7, Zenon DEF Within
  <2>3. \A j \in 1 .. Len(d) : d[j].score = f[d[j].name]
    BY <1>1, <2>2, Zenon
  <2>4. QED  BY <2>1, <2>3, Zenon
<1>9. /\ Lists(w, (DOMAIN f \ {m}) \cup {m})
      /\ \A j \in 1 .. Len(w) : w[j] = e \/ \E h \in 1 .. Len(d) : w[j] = d[h]
  <2> HIDE DEF d
  <2>1. e.name \notin DOMAIN f \ {m}
    BY <1>1, Zenon
  <2>2. Lists(w, (DOMAIN f \ {m}) \cup {e.name}) /\ Within(w, d, {e})
    BY <1>7, <2>1, InsertLists, Zenon
  <2>3. QED  BY <1>1, <2>2, Zenon DEF Within
<1> HIDE DEF w, d
<1>10. g[m] = s /\ \A x \in DOMAIN f : x # m => g[x] = f[x]
  BY Zenon
<1>11. (DOMAIN f \ {m}) \cup {m} = DOMAIN f
  BY Zenon
<1>12. ASSUME NEW j \in 1 .. Len(w) PROVE w[j].score = g[w[j].name]
  <2>1. CASE w[j] = e
    BY <1>1, <1>10, <2>1, Zenon
  <2>2. ASSUME NEW h \in 1 .. Len(d), w[j] = d[h] PROVE w[j].score = g[w[j].name]
    <3>1. w[j].name \in DOMAIN f /\ w[j].name # m /\ w[j].score = f[w[j].name]
      BY <1>8, <2>2, Zenon
    <3>2. QED  BY <1>10, <3>1, Zenon
  <2>3. QED  BY <1>9, <2>1, <2>2, Zenon
<1>13. QED  BY <1>9, <1>11, <1>12, Zenon DEF Mirrors, w, d

\* ZAdd keeps it.
LEMMA ZAddMirror ==
    ASSUME TypeInv, OrderInv, MirrorInv, NEW c \in Clients, NEW m \in Members, NEW s \in Values,
           NEW p, ZAddAt(c, m, s, p)
    PROVE  MirrorInv'
<1> SUFFICES ASSUME crashed' = "no", odd' = {} PROVE MirrorInv'
  BY Zenon DEF MirrorInv
<1>1. /\ crashed = "no" /\ odd = {} /\ s # NaN /\ pc' = pc
      /\ \A d \in Clients : pc[d] = "idle"
  BY Zenon DEF ZAddAt, Overlap
<1>2. \A d \in Clients : pc'[d] = "idle"
  BY <1>1, Zenon
<1>3. Mirrors(sorted, scores)
  BY <1>1, IdleMirrors, Zenon
<1>4. SUFFICES Mirrors(sorted', scores')
  <2>1. Leaving' = {}
    BY <1>2, Zenon DEF Leaving
  <2>2. DOMAIN scores' \cup Leaving' = DOMAIN scores' /\ DOMAIN scores' \cap Leaving' = {}
    BY <2>1, Zenon
  <2>3. \A d \in Clients : pc'[d] # "forget" /\ pc'[d] # "find" /\ pc'[d] # "cut"
    BY <1>2
  <2>4. ASSUME Mirrors(sorted', scores') PROVE MirrorInv'
    BY <1>2, <2>2, <2>3, <2>4, Zenon DEF MirrorInv, Mirrors
  <2>5. QED  BY <2>4, Zenon
<1> DEFINE e == [name |-> m, score |-> s]
<1>5. s \in Nat /\ e \in Numbered /\ e \in Entry
  BY <1>1, Zenon DEF Values, Numbered, Entry
<1>6. sorted \in Seq(Entry) /\ scores \in [DOMAIN scores -> Values]
  BY Zenon DEF TypeInv
<1>7. sorted \in Seq(Numbered) /\ Ascends(sorted)
  BY <1>1, Zenon DEF OrderInv
<1>8. CASE Adds(m, s)
  <2>1. /\ m \notin DOMAIN scores /\ sorted' = Put(sorted, e)
        /\ scores' = Extended(scores, m, s)
    BY <1>8, Zenon DEF Adds, Extended
  <2>2. Mirrors(Put(sorted, e), Extended(scores, m, s))
    BY <1>3, <1>5, <1>6, <2>1, AddMirrors, Zenon
  <2>3. QED  BY <2>1, <2>2, Zenon
<1>9. CASE Keeps(m, s)
  BY <1>3, <1>9, Zenon DEF Keeps
<1>10. CASE Breaks
  BY <1>10 DEF Breaks
<1>11. ASSUME NEW i \in Nat, Rescores(m, s, i) PROVE Mirrors(sorted', scores')
  <2>1. /\ m \in DOMAIN scores /\ i = Search(sorted, [name |-> m, score |-> scores[m]])
        /\ scores' = [scores EXCEPT ![m] = s] /\ sorted' = Put(Delete(sorted, i), e)
    BY <1>11, Zenon DEF Rescores
  <2>2. DOMAIN scores' = DOMAIN scores
    BY <1>6, <2>1, Zenon
  <2>3. QED  BY <1>3, <1>5, <1>7, <2>1, <2>2, RescoreMirrors, Zenon
<1>12. QED  BY <1>8, <1>9, <1>10, <1>11, ZAddKinds, Zenon

\* ZREM keeps it, while no other command runs.
LEMMA ZRemMirror ==
    ASSUME TypeInv, MirrorInv, NEW c \in Clients,
           \/ \E m \in Members : ZRem(c, m)
           \/ ZRemForget(c) \/ ZRemFind(c) \/ ZRemCut(c)
    PROVE  MirrorInv'
<1> SUFFICES ASSUME crashed' = "no", odd' = {} PROVE MirrorInv'
  BY Zenon DEF MirrorInv
<1>1. crashed = "no" /\ odd = {} /\ pc' = [pc EXCEPT ![c] = pc'[c]]
  BY Zenon DEF ZRem, ZRemForget, ZRemFind, ZRemCut, TypeInv
<1>2. \A d \in Clients : d # c => pc'[d] = pc[d]
  BY <1>1, Zenon DEF TypeInv
<1>3. \A d \in Clients : d # c => pc[d] = "idle"
  <2>1. ASSUME pc[c] # "idle", NEW d \in Clients, d # c PROVE pc[d] = "idle"
    BY <1>1, <2>1, Zenon DEF MirrorInv
  <2>2. ASSUME NEW m \in Members, ZRem(c, m), NEW d \in Clients, d # c PROVE pc[d] = "idle"
    BY <2>2, Zenon DEF ZRem, Overlap
  <2>3. ZRemForget(c) \/ ZRemFind(c) \/ ZRemCut(c) => pc[c] # "idle"
    BY DEF ZRemForget, ZRemFind, ZRemCut
  <2>4. QED  BY <2>1, <2>2, <2>3, Zenon
<1>4. /\ DOMAIN scores \cap Leaving = {}
      /\ Lists(sorted, DOMAIN scores \cup Leaving)
      /\ \A i \in 1 .. Len(sorted) :
           sorted[i].name \in DOMAIN scores => sorted[i].score = scores[sorted[i].name]
      /\ pc[c] = "forget" => arg[c] \in DOMAIN scores
      /\ pc[c] = "cut" => index[c] < Len(sorted) /\ sorted[index[c] + 1].name = arg[c]
  BY <1>1, Zenon DEF MirrorInv
\* With the other clients idle, only this one's state matters.
<1>5. /\ pc[c] \in {"find", "cut"} => Leaving = {arg[c]}
      /\ pc[c] \notin {"find", "cut"} => Leaving = {}
      /\ pc'[c] \in {"find", "cut"} => Leaving' = {arg'[c]}
      /\ pc'[c] \notin {"find", "cut"} => Leaving' = {}
  <2>1. \A d \in Clients : d # c => pc[d] \notin {"find", "cut"} /\ pc'[d] \notin {"find", "cut"}
    <3>1. "idle" \notin {"find", "cut"}
      OBVIOUS
    <3>2. QED  BY <1>2, <1>3, <3>1, Zenon
  <2>2. QED  BY <2>1, Zenon DEF Leaving
<1>6. ASSUME /\ DOMAIN scores' \cap Leaving' = {}
             /\ Lists(sorted', DOMAIN scores' \cup Leaving')
             /\ \A i \in 1 .. Len(sorted') :
                  sorted'[i].name \in DOMAIN scores' => sorted'[i].score = scores'[sorted'[i].name]
             /\ pc'[c] = "forget" => arg'[c] \in DOMAIN scores'
             /\ pc'[c] = "cut" => index'[c] < Len(sorted') /\ sorted'[index'[c] + 1].name = arg'[c]
      PROVE  MirrorInv'
  <2>1. \A d \in Clients : d # c => pc'[d] # "forget" /\ pc'[d] # "cut" /\ pc'[d] = "idle"
    <3>1. "idle" # "forget" /\ "idle" # "cut"
      OBVIOUS
    <3>2. QED  BY <1>2, <1>3, <3>1, Zenon
  <2>2. \A b, d \in Clients : pc'[b] # "idle" /\ pc'[d] # "idle" => b = d
    BY <2>1, Zenon
  <2>3. \A d \in Clients : pc'[d] = "forget" => arg'[d] \in DOMAIN scores'
    BY <1>6, <2>1, Zenon
  <2>4. \A d \in Clients : pc'[d] = "cut" =>
          index'[d] < Len(sorted') /\ sorted'[index'[d] + 1].name = arg'[d]
    BY <1>6, <2>1, Zenon
  <2>5. QED  BY <1>6, <2>2, <2>3, <2>4, Zenon DEF MirrorInv
<1>7. ASSUME NEW m \in Members, ZRem(c, m) PROVE MirrorInv'
  <2>1. /\ pc[c] = "idle" /\ pc'[c] = "forget" /\ arg'[c] = m /\ m \in DOMAIN scores
        /\ scores' = scores /\ sorted' = sorted
    BY <1>7, Zenon DEF ZRem, TypeInv
  <2>2. pc[c] \notin {"find", "cut"} /\ pc'[c] \notin {"find", "cut"} /\ pc'[c] # "cut"
    BY <2>1
  <2>3. Leaving' = Leaving
    BY <1>5, <2>2, Zenon
  <2>4. QED  BY <1>4, <1>6, <2>1, <2>2, <2>3, Zenon
<1>8. CASE ZRemForget(c)
  <2>1. /\ pc[c] = "forget" /\ pc'[c] = "find" /\ arg' = arg /\ sorted' = sorted
        /\ DOMAIN scores' = DOMAIN scores \ {arg[c]}
        /\ \A x \in DOMAIN scores' : scores'[x] = scores[x]
    BY <1>8, Zenon DEF ZRemForget, TypeInv
  <2>2. /\ pc[c] \notin {"find", "cut"} /\ pc'[c] \in {"find", "cut"}
        /\ pc'[c] # "forget" /\ pc'[c] # "cut"
    BY <2>1
  <2>3. Leaving = {} /\ Leaving' = {arg[c]} /\ arg[c] \in DOMAIN scores
    BY <1>4, <1>5, <2>1, <2>2, Zenon
  <2>4. DOMAIN scores' \cup Leaving' = DOMAIN scores \cup Leaving /\ DOMAIN scores' \cap Leaving' = {}
    BY <2>1, <2>3, Zenon
  <2>5. \A i \in 1 .. Len(sorted) :
          sorted[i].name \in DOMAIN scores' => sorted[i].score = scores'[sorted[i].name]
    BY <1>4, <2>1, Zenon
  <2>6. QED  BY <1>4, <1>6, <2>1, <2>2, <2>4, <2>5, Zenon
<1>9. CASE ZRemFind(c)
  <2>1. /\ pc[c] = "find" /\ pc'[c] = "cut" /\ arg' = arg /\ sorted' = sorted /\ scores' = scores
        /\ index'[c] = Found(sorted, arg[c])
    BY <1>9, Zenon DEF ZRemFind, Found, TypeInv
  <2>2. pc[c] \in {"find", "cut"} /\ pc'[c] \in {"find", "cut"} /\ pc'[c] # "forget"
    BY <2>1
  <2>3. Leaving = {arg[c]} /\ Leaving' = Leaving
    BY <1>5, <2>1, <2>2, Zenon
  <2>4. Len(sorted) \in Nat /\ DOMAIN sorted = 1 .. Len(sorted)
    BY DEF TypeInv
  <2>5. \E k \in DOMAIN sorted : sorted[k].name = arg[c]
    <3>1. arg[c] \in DOMAIN scores \cup Leaving
      BY <2>3, Zenon
    <3>2. DOMAIN scores \cup Leaving = {sorted[i].name : i \in 1 .. Len(sorted)}
      BY <1>4, Zenon DEF Lists
    <3>3. arg[c] \in {sorted[i].name : i \in 1 .. Len(sorted)}
      BY <3>1, <3>2, Zenon
    <3>4. QED  BY <2>4, <3>3, Zenon
  <2>6. index'[c] \in Nat /\ index'[c] + 1 \in DOMAIN sorted /\ sorted[index'[c] + 1].name = arg[c]
    <3>1. /\ Found(sorted, arg[c]) \in Nat /\ Found(sorted, arg[c]) + 1 \in DOMAIN sorted
          /\ sorted[Found(sorted, arg[c]) + 1].name = arg[c]
      BY <2>4, <2>5, FindPosition, Zenon
    <3>2. QED  BY <2>1, <3>1, Zenon
  <2>7. index'[c] < Len(sorted)
    <3>1. \A n, k \in Nat : k + 1 \in 1 .. n => k < n
      OBVIOUS
    <3>2. QED  BY <2>4, <2>6, <3>1, Zenon
  <2>8. QED  BY <1>4, <1>6, <2>1, <2>2, <2>3, <2>6, <2>7, Zenon
<1>10. CASE ZRemCut(c)
  <2>1. /\ pc[c] = "cut" /\ pc'[c] = "idle" /\ scores' = scores
        /\ index[c] < Len(sorted) => sorted' = Delete(sorted, index[c])
    BY <1>10, Zenon DEF ZRemCut, TypeInv
  <2>2. pc[c] \in {"find", "cut"} /\ pc'[c] \notin {"find", "cut"} /\ pc'[c] # "forget" /\ pc'[c] # "cut"
    BY <2>1
  <2>3. Leaving = {arg[c]} /\ Leaving' = {} /\ sorted' = Delete(sorted, index[c])
    BY <1>4, <1>5, <2>1, <2>2, Zenon
  <2>4. index[c] \in Nat /\ index[c] < Len(sorted) /\ sorted \in Seq(Entry)
    BY <1>4, <2>1, Zenon DEF TypeInv
  <2>5. /\ Lists(sorted', (DOMAIN scores \cup Leaving) \ {sorted[index[c] + 1].name})
        /\ Within(sorted', sorted, {})
    BY <1>4, <2>3, <2>4, DeleteLists, Zenon
  <2>6. (DOMAIN scores \cup Leaving) \ {sorted[index[c] + 1].name} = DOMAIN scores' \cup Leaving'
    BY <1>4, <2>1, <2>3, Zenon
  <2>7. \A j \in 1 .. Len(sorted') : \E h \in 1 .. Len(sorted) : sorted'[j] = sorted[h]
    BY <2>5, Zenon DEF Within
  <2>8. \A j \in 1 .. Len(sorted') :
          sorted'[j].name \in DOMAIN scores => sorted'[j].score = scores[sorted'[j].name]
    BY <1>4, <2>7, Zenon
  <2>9. Lists(sorted', DOMAIN scores' \cup Leaving')
    BY <2>5, <2>6, Zenon
  <2>10. DOMAIN scores' \cap Leaving' = {}
    BY <2>3, Zenon
  <2>11. QED  BY <1>6, <2>1, <2>2, <2>8, <2>9, <2>10, Zenon
<1>11. QED  BY <1>7, <1>8, <1>9, <1>10, Zenon

\* Every step keeps it.
LEMMA MirrorStep == ASSUME TypeInv, OrderInv, MirrorInv, [Next]_vars PROVE MirrorInv'
<1>1. ASSUME NEW c \in Clients, NEW m \in Members, NEW s \in Scores, ZAdd(c, m, s) PROVE MirrorInv'
  BY <1>1, Given, ZAddMirror, Zenon DEF ZAdd
<1>2. ASSUME NEW c \in Clients, NEW m \in Members, NEW p \in Places, GeoAdd(c, m, p) PROVE MirrorInv'
  <2>1. float64(encode(p.lat, p.lon)) \in Values
    BY Given, Zenon DEF Values
  <2>2. QED  BY <1>2, <2>1, ZAddMirror, Zenon DEF GeoAdd
<1>3. ASSUME NEW c \in Clients, \/ \E m \in Members : ZRem(c, m)
                                \/ ZRemForget(c) \/ ZRemFind(c) \/ ZRemCut(c)
      PROVE  MirrorInv'
  BY <1>3, ZRemMirror, Zenon
<1>4. ASSUME NEW c \in Clients, ZRemFatal(c) \/ ReadNil(c) PROVE MirrorInv'
  <2>1. crashed' = "yes"
    BY <1>4, Zenon DEF ZRemFatal, ReadNil
  <2>2. QED  BY <2>1 DEF MirrorInv
<1>5. CASE UNCHANGED vars
  <2>1. Leaving' = Leaving
    BY <1>5, Zenon DEF vars, Leaving
  <2>2. QED  BY <1>5, <2>1, Zenon DEF vars, MirrorInv
<1>6. QED  BY <1>1, <1>2, <1>3, <1>4, <1>5, Zenon DEF Next

\* In the initial state the list is that of the map.
LEMMA MirrorInit == ASSUME Init PROVE MirrorInv
<1>1. \A c \in Clients : pc[c] = "idle"
  BY Zenon DEF Init
<1>2. sorted = <<>> /\ DOMAIN scores = {}
  BY InitEmpty, Zenon
<1>3. Len(<<>>) = 0 /\ \A i \in 1 .. 0 : FALSE
  OBVIOUS
<1>4. Mirrors(sorted, scores)
  BY <1>2, <1>3, Zenon DEF Mirrors, Lists
<1>5. QED  BY <1>1, <1>4, IdleMirrors, Zenon

\* What Plain states have: a list in order, of the map's members with their scores.
LEMMA PlainMirrors ==
    ASSUME TypeInv, OrderInv, MirrorInv, Plain
    PROVE  /\ sorted \in Seq(Numbered) /\ Ascends(sorted) /\ Mirrors(sorted, scores)
           /\ \A x \in DOMAIN scores : scores[x] \in Nat /\ x \in Nat
<1>1. crashed = "no" /\ odd = {} /\ \A c \in Clients : pc[c] = "idle"
  BY Zenon DEF Plain
<1>2. Mirrors(sorted, scores)
  BY <1>1, IdleMirrors, Zenon
<1>3. QED  BY <1>1, <1>2, MembersAssumption, Zenon DEF OrderInv, TypeInv

\* The list has an entry for each member with its score, only such ones, and as many.
Entries(q, f) ==
    /\ Cardinality(DOMAIN f) = Len(q)
    /\ \A m \in DOMAIN f : \E k \in 1 .. Len(q) : q[k] = [name |-> m, score |-> f[m]]
    /\ \A k \in 1 .. Len(q) : /\ q[k].name \in DOMAIN f
                              /\ q[k] = [name |-> q[k].name, score |-> f[q[k].name]]

\* A list that is that of a map has them.
LEMMA MirrorEntries == ASSUME NEW q \in Seq(Numbered), NEW f, Mirrors(q, f) PROVE Entries(q, f)
<1>1. Len(q) \in Nat /\ Len(q) \in 0 .. Len(q) /\ \A k \in 1 .. Len(q) : q[k] \in Numbered
  OBVIOUS
<1>2. /\ Lists(q, DOMAIN f) /\ DOMAIN f = {q[i].name : i \in 1 .. Len(q)}
      /\ \A i \in 1 .. Len(q) : q[i].score = f[q[i].name]
  BY Zenon DEF Mirrors, Lists
<1>3. Cardinality({q[i].name : i \in 1 .. Len(q)}) = Len(q)
  BY <1>1, <1>2, CountNames, Zenon
<1>4. Cardinality(DOMAIN f) = Len(q)
  BY <1>2, <1>3, Zenon
<1>5. \A k \in 1 .. Len(q) : q[k] = [name |-> q[k].name, score |-> q[k].score]
  BY <1>1, Zenon DEF Numbered
<1>6. \A k \in 1 .. Len(q) : q[k].name \in DOMAIN f /\ q[k] = [name |-> q[k].name, score |-> f[q[k].name]]
  BY <1>2, <1>5, Zenon
<1>7. \A m \in DOMAIN f : \E k \in 1 .. Len(q) : m = q[k].name
  BY <1>2, Zenon
<1>8. ASSUME NEW m \in DOMAIN f PROVE \E k \in 1 .. Len(q) : q[k] = [name |-> m, score |-> f[m]]
  <2>1. PICK k \in 1 .. Len(q) : m = q[k].name
    BY <1>7, Zenon
  <2>2. q[k] = [name |-> m, score |-> f[m]]
    BY <1>6, <2>1, Zenon
  <2>3. QED  BY <2>2, Zenon
<1>9. QED  BY <1>4, <1>6, <1>8, Zenon DEF Entries

\* The map and the list agree between commands that did not overlap, for any
\* members, scores, positions and clients: a rescoring and a removal delete the
\* entry they mean, and none is lost or left behind.
THEOREM ListMirrorsMap == Spec => []MirrorsScores
<1>1. Init => TypeInv /\ OrderInv /\ MirrorInv
  BY InitEmpty, MirrorInit, Zenon
<1>2. TypeInv /\ OrderInv /\ MirrorInv /\ [Next]_vars => TypeInv' /\ OrderInv' /\ MirrorInv'
  BY TypeStep, OrderStep, MirrorStep, Zenon
<1>3. ASSUME TypeInv, OrderInv, MirrorInv PROVE MirrorsScores
  <2> SUFFICES ASSUME Plain
               PROVE  /\ Len(sorted) = Cardinality(DOMAIN scores)
                      /\ \A m \in DOMAIN scores :
                           \E i \in DOMAIN sorted : sorted[i] = [name |-> m, score |-> scores[m]]
    BY Zenon DEF MirrorsScores
  <2>1. sorted \in Seq(Numbered) /\ Mirrors(sorted, scores)
    BY <1>3, PlainMirrors, Zenon
  <2>2. DOMAIN sorted = 1 .. Len(sorted)
    BY <2>1
  <2>3. /\ Cardinality(DOMAIN scores) = Len(sorted)
        /\ \A m \in DOMAIN scores :
             \E k \in 1 .. Len(sorted) : sorted[k] = [name |-> m, score |-> scores[m]]
    <3>1. Entries(sorted, scores)
      BY <2>1, MirrorEntries, Zenon
    <3>2. QED  BY <3>1, Zenon DEF Entries
  <2>4. QED  BY <2>2, <2>3, Zenon
<1>4. QED  BY <1>1, <1>2, <1>3, PTL DEF Spec

--------------------------------------------------------------------------------
(* Ranks and slices *)

\* The members before m by score, and then by name.
Before(f, m) == {x \in DOMAIN f : f[x] < f[m] \/ (f[x] = f[m] /\ x < m)}

\* An entry's position is the number of members before its own, and where a search
\* for it ends.
LEMMA RankOfPosition ==
    ASSUME NEW q \in Seq(Numbered), Ascends(q), NEW f, Mirrors(q, f), NEW k \in 1 .. Len(q)
    PROVE  /\ Cardinality(Before(f, q[k].name)) = k - 1
           /\ Search(q, [name |-> q[k].name, score |-> f[q[k].name]]) = k - 1
<1>1. /\ Lists(q, DOMAIN f) /\ DOMAIN f = {q[i].name : i \in 1 .. Len(q)}
      /\ \A i \in 1 .. Len(q) : q[i].score = f[q[i].name]
  BY Zenon DEF Mirrors, Lists
<1>2. /\ Len(q) \in Nat /\ k - 1 \in 0 .. Len(q) /\ \A i \in 1 .. Len(q) : q[i] \in Numbered
      /\ \A i : i \in 1 .. k - 1 <=> i \in 1 .. Len(q) /\ i < k
  OBVIOUS
<1>3. q[k] = [name |-> q[k].name, score |-> f[q[k].name]]
  <2>1. Entries(q, f)
    BY MirrorEntries, Zenon
  <2>2. QED  BY <2>1, Zenon DEF Entries
<1>4. Search(q, [name |-> q[k].name, score |-> f[q[k].name]]) = k - 1
  <2>1. Search(q, q[k]) = k - 1
    BY <1>1, SearchFinds, Zenon
  <2>2. QED  BY <1>3, <2>1, Zenon
<1>5. ASSUME NEW i \in 1 .. Len(q)
      PROVE  i < k <=> \/ f[q[i].name] < f[q[k].name]
                       \/ f[q[i].name] = f[q[k].name] /\ q[i].name < q[k].name
  <2>1. i < k <=> compare(q[i], q[k])
    BY <1>1, OrderOfPositions, Zenon
  <2>2. compare(q[i], q[k]) <=> \/ q[i].score < q[k].score
                                \/ q[i].score = q[k].score /\ q[i].name < q[k].name
    BY <1>2, CompareNumbered, Zenon
  <2>3. QED  BY <1>1, <2>1, <2>2, Zenon
<1>6. ASSUME NEW x PROVE x \in Before(f, q[k].name) <=> x \in {q[i].name : i \in 1 .. k - 1}
  <2>1. ASSUME x \in Before(f, q[k].name) PROVE \E i \in 1 .. k - 1 : x = q[i].name
    <3>1. PICK i \in 1 .. Len(q) : x = q[i].name
      BY <1>1, <2>1, Zenon DEF Before
    <3>2. \/ f[q[i].name] < f[q[k].name]
          \/ f[q[i].name] = f[q[k].name] /\ q[i].name < q[k].name
      BY <2>1, <3>1, Zenon DEF Before
    <3>3. QED  BY <1>2, <1>5, <3>1, <3>2, Zenon
  <2>2. ASSUME NEW i \in 1 .. k - 1 PROVE q[i].name \in Before(f, q[k].name)
    <3>1. i \in 1 .. Len(q) /\ i < k
      BY <1>2, Zenon
    <3>2. q[i].name \in DOMAIN f
      BY <1>1, <3>1, Zenon
    <3>3. QED  BY <1>5, <3>1, <3>2, Zenon DEF Before
  <2>3. QED  BY <2>1, <2>2, Zenon
<1>7. Before(f, q[k].name) = {q[i].name : i \in 1 .. k - 1}
  BY <1>6, Zenon
<1>8. Cardinality({q[i].name : i \in 1 .. k - 1}) = k - 1
  BY <1>1, <1>2, CountNames, Zenon
<1>9. QED  BY <1>4, <1>7, <1>8, Zenon

\* The indices as ZRANGE clamps them.
Low(lo) == IF lo < 0 THEN 0 ELSE lo
High(hi, n) == IF hi >= n THEN n - 1 ELSE hi

\* The positions from .. to are those of the list that lie between lo and hi.
Clamped(lo, hi, from, to, n) ==
    /\ from > to \/ from >= n => \A r \in 0 .. n - 1 : r \notin lo .. hi
    /\ ~ (from > to \/ from >= n) =>
         /\ \A i \in 1 .. to - from + 1 : from + i \in 1 .. n /\ (from + i) - 1 \in lo .. hi
         /\ \A r \in 0 .. n - 1 : r \in lo .. hi =>
              r - from + 1 \in 1 .. to - from + 1 /\ from + (r - from + 1) = r + 1

\* The clamping keeps them all and adds none.
LEMMA Clamping ==
    ASSUME NEW n \in Nat, NEW lo \in Int, NEW hi \in Int
    PROVE  Low(lo) \in Int /\ Clamped(lo, hi, Low(lo), High(hi, n), n)
<1> DEFINE from == IF lo < 0 THEN 0 ELSE lo
           to == IF hi >= n THEN n - 1 ELSE hi
<1>1. from \in Int /\ to \in Int
  OBVIOUS
<1>2. from > to \/ from >= n => \A r \in 0 .. n - 1 : r \notin lo .. hi
  OBVIOUS
<1>3. ASSUME ~ (from > to \/ from >= n)
      PROVE  \A i \in 1 .. to - from + 1 : from + i \in 1 .. n /\ (from + i) - 1 \in lo .. hi
  BY <1>1, <1>3
<1>4. ASSUME ~ (from > to \/ from >= n), NEW r \in 0 .. n - 1, r \in lo .. hi
      PROVE  r - from + 1 \in 1 .. to - from + 1 /\ from + (r - from + 1) = r + 1
  BY <1>1, <1>4
<1>5. QED  BY <1>1, <1>2, <1>3, <1>4, Zenon DEF Clamped, Low, High

\* What ZRANGE returns, by the first and the last position it reads.
Slice(q, from, to, n) ==
    IF from > to \/ from >= n THEN <<>> ELSE [i \in 1 .. to - from + 1 |-> q[from + i].name]

\* The members whose rank is between the two indices, in the order of their ranks.
RankIn(f, x) == Cardinality(Before(f, x))
Ranked(f, lo, hi, out) ==
    /\ {out[i] : i \in DOMAIN out} = {x \in DOMAIN f : RankIn(f, x) \in lo .. hi}
    /\ \A i, j \in DOMAIN out : i < j => RankIn(f, out[i]) < RankIn(f, out[j])

\* That is what the positions between the clamped indices list.
LEMMA SliceMembers ==
    ASSUME NEW q \in Seq(Numbered), Ascends(q), NEW f, Mirrors(q, f),
           NEW lo \in Int, NEW hi \in Int
    PROVE  Ranked(f, lo, hi, Slice(q, Low(lo), High(hi, Len(q)), Len(q)))
<1> DEFINE n == Len(q)
           from == Low(lo)
           to == High(hi, n)
           out == Slice(q, from, to, n)
           N == DOMAIN f
           R(x) == RankIn(f, x)
<1>1. \A k \in 1 .. n : R(q[k].name) = k - 1
  BY RankOfPosition, Zenon DEF RankIn
<1>2. n \in Nat /\ \A k \in 1 .. n : k - 1 \in 0 .. n - 1
  OBVIOUS
<1>3. \A x : x \in N <=> \E k \in 1 .. n : x = q[k].name
  BY Zenon DEF Mirrors, Lists
<1>4. from \in Int /\ Clamped(lo, hi, from, to, n)
  BY <1>2, Clamping, Zenon
<1> HIDE DEF R, N, from, to
<1>5. CASE from > to \/ from >= n
  <2>1. out = <<>> /\ DOMAIN <<>> = {}
    <3>1. DOMAIN <<>> = {}
      OBVIOUS
    <3>2. QED  BY <1>5, <3>1, Zenon DEF Slice
  <2>2. \A r \in 0 .. n - 1 : r \notin lo .. hi
    BY <1>5, <1>4, Zenon DEF Clamped
  <2>3. ASSUME NEW x \in N PROVE R(x) \notin lo .. hi
    <3>1. PICK k \in 1 .. n : x = q[k].name
      BY <1>3, Zenon
    <3>2. R(q[k].name) = k - 1 /\ k - 1 \notin lo .. hi
      BY <1>1, <1>2, <2>2, Zenon
    <3>3. QED  BY <3>1, <3>2, Zenon
  <2>4. {out[i] : i \in DOMAIN out} = {} /\ {x \in N : R(x) \in lo .. hi} = {}
    <3>1. DOMAIN out = {}
      BY <2>1, Zenon
    <3> HIDE DEF out
    <3>2. QED  BY <2>3, <3>1, Zenon
  <2>5. \A i \in DOMAIN out : FALSE
    BY <2>1, Zenon
  <2> HIDE DEF out
  <2>6. Ranked(f, lo, hi, out)
    <3>1. {out[i] : i \in DOMAIN out} = {x \in DOMAIN f : RankIn(f, x) \in lo .. hi}
      BY <2>4, Zenon DEF R, N
    <3>2. QED  BY <2>5, <3>1, Zenon DEF Ranked
  <2>7. QED  BY <2>6, Zenon DEF out, from, to
<1>6. CASE ~ (from > to \/ from >= n)
  <2> DEFINE u == to - from + 1
  <2>1. /\ \A i \in 1 .. u : from + i \in 1 .. n /\ (from + i) - 1 \in lo .. hi
        /\ \A r \in 0 .. n - 1 : r \in lo .. hi =>
             r - from + 1 \in 1 .. u /\ from + (r - from + 1) = r + 1
    BY <1>6, <1>4, Zenon DEF Clamped
  <2>2. out = [i \in 1 .. u |-> q[from + i].name]
    BY <1>6, Zenon DEF Slice
  <2>3. DOMAIN out = 1 .. u /\ \A i \in 1 .. u : out[i] = q[from + i].name
    BY <2>2, Zenon
  <2> HIDE DEF out, u
  <2>4. \A i \in 1 .. u : R(out[i]) = (from + i) - 1
    <3>1. ASSUME NEW i \in 1 .. u PROVE R(out[i]) = (from + i) - 1
      <4>1. from + i \in 1 .. n /\ out[i] = q[from + i].name
        BY <2>1, <2>3, Zenon
      <4>2. R(q[from + i].name) = (from + i) - 1
        BY <1>1, <4>1, Zenon
      <4>3. QED  BY <4>1, <4>2, Zenon
    <3>2. QED  BY <3>1, Zenon
  <2>5. ASSUME NEW i \in 1 .. u PROVE out[i] \in N /\ R(out[i]) \in lo .. hi
    BY <1>3, <2>1, <2>3, <2>4, Zenon
  <2>6. ASSUME NEW x \in N, R(x) \in lo .. hi PROVE \E i \in 1 .. u : x = out[i]
    <3>1. PICK k \in 1 .. n : x = q[k].name
      BY <1>3, Zenon
    <3>2. k - 1 \in 0 .. n - 1 /\ k - 1 \in lo .. hi
      BY <1>1, <1>2, <2>6, <3>1, Zenon
    <3>3. (k - 1) - from + 1 \in 1 .. u /\ from + ((k - 1) - from + 1) = (k - 1) + 1
      BY <2>1, <3>2, Zenon
    <3>4. (k - 1) + 1 = k
      BY <1>2
    <3> DEFINE i == (k - 1) - from + 1
    <3>5. i \in 1 .. u /\ from + i = k
      BY <3>3, <3>4, Zenon
    <3> HIDE DEF i
    <3>6. out[i] = q[from + i].name
      BY <2>3, <3>5, Zenon
    <3>7. x = out[i]
      BY <3>1, <3>5, <3>6, Zenon
    <3>8. QED  BY <3>5, <3>7, Zenon
  <2>7. ASSUME NEW x PROVE x \in {out[i] : i \in 1 .. u} <=> x \in N /\ R(x) \in lo .. hi
    BY <2>5, <2>6, Zenon
  <2>8. {out[i] : i \in DOMAIN out} = {x \in N : R(x) \in lo .. hi}
    BY <2>3, <2>7, Zenon
  <2>9. ASSUME NEW i \in 1 .. u, NEW j \in 1 .. u, i < j PROVE R(out[i]) < R(out[j])
    <3>1. i \in Int /\ j \in Int
      OBVIOUS
    <3>2. (from + i) - 1 < (from + j) - 1
      BY <1>4, <2>9, <3>1
    <3>3. R(out[i]) = (from + i) - 1 /\ R(out[j]) = (from + j) - 1
      BY <2>4, Zenon
    <3>4. QED  BY <3>2, <3>3, Zenon
  <2>10. Ranked(f, lo, hi, out)
    <3>1. {out[i] : i \in DOMAIN out} = {x \in DOMAIN f : RankIn(f, x) \in lo .. hi}
      BY <2>8, Zenon DEF R, N
    <3>2. \A i, j \in DOMAIN out : i < j => RankIn(f, out[i]) < RankIn(f, out[j])
      BY <2>3, <2>9, Zenon DEF R
    <3>3. QED  BY <3>1, <3>2, Zenon DEF Ranked
  <2>11. QED  BY <2>10, Zenon DEF out, from, to
<1>7. QED  BY <1>5, <1>6, Zenon

\* ZRANK and ZRANGE answer by the order of the map between commands that did not
\* overlap, for any members, scores, positions, clients and indices.
THEOREM RanksAndRanges == Spec => []RanksAndSlices
<1>1. Init => TypeInv /\ OrderInv /\ MirrorInv
  BY InitEmpty, MirrorInit, Zenon
<1>2. TypeInv /\ OrderInv /\ MirrorInv /\ [Next]_vars => TypeInv' /\ OrderInv' /\ MirrorInv'
  BY TypeStep, OrderStep, MirrorStep, Zenon
<1>3. ASSUME TypeInv, OrderInv, MirrorInv PROVE RanksAndSlices
  <2> DEFINE n == Cardinality(DOMAIN scores)
             Rank(m) == RankIn(scores, m)
             At(i) == IF i < 0 THEN i + n ELSE i
             Wanted(start, stop) == {x \in DOMAIN scores : Rank(x) \in At(start) .. At(stop)}
             Goal == /\ \A m \in DOMAIN scores : ZRank(m) = Rank(m)
                     /\ \A start, stop \in -(n + 1) .. n + 1 :
                          LET out == ZRange(start, stop) IN
                          /\ {out[i] : i \in DOMAIN out} = Wanted(start, stop)
                          /\ \A i, j \in DOMAIN out : i < j => Rank(out[i]) < Rank(out[j])
  <2> SUFFICES ASSUME Plain PROVE Goal
    BY Zenon DEF RanksAndSlices, RankIn, Before
  <2> HIDE DEF Goal
  <2>1. sorted \in Seq(Numbered) /\ Ascends(sorted) /\ Mirrors(sorted, scores)
    BY <1>3, PlainMirrors, Zenon
  <2>2. n = Len(sorted) /\ \A m \in DOMAIN scores : \E k \in 1 .. Len(sorted) : m = sorted[k].name
    <3>1. Entries(sorted, scores)
      BY <2>1, MirrorEntries, Zenon
    <3>2. n = Len(sorted)
      BY <3>1, Zenon DEF Entries
    <3>3. DOMAIN scores = {sorted[k].name : k \in 1 .. Len(sorted)}
      BY <2>1, Zenon DEF Mirrors, Lists
    <3>4. QED  BY <3>2, <3>3, Zenon
  <2>3. ASSUME NEW k \in 1 .. Len(sorted)
        PROVE  Rank(sorted[k].name) = k - 1 /\ ZRank(sorted[k].name) = k - 1
    BY <2>1, RankOfPosition, Zenon DEF ZRank, RankIn
  <2> HIDE DEF Rank
  <2>4. \A m \in DOMAIN scores : ZRank(m) = Rank(m)
    BY <2>2, <2>3, Zenon
  <2>5. ASSUME NEW start \in -(n + 1) .. n + 1, NEW stop \in -(n + 1) .. n + 1
        PROVE  LET out == ZRange(start, stop) IN
               /\ {out[i] : i \in DOMAIN out} = Wanted(start, stop)
               /\ \A i, j \in DOMAIN out : i < j => Rank(out[i]) < Rank(out[j])
    <3> DEFINE lo == At(start)
               hi == At(stop)
    <3>1. ZRange(start, stop) = Slice(sorted, Low(lo), High(hi, Len(sorted)), Len(sorted))
      BY <2>2, Zenon DEF ZRange, Slice, Low, High
    <3>2. n \in Nat
      <4>1. Len(sorted) \in Nat
        BY <2>1
      <4>2. QED  BY <2>2, <4>1, Zenon
    <3> HIDE DEF n
    <3>3. lo \in Int /\ hi \in Int
      BY <3>2
    <3>4. Ranked(scores, lo, hi, Slice(sorted, Low(lo), High(hi, Len(sorted)), Len(sorted)))
      <4> HIDE DEF At
      <4>1. QED  BY <2>1, <3>3, SliceMembers, Zenon
    <3>5. QED  BY <3>1, <3>4, Zenon DEF Ranked, Rank
  <2>6. QED  BY <2>4, <2>5, Zenon DEF Goal
<1>4. QED  BY <1>1, <1>2, <1>3, PTL DEF Spec
================================================================================
