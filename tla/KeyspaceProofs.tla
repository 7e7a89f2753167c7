---------------------------- MODULE KeyspaceProofs -----------------------------
(***************************************************************************)
(* Lazy expiry with a sweeper implements a map whose keys vanish at their  *)
(* deadlines, for any keys, any widths and any arguments.                  *)
(***************************************************************************)
EXTENDS Keyspace, FiniteSetTheorems, TLAPS

\* The inductive invariant: a key the map does not have has the zero entry.
KInv == TypeOK /\ \A k \in Keys \ keys : data[k] = Fresh

--------------------------------------------------------------------------------
(* What the commands make of an entry is an entry. *)

LEMMA FreshType == Fresh \in Entry
<1>1. <<>> \in Seq(Byte)
  OBVIOUS
<1>2. QED  BY <1>1 DEF Fresh, Entry

LEMMA ByteAtType == ASSUME NEW s \in Seq(Byte), NEW i \in Nat PROVE ByteAt(s, i) \in Byte
<1>1. {} \in Byte
  BY Zenon DEF Byte
<1>2. CASE i < Len(s)
  <2>1. i + 1 \in 1 .. Len(s)
    BY <1>2
  <2>2. QED  BY <1>2, <2>1 DEF ByteAt
<1>3. CASE ~(i < Len(s))
  BY <1>1, <1>3, Zenon DEF ByteAt
<1>4. QED  BY <1>2, <1>3, Zenon

LEMMA SetBitType ==
    ASSUME NEW s \in Seq(Byte), NEW o \in Nat, NEW bit
    PROVE  SetBitIn(s, o, bit) \in Seq(Byte)
<1> DEFINE n == Longer(ByteIdx(o) + 1, Len(s))
           g == Grown(s, ByteIdx(o) + 1)
<1>1. n \in Nat
  BY ValuesAssumption DEF Longer, ByteIdx
<1>2. Mask(o) \in 0 .. Width - 1
  BY ValuesAssumption DEF Mask
<1>3. \A i \in 1 .. n : g[i] \in Byte
  <2>1. TAKE i \in 1 .. n
  <2>2. i - 1 \in Nat
    BY <1>1
  <2>3. g[i] = ByteAt(s, i - 1)
    BY Zenon DEF Grown
  <2>4. QED  BY <2>2, <2>3, ByteAtType, Zenon
<1>4. DOMAIN g = 1 .. n
  BY Zenon DEF Grown
<1>5. \A b \in Byte : b \cup {Mask(o)} \in Byte /\ b \ {Mask(o)} \in Byte
  BY <1>2, Zenon DEF Byte
<1> DEFINE h == SetBitIn(s, o, bit)
<1>6. h = [i \in 1 .. n |-> IF i = ByteIdx(o) + 1
                            THEN IF bit = 1 THEN g[i] \cup {Mask(o)} ELSE g[i] \ {Mask(o)}
                            ELSE g[i]]
  <2> HIDE DEF n, g
  <2>1. h = [g EXCEPT ![ByteIdx(o) + 1] = IF bit = 1 THEN @ \cup {Mask(o)} ELSE @ \ {Mask(o)}]
    BY Zenon DEF SetBitIn, g
  <2>2. g = [i \in 1 .. n |-> g[i]]
    BY <1>4, Zenon DEF g, n, Grown
  <2>3. QED  BY <1>4, <2>1, <2>2, Zenon
<1>7. \A i \in 1 .. n : h[i] \in Byte
  <2> HIDE DEF n, g
  <2>1. QED  BY <1>3, <1>5, <1>6, Zenon
<1>8. h \in [1 .. n -> Byte]
  <2> HIDE DEF n, g
  <2>1. DOMAIN h = 1 .. n
    BY <1>6, Zenon
  <2>2. QED  BY <1>6, <1>7, <2>1, Zenon
<1>9. QED
  <2> HIDE DEF n, h
  <2>1. h \in Seq(Byte)
    BY <1>1, <1>8
  <2>2. QED  BY <2>1, Zenon DEF h

LEMMA BitOpType ==
    ASSUME NEW s \in Seq(Byte), NEW t \in Seq(Byte), NEW op
    PROVE  BitOp(op, s, t) \in Seq(Byte)
<1> DEFINE n == Longer(Len(s), Len(t))
<1>1. n \in Nat
  BY DEF Longer
<1>2. \A a, b \in Byte : a \cap b \in Byte /\ a \cup b \in Byte
  BY Zenon DEF Byte
<1>3. \A i \in 1 .. n : ByteAt(s, i - 1) \in Byte /\ ByteAt(t, i - 1) \in Byte
  <2>1. TAKE i \in 1 .. n
  <2>2. i - 1 \in Nat
    BY <1>1
  <2>3. QED  BY <2>2, ByteAtType, Zenon
<1>4. BitOp(op, s, t) \in [1 .. n -> Byte]
  BY <1>2, <1>3, Zenon DEF BitOp
<1>5. QED  BY <1>1, <1>4

LEMMA EntrySteps ==
    ASSUME NEW e \in Entry
    PROVE  /\ \A o \in Nat, bit \in {0, 1} : SetBitOf(e, o, bit) \in Entry
           /\ IncrOf(e) \in Entry /\ RPushOf(e) \in Entry /\ LPushOf(e) \in Entry
<1>1. ASSUME NEW o \in Nat, NEW bit \in {0, 1} PROVE SetBitOf(e, o, bit) \in Entry
  <2>1. SetBitIn(e.bytes, o, bit) \in Seq(Byte)
    BY SetBitType, Zenon DEF Entry
  <2>2. QED  BY <2>1, Zenon DEF SetBitOf, Entry
<1>2. IncrOf(e) \in Entry
  <2> DEFINE n == IF e.num = IntHalf - 1 THEN -IntHalf ELSE e.num + 1
  <2>0. e.num \in Int
    BY Zenon DEF Entry
  <2>1. n \in Int
    BY <2>0, ValuesAssumption
  <2>2. IncrOf(e) = [e EXCEPT !.kind = "string", !.num = n]
    BY Zenon DEF IncrOf
  <2> HIDE DEF n
  <2>3. QED  BY <2>1, <2>2, Zenon DEF Entry
<1>3. RPushOf(e) \in Entry
  <2> DEFINE m == e.list + 1
  <2>0. e.list \in Nat
    BY Zenon DEF Entry
  <2>1. m \in Nat
    BY <2>0
  <2>2. RPushOf(e) = [e EXCEPT !.list = m]
    BY Zenon DEF RPushOf
  <2> HIDE DEF m
  <2>3. QED  BY <2>1, <2>2, Zenon DEF Entry
<1>4. LPushOf(e) \in Entry
  <2> DEFINE m == e.list + 1
             z == 0
  <2>0. e.list \in Nat
    BY Zenon DEF Entry
  <2>1. m \in Nat
    BY <2>0
  <2>2. LPushOf(e) = [e EXCEPT !.list = m, !.ttl = "no", !.exp = z]
    BY Zenon DEF LPushOf
  <2>3. z \in Int
    OBVIOUS
  <2> HIDE DEF m, z
  <2>4. QED  BY <2>1, <2>2, <2>3, Zenon DEF Entry
<1>5. QED  BY <1>1, <1>2, <1>3, <1>4, Zenon

LEMMA TextType ==
    ASSUME NEW n \in Int, NEW bs \in Seq(Byte), NEW ttl \in {"no", "yes"}, NEW x \in Int
    PROVE  Text(n, bs, ttl, x) \in Entry
  BY Zenon DEF Text, Entry

--------------------------------------------------------------------------------
(* The invariant. *)

LEMMA StoreInv ==
    ASSUME KInv, NEW k \in Keys, NEW e \in Entry, Store(k, e),
           clock' \in Nat, blind' \subseteq Keys
    PROVE  KInv'
<1>1. data' \in [Keys -> Entry] /\ keys' \subseteq Keys
  BY Zenon DEF KInv, TypeOK, Store
<1>2. \A j \in Keys \ keys' : data'[j] = Fresh
  BY Zenon DEF KInv, TypeOK, Store
<1>3. QED  BY <1>1, <1>2, Zenon DEF KInv, TypeOK

LEMMA DurationType == \A ms \in Nat : Duration(ms) \in Int /\ (ms < DurHalf => Duration(ms) = ms)
  BY KeyspaceAssumption DEF Duration

LEMMA NextKInv == ASSUME KInv, [Next]_vars PROVE KInv'
<1>0. data \in [Keys -> Entry] /\ clock \in Nat /\ keys \subseteq Keys /\ blind \subseteq Keys
  BY Zenon DEF KInv, TypeOK
<1>1. ASSUME NEW k \in Keys, NEW n \in Int, NEW bs \in Seq(Byte), NEW ttl \in {"no", "yes"},
             NEW ms \in Nat, Set(k, n, bs, ttl, ms)
      PROVE  KInv'
  <2> DEFINE x == IF ttl = "yes" THEN clock + Duration(ms) ELSE 0
  <2>1. x \in Int
    BY <1>0, DurationType
  <2>2. Store(k, Text(n, bs, ttl, x)) /\ clock' \in Nat /\ blind' \subseteq Keys
    BY <1>0, <1>1, Zenon DEF Set
  <2> HIDE DEF x
  <2>3. QED  BY <2>1, <2>2, TextType, StoreInv, Zenon
<1>2. ASSUME NEW k \in Keys, NEW o \in Nat, NEW bit \in {0, 1}, SetBit(k, o, bit) PROVE KInv'
  <2>1. PICK e \in Entry : Store(k, SetBitOf(e, o, bit))
    BY <1>0, <1>2, FreshType, Zenon DEF SetBit
  <2>2. QED  BY <1>0, <1>2, <2>1, EntrySteps, StoreInv, Zenon DEF SetBit
<1>3. ASSUME NEW k \in Keys, Incr(k) \/ RPush(k) \/ LPush(k) PROVE KInv'
  <2>1. blind' \subseteq Keys /\ clock' \in Nat
    BY <1>0, <1>3, Zenon DEF Incr, RPush, LPush, Blinded
  <2>2. QED  BY <1>0, <1>3, <2>1, EntrySteps, StoreInv, Zenon DEF Incr, RPush, LPush
<1>4. ASSUME NEW op, NEW d \in Keys, NEW k1 \in Keys, NEW k2 \in Keys, BitOpTo(op, d, k1, k2)
      PROVE  KInv'
  <2> DEFINE res == BitOp(op, data[k1].bytes, data[k2].bytes)
  <2>1. res \in Seq(Byte)
    BY <1>0, BitOpType, Zenon DEF Entry
  <2>2. Text(0, res, "no", 0) \in Entry
    BY <2>1, TextType
  <2>3. clock' \in Nat /\ blind' \subseteq Keys
    BY <1>0, <1>4, Zenon DEF BitOpTo
  <2>4. CASE Len(res) = 0
    <3>1. data' = [data EXCEPT ![d] = Fresh] /\ keys' = keys \ {d}
      BY <1>4, <2>4, Zenon DEF BitOpTo
    <3>2. QED  BY <2>3, <3>1, FreshType, Zenon DEF KInv, TypeOK
  <2>5. CASE Len(res) # 0 /\ d \notin keys
    <3>1. Store(d, Text(0, res, "no", 0))
      BY <1>4, <2>5, Zenon DEF BitOpTo
    <3>2. QED  BY <2>2, <2>3, <3>1, StoreInv, Zenon
  <2>6. CASE Len(res) # 0 /\ d \in keys
    <3>1. UNCHANGED <<data, keys>>
      BY <1>4, <2>6, Zenon DEF BitOpTo
    <3>2. QED  BY <2>3, <3>1, Zenon DEF KInv, TypeOK
  <2>7. QED  BY <2>4, <2>5, <2>6, Zenon
<1>5. ASSUME BitCountPanic \/ Tick \/ Sweep PROVE KInv'
  BY <1>5, FreshType DEF BitCountPanic, Tick, Sweep, KInv, TypeOK
<1>6. ASSUME UNCHANGED vars PROVE KInv'
  BY <1>6, Zenon DEF vars, KInv, TypeOK
<1>7. QED
  <2>1. /\ Counters \subseteq Keys /\ Bitmaps \subseteq Keys /\ Lists \subseteq Keys
        /\ Nums \subseteq Int /\ Texts \subseteq Seq(Byte) /\ <<>> \in Texts /\ 0 \in Nums
        /\ PxArgs \subseteq Nat /\ Offsets \subseteq Nat
        /\ \A a \in BitOpArgs : a[1] \in Keys /\ a[2] \in Keys /\ a[3] \in Keys
    BY KeyspaceAssumption, Zenon
  <2>2. QED  BY <1>1, <1>2, <1>3, <1>4, <1>5, <1>6, <2>1, Zenon DEF Next

LEMMA InitKInv == ASSUME Init PROVE KInv
  BY FreshType, Zenon DEF Init, KInv, TypeOK

\* Every reachable state is well-typed, and the map has the zero entry for a key
\* it does not hold: the invariant the refinement below rests on.
THEOREM KeyspaceTyped == Spec => []TypeOK
<1>1. Init => KInv
  BY InitKInv, Zenon
<1>2. KInv /\ [Next]_vars => KInv'
  BY NextKInv, Zenon
<1>3. KInv => TypeOK
  BY Zenon DEF KInv
<1>4. QED  BY <1>1, <1>2, <1>3, PTL DEF Spec

--------------------------------------------------------------------------------
(* The refinement. *)

\* What the contract calls live.
abs == [k \in Keys |-> View(k)]

\* The contract's copies of the operators on entries are the keyspace's own.
LEMMA SameFresh == C!Fresh = Fresh
  BY Zenon DEF C!Fresh, Fresh
LEMMA SameText == ASSUME NEW n, NEW bs, NEW ttl, NEW x PROVE C!Text(n, bs, ttl, x) = Text(n, bs, ttl, x)
  BY Zenon DEF C!Text, Text
LEMMA SameSetBit == ASSUME NEW e, NEW o, NEW bit PROVE C!SetBitOf(e, o, bit) = SetBitOf(e, o, bit)
  BY Zenon DEF C!SetBitOf, SetBitOf, C!SetBitIn, SetBitIn, C!Grown, Grown, C!ByteAt, ByteAt,
         C!Longer, Longer, C!ByteIdx, ByteIdx, C!Mask, Mask
LEMMA SameIncr == ASSUME NEW e PROVE C!IncrOf(e) = IncrOf(e)
  BY Zenon DEF C!IncrOf, IncrOf
LEMMA SamePush ==
    ASSUME NEW e PROVE C!RPushOf(e) = RPushOf(e) /\ C!LPushOf(e) = LPushOf(e)
  BY Zenon DEF C!RPushOf, RPushOf, C!LPushOf, LPushOf
LEMMA SameBitOp == ASSUME NEW op, NEW s, NEW t PROVE C!BitOp(op, s, t) = BitOp(op, s, t)
  BY Zenon DEF C!BitOp, BitOp, C!ByteAt, ByteAt, C!Longer, Longer

\* A step that touches one key changes the view of that key only.
LEMMA OneKey ==
    ASSUME NEW k \in Keys, clock' = clock,
           \A j \in Keys \ {k} : data'[j] = data[j],
           \A j \in Keys \ {k} : (j \in keys' <=> j \in keys),
           \A j \in Keys \ {k} : (j \in blind' <=> j \in blind)
    PROVE  abs' = [abs EXCEPT ![k] = View(k)']
<1>1. \A j \in Keys \ {k} : View(j)' = View(j)
  <2>1. TAKE j \in Keys \ {k}
  <2>2. expired(j)' <=> expired(j)
    BY Zenon DEF expired
  <2>3. QED  BY <2>2, Zenon DEF View
<1>2. QED  BY <1>1, Zenon DEF abs

LEMMA StoreOne ==
    ASSUME KInv, NEW k \in Keys, NEW e, Store(k, e), clock' = clock,
           \A j \in Keys \ {k} : (j \in blind' <=> j \in blind)
    PROVE  /\ abs' = [abs EXCEPT ![k] = View(k)']
           /\ k \in keys' /\ data'[k] = e
<1>1. \A j \in Keys \ {k} : data'[j] = data[j] /\ (j \in keys' <=> j \in keys)
  BY Zenon DEF Store, KInv, TypeOK
<1>2. k \in keys' /\ data'[k] = e
  BY Zenon DEF Store, KInv, TypeOK
<1>3. QED  BY <1>1, <1>2, OneKey, Zenon

LEMMA SetStep ==
    ASSUME KInv, NEW k \in Keys, NEW n \in Nums, NEW bs \in Texts,
           NEW ttl \in {"no", "yes"}, NEW ms \in Nat, Set(k, n, bs, ttl, ms)
    PROVE  C!CSet(k, n, bs, ttl, ms)
<1> DEFINE x == IF ttl = "yes" THEN clock + Duration(ms) ELSE 0
           t == Text(n, bs, ttl, x)
<1>1. /\ Store(k, t) /\ clock' = clock
      /\ \A j \in Keys \ {k} : (j \in blind' <=> j \in blind)
  BY Zenon DEF Set
<1>2. /\ abs' = [abs EXCEPT ![k] = View(k)']
      /\ k \in keys' /\ data'[k] = t
  <2> HIDE DEF t
  <2>1. QED  BY <1>1, StoreOne, Zenon
<1>3. CASE ms >= DurHalf
  <2>1. k \in blind'
    BY <1>3, Zenon DEF Set
  <2>2. View(k)' = C!Unknown
    BY <2>1, SameFresh, Zenon DEF View, C!Unknown
  <2>3. QED  BY <1>1, <1>2, <1>3, <2>2, Zenon DEF C!CSet, abs
<1>4. CASE ~(ms >= DurHalf)
  <2>1. k \notin blind'
    BY <1>4, Zenon DEF Set
  <2>2. x = IF ttl = "yes" THEN clock + ms ELSE 0
    BY <1>4, DurationType, KeyspaceAssumption
  <2>3. t.ttl = ttl /\ t.exp = x
    BY Zenon DEF Text
  <2>4. clock \in Nat
    BY Zenon DEF KInv, TypeOK
  <2>5. ~expired(k)'
    BY <1>1, <1>2, <2>2, <2>3, <2>4 DEF expired
  <2>6. View(k)' = C!Live(t)
    BY <1>2, <2>1, <2>5, Zenon DEF View, C!Live
  <2>7. QED  BY <1>1, <1>2, <1>4, <2>2, <2>6, SameText, Zenon DEF C!CSet, abs
<1>5. QED  BY <1>3, <1>4, Zenon

\* The view of a key that is known: what the map holds, unless it is dead.
LEMMA Known ==
    ASSUME KInv, NEW k \in Keys, k \notin blind
    PROVE  /\ expired(k) => abs[k] = C!Gone
           /\ k \in keys /\ ~expired(k) => abs[k] = C!Live(data[k])
           /\ k \notin keys => abs[k] = C!Gone /\ data[k] = Fresh
  BY SameFresh, Zenon DEF abs, View, expired, KInv, C!Gone, C!Live

LEMMA Unsure ==
    ASSUME NEW k \in Keys, k \in blind PROVE abs[k] = C!Unknown
  BY SameFresh, Zenon DEF abs, View, C!Unknown

\* A command that built a new entry from what a reader sees, and kept its deadline
\* or dropped it.
LEMMA BuildView ==
    ASSUME NEW k \in Keys, NEW e, clock' = clock, k \in keys', data'[k] = e, k \notin blind',
           \/ e.ttl = "no"
           \/ ~expired(k) /\ k \in keys /\ e.ttl = data[k].ttl /\ e.exp = data[k].exp
    PROVE  View(k)' = C!Live(e)
<1>1. ~expired(k)'
  BY Zenon DEF expired
<1>2. QED  BY <1>1, Zenon DEF View, C!Live

LEMMA SeenEntry ==
    ASSUME KInv, NEW k \in Keys, k \notin blind
    PROVE  /\ abs[k].e = IF expired(k) THEN Fresh ELSE data[k]
           /\ abs[k].st # "unknown"
           /\ abs[k].st = "live" <=> (k \in keys /\ ~expired(k))
<1>1. CASE expired(k)
  <2>1. abs[k] = C!Gone
    BY <1>1, Known, Zenon
  <2>2. QED  BY <1>1, <2>1, SameFresh DEF C!Gone
<1>2. CASE k \in keys /\ ~expired(k)
  <2>1. abs[k] = C!Live(data[k])
    BY <1>2, Known, Zenon
  <2>2. QED  BY <1>2, <2>1 DEF C!Live
<1>3. CASE k \notin keys
  <2>1. abs[k] = C!Gone /\ data[k] = Fresh
    BY <1>3, Known, Zenon
  <2>2. QED  BY <1>3, <2>1, SameFresh DEF C!Gone
<1>4. QED  BY <1>1, <1>2, <1>3, Zenon

LEMMA SetBitStep ==
    ASSUME KInv, NEW k \in Keys, NEW o, NEW bit, SetBit(k, o, bit)
    PROVE  C!CSetBit(k, o, bit)
<1> DEFINE e == IF expired(k) THEN Fresh ELSE data[k]
           n == SetBitOf(e, o, bit)
<1>1. Store(k, n) /\ clock' = clock /\ blind' = blind
  BY Zenon DEF SetBit
<1>2. k \in keys /\ ~expired(k) => data[k].kind = "string"
  BY Zenon DEF SetBit
<1>3. abs' = [abs EXCEPT ![k] = View(k)'] /\ k \in keys' /\ data'[k] = n
  <2> HIDE DEF n
  <2>1. QED  BY <1>1, StoreOne, Zenon
<1>4. e \in Entry
  BY FreshType, Zenon DEF KInv, TypeOK
<1>5. n.ttl = e.ttl /\ n.exp = e.exp
  <2> HIDE DEF e
  <2>1. QED  BY <1>4, Zenon DEF SetBitOf, Entry
<1>6. CASE k \in blind
  <2>1. abs[k] = C!Unknown /\ View(k)' = C!Unknown
    BY <1>1, <1>6, Unsure, SameFresh, Zenon DEF View, C!Unknown
  <2>2. abs' = abs
    BY <1>3, <2>1, Zenon DEF abs
  <2>3. abs[k].st = "unknown"
    BY <2>1 DEF C!Unknown
  <2>4. QED  BY <1>1, <2>2, <2>3, Zenon DEF C!CSetBit, abs
<1>7. CASE k \notin blind
  <2>1. abs[k].e = e /\ abs[k].st # "unknown"
    BY <1>7, SeenEntry, Zenon
  <2>2. abs[k].st = "live" => abs[k].e.kind = "string"
    BY <1>2, <1>7, SeenEntry, Zenon
  <2>3. Fresh.ttl = "no"
    BY Zenon DEF Fresh
  <2>4. \/ n.ttl = "no"
        \/ ~expired(k) /\ k \in keys /\ n.ttl = data[k].ttl /\ n.exp = data[k].exp
    <3>1. CASE k \in keys
      BY <1>5, <2>3, <3>1, Zenon
    <3>2. CASE k \notin keys
      BY <1>5, <2>3, <3>2, Zenon DEF KInv
    <3>3. QED  BY <3>1, <3>2, Zenon
  <2>5. View(k)' = C!Live(n)
    <3> HIDE DEF n
    <3>1. QED  BY <1>1, <1>3, <1>7, <2>4, BuildView, Zenon
  <2>6. abs' = [abs EXCEPT ![k] = C!Live(C!SetBitOf(abs[k].e, o, bit))]
    BY <1>3, <2>1, <2>5, SameSetBit, Zenon
  <2>7. QED  BY <1>1, <2>1, <2>2, <2>6, Zenon DEF C!CSetBit, abs
<1>8. QED  BY <1>6, <1>7, Zenon

\* INCR, RPUSH and LPUSH on a key that is not dead.
LEMMA BlindStep ==
    ASSUME KInv, NEW k \in Keys, NEW n, Store(k, n), clock' = clock, ~expired(k),
           blind' = blind, n.ttl = "no" \/ (n.ttl = data[k].ttl /\ n.exp = data[k].exp)
    PROVE  C!CBlind(k, n) /\ (k \notin blind => abs[k].e = data[k])
<1>1. abs' = [abs EXCEPT ![k] = View(k)'] /\ k \in keys' /\ data'[k] = n
  BY StoreOne, Zenon
<1>2. CASE k \in blind
  <2>1. abs[k] = C!Unknown /\ View(k)' = C!Unknown
    BY <1>2, Unsure, SameFresh, Zenon DEF View, C!Unknown
  <2>2. abs' = abs
    BY <1>1, <2>1, Zenon DEF abs
  <2>3. abs[k].st = "unknown"
    BY <2>1 DEF C!Unknown
  <2>4. QED  BY <1>2, <2>2, <2>3, Zenon DEF C!CBlind, abs
<1>3. CASE k \notin blind
  <2>1. abs[k].e = data[k] /\ abs[k].st # "unknown"
    BY <1>3, SeenEntry, Zenon
  <2>0. Fresh.ttl = "no"
    BY Zenon DEF Fresh
  <2>2. n.ttl = "no" \/ k \in keys
    BY <2>0, Zenon DEF KInv
  <2>3. View(k)' = C!Live(n)
    BY <1>1, <1>3, <2>2, BuildView, Zenon
  <2>4. QED  BY <1>1, <2>1, <2>3, Zenon DEF C!CBlind, abs
<1>4. QED  BY <1>2, <1>3, Zenon

\* The same commands on a dead key: the contract loses track of it.
LEMMA LoseStep ==
    ASSUME KInv, NEW d \in Keys, NEW k \in Keys, expired(k) \/ k \in blind,
           d \in blind', abs' = [abs EXCEPT ![d] = View(d)'], clock' = clock
    PROVE  C!CLose(d, k)
<1>1. abs[k].st # "live"
  BY Known, Unsure DEF C!Gone, C!Unknown
<1>2. View(d)' = C!Unknown
  BY SameFresh, Zenon DEF View, C!Unknown
<1>3. QED  BY <1>1, <1>2, Zenon DEF C!CLose, abs

LEMMA FieldsKept ==
    ASSUME NEW e \in Entry
    PROVE  /\ IncrOf(e).ttl = e.ttl /\ IncrOf(e).exp = e.exp
           /\ RPushOf(e).ttl = e.ttl /\ RPushOf(e).exp = e.exp
           /\ LPushOf(e).ttl = "no"
<1>1. IncrOf(e).ttl = e.ttl /\ IncrOf(e).exp = e.exp
  BY Zenon DEF IncrOf, Entry
<1>2. RPushOf(e).ttl = e.ttl /\ RPushOf(e).exp = e.exp
  BY Zenon DEF RPushOf, Entry
<1>3. LPushOf(e).ttl = "no"
  BY Zenon DEF LPushOf, Entry
<1>4. QED  BY <1>1, <1>2, <1>3, Zenon

LEMMA WriteStep ==
    ASSUME KInv, NEW k \in Keys, Incr(k) \/ RPush(k) \/ LPush(k)
    PROVE  C!CIncr(k) \/ C!CPush(k) \/ C!CLose(k, k)
<1>1. PICK n : /\ Store(k, n)
               /\ \/ Incr(k) /\ n = IncrOf(data[k])
                  \/ RPush(k) /\ n = RPushOf(data[k])
                  \/ LPush(k) /\ n = LPushOf(data[k])
  BY Zenon DEF Incr, RPush, LPush
<1>2. clock' = clock /\ Blinded(k)
  BY Zenon DEF Incr, RPush, LPush
<1>3. CASE expired(k)
  <2>1. k \in blind' /\ \A j \in Keys \ {k} : (j \in blind' <=> j \in blind)
    BY <1>2, <1>3, Zenon DEF Blinded
  <2>2. abs' = [abs EXCEPT ![k] = View(k)']
    BY <1>1, <1>2, <2>1, StoreOne, Zenon
  <2>3. QED  BY <1>2, <1>3, <2>1, <2>2, LoseStep, Zenon
<1>4. CASE ~expired(k)
  <2>1. blind' = blind
    BY <1>2, <1>4, Zenon DEF Blinded
  <2>2. data[k] \in Entry
    BY Zenon DEF KInv, TypeOK
  <2>3. n.ttl = "no" \/ (n.ttl = data[k].ttl /\ n.exp = data[k].exp)
    BY <1>1, <2>2, FieldsKept, Zenon
  <2>4. C!CBlind(k, n) /\ (k \notin blind => abs[k].e = data[k])
    BY <1>1, <1>2, <1>4, <2>1, <2>3, BlindStep, Zenon
  <2>5. CASE k \in blind
    <3>1. abs[k] = C!Unknown
      BY <2>5, Unsure, Zenon
    <3>2. \A m : C!CBlind(k, n) => C!CBlind(k, m)
      BY <3>1 DEF C!CBlind, C!Unknown, abs
    <3>3. abs[k].st # "live"
      BY <3>1 DEF C!Unknown
    <3>4. C!CIncr(k)
      BY <2>4, <3>2, <3>3, Zenon DEF C!CIncr, abs
    <3>5. QED  BY <3>4, Zenon
  <2>6. CASE k \notin blind
    <3>1. abs[k].e = data[k] /\ (abs[k].st = "live" => k \in keys)
      BY <1>4, <2>6, SeenEntry, Zenon
    <3>2. CASE Incr(k) /\ n = IncrOf(data[k])
      <4>1. abs[k].st = "live" => abs[k].e.kind = "string"
        BY <3>1, <3>2, Zenon DEF Incr
      <4>2. C!CBlind(k, C!IncrOf(abs[k].e))
        BY <2>4, <3>1, <3>2, SameIncr, Zenon
      <4>3. C!CIncr(k)
        BY <4>1, <4>2, Zenon DEF C!CIncr, abs
      <4>4. QED  BY <4>3, Zenon
    <3>3. CASE n = RPushOf(data[k]) \/ n = LPushOf(data[k])
      <4>1. C!CBlind(k, C!RPushOf(abs[k].e)) \/ C!CBlind(k, C!LPushOf(abs[k].e))
        BY <2>4, <3>1, <3>3, SamePush, Zenon
      <4>2. C!CPush(k)
        BY <4>1, Zenon DEF C!CPush, abs
      <4>3. QED  BY <4>2, Zenon
    <3>4. QED  BY <1>1, <3>2, <3>3, Zenon
  <2>7. QED  BY <2>5, <2>6, Zenon
<1>5. QED  BY <1>3, <1>4, Zenon

LEMMA BitOpStep ==
    ASSUME KInv, NEW op, NEW d \in Keys, NEW k1 \in Keys, NEW k2 \in Keys,
           BitOpTo(op, d, k1, k2)
    PROVE  C!CBitOp(op, d, k1, k2) \/ \E k \in Keys : C!CLose(d, k)
<1> DEFINE res == BitOp(op, data[k1].bytes, data[k2].bytes)
           unsure == \/ \E k \in {d, k1, k2} : expired(k)
                     \/ \E k \in {k1, k2} : k \in blind
           t == Text(0, res, "no", 0)
<1>1. /\ Len(res) = 0 => data' = [data EXCEPT ![d] = Fresh] /\ keys' = keys \ {d}
      /\ Len(res) # 0 /\ d \notin keys => Store(d, t)
      /\ Len(res) # 0 /\ d \in keys => data' = data /\ keys' = keys
      /\ blind' = IF unsure THEN blind \cup {d} ELSE IF Len(res) = 0 THEN blind \ {d} ELSE blind
      /\ clock' = clock
  BY Zenon DEF BitOpTo
<1> HIDE DEF res, unsure, t
<1>2. \A j \in Keys \ {d} : (j \in blind' <=> j \in blind)
  BY <1>1, Zenon
<1>3. abs' = [abs EXCEPT ![d] = View(d)']
  <2>1. CASE Len(res) # 0 /\ d \notin keys
    BY <1>1, <1>2, <2>1, StoreOne, Zenon
  <2>2. CASE ~(Len(res) # 0 /\ d \notin keys)
    <3>1. \A j \in Keys \ {d} : data'[j] = data[j]
      BY <1>1, <2>2, Zenon DEF KInv, TypeOK
    <3>2. \A j \in Keys \ {d} : (j \in keys' <=> j \in keys)
      BY <1>1, <2>2, Zenon
    <3>3. QED  BY <1>1, <1>2, <3>1, <3>2, OneKey, Zenon
  <2>3. QED  BY <2>1, <2>2, Zenon
<1>4. CASE unsure
  <2>1. d \in blind'
    BY <1>1, <1>4, Zenon
  <2>2. PICK k \in Keys : expired(k) \/ k \in blind
    BY <1>4, Zenon DEF unsure
  <2>3. QED  BY <1>1, <1>3, <2>1, <2>2, LoseStep, Zenon
<1>5. CASE ~unsure
  <2>1. k1 \notin blind /\ k2 \notin blind /\ ~expired(k1) /\ ~expired(k2) /\ ~expired(d)
    BY <1>5, Zenon DEF unsure
  <2>2. /\ abs[k1].e = data[k1] /\ abs[k1].st # "unknown"
        /\ abs[k2].e = data[k2] /\ abs[k2].st # "unknown"
    BY <2>1, SeenEntry, Zenon
  <2>3. C!BitOp(op, abs[k1].e.bytes, abs[k2].e.bytes) = res
    BY <2>2, SameBitOp, Zenon DEF res
  <2>4. View(d)' = IF Len(res) = 0 THEN C!Gone
                   ELSE IF abs[d].st = "gone" THEN C!Live(C!Text(0, res, "no", 0)) ELSE abs[d]
    <3>1. CASE Len(res) = 0
      <4>1. d \notin blind' /\ d \notin keys'
        BY <1>1, <1>5, <3>1, Zenon
      <4>2. QED  BY <3>1, <4>1, SameFresh, Zenon DEF View, C!Gone
    <3>2. CASE Len(res) # 0 /\ d \in blind
      <4>1. abs[d] = C!Unknown /\ d \in blind'
        BY <1>1, <1>5, <3>2, Unsure, Zenon
      <4>2. View(d)' = C!Unknown
        BY <4>1, SameFresh, Zenon DEF View, C!Unknown
      <4>3. QED  BY <3>2, <4>1, <4>2 DEF C!Unknown
    <3>3. CASE Len(res) # 0 /\ d \notin blind /\ d \notin keys
      <4>1. abs[d] = C!Gone
        BY <3>3, Known, Zenon
      <4>2. d \in keys' /\ data'[d] = t /\ d \notin blind'
        BY <1>1, <1>2, <1>5, <3>3, StoreOne, Zenon
      <4>3. t.ttl = "no"
        BY Zenon DEF t, Text
      <4>4. View(d)' = C!Live(t)
        BY <1>1, <4>2, <4>3, BuildView, Zenon
      <4>5. t = C!Text(0, res, "no", 0)
        BY SameText, Zenon DEF t
      <4>6. QED  BY <3>3, <4>1, <4>4, <4>5 DEF C!Gone
    <3>4. CASE Len(res) # 0 /\ d \notin blind /\ d \in keys
      <4>1. abs[d] = C!Live(data[d])
        BY <2>1, <3>4, Known, Zenon
      <4>2. d \in keys' /\ data'[d] = data[d] /\ d \notin blind' /\ clock' = clock
        BY <1>1, <1>5, <3>4, Zenon
      <4>3. View(d)' = C!Live(data[d])
        BY <2>1, <3>4, <4>2, BuildView, Zenon
      <4>4. QED  BY <3>4, <4>1, <4>3 DEF C!Live
    <3>5. QED  BY <3>1, <3>2, <3>3, <3>4, Zenon
  <2>5. C!CBitOp(op, d, k1, k2)
    <3>1. \A k \in {k1, k2} : abs[k].st # "unknown"
      BY <2>2, Zenon
    <3>2. QED  BY <1>1, <1>3, <2>3, <2>4, <3>1, Zenon DEF C!CBitOp, abs
  <2>6. QED  BY <2>5, Zenon
<1>6. QED  BY <1>4, <1>5, Zenon

LEMMA TickStep == ASSUME KInv, Tick PROVE C!CTick
<1>1. clock' = clock + 1 /\ keys' = keys /\ data' = data /\ blind' = blind
  BY Zenon DEF Tick
<1>2. ASSUME NEW k \in Keys
      PROVE  View(k)' = IF abs[k].e.ttl = "yes" /\ clock + 1 > abs[k].e.exp
                        THEN C!Gone ELSE abs[k]
  <2>0. Fresh.ttl = "no"
    BY Zenon DEF Fresh
  <2>1. CASE k \in blind
    <3>1. abs[k] = C!Unknown /\ View(k)' = C!Unknown
      BY <1>1, <2>1, Unsure, SameFresh, Zenon DEF View, C!Unknown
    <3>2. abs[k].e.ttl = "no"
      BY <2>0, <3>1, SameFresh DEF C!Unknown
    <3>3. QED  BY <3>1, <3>2, Zenon
  <2>2. CASE k \notin blind /\ (expired(k) \/ k \notin keys)
    <3>1. abs[k] = C!Gone
      BY <2>2, Known, Zenon
    <3>2. abs[k].e.ttl = "no"
      BY <2>0, <3>1, SameFresh DEF C!Gone
    <3>3. expired(k)' \/ k \notin keys'
      <4>1. clock \in Int /\ data[k] \in Entry
        BY DEF KInv, TypeOK
      <4>2. data[k].exp \in Int
        BY <4>1, Zenon DEF Entry
      <4>3. QED  BY <1>1, <2>2, <4>1, <4>2 DEF expired
    <3>4. View(k)' = C!Gone
      BY <1>1, <2>2, <3>3, SameFresh, Zenon DEF View, C!Gone
    <3>5. QED  BY <3>1, <3>2, <3>4, Zenon
  <2>3. CASE k \notin blind /\ ~expired(k) /\ k \in keys
    <3>1. abs[k] = C!Live(data[k])
      BY <2>3, Known, Zenon
    <3>2. abs[k].e = data[k]
      BY <3>1 DEF C!Live
    <3>3. expired(k)' <=> data[k].ttl = "yes" /\ clock + 1 > data[k].exp
      BY <1>1, <2>3, Zenon DEF expired
    <3>4. View(k)' = IF expired(k)' THEN C!Gone ELSE C!Live(data[k])
      BY <1>1, <2>3, SameFresh, Zenon DEF View, C!Gone, C!Live
    <3>5. QED  BY <3>1, <3>2, <3>3, <3>4, Zenon
  <2>4. QED  BY <2>1, <2>2, <2>3, Zenon
<1>3. QED  BY <1>1, <1>2, Zenon DEF C!CTick, abs

\* The sweeper changes nothing a reader sees.
LEMMA SweepStep == ASSUME KInv, Sweep PROVE abs' = abs /\ clock' = clock
<1>1. ASSUME NEW k \in Keys PROVE View(k)' = View(k)
  <2>1. clock' = clock /\ blind' = blind /\ (k \in keys' <=> k \in keys /\ ~expired(k))
    BY Zenon DEF Sweep
  <2>2. ~expired(k) => data'[k] = data[k]
    BY Zenon DEF Sweep
  <2>3. CASE k \in keys /\ ~expired(k)
    <3>1. expired(k)' <=> expired(k)
      BY <2>1, <2>2, <2>3, Zenon DEF expired
    <3>2. QED  BY <2>1, <2>2, <2>3, <3>1, Zenon DEF View
  <2>4. CASE ~(k \in keys /\ ~expired(k))
    BY <2>1, <2>4, Zenon DEF View
  <2>5. QED  BY <2>3, <2>4, Zenon
<1>2. QED  BY <1>1, Zenon DEF abs, Sweep

LEMMA ContractStep == ASSUME KInv, [Next]_vars PROVE [C!CNext]_(C!cvars)
<1>1. /\ Counters \subseteq Keys /\ Bitmaps \subseteq Keys /\ Lists \subseteq Keys
      /\ <<>> \in Texts /\ 0 \in Nums /\ PxArgs \subseteq Nat
      /\ \A a \in BitOpArgs : a[1] \in Keys /\ a[2] \in Keys /\ a[3] \in Keys
  BY KeyspaceAssumption, Zenon
<1>2. ASSUME NEW k \in Keys, NEW n \in Nums, NEW bs \in Texts, Set(k, n, bs, "no", 0)
      PROVE  C!CNext
  <2>1. C!CSet(k, n, bs, "no", 0)
    BY <1>2, SetStep, Zenon
  <2>2. QED  BY <2>1, Zenon DEF C!CNext
<1>3. ASSUME NEW k \in Keys, NEW n \in Nums, NEW bs \in Texts, NEW ms \in PxArgs,
             Set(k, n, bs, "yes", ms)
      PROVE  C!CNext
  <2>1. C!CSet(k, n, bs, "yes", ms)
    BY <1>1, <1>3, SetStep, Zenon
  <2>2. QED  BY <2>1, Zenon DEF C!CNext
<1>4. ASSUME NEW k \in Keys, NEW o \in Offsets, NEW bit \in {0, 1}, SetBit(k, o, bit)
      PROVE  C!CNext
  <2>1. C!CSetBit(k, o, bit)
    BY <1>4, SetBitStep, Zenon
  <2>2. QED  BY <2>1, Zenon DEF C!CNext
<1>5. ASSUME NEW k \in Keys, Incr(k) \/ RPush(k) \/ LPush(k) PROVE C!CNext
  <2>1. C!CIncr(k) \/ C!CPush(k) \/ C!CLose(k, k)
    BY <1>5, WriteStep, Zenon
  <2>2. QED  BY <2>1, Zenon DEF C!CNext
<1>6. ASSUME NEW op \in {"AND", "OR"}, NEW a \in BitOpArgs, BitOpTo(op, a[1], a[2], a[3])
      PROVE  C!CNext
  <2>1. C!CBitOp(op, a[1], a[2], a[3]) \/ \E k \in Keys : C!CLose(a[1], k)
    BY <1>1, <1>6, BitOpStep, Zenon
  <2>2. QED  BY <1>1, <2>1, Zenon DEF C!CNext
<1>7. ASSUME BitCountPanic PROVE C!CNext
  <2>1. \A k \in Keys : View(k)' = C!Gone
    BY <1>7, SameFresh, Zenon DEF BitCountPanic, View, C!Gone
  <2>2. C!CCrash
    BY <1>7, <2>1, Zenon DEF C!CCrash, BitCountPanic
  <2>3. QED  BY <2>2, Zenon DEF C!CNext
<1>8. ASSUME Tick PROVE C!CNext
  BY <1>8, TickStep, Zenon DEF C!CNext
<1>9. ASSUME Sweep \/ UNCHANGED vars PROVE UNCHANGED C!cvars
  <2>1. abs' = abs /\ clock' = clock
    BY <1>9, SweepStep, Zenon DEF vars, abs, View, expired
  <2>2. QED  BY <2>1, Zenon DEF C!cvars, abs
<1>10. QED  BY <1>1, <1>2, <1>3, <1>4, <1>5, <1>6, <1>7, <1>8, <1>9, Zenon DEF Next

\* Lazy expiry implements expiry.  GET, STRLEN, GETBIT and SETBIT cannot tell
\* store.go's map, its dead entries and its sweeper from a map whose keys vanish
\* the moment after their deadlines, except on keys that a command blind to
\* deadlines used after they had died and that were not SET since.
THEOREM LazyExpiryKeepsExpiry == Spec => KeepsExpiry
<1>1. Init => KInv /\ C!CInit
  <2>1. ASSUME Init PROVE C!CInit
    <3>1. \A k \in Keys : View(k) = C!Gone
      BY <2>1, SameFresh, Zenon DEF Init, View, C!Gone
    <3>2. QED  BY <2>1, <3>1, Zenon DEF Init, C!CInit
  <2>2. QED  BY <2>1, InitKInv, Zenon
<1>2. KInv /\ [Next]_vars => KInv' /\ [C!CNext]_(C!cvars)
  BY NextKInv, ContractStep, Zenon
<1>3. QED  BY <1>1, <1>2, PTL DEF Spec, KeepsExpiry, C!CSpec

--------------------------------------------------------------------------------
(* Offsets and bytes *)

\* A product grows with its second factor.
LEMMA TimesGrows ==
    ASSUME NEW n \in Nat, NEW a \in Nat, NEW b \in Nat, a <= b
    PROVE  n * a <= n * b /\ n * a \in Nat /\ n * b \in Nat
<1>1. PICK k \in Nat : b = a + k
  <2>1. b - a \in Nat /\ b = a + (b - a)
    OBVIOUS
  <2>2. QED  BY <2>1, Zenon
<1>2. n * (a + k) = n * a + n * k /\ n * k \in Nat /\ n * a \in Nat
  OBVIOUS
<1>3. QED  BY <1>1, <1>2

\* An offset is its byte's first offset and the place of its bit in the byte.
LEMMA Division ==
    ASSUME NEW o \in Nat
    PROVE  /\ o \div Width \in Nat /\ o % Width \in 0 .. Width - 1
           /\ o = Width * (o \div Width) + (o % Width)
BY ValuesAssumption

\* There is one way only to write an offset so.
LEMMA DivisionUnique ==
    ASSUME NEW q \in Nat, NEW r \in 0 .. Width - 1, NEW p \in Nat, NEW t \in 0 .. Width - 1,
           Width * q + r = Width * p + t
    PROVE  q = p /\ r = t
<1>1. ASSUME NEW a \in Nat, NEW b \in Nat, NEW x \in 0 .. Width - 1, NEW y \in 0 .. Width - 1,
             a < b
      PROVE  Width * a + x # Width * b + y
  <2>1. Width * (a + 1) <= Width * b /\ Width * b \in Nat /\ Width * a \in Nat
    <3>1. a + 1 \in Nat /\ a + 1 <= b /\ a <= b /\ Width \in Nat
      BY <1>1, ValuesAssumption
    <3>2. QED  BY <3>1, TimesGrows, Zenon
  <2>2. Width * (a + 1) = Width * a + Width
    BY ValuesAssumption
  <2>3. QED  BY <2>1, <2>2, ValuesAssumption
<1>2. ~ (q < p) /\ ~ (p < q)
  BY <1>1, Zenon
<1>3. q = p
  BY <1>2
<1>4. Width * q \in Nat
  BY ValuesAssumption, TimesGrows
<1>5. QED  BY <1>3, <1>4

\* The byte and the bit determine the offset, and each pair is the place of one.
LEMMA Places ==
    /\ \A o \in Nat : ByteIdx(o) \in Nat /\ Mask(o) \in 0 .. Width - 1
    /\ \A o, p \in Nat : ByteIdx(o) = ByteIdx(p) /\ Mask(o) = Mask(p) => o = p
    /\ \A i \in Nat, m \in 0 .. Width - 1 : \E o \in Nat : ByteIdx(o) = i /\ Mask(o) = m
<1>1. ASSUME NEW o \in Nat PROVE ByteIdx(o) \in Nat /\ Mask(o) \in 0 .. Width - 1
  BY Division, ValuesAssumption DEF ByteIdx, Mask
<1>2. ASSUME NEW o \in Nat, NEW p \in Nat, ByteIdx(o) = ByteIdx(p), Mask(o) = Mask(p) PROVE o = p
  <2>1. /\ o % Width \in 0 .. Width - 1 /\ p % Width \in 0 .. Width - 1
        /\ o = Width * (o \div Width) + (o % Width)
        /\ p = Width * (p \div Width) + (p % Width)
    BY Division, Zenon
  <2>2. o \div Width = p \div Width
    BY <1>2, Zenon DEF ByteIdx
  <2>3. o % Width = p % Width
    BY <1>2, <2>1, ValuesAssumption DEF Mask
  <2>4. QED  BY <2>1, <2>2, <2>3, Zenon
<1>3. ASSUME NEW i \in Nat, NEW m \in 0 .. Width - 1
      PROVE  \E o \in Nat : ByteIdx(o) = i /\ Mask(o) = m
  <2> DEFINE r == Width - 1 - m
             o == Width * i + r
  <2>1. r \in 0 .. Width - 1 /\ r \in Nat /\ Width - 1 - r = m
    BY ValuesAssumption
  <2>2. o \in Nat
    <3>1. Width * i \in Nat
      BY ValuesAssumption, TimesGrows
    <3>2. QED  BY <2>1, <3>1
  <2> HIDE DEF r, o
  <2>3. /\ o \div Width \in Nat /\ o % Width \in 0 .. Width - 1
        /\ o = Width * (o \div Width) + (o % Width)
    BY <2>2, Division, Zenon
  <2>4. o = Width * i + r
    BY Zenon DEF o
  <2>5. o \div Width = i /\ o % Width = r
    BY <2>1, <2>3, <2>4, DivisionUnique, ZenonT(60)
  <2>6. QED  BY <2>1, <2>2, <2>5, Zenon DEF ByteIdx, Mask
<1>4. QED  BY <1>1, <1>2, <1>3, Zenon

\* The one-bits of a string: those within its length are all.
LEMMA OnesOf ==
    ASSUME NEW s \in Seq(Byte), NEW o
    PROVE  o \in Ones(s) <=> o \in Nat /\ Mask(o) \in ByteAt(s, ByteIdx(o))
<1>1. Len(s) \in Nat /\ Width \in Nat \ {0} /\ 1 # 0
  BY ValuesAssumption
<1>2. ASSUME o \in Ones(s) PROVE o \in Nat /\ Mask(o) \in ByteAt(s, ByteIdx(o))
  <2>1. o \in 0 .. Len(s) * Width - 1 /\ GetBitIn(s, o) = 1
    BY <1>2, Zenon DEF Ones
  <2>2. o \in Nat
    BY <2>1
  <2>3. QED  BY <1>1, <2>1, <2>2, Zenon DEF GetBitIn
<1>3. ASSUME o \in Nat, Mask(o) \in ByteAt(s, ByteIdx(o)) PROVE o \in Ones(s)
  <2>1. ByteIdx(o) < Len(s)
    BY <1>3, Zenon DEF ByteAt
  <2>2. PICK q \in Nat, r \in 0 .. Width - 1 : q = ByteIdx(o) /\ o = Width * q + r
    BY <1>3, Division, Zenon DEF ByteIdx
  <2>3. q + 1 <= Len(s) /\ q + 1 \in Nat
    BY <1>1, <2>1, <2>2
  <2>4. Width * (q + 1) <= Width * Len(s) /\ Width * Len(s) \in Nat
    BY <1>1, <2>3, TimesGrows, Zenon
  <2>5. Width * (q + 1) = Width * q + Width /\ Width * Len(s) = Len(s) * Width /\ Width * q \in Nat
    BY <1>1
  <2>6. o \in 0 .. Len(s) * Width - 1
    <3>1. PICK a, b : a = Width * q /\ b = Width * Len(s)
      BY Zenon
    <3>2. a \in Nat /\ b \in Nat /\ a + Width <= b /\ o = a + r /\ Len(s) * Width = b
      BY <2>2, <2>4, <2>5, <3>1, Zenon
    <3>3. o \in 0 .. b - 1
      BY <1>1, <1>3, <3>2
    <3>4. QED  BY <3>2, <3>3, Zenon
  <2>7. QED  BY <1>3, <2>6, Zenon DEF Ones, GetBitIn
<1>4. QED  BY <1>2, <1>3, Zenon

\* Two intervals from 1 are the same only if they end at the same place.
LEMMA SameEnd == ASSUME NEW m \in Nat, NEW n \in Nat, 1 .. m = 1 .. n PROVE m = n
<1>1. \A i \in Nat : (1 <= i /\ i <= m) <=> (1 <= i /\ i <= n)
  <2>1. \A i \in Nat : (i \in 1 .. m <=> 1 <= i /\ i <= m) /\ (i \in 1 .. n <=> 1 <= i /\ i <= n)
    OBVIOUS
  <2>2. QED  BY <2>1, Zenon
<1>2. QED  BY <1>1

\* The bytes of a string after SETBIT: one byte is another, wherever the string ended.
LEMMA SetBitBytes ==
    ASSUME NEW s \in Seq(Byte), NEW o \in Nat, NEW bit, NEW i \in Nat
    PROVE  ByteAt(SetBitIn(s, o, bit), i) =
              IF i # ByteIdx(o) THEN ByteAt(s, i)
              ELSE IF bit = 1 THEN ByteAt(s, i) \cup {Mask(o)} ELSE ByteAt(s, i) \ {Mask(o)}
<1> DEFINE b == ByteIdx(o)
           n == Longer(b + 1, Len(s))
           g == Grown(s, b + 1)
           h == SetBitIn(s, o, bit)
<1>1. b \in Nat /\ Len(s) \in Nat
  <2>1. Len(s) \in Nat
    OBVIOUS
  <2>2. QED  BY <2>1, Places, Zenon
<1> HIDE DEF b
<1>2. n \in Nat /\ b + 1 \in 1 .. n /\ Len(s) <= n
  BY <1>1 DEF Longer
<1>3. g = [j \in 1 .. n |-> ByteAt(s, j - 1)]
  BY Zenon DEF Grown
<1> HIDE DEF n, g
<1>4. h = [g EXCEPT ![b + 1] = IF bit = 1 THEN @ \cup {Mask(o)} ELSE @ \ {Mask(o)}]
  BY Zenon DEF SetBitIn, g, b
<1> HIDE DEF h
<1>5. /\ DOMAIN h = 1 .. n
      /\ \A j \in 1 .. n : h[j] = IF j # b + 1 THEN ByteAt(s, j - 1)
                                 ELSE IF bit = 1 THEN ByteAt(s, j - 1) \cup {Mask(o)}
                                      ELSE ByteAt(s, j - 1) \ {Mask(o)}
  BY <1>2, <1>3, <1>4, Zenon
<1>6. Len(h) = n
  <2>1. h \in Seq(Byte)
    BY SetBitType, Zenon DEF h
  <2>2. DOMAIN h = 1 .. Len(h) /\ Len(h) \in Nat
    BY <2>1
  <2>3. 1 .. Len(h) = 1 .. n
    BY <1>5, <2>2, Zenon
  <2>4. QED  BY <1>2, <2>2, <2>3, SameEnd, Zenon
<1>7. CASE i < n
  <2>1. i + 1 \in 1 .. n /\ (i + 1) - 1 = i /\ (i + 1 = b + 1 <=> i = b)
    BY <1>1, <1>2, <1>7
  <2>2. ByteAt(h, i) = h[i + 1]
    BY <1>6, <1>7, Zenon DEF ByteAt
  <2>3. QED  BY <1>5, <2>1, <2>2, Zenon DEF h, b
<1>8. CASE ~ (i < n)
  <2>1. i # b /\ ~ (i < Len(s))
    BY <1>1, <1>2, <1>8
  <2>2. ByteAt(h, i) = {} /\ ByteAt(s, i) = {}
    BY <1>6, <1>8, <2>1, Zenon DEF ByteAt
  <2>3. QED  BY <2>1, <2>2, Zenon DEF h, b
<1>9. QED  BY <1>7, <1>8, Zenon

\* The bytes of what BITOP computes, wherever the shorter string ends.
LEMMA BitOpBytes ==
    ASSUME NEW s \in Seq(Byte), NEW t \in Seq(Byte), NEW op, NEW i \in Nat
    PROVE  ByteAt(BitOp(op, s, t), i) = IF op = "AND" THEN ByteAt(s, i) \cap ByteAt(t, i)
                                        ELSE ByteAt(s, i) \cup ByteAt(t, i)
<1> DEFINE n == Longer(Len(s), Len(t))
           h == BitOp(op, s, t)
<1>1. n \in Nat /\ Len(s) <= n /\ Len(t) <= n /\ Len(s) \in Nat /\ Len(t) \in Nat
  BY DEF Longer
<1> HIDE DEF n
<1>2. h = [j \in 1 .. n |-> IF op = "AND" THEN ByteAt(s, j - 1) \cap ByteAt(t, j - 1)
                            ELSE ByteAt(s, j - 1) \cup ByteAt(t, j - 1)]
  BY Zenon DEF BitOp, n
<1> HIDE DEF h
<1>3. Len(h) = n
  <2>1. h \in Seq(Byte)
    BY BitOpType, Zenon DEF h
  <2>2. DOMAIN h = 1 .. Len(h) /\ Len(h) \in Nat
    BY <2>1
  <2>3. 1 .. Len(h) = 1 .. n
    BY <1>2, <2>2, Zenon
  <2>4. QED  BY <1>1, <2>2, <2>3, SameEnd, Zenon
<1>4. CASE i < n
  <2>1. i + 1 \in 1 .. n /\ (i + 1) - 1 = i
    BY <1>1, <1>4
  <2>2. ByteAt(h, i) = h[i + 1]
    BY <1>3, <1>4, Zenon DEF ByteAt
  <2>3. QED  BY <1>2, <2>1, <2>2, Zenon DEF h
<1>5. CASE ~ (i < n)
  <2>1. ~ (i < Len(s)) /\ ~ (i < Len(t))
    BY <1>1, <1>5
  <2>2. ByteAt(h, i) = {} /\ ByteAt(s, i) = {} /\ ByteAt(t, i) = {}
    BY <1>3, <1>5, <2>1, Zenon DEF ByteAt
  <2>3. QED  BY <2>2, Zenon DEF h
<1>6. QED  BY <1>4, <1>5, Zenon

\* SETBIT adds the offset to the one-bits, or removes it, and BITOP intersects
\* and unites them.
LEMMA OnesAfter ==
    ASSUME NEW s \in Seq(Byte), NEW t \in Seq(Byte)
    PROVE  /\ \A o \in Nat : /\ Ones(SetBitIn(s, o, 1)) = Ones(s) \cup {o}
                             /\ Ones(SetBitIn(s, o, 0)) = Ones(s) \ {o}
           /\ Ones(BitOp("AND", s, t)) = Ones(s) \cap Ones(t)
           /\ Ones(BitOp("OR", s, t)) = Ones(s) \cup Ones(t)
<1>1. ASSUME NEW o \in Nat
      PROVE  /\ Ones(SetBitIn(s, o, 1)) = Ones(s) \cup {o}
             /\ Ones(SetBitIn(s, o, 0)) = Ones(s) \ {o}
  <2>1. \A bit : SetBitIn(s, o, bit) \in Seq(Byte)
    BY SetBitType, Zenon
  <2>2. ASSUME NEW bit, NEW p
        PROVE  p \in Ones(SetBitIn(s, o, bit)) <=>
                  /\ p \in Nat
                  /\ Mask(p) \in IF ByteIdx(p) # ByteIdx(o) THEN ByteAt(s, ByteIdx(p))
                                 ELSE IF bit = 1 THEN ByteAt(s, ByteIdx(p)) \cup {Mask(o)}
                                      ELSE ByteAt(s, ByteIdx(p)) \ {Mask(o)}
    <3>1. p \in Ones(SetBitIn(s, o, bit)) <=>
             p \in Nat /\ Mask(p) \in ByteAt(SetBitIn(s, o, bit), ByteIdx(p))
      BY <2>1, OnesOf, Zenon
    <3>2. p \in Nat => ByteIdx(p) \in Nat
      BY Places, Zenon
    <3>3. p \in Nat => ByteAt(SetBitIn(s, o, bit), ByteIdx(p)) =
                          IF ByteIdx(p) # ByteIdx(o) THEN ByteAt(s, ByteIdx(p))
                          ELSE IF bit = 1 THEN ByteAt(s, ByteIdx(p)) \cup {Mask(o)}
                               ELSE ByteAt(s, ByteIdx(p)) \ {Mask(o)}
      BY <3>2, SetBitBytes, Zenon
    <3>4. QED  BY <3>1, <3>3, Zenon
  <2>3. \A p : p \in Ones(s) <=> p \in Nat /\ Mask(p) \in ByteAt(s, ByteIdx(p))
    BY OnesOf, Zenon
  <2>4. \A p \in Nat : ByteIdx(p) = ByteIdx(o) /\ Mask(p) = Mask(o) <=> p = o
    BY Places, Zenon
  <2>5. ASSUME NEW p PROVE p \in Ones(SetBitIn(s, o, 1)) <=> p \in Ones(s) \cup {o}
    <3>1. p \in Ones(SetBitIn(s, o, 1)) <=>
                  /\ p \in Nat
                  /\ Mask(p) \in IF ByteIdx(p) # ByteIdx(o) THEN ByteAt(s, ByteIdx(p))
                                 ELSE ByteAt(s, ByteIdx(p)) \cup {Mask(o)}
      BY <2>2, Zenon
    <3>2. QED  BY <2>3, <2>4, <3>1, Zenon
  <2>6. ASSUME NEW p PROVE p \in Ones(SetBitIn(s, o, 0)) <=> p \in Ones(s) \ {o}
    <3>1. 0 # 1
      OBVIOUS
    <3>2. p \in Ones(SetBitIn(s, o, 0)) <=>
                  /\ p \in Nat
                  /\ Mask(p) \in IF ByteIdx(p) # ByteIdx(o) THEN ByteAt(s, ByteIdx(p))
                                 ELSE ByteAt(s, ByteIdx(p)) \ {Mask(o)}
      BY <2>2, <3>1, Zenon
    <3>3. QED  BY <2>3, <2>4, <3>2, Zenon
  <2>7. QED  BY <2>5, <2>6, Zenon
<1>2. ASSUME NEW op, NEW p
      PROVE  p \in Ones(BitOp(op, s, t)) <=>
                IF op = "AND" THEN p \in Ones(s) /\ p \in Ones(t)
                ELSE p \in Ones(s) \/ p \in Ones(t)
  <2>1. BitOp(op, s, t) \in Seq(Byte)
    BY BitOpType, Zenon
  <2>2. p \in Ones(BitOp(op, s, t)) <=>
           p \in Nat /\ Mask(p) \in ByteAt(BitOp(op, s, t), ByteIdx(p))
    BY <2>1, OnesOf, Zenon
  <2>3. /\ p \in Ones(s) <=> p \in Nat /\ Mask(p) \in ByteAt(s, ByteIdx(p))
        /\ p \in Ones(t) <=> p \in Nat /\ Mask(p) \in ByteAt(t, ByteIdx(p))
    BY OnesOf, Zenon
  <2>4. p \in Nat => ByteIdx(p) \in Nat
    BY Places, Zenon
  <2>5. p \in Nat => ByteAt(BitOp(op, s, t), ByteIdx(p)) =
                        IF op = "AND" THEN ByteAt(s, ByteIdx(p)) \cap ByteAt(t, ByteIdx(p))
                        ELSE ByteAt(s, ByteIdx(p)) \cup ByteAt(t, ByteIdx(p))
    <3>1. \A i \in Nat : ByteAt(BitOp(op, s, t), i) = IF op = "AND" THEN ByteAt(s, i) \cap ByteAt(t, i)
                                                       ELSE ByteAt(s, i) \cup ByteAt(t, i)
      BY BitOpBytes
    <3>2. QED  BY <2>4, <3>1, Zenon
  <2>6. QED  BY <2>2, <2>3, <2>5, Zenon
<1>3. Ones(BitOp("AND", s, t)) = Ones(s) \cap Ones(t)
  BY <1>2, Zenon
<1>4. "OR" # "AND"
  BY Zenon
<1>5. Ones(BitOp("OR", s, t)) = Ones(s) \cup Ones(t)
  <2>1. \A p : p \in Ones(BitOp("OR", s, t)) <=> p \in Ones(s) \/ p \in Ones(t)
    BY <1>2, <1>4, Zenon
  <2>2. QED  BY <2>1, Zenon
<1>6. QED  BY <1>1, <1>3, <1>5, Zenon

\* A string is the set of its one-bits, for any bytes, widths and lengths: SETBIT
\* changes the offset it is given and no other, though it grows the string, and
\* BITOP pads the shorter string.
THEOREM StringsAreBitSets == Spec => []BitsAreASet
<1>1. ASSUME TypeOK PROVE BitsAreASet
  <2>1. ASSUME NEW k \in Bitmaps PROVE data[k].bytes \in Seq(Byte)
    <3>1. data[k] \in Entry
      BY <1>1, KeyspaceAssumption, Zenon DEF TypeOK
    <3>2. QED  BY <3>1, Zenon DEF Entry
  <2>2. \A o \in Offsets : o \in Nat
    BY KeyspaceAssumption, Zenon
  <2>3. QED  BY <2>1, <2>2, OnesAfter, Zenon DEF BitsAreASet
<1>2. QED  BY <1>1, KeyspaceTyped, PTL

--------------------------------------------------------------------------------
(* Ranges *)

\* LRANGE: the positions between two ends of either sign.
LEMMA LRangeExact ==
    ASSUME NEW n \in Nat, NEW i \in Int, NEW j \in Int
    PROVE  LRange(n, i, j) = {p \in 0 .. n - 1 : /\ (IF i < 0 THEN n + i ELSE i) <= p
                                                 /\ p <= (IF j < 0 THEN n + j ELSE j)}
<1>1. ASSUME NEW p
      PROVE  p \in LRange(n, i, j) <=> p \in {q \in 0 .. n - 1 :
                /\ (IF i < 0 THEN n + i ELSE i) <= q /\ q <= (IF j < 0 THEN n + j ELSE j)}
  BY DEF LRange
<1>2. QED  BY <1>1, Zenon

\* BITCOUNT's last byte: of the bytes of the string it looks at those in the range.
LEMMA LastByteExact ==
    ASSUME NEW s \in Seq(Byte), NEW i \in Nat, NEW j \in Nat, NEW x \in Nat, x < Len(s)
    PROVE  x \in i .. LastByte(s, i, j) <=> (i = 0 /\ j = 0) \/ x \in i .. j
BY DEF LastByte

\* BITCOUNT counts the one-bits in the range.
LEMMA CountBitExact ==
    ASSUME NEW s \in Seq(Byte), NEW i \in Nat, NEW j \in Nat
    PROVE  CountBit(s, i, j) =
              Cardinality({o \in Ones(s) : (i = 0 /\ j = 0) \/ ByteIdx(o) \in i .. j})
<1> DEFINE O == {o \in Ones(s) : (i = 0 /\ j = 0) \/ ByteIdx(o) \in i .. j}
           B == UNION {{x} \X ByteAt(s, x) : x \in i .. LastByte(s, i, j)}
           f == [o \in O |-> <<ByteIdx(o), Mask(o)>>]
<1>1. ASSUME NEW o \in Ones(s)
      PROVE  /\ o \in Nat /\ Mask(o) \in ByteAt(s, ByteIdx(o))
             /\ ByteIdx(o) \in Nat /\ ByteIdx(o) < Len(s)
  <2>1. o \in Nat /\ Mask(o) \in ByteAt(s, ByteIdx(o))
    BY OnesOf, Zenon
  <2>2. QED  BY <2>1, Places, Zenon DEF ByteAt
<1>2. CASE i > Len(s) \/ i > j
  <2>1. ASSUME NEW o \in O PROVE FALSE
    <3>1. /\ ByteIdx(o) \in Nat /\ ByteIdx(o) < Len(s) /\ Len(s) \in Nat
          /\ (i = 0 /\ j = 0) \/ ByteIdx(o) \in i .. j
      <4>1. Len(s) \in Nat
        OBVIOUS
      <4>2. QED  BY <1>1, <4>1, Zenon
    <3>2. PICK b : b = ByteIdx(o)
      BY Zenon
    <3>3. b \in Nat /\ b < Len(s) /\ Len(s) \in Nat /\ ((i = 0 /\ j = 0) \/ b \in i .. j)
      BY <3>1, <3>2, Zenon
    <3>4. QED  BY <1>2, <3>3
  <2>2. O = {}
    BY <2>1, Zenon
  <2>3. Cardinality(O) = 0
    BY <2>2, FS_EmptySet, Zenon
  <2>4. CountBit(s, i, j) = 0
    BY <1>2, Zenon DEF CountBit
  <2>5. QED  BY <2>3, <2>4, Zenon
<1>3. CASE ~ (i > Len(s) \/ i > j)
  <2>1. IsFiniteSet(O)
    <3>1. IsFiniteSet(0 .. Len(s) * Width - 1)
      <4>1. 0 \in Int /\ Len(s) * Width - 1 \in Int
        BY ValuesAssumption
      <4>2. QED  BY <4>1, FS_Interval, Zenon
    <3>2. O \in SUBSET (0 .. Len(s) * Width - 1)
      BY Zenon DEF Ones
    <3>3. QED  BY <3>1, <3>2, FS_Subset, Zenon
  <2>2. ASSUME NEW x \in Nat, NEW m \in ByteAt(s, x)
        PROVE  x \in i .. LastByte(s, i, j) <=> (i = 0 /\ j = 0) \/ x \in i .. j
    <3>1. x < Len(s)
      BY <2>2, Zenon DEF ByteAt
    <3>2. QED  BY <3>1, LastByteExact, Zenon
  <2>3. ASSUME NEW o \in O PROVE <<ByteIdx(o), Mask(o)>> \in B
    <3>1. /\ Mask(o) \in ByteAt(s, ByteIdx(o)) /\ ByteIdx(o) \in Nat
          /\ (i = 0 /\ j = 0) \/ ByteIdx(o) \in i .. j
      BY <1>1, Zenon
    <3>2. ByteIdx(o) \in i .. LastByte(s, i, j)
      BY <2>2, <3>1, Zenon
    <3>3. <<ByteIdx(o), Mask(o)>> \in {ByteIdx(o)} \X ByteAt(s, ByteIdx(o))
      BY <3>1, Zenon
    <3>4. QED  BY <3>2, <3>3, Zenon
  <2>4. ASSUME NEW y \in B PROVE \E o \in O : y = <<ByteIdx(o), Mask(o)>>
    <3>1. PICK x \in i .. LastByte(s, i, j) : y \in {x} \X ByteAt(s, x)
      BY Zenon
    <3>2. PICK m \in ByteAt(s, x) : y = <<x, m>>
      BY <3>1
    <3>3. x \in Nat
      BY <3>1
    <3>4. m \in 0 .. Width - 1
      BY <3>2, <3>3, ByteAtType, Zenon DEF Byte
    <3>5. PICK o \in Nat : ByteIdx(o) = x /\ Mask(o) = m
      BY <3>3, <3>4, Places, Zenon
    <3>6. o \in Ones(s)
      BY <3>2, <3>5, OnesOf, Zenon
    <3>7. (i = 0 /\ j = 0) \/ ByteIdx(o) \in i .. j
      BY <2>2, <3>1, <3>2, <3>3, <3>5, Zenon
    <3>8. QED  BY <3>2, <3>5, <3>6, <3>7, Zenon
  <2>5. ASSUME NEW o \in O, NEW p \in O, <<ByteIdx(o), Mask(o)>> = <<ByteIdx(p), Mask(p)>>
        PROVE  o = p
    <3>1. ByteIdx(o) = ByteIdx(p) /\ Mask(o) = Mask(p)
      BY <2>5, Zenon
    <3>2. o \in Nat /\ p \in Nat
      BY <1>1, Zenon
    <3>3. QED  BY <3>1, <3>2, Places, Zenon
  <2> HIDE DEF O, B
  <2>6. f \in Bijection(O, B)
    <3>1. f \in [O -> B]
      BY <2>3, Zenon
    <3>2. f \in Injection(O, B)
      BY <2>5, <3>1, Zenon DEF Injection, IsInjective
    <3>3. f \in Surjection(O, B)
      BY <2>4, <3>1, Zenon DEF Surjection
    <3>4. QED  BY <3>2, <3>3, Zenon DEF Bijection
  <2>7. Cardinality(B) = Cardinality(O)
    BY <2>1, <2>6, FS_Bijection, Zenon DEF ExistsBijection
  <2>8. CountBit(s, i, j) = Cardinality(B)
    BY <1>3, Zenon DEF CountBit, B
  <2>9. QED  BY <2>7, <2>8, Zenon DEF O
<1>4. QED  BY <1>2, <1>3, Zenon

\* LRANGE returns the positions between its two ends, and BITCOUNT counts the
\* one-bits of the bytes between its two, for lists and strings of any length: no
\* clamping of an end drops or adds one.
THEOREM RangesAreExact == Spec => []RangesExact
<1>1. ASSUME TypeOK PROVE RangesExact
  <2>1. ASSUME NEW k \in Keys PROVE data[k].bytes \in Seq(Byte) /\ data[k].list \in Nat
    <3>1. data[k] \in Entry
      BY <1>1, Zenon DEF TypeOK
    <3>2. QED  BY <3>1, Zenon DEF Entry
  <2>2. \A i \in -(MaxLen + 1) .. MaxLen + 1 : i \in Int
    BY KeyspaceAssumption
  <2>3. \A q \in Seq(Byte) : \A i \in 0 .. Len(q) + 1 : i \in Nat
    OBVIOUS
  <2>4. ASSUME NEW k \in Keys, NEW i \in -(MaxLen + 1) .. MaxLen + 1,
               NEW j \in -(MaxLen + 1) .. MaxLen + 1
        PROVE  LRange(data[k].list, i, j) =
                  {p \in 0 .. data[k].list - 1 : /\ (IF i < 0 THEN data[k].list + i ELSE i) <= p
                                                 /\ p <= (IF j < 0 THEN data[k].list + j ELSE j)}
    <3>1. data[k].list \in Nat /\ i \in Int /\ j \in Int
      BY <2>1, <2>2, Zenon
    <3>2. QED  BY <3>1, LRangeExact
  <2>5. ASSUME NEW k \in Keys, NEW i \in 0 .. Len(data[k].bytes) + 1,
               NEW j \in 0 .. Len(data[k].bytes) + 1
        PROVE  CountBit(data[k].bytes, i, j) =
                  Cardinality({o \in Ones(data[k].bytes) : (i = 0 /\ j = 0) \/ ByteIdx(o) \in i .. j})
    <3>1. data[k].bytes \in Seq(Byte) /\ i \in Nat /\ j \in Nat
      BY <2>1, <2>3, Zenon
    <3>2. QED  BY <3>1, CountBitExact, Zenon
  <2>6. QED  BY <2>4, <2>5, Zenon DEF RangesExact
<1>2. QED  BY <1>1, KeyspaceTyped, PTL

================================================================================
