---------------------------- MODULE WritePathProofs ----------------------------
(***************************************************************************)
(* For any number of connections, commands and stops and any size of the   *)
(* link: on keys whose commands did not overlap the file and the replica   *)
(* agree with the store, and a stop loses at most one answered command per *)
(* connection.                                                             *)
(***************************************************************************)
EXTENDS WritePath, FiniteSetTheorems, TLAPS

--------------------------------------------------------------------------------
(* Replaying a file *)

\* Every non-empty set of natural numbers has a least member.
LEMMA LeastNat ==
    ASSUME NEW T, T \subseteq Nat, T # {}
    PROVE  \E m \in T : \A n \in T : m <= n
<1>1. PICK m \in T : \A n \in T : ~ (<<n, m>> \in {s \in Nat \X Nat : s[1] < s[2]})
  BY NatLessThanWellFounded, WFMin, Zenon DEF OpToRel
<1>2. \A n \in T : ~ (n < m)
  BY <1>1, Zenon
<1>3. QED  BY <1>2

\* st lists the states that a replay of the first n commands of f goes through.
IsReplay(f, n, st) ==
    st = [i \in 0 .. n |-> IF i = 0 THEN Nothing ELSE After(st[i - 1], f[i])]

\* What a replay looks like at each place.
LEMMA ReplayAt ==
    ASSUME NEW f, NEW n \in Nat, NEW st, IsReplay(f, n, st)
    PROVE  /\ st[0] = Nothing
           /\ \A i \in 1 .. n : st[i] = After(st[i - 1], f[i])
<1>1. \A i \in 0 .. n : st[i] = IF i = 0 THEN Nothing ELSE After(st[i - 1], f[i])
  BY Zenon DEF IsReplay
<1>2. 0 \in 0 .. n /\ \A i \in 1 .. n : i \in 0 .. n /\ i # 0
  OBVIOUS
<1>3. QED  BY <1>1, <1>2, Zenon

\* Every number of commands can be replayed.
LEMMA ReplayExists ==
    ASSUME NEW f, NEW n \in Nat
    PROVE  \E st : IsReplay(f, n, st)
<1> DEFINE T == {k \in Nat : ~ \E st : IsReplay(f, k, st)}
<1> SUFFICES ASSUME T # {} PROVE FALSE
  BY Zenon
<1>1. PICK m \in T : \A k \in T : m <= k
  BY LeastNat, Zenon
<1>2. m \in Nat /\ ~ \E st : IsReplay(f, m, st)
  BY Zenon
<1>3. CASE m = 0
  <2> DEFINE st == [i \in 0 .. 0 |-> Nothing]
  <2>1. \A i \in 0 .. 0 : i = 0
    OBVIOUS
  <2>2. st = [i \in 0 .. 0 |-> IF i = 0 THEN Nothing ELSE After(st[i - 1], f[i])]
    BY <2>1, Zenon
  <2>3. QED  BY <1>2, <1>3, <2>2, Zenon DEF IsReplay
<1>4. CASE m # 0
  <2>1. m - 1 \in Nat /\ ~ (m <= m - 1)
    BY <1>2, <1>4
  <2>2. PICK s : IsReplay(f, m - 1, s)
    BY <1>1, <2>1, Zenon
  <2>3. s[0] = Nothing /\ \A i \in 1 .. m - 1 : s[i] = After(s[i - 1], f[i])
    BY <2>1, <2>2, ReplayAt, Zenon
  <2> DEFINE st == [i \in 0 .. m |-> IF i < m THEN s[i] ELSE After(s[m - 1], f[m])]
  <2>4. ASSUME NEW i \in 0 .. m
        PROVE  st[i] = IF i = 0 THEN Nothing ELSE After(st[i - 1], f[i])
    <3>1. st[i] = IF i < m THEN s[i] ELSE After(s[m - 1], f[m])
      BY Zenon
    <3>2. i # 0 => i - 1 \in 0 .. m /\ i - 1 < m
      BY <1>2
    <3>3. i # 0 => st[i - 1] = s[i - 1]
      BY <3>2, Zenon
    <3> HIDE DEF st
    <3>4. CASE i = 0
      BY <1>2, <1>4, <2>3, <3>1, <3>4
    <3>5. CASE i # 0 /\ i < m
      <4>1. i \in 1 .. m - 1
        BY <1>2, <3>5
      <4>2. QED  BY <2>3, <3>1, <3>3, <3>5, <4>1, Zenon
    <3>6. CASE i = m
      <4>1. ~ (i < m)
        BY <1>2, <3>6
      <4>2. QED  BY <1>4, <3>1, <3>3, <3>6, <4>1, Zenon
    <3>7. i = 0 \/ (i # 0 /\ i < m) \/ i = m
      BY <1>2
    <3>8. QED  BY <3>4, <3>5, <3>6, <3>7, Zenon
  <2>5. st = [i \in 0 .. m |-> IF i = 0 THEN Nothing ELSE After(st[i - 1], f[i])]
    BY <2>4, Zenon
  <2>6. QED  BY <1>2, <2>5, Zenon DEF IsReplay
<1>5. QED  BY <1>3, <1>4, Zenon

\* A replay goes from no state, one command at a time.
LEMMA StatesReplay ==
    ASSUME NEW f, Len(f) \in Nat
    PROVE  IsReplay(f, Len(f), States(f))
<1>1. PICK st : IsReplay(f, Len(f), st)
  BY ReplayExists, Zenon
<1>2. States(f) = CHOOSE s : IsReplay(f, Len(f), s)
  BY Zenon DEF States, IsReplay
<1>3. QED  BY <1>1, <1>2, Zenon

\* A command at the end of the file is replayed after all the others.
LEMMA StatesAppend ==
    ASSUME NEW f \in Seq(Commands), NEW x \in Commands
    PROVE  States(Append(f, x))[Len(f) + 1] = After(States(f)[Len(f)], x)
<1> DEFINE n == Len(f)
           g == Append(f, x)
           T == {i \in Nat : i <= n /\ States(f)[i] # States(g)[i]}
<1>1. /\ n \in Nat /\ Len(g) = n + 1 /\ Len(g) \in Nat /\ g[n + 1] = x
      /\ \A i \in 1 .. n : g[i] = f[i]
  OBVIOUS
<1>2. States(f)[0] = Nothing /\ \A i \in 1 .. n : States(f)[i] = After(States(f)[i - 1], f[i])
  BY <1>1, StatesReplay, ReplayAt, Zenon
<1>3. /\ States(g)[0] = Nothing
      /\ \A i \in 1 .. n + 1 : States(g)[i] = After(States(g)[i - 1], g[i])
  <2>1. IsReplay(g, Len(g), States(g))
    BY <1>1, StatesReplay, Zenon
  <2> HIDE DEF g
  <2>2. IsReplay(g, n + 1, States(g)) /\ n + 1 \in Nat
    BY <1>1, <2>1, Zenon
  <2>3. QED  BY <2>2, ReplayAt, Zenon
<1> HIDE DEF n, g
<1>4. T = {}
  <2> SUFFICES ASSUME T # {} PROVE FALSE
    OBVIOUS
  <2>1. PICK m \in T : \A k \in T : m <= k
    BY LeastNat, Zenon
  <2>2. m \in Nat /\ m <= n /\ States(f)[m] # States(g)[m]
    BY <2>1, Zenon
  <2>3. m # 0
    BY <1>2, <1>3, <2>2, Zenon
  <2>4. m - 1 \in Nat /\ m - 1 <= n /\ ~ (m <= m - 1) /\ m \in 1 .. n /\ m \in 1 .. n + 1
    BY <1>1, <2>2, <2>3
  <2>5. States(f)[m - 1] = States(g)[m - 1]
    BY <2>1, <2>4, Zenon
  <2>6. QED  BY <1>1, <1>2, <1>3, <2>2, <2>4, <2>5, Zenon
<1>5. n \in Nat /\ n <= n /\ n + 1 \in 1 .. n + 1 /\ (n + 1) - 1 = n
  BY <1>1
<1>6. States(f)[n] = States(g)[n]
  BY <1>4, <1>5, Zenon
<1>7. States(g)[n + 1] = After(States(g)[n], x)
  BY <1>1, <1>3, <1>5, Zenon
<1>8. QED  BY <1>6, <1>7, Zenon DEF n, g

--------------------------------------------------------------------------------
(* Applying what is in the connection *)

\* A replica whose list is l comes to have the list m by applying q.
Reaches(l, q, m) ==
    \E st : /\ st[0] = l /\ st[Len(q)] = m
            /\ \A i \in 1 .. Len(q) : st[i] = ListAfter(st[i - 1], q[i])

\* With nothing to apply the list stays.
LEMMA ReachesAtOnce ==
    ASSUME NEW l PROVE Reaches(l, <<>>, l) /\ \A m : Reaches(l, <<>>, m) => m = l
<1>1. Len(<<>>) = 0 /\ \A i \in 1 .. 0 : FALSE
  OBVIOUS
<1>2. [i \in {0} |-> l][0] = l
  BY Zenon
<1>3. Reaches(l, <<>>, l)
  BY <1>1, <1>2, Zenon DEF Reaches
<1>4. QED  BY <1>1, <1>3, Zenon DEF Reaches

\* A command sent is applied after all the others.
LEMMA ReachesAppend ==
    ASSUME NEW l, NEW m, NEW q \in Seq(Commands), NEW x \in Commands, Reaches(l, q, m)
    PROVE  Reaches(l, Append(q, x), ListAfter(m, x))
<1> DEFINE n == Len(q)
<1>1. /\ n \in Nat /\ Len(Append(q, x)) = n + 1 /\ Append(q, x)[n + 1] = x
      /\ \A i \in 1 .. n : Append(q, x)[i] = q[i]
  OBVIOUS
<1>2. PICK s : s[0] = l /\ s[n] = m /\ \A i \in 1 .. n : s[i] = ListAfter(s[i - 1], q[i])
  BY Zenon DEF Reaches
<1> HIDE DEF n
<1> DEFINE st == [i \in 0 .. n + 1 |-> IF i = n + 1 THEN ListAfter(m, x) ELSE s[i]]
<1>3. /\ 0 \in 0 .. n + 1 /\ n + 1 \in 0 .. n + 1 /\ n \in 0 .. n + 1 /\ 0 # n + 1 /\ n # n + 1
      /\ (n + 1) - 1 = n
      /\ \A i \in 1 .. n : i \in 0 .. n + 1 /\ i # n + 1 /\ i - 1 \in 0 .. n + 1 /\ i - 1 # n + 1
      /\ \A i \in 1 .. n + 1 : i \in 1 .. n \/ i = n + 1
  BY <1>1
<1>4. st[0] = l /\ st[n + 1] = ListAfter(m, x) /\ st[n] = m
  BY <1>2, <1>3, Zenon
<1>5. \A i \in 1 .. n : st[i] = s[i] /\ st[i - 1] = s[i - 1]
  BY <1>3, Zenon
<1> HIDE DEF st
<1>6. \A i \in 1 .. n + 1 : st[i] = ListAfter(st[i - 1], Append(q, x)[i])
  <2>1. ASSUME NEW i \in 1 .. n PROVE st[i] = ListAfter(st[i - 1], Append(q, x)[i])
    BY <1>1, <1>2, <1>5, Zenon
  <2>2. st[n + 1] = ListAfter(st[(n + 1) - 1], Append(q, x)[n + 1])
    BY <1>1, <1>3, <1>4, Zenon
  <2>3. QED  BY <1>3, <2>1, <2>2, Zenon
<1>7. QED  BY <1>1, <1>4, <1>6, Zenon DEF Reaches

\* The first command is applied first.
LEMMA ReachesTail ==
    ASSUME NEW l, NEW m, NEW q \in Seq(Commands), q # <<>>, Reaches(l, q, m)
    PROVE  Reaches(ListAfter(l, Head(q)), Tail(q), m)
<1> DEFINE n == Len(q)
<1>1. /\ n \in Nat /\ n # 0 /\ Len(Tail(q)) = n - 1 /\ Head(q) = q[1]
      /\ \A i \in 1 .. n - 1 : Tail(q)[i] = q[i + 1]
  OBVIOUS
<1>2. PICK s : s[0] = l /\ s[n] = m /\ \A i \in 1 .. n : s[i] = ListAfter(s[i - 1], q[i])
  BY Zenon DEF Reaches
<1> HIDE DEF n
<1> DEFINE st == [i \in 0 .. n - 1 |-> s[i + 1]]
<1>3. /\ 0 \in 0 .. n - 1 /\ n - 1 \in 0 .. n - 1 /\ 0 + 1 = 1 /\ (n - 1) + 1 = n
      /\ 1 \in 1 .. n /\ 1 - 1 = 0
      /\ \A i \in 1 .. n - 1 : /\ i \in 0 .. n - 1 /\ i - 1 \in 0 .. n - 1
                               /\ (i - 1) + 1 = i /\ i + 1 \in 1 .. n /\ (i + 1) - 1 = i
  BY <1>1
<1>4. \A i \in 0 .. n - 1 : st[i] = s[i + 1]
  BY Zenon
<1> HIDE DEF st
<1>5. s[1] = ListAfter(s[0], q[1])
  BY <1>2, <1>3, Zenon
<1>6. st[0] = ListAfter(l, Head(q)) /\ st[n - 1] = m
  BY <1>1, <1>2, <1>3, <1>4, <1>5, Zenon
<1>7. \A i \in 1 .. n - 1 : st[i] = ListAfter(st[i - 1], Tail(q)[i])
  <2>1. ASSUME NEW i \in 1 .. n - 1 PROVE st[i] = ListAfter(st[i - 1], Tail(q)[i])
    <3>1. st[i] = s[i + 1] /\ st[i - 1] = s[i] /\ Tail(q)[i] = q[i + 1]
      BY <1>1, <1>3, <1>4, Zenon
    <3>2. s[i + 1] = ListAfter(s[i], q[i + 1])
      BY <1>2, <1>3, Zenon
    <3>3. QED  BY <3>1, <3>2, Zenon
  <2>2. QED  BY <2>1, Zenon
<1>8. QED  BY <1>1, <1>6, <1>7, Zenon DEF Reaches

\* A string key with value v and expiry flag t comes to hold w and u by applying
\* q: what the last SET in q says, or what it was if there is none.
Sets(x) == x.op \in {"SET", "SETPX"}
Ends(v, t, q, w, u) ==
    \/ (\A i \in DOMAIN q : ~Sets(q[i])) /\ w = v /\ u = t
    \/ \E i \in DOMAIN q : /\ Sets(q[i]) /\ \A j \in DOMAIN q : j > i => ~Sets(q[j])
                          /\ w = StrAfter(v, q[i]) /\ u = TempAfter(t, q[i])

\* A command sent is applied after all the others.
LEMMA EndsAppend ==
    ASSUME NEW v, NEW t, NEW w, NEW u, NEW q \in Seq(Commands), NEW x \in Commands,
           Ends(v, t, q, w, u)
    PROVE  Ends(v, t, Append(q, x), StrAfter(w, x), TempAfter(u, x))
<1> DEFINE n == Len(q)
           r == Append(q, x)
<1>1. /\ n \in Nat /\ DOMAIN q = 1 .. n /\ DOMAIN r = 1 .. n + 1 /\ r[n + 1] = x
      /\ \A i \in 1 .. n : r[i] = q[i]
  OBVIOUS
<1>2. /\ n + 1 \in 1 .. n + 1 /\ \A i \in 1 .. n : i \in 1 .. n + 1
      /\ \A i \in 1 .. n + 1 : (i \in 1 .. n \/ i = n + 1) /\ ~ (i > n + 1)
  BY <1>1
<1> HIDE DEF n, r
<1>3. CASE Sets(x)
  <2>1. StrAfter(w, x) = StrAfter(v, x) /\ TempAfter(u, x) = TempAfter(t, x)
    BY <1>3, Zenon DEF Sets, StrAfter, TempAfter
  <2>2. QED  BY <1>1, <1>2, <1>3, <2>1, Zenon DEF Ends, r
<1>4. CASE ~Sets(x)
  <2>1. StrAfter(w, x) = w /\ TempAfter(u, x) = u
    BY <1>4, Zenon DEF Sets, StrAfter, TempAfter
  <2>2. CASE (\A i \in DOMAIN q : ~Sets(q[i])) /\ w = v /\ u = t
    <3>1. \A i \in DOMAIN r : ~Sets(r[i])
      BY <1>1, <1>2, <1>4, <2>2, Zenon
    <3>2. QED  BY <2>1, <2>2, <3>1, Zenon DEF Ends, r
  <2>3. ASSUME NEW i \in DOMAIN q, Sets(q[i]), \A j \in DOMAIN q : j > i => ~Sets(q[j]),
               w = StrAfter(v, q[i]), u = TempAfter(t, q[i])
        PROVE  Ends(v, t, r, w, u)
    <3>1. i \in DOMAIN r /\ r[i] = q[i]
      BY <1>1, <1>2, Zenon
    <3>2. \A j \in DOMAIN r : j > i => ~Sets(r[j])
      BY <1>1, <1>2, <1>4, <2>3, Zenon
    <3>3. QED  BY <2>3, <3>1, <3>2, Zenon DEF Ends
  <2>4. QED  BY <2>1, <2>2, <2>3, Zenon DEF Ends, r
<1>5. QED  BY <1>3, <1>4, Zenon

\* The first command is applied first.
LEMMA EndsTail ==
    ASSUME NEW v, NEW t, NEW w, NEW u, NEW q \in Seq(Commands), q # <<>>, Ends(v, t, q, w, u)
    PROVE  Ends(StrAfter(v, Head(q)), TempAfter(t, Head(q)), Tail(q), w, u)
<1> DEFINE n == Len(q)
           r == Tail(q)
           x == Head(q)
<1>1. /\ n \in Nat /\ n # 0 /\ DOMAIN q = 1 .. n /\ DOMAIN r = 1 .. n - 1 /\ x = q[1]
      /\ \A i \in 1 .. n - 1 : r[i] = q[i + 1]
  OBVIOUS
<1>2. /\ 1 \in 1 .. n
      /\ \A i \in 1 .. n - 1 : i + 1 \in 1 .. n /\ i + 1 > 1
      /\ \A i \in 1 .. n, j \in 1 .. n - 1 : j > i - 1 => j + 1 > i
      /\ \A i \in 1 .. n : i # 1 => i - 1 \in 1 .. n - 1 /\ (i - 1) + 1 = i
  BY <1>1
<1> HIDE DEF n, r, x
<1>3. CASE (\A i \in DOMAIN q : ~Sets(q[i])) /\ w = v /\ u = t
  <2>1. \A i \in DOMAIN r : ~Sets(r[i])
    BY <1>1, <1>2, <1>3, Zenon
  <2>2. StrAfter(v, x) = v /\ TempAfter(t, x) = t
    BY <1>1, <1>2, <1>3, Zenon DEF Sets, StrAfter, TempAfter
  <2>3. QED  BY <1>3, <2>1, <2>2, Zenon DEF Ends, r, x
<1>4. ASSUME NEW i \in DOMAIN q, Sets(q[i]), \A j \in DOMAIN q : j > i => ~Sets(q[j]),
             w = StrAfter(v, q[i]), u = TempAfter(t, q[i])
      PROVE  Ends(StrAfter(v, x), TempAfter(t, x), r, w, u)
  <2>1. CASE i = 1
    <3>1. \A j \in DOMAIN r : ~Sets(r[j])
      BY <1>1, <1>2, <1>4, <2>1, Zenon
    <3>2. QED  BY <1>1, <1>4, <2>1, <3>1, Zenon DEF Ends
  <2>2. CASE i # 1
    <3>1. i - 1 \in DOMAIN r /\ r[i - 1] = q[i]
      BY <1>1, <1>2, <2>2, Zenon
    <3>2. \A j \in DOMAIN r : j > i - 1 => ~Sets(r[j])
      BY <1>1, <1>2, <1>4, Zenon
    <3>3. w = StrAfter(StrAfter(v, x), q[i]) /\ u = TempAfter(TempAfter(t, x), q[i])
      BY <1>4, Zenon DEF Sets, StrAfter, TempAfter
    <3>4. QED  BY <1>4, <3>1, <3>2, <3>3, Zenon DEF Ends
  <2>3. QED  BY <2>1, <2>2, Zenon
<1>5. QED  BY <1>3, <1>4, Zenon DEF Ends, r, x

--------------------------------------------------------------------------------
(* The inductive invariant *)

\* The handlers at work on the key K: those at one of the places S, when p says
\* where each is and x what its command is.
Pending(p, x, S, K) == {c \in Clients : p[c] \in S /\ KeyOf(x[c].op) = K}

\* Applied and not yet in the file; applied and not yet sent.
Applied == {"reply", "propagate", "append"}
Unsent == {"reply", "propagate"}

\* Two copies of the string key are the same, or one of them has expired.
Alike(v, t, w, u) ==
    \/ v = w /\ t = u
    \/ v = 0 /\ t = "no" /\ u = "yes"
    \/ w = 0 /\ u = "no" /\ t = "yes"

\* The copy w, u of the string key, and after it the command of a handler in D,
\* gives v, t; the copy l of the list gives m.
StringFits(w, u, D, x, v, t) ==
    /\ D = {} => Alike(v, t, w, u)
    /\ \A c \in D : Alike(v, t, StrAfter(w, x[c]), TempAfter(u, x[c]))
ListFits(l, D, x, m) ==
    /\ D = {} => l = m
    /\ \A c \in D : ListAfter(l, x[c]) = m

\* A key that is not mixed has at most one handler at work.  Its command is all
\* that the file lacks, and unless it was sent all that the connection lacks.
StringInv ==
    "string" \notin mixed =>
        /\ \A c, d \in Pending(pc, cmd, Applied, "string") : c = d
        /\ mode = "up" => StringFits(Rebuilt.val, Rebuilt.temp,
                                     Pending(pc, cmd, Applied, "string"), cmd, val, temp)
        /\ linked = "yes" => \E w, u :
              /\ Ends(rval, rtemp, stream, w, u)
              /\ StringFits(w, u, Pending(pc, cmd, Unsent, "string"), cmd, val, temp)
ListInv ==
    "list" \notin mixed =>
        /\ \A c, d \in Pending(pc, cmd, Applied, "list") : c = d
        /\ mode = "up" => ListFits(Rebuilt.list, Pending(pc, cmd, Applied, "list"), cmd, list)
        /\ linked = "yes" => \E l :
              /\ Reaches(rlist, stream, l)
              /\ ListFits(l, Pending(pc, cmd, Unsent, "list"), cmd, list)

\* q has each element once, and d is one of them.
Once(q) == \A i, j \in DOMAIN q : q[i] = q[j] => i = j
In(d, q) == \E i \in DOMAIN q : q[i] = d

\* The waiters are the blocked handlers, each once.  They wait with a BLPOP and
\* for an element: the list is empty.
WaitInv ==
    /\ Once(waiters)
    /\ \A c \in Clients : pc[c] = "blocked" <=> In(c, waiters)
    /\ \A c \in Clients : pc[c] = "blocked" => cmd[c].op \in {"BLPOP", "BLPOP0"}
    /\ waiters # <<>> => list = <<>>

\* A process that is down is empty, and one that boots has replayed a prefix of
\* the file.
ProcessInv ==
    /\ mode # "up" => /\ \A c \in Clients : pc[c] = "idle"
                      /\ waiters = <<>> /\ linked = "no" /\ mixed = {}
    /\ mode = "down" => at = 1 /\ [val |-> val, temp |-> temp, list |-> list] = Nothing
    /\ mode = "boot" => /\ at \in 1 .. Len(file) + 1
                        /\ [val |-> val, temp |-> temp, list |-> list] = States(file)[at - 1]

WpInv == TypeOK /\ ProcessInv /\ WaitInv /\ StringInv /\ ListInv

--------------------------------------------------------------------------------
(* What a step of one handler does to the invariant of a key *)

\* A handler that is as much at work on a key as before leaves the sets as they are.
LEMMA PendingSame ==
    ASSUME NEW c \in Clients, NEW K,
           \A d \in Clients : d # c => pc'[d] = pc[d] /\ cmd'[d] = cmd[d],
           \A S \in {Applied, Unsent} :
              (pc'[c] \in S /\ KeyOf(cmd'[c].op) = K) <=> (pc[c] \in S /\ KeyOf(cmd[c].op) = K)
    PROVE  \A S \in {Applied, Unsent} : Pending(pc', cmd', S, K) = Pending(pc, cmd, S, K)
<1>1. TAKE S \in {Applied, Unsent}
<1>2. ASSUME NEW d \in Clients
      PROVE  (pc'[d] \in S /\ KeyOf(cmd'[d].op) = K) <=> (pc[d] \in S /\ KeyOf(cmd[d].op) = K)
  <2>1. CASE d = c
    BY <2>1, Zenon
  <2>2. CASE d # c
    <3>1. pc'[d] = pc[d] /\ cmd'[d] = cmd[d]
      BY <2>2, Zenon
    <3>2. QED  BY <3>1, Zenon
  <2>3. QED  BY <2>1, <2>2, Zenon
<1>3. QED  BY <1>2, Zenon DEF Pending

\* What is not yet sent is not yet in the file.
LEMMA UnsentIsApplied ==
    ASSUME NEW p, NEW x, NEW K
    PROVE  Pending(p, x, Unsent, K) \subseteq Pending(p, x, Applied, K)
BY Zenon DEF Pending, Unsent, Applied

\* The bookkeeping of mixed: a key stays out of it only if no other handler was
\* at work on it.
LEMMA MixesTells ==
    ASSUME TypeOK, NEW c \in Clients, NEW op
    PROVE  /\ mixed \subseteq Mixes(c, op) /\ Mixes(c, op) \subseteq {"string", "list"}
           /\ KeyOf(op) \notin Mixes(c, op) =>
                 \A d \in Pending(pc, cmd, Applied, KeyOf(op)) : d = c
<1>1. mixed \subseteq {"string", "list"} /\ KeyOf(op) \in {"string", "list"}
  BY Zenon DEF TypeOK, KeyOf
<1>2. mixed \subseteq Mixes(c, op) /\ Mixes(c, op) \subseteq {"string", "list"}
  BY <1>1, Zenon DEF Mixes
<1>3. ASSUME KeyOf(op) \notin Mixes(c, op), NEW d \in Pending(pc, cmd, Applied, KeyOf(op))
      PROVE  d = c
  BY <1>3, Zenon DEF Mixes, Pending, Applied
<1>4. QED  BY <1>2, <1>3, Zenon

\* A step that is not about the string key.
LEMMA StringKept ==
    ASSUME StringInv, mode' = mode, file' = file, val' = val, temp' = temp,
           linked' = linked, rval' = rval, rtemp' = rtemp, stream' = stream,
           "string" \in mixed => "string" \in mixed',
           \A S \in {Applied, Unsent} :
              Pending(pc', cmd', S, "string") = Pending(pc, cmd, S, "string"),
           \A c \in Pending(pc, cmd, Applied, "string") : cmd'[c] = cmd[c]
    PROVE  StringInv'
<1> SUFFICES ASSUME "string" \notin mixed'
             PROVE  /\ \A c, d \in Pending(pc', cmd', Applied, "string") : c = d
                    /\ mode' = "up" =>
                          StringFits(States(file')[Len(file')].val, States(file')[Len(file')].temp,
                                     Pending(pc', cmd', Applied, "string"), cmd', val', temp')
                    /\ linked' = "yes" => \E w, u :
                          /\ Ends(rval', rtemp', stream', w, u)
                          /\ StringFits(w, u, Pending(pc', cmd', Unsent, "string"), cmd', val', temp')
  BY Zenon DEF StringInv, Rebuilt
<1>1. /\ \A c, d \in Pending(pc, cmd, Applied, "string") : c = d
      /\ mode = "up" =>
            StringFits(States(file)[Len(file)].val, States(file)[Len(file)].temp,
                       Pending(pc, cmd, Applied, "string"), cmd, val, temp)
      /\ linked = "yes" => \E w, u :
            /\ Ends(rval, rtemp, stream, w, u)
            /\ StringFits(w, u, Pending(pc, cmd, Unsent, "string"), cmd, val, temp)
  BY Zenon DEF StringInv, Rebuilt
<1>2. \A w, u : StringFits(w, u, Pending(pc, cmd, Applied, "string"), cmd, val, temp)
                  => StringFits(w, u, Pending(pc, cmd, Applied, "string"), cmd', val, temp)
  BY Zenon DEF StringFits
<1>3. \A w, u : StringFits(w, u, Pending(pc, cmd, Unsent, "string"), cmd, val, temp)
                  => StringFits(w, u, Pending(pc, cmd, Unsent, "string"), cmd', val, temp)
  BY UnsentIsApplied, Zenon DEF StringFits
<1>4. /\ Pending(pc', cmd', Applied, "string") = Pending(pc, cmd, Applied, "string")
      /\ Pending(pc', cmd', Unsent, "string") = Pending(pc, cmd, Unsent, "string")
  BY Zenon
<1>5. QED  BY <1>1, <1>2, <1>3, <1>4, Zenon

\* A step that is not about the list.
LEMMA ListKept ==
    ASSUME ListInv, mode' = mode, file' = file, list' = list,
           linked' = linked, rlist' = rlist, stream' = stream,
           "list" \in mixed => "list" \in mixed',
           \A S \in {Applied, Unsent} :
              Pending(pc', cmd', S, "list") = Pending(pc, cmd, S, "list"),
           \A c \in Pending(pc, cmd, Applied, "list") : cmd'[c] = cmd[c]
    PROVE  ListInv'
<1> SUFFICES ASSUME "list" \notin mixed'
             PROVE  /\ \A c, d \in Pending(pc', cmd', Applied, "list") : c = d
                    /\ mode' = "up" =>
                          ListFits(States(file')[Len(file')].list,
                                   Pending(pc', cmd', Applied, "list"), cmd', list')
                    /\ linked' = "yes" => \E l :
                          /\ Reaches(rlist', stream', l)
                          /\ ListFits(l, Pending(pc', cmd', Unsent, "list"), cmd', list')
  BY Zenon DEF ListInv, Rebuilt
<1>1. /\ \A c, d \in Pending(pc, cmd, Applied, "list") : c = d
      /\ mode = "up" => ListFits(States(file)[Len(file)].list,
                                 Pending(pc, cmd, Applied, "list"), cmd, list)
      /\ linked = "yes" => \E l :
            /\ Reaches(rlist, stream, l)
            /\ ListFits(l, Pending(pc, cmd, Unsent, "list"), cmd, list)
  BY Zenon DEF ListInv, Rebuilt
<1>2. \A l : ListFits(l, Pending(pc, cmd, Applied, "list"), cmd, list)
               => ListFits(l, Pending(pc, cmd, Applied, "list"), cmd', list)
  BY Zenon DEF ListFits
<1>3. \A l : ListFits(l, Pending(pc, cmd, Unsent, "list"), cmd, list)
               => ListFits(l, Pending(pc, cmd, Unsent, "list"), cmd', list)
  BY UnsentIsApplied, Zenon DEF ListFits
<1>4. /\ Pending(pc', cmd', Applied, "list") = Pending(pc, cmd, Applied, "list")
      /\ Pending(pc', cmd', Unsent, "list") = Pending(pc, cmd, Unsent, "list")
  BY Zenon
<1>5. QED  BY <1>1, <1>2, <1>3, <1>4, Zenon

\* A handler that is not at work on the list, and whose command there is none
\* other before the file, applies its command to the list.
LEMMA ListBegins ==
    ASSUME ListInv, NEW c \in Clients, c \notin Pending(pc, cmd, Applied, "list"),
           \A d \in Clients : d # c => pc'[d] = pc[d] /\ cmd'[d] = cmd[d],
           pc'[c] = "reply", KeyOf(cmd'[c].op) = "list", list' = ListAfter(list, cmd'[c]),
           mode' = mode, file' = file, linked' = linked, rlist' = rlist, stream' = stream,
           "list" \notin mixed' =>
              "list" \notin mixed /\ \A d \in Pending(pc, cmd, Applied, "list") : d = c
    PROVE  ListInv'
<1> SUFFICES ASSUME "list" \notin mixed'
             PROVE  /\ \A d, e \in Pending(pc', cmd', Applied, "list") : d = e
                    /\ mode' = "up" =>
                          ListFits(States(file')[Len(file')].list,
                                   Pending(pc', cmd', Applied, "list"), cmd', list')
                    /\ linked' = "yes" => \E l :
                          /\ Reaches(rlist', stream', l)
                          /\ ListFits(l, Pending(pc', cmd', Unsent, "list"), cmd', list')
  BY Zenon DEF ListInv, Rebuilt
<1>1. Pending(pc, cmd, Applied, "list") = {}
  BY Zenon
<1>2. Pending(pc, cmd, Unsent, "list") = {}
  BY <1>1, UnsentIsApplied, Zenon
<1>3. \A d \in Pending(pc', cmd', Applied, "list") : d = c
  <2>1. TAKE d \in Pending(pc', cmd', Applied, "list")
  <2>2. d # c => d \in Pending(pc, cmd, Applied, "list")
    BY Zenon DEF Pending
  <2>3. QED  BY <1>1, <2>2, Zenon
<1>4. \A d \in Pending(pc', cmd', Unsent, "list") : d = c
  BY <1>3, UnsentIsApplied, Zenon
<1>5. c \in Pending(pc', cmd', Applied, "list") /\ c \in Pending(pc', cmd', Unsent, "list")
  BY Zenon DEF Pending, Applied, Unsent
<1>6. /\ mode = "up" => States(file)[Len(file)].list = list
      /\ linked = "yes" => Reaches(rlist, stream, list)
  BY <1>1, <1>2, Zenon DEF ListInv, ListFits, Rebuilt
<1>7. \A l : l = list => /\ ListFits(l, Pending(pc', cmd', Applied, "list"), cmd', list')
                         /\ ListFits(l, Pending(pc', cmd', Unsent, "list"), cmd', list')
  BY <1>3, <1>4, <1>5, Zenon DEF ListFits
<1>8. QED  BY <1>3, <1>6, <1>7, Zenon

\* A SET, whatever came before it.
LEMMA StringBegins ==
    ASSUME StringInv, NEW c \in Clients, c \notin Pending(pc, cmd, Applied, "string"),
           \A d \in Clients : d # c => pc'[d] = pc[d] /\ cmd'[d] = cmd[d],
           pc'[c] = "reply", cmd'[c].op \in {"SET", "SETPX"}, val' = cmd'[c].id,
           temp' = IF cmd'[c].op = "SETPX" THEN "yes" ELSE "no",
           mode' = mode, file' = file, linked' = linked, rval' = rval, rtemp' = rtemp,
           stream' = stream,
           "string" \notin mixed' =>
              "string" \notin mixed /\ \A d \in Pending(pc, cmd, Applied, "string") : d = c
    PROVE  StringInv'
<1> SUFFICES ASSUME "string" \notin mixed'
             PROVE  /\ \A d, e \in Pending(pc', cmd', Applied, "string") : d = e
                    /\ mode' = "up" =>
                          StringFits(States(file')[Len(file')].val, States(file')[Len(file')].temp,
                                     Pending(pc', cmd', Applied, "string"), cmd', val', temp')
                    /\ linked' = "yes" => \E w, u :
                          /\ Ends(rval', rtemp', stream', w, u)
                          /\ StringFits(w, u, Pending(pc', cmd', Unsent, "string"), cmd', val', temp')
  BY Zenon DEF StringInv, Rebuilt
<1>1. Pending(pc, cmd, Applied, "string") = {}
  BY Zenon
<1>2. \A d \in Pending(pc', cmd', Applied, "string") : d = c
  <2>1. TAKE d \in Pending(pc', cmd', Applied, "string")
  <2>2. d # c => d \in Pending(pc, cmd, Applied, "string")
    BY Zenon DEF Pending
  <2>3. QED  BY <1>1, <2>2, Zenon
<1>3. \A d \in Pending(pc', cmd', Unsent, "string") : d = c
  BY <1>2, UnsentIsApplied, Zenon
<1>4. KeyOf(cmd'[c].op) = "string"
  BY Zenon DEF KeyOf
<1>5. c \in Pending(pc', cmd', Applied, "string") /\ c \in Pending(pc', cmd', Unsent, "string")
  BY <1>4, Zenon DEF Pending, Applied, Unsent
<1>6. \A w, u : StrAfter(w, cmd'[c]) = val' /\ TempAfter(u, cmd'[c]) = temp'
  BY DEF StrAfter, TempAfter
<1>7. \A w, u : /\ StringFits(w, u, Pending(pc', cmd', Applied, "string"), cmd', val', temp')
                /\ StringFits(w, u, Pending(pc', cmd', Unsent, "string"), cmd', val', temp')
  BY <1>2, <1>3, <1>5, <1>6, Zenon DEF StringFits, Alike
<1>8. linked = "yes" => \E w, u : Ends(rval, rtemp, stream, w, u)
  BY Zenon DEF StringInv
<1>9. QED  BY <1>2, <1>7, <1>8, Zenon

--------------------------------------------------------------------------------
(* The queue of waiters *)

\* The oldest waiter leaves.
LEMMA WaitersTail ==
    ASSUME NEW q \in Seq(Clients), q # <<>>, Once(q)
    PROVE  /\ Head(q) \in Clients /\ In(Head(q), q)
           /\ Tail(q) \in Seq(Clients) /\ Once(Tail(q))
           /\ \A d : In(d, Tail(q)) <=> d # Head(q) /\ In(d, q)
<1> DEFINE n == Len(q)
           r == Tail(q)
<1>1. /\ n \in Nat /\ n # 0 /\ DOMAIN q = 1 .. n /\ DOMAIN r = 1 .. n - 1 /\ Head(q) = q[1]
      /\ \A i \in 1 .. n - 1 : r[i] = q[i + 1]
      /\ q[1] \in Clients /\ r \in Seq(Clients)
  OBVIOUS
<1>2. /\ 1 \in 1 .. n
      /\ \A i \in 1 .. n - 1 : i + 1 \in 1 .. n /\ i + 1 # 1
      /\ \A i, j \in 1 .. n - 1 : j + 1 = i + 1 => i = j
      /\ \A i \in 1 .. n : i # 1 => i - 1 \in 1 .. n - 1 /\ (i - 1) + 1 = i
  BY <1>1
<1> HIDE DEF n, r
<1>3. Once(r)
  <2>1. \A i, j \in 1 .. n : q[i] = q[j] => i = j
    BY <1>1, Zenon DEF Once
  <2>2. ASSUME NEW i \in 1 .. n - 1, NEW j \in 1 .. n - 1, r[i] = r[j] PROVE i = j
    <3>1. q[i + 1] = q[j + 1] /\ i + 1 \in 1 .. n /\ j + 1 \in 1 .. n
      BY <1>1, <1>2, <2>2, Zenon
    <3>2. j + 1 = i + 1
      BY <2>1, <3>1, Zenon
    <3>3. QED  BY <1>2, <3>2, Zenon
  <2>3. QED  BY <1>1, <2>2, Zenon DEF Once
<1>4. ASSUME NEW d, In(d, r) PROVE d # q[1] /\ In(d, q)
  <2>1. PICK i \in 1 .. n - 1 : r[i] = d
    BY <1>1, <1>4, Zenon DEF In
  <2>2. i + 1 \in 1 .. n /\ i + 1 # 1 /\ q[i + 1] = d
    BY <1>1, <1>2, <2>1, Zenon
  <2>3. QED  BY <1>1, <1>2, <2>2, Zenon DEF Once, In
<1>5. ASSUME NEW d, d # q[1], In(d, q) PROVE In(d, r)
  <2>1. PICK i \in 1 .. n : q[i] = d
    BY <1>1, <1>5, Zenon DEF In
  <2>2. i - 1 \in 1 .. n - 1 /\ r[i - 1] = d
    BY <1>1, <1>2, <1>5, <2>1, Zenon
  <2>3. QED  BY <1>1, <2>2, Zenon DEF In
<1>6. In(q[1], q)
  BY <1>1, <1>2, Zenon DEF In
<1>7. QED  BY <1>1, <1>3, <1>4, <1>5, <1>6, Zenon DEF r

\* A new waiter joins.
LEMMA WaitersAppend ==
    ASSUME NEW q \in Seq(Clients), NEW c \in Clients, Once(q), ~In(c, q)
    PROVE  /\ Append(q, c) \in Seq(Clients) /\ Once(Append(q, c))
           /\ \A d : In(d, Append(q, c)) <=> d = c \/ In(d, q)
<1> DEFINE n == Len(q)
           r == Append(q, c)
<1>1. /\ n \in Nat /\ DOMAIN q = 1 .. n /\ DOMAIN r = 1 .. n + 1 /\ r[n + 1] = c
      /\ \A i \in 1 .. n : r[i] = q[i]
      /\ r \in Seq(Clients)
  OBVIOUS
<1>2. /\ n + 1 \in 1 .. n + 1 /\ \A i \in 1 .. n : i \in 1 .. n + 1
      /\ \A i \in 1 .. n + 1 : i \in 1 .. n \/ i = n + 1
  BY <1>1
<1> HIDE DEF n, r
<1>3. \A i \in 1 .. n : q[i] # c
  BY <1>1, Zenon DEF In
<1>4. Once(r)
  BY <1>1, <1>2, <1>3, Zenon DEF Once
<1>5. \A d : In(d, r) <=> d = c \/ In(d, q)
  BY <1>1, <1>2, Zenon DEF In
<1>6. QED  BY <1>1, <1>4, <1>5, Zenon DEF r

\* Two sequences joined.
LEMMA Joined ==
    ASSUME NEW S, NEW a \in Seq(S), NEW b \in Seq(S)
    PROVE  /\ a \o b \in Seq(S) /\ Len(a \o b) = Len(a) + Len(b)
           /\ \A i \in 1 .. Len(a) + Len(b) :
                 (a \o b)[i] = IF i <= Len(a) THEN a[i] ELSE b[i - Len(a)]
OBVIOUS

\* A waiter leaves from its place.
LEMMA WaitersCut ==
    ASSUME NEW q \in Seq(Clients), Once(q), NEW m \in DOMAIN q
    PROVE  LET r == SubSeq(q, 1, m - 1) \o SubSeq(q, m + 1, Len(q))
           IN  /\ r \in Seq(Clients) /\ Once(r)
               /\ \A d : In(d, r) <=> d # q[m] /\ In(d, q)
<1> DEFINE n == Len(q)
           a == SubSeq(q, 1, m - 1)
           b == SubSeq(q, m + 1, Len(q))
           r == a \o b
<1>1. n \in Nat /\ DOMAIN q = 1 .. n /\ m \in 1 .. n /\ m \in Nat
  OBVIOUS
<1>2. a \in Seq(Clients) /\ Len(a) = m - 1 /\ \A i \in 1 .. m - 1 : a[i] = q[i]
  <2>1. m - 1 \in Int /\ \A i \in 1 .. m - 1 : q[i] \in Clients
    BY <1>1
  <2>2. QED  BY <1>1, <2>1, SMTT(30)
<1>3. b \in Seq(Clients) /\ Len(b) = n - m /\ \A i \in 1 .. n - m : b[i] = q[m + i]
  <2>1. m + 1 \in Int /\ \A i \in m + 1 .. n : q[i] \in Clients
    BY <1>1
  <2>2. b \in Seq(Clients)
    BY <1>1, <2>1, SMTT(30)
  <2>3. Len(b) = n - m
    BY <1>1, SMTT(30)
  <2>4. \A i \in 1 .. n - m : b[i] = q[m + i]
    BY <1>1, SMTT(30)
  <2>5. QED  BY <2>2, <2>3, <2>4, Zenon
<1> HIDE DEF a, b
<1>4. /\ r \in Seq(Clients) /\ Len(r) = Len(a) + Len(b)
      /\ \A i \in 1 .. Len(a) + Len(b) : r[i] = IF i <= Len(a) THEN a[i] ELSE b[i - Len(a)]
  BY <1>2, <1>3, Joined, Zenon
<1> HIDE DEF n, r
<1>5. /\ DOMAIN r = 1 .. n - 1
      /\ \A i \in 1 .. n - 1 : r[i] = IF i < m THEN q[i] ELSE q[i + 1]
  <2>1. DOMAIN r = 1 .. n - 1
    BY <1>1, <1>2, <1>3, <1>4
  <2>2. ASSUME NEW i \in 1 .. n - 1, i < m PROVE r[i] = q[i]
    <3>1. i \in 1 .. Len(a) + Len(b) /\ i <= Len(a) /\ i \in 1 .. m - 1
      BY <1>1, <1>2, <1>3, <2>2
    <3>2. QED  BY <1>2, <1>4, <3>1, Zenon
  <2>3. ASSUME NEW i \in 1 .. n - 1, ~ (i < m) PROVE r[i] = q[i + 1]
    <3>1. /\ i \in 1 .. Len(a) + Len(b) /\ ~ (i <= Len(a)) /\ i - Len(a) \in 1 .. n - m
          /\ m + (i - Len(a)) = i + 1
      BY <1>1, <1>2, <1>3, <2>3
    <3>2. QED  BY <1>3, <1>4, <3>1, Zenon
  <2>4. QED  BY <2>1, <2>2, <2>3, Zenon
<1>6. /\ \A i \in 1 .. n - 1 : i \in 1 .. n /\ i + 1 \in 1 .. n /\ (i < m => i # m) /\ (~ (i < m) => i + 1 # m)
      /\ \A i \in 1 .. n : i < m => i \in 1 .. n - 1
      /\ \A i \in 1 .. n : ~ (i < m) /\ i # m =>
            i - 1 \in 1 .. n - 1 /\ ~ (i - 1 < m) /\ (i - 1) + 1 = i
      /\ \A i, j \in 1 .. n - 1 : (i + 1 = j + 1 => i = j) /\ (i < m /\ ~ (j < m) => i # j + 1)
  BY <1>1
<1>7. Once(r)
  <2>1. \A i, j \in 1 .. n : q[i] = q[j] => i = j
    BY <1>1, Zenon DEF Once
  <2>2. ASSUME NEW i \in 1 .. n - 1, NEW j \in 1 .. n - 1, r[i] = r[j] PROVE i = j
    BY <1>5, <1>6, <2>1, <2>2, Zenon
  <2>3. QED  BY <1>5, <2>2, Zenon DEF Once
<1>8. ASSUME NEW d, In(d, r) PROVE d # q[m] /\ In(d, q)
  <2>1. PICK i \in 1 .. n - 1 : r[i] = d
    BY <1>5, <1>8, Zenon DEF In
  <2>2. \E j \in 1 .. n : q[j] = d /\ j # m
    BY <1>5, <1>6, <2>1, Zenon
  <2>3. QED  BY <1>1, <2>2, Zenon DEF Once, In
<1>9. ASSUME NEW d, d # q[m], In(d, q) PROVE In(d, r)
  <2>1. PICK i \in 1 .. n : q[i] = d /\ i # m
    BY <1>1, <1>9, Zenon DEF In
  <2>2. CASE i < m
    BY <1>5, <1>6, <2>1, <2>2, Zenon DEF In
  <2>3. CASE ~ (i < m)
    <3>1. i - 1 \in 1 .. n - 1 /\ ~ (i - 1 < m) /\ (i - 1) + 1 = i
      BY <1>6, <2>1, <2>3, Zenon
    <3>2. r[i - 1] = q[(i - 1) + 1]
      BY <1>5, <3>1, Zenon
    <3>3. QED  BY <1>5, <2>1, <3>1, <3>2, Zenon DEF In
  <2>4. QED  BY <2>2, <2>3, Zenon
<1>10. QED  BY <1>4, <1>7, <1>8, <1>9, Zenon DEF r, a, b

--------------------------------------------------------------------------------
(* The commands *)

\* A process that is up is neither down nor booting.
LEMMA UpProcess == ASSUME mode' = "up" PROVE ProcessInv'
BY DEF ProcessInv

\* A handler that reads a command was idle: it is neither at work nor waiting.
LEMMA ReadFacts ==
    ASSUME WpInv, NEW c \in Clients, NEW op \in Kinds, Read(c, op)
    PROVE  /\ mode = "up" /\ pc[c] = "idle" /\ nCmd' \in Nat
           /\ [op |-> op, id |-> nCmd + 1] \in Commands
           /\ cmd' \in [Clients -> Commands] /\ cmd'[c] = [op |-> op, id |-> nCmd + 1]
           /\ \A d \in Clients : d # c => cmd'[d] = cmd[d]
           /\ \A K : c \notin Pending(pc, cmd, Applied, K)
           /\ ~In(c, waiters)
<1>1. /\ mode = "up" /\ pc[c] = "idle" /\ nCmd' = nCmd + 1
      /\ cmd' = [cmd EXCEPT ![c] = [op |-> op, id |-> nCmd + 1]]
  BY Zenon DEF Read
<1>2. TypeOK /\ op \in AllKinds
  BY KindsAssumption, Zenon DEF WpInv
<1>3. nCmd \in Nat /\ nCmd + 1 \in Nat
  BY <1>2 DEF TypeOK
<1>4. PICK x : x = [op |-> op, id |-> nCmd + 1]
  BY Zenon
<1>5. x \in Commands
  BY <1>2, <1>3, <1>4 DEF Commands
<1>6. /\ cmd' \in [Clients -> Commands] /\ cmd'[c] = x
      /\ \A d \in Clients : d # c => cmd'[d] = cmd[d]
  BY <1>1, <1>2, <1>4, <1>5, Zenon DEF TypeOK
<1>7. \A K : c \notin Pending(pc, cmd, Applied, K)
  BY <1>1 DEF Pending, Applied
<1>8. ~In(c, waiters)
  BY <1>1 DEF WpInv, WaitInv
<1>9. QED  BY <1>1, <1>3, <1>4, <1>5, <1>6, <1>7, <1>8, Zenon

\* A command on one key leaves the other as it is.
LEMMA OtherKey ==
    ASSUME NEW x
    PROVE  /\ KeyOf(x.op) # "list" => \A l : ListAfter(l, x) = l
           /\ KeyOf(x.op) # "string" => \A w : StrAfter(w, x) = w /\ TempAfter(w, x) = w
BY DEF KeyOf, ListAfter, StrAfter, TempAfter

\* A handler that was not blocked and is not blocked.
LEMMA PlaceMoves ==
    ASSUME WaitInv, NEW c \in Clients, pc[c] # "blocked", pc'[c] # "blocked",
           \A d \in Clients : d # c => pc'[d] = pc[d] /\ cmd'[d] = cmd[d],
           waiters' = waiters, list' = list
    PROVE  WaitInv'
BY Zenon DEF WaitInv, Once, In

\* A step of no handler.
LEMMA WaitKept ==
    ASSUME WaitInv, pc' = pc, cmd' = cmd, waiters' = waiters, waiters # <<>> => list' = list
    PROVE  WaitInv'
BY Zenon DEF WaitInv, Once, In

\* SET: the list and its waiters are left alone.
LEMMA SetStep ==
    ASSUME WpInv, NEW c \in Clients, NEW op \in Kinds, Set(c, op) PROVE WpInv'
<1>1. /\ op \in {"SET", "SETPX"} /\ Read(c, op)
      /\ val' = nCmd + 1 /\ temp' = IF op = "SETPX" THEN "yes" ELSE "no"
      /\ pc' = [pc EXCEPT ![c] = "reply"] /\ mixed' = Mixes(c, op)
      /\ mode' = mode /\ list' = list /\ waiters' = waiters /\ file' = file /\ at' = at
      /\ stream' = stream /\ rval' = rval /\ rtemp' = rtemp /\ rlist' = rlist
      /\ linked' = linked /\ done' = done /\ nStop' = nStop /\ acked' = acked
  BY Zenon DEF Set, replicaVars
<1>2. TypeOK
  BY Zenon DEF WpInv
<1>3. /\ mode = "up" /\ pc[c] = "idle" /\ nCmd' \in Nat
      /\ cmd' \in [Clients -> Commands] /\ cmd'[c] = [op |-> op, id |-> nCmd + 1]
      /\ \A d \in Clients : d # c => cmd'[d] = cmd[d]
      /\ \A K : c \notin Pending(pc, cmd, Applied, K)
      /\ ~In(c, waiters)
  BY <1>1, ReadFacts, Zenon
<1>4. pc'[c] = "reply" /\ \A d \in Clients : d # c => pc'[d] = pc[d]
  BY <1>1, <1>2, Zenon DEF TypeOK
<1>5. KeyOf(op) = "string" /\ cmd'[c].op = op /\ cmd'[c].id = nCmd + 1
  BY <1>1, <1>3 DEF KeyOf
<1>6. mixed \subseteq mixed' /\ mixed' \subseteq {"string", "list"}
  BY <1>1, <1>2, MixesTells, Zenon
<1>7. TypeOK'
  <2>1. val' \in Nat /\ temp' \in {"no", "yes"}
    BY <1>1, <1>2 DEF TypeOK
  <2>2. pc' \in [Clients -> {"idle", "blocked", "reply", "propagate", "append"}]
    BY <1>1, <1>2, Zenon DEF TypeOK
  <2>3. QED  BY <1>1, <1>2, <1>3, <1>6, <2>1, <2>2, Zenon DEF TypeOK
<1>8. WaitInv'
  <2>1. pc[c] # "blocked" /\ pc'[c] # "blocked"
    BY <1>3, <1>4
  <2>2. QED  BY <1>1, <1>3, <1>4, <2>1, PlaceMoves, Zenon DEF WpInv
<1>9. StringInv'
  <2>1. "string" \notin mixed' => \A d \in Pending(pc, cmd, Applied, "string") : d = c
    <3>1. mixed' = Mixes(c, op) /\ KeyOf(op) = "string"
      BY <1>1, <1>5, Zenon
    <3>2. KeyOf(op) \notin Mixes(c, op) =>
             \A d \in Pending(pc, cmd, Applied, KeyOf(op)) : d = c
      BY <1>2, MixesTells, Zenon
    <3>3. QED  BY <3>1, <3>2, Zenon
  <2>2. StringInv /\ c \notin Pending(pc, cmd, Applied, "string")
    BY <1>3, Zenon DEF WpInv
  <2>3. cmd'[c].op \in {"SET", "SETPX"} /\ val' = cmd'[c].id
    BY <1>1, <1>5, Zenon
  <2>4. temp' = IF cmd'[c].op = "SETPX" THEN "yes" ELSE "no"
    BY <1>1, <1>5, Zenon
  <2>5. "string" \notin mixed' =>
           "string" \notin mixed /\ \A d \in Pending(pc, cmd, Applied, "string") : d = c
    BY <1>6, <2>1, Zenon
  <2>6. QED  BY <1>1, <1>3, <1>4, <2>2, <2>3, <2>4, <2>5, StringBegins, Zenon
<1>10. ListInv'
  <2>1. \A S \in {Applied, Unsent} :
           (pc'[c] \in S /\ KeyOf(cmd'[c].op) = "list") <=> (pc[c] \in S /\ KeyOf(cmd[c].op) = "list")
    BY <1>3, <1>5 DEF Applied, Unsent
  <2>2. \A S \in {Applied, Unsent} : Pending(pc', cmd', S, "list") = Pending(pc, cmd, S, "list")
    BY <1>3, <1>4, <2>1, PendingSame, Zenon
  <2>3. \A d \in Pending(pc, cmd, Applied, "list") : cmd'[d] = cmd[d]
    BY <1>3, Zenon DEF Pending
  <2>4. QED  BY <1>1, <1>6, <2>2, <2>3, ListKept, Zenon DEF WpInv
<1>11. ProcessInv'
  BY <1>1, <1>3, UpProcess, Zenon
<1>12. QED  BY <1>7, <1>8, <1>9, <1>10, <1>11, Zenon DEF WpInv

\* RPUSH: the oldest waiter gets the element, or the list.
LEMMA RPushStep ==
    ASSUME WpInv, NEW c \in Clients, NEW op \in Kinds, RPush(c, op) PROVE WpInv'
<1>1. /\ op = "RPUSH" /\ Read(c, op)
      /\ mode' = mode /\ val' = val /\ temp' = temp /\ file' = file /\ at' = at
      /\ stream' = stream /\ rval' = rval /\ rtemp' = rtemp /\ rlist' = rlist
      /\ linked' = linked /\ done' = done /\ nStop' = nStop /\ acked' = acked
  BY Zenon DEF RPush, replicaVars
<1>2. TypeOK /\ WaitInv /\ waiters \in Seq(Clients) /\ Once(waiters)
  BY Zenon DEF WpInv, TypeOK, WaitInv
<1>3. /\ mode = "up" /\ pc[c] = "idle" /\ nCmd' \in Nat
      /\ cmd' \in [Clients -> Commands] /\ cmd'[c] = [op |-> op, id |-> nCmd + 1]
      /\ \A d \in Clients : d # c => cmd'[d] = cmd[d]
      /\ \A K : c \notin Pending(pc, cmd, Applied, K)
      /\ ~In(c, waiters)
  BY <1>1, ReadFacts, Zenon
<1>4. KeyOf(op) = "list" /\ cmd'[c].op = "RPUSH" /\ cmd'[c].id = nCmd + 1
  BY <1>1, <1>3 DEF KeyOf
<1>5. KeyOf(cmd'[c].op) # "string" /\ KeyOf(cmd'[c].op) = "list"
  BY <1>4 DEF KeyOf
<1>6. ProcessInv'
  BY <1>1, <1>3, UpProcess, Zenon
<1>7. \A d \in Pending(pc, cmd, Applied, "string") : cmd'[d] = cmd[d]
  BY <1>3, Zenon DEF Pending
<1>8. CASE waiters = <<>>
  <2>1. /\ list' = Append(list, nCmd + 1) /\ pc' = [pc EXCEPT ![c] = "reply"]
        /\ mixed' = Mixes(c, op) /\ waiters' = waiters
    BY <1>8, Zenon DEF RPush
  <2>2. pc'[c] = "reply" /\ \A d \in Clients : d # c => pc'[d] = pc[d]
    BY <1>2, <2>1, Zenon DEF TypeOK
  <2>3. mixed \subseteq mixed' /\ mixed' \subseteq {"string", "list"}
    BY <1>2, <2>1, MixesTells, Zenon
  <2>4. TypeOK'
    <3>1. list' \in Seq(Nat)
      BY <1>2, <2>1 DEF TypeOK
    <3>2. pc' \in [Clients -> {"idle", "blocked", "reply", "propagate", "append"}]
      BY <1>2, <2>1, Zenon DEF TypeOK
    <3>3. QED  BY <1>1, <1>2, <1>3, <2>1, <2>3, <3>1, <3>2, Zenon DEF TypeOK
  <2>5. WaitInv'
    BY <1>2, <1>3, <1>8, <2>1, <2>2, SMTT(30) DEF WaitInv
  <2>6. ListInv'
    <3>1. "list" \notin mixed' => \A d \in Pending(pc, cmd, Applied, "list") : d = c
      BY <1>2, <1>4, <2>1, MixesTells, Zenon
    <3>2. list' = ListAfter(list, cmd'[c])
      BY <1>4, <2>1, Zenon DEF ListAfter
    <3>3. QED  BY <1>1, <1>3, <1>5, <2>2, <2>3, <3>1, <3>2, ListBegins, Zenon DEF WpInv
  <2>7. StringInv'
    <3>1. \A S \in {Applied, Unsent} :
             (pc'[c] \in S /\ KeyOf(cmd'[c].op) = "string")
                <=> (pc[c] \in S /\ KeyOf(cmd[c].op) = "string")
      BY <1>3, <1>5 DEF Applied, Unsent
    <3>2. \A S \in {Applied, Unsent} :
             Pending(pc', cmd', S, "string") = Pending(pc, cmd, S, "string")
      BY <1>3, <1>5, <2>2, <3>1, PendingSame, Zenon
    <3>3. QED  BY <1>1, <1>7, <2>3, <3>2, StringKept, Zenon DEF WpInv
  <2>8. QED  BY <1>6, <2>4, <2>5, <2>6, <2>7, Zenon DEF WpInv
<1>9. CASE waiters # <<>>
  <2>1. /\ waiters' = Tail(waiters)
        /\ pc' = [pc EXCEPT ![c] = "reply", ![Head(waiters)] = "reply"]
        /\ mixed' = mixed \cup {"list"} /\ list' = list
    BY <1>9, Zenon DEF RPush
  <2>2. PICK h : h = Head(waiters)
    BY Zenon
  <2>3. /\ h \in Clients /\ In(h, waiters) /\ waiters' \in Seq(Clients) /\ Once(waiters')
        /\ \A d : In(d, waiters') <=> d # h /\ In(d, waiters)
    BY <1>2, <1>9, <2>1, <2>2, WaitersTail, Zenon
  <2>4. h # c /\ pc[h] = "blocked" /\ cmd[h].op \in {"BLPOP", "BLPOP0"} /\ cmd'[h] = cmd[h]
    BY <1>2, <1>3, <2>3, Zenon DEF WaitInv
  <2>5. /\ pc'[c] = "reply" /\ pc'[h] = "reply"
        /\ \A d \in Clients : d # c /\ d # h => pc'[d] = pc[d]
        /\ pc' \in [Clients -> {"idle", "blocked", "reply", "propagate", "append"}]
    BY <1>2, <2>1, <2>2, <2>3, <2>4, Zenon DEF TypeOK
  <2>6. TypeOK'
    BY <1>1, <1>2, <1>3, <2>1, <2>3, <2>5, Zenon DEF TypeOK
  <2>7. WaitInv'
    <3>1. ASSUME NEW d \in Clients PROVE pc'[d] = "blocked" <=> In(d, waiters')
      BY <1>2, <1>3, <2>3, <2>4, <2>5, SMTT(30) DEF WaitInv
    <3>2. ASSUME NEW d \in Clients, pc'[d] = "blocked" PROVE cmd'[d].op \in {"BLPOP", "BLPOP0"}
      BY <1>2, <1>3, <2>5, <3>2, SMTT(30) DEF WaitInv
    <3>3. list' = <<>>
      BY <1>2, <1>9, <2>1, Zenon DEF WaitInv
    <3>4. QED  BY <2>3, <3>1, <3>2, <3>3, Zenon DEF WaitInv
  <2>8. ListInv'
    BY <2>1, Zenon DEF ListInv
  <2>9. StringInv'
    <3>1. KeyOf(cmd'[h].op) # "string"
      BY <2>4 DEF KeyOf
    <3>2. ASSUME NEW S \in {Applied, Unsent}, NEW d \in Clients
          PROVE  (pc'[d] \in S /\ KeyOf(cmd'[d].op) = "string")
                    <=> (pc[d] \in S /\ KeyOf(cmd[d].op) = "string")
      <4>1. pc[c] \notin S /\ pc[h] \notin S
        BY <1>3, <2>4 DEF Applied, Unsent
      <4>2. QED  BY <1>3, <1>5, <2>5, <3>1, <4>1, Zenon
    <3>3. \A S \in {Applied, Unsent} :
             Pending(pc', cmd', S, "string") = Pending(pc, cmd, S, "string")
      BY <3>2, Zenon DEF Pending
    <3>4. "string" \in mixed => "string" \in mixed'
      BY <2>1, Zenon
    <3>5. QED  BY <1>1, <1>7, <3>3, <3>4, StringKept, Zenon DEF WpInv
  <2>10. QED  BY <1>6, <2>6, <2>7, <2>8, <2>9, Zenon DEF WpInv
<1>10. QED  BY <1>8, <1>9, Zenon

\* BLPOP: an element is there, or the handler waits.
LEMMA BLpopStep ==
    ASSUME WpInv, NEW c \in Clients, NEW op \in Kinds, BLpop(c, op) PROVE WpInv'
<1>1. /\ op \in {"BLPOP", "BLPOP0"} /\ Read(c, op)
      /\ mode' = mode /\ val' = val /\ temp' = temp /\ file' = file /\ at' = at
      /\ stream' = stream /\ rval' = rval /\ rtemp' = rtemp /\ rlist' = rlist
      /\ linked' = linked /\ done' = done /\ nStop' = nStop /\ acked' = acked
  BY Zenon DEF BLpop, replicaVars
<1>2. TypeOK /\ WaitInv /\ waiters \in Seq(Clients) /\ Once(waiters)
  BY Zenon DEF WpInv, TypeOK, WaitInv
<1>3. /\ mode = "up" /\ pc[c] = "idle" /\ nCmd' \in Nat
      /\ cmd' \in [Clients -> Commands] /\ cmd'[c] = [op |-> op, id |-> nCmd + 1]
      /\ \A d \in Clients : d # c => cmd'[d] = cmd[d]
      /\ \A K : c \notin Pending(pc, cmd, Applied, K)
      /\ ~In(c, waiters)
  BY <1>1, ReadFacts, Zenon
<1>4. KeyOf(op) = "list" /\ cmd'[c].op = op
  BY <1>1, <1>3 DEF KeyOf
<1>5. KeyOf(cmd'[c].op) # "string" /\ KeyOf(cmd'[c].op) = "list"
  BY <1>4 DEF KeyOf
<1>6. ProcessInv'
  BY <1>1, <1>3, UpProcess, Zenon
<1>7. \A K : \A d \in Pending(pc, cmd, Applied, K) : cmd'[d] = cmd[d]
  BY <1>3, Zenon DEF Pending
<1>8. CASE list # <<>>
  <2>1. /\ list' = Tail(list) /\ pc' = [pc EXCEPT ![c] = "reply"]
        /\ mixed' = Mixes(c, op) /\ waiters' = waiters
    BY <1>8, Zenon DEF BLpop
  <2>2. pc'[c] = "reply" /\ \A d \in Clients : d # c => pc'[d] = pc[d]
    BY <1>2, <2>1, Zenon DEF TypeOK
  <2>3. mixed \subseteq mixed' /\ mixed' \subseteq {"string", "list"}
    BY <1>2, <2>1, MixesTells, Zenon
  <2>4. TypeOK'
    <3>1. list' \in Seq(Nat)
      BY <1>2, <1>8, <2>1 DEF TypeOK
    <3>2. pc' \in [Clients -> {"idle", "blocked", "reply", "propagate", "append"}]
      BY <1>2, <2>1, Zenon DEF TypeOK
    <3>3. QED  BY <1>1, <1>2, <1>3, <2>1, <2>3, <3>1, <3>2, Zenon DEF TypeOK
  <2>5. WaitInv'
    BY <1>2, <1>3, <1>8, <2>1, <2>2, SMTT(30) DEF WaitInv
  <2>6. ListInv'
    <3>1. "list" \notin mixed' => \A d \in Pending(pc, cmd, Applied, "list") : d = c
      BY <1>2, <1>4, <2>1, MixesTells, Zenon
    <3>2. list' = ListAfter(list, cmd'[c])
      BY <1>1, <1>4, <1>8, <2>1 DEF ListAfter
    <3>3. QED  BY <1>1, <1>3, <1>5, <2>2, <2>3, <3>1, <3>2, ListBegins, Zenon DEF WpInv
  <2>7. StringInv'
    <3>1. \A S \in {Applied, Unsent} :
             (pc'[c] \in S /\ KeyOf(cmd'[c].op) = "string")
                <=> (pc[c] \in S /\ KeyOf(cmd[c].op) = "string")
      BY <1>3, <1>5 DEF Applied, Unsent
    <3>2. \A S \in {Applied, Unsent} :
             Pending(pc', cmd', S, "string") = Pending(pc, cmd, S, "string")
      BY <1>3, <2>2, <3>1, PendingSame, Zenon
    <3>3. QED  BY <1>1, <1>7, <2>3, <3>2, StringKept, Zenon DEF WpInv
  <2>8. QED  BY <1>6, <2>4, <2>5, <2>6, <2>7, Zenon DEF WpInv
<1>9. CASE list = <<>>
  <2>1. /\ waiters' = Append(waiters, c) /\ pc' = [pc EXCEPT ![c] = "blocked"]
        /\ mixed' = mixed /\ list' = list
    BY <1>9, Zenon DEF BLpop
  <2>2. pc'[c] = "blocked" /\ \A d \in Clients : d # c => pc'[d] = pc[d]
    BY <1>2, <2>1, Zenon DEF TypeOK
  <2>3. /\ waiters' \in Seq(Clients) /\ Once(waiters')
        /\ \A d : In(d, waiters') <=> d = c \/ In(d, waiters)
    BY <1>2, <1>3, <2>1, WaitersAppend, Zenon
  <2>4. TypeOK'
    <3>1. pc' \in [Clients -> {"idle", "blocked", "reply", "propagate", "append"}]
      BY <1>2, <2>1, Zenon DEF TypeOK
    <3>2. QED  BY <1>1, <1>2, <1>3, <2>1, <2>3, <3>1, Zenon DEF TypeOK
  <2>5. WaitInv'
    <3>1. ASSUME NEW d \in Clients PROVE pc'[d] = "blocked" <=> In(d, waiters')
      BY <1>2, <2>2, <2>3, Zenon DEF WaitInv
    <3>2. ASSUME NEW d \in Clients, pc'[d] = "blocked" PROVE cmd'[d].op \in {"BLPOP", "BLPOP0"}
      BY <1>1, <1>2, <1>3, <1>4, <2>2, <3>2, Zenon DEF WaitInv
    <3>3. QED  BY <1>9, <2>1, <2>3, <3>1, <3>2, Zenon DEF WaitInv
  <2>6. ASSUME NEW K
        PROVE  \A S \in {Applied, Unsent} : Pending(pc', cmd', S, K) = Pending(pc, cmd, S, K)
    <3>1. \A S \in {Applied, Unsent} :
             (pc'[c] \in S /\ KeyOf(cmd'[c].op) = K) <=> (pc[c] \in S /\ KeyOf(cmd[c].op) = K)
      BY <1>3, <2>2 DEF Applied, Unsent
    <3>2. QED  BY <1>3, <2>2, <3>1, PendingSame, Zenon
  <2>7. StringInv'
    BY <1>1, <1>7, <2>1, <2>6, StringKept, Zenon DEF WpInv
  <2>8. ListInv'
    BY <1>1, <1>7, <2>1, <2>6, ListKept, Zenon DEF WpInv
  <2>9. QED  BY <1>6, <2>4, <2>5, <2>7, <2>8, Zenon DEF WpInv
<1>10. QED  BY <1>8, <1>9, Zenon

\* A BLPOP gives up: on an empty list, which its replay leaves alone.
LEMMA GiveUpStep == ASSUME WpInv, NEW c \in Clients, GiveUp(c) PROVE WpInv'
<1>1. /\ mode = "up" /\ pc[c] = "blocked" /\ pc' = [pc EXCEPT ![c] = "reply"]
      /\ mixed' = Mixes(c, cmd[c].op) /\ cmd' = cmd /\ nCmd' = nCmd
      /\ mode' = mode /\ val' = val /\ temp' = temp /\ list' = list /\ file' = file /\ at' = at
      /\ stream' = stream /\ rval' = rval /\ rtemp' = rtemp /\ rlist' = rlist
      /\ linked' = linked /\ done' = done /\ nStop' = nStop /\ acked' = acked
  BY Zenon DEF GiveUp, dataVars, replicaVars
<1>2. TypeOK /\ WaitInv /\ waiters \in Seq(Clients) /\ Once(waiters)
  BY Zenon DEF WpInv, TypeOK, WaitInv
<1>3. PICK m \in DOMAIN waiters :
         /\ waiters[m] = c
         /\ waiters' = SubSeq(waiters, 1, m - 1) \o SubSeq(waiters, m + 1, Len(waiters))
  BY Zenon DEF GiveUp
<1>4. /\ waiters' \in Seq(Clients) /\ Once(waiters')
      /\ \A d : In(d, waiters') <=> d # c /\ In(d, waiters)
  BY <1>2, <1>3, WaitersCut, Zenon
<1>5. pc'[c] = "reply" /\ \A d \in Clients : d # c => pc'[d] = pc[d]
  BY <1>1, <1>2, Zenon DEF TypeOK
<1>6. cmd[c].op \in {"BLPOP", "BLPOP0"} /\ list = <<>>
  <2>1. waiters # <<>>
    BY <1>3
  <2>2. QED  BY <1>1, <1>2, <2>1, Zenon DEF WaitInv
<1>7. KeyOf(cmd[c].op) = "list" /\ KeyOf(cmd[c].op) # "string"
  BY <1>6 DEF KeyOf
<1>8. mixed \subseteq mixed' /\ mixed' \subseteq {"string", "list"}
  <2>1. \A o : mixed \subseteq Mixes(c, o) /\ Mixes(c, o) \subseteq {"string", "list"}
    BY <1>2, MixesTells, Zenon
  <2>2. QED  BY <1>1, <2>1, Zenon
<1>9. TypeOK'
  <2>1. pc' \in [Clients -> {"idle", "blocked", "reply", "propagate", "append"}]
    BY <1>1, <1>2, Zenon DEF TypeOK
  <2>2. QED  BY <1>1, <1>2, <1>4, <1>8, <2>1, Zenon DEF TypeOK
<1>10. WaitInv'
  <2>1. ASSUME NEW d \in Clients PROVE pc'[d] = "blocked" <=> In(d, waiters')
    BY <1>2, <1>4, <1>5, SMTT(30) DEF WaitInv
  <2>2. ASSUME NEW d \in Clients, pc'[d] = "blocked" PROVE cmd'[d].op \in {"BLPOP", "BLPOP0"}
    BY <1>1, <1>2, <1>6, <1>5, <2>2, Zenon DEF WaitInv
  <2>3. QED  BY <1>1, <1>4, <1>6, <2>1, <2>2, Zenon DEF WaitInv
<1>11. ListInv'
  <2>1. c \notin Pending(pc, cmd, Applied, "list")
    BY <1>1 DEF Pending, Applied
  <2>2. "list" \notin mixed' => \A d \in Pending(pc, cmd, Applied, "list") : d = c
    <3>1. \A o : KeyOf(o) \notin Mixes(c, o) => \A d \in Pending(pc, cmd, Applied, KeyOf(o)) : d = c
      BY <1>2, MixesTells, Zenon
    <3>2. KeyOf(cmd[c].op) \notin Mixes(c, cmd[c].op) =>
             \A d \in Pending(pc, cmd, Applied, KeyOf(cmd[c].op)) : d = c
      BY <3>1, Zenon
    <3>3. QED  BY <1>1, <1>7, <3>2, Zenon
  <2>3. list' = ListAfter(list, cmd'[c])
    BY <1>1, <1>6 DEF ListAfter
  <2>4. QED  BY <1>1, <1>5, <1>7, <1>8, <2>1, <2>2, <2>3, ListBegins, Zenon DEF WpInv
<1>12. StringInv'
  <2>1. \A S \in {Applied, Unsent} : (pc'[c] \in S /\ KeyOf(cmd'[c].op) = "string")
                                        <=> (pc[c] \in S /\ KeyOf(cmd[c].op) = "string")
    BY <1>1, <1>7
  <2>2. \A S \in {Applied, Unsent} : Pending(pc', cmd', S, "string") = Pending(pc, cmd, S, "string")
    BY <1>1, <1>5, <2>1, PendingSame, Zenon
  <2>3. QED  BY <1>1, <1>8, <2>2, StringKept, Zenon DEF WpInv
<1>13. ProcessInv'
  BY <1>1, UpProcess, Zenon
<1>14. QED  BY <1>9, <1>10, <1>11, <1>12, <1>13, Zenon DEF WpInv

\* The reply leaves everything but the place of the handler.
LEMMA ReplyStep == ASSUME WpInv, NEW c \in Clients, Reply(c) PROVE WpInv'
<1>1. /\ mode = "up" /\ pc[c] = "reply" /\ pc' = [pc EXCEPT ![c] = "propagate"]
      /\ acked' = acked \cup {cmd[c].id}
      /\ mixed' = mixed /\ cmd' = cmd /\ nCmd' = nCmd /\ waiters' = waiters
      /\ mode' = mode /\ val' = val /\ temp' = temp /\ list' = list /\ file' = file /\ at' = at
      /\ stream' = stream /\ rval' = rval /\ rtemp' = rtemp /\ rlist' = rlist
      /\ linked' = linked /\ done' = done /\ nStop' = nStop
  BY Zenon DEF Reply, dataVars, replicaVars
<1>2. TypeOK /\ WaitInv
  BY Zenon DEF WpInv
<1>3. pc'[c] = "propagate" /\ \A d \in Clients : d # c => pc'[d] = pc[d]
  BY <1>1, <1>2, Zenon DEF TypeOK
<1>4. TypeOK'
  <2>1. pc' \in [Clients -> {"idle", "blocked", "reply", "propagate", "append"}]
    BY <1>1, <1>2, Zenon DEF TypeOK
  <2>2. acked' \subseteq Nat
    <3>1. cmd[c] \in Commands /\ acked \subseteq Nat
      BY <1>2, Zenon DEF TypeOK
    <3>2. cmd[c].id \in Nat
      BY <3>1 DEF Commands
    <3>3. QED  BY <1>1, <3>1, <3>2, Zenon
  <2>3. QED  BY <1>1, <1>2, <2>1, <2>2, Zenon DEF TypeOK
<1>5. WaitInv'
  BY <1>1, <1>2, <1>3, PlaceMoves, Zenon
<1>6. ASSUME NEW K
      PROVE  \A S \in {Applied, Unsent} : Pending(pc', cmd', S, K) = Pending(pc, cmd, S, K)
  <2>1. \A S \in {Applied, Unsent} :
           (pc'[c] \in S /\ KeyOf(cmd'[c].op) = K) <=> (pc[c] \in S /\ KeyOf(cmd[c].op) = K)
    BY <1>1, <1>3 DEF Applied, Unsent
  <2>2. QED  BY <1>1, <1>3, <2>1, PendingSame, Zenon
<1>7. StringInv'
  BY <1>1, <1>6, StringKept, Zenon DEF WpInv
<1>8. ListInv'
  BY <1>1, <1>6, ListKept, Zenon DEF WpInv
<1>9. ProcessInv'
  BY <1>1, UpProcess, Zenon
<1>10. QED  BY <1>4, <1>5, <1>7, <1>8, <1>9, Zenon DEF WpInv

\* The command is sent: what the connection will lead to now includes it.
LEMMA PropagateStep == ASSUME WpInv, NEW c \in Clients, Propagate(c) PROVE WpInv'
<1>1. /\ mode = "up" /\ pc[c] = "propagate" /\ pc' = [pc EXCEPT ![c] = "append"]
      /\ stream' = IF linked = "yes" THEN Append(stream, cmd[c]) ELSE stream
      /\ mixed' = mixed /\ cmd' = cmd /\ nCmd' = nCmd /\ waiters' = waiters
      /\ mode' = mode /\ val' = val /\ temp' = temp /\ list' = list /\ file' = file /\ at' = at
      /\ rval' = rval /\ rtemp' = rtemp /\ rlist' = rlist /\ acked' = acked
      /\ linked' = linked /\ done' = done /\ nStop' = nStop
  BY Zenon DEF Propagate, dataVars
<1>2. TypeOK /\ WaitInv /\ cmd[c] \in Commands /\ stream \in Seq(Commands)
  BY Zenon DEF WpInv, TypeOK
<1>3. pc'[c] = "append" /\ \A d \in Clients : d # c => pc'[d] = pc[d]
  BY <1>1, <1>2, Zenon DEF TypeOK
<1>4. TypeOK'
  <2>1. pc' \in [Clients -> {"idle", "blocked", "reply", "propagate", "append"}]
    BY <1>1, <1>2, Zenon DEF TypeOK
  <2>2. stream' \in Seq(Commands)
    BY <1>1, <1>2
  <2>3. QED  BY <1>1, <1>2, <2>1, <2>2, Zenon DEF TypeOK
<1>5. WaitInv'
  BY <1>1, <1>2, <1>3, PlaceMoves, Zenon
<1>6. ASSUME NEW K
      PROVE  /\ Pending(pc', cmd', Applied, K) = Pending(pc, cmd, Applied, K)
             /\ Pending(pc', cmd', Unsent, K) = Pending(pc, cmd, Unsent, K) \ {c}
             /\ KeyOf(cmd[c].op) = K => c \in Pending(pc, cmd, Unsent, K)
             /\ KeyOf(cmd[c].op) # K => c \notin Pending(pc, cmd, Unsent, K)
  <2>1. /\ pc'[c] \in Applied /\ pc[c] \in Applied /\ pc[c] \in Unsent /\ pc'[c] \notin Unsent
    BY <1>1, <1>3 DEF Applied, Unsent
  <2>2. \A d \in Clients : pc'[d] \in Applied <=> pc[d] \in Applied
    BY <1>3, <2>1, Zenon
  <2>3. \A d \in Clients : pc'[d] \in Unsent <=> pc[d] \in Unsent /\ d # c
    BY <1>3, <2>1, Zenon
  <2>4. QED  BY <1>1, <2>1, <2>2, <2>3, Zenon DEF Pending
<1>7. StringInv'
  <2> DEFINE A == Pending(pc, cmd, Applied, "string")
             U == Pending(pc, cmd, Unsent, "string")
  <2> SUFFICES ASSUME "string" \notin mixed
               PROVE  /\ \A d, e \in A : d = e
                      /\ mode = "up" => StringFits(States(file)[Len(file)].val,
                                                   States(file)[Len(file)].temp, A, cmd, val, temp)
                      /\ linked = "yes" => \E w, u :
                            /\ Ends(rval, rtemp, Append(stream, cmd[c]), w, u)
                            /\ StringFits(w, u, U \ {c}, cmd, val, temp)
    BY <1>1, <1>6, Zenon DEF StringInv, Rebuilt
  <2>1. /\ \A d, e \in A : d = e
        /\ mode = "up" => StringFits(States(file)[Len(file)].val,
                                     States(file)[Len(file)].temp, A, cmd, val, temp)
        /\ linked = "yes" => \E w, u :
              Ends(rval, rtemp, stream, w, u) /\ StringFits(w, u, U, cmd, val, temp)
    BY Zenon DEF WpInv, StringInv, Rebuilt
  <2>2. ASSUME linked = "yes"
        PROVE  \E w, u : /\ Ends(rval, rtemp, Append(stream, cmd[c]), w, u)
                         /\ StringFits(w, u, U \ {c}, cmd, val, temp)
    <3>1. PICK w, u : Ends(rval, rtemp, stream, w, u) /\ StringFits(w, u, U, cmd, val, temp)
      BY <2>1, <2>2, Zenon
    <3>2. Ends(rval, rtemp, Append(stream, cmd[c]), StrAfter(w, cmd[c]), TempAfter(u, cmd[c]))
      BY <1>2, <3>1, EndsAppend, Zenon
    <3>3. StringFits(StrAfter(w, cmd[c]), TempAfter(u, cmd[c]), U \ {c}, cmd, val, temp)
      <4>1. CASE KeyOf(cmd[c].op) = "string"
        <5>1. c \in U
          BY <1>6, <4>1, Zenon
        <5>2. U \ {c} = {}
          BY <2>1, <5>1, UnsentIsApplied, Zenon
        <5>3. Alike(val, temp, StrAfter(w, cmd[c]), TempAfter(u, cmd[c]))
          BY <3>1, <5>1, Zenon DEF StringFits
        <5> HIDE DEF U
        <5>4. QED  BY <5>2, <5>3, Zenon DEF StringFits
      <4>2. CASE KeyOf(cmd[c].op) # "string"
        <5>1. c \notin U
          BY <1>6, <4>2, Zenon
        <5> HIDE DEF U
        <5>2. U \ {c} = U
          BY <5>1, Zenon
        <5>3. StrAfter(w, cmd[c]) = w /\ TempAfter(u, cmd[c]) = u
          BY <4>2, OtherKey, Zenon
        <5>4. QED  BY <3>1, <5>2, <5>3, Zenon
      <4>3. QED  BY <4>1, <4>2, Zenon
    <3>4. QED  BY <3>2, <3>3, Zenon
  <2>3. QED  BY <2>1, <2>2, Zenon
<1>8. ListInv'
  <2> DEFINE A == Pending(pc, cmd, Applied, "list")
             U == Pending(pc, cmd, Unsent, "list")
  <2> SUFFICES ASSUME "list" \notin mixed
               PROVE  /\ \A d, e \in A : d = e
                      /\ mode = "up" => ListFits(States(file)[Len(file)].list, A, cmd, list)
                      /\ linked = "yes" => \E l : /\ Reaches(rlist, Append(stream, cmd[c]), l)
                                                  /\ ListFits(l, U \ {c}, cmd, list)
    BY <1>1, <1>6, Zenon DEF ListInv, Rebuilt
  <2>1. /\ \A d, e \in A : d = e
        /\ mode = "up" => ListFits(States(file)[Len(file)].list, A, cmd, list)
        /\ linked = "yes" => \E l : Reaches(rlist, stream, l) /\ ListFits(l, U, cmd, list)
    BY Zenon DEF WpInv, ListInv, Rebuilt
  <2>2. ASSUME linked = "yes"
        PROVE  \E l : Reaches(rlist, Append(stream, cmd[c]), l) /\ ListFits(l, U \ {c}, cmd, list)
    <3>1. PICK l : Reaches(rlist, stream, l) /\ ListFits(l, U, cmd, list)
      BY <2>1, <2>2, Zenon
    <3>2. Reaches(rlist, Append(stream, cmd[c]), ListAfter(l, cmd[c]))
      BY <1>2, <3>1, ReachesAppend, Zenon
    <3>3. ListFits(ListAfter(l, cmd[c]), U \ {c}, cmd, list)
      <4>1. CASE KeyOf(cmd[c].op) = "list"
        <5>1. c \in U
          BY <1>6, <4>1, Zenon
        <5>2. U \ {c} = {}
          BY <2>1, <5>1, UnsentIsApplied, Zenon
        <5>3. ListAfter(l, cmd[c]) = list
          BY <3>1, <5>1, Zenon DEF ListFits
        <5> HIDE DEF U
        <5>4. QED  BY <5>2, <5>3, Zenon DEF ListFits
      <4>2. CASE KeyOf(cmd[c].op) # "list"
        <5>1. c \notin U
          BY <1>6, <4>2, Zenon
        <5> HIDE DEF U
        <5>2. U \ {c} = U
          BY <5>1, Zenon
        <5>3. ListAfter(l, cmd[c]) = l
          BY <4>2, OtherKey, Zenon
        <5>4. QED  BY <3>1, <5>2, <5>3, Zenon
      <4>3. QED  BY <4>1, <4>2, Zenon
    <3>4. QED  BY <3>2, <3>3, Zenon
  <2>3. QED  BY <2>1, <2>2, Zenon
<1>9. ProcessInv'
  BY <1>1, UpProcess, Zenon
<1>10. QED  BY <1>4, <1>5, <1>7, <1>8, <1>9, Zenon DEF WpInv

\* The command is in the file: a replay now ends with it.
LEMMA AppendFileStep == ASSUME WpInv, NEW c \in Clients, AppendFile(c) PROVE WpInv'
<1> DEFINE R == States(file)[Len(file)]
           Q == States(file')[Len(file')]
<1>1. /\ mode = "up" /\ pc[c] = "append" /\ pc' = [pc EXCEPT ![c] = "idle"]
      /\ file' = Append(file, cmd[c]) /\ cmd' = [cmd EXCEPT ![c] = NoCmd]
      /\ mixed' = mixed /\ nCmd' = nCmd /\ waiters' = waiters
      /\ mode' = mode /\ val' = val /\ temp' = temp /\ list' = list /\ at' = at
      /\ stream' = stream /\ rval' = rval /\ rtemp' = rtemp /\ rlist' = rlist /\ acked' = acked
      /\ linked' = linked /\ done' = done /\ nStop' = nStop
  BY Zenon DEF AppendFile, dataVars, replicaVars
<1>2. TypeOK /\ WaitInv /\ cmd[c] \in Commands /\ file \in Seq(Commands)
  BY Zenon DEF WpInv, TypeOK
<1>3. pc'[c] = "idle" /\ \A d \in Clients : d # c => pc'[d] = pc[d] /\ cmd'[d] = cmd[d]
  BY <1>1, <1>2, Zenon DEF TypeOK
<1>4. TypeOK'
  <2>1. pc' \in [Clients -> {"idle", "blocked", "reply", "propagate", "append"}]
    BY <1>1, <1>2, Zenon DEF TypeOK
  <2>2. file' \in Seq(Commands)
    BY <1>1, <1>2
  <2>3. NoCmd \in Commands
    BY DEF NoCmd, Commands
  <2>4. cmd' \in [Clients -> Commands]
    BY <1>1, <1>2, <2>3, Zenon DEF TypeOK
  <2>5. QED  BY <1>1, <1>2, <2>1, <2>2, <2>4, Zenon DEF TypeOK
<1>5. WaitInv'
  BY <1>1, <1>2, <1>3, PlaceMoves, Zenon
<1>6. ASSUME NEW K
      PROVE  /\ Pending(pc', cmd', Applied, K) = Pending(pc, cmd, Applied, K) \ {c}
             /\ Pending(pc', cmd', Unsent, K) = Pending(pc, cmd, Unsent, K)
             /\ c \notin Pending(pc, cmd, Unsent, K)
             /\ KeyOf(cmd[c].op) = K => c \in Pending(pc, cmd, Applied, K)
             /\ KeyOf(cmd[c].op) # K => c \notin Pending(pc, cmd, Applied, K)
  <2>1. /\ pc'[c] \notin Applied /\ pc[c] \in Applied /\ pc[c] \notin Unsent /\ pc'[c] \notin Unsent
    BY <1>1, <1>3 DEF Applied, Unsent
  <2>2. ASSUME NEW S, NEW d \in Clients, d # c
        PROVE  pc'[d] \in S /\ KeyOf(cmd'[d].op) = K <=> pc[d] \in S /\ KeyOf(cmd[d].op) = K
    <3>1. pc'[d] = pc[d] /\ cmd'[d] = cmd[d]
      BY <1>3, <2>2, Zenon
    <3>2. QED  BY <3>1, Zenon
  <2>3. QED  BY <2>1, <2>2, Zenon DEF Pending
<1>7. Q = After(R, cmd[c])
  <2>1. Len(file') = Len(file) + 1
    BY <1>1, <1>2
  <2>2. States(Append(file, cmd[c]))[Len(file) + 1] = After(R, cmd[c])
    BY <1>2, StatesAppend, Zenon
  <2>3. QED  BY <1>1, <2>1, <2>2, Zenon
<1>8. /\ Q.val = StrAfter(R.val, cmd[c]) /\ Q.temp = TempAfter(R.temp, cmd[c])
      /\ Q.list = ListAfter(R.list, cmd[c])
  <2> HIDE DEF Q, R
  <2>1. QED  BY <1>7, Zenon DEF After
<1> HIDE DEF Q, R
<1>9. StringInv'
  <2> DEFINE A == Pending(pc, cmd, Applied, "string")
             U == Pending(pc, cmd, Unsent, "string")
  <2> SUFFICES ASSUME "string" \notin mixed
               PROVE  /\ \A d, e \in A \ {c} : d = e
                      /\ StringFits(Q.val, Q.temp, A \ {c}, cmd', val, temp)
                      /\ linked = "yes" => \E w, u :
                            /\ Ends(rval, rtemp, stream, w, u)
                            /\ StringFits(w, u, U, cmd', val, temp)
    BY <1>1, <1>6, Zenon DEF StringInv, Rebuilt, Q
  <2>1. /\ \A d, e \in A : d = e
        /\ StringFits(R.val, R.temp, A, cmd, val, temp)
        /\ linked = "yes" => \E w, u :
              Ends(rval, rtemp, stream, w, u) /\ StringFits(w, u, U, cmd, val, temp)
    BY <1>1, Zenon DEF WpInv, StringInv, Rebuilt, R
  <2>2. A \subseteq Clients /\ U \subseteq Clients /\ c \notin U
    BY <1>6, Zenon DEF Pending
  <2>3. StringFits(Q.val, Q.temp, A \ {c}, cmd', val, temp)
    <3>1. CASE KeyOf(cmd[c].op) = "string"
      <4>1. c \in A
        BY <1>6, <3>1, Zenon
      <4> HIDE DEF A
      <4>2. A \ {c} = {}
        BY <2>1, <4>1, Zenon
      <4>3. Alike(val, temp, Q.val, Q.temp)
        BY <1>8, <2>1, <4>1, Zenon DEF StringFits
      <4>4. QED  BY <4>2, <4>3, Zenon DEF StringFits
    <3>2. CASE KeyOf(cmd[c].op) # "string"
      <4>1. c \notin A
        BY <1>6, <3>2, Zenon
      <4> HIDE DEF A
      <4>2. A \ {c} = A /\ \A d \in A : cmd'[d] = cmd[d]
        BY <1>3, <2>2, <4>1, Zenon
      <4>3. Q.val = R.val /\ Q.temp = R.temp
        BY <1>8, <3>2, OtherKey, Zenon
      <4>4. QED  BY <2>1, <4>2, <4>3, Zenon DEF StringFits
    <3>3. QED  BY <3>1, <3>2, Zenon
  <2> HIDE DEF A, U
  <2>4. \A d \in U : cmd'[d] = cmd[d]
    BY <1>3, <2>2, Zenon
  <2>5. \A w, u : StringFits(w, u, U, cmd, val, temp) => StringFits(w, u, U, cmd', val, temp)
    BY <2>4, Zenon DEF StringFits
  <2>6. QED  BY <2>1, <2>3, <2>5, Zenon
<1>10. ListInv'
  <2> DEFINE A == Pending(pc, cmd, Applied, "list")
             U == Pending(pc, cmd, Unsent, "list")
  <2> SUFFICES ASSUME "list" \notin mixed
               PROVE  /\ \A d, e \in A \ {c} : d = e
                      /\ ListFits(Q.list, A \ {c}, cmd', list)
                      /\ linked = "yes" => \E l : /\ Reaches(rlist, stream, l)
                                                  /\ ListFits(l, U, cmd', list)
    BY <1>1, <1>6, Zenon DEF ListInv, Rebuilt, Q
  <2>1. /\ \A d, e \in A : d = e
        /\ ListFits(R.list, A, cmd, list)
        /\ linked = "yes" => \E l : Reaches(rlist, stream, l) /\ ListFits(l, U, cmd, list)
    BY <1>1, Zenon DEF WpInv, ListInv, Rebuilt, R
  <2>2. A \subseteq Clients /\ U \subseteq Clients /\ c \notin U
    BY <1>6, Zenon DEF Pending
  <2>3. ListFits(Q.list, A \ {c}, cmd', list)
    <3>1. CASE KeyOf(cmd[c].op) = "list"
      <4>1. c \in A
        BY <1>6, <3>1, Zenon
      <4> HIDE DEF A
      <4>2. A \ {c} = {}
        BY <2>1, <4>1, Zenon
      <4>3. Q.list = list
        BY <1>8, <2>1, <4>1, Zenon DEF ListFits
      <4>4. QED  BY <4>2, <4>3, Zenon DEF ListFits
    <3>2. CASE KeyOf(cmd[c].op) # "list"
      <4>1. c \notin A
        BY <1>6, <3>2, Zenon
      <4> HIDE DEF A
      <4>2. A \ {c} = A /\ \A d \in A : cmd'[d] = cmd[d]
        BY <1>3, <2>2, <4>1, Zenon
      <4>3. Q.list = R.list
        BY <1>8, <3>2, OtherKey, Zenon
      <4>4. QED  BY <2>1, <4>2, <4>3, Zenon DEF ListFits
    <3>3. QED  BY <3>1, <3>2, Zenon
  <2> HIDE DEF A, U
  <2>4. \A d \in U : cmd'[d] = cmd[d]
    BY <1>3, <2>2, Zenon
  <2>5. \A l : ListFits(l, U, cmd, list) => ListFits(l, U, cmd', list)
    BY <2>4, Zenon DEF ListFits
  <2>6. QED  BY <2>1, <2>3, <2>5, Zenon
<1>11. ProcessInv'
  BY <1>1, UpProcess, Zenon
<1>12. QED  BY <1>4, <1>5, <1>9, <1>10, <1>11, Zenon DEF WpInv

\* The string key expires on the leader: the copies are alike still.
LEMMA ExpireStep == ASSUME WpInv, Expire PROVE WpInv'
<1>1. /\ mode = "up" /\ temp = "yes" /\ val # 0 /\ val' = 0 /\ temp' = "no"
      /\ mixed' = mixed /\ nCmd' = nCmd /\ waiters' = waiters /\ pc' = pc /\ cmd' = cmd
      /\ mode' = mode /\ list' = list /\ file' = file /\ at' = at
      /\ stream' = stream /\ rval' = rval /\ rtemp' = rtemp /\ rlist' = rlist /\ acked' = acked
      /\ linked' = linked /\ done' = done /\ nStop' = nStop
  BY Zenon DEF Expire, replicaVars
<1>2. TypeOK'
  <2>1. 0 \in Nat
    OBVIOUS
  <2>2. QED  BY <1>1, <2>1, Zenon DEF WpInv, TypeOK
<1>3. WaitInv'
  BY <1>1, WaitKept, Zenon DEF WpInv
<1>4. ListInv'
  BY <1>1, ListKept, Zenon DEF WpInv
<1>5. StringInv'
  <2>1. \A w, u : Alike(val, temp, w, u) => Alike(val', temp', w, u)
    BY <1>1 DEF Alike
  <2>2. \A w, u, D : StringFits(w, u, D, cmd, val, temp) => StringFits(w, u, D, cmd', val', temp')
    BY <1>1, <2>1, Zenon DEF StringFits
  <2>3. QED  BY <1>1, <2>2, Zenon DEF WpInv, StringInv, Rebuilt
<1>6. ProcessInv'
  BY <1>1, UpProcess, Zenon
<1>7. QED  BY <1>2, <1>3, <1>4, <1>5, <1>6, Zenon DEF WpInv

\* What a command leaves is of the same kind as what it finds.
LEMMA AfterTypes ==
    ASSUME NEW x \in Commands
    PROVE  /\ \A v \in Nat : StrAfter(v, x) \in Nat
           /\ \A t \in {"no", "yes"} : TempAfter(t, x) \in {"no", "yes"}
           /\ \A l \in Seq(Nat) : ListAfter(l, x) \in Seq(Nat)
<1>1. x.id \in Nat
  BY DEF Commands
<1>2. \A v \in Nat : StrAfter(v, x) \in Nat
  BY <1>1, Zenon DEF StrAfter
<1>3. \A t \in {"no", "yes"} : TempAfter(t, x) \in {"no", "yes"}
  BY DEF TempAfter
<1>4. ASSUME NEW l \in Seq(Nat) PROVE ListAfter(l, x) \in Seq(Nat)
  <2>1. Append(l, x.id) \in Seq(Nat) /\ (l # <<>> => Tail(l) \in Seq(Nat))
    BY <1>1
  <2>2. QED  BY <2>1, Zenon DEF ListAfter
<1>5. QED  BY <1>2, <1>3, <1>4, Zenon

\* The replica applies the oldest command.
LEMMA ReplicaApplyStep == ASSUME WpInv, ReplicaApply PROVE WpInv'
<1>1. /\ linked = "yes" /\ stream # <<>> /\ stream' = Tail(stream)
      /\ rval' = StrAfter(rval, Head(stream)) /\ rtemp' = TempAfter(rtemp, Head(stream))
      /\ rlist' = ListAfter(rlist, Head(stream))
      /\ mixed' = mixed /\ nCmd' = nCmd /\ waiters' = waiters /\ pc' = pc /\ cmd' = cmd
      /\ mode' = mode /\ val' = val /\ temp' = temp /\ list' = list /\ file' = file /\ at' = at
      /\ acked' = acked /\ linked' = linked /\ done' = done /\ nStop' = nStop
  BY Zenon DEF ReplicaApply, dataVars
<1>2. TypeOK /\ stream \in Seq(Commands)
  BY Zenon DEF WpInv, TypeOK
<1>3. Head(stream) \in Commands /\ stream' \in Seq(Commands)
  BY <1>1, <1>2
<1>4. mode = "up"
  BY <1>1 DEF WpInv, ProcessInv
<1>5. TypeOK'
  <2>1. rval' \in Nat /\ rtemp' \in {"no", "yes"} /\ rlist' \in Seq(Nat)
    BY <1>1, <1>2, <1>3, AfterTypes, Zenon DEF TypeOK
  <2>2. QED  BY <1>1, <1>2, <1>3, <2>1, Zenon DEF TypeOK
<1>6. WaitInv'
  BY <1>1, WaitKept, Zenon DEF WpInv
<1>7. StringInv'
  <2>1. \A w, u : Ends(rval, rtemp, stream, w, u) => Ends(rval', rtemp', stream', w, u)
    BY <1>1, <1>2, EndsTail, Zenon
  <2>2. QED  BY <1>1, <2>1, Zenon DEF WpInv, StringInv, Rebuilt
<1>8. ListInv'
  <2>1. \A l : Reaches(rlist, stream, l) => Reaches(rlist', stream', l)
    BY <1>1, <1>2, ReachesTail, Zenon
  <2>2. QED  BY <1>1, <2>1, Zenon DEF WpInv, ListInv, Rebuilt
<1>9. ProcessInv'
  BY <1>1, <1>4, UpProcess, Zenon
<1>10. QED  BY <1>5, <1>6, <1>7, <1>8, <1>9, Zenon DEF WpInv

\* The string key expires on the replica.
LEMMA ReplicaExpireStep == ASSUME WpInv, ReplicaExpire PROVE WpInv'
<1> DEFINE U == Pending(pc, cmd, Unsent, "string")
<1>1. /\ rtemp = "yes" /\ rval # 0 /\ rval' = 0 /\ rtemp' = "no"
      /\ mixed' = mixed /\ nCmd' = nCmd /\ waiters' = waiters /\ pc' = pc /\ cmd' = cmd
      /\ mode' = mode /\ val' = val /\ temp' = temp /\ list' = list /\ file' = file /\ at' = at
      /\ stream' = stream /\ rlist' = rlist
      /\ acked' = acked /\ linked' = linked /\ done' = done /\ nStop' = nStop
  BY Zenon DEF ReplicaExpire, dataVars
<1>2. TypeOK'
  <2>1. 0 \in Nat
    OBVIOUS
  <2>2. QED  BY <1>1, <2>1, Zenon DEF WpInv, TypeOK
<1>3. WaitInv'
  BY <1>1, WaitKept, Zenon DEF WpInv
<1>4. ListInv'
  BY <1>1, ListKept, Zenon DEF WpInv
<1>5. ASSUME NEW w, NEW u, Ends(rval, rtemp, stream, w, u), StringFits(w, u, U, cmd, val, temp)
      PROVE  \E y, z : Ends(0, "no", stream, y, z) /\ StringFits(y, z, U, cmd, val, temp)
  <2>1. CASE (\A i \in DOMAIN stream : ~Sets(stream[i])) /\ w = rval /\ u = rtemp
    <3>1. Ends(0, "no", stream, 0, "no")
      BY <2>1, Zenon DEF Ends
    <3>2. Alike(val, temp, w, u) => Alike(val, temp, 0, "no")
      BY <1>1, <2>1 DEF Alike
    <3>3. ASSUME NEW c \in U
          PROVE  /\ StrAfter(0, cmd[c]) = StrAfter(w, cmd[c])
                 /\ TempAfter("no", cmd[c]) = TempAfter(u, cmd[c])
      <4>1. KeyOf(cmd[c].op) = "string"
        BY Zenon DEF Pending
      <4>2. cmd[c].op \in {"SET", "SETPX"}
        BY <4>1 DEF KeyOf
      <4>3. QED  BY <4>2, Zenon DEF StrAfter, TempAfter
    <3> HIDE DEF U
    <3>4. StringFits(0, "no", U, cmd, val, temp)
      BY <1>5, <3>2, <3>3, Zenon DEF StringFits
    <3>5. QED  BY <3>1, <3>4, Zenon
  <2>2. ASSUME NEW i \in DOMAIN stream, Sets(stream[i]),
               \A j \in DOMAIN stream : j > i => ~Sets(stream[j]),
               w = StrAfter(rval, stream[i]), u = TempAfter(rtemp, stream[i])
        PROVE  Ends(0, "no", stream, w, u)
    <3>1. w = StrAfter(0, stream[i]) /\ u = TempAfter("no", stream[i])
      BY <2>2, Zenon DEF Sets, StrAfter, TempAfter
    <3>2. QED  BY <2>2, <3>1, Zenon DEF Ends
  <2>3. QED  BY <1>5, <2>1, <2>2, Zenon DEF Ends
<1>6. StringInv'
  BY <1>1, <1>5, Zenon DEF WpInv, StringInv, Rebuilt
<1>7. ProcessInv'
  BY <1>1, Zenon DEF WpInv, ProcessInv
<1>8. QED  BY <1>2, <1>3, <1>4, <1>6, <1>7, Zenon DEF WpInv

\* With no handler at work and no link there is nothing to fit but the file.
LEMMA NoneAtWork ==
    ASSUME \A c \in Clients : pc[c] = "idle"
    PROVE  \A K : Pending(pc, cmd, Applied, K) = {} /\ Pending(pc, cmd, Unsent, K) = {}
<1>1. \A c \in Clients : pc[c] \notin Applied /\ pc[c] \notin Unsent
  BY DEF Applied, Unsent
<1>2. QED  BY <1>1, Zenon DEF Pending

\* The process ends, by a crash or an orderly exit.
LEMMA StoppedStep == ASSUME WpInv, Stopped, nStop' \in Nat PROVE WpInv'
<1>1. /\ mode' = "down" /\ val' = 0 /\ temp' = "no" /\ list' = <<>> /\ waiters' = <<>>
      /\ pc' = [c \in Clients |-> "idle"] /\ cmd' = [c \in Clients |-> NoCmd]
      /\ linked' = "no" /\ stream' = <<>> /\ at' = 1 /\ done' = "no" /\ mixed' = {}
      /\ rval' = rval /\ rtemp' = rtemp /\ rlist' = rlist /\ file' = file
      /\ nCmd' = nCmd /\ acked' = acked
  BY Zenon DEF Stopped
<1>2. \A c \in Clients : pc'[c] = "idle"
  BY <1>1, Zenon
<1>3. TypeOK'
  <2>1. /\ 0 \in Nat /\ 1 \in Nat /\ <<>> \in Seq(Nat) /\ <<>> \in Seq(Clients)
        /\ <<>> \in Seq(Commands) /\ NoCmd \in Commands
    BY DEF NoCmd, Commands
  <2>2. /\ pc' \in [Clients -> {"idle", "blocked", "reply", "propagate", "append"}]
        /\ cmd' \in [Clients -> Commands]
    BY <1>1, <2>1, Zenon
  <2>3. QED  BY <1>1, <2>1, <2>2, Zenon DEF WpInv, TypeOK
<1>4. ProcessInv'
  BY <1>1, <1>2 DEF ProcessInv, Nothing
<1>5. WaitInv'
  <2>1. \A i \in DOMAIN <<>> : FALSE
    OBVIOUS
  <2>2. \A c \in Clients : pc'[c] # "blocked"
    BY <1>2
  <2>3. QED  BY <1>1, <2>1, <2>2, Zenon DEF WaitInv, Once, In
<1>6. \A K, S : S \in {Applied, Unsent} => Pending(pc', cmd', S, K) = {}
  <2>1. \A c \in Clients : pc'[c] \notin Applied /\ pc'[c] \notin Unsent
    BY <1>2 DEF Applied, Unsent
  <2>2. QED  BY <2>1, Zenon DEF Pending
<1>7. mode' # "up" /\ linked' # "yes" /\ \A K : \A c, d \in Pending(pc', cmd', Applied, K) : c = d
  BY <1>1, <1>6
<1>8. StringInv' /\ ListInv'
  BY <1>7, Zenon DEF StringInv, ListInv
<1>9. QED  BY <1>3, <1>4, <1>5, <1>8, Zenon DEF WpInv

\* The request to stop only sets the flag.
LEMMA ShutdownStep == ASSUME WpInv, Shutdown PROVE WpInv'
<1>1. /\ mode = "up" /\ nStop' = nStop + 1 /\ done' = "yes"
      /\ mixed' = mixed /\ nCmd' = nCmd /\ waiters' = waiters /\ pc' = pc /\ cmd' = cmd
      /\ mode' = mode /\ val' = val /\ temp' = temp /\ list' = list /\ file' = file /\ at' = at
      /\ stream' = stream /\ rval' = rval /\ rtemp' = rtemp /\ rlist' = rlist
      /\ acked' = acked /\ linked' = linked
  BY Zenon DEF Shutdown, dataVars, replicaVars
<1>2. TypeOK'
  <2>1. nStop' \in Nat
    BY <1>1 DEF WpInv, TypeOK
  <2>2. QED  BY <1>1, <2>1, Zenon DEF WpInv, TypeOK
<1>3. WaitInv'
  BY <1>1, WaitKept, Zenon DEF WpInv
<1>4. StringInv' /\ ListInv'
  BY <1>1, StringKept, ListKept, Zenon DEF WpInv
<1>5. ProcessInv'
  BY <1>1, UpProcess, Zenon
<1>6. QED  BY <1>2, <1>3, <1>4, <1>5, Zenon DEF WpInv

\* What the replay of a file is made of.
LEMMA FileReplay ==
    ASSUME TypeOK
    PROVE  /\ Len(file) \in Nat /\ States(file)[0] = Nothing
           /\ \A i \in 1 .. Len(file) : /\ States(file)[i] = After(States(file)[i - 1], file[i])
                                        /\ file[i] \in Commands
<1>1. Len(file) \in Nat /\ \A i \in 1 .. Len(file) : file[i] \in Commands
  BY DEF TypeOK
<1>2. QED  BY <1>1, StatesReplay, ReplayAt, Zenon

\* The steps of a process that starts: it replays the file from its beginning to
\* its end.
LEMMA StartStep == ASSUME WpInv, Boot \/ Replay \/ BootDone PROVE WpInv'
<1> DEFINE data == [val |-> val, temp |-> temp, list |-> list]
<1>1. /\ nCmd' = nCmd /\ waiters' = waiters /\ pc' = pc /\ cmd' = cmd /\ mixed' = mixed
      /\ stream' = stream /\ rval' = rval /\ rtemp' = rtemp /\ rlist' = rlist /\ file' = file
      /\ acked' = acked /\ linked' = linked /\ done' = done /\ nStop' = nStop
  BY Zenon DEF Boot, Replay, BootDone, replicaVars
<1>2. TypeOK /\ ProcessInv /\ WaitInv /\ mode # "up"
  BY DEF WpInv, Boot, Replay, BootDone
<1>3. /\ \A c \in Clients : pc[c] = "idle"
      /\ waiters = <<>> /\ linked = "no" /\ mixed = {}
  BY <1>2, Zenon DEF ProcessInv
<1>4. /\ Len(file) \in Nat /\ States(file)[0] = Nothing
      /\ \A i \in 1 .. Len(file) : /\ States(file)[i] = After(States(file)[i - 1], file[i])
                                   /\ file[i] \in Commands
  BY <1>2, FileReplay, Zenon
<1>5. WaitInv'
  BY <1>1, <1>2, <1>3, WaitKept, Zenon
<1>6. \A K : /\ Pending(pc', cmd', Applied, K) = {}
             /\ \A c, d \in Pending(pc', cmd', Applied, K) : c = d
  BY <1>1, <1>3, NoneAtWork, Zenon
<1>7. linked' # "yes"
  BY <1>1, <1>3
<1>8. CASE Boot
  <2>1. /\ mode = "down" /\ mode' = "boot" /\ val' = val /\ temp' = temp /\ list' = list
        /\ at' = at
    BY <1>8, Zenon DEF Boot, dataVars
  <2>2. TypeOK'
    BY <1>1, <1>2, <2>1, Zenon DEF TypeOK
  <2>3. at = 1 /\ data = Nothing
    BY <1>2, <2>1, Zenon DEF ProcessInv
  <2>4. 1 \in 1 .. Len(file) + 1 /\ 1 - 1 = 0
    BY <1>4
  <2>5. mode' # "up" /\ mode' # "down"
    BY <2>1
  <2>6. ProcessInv'
    BY <1>1, <1>3, <1>4, <2>1, <2>3, <2>4, <2>5, Zenon DEF ProcessInv
  <2>7. StringInv' /\ ListInv'
    BY <1>6, <1>7, <2>5, Zenon DEF StringInv, ListInv
  <2>8. QED  BY <1>5, <2>2, <2>6, <2>7, Zenon DEF WpInv
<1>9. CASE Replay
  <2>1. /\ mode = "boot" /\ at <= Len(file) /\ val' = StrAfter(val, file[at])
        /\ temp' = TempAfter(temp, file[at]) /\ list' = ListAfter(list, file[at])
        /\ at' = at + 1 /\ mode' = mode
    BY <1>9, Zenon DEF Replay
  <2>2. at \in 1 .. Len(file) + 1 /\ data = States(file)[at - 1]
    BY <1>2, <2>1, Zenon DEF ProcessInv
  <2>3. at \in 1 .. Len(file) /\ at' \in 1 .. Len(file) + 1 /\ at' \in Nat /\ at' - 1 = at
    BY <1>4, <2>1, <2>2
  <2>4. TypeOK'
    <3>1. val' \in Nat /\ temp' \in {"no", "yes"} /\ list' \in Seq(Nat)
      BY <1>2, <1>4, <2>1, <2>3, AfterTypes, Zenon DEF TypeOK
    <3>2. QED  BY <1>1, <1>2, <2>1, <2>3, <3>1, Zenon DEF TypeOK
  <2>5. [val |-> val', temp |-> temp', list |-> list'] = States(file)[at]
    <3>1. States(file)[at] = After(data, file[at])
      BY <1>4, <2>2, <2>3, Zenon
    <3>2. QED  BY <2>1, <3>1 DEF After
  <2>6. mode' # "up" /\ mode' # "down"
    BY <2>1
  <2>7. ProcessInv'
    BY <1>1, <1>3, <2>3, <2>5, <2>6, Zenon DEF ProcessInv
  <2>8. StringInv' /\ ListInv'
    BY <1>6, <1>7, <2>6, Zenon DEF StringInv, ListInv
  <2>9. QED  BY <1>5, <2>4, <2>7, <2>8, Zenon DEF WpInv
<1>10. CASE BootDone
  <2>1. /\ mode = "boot" /\ at > Len(file) /\ mode' = "up" /\ val' = val /\ temp' = temp
        /\ list' = list /\ at' = at
    BY <1>10, Zenon DEF BootDone, dataVars
  <2>2. at \in 1 .. Len(file) + 1 /\ data = States(file)[at - 1]
    BY <1>2, <2>1, Zenon DEF ProcessInv
  <2>3. at - 1 = Len(file)
    BY <1>4, <2>1, <2>2
  <2>4. data = States(file)[Len(file)]
    BY <2>2, <2>3, Zenon
  <2>5. /\ States(file)[Len(file)].val = val /\ States(file)[Len(file)].temp = temp
        /\ States(file)[Len(file)].list = list
    BY <2>4
  <2>6. TypeOK'
    BY <1>1, <1>2, <2>1, Zenon DEF TypeOK
  <2>7. ProcessInv'
    BY <2>1, UpProcess, Zenon
  <2>8. StringInv'
    <3>1. StringFits(States(file)[Len(file)].val, States(file)[Len(file)].temp, {}, cmd, val, temp)
      BY <2>5, Zenon DEF StringFits, Alike
    <3>2. QED  BY <1>1, <1>6, <1>7, <2>1, <3>1, Zenon DEF StringInv, Rebuilt
  <2>9. ListInv'
    <3>1. ListFits(States(file)[Len(file)].list, {}, cmd, list)
      BY <2>5, Zenon DEF ListFits
    <3>2. QED  BY <1>1, <1>6, <1>7, <2>1, <3>1, Zenon DEF ListInv, Rebuilt
  <2>10. QED  BY <1>5, <2>6, <2>7, <2>8, <2>9, Zenon DEF WpInv
<1>11. QED  BY <1>8, <1>9, <1>10, Zenon

\* A step that changes nothing.
LEMMA WpStutters == ASSUME WpInv, UNCHANGED vars PROVE WpInv'
<1>1. /\ mode' = mode /\ nCmd' = nCmd /\ waiters' = waiters /\ pc' = pc /\ cmd' = cmd
      /\ val' = val /\ temp' = temp /\ list' = list /\ at' = at /\ mixed' = mixed
      /\ stream' = stream /\ rval' = rval /\ rtemp' = rtemp /\ rlist' = rlist /\ file' = file
      /\ acked' = acked /\ linked' = linked /\ done' = done /\ nStop' = nStop
  BY Zenon DEF vars
<1>2. TypeOK' /\ WaitInv' /\ ProcessInv'
  <2>1. TypeOK'
    BY <1>1, Zenon DEF WpInv, TypeOK
  <2>2. WaitInv'
    BY <1>1, WaitKept, Zenon DEF WpInv
  <2>3. ProcessInv'
    BY <1>1, Zenon DEF WpInv, ProcessInv
  <2>4. QED  BY <2>1, <2>2, <2>3, Zenon
<1>3. StringInv' /\ ListInv'
  BY <1>1, StringKept, ListKept, Zenon DEF WpInv
<1>4. QED  BY <1>2, <1>3, Zenon DEF WpInv

\* The first state: nothing anywhere.
LEMMA WpStarts == ASSUME Init PROVE WpInv
<1>1. /\ mode = "up" /\ val = 0 /\ temp = "no" /\ list = <<>> /\ waiters = <<>>
      /\ pc = [c \in Clients |-> "idle"] /\ cmd = [c \in Clients |-> NoCmd]
      /\ stream = <<>> /\ rval = 0 /\ rtemp = "no" /\ rlist = <<>> /\ linked = "yes"
      /\ file = <<>> /\ at = 1 /\ done = "no" /\ nCmd = 0 /\ nStop = 0 /\ acked = {}
      /\ mixed = {}
  BY Zenon DEF Init
<1>2. \A c \in Clients : pc[c] = "idle"
  BY <1>1, Zenon
<1>3. TypeOK
  <2>1. /\ 0 \in Nat /\ 1 \in Nat /\ <<>> \in Seq(Nat) /\ <<>> \in Seq(Clients)
        /\ <<>> \in Seq(Commands) /\ NoCmd \in Commands
    BY DEF NoCmd, Commands
  <2>2. /\ pc \in [Clients -> {"idle", "blocked", "reply", "propagate", "append"}]
        /\ cmd \in [Clients -> Commands]
    BY <1>1, <2>1, Zenon
  <2>3. QED  BY <1>1, <2>1, <2>2, Zenon DEF TypeOK
<1>4. ProcessInv
  BY <1>1 DEF ProcessInv
<1>5. \A i \in DOMAIN <<>> : FALSE
  OBVIOUS
<1>6. WaitInv
  <2>1. \A c \in Clients : pc[c] # "blocked"
    BY <1>2
  <2>2. QED  BY <1>1, <1>5, <2>1, Zenon DEF WaitInv, Once, In
<1>7. \A K : Pending(pc, cmd, Applied, K) = {} /\ Pending(pc, cmd, Unsent, K) = {}
  BY <1>2, NoneAtWork, Zenon
<1>8. Rebuilt.val = 0 /\ Rebuilt.temp = "no" /\ Rebuilt.list = <<>>
  <2>1. Len(file) = 0 /\ States(file)[0] = Nothing
    BY <1>1, <1>3, FileReplay
  <2>2. Rebuilt = Nothing
    BY <2>1, Zenon DEF Rebuilt
  <2>3. QED  BY <2>2, Zenon DEF Nothing
<1>9. StringInv
  <2>1. Ends(rval, rtemp, stream, 0, "no")
    BY <1>1, <1>5, Zenon DEF Ends
  <2>2. Alike(val, temp, 0, "no")
    BY <1>1, Zenon DEF Alike
  <2>3. StringFits(0, "no", {}, cmd, val, temp)
    BY <2>2, Zenon DEF StringFits
  <2>4. QED  BY <1>7, <1>8, <2>1, <2>3, Zenon DEF StringInv
<1>10. ListInv
  <2>1. Reaches(rlist, stream, list)
    BY <1>1, ReachesAtOnce, Zenon
  <2>2. QED  BY <1>1, <1>7, <1>8, <2>1, Zenon DEF ListInv, ListFits
<1>11. QED  BY <1>3, <1>4, <1>6, <1>9, <1>10, Zenon DEF WpInv

\* Every step keeps the invariant.
LEMMA WpStep == ASSUME WpInv, [Next]_vars PROVE WpInv'
<1>1. ASSUME NEW c \in Clients, Handler(c) PROVE WpInv'
  BY <1>1, GiveUpStep, ReplyStep, PropagateStep, AppendFileStep, Zenon DEF Handler
<1>2. ASSUME NEW c \in Clients, NEW op \in Kinds, Command(c, op) PROVE WpInv'
  BY <1>2, SetStep, RPushStep, BLpopStep, Zenon DEF Command
<1>3. nStop \in Nat /\ nStop + 1 \in Nat
  BY DEF WpInv, TypeOK
<1>4. CASE Crash \/ Exit
  BY <1>3, <1>4, StoppedStep, Zenon DEF Crash, Exit
<1>5. CASE Expire \/ ReplicaApply \/ ReplicaExpire \/ Shutdown
  BY <1>5, ExpireStep, ReplicaApplyStep, ReplicaExpireStep, ShutdownStep, Zenon
<1>6. CASE Boot \/ Replay \/ BootDone
  BY <1>6, StartStep, Zenon
<1>7. CASE UNCHANGED vars
  BY <1>7, WpStutters, Zenon
<1>8. QED  BY <1>1, <1>2, <1>4, <1>5, <1>6, <1>7, Zenon DEF Next

\* The invariant holds in every reachable state.
LEMMA WpInvariant == Spec => []WpInv
<1>1. Init => WpInv
  BY WpStarts, Zenon
<1>2. WpInv /\ [Next]_vars => WpInv'
  BY WpStep, Zenon
<1>3. QED  BY <1>1, <1>2, PTL DEF Spec

\* Commands, places, the file and the rest are what they are said to be.
THEOREM TypeCorrect == Spec => []TypeOK
<1>1. WpInv => TypeOK
  BY Zenon DEF WpInv
<1>2. QED  BY <1>1, WpInvariant, PTL

\* Copies that are alike are the same to a reader who knows of the expiry.
LEMMA AlikeIsSame ==
    ASSUME NEW v, NEW t, NEW w, NEW u, Alike(v, t, w, u) PROVE SameString(v, t, w, u)
BY Zenon DEF Alike, SameString

\* Whenever no command is under way, a boot from the append-only file would give
\* the data that the store has, for each key on which no two commands overlapped:
\* the pops that a BLPOP made, and those it gave up on, included.
THEOREM FileGivesTheStore == Spec => []FileRebuilds
<1>1. ASSUME WpInv PROVE FileRebuilds
  <2> SUFFICES ASSUME Quiet
               PROVE  /\ "string" \notin mixed => SameString(val, temp, Rebuilt.val, Rebuilt.temp)
                      /\ "list" \notin mixed => Rebuilt.list = list
    BY Zenon DEF FileRebuilds
  <2>1. mode = "up" /\ \A K : Pending(pc, cmd, Applied, K) = {}
    BY NoneAtWork, Zenon DEF Quiet
  <2>2. /\ "string" \notin mixed => Alike(val, temp, Rebuilt.val, Rebuilt.temp)
        /\ "list" \notin mixed => Rebuilt.list = list
    BY <1>1, <2>1, Zenon DEF WpInv, StringInv, ListInv, StringFits, ListFits
  <2>3. QED  BY <2>2, AlikeIsSame, Zenon
<1>2. QED  BY <1>1, WpInvariant, PTL

\* Whenever no command is under way and the replica has read all that was sent,
\* it has the leader's data, for each key on which no two commands overlapped.
THEOREM ReplicaGetsTheStore == Spec => []ReplicaConverges
<1>1. ASSUME WpInv PROVE ReplicaConverges
  <2> SUFFICES ASSUME Quiet, linked = "yes", stream = <<>>
               PROVE  /\ "string" \notin mixed => SameString(val, temp, rval, rtemp)
                      /\ "list" \notin mixed => rlist = list
    BY Zenon DEF ReplicaConverges
  <2>1. \A K : Pending(pc, cmd, Unsent, K) = {}
    BY NoneAtWork, Zenon DEF Quiet
  <2>2. \A i \in DOMAIN <<>> : FALSE
    OBVIOUS
  <2>3. \A w, u : Ends(rval, rtemp, stream, w, u) => w = rval /\ u = rtemp
    BY <2>2, Zenon DEF Ends
  <2>4. \A l : Reaches(rlist, stream, l) => l = rlist
    BY ReachesAtOnce, Zenon
  <2>5. "string" \notin mixed => Alike(val, temp, rval, rtemp)
    BY <1>1, <2>1, <2>3, Zenon DEF WpInv, StringInv, StringFits
  <2>6. "list" \notin mixed => rlist = list
    BY <1>1, <2>1, <2>4, Zenon DEF WpInv, ListInv, ListFits
  <2>7. QED  BY <2>5, <2>6, AlikeIsSame, Zenon
<1>2. QED  BY <1>1, WpInvariant, PTL

--------------------------------------------------------------------------------
(* What a stop loses *)

\* Answered, not in the file and in no handler's hands.
Lost == acked \ (FileIds \cup InHand)
WindowInv == IsFiniteSet(acked) /\ WindowOnly

\* More stops allow for more.
LEMMA TimesGrows ==
    ASSUME NEW n \in Nat, NEW a \in Nat, NEW b \in Nat, a <= b
    PROVE  n * a <= n * b /\ n * a \in Nat /\ n * b \in Nat
<1>1. PICK k \in Nat : b = a + k
  <2>1. b - a \in Nat /\ b = a + (b - a)
    OBVIOUS
  <2>2. QED  BY <2>1, Zenon
<1>2. n * (a + k) = n * a + n * k /\ n * k \in Nat /\ n * a \in Nat
  OBVIOUS
<1>3. QED  BY <1>1, <1>2

\* A step that loses nothing more.
LEMMA LosesNothing ==
    ASSUME WindowInv, nStop \in Nat, nStop' \in Nat, nStop <= nStop',
           IsFiniteSet(acked'), Lost' \subseteq Lost
    PROVE  WindowInv'
<1> DEFINE n == Cardinality(Clients)
<1>1. IsFiniteSet(Lost) /\ Cardinality(Lost) <= n * nStop
  <2>1. Lost \in SUBSET acked
    BY Zenon DEF Lost
  <2>2. IsFiniteSet(Lost)
    BY <2>1, FS_Subset, Zenon DEF WindowInv
  <2>3. QED  BY <2>2, Zenon DEF WindowInv, WindowOnly, Lost
<1>2. Cardinality(Lost') <= Cardinality(Lost) /\ IsFiniteSet(Lost')
  <2>1. Lost' \in SUBSET Lost
    BY Zenon
  <2>2. QED  BY <1>1, <2>1, FS_Subset, Zenon
<1>3. n \in Nat /\ Cardinality(Lost) \in Nat /\ Cardinality(Lost') \in Nat
  BY <1>1, <1>2, ClientsAssumption, FS_CardinalityType, Zenon
<1> HIDE DEF n
<1>4. n * nStop <= n * nStop' /\ n * nStop \in Nat /\ n * nStop' \in Nat
  BY <1>3, TimesGrows, Zenon
<1>5. Cardinality(Lost') <= n * nStop'
  BY <1>1, <1>2, <1>3, <1>4
<1>6. QED  BY <1>5, Zenon DEF WindowInv, WindowOnly, Lost, n

\* The handlers have at most one command each in hand.
LEMMA OneInHandEach ==
    IsFiniteSet(InHand) /\ Cardinality(InHand) <= Cardinality(Clients)
<1> DEFINE D == {d \in Clients : pc[d] \in {"propagate", "append"}}
           f == [d \in D |-> cmd[d].id]
<1>1. IsFiniteSet(D) /\ Cardinality(D) <= Cardinality(Clients)
  <2>1. D \in SUBSET Clients
    BY Zenon
  <2>2. QED  BY <2>1, ClientsAssumption, FS_Subset, Zenon
<1>2. InHand = {cmd[d].id : d \in D}
  BY Zenon DEF InHand
<1> HIDE DEF D
<1>3. f \in Surjection(D, InHand)
  BY <1>2, Zenon DEF Surjection
<1>4. IsFiniteSet(InHand) /\ Cardinality(InHand) <= Cardinality(D)
  BY <1>1, <1>3, FS_Surjection, Zenon
<1>5. /\ Cardinality(InHand) \in Nat /\ Cardinality(D) \in Nat /\ Cardinality(Clients) \in Nat
  BY <1>1, <1>4, ClientsAssumption, FS_CardinalityType, Zenon
<1>6. QED  BY <1>1, <1>4, <1>5

\* A crash loses at most what the handlers have in hand.
LEMMA CrashLoses == ASSUME WpInv, WindowInv, Crash PROVE WindowInv'
<1> DEFINE n == Cardinality(Clients)
<1>1. nStop' = nStop + 1 /\ nStop \in Nat /\ acked' = acked /\ file' = file
  BY Zenon DEF Crash, Stopped, WpInv, TypeOK
<1>2. Lost' \subseteq Lost \cup InHand
  BY <1>1, Zenon DEF Lost, FileIds
<1>3. IsFiniteSet(Lost) /\ Cardinality(Lost) <= n * nStop
  <2>1. Lost \in SUBSET acked
    BY Zenon DEF Lost
  <2>2. IsFiniteSet(Lost)
    BY <2>1, FS_Subset, Zenon DEF WindowInv
  <2>3. QED  BY <2>2, Zenon DEF WindowInv, WindowOnly, Lost
<1>4. IsFiniteSet(InHand) /\ Cardinality(InHand) <= n
  BY OneInHandEach, Zenon
<1>5. /\ IsFiniteSet(Lost \cup InHand) /\ IsFiniteSet(Lost \cap InHand)
      /\ Cardinality(Lost \cup InHand) =
            Cardinality(Lost) + Cardinality(InHand) - Cardinality(Lost \cap InHand)
  <2>1. Lost \cap InHand \in SUBSET Lost
    BY Zenon
  <2>2. QED  BY <1>3, <1>4, <2>1, FS_Union, FS_Subset, Zenon
<1>6. IsFiniteSet(Lost') /\ Cardinality(Lost') <= Cardinality(Lost \cup InHand)
  <2>1. Lost' \in SUBSET (Lost \cup InHand)
    BY <1>2, Zenon
  <2>2. QED  BY <1>5, <2>1, FS_Subset, Zenon
<1>7. /\ n \in Nat /\ Cardinality(Lost) \in Nat /\ Cardinality(InHand) \in Nat
      /\ Cardinality(Lost \cap InHand) \in Nat /\ Cardinality(Lost \cup InHand) \in Nat
      /\ Cardinality(Lost') \in Nat
  BY <1>3, <1>4, <1>5, <1>6, ClientsAssumption, FS_CardinalityType, Zenon
<1> HIDE DEF n
<1>8. n * (nStop + 1) = n * nStop + n /\ n * nStop \in Nat
  BY <1>1, <1>7
<1>9. Cardinality(Lost') <= n * nStop'
  BY <1>1, <1>3, <1>4, <1>5, <1>6, <1>7, <1>8
<1>10. QED  BY <1>1, <1>9, Zenon DEF WindowInv, WindowOnly, Lost, n

\* Commands that are in hand stay there, or reach the file.
LEMMA KeptInHand ==
    ASSUME acked' = acked, FileIds \subseteq FileIds',
           \A d \in Clients : pc[d] \in {"propagate", "append"} =>
              \/ pc'[d] \in {"propagate", "append"} /\ cmd'[d] = cmd[d]
              \/ cmd[d].id \in FileIds'
    PROVE  Lost' \subseteq Lost
<1>1. ASSUME NEW y \in InHand PROVE y \in FileIds' \cup InHand'
  <2>1. PICK d \in Clients : pc[d] \in {"propagate", "append"} /\ cmd[d].id = y
    BY Zenon DEF InHand
  <2>2. CASE cmd[d].id \in FileIds'
    BY <2>1, <2>2, Zenon
  <2>3. CASE pc'[d] \in {"propagate", "append"} /\ cmd'[d] = cmd[d]
    <3>1. cmd'[d].id = y
      BY <2>1, <2>3, Zenon
    <3>2. y \in InHand'
      BY <2>3, <3>1, Zenon DEF InHand
    <3>3. QED  BY <3>2, Zenon
  <2>4. QED  BY <2>1, <2>2, <2>3, Zenon
<1>2. QED  BY <1>1, Zenon DEF Lost

\* Every step but a crash loses nothing, and a crash at most one answered command
\* of each connection.
LEMMA WindowStep == ASSUME WpInv, WindowInv, [Next]_vars PROVE WindowInv'
<1>1. TypeOK /\ WaitInv /\ nStop \in Nat /\ nStop <= nStop /\ nStop + 1 \in Nat /\ nStop <= nStop + 1
  <2>1. TypeOK /\ WaitInv /\ nStop \in Nat
    BY Zenon DEF WpInv, TypeOK
  <2>2. QED  BY <2>1
<1>2. IsFiniteSet(acked)
  BY Zenon DEF WindowInv
<1>3. ASSUME acked' = acked, file' = file, nStop' = nStop,
             \A d \in Clients : pc[d] \in {"propagate", "append"} =>
                                  pc'[d] \in {"propagate", "append"} /\ cmd'[d] = cmd[d]
      PROVE  WindowInv'
  <2>1. FileIds' = FileIds
    BY <1>3, Zenon DEF FileIds
  <2>2. Lost' \subseteq Lost
    BY <1>3, <2>1, KeptInHand, Zenon
  <2>3. QED  BY <1>1, <1>2, <1>3, <2>2, LosesNothing, Zenon
<1>4. ASSUME NEW c \in Clients, NEW op \in Kinds, Command(c, op) PROVE WindowInv'
  <2>1. /\ acked' = acked /\ file' = file /\ nStop' = nStop /\ pc[c] = "idle"
        /\ cmd' = [cmd EXCEPT ![c] = [op |-> op, id |-> nCmd + 1]]
    BY <1>4, Zenon DEF Command, Set, RPush, BLpop, Read
  <2>2. ASSUME NEW d \in Clients, pc[d] \in {"propagate", "append"}
        PROVE  pc'[d] = pc[d] /\ cmd'[d] = cmd[d]
    <3>1. d # c /\ pc[d] # "blocked"
      BY <2>1, <2>2
    <3>2. cmd'[d] = cmd[d]
      BY <1>1, <2>1, <3>1, Zenon DEF TypeOK
    <3>3. CASE RPush(c, op) /\ waiters # <<>>
      <4>1. pc' = [pc EXCEPT ![c] = "reply", ![Head(waiters)] = "reply"]
        BY <3>3, Zenon DEF RPush
      <4>2. Head(waiters) \in Clients /\ In(Head(waiters), waiters)
        BY <1>1, <3>3, WaitersTail, Zenon DEF WaitInv, TypeOK
      <4>3. d # Head(waiters)
        BY <1>1, <3>1, <4>2, Zenon DEF WaitInv
      <4>4. QED  BY <1>1, <3>1, <3>2, <4>1, <4>2, <4>3, Zenon DEF TypeOK
    <3>4. CASE ~ (RPush(c, op) /\ waiters # <<>>)
      <4>1. pc' = [pc EXCEPT ![c] = "reply"] \/ pc' = [pc EXCEPT ![c] = "blocked"]
        BY <1>4, <3>4, Zenon DEF Command, Set, RPush, BLpop
      <4>2. QED  BY <1>1, <3>1, <3>2, <4>1, Zenon DEF TypeOK
    <3>5. QED  BY <3>3, <3>4, Zenon
  <2>3. QED  BY <1>3, <2>1, <2>2, Zenon
<1>5. ASSUME NEW c \in Clients, GiveUp(c) \/ Propagate(c) PROVE WindowInv'
  <2>1. /\ acked' = acked /\ file' = file /\ nStop' = nStop /\ cmd' = cmd
        /\ \/ pc[c] = "blocked" /\ pc' = [pc EXCEPT ![c] = "reply"]
           \/ pc' = [pc EXCEPT ![c] = "append"]
    BY <1>5, Zenon DEF GiveUp, Propagate
  <2>2. ASSUME NEW d \in Clients, pc[d] \in {"propagate", "append"}
        PROVE  pc'[d] \in {"propagate", "append"}
    BY <1>1, <2>1, <2>2 DEF TypeOK
  <2>3. QED  BY <1>3, <2>1, <2>2, Zenon
<1>6. ASSUME NEW c \in Clients, Reply(c) PROVE WindowInv'
  <2>1. /\ acked' = acked \cup {cmd[c].id} /\ file' = file /\ nStop' = nStop /\ cmd' = cmd
        /\ pc' = [pc EXCEPT ![c] = "propagate"]
    BY <1>6, Zenon DEF Reply
  <2>2. pc'[c] = "propagate" /\ \A d \in Clients : d # c => pc'[d] = pc[d]
    BY <1>1, <2>1, Zenon DEF TypeOK
  <2>3. cmd[c].id \in InHand' /\ FileIds' = FileIds
    BY <2>1, <2>2, Zenon DEF InHand, FileIds
  <2>4. \A d \in Clients : pc[d] \in {"propagate", "append"} => pc'[d] \in {"propagate", "append"}
    BY <2>2, Zenon
  <2>5. InHand \subseteq InHand'
    BY <2>1, <2>4, Zenon DEF InHand
  <2>6. Lost' \subseteq Lost
    BY <2>1, <2>3, <2>5, Zenon DEF Lost
  <2>7. IsFiniteSet(acked')
    BY <1>2, <2>1, FS_AddElement, Zenon
  <2>8. QED  BY <1>1, <2>1, <2>6, <2>7, LosesNothing, Zenon
<1>7. ASSUME NEW c \in Clients, AppendFile(c) PROVE WindowInv'
  <2>1. /\ acked' = acked /\ file' = Append(file, cmd[c]) /\ nStop' = nStop
        /\ pc' = [pc EXCEPT ![c] = "idle"] /\ cmd' = [cmd EXCEPT ![c] = NoCmd]
    BY <1>7, Zenon DEF AppendFile
  <2>2. /\ Len(file) \in Nat /\ DOMAIN file = 1 .. Len(file)
        /\ DOMAIN file' = 1 .. Len(file) + 1 /\ file'[Len(file) + 1] = cmd[c]
        /\ \A i \in 1 .. Len(file) : file'[i] = file[i]
    BY <1>1, <2>1 DEF TypeOK
  <2>3. Len(file) + 1 \in 1 .. Len(file) + 1 /\ \A i \in 1 .. Len(file) : i \in 1 .. Len(file) + 1
    BY <2>2
  <2>4. FileIds \subseteq FileIds' /\ cmd[c].id \in FileIds'
    BY <2>2, <2>3, Zenon DEF FileIds
  <2>5. \A d \in Clients : d # c => pc'[d] = pc[d] /\ cmd'[d] = cmd[d]
    BY <1>1, <2>1, Zenon DEF TypeOK
  <2>6. Lost' \subseteq Lost
    <3>1. \A d \in Clients : pc[d] \in {"propagate", "append"} =>
              \/ pc'[d] \in {"propagate", "append"} /\ cmd'[d] = cmd[d]
              \/ cmd[d].id \in FileIds'
      BY <2>4, <2>5, Zenon
    <3>2. QED  BY <2>1, <2>4, <3>1, KeptInHand, Zenon
  <2>7. QED  BY <1>1, <1>2, <2>1, <2>6, LosesNothing, Zenon
<1>8. CASE Expire \/ ReplicaApply \/ ReplicaExpire \/ Boot \/ Replay \/ BootDone \/ UNCHANGED vars
  <2>1. acked' = acked /\ file' = file /\ nStop' = nStop /\ pc' = pc /\ cmd' = cmd
    BY <1>8, Zenon DEF Expire, ReplicaApply, ReplicaExpire, Boot, Replay, BootDone, vars
  <2>2. QED  BY <1>3, <2>1, Zenon
<1>9. CASE Shutdown
  <2>1. acked' = acked /\ file' = file /\ nStop' = nStop + 1 /\ pc' = pc /\ cmd' = cmd
    BY <1>9, Zenon DEF Shutdown
  <2>2. Lost' = Lost
    BY <2>1, Zenon DEF Lost, FileIds, InHand
  <2>3. QED  BY <1>1, <1>2, <2>1, <2>2, LosesNothing, Zenon
<1>10. CASE Exit
  <2>1. acked' = acked /\ file' = file /\ nStop' = nStop /\ \A d \in Clients : pc[d] = "idle"
    BY <1>10, Zenon DEF Exit, Stopped
  <2>2. \A d \in Clients : pc[d] \notin {"propagate", "append"}
    BY <2>1
  <2>3. QED  BY <1>3, <2>1, <2>2, Zenon
<1>11. CASE Crash
  BY <1>11, CrashLoses, Zenon
<1>12. QED  BY <1>4, <1>5, <1>6, <1>7, <1>8, <1>9, <1>10, <1>11, Zenon DEF Next, Handler

\* An answered command is in the file or in the hands of its handler, except for
\* at most one command of each connection per stop of the process.
THEOREM StopsLoseLittle == Spec => []WindowOnly
<1>1. Init => WindowInv
  <2> SUFFICES ASSUME Init PROVE WindowInv
    OBVIOUS
  <2>1. acked = {} /\ nStop = 0
    BY Zenon DEF Init
  <2>2. Cardinality(Clients) \in Nat
    BY ClientsAssumption, FS_CardinalityType, Zenon
  <2>3. acked \ (FileIds \cup InHand) = {}
    BY <2>1, Zenon
  <2>4. Cardinality(acked \ (FileIds \cup InHand)) = 0 /\ IsFiniteSet(acked)
    BY <2>1, <2>3, FS_EmptySet, Zenon
  <2>5. Cardinality(Clients) * 0 = 0 /\ 0 <= 0
    BY <2>2
  <2>6. QED  BY <2>1, <2>4, <2>5, Zenon DEF WindowInv, WindowOnly
<1>2. WpInv /\ WindowInv /\ [Next]_vars => WindowInv'
  BY WindowStep, Zenon
<1>3. WindowInv => WindowOnly
  BY Zenon DEF WindowInv
<1>4. QED  BY <1>1, <1>2, <1>3, WpInvariant, PTL DEF Spec

================================================================================
