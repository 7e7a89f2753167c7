----------------------------- MODULE ServerProofs ------------------------------
(***************************************************************************)
(* Proofs about Server, for any number of connections and passwords, any   *)
(* commands, and any length of queues and pipelines: the gates in front of *)
(* the commands, and the wait group that main waits for; and about PubSub, *)
(* whose handlers run on the same connections: what deliver writes.        *)
(***************************************************************************)
EXTENDS Server, FiniteSetTheorems, TLAPS

Places == {"away", "start", "read", "write", "run", "setuser", "block", "wait", "gone"}

\* The parts of the state that the arguments are about.
Typed ==
    /\ pc \in [Conns -> Places]
    /\ user \in [Conns -> {"no", "yes"}]
    /\ active \in [Conns -> {"no", "yes"}]
    /\ subscribed \in [Conns -> {"no", "yes"}]
    /\ nopass \in {"no", "yes"}
    /\ sent \in [Conns -> SUBSET passwords]
    /\ locked \subseteq Conns
    /\ wg \in Int

\* The types hold at the start.
LEMMA TypedInit == Init => Typed
BY DEF Init, Typed, Places

\* Every step keeps the types.
LEMMA TypedStep == Typed /\ [Next]_vars => Typed'
<1> SUFFICES ASSUME Typed, [Next]_vars PROVE Typed'
    BY Zenon
<1>u. CASE UNCHANGED vars
    BY <1>u, Zenon DEF Typed, Places, vars, acl, conn, proc, hist
<1>1. CASE Cancel
    BY <1>1, Zenon DEF Cancel, Typed, Places, acl, conn, proc, hist
<1>2. CASE CloseListener
    BY <1>2, Zenon DEF CloseListener, Typed, Places, acl, conn, proc, hist
<1>3. CASE StopAccepting
    BY <1>3, Zenon DEF StopAccepting, Typed, Places, acl, conn, proc, hist
<1>4. CASE SweeperStops
    BY <1>4 DEF SweeperStops, Typed, Places, acl, conn, proc, hist
<1>5. CASE LinkEnds
    BY <1>5 DEF LinkEnds, Typed, Places, acl, conn, proc, hist
<1>6. CASE Exit
    BY <1>6, Zenon DEF Exit, Typed, Places, acl, conn, proc, hist
<1>7. ASSUME NEW c \in Conns,
            \/ Accept(c) \/ Start(c) \/ Watcher(c) \/ Receive(c) \/ Handle(c)
            \/ Served(c) \/ Acked(c) \/ Write(c) \/ Leave(c) \/ TimeOut(c)
      PROVE Typed'
  <2>1. CASE Accept(c)
      BY <2>1 DEF Accept, Goto, Typed, Places, acl, conn, proc, hist
  <2>2. CASE Start(c)
      BY <2>2, Zenon DEF Start, Goto, Typed, Places, acl, conn, proc, hist
  <2>3. CASE Watcher(c)
      BY <2>3, Zenon DEF Watcher, Goto, Typed, Places, acl, conn, proc, hist
  <2>4. CASE Run(c)
      BY <2>4, Zenon DEF Run, Goto, Done, Typed, Places, acl, conn, proc, hist
  <2>5. CASE SetUserAdd(c)
      BY <2>5, Zenon DEF SetUserAdd, Goto, Typed, Places, acl, conn, proc, hist
  <2>6. CASE SetUserLock(c)
      BY <2>6, Zenon DEF SetUserLock, Goto, Done, Typed, Places, acl, conn, proc, hist
  <2>7. CASE Block(c)
      BY <2>7, Zenon DEF Block, Goto, Typed, Places, acl, conn, proc, hist
  <2>8. CASE Cancelled(c)
      BY <2>8, Zenon DEF Cancelled, Served, Goto, Done, Typed, Places, acl, conn, proc, hist
  <2>9. CASE Ran(c)
      BY <2>9, Zenon DEF Ran, Goto, Typed, Places, acl, conn, proc, hist
  <2>10. CASE Served(c)
      BY <2>10, Zenon DEF Served, Goto, Done, Typed, Places, acl, conn, proc, hist
  <2>11. CASE Acked(c)
      BY <2>11, Zenon DEF Acked, Goto, Typed, Places, acl, conn, proc, hist
  <2>12. CASE Write(c)
      BY <2>12, Zenon DEF Write, Goto, Typed, Places, acl, conn, proc, hist
  <2>13. CASE Leave(c)
      BY <2>13 DEF Leave, Return, Goto, Typed, Places, acl, conn, proc, hist
  <2>14. CASE TimeOut(c)
      BY <2>14 DEF TimeOut, Return, Goto, Typed, Places, acl, conn, proc, hist
  <2>15. ASSUME NEW m \in Sends[c],
              \/ Answer(c, m) \/ Queue(c, m) \/ Multi(c, m) \/ Discard(c, m) \/ Exec(c, m)
              \/ Subscribe(c, m) \/ Auth(c, m) \/ Take(c, m) \/ Wait(c, m)
        PROVE Typed'
    <3>1. CASE Answer(c, m)
        BY <3>1, Zenon DEF Answer, Goto, Arrives, Gate, Typed, Places, acl, conn, proc, hist
    <3>2. CASE Queue(c, m)
        BY <3>2, Zenon DEF Queue, Goto, Arrives, Gate, Typed, Places, acl, conn, proc, hist
    <3>3. CASE Multi(c, m)
        BY <3>3, Zenon DEF Multi, Goto, Arrives, Gate, Typed, Places, acl, conn, proc, hist
    <3>4. CASE Discard(c, m)
        BY <3>4, Zenon DEF Discard, Goto, Arrives, Gate, Typed, Places, acl, conn, proc, hist
    <3>5. CASE Exec(c, m)
        BY <3>5, Zenon DEF Exec, Goto, Arrives, Gate, Typed, Places, acl, conn, proc, hist
    <3>6. CASE Subscribe(c, m)
        BY <3>6, Zenon DEF Subscribe, Goto, Arrives, Gate, Typed, Places, acl, conn, proc, hist
    <3>7. CASE Auth(c, m)
        BY <3>7, Zenon DEF Auth, Goto, Arrives, Gate, Typed, Places, acl, conn, proc, hist
    <3>8. CASE Take(c, m)
        BY <3>8, Zenon DEF Take, Goto, Arrives, Gate, Typed, Places, acl, conn, proc, hist
    <3>9. CASE Wait(c, m)
        BY <3>9, Zenon DEF Wait, Goto, Arrives, Gate, Typed, Places, acl, conn, proc, hist
    <3> QED BY <2>15, <3>1, <3>2, <3>3, <3>4, <3>5, <3>6, <3>7, <3>8, <3>9, Zenon
  <2> QED BY <1>7, <2>15, <2>1, <2>2, <2>3, <2>4, <2>5, <2>6, <2>7, <2>8, <2>9, <2>10, <2>11, <2>12, <2>13, <2>14, Zenon DEF Receive, Handle
<1> QED BY <1>u, <1>1, <1>2, <1>3, <1>4, <1>5, <1>6, <1>7, Zenon DEF Next

--------------------------------------------------------------------------------
(* Subscriber mode *)

SilentInv == Typed /\ SubscriberSilent

\* A subscription is only taken outside MULTI, and MULTI, EXEC and the data
\* commands get through the gates only without one.
LEMMA SilentStep == SilentInv /\ [Next]_vars => SilentInv'
<1> SUFFICES ASSUME SilentInv, [Next]_vars PROVE SilentInv'
    BY Zenon
<1>u. CASE UNCHANGED vars
    BY <1>u, Zenon DEF SilentInv, Typed, Places, SubscriberSilent, Executing, vars, acl, conn, proc, hist
<1>1. CASE Cancel
    BY <1>1, Zenon DEF Cancel, SilentInv, Typed, Places, SubscriberSilent, Executing, acl, conn, proc, hist
<1>2. CASE CloseListener
    BY <1>2, Zenon DEF CloseListener, SilentInv, Typed, Places, SubscriberSilent, Executing, acl, conn, proc, hist
<1>3. CASE StopAccepting
    BY <1>3, Zenon DEF StopAccepting, SilentInv, Typed, Places, SubscriberSilent, Executing, acl, conn, proc, hist
<1>4. CASE SweeperStops
    BY <1>4 DEF SweeperStops, SilentInv, Typed, Places, SubscriberSilent, Executing, acl, conn, proc, hist
<1>5. CASE LinkEnds
    BY <1>5 DEF LinkEnds, SilentInv, Typed, Places, SubscriberSilent, Executing, acl, conn, proc, hist
<1>6. CASE Exit
    BY <1>6, Zenon DEF Exit, SilentInv, Typed, Places, SubscriberSilent, Executing, acl, conn, proc, hist
<1>7. ASSUME NEW c \in Conns,
            \/ Accept(c) \/ Start(c) \/ Watcher(c) \/ Receive(c) \/ Handle(c)
            \/ Served(c) \/ Acked(c) \/ Write(c) \/ Leave(c) \/ TimeOut(c)
      PROVE SilentInv'
  <2>1. CASE Accept(c)
      BY <2>1 DEF Accept, Goto, SilentInv, Typed, Places, SubscriberSilent, Executing, acl, conn, proc, hist
  <2>2. CASE Start(c)
      BY <2>2, Zenon DEF Start, Goto, SilentInv, Typed, Places, SubscriberSilent, Executing, acl, conn, proc, hist
  <2>3. CASE Watcher(c)
      BY <2>3, Zenon DEF Watcher, Goto, SilentInv, Typed, Places, SubscriberSilent, Executing, acl, conn, proc, hist
  <2>4. CASE Run(c)
      BY <2>4, Zenon DEF Run, Goto, Done, SilentInv, Typed, Places, SubscriberSilent, Executing, acl, conn, proc, hist
  <2>5. CASE SetUserAdd(c)
      BY <2>5, Zenon DEF SetUserAdd, Goto, SilentInv, Typed, Places, SubscriberSilent, Executing, acl, conn, proc, hist
  <2>6. CASE SetUserLock(c)
      BY <2>6, Zenon DEF SetUserLock, Goto, Done, SilentInv, Typed, Places, SubscriberSilent, Executing, acl, conn, proc, hist
  <2>7. CASE Block(c)
      BY <2>7, Zenon DEF Block, Goto, SilentInv, Typed, Places, SubscriberSilent, Executing, acl, conn, proc, hist
  <2>8. CASE Cancelled(c)
      BY <2>8, Zenon DEF Cancelled, Served, Goto, Done, SilentInv, Typed, Places, SubscriberSilent, Executing, acl, conn, proc, hist
  <2>9. CASE Ran(c)
      BY <2>9, Zenon DEF Ran, Goto, SilentInv, Typed, Places, SubscriberSilent, Executing, acl, conn, proc, hist
  <2>10. CASE Served(c)
      BY <2>10, Zenon DEF Served, Goto, Done, SilentInv, Typed, Places, SubscriberSilent, Executing, acl, conn, proc, hist
  <2>11. CASE Acked(c)
      BY <2>11, Zenon DEF Acked, Goto, SilentInv, Typed, Places, SubscriberSilent, Executing, acl, conn, proc, hist
  <2>12. CASE Write(c)
      BY <2>12, Zenon DEF Write, Goto, SilentInv, Typed, Places, SubscriberSilent, Executing, acl, conn, proc, hist
  <2>13. CASE Leave(c)
      BY <2>13 DEF Leave, Return, Goto, SilentInv, Typed, Places, SubscriberSilent, Executing, acl, conn, proc, hist
  <2>14. CASE TimeOut(c)
      BY <2>14 DEF TimeOut, Return, Goto, SilentInv, Typed, Places, SubscriberSilent, Executing, acl, conn, proc, hist
  <2>15. ASSUME NEW m \in Sends[c],
              \/ Answer(c, m) \/ Queue(c, m) \/ Multi(c, m) \/ Discard(c, m) \/ Exec(c, m)
              \/ Subscribe(c, m) \/ Auth(c, m) \/ Take(c, m) \/ Wait(c, m)
        PROVE SilentInv'
    <3>1. CASE Answer(c, m)
        BY <3>1, Zenon DEF Answer, Goto, Arrives, Gate, SilentInv, Typed, Places, SubscriberSilent, Executing, acl, conn, proc, hist
    <3>2. CASE Queue(c, m)
        BY <3>2, Zenon DEF Queue, Goto, Arrives, Gate, SilentInv, Typed, Places, SubscriberSilent, Executing, acl, conn, proc, hist
    <3>3. CASE Multi(c, m)
        BY <3>3, Zenon DEF Multi, Goto, Arrives, Gate, SilentInv, Typed, Places, SubscriberSilent, Executing, acl, conn, proc, hist
    <3>4. CASE Discard(c, m)
        BY <3>4, Zenon DEF Discard, Goto, Arrives, Gate, SilentInv, Typed, Places, SubscriberSilent, Executing, acl, conn, proc, hist
    <3>5. CASE Exec(c, m)
        BY <3>5 DEF Exec, Goto, Arrives, Gate, SilentInv, Typed, Places, SubscriberSilent, Executing, acl, conn, proc, hist
    <3>6. CASE Subscribe(c, m)
        BY <3>6, Zenon DEF Subscribe, Goto, Arrives, Gate, SilentInv, Typed, Places, SubscriberSilent, Executing, acl, conn, proc, hist
    <3>7. CASE Auth(c, m)
        BY <3>7, Zenon DEF Auth, Goto, Arrives, Gate, SilentInv, Typed, Places, SubscriberSilent, Executing, acl, conn, proc, hist
    <3>8. CASE Take(c, m)
        BY <3>8, Zenon DEF Take, Goto, Arrives, Gate, SilentInv, Typed, Places, SubscriberSilent, Executing, acl, conn, proc, hist
    <3>9. CASE Wait(c, m)
        BY <3>9, Zenon DEF Wait, Goto, Arrives, Gate, SilentInv, Typed, Places, SubscriberSilent, Executing, acl, conn, proc, hist
    <3> QED BY <2>15, <3>1, <3>2, <3>3, <3>4, <3>5, <3>6, <3>7, <3>8, <3>9, Zenon
  <2> QED BY <1>7, <2>15, <2>1, <2>2, <2>3, <2>4, <2>5, <2>6, <2>7, <2>8, <2>9, <2>10, <2>11, <2>12, <2>13, <2>14, Zenon DEF Receive, Handle
<1> QED BY <1>u, <1>1, <1>2, <1>3, <1>4, <1>5, <1>6, <1>7, Zenon DEF Next

--------------------------------------------------------------------------------
(* Authentication *)

\* What runs, runs for a user; and a connection accepted without "nopass" has a user
\* only by a password.
AuthInv ==
    \A c \in Conns :
        /\ pc[c] \in {"away", "start"} => user[c] = "no"
        /\ Executing(c) => user[c] = "yes"
        /\ c \in locked => nopass = "no" /\ (user[c] = "yes" => sent[c] \cap passwords # {})

\* "nopass" never comes back and passwords are never taken away, so what was true
\* at AUTH stays true; no other step sets the user of a connection that is locked.
LEMMA AuthStep == Typed /\ AuthInv /\ [Next]_vars => AuthInv'
<1> SUFFICES ASSUME Typed, AuthInv, [Next]_vars PROVE AuthInv'
    BY Zenon
<1>u. CASE UNCHANGED vars
    BY <1>u, Zenon DEF AuthInv, Executing, vars, acl, conn, proc, hist
<1>1. CASE Cancel
    BY <1>1, Zenon DEF Cancel, AuthInv, Typed, Places, Executing, acl, conn, proc, hist
<1>2. CASE CloseListener
    BY <1>2, Zenon DEF CloseListener, AuthInv, Typed, Places, Executing, acl, conn, proc, hist
<1>3. CASE StopAccepting
    BY <1>3, Zenon DEF StopAccepting, AuthInv, Typed, Places, Executing, acl, conn, proc, hist
<1>4. CASE SweeperStops
    BY <1>4, Zenon DEF SweeperStops, AuthInv, Typed, Places, Executing, acl, conn, proc, hist
<1>5. CASE LinkEnds
    BY <1>5, Zenon DEF LinkEnds, AuthInv, Typed, Places, Executing, acl, conn, proc, hist
<1>6. CASE Exit
    BY <1>6, Zenon DEF Exit, AuthInv, Typed, Places, Executing, acl, conn, proc, hist
<1>7. ASSUME NEW c \in Conns,
            \/ Accept(c) \/ Start(c) \/ Watcher(c) \/ Receive(c) \/ Handle(c)
            \/ Served(c) \/ Acked(c) \/ Write(c) \/ Leave(c) \/ TimeOut(c)
      PROVE AuthInv'
  <2>1. CASE Accept(c)
      BY <2>1, Zenon DEF Accept, Goto, AuthInv, Typed, Places, Executing, acl, conn, proc, hist
  <2>2. CASE Start(c)
      BY <2>2, Zenon DEF Start, Goto, AuthInv, Typed, Places, Executing, acl, conn, proc, hist
  <2>3. CASE Watcher(c)
      BY <2>3, Zenon DEF Watcher, AuthInv, Typed, Places, Executing, acl, conn, proc, hist
  <2>4. CASE Run(c)
      BY <2>4, Zenon DEF Run, Done, AuthInv, Typed, Places, Executing, acl, conn, proc, hist
  <2>5. CASE SetUserAdd(c)
      BY <2>5, Zenon DEF SetUserAdd, Goto, AuthInv, Typed, Places, Executing, acl, conn, proc, hist
  <2>6. CASE SetUserLock(c)
      BY <2>6, Zenon DEF SetUserLock, Goto, Done, AuthInv, Typed, Places, Executing, acl, conn, proc, hist
  <2>7. CASE Block(c)
      BY <2>7, Zenon DEF Block, Goto, AuthInv, Typed, Places, Executing, acl, conn, proc, hist
  <2>8. CASE Cancelled(c)
      BY <2>8, Zenon DEF Cancelled, Served, Goto, Done, AuthInv, Typed, Places, Executing, acl, conn, proc, hist
  <2>9. CASE Ran(c)
      BY <2>9, Zenon DEF Ran, Goto, AuthInv, Typed, Places, Executing, acl, conn, proc, hist
  <2>10. CASE Served(c)
      BY <2>10, Zenon DEF Served, Goto, Done, AuthInv, Typed, Places, Executing, acl, conn, proc, hist
  <2>11. CASE Acked(c)
      BY <2>11, Zenon DEF Acked, Goto, AuthInv, Typed, Places, Executing, acl, conn, proc, hist
  <2>12. CASE Write(c)
      BY <2>12, Zenon DEF Write, Goto, AuthInv, Typed, Places, Executing, acl, conn, proc, hist
  <2>13. CASE Leave(c)
      BY <2>13, Zenon DEF Leave, Return, Goto, AuthInv, Typed, Places, Executing, acl, conn, proc, hist
  <2>14. CASE TimeOut(c)
      BY <2>14, Zenon DEF TimeOut, Return, Goto, AuthInv, Typed, Places, Executing, acl, conn, proc, hist
  <2>15. ASSUME NEW m \in Sends[c],
              \/ Answer(c, m) \/ Queue(c, m) \/ Multi(c, m) \/ Discard(c, m) \/ Exec(c, m)
              \/ Subscribe(c, m) \/ Auth(c, m) \/ Take(c, m) \/ Wait(c, m)
        PROVE AuthInv'
    <3>1. CASE Answer(c, m)
        BY <3>1, Zenon DEF Answer, Goto, Arrives, Gate, AuthInv, Typed, Places, Executing, acl, conn, proc, hist
    <3>2. CASE Queue(c, m)
        BY <3>2, Zenon DEF Queue, Goto, Arrives, Gate, AuthInv, Typed, Places, Executing, acl, conn, proc, hist
    <3>3. CASE Multi(c, m)
        BY <3>3, Zenon DEF Multi, Goto, Arrives, Gate, AuthInv, Typed, Places, Executing, acl, conn, proc, hist
    <3>4. CASE Discard(c, m)
        BY <3>4, Zenon DEF Discard, Goto, Arrives, Gate, AuthInv, Typed, Places, Executing, acl, conn, proc, hist
    <3>5. CASE Exec(c, m)
        BY <3>5 DEF Exec, Goto, Arrives, Gate, AuthInv, Typed, Places, Executing, acl, conn, proc, hist
    <3>6. CASE Subscribe(c, m)
        BY <3>6, Zenon DEF Subscribe, Goto, Arrives, Gate, AuthInv, Typed, Places, Executing, acl, conn, proc, hist
    <3>7. CASE Auth(c, m)
        BY <3>7 DEF Auth, Goto, Arrives, Gate, AuthInv, Typed, Places, Executing, acl, conn, proc, hist
    <3>8. CASE Take(c, m)
        BY <3>8 DEF Take, Goto, Arrives, Gate, AuthInv, Typed, Places, Executing, acl, conn, proc, hist
    <3>9. CASE Wait(c, m)
        BY <3>9, Zenon DEF Wait, Goto, Arrives, Gate, AuthInv, Typed, Places, Executing, acl, conn, proc, hist
    <3> QED BY <2>15, <3>1, <3>2, <3>3, <3>4, <3>5, <3>6, <3>7, <3>8, <3>9, Zenon
  <2> QED BY <1>7, <2>15, <2>1, <2>2, <2>3, <2>4, <2>5, <2>6, <2>7, <2>8, <2>9, <2>10, <2>11, <2>12, <2>13, <2>14, Zenon DEF Receive, Handle
<1> QED BY <1>u, <1>1, <1>2, <1>3, <1>4, <1>5, <1>6, <1>7, Zenon DEF Next

--------------------------------------------------------------------------------
(* The wait group *)

Live == {c \in Conns : pc[c] \notin {"away", "gone"}}
On(x) == IF x = "on" THEN 1 ELSE 0

\* The wait group counts the handlers at work, the sweeper and the link.
WgInv ==
    /\ wg = Cardinality(Live) + On(sweeper) + On(link)
    /\ main = "exited" => Live = {}

\* There are finitely many connections, so the handlers at work can be counted.
LEMMA LiveFinite == IsFiniteSet(Live) /\ Cardinality(Live) \in Nat
BY ServerAssumption, FS_Subset, FS_CardinalityType, Zenon DEF Live

\* Every handler is counted before it starts and until it has returned, and none starts
\* once main has stopped accepting.
LEMMA WgStep == Typed /\ WgInv /\ [Next]_vars => WgInv'
<1> SUFFICES ASSUME Typed, WgInv, [Next]_vars PROVE WgInv'
    BY Zenon
<1>u. CASE UNCHANGED vars
    BY <1>u, Zenon DEF WgInv, Live, On, vars, acl, conn, proc, hist
<1>1. CASE Cancel
  <2>1. Live' = Live
      BY <1>1, Zenon DEF Cancel, Live
  <2> QED BY <1>1, <2>1, LiveFinite, Zenon DEF Cancel, WgInv, On
<1>2. CASE CloseListener
  <2>1. Live' = Live
      BY <1>2, Zenon DEF CloseListener, Live
  <2> QED BY <1>2, <2>1, LiveFinite, Zenon DEF CloseListener, WgInv, On
<1>3. CASE StopAccepting
  <2>1. Live' = Live
      BY <1>3, Zenon DEF StopAccepting, Live
  <2> QED BY <1>3, <2>1, LiveFinite, Zenon DEF StopAccepting, WgInv, On
<1>4. CASE SweeperStops
  <2>1. Live' = Live
      BY <1>4, Zenon DEF SweeperStops, Live
  <2> QED BY <1>4, <2>1, LiveFinite DEF SweeperStops, WgInv, On
<1>5. CASE LinkEnds
  <2>1. Live' = Live
      BY <1>5, Zenon DEF LinkEnds, Live
  <2> QED BY <1>5, <2>1, LiveFinite DEF LinkEnds, WgInv, On
<1>6. CASE Exit
  <2>1. Live' = Live
      BY <1>6, Zenon DEF Exit, Live
  <2>2. Cardinality(Live) = 0
      BY <1>6, LiveFinite DEF Exit, WgInv, On
  <2>3. Live = {}
      BY <2>2, LiveFinite, FS_EmptySet, Zenon
  <2> QED BY <1>6, <2>1, <2>2, <2>3, Zenon DEF Exit, WgInv, On
<1>7. ASSUME NEW c \in Conns,
            \/ Accept(c) \/ Start(c) \/ Watcher(c) \/ Receive(c) \/ Handle(c)
            \/ Served(c) \/ Acked(c) \/ Write(c) \/ Leave(c) \/ TimeOut(c)
      PROVE WgInv'
  <2>1. CASE Accept(c)
    <3>1. c \notin Live /\ Live' = Live \cup {c}
        BY <2>1, Zenon DEF Accept, Goto, Live, Typed, Places
    <3>2. Cardinality(Live') = Cardinality(Live) + 1
        BY <3>1, LiveFinite, FS_AddElement, Zenon
    <3> QED BY <2>1, <3>2, LiveFinite DEF Accept, proc, WgInv, On
  <2>2. CASE Start(c)
    <3>1. Live' = Live
        BY <2>2, Zenon DEF Start, Goto, Live, Typed, Places
    <3> QED BY <2>2, <3>1, Zenon DEF Start, Goto, proc, WgInv, On
  <2>3. CASE Watcher(c)
    <3>1. Live' = Live
        BY <2>3, Zenon DEF Watcher, Live, Typed, Places
    <3> QED BY <2>3, <3>1, Zenon DEF Watcher, proc, WgInv, On
  <2>4. CASE Run(c)
    <3>1. Live' = Live
        BY <2>4, Zenon DEF Run, Done, Live, Typed, Places
    <3> QED BY <2>4, <3>1, Zenon DEF Run, Done, proc, WgInv, On
  <2>5. CASE SetUserAdd(c)
    <3>1. Live' = Live
        BY <2>5, Zenon DEF SetUserAdd, Goto, Live, Typed, Places
    <3> QED BY <2>5, <3>1, Zenon DEF SetUserAdd, Goto, proc, WgInv, On
  <2>6. CASE SetUserLock(c)
    <3>1. Live' = Live
        BY <2>6, Zenon DEF SetUserLock, Goto, Done, Live, Typed, Places
    <3> QED BY <2>6, <3>1, Zenon DEF SetUserLock, Goto, Done, proc, WgInv, On
  <2>7. CASE Block(c)
    <3>1. Live' = Live
        BY <2>7, Zenon DEF Block, Goto, Live, Typed, Places
    <3> QED BY <2>7, <3>1, Zenon DEF Block, Goto, proc, WgInv, On
  <2>8. CASE Cancelled(c)
    <3>1. Live' = Live
        BY <2>8, Zenon DEF Cancelled, Served, Goto, Done, Live, Typed, Places
    <3> QED BY <2>8, <3>1, Zenon DEF Cancelled, Served, Goto, Done, proc, WgInv, On
  <2>9. CASE Ran(c)
    <3>1. Live' = Live
        BY <2>9, Zenon DEF Ran, Goto, Live, Typed, Places
    <3> QED BY <2>9, <3>1, Zenon DEF Ran, Goto, proc, WgInv, On
  <2>10. CASE Served(c)
    <3>1. Live' = Live
        BY <2>10, Zenon DEF Served, Goto, Done, Live, Typed, Places
    <3> QED BY <2>10, <3>1, Zenon DEF Served, Goto, Done, proc, WgInv, On
  <2>11. CASE Acked(c)
    <3>1. Live' = Live
        BY <2>11, Zenon DEF Acked, Goto, Live, Typed, Places
    <3> QED BY <2>11, <3>1, Zenon DEF Acked, Goto, proc, WgInv, On
  <2>12. CASE Write(c)
    <3>1. Live' = Live
        BY <2>12, Zenon DEF Write, Goto, Live, Typed, Places
    <3> QED BY <2>12, <3>1, Zenon DEF Write, Goto, proc, WgInv, On
  <2>13. CASE Leave(c)
    <3>1. c \in Live /\ Live' = Live \ {c}
        BY <2>13, Zenon DEF Leave, Return, Goto, Live, Typed, Places
    <3>2. Cardinality(Live') = Cardinality(Live) - 1
        BY <3>1, LiveFinite, FS_RemoveElement, Zenon
    <3> QED BY <2>13, <3>1, <3>2, LiveFinite DEF Leave, Return, proc, WgInv, On
  <2>14. CASE TimeOut(c)
    <3>1. c \in Live /\ Live' = Live \ {c}
        BY <2>14, Zenon DEF TimeOut, Return, Goto, Live, Typed, Places
    <3>2. Cardinality(Live') = Cardinality(Live) - 1
        BY <3>1, LiveFinite, FS_RemoveElement, Zenon
    <3> QED BY <2>14, <3>1, <3>2, LiveFinite DEF TimeOut, Return, proc, WgInv, On
  <2>15. ASSUME NEW m \in Sends[c],
              \/ Answer(c, m) \/ Queue(c, m) \/ Multi(c, m) \/ Discard(c, m) \/ Exec(c, m)
              \/ Subscribe(c, m) \/ Auth(c, m) \/ Take(c, m) \/ Wait(c, m)
        PROVE WgInv'
    <3>1. CASE Answer(c, m)
      <4>1. Live' = Live
          BY <3>1, Zenon DEF Answer, Goto, Arrives, Gate, Live, Typed, Places
      <4> QED BY <3>1, <4>1, Zenon DEF Answer, Goto, Arrives, Gate, proc, WgInv, On
    <3>2. CASE Queue(c, m)
      <4>1. Live' = Live
          BY <3>2, Zenon DEF Queue, Goto, Arrives, Gate, Live, Typed, Places
      <4> QED BY <3>2, <4>1, Zenon DEF Queue, Goto, Arrives, Gate, proc, WgInv, On
    <3>3. CASE Multi(c, m)
      <4>1. Live' = Live
          BY <3>3, Zenon DEF Multi, Goto, Arrives, Gate, Live, Typed, Places
      <4> QED BY <3>3, <4>1, Zenon DEF Multi, Goto, Arrives, Gate, proc, WgInv, On
    <3>4. CASE Discard(c, m)
      <4>1. Live' = Live
          BY <3>4, Zenon DEF Discard, Goto, Arrives, Gate, Live, Typed, Places
      <4> QED BY <3>4, <4>1, Zenon DEF Discard, Goto, Arrives, Gate, proc, WgInv, On
    <3>5. CASE Exec(c, m)
      <4>1. Live' = Live
          BY <3>5, Zenon DEF Exec, Goto, Arrives, Gate, Live, Typed, Places
      <4> QED BY <3>5, <4>1, Zenon DEF Exec, Goto, Arrives, Gate, proc, WgInv, On
    <3>6. CASE Subscribe(c, m)
      <4>1. Live' = Live
          BY <3>6, Zenon DEF Subscribe, Goto, Arrives, Gate, Live, Typed, Places
      <4> QED BY <3>6, <4>1, Zenon DEF Subscribe, Goto, Arrives, Gate, proc, WgInv, On
    <3>7. CASE Auth(c, m)
      <4>1. Live' = Live
          BY <3>7, Zenon DEF Auth, Goto, Arrives, Gate, Live, Typed, Places
      <4> QED BY <3>7, <4>1, Zenon DEF Auth, Goto, Arrives, Gate, proc, WgInv, On
    <3>8. CASE Take(c, m)
      <4>1. Live' = Live
          BY <3>8, Zenon DEF Take, Goto, Arrives, Gate, Live, Typed, Places
      <4> QED BY <3>8, <4>1, Zenon DEF Take, Goto, Arrives, Gate, proc, WgInv, On
    <3>9. CASE Wait(c, m)
      <4>1. Live' = Live
          BY <3>9, Zenon DEF Wait, Goto, Arrives, Gate, Live, Typed, Places
      <4> QED BY <3>9, <4>1, Zenon DEF Wait, Goto, Arrives, Gate, proc, WgInv, On
    <3> QED BY <2>15, <3>1, <3>2, <3>3, <3>4, <3>5, <3>6, <3>7, <3>8, <3>9, Zenon
  <2> QED BY <1>7, <2>15, <2>1, <2>2, <2>3, <2>4, <2>5, <2>6, <2>7, <2>8, <2>9, <2>10, <2>11, <2>12, <2>13, <2>14, Zenon DEF Receive, Handle
<1> QED BY <1>u, <1>1, <1>2, <1>3, <1>4, <1>5, <1>6, <1>7, Zenon DEF Next

--------------------------------------------------------------------------------

\* No command runs before its connection has authenticated, once the default user
\* has a password (handleClient's first gate, app/client.go).
THEOREM GateAuthenticates == Spec => []AuthHolds
<1>1. Init => Typed /\ AuthInv
    BY TypedInit, Zenon DEF Init, AuthInv, Executing
<1>2. Typed /\ AuthInv /\ [Next]_vars => (Typed /\ AuthInv)'
    BY TypedStep, AuthStep, Zenon
<1>3. Typed /\ AuthInv => AuthHolds
    BY Zenon DEF Typed, AuthInv, AuthHolds
<1> QED BY <1>1, <1>2, <1>3, PTL DEF Spec

\* A connection in subscriber mode is never in a transaction and runs no data command
\* (handleClient's gates, app/client.go).
THEOREM SubscribersRunNothing == Spec => []SubscriberSilent
<1>1. Init => SilentInv
    BY TypedInit, Zenon DEF Init, SilentInv, SubscriberSilent, Executing
<1>2. SilentInv => SubscriberSilent
    BY Zenon DEF SilentInv
<1> QED BY <1>1, SilentStep, <1>2, PTL DEF Spec

\* main returns only when every handler it has started has returned (the wait group of
\* app/main.go), also the ones accepted while it shuts down.
THEOREM ExitIsClean == Spec => []CleanExit
<1>1. Init => Typed /\ WgInv
  <2> SUFFICES ASSUME Init PROVE Typed /\ WgInv
    BY Zenon
  <2>1. Live = {}
    BY Zenon DEF Init, Live
  <2>2. Cardinality(Live) = 0
    BY <2>1, FS_EmptySet, Zenon
  <2> QED BY TypedInit, <2>1, <2>2 DEF Init, WgInv, On
<1>2. Typed /\ WgInv /\ [Next]_vars => (Typed /\ WgInv)'
    BY TypedStep, WgStep, Zenon
<1>3. WgInv => CleanExit
    BY Zenon DEF WgInv, CleanExit, Live
<1> QED BY <1>1, <1>2, <1>3, PTL DEF Spec

--------------------------------------------------------------------------------
(* Publish and subscribe *)

\* The handlers of PubSub, on the connections of Server.  Three of its variables have
\* another name here, because Server has one of that name: the state of a connection,
\* the handler's own set of channels, and where the handler is.
CONSTANTS Channels, Nobody, NoChannel, Breakable, NilUnsub, SocketCap, MaxMsgs, MaxSubs
VARIABLES peer, mu, channels, topics, sub, at, arg, msg, subs, count, sock, crashed,
          nSub, nMsg, log, owed

PS == INSTANCE PubSub WITH conn <- peer, subscribed <- topics, pc <- at

IsList(q) == \E S : q \in Seq(S)

\* A handler within deliver.
Delivering(c) == at[c] \in {"locked", "deliver"}

\* The frame at place i is the message of that number.
Carries(q, i, n) == q[i].tag = "message" /\ q[i].n = n

Shape ==
    /\ nMsg \in Nat /\ channels \in [Channels -> SUBSET Conns] /\ subs \in [Conns -> Seq(Conns)]
    /\ DOMAIN at = Conns /\ DOMAIN msg = Conns
    /\ DOMAIN log = Conns /\ \A c \in Conns : IsList(log[c])

\* The connections a message has still to be written to are distinct and have not been
\* written it.
Pending ==
    \A c \in Conns : Delivering(c) => \A k \in 1 .. Len(subs[c]) :
        /\ \A m \in 1 .. Len(subs[c]) : subs[c][k] = subs[c][m] => k = m
        /\ \A i \in 1 .. Len(log[subs[c][k]]) : ~Carries(log[subs[c][k]], i, msg[c])

\* Every message in delivery has a number of its own.
Own ==
    /\ \A c \in Conns : Delivering(c) => msg[c] \in 1 .. nMsg
    /\ \A c, d \in Conns : Delivering(c) /\ Delivering(d) /\ msg[c] = msg[d] => c = d

\* No message with a number to come has been written.
Past ==
    \A c \in Conns : \A i \in 1 .. Len(log[c]) :
        log[c][i].tag = "message" => log[c][i].n \in 1 .. nMsg

MessageInv == Shape /\ Pending /\ Own /\ Past /\ PS!OncePerMessage

\* A step's effect on the log: nothing, or one more frame for d.
Wrote(d, tag, n) ==
    \/ log' = log
    \/ /\ DOMAIN log' = Conns /\ \A c \in Conns : c # d => log'[c] = log[c]
       /\ IsList(log'[d]) /\ Len(log'[d]) = Len(log[d]) + 1
       /\ \A i \in 1 .. Len(log[d]) : log'[d][i] = log[d][i]
       /\ log'[d][Len(log[d]) + 1].tag = tag /\ log'[d][Len(log[d]) + 1].n = n

\* The log holds the messages it held.
NoMessage ==
    /\ DOMAIN log' = Conns /\ \A c \in Conns : IsList(log'[c])
    /\ \A c \in Conns : \A i \in 1 .. Len(log'[c]) :
           log'[c][i].tag = "message" => i \in 1 .. Len(log[c]) /\ log'[c][i] = log[c][i]

\* Nobody enters deliver, and who stays in it keeps its message and its subscribers.
NoDelivery ==
    /\ nMsg' = nMsg /\ subs' = subs /\ channels' \in [Channels -> SUBSET Conns]
    /\ DOMAIN at' = Conns /\ DOMAIN msg' = Conns
    /\ \A c \in Conns : Delivering(c)' => Delivering(c) /\ msg'[c] = msg[c]

\* deliver takes the next number and copies the channel's subscribers.
Copies(c, ch) ==
    /\ nMsg' = nMsg + 1 /\ msg' = [msg EXCEPT ![c] = nMsg + 1]
    /\ at' = [at EXCEPT ![c] = "locked"] /\ log' = log /\ channels' = channels
    /\ \E order \in PS!Orders(channels[ch]) : subs' = [subs EXCEPT ![c] = order]

\* deliver writes its message to the first of them.
WritesFirst(c) ==
    /\ Delivering(c) /\ subs[c] # <<>> /\ Wrote(Head(subs[c]), "message", msg[c])
    /\ subs' = [subs EXCEPT ![c] = Tail(@)]
    /\ at' = at /\ msg' = msg /\ nMsg' = nMsg /\ channels' = channels

\* PubSub counts the way Server does.
LEMMA SameCardinality == \A S : PS!Cardinality(S) = Cardinality(S)
BY Zenon DEF PS!Cardinality, Cardinality

\* The places of a list.
LEMMA ListPlaces ==
    ASSUME NEW q, IsList(q)
    PROVE  Len(q) \in Nat /\ DOMAIN q = 1 .. Len(q)
BY DEF IsList

\* A list with one more element.
LEMMA ListAppend ==
    ASSUME NEW q, IsList(q), NEW e
    PROVE  /\ IsList(Append(q, e)) /\ Len(Append(q, e)) = Len(q) + 1
           /\ \A i \in 1 .. Len(q) : Append(q, e)[i] = q[i]
           /\ Append(q, e)[Len(q) + 1] = e
<1>1. PICK S : q \in Seq(S)
    BY DEF IsList
<1>2. q \in Seq(S \cup {e}) /\ e \in S \cup {e}
    BY <1>1
<1>3. Append(q, e) \in Seq(S \cup {e})
    BY <1>2
<1> QED BY <1>2, <1>3 DEF IsList

\* A write to a connection (sub.write, app/pubsub.go) adds at most that frame.
LEMMA WriteWrote ==
    ASSUME Shape, NEW d \in Conns, NEW tag, NEW ch, NEW n, PS!Write(d, tag, ch, n)
    PROVE  Wrote(d, tag, n)
<1> DEFINE f == [tag |-> tag, ch |-> ch, n |-> n]
<1>1. CASE log' = log
    BY <1>1 DEF Wrote
<1>2. CASE log' = [log EXCEPT ![d] = Append(@, f)]
  <2>1. IsList(log[d]) /\ DOMAIN log = Conns
    BY DEF Shape
  <2>2. log'[d] = Append(log[d], f) /\ DOMAIN log' = Conns
        /\ \A c \in Conns : c # d => log'[c] = log[c]
    BY <1>2, <2>1
  <2>3. f.tag = tag /\ f.n = n
    OBVIOUS
  <2> HIDE DEF f
  <2> QED BY <2>1, <2>2, <2>3, ListAppend DEF Wrote
<1> QED BY <1>1, <1>2 DEF PS!Write

\* A frame that is not a message leaves the messages of the log.
LEMMA NotAMessage ==
    ASSUME Shape, NEW d \in Conns, NEW tag, NEW n, tag # "message", Wrote(d, tag, n)
    PROVE  NoMessage
<1>1. CASE log' = log
    BY <1>1 DEF Shape, NoMessage
<1>2. CASE log' # log
  <2>1. \A c \in Conns : IsList(log[c]) /\ Len(log[c]) \in Nat
    BY ListPlaces DEF Shape
  <2>2. /\ DOMAIN log' = Conns /\ \A c \in Conns : c # d => log'[c] = log[c]
        /\ IsList(log'[d]) /\ Len(log'[d]) = Len(log[d]) + 1
        /\ \A i \in 1 .. Len(log[d]) : log'[d][i] = log[d][i]
        /\ log'[d][Len(log[d]) + 1].tag # "message"
    BY <1>2 DEF Wrote
  <2>3. \A c \in Conns : IsList(log'[c])
    BY <2>1, <2>2
  <2>4. \A i \in 1 .. Len(log'[d]) : log'[d][i].tag = "message" => i \in 1 .. Len(log[d])
    BY <2>1, <2>2
  <2> QED BY <2>1, <2>2, <2>3, <2>4 DEF NoMessage
<1> QED BY <1>1, <1>2

\* A step that writes no message and starts no delivery preserves the invariant.
LEMMA QuietStep ==
    ASSUME MessageInv, NoMessage, NoDelivery
    PROVE  MessageInv'
<1> USE DEF MessageInv
<1>1. Shape'
    BY DEF Shape, NoMessage, NoDelivery
<1>2. Pending'
  <2> SUFFICES ASSUME NEW c \in Conns, Delivering(c)', NEW k \in 1 .. Len(subs'[c])
               PROVE  /\ \A m \in 1 .. Len(subs'[c]) : subs'[c][k] = subs'[c][m] => k = m
                      /\ \A i \in 1 .. Len(log'[subs'[c][k]]) :
                             ~Carries(log'[subs'[c][k]], i, msg'[c])
    BY Zenon DEF Pending, Carries
  <2>1. Delivering(c) /\ msg'[c] = msg[c] /\ subs' = subs
    BY DEF NoDelivery
  <2>2. subs[c][k] \in Conns
    BY <2>1 DEF Shape
  <2>3. \A m \in 1 .. Len(subs[c]) : subs[c][k] = subs[c][m] => k = m
    BY <2>1, Zenon DEF Pending
  <2>4. \A i \in 1 .. Len(log[subs[c][k]]) : ~Carries(log[subs[c][k]], i, msg[c])
    BY <2>1, Zenon DEF Pending
  <2>5. ASSUME NEW i \in 1 .. Len(log'[subs[c][k]]), Carries(log'[subs[c][k]], i, msg[c])
        PROVE  FALSE
    BY <2>2, <2>4, <2>5, Zenon DEF NoMessage, Carries
  <2> QED BY <2>1, <2>3, <2>5, Zenon
<1>3. Own'
    BY Zenon DEF Own, NoDelivery, Delivering
<1>4. Past'
    BY Zenon DEF Past, NoMessage, NoDelivery
<1>5. PS!OncePerMessage'
  <2> SUFFICES ASSUME NEW c \in Conns, NEW i \in DOMAIN log'[c], NEW j \in DOMAIN log'[c],
                      log'[c][i].tag = "message", log'[c][j].tag = "message",
                      log'[c][i].n = log'[c][j].n
               PROVE  i = j
    BY Zenon DEF PS!OncePerMessage
  <2>1. DOMAIN log'[c] = 1 .. Len(log'[c]) /\ DOMAIN log[c] = 1 .. Len(log[c])
    BY ListPlaces DEF Shape, NoMessage
  <2>2. /\ i \in DOMAIN log[c] /\ log'[c][i] = log[c][i]
        /\ j \in DOMAIN log[c] /\ log'[c][j] = log[c][j]
    BY <2>1, Zenon DEF NoMessage
  <2> QED BY <2>2, Zenon DEF PS!OncePerMessage
<1> QED BY <1>1, <1>2, <1>3, <1>4, <1>5, Zenon

\* deliver takes a number nobody has and a list of distinct subscribers.
LEMMA LockStep ==
    ASSUME MessageInv, NEW c \in Conns, NEW ch \in Channels, Copies(c, ch)
    PROVE  MessageInv'
<1> USE DEF MessageInv
<1>1. PICK order \in PS!Orders(channels[ch]) : subs' = [subs EXCEPT ![c] = order]
    BY Zenon DEF Copies
<1>2. /\ nMsg' = nMsg + 1 /\ msg' = [msg EXCEPT ![c] = nMsg + 1]
      /\ at' = [at EXCEPT ![c] = "locked"] /\ log' = log /\ channels' = channels
    BY Zenon DEF Copies
<1>3. order \in Seq(Conns)
      /\ \A k, m \in 1 .. Len(order) : order[k] = order[m] => k = m
  <2>1. channels[ch] \in SUBSET Conns
    BY DEF Shape
  <2>2. Cardinality(channels[ch]) \in Nat
    BY <2>1, FS_Subset, FS_CardinalityType, ServerAssumption, Zenon
  <2>3. /\ order \in [1 .. Cardinality(channels[ch]) -> channels[ch]]
        /\ \A i, j \in DOMAIN order : i # j => order[i] # order[j]
    BY <1>1, SameCardinality, Zenon DEF PS!Orders
  <2>4. order \in Seq(Conns) /\ DOMAIN order = 1 .. Len(order)
    BY <2>1, <2>2, <2>3
  <2> QED BY <2>3, <2>4, Zenon
<1>4. Shape'
    BY <1>1, <1>2, <1>3 DEF Shape
<1>5. subs'[c] = order /\ msg'[c] = nMsg + 1 /\ nMsg \in Nat
    BY <1>1, <1>2 DEF Shape
<1>6. \A d \in Conns : d # c => /\ subs'[d] = subs[d] /\ msg'[d] = msg[d]
                                /\ (Delivering(d)' => Delivering(d))
    BY <1>1, <1>2 DEF Shape, Delivering
<1>7. Own'
    BY <1>2, <1>5, <1>6 DEF Own
<1>8. Past'
    BY <1>2, <1>5 DEF Past
<1>9. ASSUME NEW d \in Conns, NEW i \in 1 .. Len(log[d]) PROVE ~Carries(log[d], i, nMsg + 1)
    BY <1>5 DEF Past, Carries
<1>10. Pending'
  <2> SUFFICES ASSUME NEW d \in Conns, Delivering(d)', NEW k \in 1 .. Len(subs'[d])
               PROVE  /\ \A m \in 1 .. Len(subs'[d]) : subs'[d][k] = subs'[d][m] => k = m
                      /\ \A i \in 1 .. Len(log[subs'[d][k]]) :
                             ~Carries(log[subs'[d][k]], i, msg'[d])
    BY <1>2, Zenon DEF Pending, Carries
  <2>1. CASE d = c
    <3>1. order[k] \in Conns
      BY <1>3, <1>5, <2>1
    <3>2. subs'[d] = order /\ msg'[d] = nMsg + 1
      BY <1>5, <2>1
    <3>3. \A i \in 1 .. Len(log[order[k]]) : ~Carries(log[order[k]], i, nMsg + 1)
      BY <1>9, <3>1, Zenon
    <3>4. \A m \in 1 .. Len(order) : order[k] = order[m] => k = m
      BY <1>3, <3>2, Zenon
    <3> QED BY <3>2, <3>3, <3>4, Zenon
  <2>2. CASE d # c
    BY <1>6, <2>2, Zenon DEF Pending
  <2> QED BY <2>1, <2>2
<1>11. PS!OncePerMessage'
    BY <1>2, Zenon DEF PS!OncePerMessage
<1> QED BY <1>4, <1>7, <1>8, <1>10, <1>11, Zenon

\* deliver writes its message to the first subscriber of its list and drops it.
LEMMA DeliveryStep ==
    ASSUME MessageInv, NEW c \in Conns, WritesFirst(c)
    PROVE  MessageInv'
<1> USE DEF MessageInv
<1> DEFINE d == subs[c][1]
<1>1. /\ Delivering(c) /\ subs[c] # <<>> /\ Wrote(Head(subs[c]), "message", msg[c])
      /\ subs' = [subs EXCEPT ![c] = Tail(@)]
      /\ at' = at /\ msg' = msg /\ nMsg' = nMsg /\ channels' = channels
    BY Zenon DEF WritesFirst
<1>2. subs[c] \in Seq(Conns) /\ Len(subs[c]) \in Nat \ {0} /\ Head(subs[c]) = d /\ d \in Conns
    BY <1>1 DEF Shape
<1>3. /\ Tail(subs[c]) \in Seq(Conns) /\ Len(Tail(subs[c])) = Len(subs[c]) - 1
      /\ \A k \in 1 .. Len(Tail(subs[c])) : Tail(subs[c])[k] = subs[c][k + 1]
    BY <1>1, <1>2
<1>4. subs' \in [Conns -> Seq(Conns)] /\ subs'[c] = Tail(subs[c])
      /\ \A e \in Conns : e # c => subs'[e] = subs[e]
    BY <1>1, <1>3 DEF Shape
<1>5. Wrote(d, "message", msg[c])
    BY <1>1, <1>2, Zenon
<1>6. \A e \in Conns : IsList(log[e]) /\ Len(log[e]) \in Nat
    BY ListPlaces, Zenon DEF Shape
<1>7. DOMAIN log' = Conns /\ \A e \in Conns : IsList(log'[e])
  <2>1. CASE log' = log
    BY <1>6, <2>1, Zenon DEF Shape
  <2>2. CASE log' # log
    <3>1. DOMAIN log' = Conns /\ (\A e \in Conns : e # d => log'[e] = log[e]) /\ IsList(log'[d])
      BY <1>5, <2>2, Zenon DEF Wrote
    <3> HIDE DEF d
    <3> QED BY <1>6, <3>1, Zenon
  <2> QED BY <2>1, <2>2, Zenon
<1>8. Shape'
    BY <1>1, <1>4, <1>7 DEF Shape
<1>9. Own'
    BY <1>1, Zenon DEF Own, Delivering
\* Every frame was there before, or is the message of c at the end of the log of d.
<1>10. ASSUME NEW e \in Conns, NEW i \in 1 .. Len(log'[e])
       PROVE  \/ i \in 1 .. Len(log[e]) /\ log'[e][i] = log[e][i]
              \/ e = d /\ i = Len(log[d]) + 1 /\ Carries(log'[e], i, msg[c])
  <2>1. CASE e # d \/ log' = log
    BY <1>5, <2>1 DEF Wrote
  <2>2. CASE e = d /\ log' # log
    <3>1. /\ Len(log'[d]) = Len(log[d]) + 1 /\ \A m \in 1 .. Len(log[d]) : log'[d][m] = log[d][m]
          /\ Carries(log'[d], Len(log[d]) + 1, msg[c])
      BY <1>5, <2>2, Zenon DEF Wrote, Carries
    <3>2. Len(log[d]) \in Nat
      BY <1>2, <1>6
    <3>3. i \in 1 .. Len(log[d]) \/ i = Len(log[d]) + 1
      BY <2>2, <3>1, <3>2
    <3> QED BY <2>2, <3>1, <3>3, Zenon
  <2> QED BY <2>1, <2>2
<1>11. msg[c] \in 1 .. nMsg
    BY <1>1, Zenon DEF Own
<1>12. Past'
  <2> SUFFICES ASSUME NEW e \in Conns, NEW i \in 1 .. Len(log'[e]), log'[e][i].tag = "message"
               PROVE  log'[e][i].n \in 1 .. nMsg
    BY <1>1, Zenon DEF Past
  <2> QED BY <1>10, <1>11, Zenon DEF Past, Carries
<1>13. \A i \in 1 .. Len(log[d]) : ~Carries(log[d], i, msg[c])
  <2>1. 1 \in 1 .. Len(subs[c])
    BY <1>2
  <2> QED BY <1>1, <2>1, Zenon DEF Pending
<1>14. PS!OncePerMessage'
  <2> SUFFICES ASSUME NEW e \in Conns, NEW i \in DOMAIN log'[e], NEW j \in DOMAIN log'[e],
                      log'[e][i].tag = "message", log'[e][j].tag = "message",
                      log'[e][i].n = log'[e][j].n
               PROVE  i = j
    BY Zenon DEF PS!OncePerMessage
  <2>1. /\ DOMAIN log'[e] = 1 .. Len(log'[e]) /\ DOMAIN log[e] = 1 .. Len(log[e])
    BY <1>6, <1>7, ListPlaces
  <2>2. CASE i \in DOMAIN log[e] /\ log'[e][i] = log[e][i]
             /\ j \in DOMAIN log[e] /\ log'[e][j] = log[e][j]
    BY <2>2, Zenon DEF PS!OncePerMessage
  <2>3. CASE i \in 1 .. Len(log[e]) /\ log'[e][i] = log[e][i]
             /\ e = d /\ Carries(log'[e], j, msg[c])
    <3>1. Carries(log[d], i, msg[c])
      BY <2>3, Zenon DEF Carries
    <3> QED BY <1>13, <2>3, <3>1, Zenon
  <2>4. CASE j \in 1 .. Len(log[e]) /\ log'[e][j] = log[e][j]
             /\ e = d /\ Carries(log'[e], i, msg[c])
    <3>1. Carries(log[d], j, msg[c])
      BY <2>4, Zenon DEF Carries
    <3> QED BY <1>13, <2>4, <3>1, Zenon
  <2>5. CASE i = Len(log[d]) + 1 /\ j = Len(log[d]) + 1
    BY <2>5, Zenon
  <2>6. \/ i \in DOMAIN log[e] /\ log'[e][i] = log[e][i]
        \/ e = d /\ i = Len(log[d]) + 1 /\ Carries(log'[e], i, msg[c])
    BY <1>10, <2>1, Zenon
  <2>7. \/ j \in DOMAIN log[e] /\ log'[e][j] = log[e][j]
        \/ e = d /\ j = Len(log[d]) + 1 /\ Carries(log'[e], j, msg[c])
    BY <1>10, <2>1, Zenon
  <2> QED BY <2>1, <2>2, <2>3, <2>4, <2>5, <2>6, <2>7, Zenon
<1>15. \A k \in 1 .. Len(subs'[c]) : k + 1 \in 2 .. Len(subs[c]) /\ subs'[c][k] = subs[c][k + 1]
  <2>1. \A k \in 1 .. Len(Tail(subs[c])) : k + 1 \in 2 .. Len(subs[c])
    BY <1>2, <1>3
  <2> QED BY <1>3, <1>4, <2>1, Zenon
<1>16. Pending'
  <2> SUFFICES ASSUME NEW e \in Conns, Delivering(e)', NEW k \in 1 .. Len(subs'[e])
               PROVE  /\ \A m \in 1 .. Len(subs'[e]) : subs'[e][k] = subs'[e][m] => k = m
                      /\ \A i \in 1 .. Len(log'[subs'[e][k]]) :
                             ~Carries(log'[subs'[e][k]], i, msg'[e])
    BY Zenon DEF Pending, Carries
  <2>1. Delivering(e) /\ msg'[e] = msg[e]
    BY <1>1, Zenon DEF Delivering
  <2>2. subs'[e][k] \in Conns
    BY <1>4
  <2>3. CASE e = c
    <3> DEFINE g == subs[c][k + 1]
    <3>1. k + 1 \in 2 .. Len(subs[c]) /\ subs'[c][k] = g
      BY <1>15, <2>3, Zenon
    <3>2. k + 1 \in 1 .. Len(subs[c]) /\ 1 \in 1 .. Len(subs[c]) /\ k + 1 # 1
      BY <1>2, <3>1
    <3>3. /\ \A m \in 1 .. Len(subs[c]) : g = subs[c][m] => k + 1 = m
          /\ \A i \in 1 .. Len(log[g]) : ~Carries(log[g], i, msg[c])
      BY <1>1, <3>2, Zenon DEF Pending
    <3>4. g # d /\ g \in Conns
      BY <2>2, <2>3, <3>1, <3>2, <3>3, Zenon
    <3>5. ASSUME NEW m \in 1 .. Len(subs'[c]), g = subs'[c][m] PROVE k = m
      <4>1. m + 1 \in 2 .. Len(subs[c]) /\ subs'[c][m] = subs[c][m + 1]
        BY <1>15, Zenon
      <4>2. m + 1 \in 1 .. Len(subs[c])
        BY <1>2, <4>1
      <4>3. k + 1 = m + 1
        BY <3>3, <3>5, <4>1, <4>2, Zenon
      <4>4. k \in Int /\ m \in Int
        OBVIOUS
      <4> HIDE DEF g
      <4> QED BY <4>3, <4>4
    <3>6. ASSUME NEW i \in 1 .. Len(log'[g]), Carries(log'[g], i, msg[c]) PROVE FALSE
      <4>1. i \in 1 .. Len(log[g]) /\ log'[g][i] = log[g][i]
        BY <1>10, <3>4, Zenon
      <4>2. Carries(log[g], i, msg[c])
        BY <3>6, <4>1, Zenon DEF Carries
      <4> QED BY <3>3, <4>1, <4>2, Zenon
    <3> HIDE DEF g
    <3> QED BY <2>1, <2>3, <3>1, <3>5, <3>6, Zenon
  <2>4. CASE e # c
    <3> DEFINE g == subs[e][k]
    <3>1. subs'[e] = subs[e] /\ msg[e] # msg[c]
      BY <1>1, <1>4, <2>1, <2>4, Zenon DEF Own
    <3>2. /\ \A m \in 1 .. Len(subs[e]) : g = subs[e][m] => k = m
          /\ \A i \in 1 .. Len(log[g]) : ~Carries(log[g], i, msg[e])
      BY <2>1, <3>1, Zenon DEF Pending
    <3>3. g \in Conns
      BY <2>2, <3>1, Zenon
    <3>4. ASSUME NEW i \in 1 .. Len(log'[g]), Carries(log'[g], i, msg[e]) PROVE FALSE
      <4>1. ~Carries(log'[g], i, msg[c])
        BY <3>1, <3>4, Zenon DEF Carries
      <4>2. i \in 1 .. Len(log[g]) /\ log'[g][i] = log[g][i]
        BY <1>10, <3>3, <4>1, Zenon
      <4>3. Carries(log[g], i, msg[e])
        BY <3>4, <4>2, Zenon DEF Carries
      <4> QED BY <3>2, <4>2, <4>3, Zenon
    <3> QED BY <2>1, <3>1, <3>2, <3>4, Zenon
  <2> QED BY <2>3, <2>4
<1> QED BY <1>8, <1>9, <1>12, <1>14, <1>16, Zenon

\* Every other step of the handlers and of their peers is quiet.
LEMMA MessageStep == MessageInv /\ [PS!Next]_PS!vars => MessageInv'
<1> SUFFICES ASSUME MessageInv, [PS!Next]_PS!vars PROVE MessageInv'
    OBVIOUS
<1> USE DEF MessageInv
<1>1. CASE UNCHANGED PS!vars
  <2>1. NoMessage /\ NoDelivery
    BY <1>1 DEF PS!vars, NoMessage, NoDelivery, Shape, Delivering
  <2> QED BY <2>1, QuietStep
<1>2. ASSUME NEW c \in Conns, PS!PeerRead(c) \/ PS!PeerGone(c) \/ PS!HandlerReturn(c)
             \/ PS!UnsubscribePanic(c)
      PROVE  MessageInv'
  <2>1. UNCHANGED <<log, at, channels, msg, subs, nMsg>>
    BY <1>2, Zenon DEF PS!PeerRead, PS!PeerGone, PS!HandlerReturn, PS!UnsubscribePanic,
                       PS!registry, PS!delivery
  <2>2. NoMessage /\ NoDelivery
    BY <2>1 DEF NoMessage, NoDelivery, Shape, Delivering
  <2> QED BY <2>2, QuietStep
<1>3. ASSUME NEW c \in Conns, NEW ch \in Channels, PS!Subscribe(c, ch) \/ PS!Unsubscribe(c, ch)
      PROVE  MessageInv'
  <2>1. /\ UNCHANGED <<log, msg, subs, nMsg>>
        /\ \/ at' = [at EXCEPT ![c] = "subscribed"]
           \/ at' = [at EXCEPT ![c] = "unsubscribed"]
        /\ \/ channels' = [channels EXCEPT ![ch] = @ \cup {c}]
           \/ channels' = [channels EXCEPT ![ch] = @ \ {c}]
    BY <1>3, Zenon DEF PS!Subscribe, PS!Unsubscribe, PS!delivery
  <2>2. NoMessage
    BY <2>1 DEF NoMessage, Shape
  <2>3. NoDelivery
    BY <2>1 DEF NoDelivery, Shape, Delivering
  <2> QED BY <2>2, <2>3, QuietStep
<1>4. ASSUME NEW c \in Conns,
             PS!SubscribeReply(c) \/ PS!UnsubscribeReply(c) \/ PS!PublishReply(c)
      PROVE  MessageInv'
  <2>1. /\ \E tag \in {"subscribe", "unsubscribe", "count"} : \E n : PS!Write(c, tag, arg[c], n)
        /\ UNCHANGED <<channels, subs, nMsg>>
        /\ at' = [at EXCEPT ![c] = "idle"]
        /\ msg' = msg \/ msg' = [msg EXCEPT ![c] = 0]
    BY <1>4, Zenon DEF PS!SubscribeReply, PS!UnsubscribeReply, PS!PublishReply, PS!registry, PS!delivery
  <2>2. PICK tag \in {"subscribe", "unsubscribe", "count"} : \E n : PS!Write(c, tag, arg[c], n)
    BY <2>1, Zenon
  <2>3. PICK n : PS!Write(c, tag, arg[c], n)
    BY <2>2, Zenon
  <2>4. Wrote(c, tag, n) /\ tag # "message"
    BY <2>3, WriteWrote
  <2>5. NoMessage
    BY <2>4, NotAMessage
  <2>6. NoDelivery
    BY <2>1 DEF NoDelivery, Shape, Delivering
  <2> QED BY <2>5, <2>6, QuietStep
<1>5. ASSUME NEW c \in Conns, PS!DeliverUnlock(c) PROVE MessageInv'
  <2>1. /\ UNCHANGED <<log, channels, msg, subs, nMsg>> /\ at[c] = "locked"
        /\ at' = [at EXCEPT ![c] = "deliver"]
    BY <1>5, Zenon DEF PS!DeliverUnlock, PS!registry, PS!delivery
  <2>2. NoMessage /\ NoDelivery
    BY <2>1 DEF NoMessage, NoDelivery, Shape, Delivering
  <2> QED BY <2>2, QuietStep
<1>6. ASSUME NEW c \in Conns, NEW ch \in Channels, PS!DeliverLock(c, ch) PROVE MessageInv'
  <2>1. Copies(c, ch)
    BY <1>6, Zenon DEF PS!DeliverLock, PS!registry, Copies
  <2> QED BY <2>1, LockStep, Zenon
<1>7. ASSUME NEW c \in Conns, PS!DeliverWrite(c) PROVE MessageInv'
  <2>1. /\ Delivering(c) /\ subs[c] # <<>> /\ PS!Write(Head(subs[c]), "message", arg[c], msg[c])
        /\ subs' = [subs EXCEPT ![c] = Tail(@)]
        /\ at' = at /\ msg' = msg /\ nMsg' = nMsg /\ channels' = channels
    BY <1>7, Zenon DEF PS!DeliverWrite, PS!registry, Delivering
  <2>2. Head(subs[c]) \in Conns
    BY <2>1 DEF Shape
  <2>3. Wrote(Head(subs[c]), "message", msg[c])
    BY <2>1, <2>2, WriteWrote, Zenon
  <2>4. WritesFirst(c)
    BY <2>1, <2>3, Zenon DEF WritesFirst
  <2> QED BY <2>4, DeliveryStep, Zenon
<1> QED BY <1>1, <1>2, <1>3, <1>4, <1>5, <1>6, <1>7, Zenon
        DEF PS!Next, PS!Handler, PS!Command

\* deliver writes a message at most once to each connection, however the publishers, the
\* subscribers and their peers interleave (app/pubsub.go): the subscribers it copied under
\* the registry's mutex are distinct, and no two publishers deliver the same message.
THEOREM MessagesArriveOnce == PS!Spec => []PS!OncePerMessage
<1>1. PS!Init => MessageInv
  <2> SUFFICES ASSUME PS!Init PROVE MessageInv
    OBVIOUS
  <2>1. /\ nMsg = 0 /\ channels = [ch \in Channels |-> {}] /\ subs = [c \in Conns |-> << >>]
        /\ at = [c \in Conns |-> "idle"] /\ msg = [c \in Conns |-> 0]
        /\ log = [c \in Conns |-> << >>]
    BY Zenon DEF PS!Init
  <2>2. IsList(<< >>)
    BY DEF IsList
  <2>3. Shape
    BY <2>1, <2>2 DEF Shape
  <2>4. \A c \in Conns : ~Delivering(c) /\ DOMAIN log[c] = {} /\ Len(log[c]) = 0
    BY <2>1 DEF Delivering
  <2>5. Pending /\ Own
    BY <2>4, Zenon DEF Pending, Own
  <2>6. Past
    BY <2>4 DEF Past
  <2>7. PS!OncePerMessage
    BY <2>4 DEF PS!OncePerMessage
  <2> QED BY <2>3, <2>5, <2>6, <2>7 DEF MessageInv
<1>2. MessageInv => PS!OncePerMessage
    BY Zenon DEF MessageInv
<1> QED BY <1>1, MessageStep, <1>2, PTL DEF PS!Spec
================================================================================
