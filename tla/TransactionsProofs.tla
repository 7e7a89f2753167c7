-------------------------- MODULE TransactionsProofs ---------------------------
(***************************************************************************)
(* The dirty flag of a connection that does not use DISCARD raises no false *)
(* alarm.  When no key is watched by two connections and every write       *)
(* marks, no change goes unnoticed, and the flags implement optimistic     *)
(* locking.                                                                *)
(***************************************************************************)
EXTENDS Transactions, TLAPS

\* No key is watched by two connections.
OwnWatch ==
    \A c, d \in Clients : c # d => WatchKeys[c] \cap WatchKeys[d] = {}

\* Only commands that call markWatchersLocked write.
MarkingOnly == Ops \subseteq MarkingOps

--------------------------------------------------------------------------------
(* Types *)

\* What a write does to the variables it changes.
LEMMA ApplyType ==
    ASSUME TypeOK, NEW op, NEW k \in Keys, Apply(op, k)
    PROVE  /\ dirty' \subseteq Clients /\ temp' \subseteq Keys
           /\ changed' \in [Clients -> SUBSET Keys]
<1>1. dirty' \subseteq Clients
  BY Zenon DEF Apply, Mark, TypeOK
<1>2. temp' \subseteq Keys
  BY Zenon DEF Apply, Expiry, TypeOK
<1>3. changed' \in [Clients -> SUBSET Keys]
  BY Zenon DEF Apply, Changes, TypeOK
<1>4. QED  BY <1>1, <1>2, <1>3, Zenon

\* Every step preserves the types.
LEMMA NextType == ASSUME TypeOK, [Next]_vars PROVE TypeOK'
<1>1. ASSUME NEW c \in Clients, NEW op \in Ops, NEW k \in Keys, Write(c, op, k) PROVE TypeOK'
  BY <1>1, ApplyType, Zenon DEF Write, TypeOK
<1>2. ASSUME NEW c \in Clients, NEW op \in Ops, NEW k \in Keys, Queue(c, op, k) PROVE TypeOK'
  <2>1. [op |-> op, key |-> k] \in Cmds
    BY Zenon DEF Cmds
  <2>2. queued' \in [Clients -> Seq(Cmds)]
    BY <1>2, <2>1 DEF Queue, TypeOK
  <2>3. QED  BY <1>2, <2>2, Zenon DEF Queue, TypeOK
<1>3. ASSUME NEW c \in Clients, NEW ks \in SUBSET WatchKeys[c], Watch(c, ks) PROVE TypeOK'
  <2>1. ks \subseteq Keys
    BY WatchKeysAssumption, Zenon
  <2>2. watchers' \in [Keys -> SUBSET Clients] /\ watched' \in [Clients -> SUBSET Keys]
    BY <1>3, <2>1, Zenon DEF Watch, TypeOK
  <2>3. QED  BY <1>3, <2>2, Zenon DEF Watch, TypeOK
<1>4. ASSUME NEW c \in Clients, Multi(c) PROVE TypeOK'
  BY <1>4, Zenon DEF Multi, TypeOK
<1>5. ASSUME NEW c \in Clients, Unwatch(c) PROVE TypeOK'
  BY <1>5, Zenon DEF Unwatch, Dropped, TypeOK
<1>6. ASSUME NEW c \in Clients, ExecCheck(c) PROVE TypeOK'
  BY <1>6, Zenon DEF ExecCheck, TypeOK
<1>7. ASSUME NEW c \in Clients, ExecUnwatch(c) PROVE TypeOK'
  <2>1. /\ watchers' \in [Keys -> SUBSET Clients] /\ watched' \in [Clients -> SUBSET Keys]
        /\ changed' \in [Clients -> SUBSET Keys] /\ active' \subseteq Clients
        /\ dirty' \subseteq Clients /\ aborted' \subseteq Clients
    BY <1>7, Zenon DEF ExecUnwatch, Dropped, TypeOK
  <2>2. queued' \in [Clients -> Seq(Cmds)] /\ todo' \in [Clients -> Seq(Cmds)]
    BY <1>7 DEF ExecUnwatch, TypeOK
  <2>3. pc' \in [Clients -> {"idle", "exec", "run", "closed"}] /\ temp' \subseteq Keys
    BY <1>7, Zenon DEF ExecUnwatch, TypeOK
  <2>4. QED  BY <2>1, <2>2, <2>3, Zenon DEF TypeOK
<1>8. ASSUME NEW c \in Clients, ExecRun(c) PROVE TypeOK'
  <2>1. todo[c] \in Seq(Cmds) /\ todo[c] # <<>>
    BY <1>8, Zenon DEF ExecRun, TypeOK
  <2>2. Head(todo[c]) \in Cmds /\ Tail(todo[c]) \in Seq(Cmds)
    BY <2>1
  <2>3. Head(todo[c]).key \in Keys
    BY <2>2, Zenon DEF Cmds
  <2>4. todo' \in [Clients -> Seq(Cmds)]
    BY <1>8, <2>2, Zenon DEF ExecRun, TypeOK
  <2>5. QED  BY <1>8, <2>3, <2>4, ApplyType, Zenon DEF ExecRun, TypeOK
<1>9. ASSUME NEW c \in Clients, ExecDone(c) \/ Close(c) PROVE TypeOK'
  BY <1>9, Zenon DEF ExecDone, Close, TypeOK
<1>10. ASSUME NEW c \in Clients, Discard(c) PROVE TypeOK'
  BY <1>10 DEF Discard, TypeOK
<1>11. ASSUME NEW k \in Keys, EvictExpired(k) PROVE TypeOK'
  BY <1>11, Zenon DEF EvictExpired, Changes, TypeOK
<1>12. CASE UNCHANGED vars
  BY <1>12, Zenon DEF vars, TypeOK
<1>13. QED
  BY <1>1, <1>2, <1>3, <1>4, <1>5, <1>6, <1>7, <1>8, <1>9, <1>10, <1>11, <1>12, Zenon DEF Next, Exec

\* Every variable keeps its type, for all sets of connections and keys.
THEOREM TxTypeCorrect == Spec => []TypeOK
<1>1. Init => TypeOK
  BY DEF Init, TypeOK
<1>2. QED  BY <1>1, NextType, PTL DEF Spec

--------------------------------------------------------------------------------
(* What a step does to the registry and the flags *)

Idle == UNCHANGED <<watchers, watched, changed, dirty>>

Changing(k) ==
    /\ Changes(k) /\ UNCHANGED <<watchers, watched>>
    /\ dirty' = dirty \cup watchers[k] \/ (~MarkingOnly /\ dirty' = dirty)

Watching(c, ks) ==
    /\ watchers' = [k \in Keys |-> IF k \in ks THEN watchers[k] \cup {c} ELSE watchers[k]]
    /\ watched' = [watched EXCEPT ![c] = @ \cup ks]
    /\ UNCHANGED <<changed, dirty>>

Forgetting(c) ==
    /\ watched' = [watched EXCEPT ![c] = {}]
    /\ changed' = [changed EXCEPT ![c] = {}]
    /\ dirty' = dirty \ {c} \/ (watched[c] = {} /\ dirty' = dirty)
    /\ watchers' = Dropped(c) \/ (c \in Discarders /\ watchers' = watchers)

\* A write is a change that marks the watchers of its key, unless its command
\* does not mark.
LEMMA ApplyChanges ==
    ASSUME NEW op \in Ops, NEW k \in Keys, Apply(op, k), UNCHANGED <<watchers, watched>>
    PROVE  Changing(k)
BY Zenon DEF Apply, Mark, Changing, MarkingOnly

\* Every step is of one of these kinds.
LEMMA StepKinds ==
    ASSUME TypeOK, [Next]_vars
    PROVE  \/ Idle
           \/ \E k \in Keys : Changing(k)
           \/ \E c \in Clients, ks \in SUBSET Keys : ks \subseteq WatchKeys[c] /\ Watching(c, ks)
           \/ \E c \in Clients : Forgetting(c)
<1>1. ASSUME NEW c \in Clients, NEW op \in Ops, NEW k \in Keys, Write(c, op, k)
      PROVE  Changing(k)
  BY <1>1, ApplyChanges, Zenon DEF Write
<1>2. ASSUME NEW c \in Clients, NEW op \in Ops, NEW k \in Keys, Queue(c, op, k) PROVE Idle
  BY <1>2, Zenon DEF Queue, Idle
<1>3. ASSUME NEW c \in Clients, NEW ks \in SUBSET WatchKeys[c], Watch(c, ks)
      PROVE  ks \in SUBSET Keys /\ Watching(c, ks)
  BY <1>3, WatchKeysAssumption, Zenon DEF Watch, Watching
<1>4. ASSUME NEW c \in Clients, Multi(c) \/ ExecCheck(c) \/ ExecDone(c) \/ Close(c) PROVE Idle
  BY <1>4, Zenon DEF Multi, ExecCheck, ExecDone, Close, Idle
<1>5. ASSUME NEW c \in Clients, Unwatch(c) PROVE Forgetting(c)
  BY <1>5, Zenon DEF Unwatch, Forgetting
<1>6. ASSUME NEW c \in Clients, ExecUnwatch(c) PROVE Forgetting(c)
  BY <1>6, Zenon DEF ExecUnwatch, Forgetting
<1>7. ASSUME NEW c \in Clients, ExecRun(c) PROVE \E k \in Keys : Changing(k)
  <2>1. todo[c] \in Seq(Cmds) /\ todo[c] # <<>>
    BY <1>7, Zenon DEF ExecRun, TypeOK
  <2>2. Head(todo[c]) \in Cmds
    BY <2>1
  <2>3. Head(todo[c]).op \in Ops /\ Head(todo[c]).key \in Keys
    BY <2>2, Zenon DEF Cmds
  <2>4. QED  BY <1>7, <2>3, ApplyChanges, Zenon DEF ExecRun
<1>8. ASSUME NEW c \in Discarders \cap Clients, Discard(c) PROVE Forgetting(c)
  BY <1>8, Zenon DEF Discard, Forgetting
<1>9. ASSUME NEW k \in Keys, EvictExpired(k) PROVE Changing(k)
  BY <1>9, Zenon DEF EvictExpired, Changing
<1>10. CASE UNCHANGED vars
  BY <1>10, Zenon DEF vars, Idle
<1>11. QED
  BY <1>1, <1>2, <1>3, <1>4, <1>5, <1>6, <1>7, <1>8, <1>9, <1>10, Zenon DEF Next, Exec

--------------------------------------------------------------------------------
(* No change goes unnoticed *)

\* A watched key has its watcher in the registry: this is what makes a mark
\* reach the flag.  Unwatch may only drop it because the key is nobody else's.
Registered ==
    \A c \in Clients :
        /\ watched[c] \subseteq WatchKeys[c]
        /\ \A k \in watched[c] : c \in watchers[k]

LInv == TypeOK /\ Registered /\ DirtyTracksChange

\* LInv is inductive when no key is shared and every write marks.
LEMMA LInvStep == ASSUME OwnWatch, MarkingOnly, LInv, [Next]_vars PROVE LInv'
<1>1. TypeOK'
  BY NextType, Zenon DEF LInv
<1>2. CASE Idle
  BY <1>1, <1>2, Zenon DEF Idle, LInv, Registered, DirtyTracksChange
<1>3. ASSUME NEW k \in Keys, Changing(k) PROVE LInv'
  <2>1. Registered'
    BY <1>3, Zenon DEF Changing, LInv, Registered
  <2>2. DirtyTracksChange'
    BY <1>3, Zenon DEF Changing, Changes, LInv, Registered, DirtyTracksChange, TypeOK
  <2>3. QED  BY <1>1, <2>1, <2>2, Zenon DEF LInv
<1>4. ASSUME NEW c \in Clients, NEW ks \in SUBSET Keys, ks \subseteq WatchKeys[c], Watching(c, ks)
      PROVE  LInv'
  <2>1. Registered'
    BY <1>4, Zenon DEF Watching, LInv, Registered, TypeOK
  <2>2. DirtyTracksChange'
    BY <1>4, Zenon DEF Watching, LInv, DirtyTracksChange
  <2>3. QED  BY <1>1, <2>1, <2>2, Zenon DEF LInv
<1>5. ASSUME NEW c \in Clients, Forgetting(c) PROVE LInv'
  <2>1. /\ watched'[c] = {} /\ changed'[c] = {}
        /\ \A d \in Clients : d # c => watched'[d] = watched[d] /\ changed'[d] = changed[d]
    BY <1>5, Zenon DEF Forgetting, LInv, TypeOK
  <2>2. ASSUME NEW d \in Clients, d # c, NEW k \in watched[d] PROVE d \in watchers'[k]
    <3>1. k \in Keys /\ k \notin watched[c] /\ d \in watchers[k]
      BY <2>2, Zenon DEF LInv, Registered, OwnWatch, TypeOK
    <3>2. QED  BY <1>5, <3>1, Zenon DEF Forgetting, Dropped
  <2>3. Registered'
    BY <2>1, <2>2, Zenon DEF LInv, Registered
  <2>4. DirtyTracksChange'
    BY <1>5, <2>1, Zenon DEF Forgetting, LInv, DirtyTracksChange
  <2>5. QED  BY <1>1, <2>3, <2>4, Zenon DEF LInv
<1>6. TypeOK
  BY Zenon DEF LInv
<1>7. QED  BY <1>2, <1>3, <1>4, <1>5, <1>6, StepKinds, Zenon

\* A change of a watched key is never unnoticed by its watcher's flag: there
\* is no state in between, as markWatchersLocked runs in the critical section
\* of the write.  Holds for all connections, keys and command sequences in
\* which no key is watched by two connections and every write marks.
THEOREM ChangesAreNoticed ==
    ASSUME OwnWatch, MarkingOnly PROVE Spec => []DirtyTracksChange
<1>1. Init => LInv
  BY DEF Init, LInv, TypeOK, Registered, DirtyTracksChange
<1>2. LInv /\ [Next]_vars => LInv'
  BY LInvStep, Zenon
<1>3. LInv => DirtyTracksChange
  BY Zenon DEF LInv
<1>4. QED  BY <1>1, <1>2, <1>3, PTL DEF Spec

--------------------------------------------------------------------------------
(* No false alarm *)

\* Whoever is registered on a key watches it, so that a mark means a change.
\* DISCARD breaks this, for its own connection only.
SInv ==
    /\ TypeOK
    /\ \A k \in Keys : \A c \in watchers[k] \ Discarders : k \in watched[c]
    /\ \A c \in Clients : changed[c] \subseteq watched[c]
    /\ NoSpuriousAbort

\* SInv is inductive.
LEMMA SInvStep == ASSUME SInv, [Next]_vars PROVE SInv'
<1>1. TypeOK /\ TypeOK'
  BY NextType, Zenon DEF SInv
<1>2. CASE Idle
  BY <1>1, <1>2, Zenon DEF Idle, SInv, NoSpuriousAbort
<1>3. ASSUME NEW k \in Keys, Changing(k) PROVE SInv'
  <2>1. \A c \in watchers[k] \ Discarders : c \in Clients /\ k \in changed'[c]
    BY <1>3, Zenon DEF Changing, Changes, SInv, TypeOK
  <2>2. \A c \in Clients : changed[c] \subseteq changed'[c]
    BY <1>3, Zenon DEF Changing, Changes
  <2>3. NoSpuriousAbort'
    BY <1>3, <2>1, <2>2, SMTT(30) DEF Changing, SInv, NoSpuriousAbort, TypeOK
  <2>4. \A c \in Clients : changed'[c] \subseteq watched'[c]
    BY <1>3, Zenon DEF Changing, Changes, SInv
  <2>5. QED  BY <1>1, <1>3, <2>3, <2>4, Zenon DEF Changing, SInv
<1>4. ASSUME NEW c \in Clients, NEW ks \in SUBSET Keys, Watching(c, ks) PROVE SInv'
  <2>1. \A k \in Keys : \A d \in watchers'[k] \ Discarders : k \in watched'[d]
    BY <1>4 DEF Watching, SInv, TypeOK
  <2>2. NoSpuriousAbort'
    BY <1>4, Zenon DEF Watching, SInv, NoSpuriousAbort
  <2>3. \A d \in Clients : changed'[d] \subseteq watched'[d]
    BY <1>4, Zenon DEF Watching, SInv, TypeOK
  <2>4. QED  BY <1>1, <2>1, <2>2, <2>3, Zenon DEF SInv
<1>5. ASSUME NEW c \in Clients, Forgetting(c) PROVE SInv'
  <2>1. /\ watched'[c] = {} /\ changed'[c] = {}
        /\ \A d \in Clients : d # c => watched'[d] = watched[d] /\ changed'[d] = changed[d]
    BY <1>5, Zenon DEF Forgetting, SInv, TypeOK
  <2>2. \A k \in Keys : \A d \in watchers'[k] :
            d \in watchers[k] /\ (c \in Discarders \/ k \notin watched[c])
    BY <1>5, Zenon DEF Forgetting, Dropped
  <2>3. ASSUME NEW k \in Keys, NEW d \in watchers'[k] \ Discarders PROVE k \in watched'[d]
    <3>1. d \in watchers[k] /\ (c \in Discarders \/ k \notin watched[c])
      BY <2>2, <2>3, Zenon
    <3>2. d \in Clients
      BY <1>1, <3>1, Zenon DEF TypeOK
    <3>3. k \in watched[d]
      BY <2>3, <3>1, Zenon DEF SInv
    <3>4. QED  BY <2>1, <2>3, <3>1, <3>2, <3>3, Zenon
  <2>4. dirty' \subseteq dirty /\ (c \in Discarders \/ c \notin dirty')
    <3>1. watched[c] = {} => changed[c] = {}
      BY Zenon DEF SInv
    <3>2. watched[c] = {} => c \in Discarders \/ c \notin dirty
      BY <3>1, Zenon DEF SInv, NoSpuriousAbort
    <3>3. QED  BY <1>5, <3>2, Zenon DEF Forgetting
  <2>5. NoSpuriousAbort'
    BY <2>1, <2>4, Zenon DEF SInv, NoSpuriousAbort, TypeOK
  <2>6. \A d \in Clients : changed'[d] \subseteq watched'[d]
    BY <2>1, Zenon DEF SInv
  <2>7. QED  BY <1>1, <2>3, <2>5, <2>6, Zenon DEF SInv
<1>6. QED  BY <1>1, <1>2, <1>3, <1>4, <1>5, StepKinds, Zenon

\* EXEC's null array means that a watched key changed, whoever watches what and
\* whichever commands write, on every connection that does not use DISCARD
\* (which leaves its connection in the registry).
THEOREM AbortMeansChange == Spec => []NoSpuriousAbort
<1>1. Init => SInv
  BY DEF Init, SInv, TypeOK, NoSpuriousAbort
<1>2. SInv /\ [Next]_vars => SInv'
  BY SInvStep, Zenon
<1>3. SInv => NoSpuriousAbort
  BY Zenon DEF SInv
<1>4. QED  BY <1>1, <1>2, <1>3, PTL DEF Spec

--------------------------------------------------------------------------------
(* Refinement *)

\* A handler has a verdict between EXEC's two critical sections, and only there.
LEMMA VerdictPoint ==
    ASSUME NEW c \in Steady
    PROVE  /\ pc[c] # "exec" => verdict[c] = "none"
           /\ pc[c] = "exec" => verdict[c] = IF c \in aborted THEN "abort" ELSE "run"
BY Zenon DEF verdict

\* A step that moves no handler into or out of EXEC's first part, and keeps the
\* list of aborted ones, keeps all verdicts.
LEMMA VerdictKept ==
    ASSUME UNCHANGED <<pc, aborted>> PROVE verdict' = verdict
BY Zenon DEF verdict

\* A step of connection c alone leaves the others' keys and verdicts as they are.
Alone(c) ==
    \A d \in Clients : d # c =>
        /\ watched'[d] = watched[d] /\ changed'[d] = changed[d] /\ pc'[d] = pc[d]
        /\ d \in aborted' <=> d \in aborted

\* The contract does not see the steps of a connection that uses DISCARD.
LEMMA DiscarderUnseen ==
    ASSUME NEW c \in Clients, c \notin Steady, Alone(c)
    PROVE  UNCHANGED <<swatched, schanged, verdict>>
<1>1. \A d \in Steady : d \in Clients /\ d # c
  BY Zenon DEF Steady
<1>2. swatched' = swatched
  BY <1>1, Zenon DEF swatched, Alone
<1>3. schanged' = schanged
  BY <1>1, Zenon DEF schanged, Alone
<1>4. verdict' = verdict
  BY <1>1, Zenon DEF verdict, Alone
<1>5. QED  BY <1>2, <1>3, <1>4, Zenon

\* A connection that stops watching forgets in the contract too.
LEMMA ForgetStep ==
    ASSUME NEW c \in Steady, Alone(c), watched'[c] = {}, changed'[c] = {}, pc'[c] # "exec"
    PROVE  Contract!CForget(c)
<1>1. \A d \in Steady : d \in Clients
  BY Zenon DEF Steady
<1>2. swatched' = [swatched EXCEPT ![c] = {}]
  BY <1>1, Zenon DEF swatched, Alone
<1>3. schanged' = [schanged EXCEPT ![c] = {}]
  BY <1>1, Zenon DEF schanged, Alone
<1>4. verdict' = [verdict EXCEPT ![c] = "none"]
  BY <1>1, Zenon DEF verdict, Alone
<1>5. QED  BY <1>2, <1>3, <1>4, Zenon DEF Contract!CForget

\* Every step of the flags' implementation is a step of the contract or none.
LEMMA ContractStep ==
    ASSUME LInv, SInv, [Next]_vars
    PROVE  [Contract!CNext]_<<swatched, schanged, verdict>>
<1>0. TypeOK /\ Steady \subseteq Clients
  BY Zenon DEF LInv, Steady
<1>1. ASSUME NEW k \in Keys, Changing(k), UNCHANGED <<pc, aborted>> PROVE Contract!CNext
  <2>1. swatched' = swatched /\ verdict' = verdict
    BY <1>1, VerdictKept, Zenon DEF Changing, swatched
  <2>2. schanged' = [c \in Steady |-> IF k \in swatched[c] THEN schanged[c] \cup {k}
                                                           ELSE schanged[c]]
    BY <1>0, <1>1, Zenon DEF Changing, Changes, swatched, schanged
  <2>3. Contract!CChange(k)
    BY <2>1, <2>2, Zenon DEF Contract!CChange
  <2>4. QED  BY <2>3, Zenon DEF Contract!CNext
<1>2. ASSUME NEW c \in Clients, NEW op \in Ops, NEW k \in Keys, Write(c, op, k)
      PROVE  Contract!CNext
  BY <1>1, <1>2, ApplyChanges, Zenon DEF Write
<1>3. ASSUME NEW k \in Keys, EvictExpired(k) PROVE Contract!CNext
  <2>1. Changing(k) /\ UNCHANGED <<pc, aborted>>
    BY <1>3, Zenon DEF EvictExpired, Changing
  <2>2. QED  BY <1>1, <2>1, Zenon
<1>4. ASSUME NEW c \in Clients, ExecRun(c) PROVE Contract!CNext
  <2>1. todo[c] \in Seq(Cmds) /\ todo[c] # <<>>
    BY <1>0, <1>4, Zenon DEF ExecRun, TypeOK
  <2>2. Head(todo[c]) \in Cmds
    BY <2>1
  <2>3. Head(todo[c]).op \in Ops /\ Head(todo[c]).key \in Keys
    BY <2>2, Zenon DEF Cmds
  <2>4. QED  BY <1>1, <1>4, <2>3, ApplyChanges, Zenon DEF ExecRun
<1>5. ASSUME NEW c \in Steady, NEW ks \in SUBSET WatchKeys[c], Watch(c, ks)
      PROVE  Contract!CNext
  <2>1. ks \in SUBSET Keys
    BY <1>0, WatchKeysAssumption, Zenon
  <2>2. verdict[c] = "none" /\ verdict' = verdict
    BY <1>5, VerdictPoint, VerdictKept, Zenon DEF Watch
  <2>3. schanged' = schanged
    BY <1>5, Zenon DEF Watch, schanged
  <2>4. swatched' = [swatched EXCEPT ![c] = @ \cup ks]
    BY <1>0, <1>5, Zenon DEF Watch, swatched, TypeOK
  <2>5. Contract!CWatch(c, ks)
    BY <2>2, <2>3, <2>4, Zenon DEF Contract!CWatch
  <2>6. QED  BY <2>1, <2>5, Zenon DEF Contract!CNext
<1>6. ASSUME NEW c \in Steady, Unwatch(c) \/ ExecUnwatch(c) PROVE Contract!CNext
  <2>1. Alone(c)
    BY <1>0, <1>6, Zenon DEF Unwatch, ExecUnwatch, Alone, TypeOK
  <2>2. watched'[c] = {} /\ changed'[c] = {} /\ pc'[c] # "exec"
    BY <1>0, <1>6, Zenon DEF Unwatch, ExecUnwatch, TypeOK
  <2>3. QED  BY <2>1, <2>2, ForgetStep, Zenon DEF Contract!CNext
<1>7. ASSUME NEW c \in Steady, ExecCheck(c) PROVE Contract!CNext
  <2>1. verdict[c] = "none"
    BY <1>7, VerdictPoint, Zenon DEF ExecCheck
  <2>2. /\ pc'[c] = "exec" /\ \A d \in Clients : d # c => pc'[d] = pc[d]
        /\ \A d \in Clients : d # c => (d \in aborted' <=> d \in aborted)
        /\ c \in aborted' <=> c \in dirty
    BY <1>0, <1>7, Zenon DEF ExecCheck, TypeOK
  <2>3. c \in dirty <=> schanged[c] # {}
    BY <1>0, Zenon DEF LInv, SInv, DirtyTracksChange, NoSpuriousAbort, schanged, Steady
  <2>4. verdict' = [verdict EXCEPT ![c] = IF schanged[c] = {} THEN "run" ELSE "abort"]
    BY <1>0, <2>2, <2>3, Zenon DEF verdict
  <2>5. swatched' = swatched /\ schanged' = schanged
    BY <1>7, Zenon DEF ExecCheck, swatched, schanged
  <2>6. Contract!CDecide(c)
    BY <2>1, <2>4, <2>5, Zenon DEF Contract!CDecide
  <2>7. QED  BY <2>6, Zenon DEF Contract!CNext
<1>8. ASSUME NEW c \in Clients, c \notin Steady,
             \/ \E ks \in SUBSET WatchKeys[c] : Watch(c, ks)
             \/ Unwatch(c) \/ ExecUnwatch(c) \/ ExecCheck(c) \/ Discard(c)
      PROVE  UNCHANGED <<swatched, schanged, verdict>>
  <2>1. Alone(c)
    BY <1>0, <1>8 DEF Watch, Unwatch, ExecUnwatch, ExecCheck, Discard, Alone, TypeOK
  <2>2. QED  BY <1>8, <2>1, DiscarderUnseen, Zenon
<1>9. ASSUME NEW c \in Clients,
             Multi(c) \/ (\E op \in Ops, k \in Keys : Queue(c, op, k))
      PROVE  UNCHANGED <<swatched, schanged, verdict>>
  BY <1>9, VerdictKept, Zenon DEF Multi, Queue, swatched, schanged
<1>10. ASSUME NEW c \in Clients, ExecDone(c) \/ Close(c)
       PROVE  UNCHANGED <<swatched, schanged, verdict>>
  <2>1. /\ pc[c] # "exec" /\ pc'[c] # "exec" /\ aborted' = aborted
        /\ \A d \in Clients : d # c => pc'[d] = pc[d]
    BY <1>0, <1>10, Zenon DEF ExecDone, Close, TypeOK
  <2>2. verdict' = verdict
    BY <1>0, <2>1, Zenon DEF verdict
  <2>3. QED  BY <1>10, <2>2, Zenon DEF ExecDone, Close, swatched, schanged
<1>11. CASE UNCHANGED vars
  BY <1>11, VerdictKept, Zenon DEF vars, swatched, schanged
<1>12. ASSUME NEW c \in Discarders \cap Clients PROVE c \notin Steady
  BY Zenon DEF Steady
<1>13. QED
  BY <1>2, <1>3, <1>4, <1>5, <1>6, <1>7, <1>8, <1>9, <1>10, <1>11, <1>12
  DEF Next, Exec

\* The dirty flags implement optimistic locking for every connection that does
\* not use DISCARD: EXEC's check says "run" exactly when no watched key has
\* changed since it was watched.  Needs that no key is watched by two
\* connections and that every write marks.
THEOREM FlagsKeepContract ==
    ASSUME OwnWatch, MarkingOnly PROVE Spec => KeepsContract
<1>1. Init => LInv /\ SInv
  BY DEF Init, LInv, SInv, TypeOK, Registered, DirtyTracksChange, NoSpuriousAbort
<1>2. LInv /\ SInv /\ [Next]_vars => LInv' /\ SInv'
  BY LInvStep, SInvStep, Zenon
<1>3. Init => Contract!CInit
  BY Zenon DEF Init, Contract!CInit, verdict, swatched, schanged, Steady
<1>4. LInv /\ SInv /\ [Next]_vars => [Contract!CNext]_(Contract!cvars)
  BY ContractStep, Zenon DEF Contract!cvars
<1>5. QED  BY <1>1, <1>2, <1>3, <1>4, PTL DEF Spec, KeepsContract, Contract!CSpec
================================================================================
