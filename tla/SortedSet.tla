------------------------------- MODULE SortedSet -------------------------------
(***************************************************************************)
(* Sorted sets (app/store.go: ZAdd, ZRank, ZRange, ZRem, updateMemberScore *)
(* and compare; app/handleCommands.go), and the geospatial commands that   *)
(* store a position as a score (GeoAdd, GeoExists).  One key.              *)
(*                                                                         *)
(* A sorted set is kept twice: scores maps a member to its score, sorted   *)
(* lists the entries in order of score, then name.  Every insertion finds  *)
(* its place by binary search, and a rescoring finds the old entry with    *)
(* it.  ZAdd holds the store's mutex throughout; ZRem takes no lock, so    *)
(* its accesses to the two are steps of their own.                         *)
(*                                                                         *)
(* Member names are numbers, for their order.  A score is a number or NaN, *)
(* which the command's ParseFloat accepts.                                 *)
(***************************************************************************)
EXTENDS Geo, Sequences, FiniteSets

CONSTANTS
    Clients,        \* connections
    Members,        \* names
    Scores,         \* the scores given to ZADD
    Places,         \* the positions given to GEOADD: cells [lat, lon] of the grid
    Kinds           \* what the key may hold at the start

NaN == -1
Nowhere == [lat |-> -1, lon |-> -1]

ASSUME MembersAssumption == Members \subseteq Nat
ASSUME ScoresAssumption == Scores \subseteq Nat \cup {NaN}
ASSUME PlacesAssumption == Places \subseteq [lat : 0 .. Grid, lon : 0 .. Grid]
ASSUME KindsAssumption == Kinds \subseteq {"none", "string"}

VARIABLES
    kind,       \* what the key holds: "none", "zset" or "string"
    scores,     \* zset.scores
    sorted,     \* zset.sorted
    pc,         \* where each ZREM is
    arg,        \* its member
    index,      \* the position it found, from 0 as in the code
    crashed,    \* "yes" once a handler has brought the process down
    odd,        \* history: "overlap" once a command has run during a ZREM, "nan"
                \* once a score was NaN
    place       \* history: where the last GEOADD of each member put it, Nowhere
                \* when a ZADD or a ZREM came after it

vars == <<kind, scores, sorted, pc, arg, index, crashed, odd, place>>

Init ==
    /\ kind \in Kinds
    /\ scores = [m \in {} |-> 0]
    /\ sorted = <<>>
    /\ pc = [c \in Clients |-> "idle"]
    /\ arg = [c \in Clients |-> 0]
    /\ index = [c \in Clients |-> 0]
    /\ crashed = "no"
    /\ odd = {}
    /\ place = [m \in Members |-> Nowhere]

--------------------------------------------------------------------------------
(* Order and search *)

\* The comparisons of float64: NaN differs from everything, itself included, and
\* is neither smaller nor larger than anything.
SameScore(s, t) == s = t /\ s # NaN
LessScore(s, t) == s < t /\ s # NaN /\ t # NaN

\* Mutant: entries of equal score are left in any order.
compareScores(a, b) == LessScore(a.score, b.score)

\* compare: by score, and by name among equals.
compare(a, b) ==
    IF ~SameScore(a.score, b.score) THEN LessScore(a.score, b.score) ELSE a.name < b.name

\* One round of sort.Search with the predicate !compare(seq[i], e), which holds from
\* some position on: it lies in r.lo .. r.hi.
Halve(seq, e, r) ==
    LET h == (r.lo + r.hi) \div 2 IN
    IF r.lo >= r.hi THEN r
    ELSE IF ~compare(seq[h + 1], e) THEN [r EXCEPT !.hi = h] ELSE [r EXCEPT !.lo = h + 1]

\* The binary search over the positions 0 .. Len(seq): as many rounds are enough.
Search(seq, e) ==
    LET n == Len(seq)
        round[i \in 0 .. n] ==
            IF i = 0 THEN [lo |-> 0, hi |-> n] ELSE Halve(seq, e, round[i - 1])
    IN  round[n].lo

\* slices.Insert and slices.Delete at a position counted from 0.
Insert(seq, i, e) ==
    [j \in 1 .. Len(seq) + 1 |->
        IF j <= i THEN seq[j] ELSE IF j = i + 1 THEN e ELSE seq[j - 1]]
Delete(seq, i) == [j \in 1 .. Len(seq) - 1 |-> IF j <= i THEN seq[j] ELSE seq[j + 1]]

--------------------------------------------------------------------------------
(* ZADD *)

\* Another connection's ZREM is under way.
Overlap(c) == IF \E d \in Clients \ {c} : pc[d] # "idle" THEN {"overlap"} ELSE {}

\* A new member: into the map, and at its place into the list.
AddMember(m, s) ==
    LET e == [name |-> m, score |-> s] IN
    /\ scores' = [x \in DOMAIN scores \cup {m} |-> IF x = m THEN s ELSE scores[x]]
    /\ sorted' = Insert(sorted, Search(sorted, e), e)
    /\ UNCHANGED crashed

\* updateMemberScore: the entry found at the old score's place is deleted, and
\* the new one inserted at its own.  Deleting past the end is a panic.
UpdateMemberScore(m, s) ==
    LET old == [name |-> m, score |-> scores[m]]
        new == [name |-> m, score |-> s]
        i == Search(sorted, old)
        cut == Delete(sorted, i)
    IN  IF SameScore(scores[m], s) THEN UNCHANGED <<scores, sorted, crashed>>
        ELSE IF i >= Len(sorted)
             THEN crashed' = "yes" /\ UNCHANGED <<scores, sorted>>
             ELSE /\ scores' = [scores EXCEPT ![m] = s]
                  /\ sorted' = Insert(cut, Search(cut, new), new)
                  /\ UNCHANGED crashed

\* ZAdd, under the mutex.  On a string it is refused, and nothing changes.
ZAddAt(c, m, s, p) ==
    /\ crashed = "no" /\ pc[c] = "idle" /\ kind # "string"
    /\ kind' = "zset"
    /\ IF m \in DOMAIN scores THEN UpdateMemberScore(m, s) ELSE AddMember(m, s)
    /\ odd' = odd \cup Overlap(c) \cup (IF s = NaN THEN {"nan"} ELSE {})
    /\ place' = [place EXCEPT ![m] = p]
    /\ UNCHANGED <<pc, arg, index>>

ZAdd(c, m, s) == ZAddAt(c, m, s, Nowhere)

\* GEOADD of a position within the bounds.
GeoAdd(c, m, p) == ZAddAt(c, m, float64(encode(p.lat, p.lon)), p)

--------------------------------------------------------------------------------
(* ZREM, without the mutex *)

\* The member is in the map.  (When it is not, or there is no key, the reply is 0.)
ZRem(c, m) ==
    /\ crashed = "no" /\ pc[c] = "idle" /\ kind = "zset" /\ m \in DOMAIN scores
    /\ pc' = [pc EXCEPT ![c] = "forget"]
    /\ arg' = [arg EXCEPT ![c] = m]
    /\ odd' = odd \cup Overlap(c)
    /\ UNCHANGED <<kind, scores, sorted, index, crashed, place>>

\* Mutant: only the list is cleared of the member.
ZRemForgetNot(c) ==
    /\ crashed = "no" /\ pc[c] = "forget"
    /\ pc' = [pc EXCEPT ![c] = "find"]
    /\ UNCHANGED <<kind, scores, sorted, arg, index, crashed, odd, place>>

\* It is deleted from the map.
ZRemForget(c) ==
    /\ crashed = "no" /\ pc[c] = "forget"
    /\ scores' = [x \in DOMAIN scores \ {arg[c]} |-> scores[x]]
    /\ place' = [place EXCEPT ![arg[c]] = Nowhere]
    /\ pc' = [pc EXCEPT ![c] = "find"]
    /\ UNCHANGED <<kind, sorted, arg, index, crashed, odd>>

\* The runtime notices that two handlers use the map at once, and stops the
\* process.
ZRemFatal(c) ==
    /\ crashed = "no" /\ pc[c] = "forget" /\ Clients \ {c} # {}
    /\ crashed' = "yes"
    /\ UNCHANGED <<kind, scores, sorted, pc, arg, index, odd, place>>

\* The list is searched from the front.  When it has no such entry the position
\* stays 0.
ZRemFind(c) ==
    LET at == {i \in DOMAIN sorted : sorted[i].name = arg[c]} IN
    /\ crashed = "no" /\ pc[c] = "find"
    /\ index' = [index EXCEPT ![c] = IF at = {} THEN 0
                                     ELSE (CHOOSE i \in at : \A j \in at : i <= j) - 1]
    /\ pc' = [pc EXCEPT ![c] = "cut"]
    /\ UNCHANGED <<kind, scores, sorted, arg, crashed, odd, place>>

\* The entry at that position is deleted, or the handler panics.
ZRemCut(c) ==
    /\ crashed = "no" /\ pc[c] = "cut"
    /\ IF index[c] < Len(sorted)
       THEN sorted' = Delete(sorted, index[c]) /\ UNCHANGED crashed
       ELSE crashed' = "yes" /\ UNCHANGED sorted
    /\ pc' = [pc EXCEPT ![c] = "idle"]
    /\ arg' = [arg EXCEPT ![c] = 0]
    /\ index' = [index EXCEPT ![c] = 0]
    /\ UNCHANGED <<kind, scores, odd, place>>

--------------------------------------------------------------------------------
(* Reads *)

\* ZRANK of a member.
ZRank(m) == Search(sorted, [name |-> m, score |-> scores[m]])

\* Mutant: the end is taken for exclusive.
ZRangeOpen(start, stop) ==
    LET n == Len(sorted)
        lo == IF start < 0 THEN start + n ELSE start
        hi == IF stop < 0 THEN stop + n ELSE stop
        from == IF lo < 0 THEN 0 ELSE lo
        to == IF hi >= n THEN n - 1 ELSE hi
    IN  IF from > to \/ from >= n THEN <<>>
        ELSE [i \in 1 .. to - from |-> sorted[from + i].name]

\* ZRANGE: negative indices count from the end, then both are clamped.
ZRange(start, stop) ==
    LET n == Len(sorted)
        lo == IF start < 0 THEN start + n ELSE start
        hi == IF stop < 0 THEN stop + n ELSE stop
        from == IF lo < 0 THEN 0 ELSE lo
        to == IF hi >= n THEN n - 1 ELSE hi
    IN  IF from > to \/ from >= n THEN <<>>
        ELSE [i \in 1 .. to - from + 1 |-> sorted[from + i].name]

\* GEOPOS of a member: the cell that its score decodes to.
GeoPos(m) == decode(scores[m])

\* ZRANK, ZRANGE, ZCARD, ZSCORE or ZREM of a key that is not a sorted set, GEODIST
\* or GEOSEARCH also of a key that is missing: the zset is nil.
ReadNil(c) ==
    /\ crashed = "no" /\ pc[c] = "idle" /\ kind # "zset"
    /\ crashed' = "yes"
    /\ UNCHANGED <<kind, scores, sorted, pc, arg, index, odd, place>>

--------------------------------------------------------------------------------

Next == \E c \in Clients :
    \/ \E m \in Members, s \in Scores : ZAdd(c, m, s)
    \/ \E m \in Members, p \in Places : GeoAdd(c, m, p)
    \/ \E m \in Members : ZRem(c, m)
    \/ ZRemForget(c) \/ ZRemFatal(c) \/ ZRemFind(c) \/ ZRemCut(c)
    \/ ReadNil(c)

Spec == Init /\ [][Next]_vars

--------------------------------------------------------------------------------
(* Properties *)

\* No ZREM is under way, none has met another command, and no score was NaN.
Plain == crashed = "no" /\ odd = {} /\ \A c \in Clients : pc[c] = "idle"

\* Between commands that did not overlap, the list has exactly one entry for each
\* member of the map, with the score the map has: no rescoring or removal hit
\* another entry.
MirrorsScores ==
    Plain => /\ Len(sorted) = Cardinality(DOMAIN scores)
             /\ \A m \in DOMAIN scores :
                    \E i \in DOMAIN sorted : sorted[i] = [name |-> m, score |-> scores[m]]

\* As long as no score is NaN, no entry comes before a smaller one, by score and
\* then by name: not even when ZREMs run into each other or into a ZADD.
InOrder ==
    "nan" \notin odd => \A i, j \in DOMAIN sorted :
        i < j => LET a == sorted[i] b == sorted[j] IN
                 a.score < b.score \/ (a.score = b.score /\ a.name <= b.name)

\* ZRANK is how many members come before this one, counted over the map, and
\* ZRANGE returns, in that order, the members whose rank, counted from the front or
\* for a negative index from the back, lies between the two indices.
RanksAndSlices ==
    LET n == Cardinality(DOMAIN scores)
        Rank(m) == Cardinality({x \in DOMAIN scores :
                       scores[x] < scores[m] \/ (scores[x] = scores[m] /\ x < m)})
        At(i) == IF i < 0 THEN i + n ELSE i
        Wanted(start, stop) == {x \in DOMAIN scores : Rank(x) \in At(start) .. At(stop)}
    IN  Plain =>
            /\ \A m \in DOMAIN scores : ZRank(m) = Rank(m)
            /\ \A start, stop \in -(n + 1) .. n + 1 :
                   LET out == ZRange(start, stop) IN
                   /\ {out[i] : i \in DOMAIN out} = Wanted(start, stop)
                   /\ \A i, j \in DOMAIN out : i < j => Rank(out[i]) < Rank(out[j])

\* GEOPOS returns the cell in which the last GEOADD put the member, through the
\* interleaving, the float64 and back, whatever else was stored, rescored or
\* removed: but for the largest longitude, where the lowest digit of the latitude
\* is lost.
GeoInverts ==
    crashed = "no" => \A m \in DOMAIN scores :
        place[m] # Nowhere =>
            LET p == place[m] IN
            GeoPos(m) = IF p.lon < Grid THEN p ELSE [p EXCEPT !.lat = p.lat - (p.lat % 2)]
================================================================================
