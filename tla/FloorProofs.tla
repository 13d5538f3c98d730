---------------------------- MODULE FloorProofs -----------------------------
(***************************************************************************)
(* What one call of the fleet manager does to its book: an operator of     *)
(* Floor or Fleet after another takes a book that fits its trucks to one   *)
(* that does (the predicate Fine below, of one truck at a time), for every *)
(* graph, every number of trucks and tasks and whatever the trucks and the *)
(* wire are doing.  FleetProofs puts the calls together.                   *)
(***************************************************************************)
EXTENDS Fleet, LedgerProofs

-----------------------------------------------------------------------------
(* What a call of the ledger leaves alone. *)

\* A call made for one vehicle leaves the others' floor, wait and yield alone.
OnlyFor(l, k, v) ==
    /\ k \in LedgerType /\ Consistent(k)
    /\ \A u \in Vehicles \ {v} :
          k.held[u] = l.held[u] /\ (u \in k.yielded <=> u \in l.yielded)
          /\ k.standing[u] = l.standing[u]

LEMMA OnlyForTransitive ==
    ASSUME NEW l, NEW k, NEW j, NEW v, OnlyFor(l, k, v), OnlyFor(k, j, v)
    PROVE  OnlyFor(l, j, v)
BY DEF OnlyFor

LEMMA HoldOnly ==
    ASSUME NEW l \in LedgerType, Consistent(l), NEW v \in Vehicles,
           NEW r \in Seq(Elements), IsInjective(r)
    PROVE  /\ OnlyFor(l, Hold(l, v, r), v)
           /\ Hold(l, v, r).held[v] = Without(l.held[v], Range(Grant(l, v, r))) \o Grant(l, v, r)
           /\ Hold(l, v, r).yielded = l.yielded /\ Hold(l, v, r).standing = l.standing
<1> DEFINE prefix == Grant(l, v, r)
           owner == [e \in Elements |-> IF e \in Range(prefix) THEN v ELSE l.owner[e]]
           waiting == [l.waiting EXCEPT ![v] = Blocker(l, v, r)]
           held == [l.held EXCEPT ![v] = Without(@, Range(prefix)) \o prefix]
<1>1. l = [owner |-> l.owner, held |-> l.held, waiting |-> l.waiting,
           standing |-> l.standing, yielded |-> l.yielded]
      /\ l.held \in [Vehicles -> Seq(Elements)]
  BY LedgerRecord, LedgerFields
<1>2. Hold(l, v, r) = [[[l EXCEPT !.waiting = waiting] EXCEPT !.owner = owner] EXCEPT !.held = held]
  BY <1>1 DEF Hold
<1>3. Hold(l, v, r) = [owner |-> owner, held |-> held, waiting |-> waiting,
                       standing |-> l.standing, yielded |-> l.yielded]
  <2> HIDE DEF owner, waiting, held
  <2>1. QED
    BY <1>1, <1>2
<1>4. Hold(l, v, r).held = held /\ Hold(l, v, r).standing = l.standing
      /\ Hold(l, v, r).yielded = l.yielded
  <2> HIDE DEF owner, waiting, held
  <2>1. QED
    BY <1>3
<1>5. QED
  BY <1>1, <1>4, HoldConsistent DEF OnlyFor

LEMMA ReleaseThroughOnly ==
    ASSUME NEW l \in LedgerType, Consistent(l), NEW v \in Vehicles, NEW node
    PROVE  /\ OnlyFor(l, ReleaseThrough(l, v, node), v)
           /\ ReleaseThrough(l, v, node).yielded = l.yielded
           /\ ReleaseThrough(l, v, node).standing = l.standing
           /\ \A c \in DOMAIN l.held[v] : l.held[v][c] = node =>
                ReleaseThrough(l, v, node).held[v] = SubSeq(l.held[v], c, Len(l.held[v]))
           /\ node \notin Range(l.held[v]) => ReleaseThrough(l, v, node) = l
<1> DEFINE at == {i \in DOMAIN l.held[v] : l.held[v][i] = node}
           cut == Min(at)
           owner == Freed(l, v, Range(SubSeq(l.held[v], 1, cut - 1)))
           held == [l.held EXCEPT ![v] = SubSeq(@, cut, Len(@))]
<1>1. l = [owner |-> l.owner, held |-> l.held, waiting |-> l.waiting,
           standing |-> l.standing, yielded |-> l.yielded]
      /\ l.held \in [Vehicles -> Seq(Elements)] /\ IsInjective(l.held[v])
  BY LedgerRecord, LedgerFields DEF Consistent
<1>2. ReleaseThrough(l, v, node) \in LedgerType /\ Consistent(ReleaseThrough(l, v, node))
  BY ReleaseThroughConsistent
<1>3. CASE at = {}
  <2>1. ReleaseThrough(l, v, node) = l
    BY <1>3 DEF ReleaseThrough
  <2>2. \A c \in DOMAIN l.held[v] : l.held[v][c] # node
    BY <1>3
  <2>3. QED
    BY <1>2, <2>1, <2>2 DEF OnlyFor
<1>4. CASE at # {}
  <2>1. ReleaseThrough(l, v, node) = [[l EXCEPT !.owner = owner] EXCEPT !.held = held]
    BY <1>1, <1>4 DEF ReleaseThrough
  <2>2. ReleaseThrough(l, v, node) = [owner |-> owner, held |-> held, waiting |-> l.waiting,
                         standing |-> l.standing, yielded |-> l.yielded]
    <3> HIDE DEF owner, held
    <3>1. QED
      BY <1>1, <2>1
  <2>3. ReleaseThrough(l, v, node).held = held /\ ReleaseThrough(l, v, node).standing = l.standing
        /\ ReleaseThrough(l, v, node).yielded = l.yielded
    <3> HIDE DEF owner, held
    <3>1. QED
      BY <2>2
  <2>4. at \in SUBSET Nat
    BY <1>1, LenProperties
  <2>5. \A c \in at : cut = c
    <3>1. cut \in at
      BY <1>4, <2>4, MinIsLeast
    <3> HIDE DEF cut
    <3>2. QED
      BY <1>1, <3>1 DEF IsInjective
  <2>6. node \in Range(l.held[v])
    BY <1>4 DEF Range
  <2>7. QED
    BY <1>1, <1>2, <2>3, <2>5, <2>6 DEF OnlyFor
<1>5. QED
  BY <1>3, <1>4

LEMMA ReleaseAllOnly ==
    ASSUME NEW l \in LedgerType, Consistent(l), NEW v \in Vehicles,
           NEW keep \in Nodes \cup {None}
    PROVE  /\ OnlyFor(l, ReleaseAll(l, v, keep), v)
           /\ ReleaseAll(l, v, keep).yielded = l.yielded
           /\ ReleaseAll(l, v, keep).standing = l.standing
<1> DEFINE freed == Freed(l, v, Range(l.held[v]))
           retaken == keep # None /\ freed[keep] = None
           owner == IF retaken THEN [freed EXCEPT ![keep] = v] ELSE freed
           held == [l.held EXCEPT ![v] = IF retaken THEN <<keep>> ELSE << >>]
           waiting == [l.waiting EXCEPT ![v] = None]
<1>1. l = [owner |-> l.owner, held |-> l.held, waiting |-> l.waiting,
           standing |-> l.standing, yielded |-> l.yielded]
      /\ l.held \in [Vehicles -> Seq(Elements)]
  BY LedgerRecord, LedgerFields
<1>2. ReleaseAll(l, v, keep) =
         [[[l EXCEPT !.owner = owner] EXCEPT !.held = held] EXCEPT !.waiting = waiting]
  BY <1>1 DEF ReleaseAll
<1>3. ReleaseAll(l, v, keep) = [owner |-> owner, held |-> held, waiting |-> waiting,
                       standing |-> l.standing, yielded |-> l.yielded]
  <2> HIDE DEF owner, waiting, held
  <2>1. QED
    BY <1>1, <1>2
<1>4. ReleaseAll(l, v, keep).held = held /\ ReleaseAll(l, v, keep).standing = l.standing
      /\ ReleaseAll(l, v, keep).yielded = l.yielded
  <2> HIDE DEF owner, waiting, held
  <2>1. QED
    BY <1>3
<1>5. QED
  BY <1>1, <1>4, ReleaseAllConsistent DEF OnlyFor

LEMMA SetStandingOnly ==
    ASSUME NEW l \in LedgerType, Consistent(l), NEW v \in Vehicles, NEW node \in Nodes
    PROVE  /\ OnlyFor(l, SetStanding(l, v, node), v)
           /\ SetStanding(l, v, node).yielded = l.yielded
           /\ SetStanding(l, v, node).held = l.held
           /\ SetStanding(l, v, node).owner = l.owner
           /\ SetStanding(l, v, node).waiting = l.waiting
           /\ SetStanding(l, v, node).standing[v] = node
<1>1. l = [owner |-> l.owner, held |-> l.held, waiting |-> l.waiting,
           standing |-> l.standing, yielded |-> l.yielded]
      /\ l.standing \in [Vehicles -> Nodes \cup {None}]
  BY LedgerRecord, LedgerFields
<1> DEFINE standing == [l.standing EXCEPT ![v] = node]
<1>2. SetStanding(l, v, node) = [l EXCEPT !.standing = standing]
  BY DEF SetStanding
<1>3. /\ SetStanding(l, v, node).standing = standing
      /\ SetStanding(l, v, node).yielded = l.yielded
      /\ SetStanding(l, v, node).waiting = l.waiting
  <2> HIDE DEF standing
  <2>1. QED
    BY <1>1, <1>2
<1>4. QED
  BY <1>1, <1>3, SetStandingConsistent DEF OnlyFor

LEMMA ClearYieldOnly ==
    ASSUME NEW l \in LedgerType, Consistent(l), NEW v \in Vehicles
    PROVE  /\ OnlyFor(l, ClearYield(l, v), v)
           /\ ClearYield(l, v).held = l.held
           /\ ClearYield(l, v).standing = l.standing
           /\ v \notin ClearYield(l, v).yielded
<1>1. l = [owner |-> l.owner, held |-> l.held, waiting |-> l.waiting,
           standing |-> l.standing, yielded |-> l.yielded]
  BY LedgerRecord
<1> DEFINE yielded == l.yielded \ {v}
<1>2. ClearYield(l, v) = [l EXCEPT !.yielded = yielded]
  BY DEF ClearYield
<1>3. ClearYield(l, v).standing = l.standing /\ ClearYield(l, v).yielded = yielded
  <2> HIDE DEF yielded
  <2>1. QED
    BY <1>1, <1>2
<1>4. QED
  BY <1>3, ClearYieldConsistent DEF OnlyFor

LEMMA ClearWaitOnly ==
    ASSUME NEW l \in LedgerType, Consistent(l), NEW v \in Vehicles
    PROVE  /\ OnlyFor(l, ClearWait(l, v), v)
           /\ ClearWait(l, v).held = l.held
           /\ ClearWait(l, v).standing = l.standing
           /\ ClearWait(l, v).yielded = l.yielded
<1>1. l = [owner |-> l.owner, held |-> l.held, waiting |-> l.waiting,
           standing |-> l.standing, yielded |-> l.yielded]
  BY LedgerRecord
<1> DEFINE waiting == [l.waiting EXCEPT ![v] = None]
<1>2. ClearWait(l, v) = [l EXCEPT !.waiting = waiting]
  BY DEF ClearWait
<1>3. ClearWait(l, v).standing = l.standing /\ ClearWait(l, v).yielded = l.yielded
  <2> HIDE DEF waiting
  <2>1. QED
    BY <1>1, <1>2
<1>4. QED
  BY <1>3, ClearWaitConsistent DEF OnlyFor

LEMMA YieldOnly ==
    ASSUME NEW l \in LedgerType, Consistent(l), NEW v \in Vehicles
    PROVE  /\ OnlyFor(l, Yield(l, v), v)
           /\ v \in Yield(l, v).yielded
           /\ Yield(l, v).standing = l.standing
<1> DEFINE k == ReleaseAll(l, v, l.standing[v])
           yielded == k.yielded \cup {v}
<1>1. l.standing[v] \in Nodes \cup {None}
  BY LedgerFields
<1>2. OnlyFor(l, k, v) /\ k.yielded = l.yielded /\ k.standing = l.standing /\ k \in LedgerType
  BY <1>1, ReleaseAllOnly DEF OnlyFor
<1> HIDE DEF k
<1>3. k = [owner |-> k.owner, held |-> k.held, waiting |-> k.waiting,
           standing |-> k.standing, yielded |-> k.yielded]
  BY <1>2, LedgerRecord
<1>4. Yield(l, v) = [k EXCEPT !.yielded = yielded]
  BY DEF Yield, k
<1>5. Yield(l, v).held = k.held /\ Yield(l, v).standing = k.standing
      /\ Yield(l, v).yielded = yielded
  <2> HIDE DEF yielded
  <2>1. QED
    BY <1>3, <1>4
<1>6. QED
  BY <1>2, <1>5, YieldConsistent DEF OnlyFor

LEMMA PathFacts ==
    ASSUME NEW p \in Paths
    PROVE  /\ p \in Seq(Nodes) /\ Len(p) \in Nat /\ Len(p) >= 1 /\ DOMAIN p = 1 .. Len(p)
           /\ IsInjective(p)
           /\ RouteElements(p) \in Seq(Elements) /\ IsInjective(RouteElements(p))
           /\ Len(RouteElements(p)) = 2 * Len(p) - 1
           /\ \A i \in 1 .. Len(p) : RouteElements(p)[2 * i - 1] = p[i]
           /\ \A i \in 1 .. 2 * Len(p) - 1 : RouteElements(p)[i] \in Nodes => i % 2 = 1
<1>1. p \in Seq(Nodes) /\ p # << >> /\ IsInjective(p)
      /\ \A i \in 1 .. Len(p) - 1 : Edge(p[i], p[i + 1]) \in Links
  BY DEF Paths
<1>2. Len(p) \in Nat /\ DOMAIN p = 1 .. Len(p) /\ p \in [1 .. Len(p) -> Nodes]
  BY <1>1, LenProperties
<1>3. Len(p) >= 1
  BY <1>1, <1>2, EmptySeq
<1>4. RouteElements(p) \in Seq(Elements) /\ IsInjective(RouteElements(p))
  <2>1. Len(p) \in Nat \ {0}
    BY <1>2, <1>3
  <2>2. QED
    BY <1>1, <1>2, <2>1, RouteElementsOfPath
<1> DEFINE n == Len(p)
           r == RouteElements(p)
<1>5. DOMAIN r = 1 .. (2 * n - 1)
  BY DEF RouteElements
<1>6. Len(r) = 2 * n - 1
  <2>1. 2 * n - 1 \in Nat
    BY <1>2, <1>3
  <2> HIDE DEF r
  <2>2. QED
    BY <1>4, <1>5, <2>1, LenProperties
<1>7. ASSUME NEW i \in 1 .. n PROVE r[2 * i - 1] = p[i]
  <2> HIDE DEF n
  <2>1. 2 * i - 1 \in 1 .. (2 * n - 1) /\ (2 * i - 1) % 2 = 1 /\ (2 * i - 1 + 1) \div 2 = i
    BY <1>2 DEF n
  <2>2. QED
    BY <2>1 DEF RouteElements, n
<1>8. ASSUME NEW i \in 1 .. (2 * n - 1), r[i] \in Nodes PROVE i % 2 = 1
  <2>1. SUFFICES ASSUME i % 2 # 1 PROVE FALSE
    OBVIOUS
  <2>2. r[i] = Edge(p[i \div 2], p[i \div 2 + 1])
    BY <2>1 DEF RouteElements
  <2>3. i \div 2 \in 1 .. n - 1
    BY <1>2, <2>1
  <2>4. r[i] \in Links
    BY <1>1, <2>2, <2>3
  <2>5. QED
    BY <1>8, <2>4, FloorAssumption
<1>9. QED
  BY <1>1, <1>2, <1>3, <1>4, <1>6, <1>7, <1>8

LEMMA IndexOfFacts ==
    ASSUME NEW p \in Paths, NEW node
    PROVE  /\ IndexOf(p, node) \in 1 .. Len(p) + 1
           /\ node \in Range(p) => IndexOf(p, node) \in 1 .. Len(p) /\ p[IndexOf(p, node)] = node
           /\ node \notin Range(p) => IndexOf(p, node) = Len(p) + 1
<1> DEFINE S == {i \in DOMAIN p : p[i] = node} \cup {Len(p) + 1}
<1>1. Len(p) \in Nat /\ DOMAIN p = 1 .. Len(p)
  BY PathFacts
<1>2. S \in SUBSET Nat /\ S # {} /\ S \subseteq 1 .. Len(p) + 1
  BY <1>1
<1>3. IndexOf(p, node) = Min(S)
  BY DEF IndexOf
<1>4. Min(S) \in S /\ \A x \in S : Min(S) <= x
  <2> HIDE DEF S
  <2>1. QED
    BY <1>2, MinIsLeast
<1>5. ASSUME node \in Range(p) PROVE IndexOf(p, node) \in 1 .. Len(p) /\ p[IndexOf(p, node)] = node
  <2>1. PICK i \in DOMAIN p : p[i] = node
    BY <1>5 DEF Range
  <2>2. i \in S /\ Min(S) <= i
    BY <1>4, <2>1
  <2>3. QED
    BY <1>1, <1>2, <1>3, <1>4, <2>2
<1>6. ASSUME node \notin Range(p) PROVE IndexOf(p, node) = Len(p) + 1
  <2>1. S = {Len(p) + 1}
    BY <1>6 DEF Range
  <2>2. QED
    BY <1>3, <1>4, <2>1
<1>7. QED
  BY <1>2, <1>3, <1>4, <1>5, <1>6

LEMMA IndexOfNode ==
    ASSUME NEW p \in Paths, NEW i \in 1 .. Len(p)
    PROVE  p[i] \in Range(p) /\ p[i] \in Nodes /\ IndexOf(p, p[i]) = i
<1>1. DOMAIN p = 1 .. Len(p) /\ IsInjective(p) /\ p \in Seq(Nodes)
  BY PathFacts
<1>2. p[i] \in Range(p)
  BY <1>1 DEF Range
<1>3. p[i] \in Nodes
  BY <1>1, ElementOfSeq
<1>4. QED
  BY <1>1, <1>2, <1>3, IndexOfFacts DEF IsInjective

LEMMA LastOfPath ==
    ASSUME NEW p \in Paths
    PROVE  Last(p) = p[Len(p)]
BY DEF Last

LEMMA RestFacts ==
    ASSUME NEW p \in Paths, NEW i \in 1 .. Len(p), NEW j \in i .. Len(p)
    PROVE  /\ SubSeq(p, i, j) \in Paths /\ Len(SubSeq(p, i, j)) = j - i + 1
           /\ \A k \in 1 .. 2 * (j - i + 1) - 1 :
                 RouteElements(SubSeq(p, i, j))[k] = RouteElements(p)[2 * i - 2 + k]
<1> DEFINE n == Len(p)
           q == SubSeq(p, i, j)
           m == j - i + 1
<1>1. n \in Nat /\ n >= 1 /\ DOMAIN p = 1 .. n /\ IsInjective(p) /\ p \in Seq(Nodes)
  BY PathFacts
<1>2. m \in Nat /\ m >= 1 /\ \A k \in 1 .. m : i + k - 1 \in 1 .. n
  BY <1>1
<1>3. q \in Seq(Nodes) /\ Len(q) = m /\ DOMAIN q = 1 .. m /\ \A k \in 1 .. m : q[k] = p[i + k - 1]
  <2>1. \A k \in i .. j : p[k] \in Nodes
    BY <1>1, ElementOfSeq
  <2>2. i \in Int /\ j \in Int /\ ~(j < i)
    BY <1>1
  <2>3. q \in Seq(Nodes) /\ Len(q) = m /\ \A k \in 1 .. m : q[k] = p[i + k - 1]
    BY <2>1, <2>2, <1>1, <1>2, SubSeqProperties
  <2>4. QED
    BY <2>3, LenProperties
<1> HIDE DEF q, m, n
<1>4. IsInjective(q)
  <2>1. ASSUME NEW a \in 1 .. m, NEW b \in 1 .. m, q[a] = q[b] PROVE a = b
    <3>1. p[i + a - 1] = p[i + b - 1] /\ i + a - 1 \in 1 .. n /\ i + b - 1 \in 1 .. n
      BY <1>2, <1>3, <2>1
    <3>2. i + a - 1 = i + b - 1
      BY <1>1, <3>1 DEF IsInjective
    <3>3. QED
      BY <3>2, <1>1, <1>2 DEF n
  <2>2. QED
    BY <1>3, <2>1 DEF IsInjective
<1>5. q # << >>
  BY <1>2, <1>3, EmptySeq
<1>6. ASSUME NEW k \in 1 .. m - 1 PROVE Edge(q[k], q[k + 1]) \in Links
  <2>1. k \in 1 .. m /\ k + 1 \in 1 .. m /\ i + k - 1 \in 1 .. n - 1
        /\ i + (k + 1) - 1 = (i + k - 1) + 1
    BY <1>1, <1>2 DEF m, n
  <2>2. q[k] = p[i + k - 1] /\ q[k + 1] = p[(i + k - 1) + 1]
    BY <1>3, <2>1
  <2>3. \A h \in 1 .. n - 1 : Edge(p[h], p[h + 1]) \in Links
    BY DEF Paths, n
  <2>4. QED
    BY <2>1, <2>2, <2>3
<1>7. q \in Paths
  BY <1>3, <1>4, <1>5, <1>6 DEF Paths
<1>8. ASSUME NEW k \in 1 .. 2 * m - 1
      PROVE  RouteElements(q)[k] = RouteElements(p)[2 * i - 2 + k]
  <2> DEFINE h == 2 * i - 2 + k
  <2>1. h \in 1 .. (2 * n - 1) /\ h % 2 = k % 2
    BY <1>1, <1>2 DEF m, n
  <2>2. CASE k % 2 = 1
    <3>1. (k + 1) \div 2 \in 1 .. m /\ (h + 1) \div 2 = i + (k + 1) \div 2 - 1
      BY <1>1, <1>2, <2>2 DEF n
    <3>2. RouteElements(q)[k] = q[(k + 1) \div 2]
      BY <1>3, <2>2 DEF RouteElements
    <3>3. RouteElements(p)[h] = p[(h + 1) \div 2]
      BY <2>1, <2>2 DEF RouteElements, n
    <3>4. QED
      BY <1>3, <3>1, <3>2, <3>3
  <2>3. CASE k % 2 # 1
    <3>1. /\ k \div 2 \in 1 .. m /\ k \div 2 + 1 \in 1 .. m
          /\ h \div 2 = i + k \div 2 - 1 /\ h \div 2 + 1 = i + (k \div 2 + 1) - 1
      BY <1>1, <1>2, <2>3 DEF n
    <3>2. RouteElements(q)[k] = Edge(q[k \div 2], q[k \div 2 + 1])
      BY <1>3, <2>3 DEF RouteElements
    <3>3. RouteElements(p)[h] = Edge(p[h \div 2], p[h \div 2 + 1])
      BY <2>1, <2>3 DEF RouteElements, n
    <3>4. QED
      BY <1>3, <3>1, <3>2, <3>3
  <2>4. QED
    BY <2>2, <2>3
<1>9. QED
  BY <1>3, <1>7, <1>8 DEF q, m

\* What a grant is, of a request that is the element list of a path.
LEMMA GrantOfPath ==
    ASSUME NEW l \in LedgerType, NEW v \in Vehicles, NEW p \in Paths
    PROVE  LET r == RouteElements(p)
               g == GrantLen(l, v, r)
               c == NodeCount(Grant(l, v, r))
           IN  /\ g \in 0 .. 2 * Len(p) - 1 /\ c \in 0 .. Len(p)
               /\ g <= 2 * c - 1 \/ g = 0
               /\ c > 0 => g = 2 * c - 1
               /\ Len(Grant(l, v, r)) = g
               /\ \A i \in 1 .. g : Grant(l, v, r)[i] = r[i]
               /\ \A k \in 1 .. Len(p) :
                    (\A i \in 1 .. 2 * k - 1 : l.owner[r[i]] = v) => k <= c
<1> DEFINE r == RouteElements(p)
           n == Len(p)
           g == GrantLen(l, v, r)
           c == NodeCount(Grant(l, v, r))
           lens == {m \in 0 .. Len(r) : /\ \A i \in 1 .. m : FreeFor(l, v, r[i])
                                        /\ m > 0 => r[m] \in Nodes}
<1>1. /\ n \in Nat /\ n >= 1 /\ r \in Seq(Elements) /\ Len(r) = 2 * n - 1
      /\ \A i \in 1 .. n : r[2 * i - 1] = p[i]
      /\ \A i \in 1 .. 2 * n - 1 : r[i] \in Nodes => i % 2 = 1
  BY PathFacts
<1>2. /\ g \in 0 .. Len(r) /\ Len(Grant(l, v, r)) = g
      /\ \A i \in 1 .. g : Grant(l, v, r)[i] = r[i]
      /\ g > 0 => r[g] \in Nodes
  <2> HIDE DEF r
  <2>1. QED
    BY <1>1, GrantProperties
<1>3. c = (g + 1) \div 2
  BY <1>2 DEF NodeCount
<1>4. ASSUME NEW k \in 1 .. n, \A i \in 1 .. 2 * k - 1 : l.owner[r[i]] = v
      PROVE  2 * k - 1 <= g
  <2>1. Len(r) \in Nat /\ lens \in SUBSET (0 .. Len(r))
    BY <1>1
  <2>2. 2 * k - 1 \in lens
    <3>1. p[k] \in Nodes
      BY IndexOfNode
    <3>2. QED
      BY <1>1, <1>4, <3>1 DEF FreeFor
  <2>3. g = Max(lens)
    BY DEF GrantLen
  <2> HIDE DEF lens, g
  <2>4. QED
    BY <2>1, <2>2, <2>3, MaxIsGreatest
<1> HIDE DEF r, g, c, n
<1>5. g = 0 \/ g % 2 = 1
  BY <1>1, <1>2
<1>6. /\ g \in 0 .. 2 * n - 1 /\ c \in 0 .. n
      /\ g <= 2 * c - 1 \/ g = 0
      /\ c > 0 => g = 2 * c - 1
  BY <1>1, <1>2, <1>3, <1>5
<1>7. ASSUME NEW k \in 1 .. n, \A i \in 1 .. 2 * k - 1 : l.owner[r[i]] = v
      PROVE  k <= c
  <2>1. 2 * k - 1 <= g
    BY <1>4, <1>7
  <2>2. QED
    BY <1>1, <1>2, <1>3, <2>1
<1>8. QED
  BY <1>2, <1>6, <1>7 DEF r, g, c, n

-----------------------------------------------------------------------------
(* The invariant, of a book m, a truck's state on, the messages q under    *)
(* way to it, and the state s it sent and nobody has read.                 *)

Bases(leg) == IF leg.pending = None THEN leg.released ELSE leg.pending.released
At(leg)    == IndexOf(leg.path, leg.last)

\* From the place of r[i] in it to its end, the list goes along the route r, as
\* far as r[j] at least.
Seated(held, r, i, j) ==
    \E split \in Int :
        /\ 1 <= split + i /\ split + j <= Len(held) /\ Len(held) <= split + Len(r)
        /\ \A k \in split + i .. Len(held) : held[k] = r[k - split]

Backed(held, leg) ==
    At(leg) <= Bases(leg) =>
        Seated(held, RouteElements(leg.path), 2 * At(leg) - 1, 2 * Bases(leg) - 1)

LegOK(leg) ==
    /\ leg.last \in Range(leg.path)
    /\ leg.released \in 1 .. Len(leg.path)
    /\ leg.pending # None =>
          /\ leg.pending.update = leg.update + 1
          /\ leg.pending.released \in leg.released + 1 .. Len(leg.path)

Orders(q, o)  == {i \in DOMAIN q : q[i].kind = "order" /\ q[i].order = o}
Updates(q, o) == {i \in DOMAIN q : q[i].kind = "update" /\ q[i].order = o}

\* Manager and truck agree on the leg that has the order o, whether the order is
\* under way still or the truck drives it.
Ordered(leg, o, on, q, s) ==
    \A i \in Orders(q, o) :
        /\ q[i].route = leg.path /\ q[i].base = leg.released
        /\ leg.update = 0 /\ leg.last = leg.path[1]
        /\ on.order # o /\ on.refused # o
        /\ s # None => s.order # o /\ s.refused # o
Extended(leg, o, on, q) ==
    on.order = o \/ Orders(q, o) # {} =>
        \A i \in Updates(q, o) :
            /\ leg.pending # None
            /\ q[i].update = leg.pending.update /\ q[i].base = leg.pending.released
Refuses(o, on, s) == on.refused = o \/ (s # None /\ s.refused = o)
Driven(leg, o, on, q, s) ==
    on.order = o =>
        /\ on.route = leg.path /\ (At(leg) = 1 \/ At(leg) <= on.pos)
        /\ \/ on.update = leg.update /\ on.base = leg.released
           \/ /\ leg.pending # None /\ ~Refuses(o, on, s) /\ Updates(q, o) = {}
              /\ on.update = leg.pending.update /\ on.base = leg.pending.released
        /\ Refuses(o, on, s) => leg.pending # None /\ Updates(q, o) = {}
        /\ ~(on.refused = o /\ s # None /\ s.refused = o)
Reported(leg, o, on, s) ==
    s # None /\ s.order = o =>
        /\ s.last # None =>
              /\ s.last \in Range(leg.path) /\ At(leg) <= IndexOf(leg.path, s.last)
              /\ on.order = o => IndexOf(leg.path, s.last) <= on.pos
        /\ on.order = o => s.update <= on.update
InStep(leg, o, on, q, s) ==
    /\ Ordered(leg, o, on, q, s) /\ Extended(leg, o, on, q)
    /\ Driven(leg, o, on, q, s) /\ Reported(leg, o, on, s)

\* What a truck is: it drives what it was told, on a route it was given.
TruckStates ==
    [node : Nodes, order : Ids \cup {None}, update : Nat, route : Seq(Nodes), base : Nat, pos : Nat,
     executing : BOOLEAN, stopping : BOOLEAN, fin : Ids \cup {None}, refused : Ids \cup {None}]
TruckOK(on) ==
    /\ on \in TruckStates
    /\ on.pos <= on.base /\ on.base <= Len(on.route)
    /\ on.order # None =>
          /\ on.route \in Paths /\ 1 <= on.base
          /\ ~on.executing => on.base = Len(on.route)
          /\ on.stopping => on.executing
    /\ on.executing => on.order # None

\* What is under way to it: an order is new to it, and at most one update of an
\* order it knows or is about to know is under way, the next one.
CancelMsg == [kind : {"cancel"}]
OrderMsg  == [kind : {"order"}, order : Ids, route : Paths, base : Nat, action : BOOLEAN]
UpdateMsg == [kind : {"update"}, order : Ids, update : Nat, base : Nat]
Message   == CancelMsg \cup OrderMsg \cup UpdateMsg
WireOK(on, q) ==
    /\ \A i \in DOMAIN q : q[i].kind = "order" =>
          /\ q[i].base \in 1 .. Len(q[i].route)
          /\ on.order # q[i].order
          /\ Orders(q, q[i].order) = {i}
          /\ \A j \in Updates(q, q[i].order) :
                /\ i < j /\ q[j].update = 1
                /\ q[i].base < q[j].base /\ q[j].base <= Len(q[i].route)
    /\ \A o \in Ids : on.order = o \/ Orders(q, o) # {} =>
          \A i, j \in Updates(q, o) : i = j
    /\ \A o \in Ids : on.order = o =>
          \A i \in Updates(q, o) :
              /\ on.executing /\ q[i].update = on.update + 1
              /\ on.base < q[i].base /\ q[i].base <= Len(on.route)

ReportStates ==
    [order : Ids \cup {None}, update : Nat, last : Nodes \cup {None}, over : BOOLEAN,
     node : Nodes, fin : Ids \cup {None}, refused : Ids \cup {None}]

Task(state, by, order, leg) == [state |-> state, by |-> by, order |-> order, leg |-> leg]
States == {"QUEUED", "LEG1", "DWELL", "LEG2", "DONE"}
TaskType == [state : States, by : Trucks \cup {None}, order : Ids \cup {None},
             leg : LegType \cup {None}]
Seen  == [order : Ids \cup {None}, node : Nodes \cup {None}, fin : Ids \cup {None}, fit : BOOLEAN]
Aside == [node : Nodes, order : Ids \cup {None}, seen : BOOLEAN]
Books ==
    [ledger : LedgerType, queue : Seq(Tasks), task : [Tasks -> TaskType],
     seen : [Trucks -> Seen], chase : [Trucks -> Ids \cup {None}],
     aside : [Trucks -> Aside \cup {None}], shuffles : [Trucks -> 0 .. AsideMax],
     sent : [Trucks -> Seq(Message)]]

Shape(task) ==
    /\ task.state = "QUEUED" => task.by = None /\ task.order = None
    /\ task.state # "QUEUED" => task.by \in Trucks
    /\ task.state \in {"LEG1", "DWELL", "LEG2"} => task.order \in Ids
    /\ task.state \in {"LEG1", "LEG2"} <=> task.leg # None

\* What the fields of a book have to do with each other.
Kept(m) ==
    /\ m \in Books
    /\ Consistent(m.ledger)
    /\ Range(m.queue) = Tasks /\ IsInjective(m.queue)

BookOK(m) == Kept(m) /\ \A t \in Tasks : Shape(m.task[t])

Carries(m, v, t) == m.task[t].by = v /\ m.task[t].state # "DONE"
Unladen(m, v)    == \A t \in Tasks : ~Carries(m, v, t)

\* The manager knows where a truck is that it has something for or may assign.
Located(m, v) ==
    /\ m.aside[v] # None => m.ledger.standing[v] \in Nodes
    /\ m.seen[v].fit => m.ledger.standing[v] \in Nodes /\ m.seen[v].node \in Nodes

\* One task at a time, and none while a truck moves out of the way.
Settled(m, v) ==
    /\ \A t, u \in Tasks : Carries(m, v, t) /\ Carries(m, v, u) => t = u
    /\ \A t \in Tasks : Carries(m, v, t) =>
          m.ledger.standing[v] \in Nodes /\ m.aside[v] = None

OnLeg(m, v, on, q, s) ==
    \A t \in Tasks : m.task[t].by = v /\ m.task[t].leg # None =>
        /\ LegOK(m.task[t].leg)
        /\ v \notin m.ledger.yielded => Backed(m.ledger.held[v], m.task[t].leg)
        /\ InStep(m.task[t].leg, m.task[t].order, on, q, s)

\* What a truck is, what is under way to it and what it last said.
Truck(on, q, s) ==
    /\ TruckOK(on) /\ q \in Seq(Message) /\ WireOK(on, q)
    /\ s \in ReportStates \cup {None}

Steady(m, v, on, q, s) == Truck(on, q, s) /\ Settled(m, v) /\ OnLeg(m, v, on, q, s)
Fine(m, v, on, q, s)   == Steady(m, v, on, q, s) /\ Located(m, v)

Sound(m, on, q, s) ==
    BookOK(m) /\ \A v \in Trucks : Fine(m, v, on[v], q[v] \o m.sent[v], s[v])

FleetInv ==
    /\ truck \in [Trucks -> TruckStates]
    /\ wire \in [Trucks -> Seq(Message)]
    /\ report \in [Trucks -> ReportStates \cup {None}]
    /\ Sound(book, truck, wire, report)
    /\ \A v \in Trucks : book.sent[v] = << >>

-----------------------------------------------------------------------------
(* Where a list lies on a route. *)

\* A grant on what is left of a path seats it at the end of the list.
LEMMA HoldSeats ==
    ASSUME NEW l \in LedgerType, Consistent(l), NEW v \in Vehicles,
           NEW p \in Paths, NEW i \in 1 .. Len(p)
    PROVE  LET q == SubSeq(p, i, Len(p))
               c == NodeCount(Grant(l, v, RouteElements(q)))
           IN  /\ OnlyFor(l, Hold(l, v, RouteElements(q)), v)
               /\ Hold(l, v, RouteElements(q)).yielded = l.yielded
               /\ Hold(l, v, RouteElements(q)).standing = l.standing
               /\ c \in 0 .. Len(p) + 1 - i
               /\ Seated(Hold(l, v, RouteElements(q)).held[v], RouteElements(p),
                         2 * i - 1, 2 * (i - 1 + c) - 1)
               /\ \A b \in i .. Len(p) :
                     Seated(l.held[v], RouteElements(p), 2 * i - 1, 2 * b - 1) => b <= i - 1 + c
<1> DEFINE n  == Len(p)
           q  == SubSeq(p, i, n)
           r  == RouteElements(p)
           rq == RouteElements(q)
           g  == GrantLen(l, v, rq)
           c  == NodeCount(Grant(l, v, rq))
           G  == Grant(l, v, rq)
           W  == Without(l.held[v], Range(G))
           h  == W \o G
           w  == Len(W)
           split == w - (2 * i - 2)
<1>1. /\ n \in Nat /\ n >= 1 /\ Len(r) = 2 * n - 1 /\ r \in Seq(Elements) /\ IsInjective(r)
      /\ i \in 1 .. n
  BY PathFacts
<1>2. /\ q \in Paths /\ Len(q) = n - i + 1
      /\ \A k \in 1 .. 2 * (n - i + 1) - 1 : rq[k] = r[2 * i - 2 + k]
  <2>1. n \in i .. n
    BY <1>1
  <2>2. QED
    BY <1>1, <2>1, RestFacts
<1>3. /\ g \in 0 .. 2 * Len(q) - 1 /\ c \in 0 .. Len(q)
      /\ g <= 2 * c - 1 \/ g = 0
      /\ c > 0 => g = 2 * c - 1
      /\ Len(G) = g
      /\ \A k \in 1 .. g : G[k] = rq[k]
      /\ \A k \in 1 .. Len(q) : (\A a \in 1 .. 2 * k - 1 : l.owner[rq[a]] = v) => k <= c
  BY <1>2, GrantOfPath
<1>4. rq \in Seq(Elements) /\ IsInjective(rq)
  BY <1>2, PathFacts
<1>5. /\ OnlyFor(l, Hold(l, v, rq), v) /\ Hold(l, v, rq).held[v] = h
      /\ Hold(l, v, rq).yielded = l.yielded /\ Hold(l, v, rq).standing = l.standing
  BY <1>4, HoldOnly
<1>6. /\ W \in Seq(Elements) /\ G \in Seq(Elements) /\ w \in Nat
      /\ Len(h) = w + g /\ \A k \in 1 .. g : h[w + k] = G[k]
  <2>1. l.held[v] \in Seq(Elements)
    BY LedgerFields
  <2>2. W \in Seq(Elements) /\ G \in Seq(Elements)
    BY <1>4, <2>1, WithoutProperties, GrantProperties
  <2> HIDE DEF W, G
  <2>3. w \in Nat /\ Len(G) \in Nat
    BY <2>2, LenProperties
  <2>4. /\ Len(W \o G) = w + Len(G)
        /\ \A k \in 1 .. w + Len(G) : (W \o G)[k] = IF k <= w THEN W[k] ELSE G[k - w]
    BY <2>2, <2>3, ConcatProperties
  <2>5. Len(G) = g /\ g \in Nat
    BY <1>3, <2>3
  <2> HIDE DEF g
  <2>6. ASSUME NEW k \in 1 .. g PROVE h[w + k] = G[k]
    <3>1. w + k \in 1 .. w + g /\ ~(w + k <= w) /\ w + k - w = k
      BY <2>3, <2>5
    <3>2. QED
      BY <2>4, <2>5, <3>1
  <2>7. QED
    BY <2>2, <2>3, <2>4, <2>5, <2>6
<1>7. Seated(h, r, 2 * i - 1, 2 * (i - 1 + c) - 1)
  <2> HIDE DEF W, G, h, w, n, q, r, rq, g, c
  <2>1. split \in Int /\ split + (2 * i - 1) = w + 1
    BY <1>1, <1>6
  <2>2. 1 <= split + (2 * i - 1) /\ split + (2 * (i - 1 + c) - 1) <= Len(h)
        /\ Len(h) <= split + Len(r)
    BY <1>1, <1>2, <1>3, <1>6
  <2>3. ASSUME NEW k \in split + (2 * i - 1) .. Len(h) PROVE h[k] = r[k - split]
    <3>1. k - w \in 1 .. g /\ k = w + (k - w) /\ 2 * i - 2 + (k - w) = k - split
          /\ k - w \in 1 .. 2 * (n - i + 1) - 1
      BY <1>1, <1>2, <1>3, <1>6, <2>1, <2>3
    <3>2. h[w + (k - w)] = rq[k - w] /\ rq[k - w] = r[2 * i - 2 + (k - w)]
      BY <1>2, <1>3, <1>6, <3>1
    <3>3. QED
      BY <3>1, <3>2
  <2> HIDE DEF split
  <2>4. QED
    BY <2>1, <2>2, <2>3 DEF Seated
<1>8. ASSUME NEW b \in i .. n, Seated(l.held[v], r, 2 * i - 1, 2 * b - 1)
      PROVE  b <= i - 1 + c
  <2>1. PICK s \in Int : /\ 1 <= s + (2 * i - 1) /\ s + (2 * b - 1) <= Len(l.held[v])
                         /\ \A k \in s + (2 * i - 1) .. Len(l.held[v]) : l.held[v][k] = r[k - s]
    BY <1>8 DEF Seated
  <2>2. l.held[v] \in Seq(Elements) /\ Len(l.held[v]) \in Nat
        /\ DOMAIN l.held[v] = 1 .. Len(l.held[v])
    BY LedgerFields, LenProperties
  <2>3. ASSUME NEW a \in 1 .. 2 * (b - i + 1) - 1 PROVE l.owner[rq[a]] = v
    <3> DEFINE k == s + (2 * i - 2) + a
    <3>1. k \in s + (2 * i - 1) .. Len(l.held[v]) /\ k \in 1 .. Len(l.held[v])
          /\ k - s = 2 * i - 2 + a /\ a \in 1 .. 2 * (n - i + 1) - 1
      BY <1>1, <2>1, <2>2, SMTT(40)
    <3>2. l.held[v][k] = rq[a]
      <4> HIDE DEF k, r, rq
      <4>1. QED
        BY <1>2, <2>1, <3>1
    <3>3. l.held[v][k] \in OwnedBy(l, v)
      BY <2>2, <3>1 DEF Consistent, Range
    <3>4. QED
      BY <3>2, <3>3 DEF OwnedBy
  <2>4. b - i + 1 \in 1 .. Len(q)
    BY <1>1, <1>2
  <2>5. b - i + 1 <= c
    <3> HIDE DEF q, rq, c
    <3>1. QED
      BY <1>3, <2>3, <2>4
  <2>6. QED
    BY <1>1, <1>3, <2>5
<1>9. c \in 0 .. n + 1 - i
  BY <1>1, <1>2, <1>3
<1>10. QED
  BY <1>5, <1>7, <1>8, <1>9

\* What lies ahead on the route stays in the list when floor up to a node at or
\* before the truck goes back.
LEMMA ReleaseKeepsSeat ==
    ASSUME NEW l \in LedgerType, Consistent(l), NEW v \in Vehicles, NEW p \in Paths,
           NEW i \in 1 .. Len(p), NEW b \in 1 .. Len(p), NEW i2 \in i .. Len(p),
           NEW c \in 1 .. i2, i2 <= b,
           Seated(l.held[v], RouteElements(p), 2 * i - 1, 2 * b - 1)
    PROVE  Seated(ReleaseThrough(l, v, p[c]).held[v], RouteElements(p), 2 * i2 - 1, 2 * b - 1)
<1> DEFINE n == Len(p)
           r == RouteElements(p)
           h == l.held[v]
           node == p[c]
<1>1. /\ n \in Nat /\ n >= 1 /\ Len(r) = 2 * n - 1 /\ DOMAIN r = 1 .. 2 * n - 1
      /\ IsInjective(r)
      /\ c \in 1 .. n /\ r[2 * c - 1] = node
  <2>1. n \in Nat /\ n >= 1 /\ Len(r) = 2 * n - 1 /\ r \in Seq(Elements)
        /\ IsInjective(r) /\ \A k \in 1 .. n : r[2 * k - 1] = p[k]
    BY PathFacts
  <2>2. c \in 1 .. n
    BY <2>1
  <2>3. DOMAIN r = 1 .. 2 * n - 1
    BY <2>1, LenProperties
  <2>4. QED
    BY <2>1, <2>2, <2>3
<1>2. h \in Seq(Elements) /\ Len(h) \in Nat /\ DOMAIN h = 1 .. Len(h)
  BY LedgerFields, LenProperties
<1>3. PICK s \in Int : /\ 1 <= s + (2 * i - 1) /\ s + (2 * b - 1) <= Len(h) /\ Len(h) <= s + Len(r)
                       /\ \A k \in s + (2 * i - 1) .. Len(h) : h[k] = r[k - s]
  BY DEF Seated
<1> HIDE DEF n, r, h, node
<1>4. CASE node \notin Range(h)
  <2>1. ReleaseThrough(l, v, node).held[v] = h
    BY <1>4, ReleaseThroughOnly DEF h
  <2>2. 1 <= s + (2 * i2 - 1) /\ \A k \in s + (2 * i2 - 1) .. Len(h) : h[k] = r[k - s]
    BY <1>1, <1>2, <1>3, SMTT(40) DEF n
  <2>3. Seated(h, r, 2 * i2 - 1, 2 * b - 1)
    BY <1>3, <2>2 DEF Seated
  <2>4. QED
    BY <2>1, <2>3 DEF r, node
<1>5. CASE node \in Range(h)
  <2>1. PICK cut \in 1 .. Len(h) : h[cut] = node
    BY <1>2, <1>5 DEF Range
  <2>2. ReleaseThrough(l, v, node).held[v] = SubSeq(h, cut, Len(h))
    BY <1>2, <2>1, ReleaseThroughOnly DEF h
  <2>3. cut <= s + (2 * i2 - 1)
    <3>1. SUFFICES ASSUME cut > s + (2 * i2 - 1) PROVE FALSE
      BY <1>1, <2>1, SMTT(40) DEF n
    <3>2. cut \in s + (2 * i - 1) .. Len(h) /\ cut - s \in 1 .. 2 * n - 1 /\ cut - s > 2 * i2 - 1
      BY <1>1, <1>2, <1>3, <2>1, <3>1, SMTT(40) DEF n
    <3>3. r[cut - s] = r[2 * c - 1]
      BY <1>1, <1>3, <2>1, <3>2
    <3>4. 2 * c - 1 \in 1 .. 2 * n - 1 /\ 2 * c - 1 <= 2 * i2 - 1
      BY <1>1 DEF n
    <3>5. cut - s = 2 * c - 1
      BY <1>1, <3>2, <3>3, <3>4 DEF IsInjective
    <3>6. QED
      BY <3>2, <3>4, <3>5
  <2> DEFINE h2 == SubSeq(h, cut, Len(h))
             s2 == s - cut + 1
  <2>4. Len(h2) = Len(h) - cut + 1 /\ \A k \in 1 .. Len(h) - cut + 1 : h2[k] = h[cut + k - 1]
    <3>1. \A k \in cut .. Len(h) : h[k] \in Elements
      BY <1>2, <2>1, ElementOfSeq
    <3>2. QED
      BY <1>2, <2>1, <3>1, SubSeqProperties, SMTT(40)
  <2> HIDE DEF h2
  <2>5. s2 \in Int /\ 1 <= s2 + (2 * i2 - 1) /\ s2 + (2 * b - 1) <= Len(h2)
        /\ Len(h2) <= s2 + Len(r)
    BY <1>1, <1>2, <1>3, <2>1, <2>3, <2>4, SMTT(40) DEF n
  <2>6. ASSUME NEW k \in s2 + (2 * i2 - 1) .. Len(h2) PROVE h2[k] = r[k - s2]
    <3>1. k \in 1 .. Len(h) - cut + 1 /\ cut + k - 1 \in s + (2 * i - 1) .. Len(h)
          /\ (cut + k - 1) - s = k - s2
      BY <1>1, <1>2, <1>3, <2>1, <2>3, <2>4, <2>5 DEF n
    <3>2. QED
      BY <1>3, <2>4, <3>1
  <2> HIDE DEF s2
  <2>7. Seated(h2, r, 2 * i2 - 1, 2 * b - 1)
    BY <2>5, <2>6 DEF Seated
  <2>8. QED
    BY <2>2, <2>7 DEF h2, r, node
<1>6. QED
  BY <1>4, <1>5

\* Floor the list is seated on is the vehicle's own.
LEMMA SeatedIsOwned ==
    ASSUME NEW l \in LedgerType, Consistent(l), NEW v \in Vehicles, NEW p \in Paths,
           NEW i \in 1 .. Len(p), NEW b \in 1 .. Len(p),
           i <= b => Seated(l.held[v], RouteElements(p), 2 * i - 1, 2 * b - 1),
           NEW i2 \in i .. Len(p), NEW b2 \in 0 .. b
    PROVE  FloorOf(p, i2, b2) \subseteq OwnedBy(l, v)
<1> DEFINE n == Len(p)
           r == RouteElements(p)
           h == l.held[v]
<1>1. n \in Nat
  BY PathFacts
<1>2. CASE i2 > b2
  <2>1. SubSeq(p, i2, b2) = << >>
    BY <1>1, <1>2, SubSeqEmpty
  <2>2. Len(<< >>) = 0
    BY EmptySeq
  <2>3. DOMAIN RouteElements(<< >>) = 1 .. (2 * 0 - 1)
    BY <2>2 DEF RouteElements
  <2>4. 1 .. (2 * 0 - 1) = {}
    OBVIOUS
  <2>5. QED
    BY <2>1, <2>3, <2>4 DEF FloorOf, Range
<1>3. CASE i2 <= b2
  <2>1. i <= b /\ i2 \in 1 .. n /\ b2 \in i2 .. n
    BY <1>1, <1>3
  <2>2. SubSeq(p, i2, b2) \in Paths /\ Len(SubSeq(p, i2, b2)) = b2 - i2 + 1
        /\ \A k \in 1 .. 2 * (b2 - i2 + 1) - 1 :
              RouteElements(SubSeq(p, i2, b2))[k] = r[2 * i2 - 2 + k]
    BY <2>1, RestFacts
  <2>3. DOMAIN RouteElements(SubSeq(p, i2, b2)) = 1 .. 2 * (b2 - i2 + 1) - 1
    BY <2>2 DEF RouteElements
  <2>4. PICK s \in Int : /\ 1 <= s + (2 * i - 1) /\ s + (2 * b - 1) <= Len(h)
                         /\ \A k \in s + (2 * i - 1) .. Len(h) : h[k] = r[k - s]
    BY <2>1 DEF Seated
  <2>5. h \in Seq(Elements) /\ Len(h) \in Nat /\ DOMAIN h = 1 .. Len(h)
    BY LedgerFields, LenProperties
  <2> HIDE DEF r, h
  <2>6. ASSUME NEW k \in 1 .. 2 * (b2 - i2 + 1) - 1 PROVE r[2 * i2 - 2 + k] \in Range(h)
    <3> DEFINE x == s + (2 * i2 - 2 + k)
    <3>1. x \in s + (2 * i - 1) .. Len(h) /\ x \in 1 .. Len(h) /\ x - s = 2 * i2 - 2 + k
      BY <1>1, <2>1, <2>4, <2>5
    <3> HIDE DEF x
    <3>2. h[x] = r[2 * i2 - 2 + k]
      BY <2>4, <3>1
    <3>3. QED
      BY <2>5, <3>1, <3>2 DEF Range
  <2>7. Range(RouteElements(SubSeq(p, i2, b2))) \subseteq Range(h)
    <3> DEFINE rs == RouteElements(SubSeq(p, i2, b2))
    <3>1. DOMAIN rs = 1 .. 2 * (b2 - i2 + 1) - 1
          /\ \A k \in 1 .. 2 * (b2 - i2 + 1) - 1 : rs[k] \in Range(h)
      BY <2>2, <2>3, <2>6
    <3> HIDE DEF rs
    <3>2. Range(rs) \subseteq Range(h)
      BY <3>1 DEF Range
    <3>3. QED
      BY <3>2 DEF rs
  <2>8. QED
    BY <2>7 DEF FloorOf, Consistent, h
<1>4. QED
  BY <1>1, <1>2, <1>3

-----------------------------------------------------------------------------
(* Books. *)

Book(ledger, queue, task, seen, chase, aside, shuffles, sent) ==
    [ledger |-> ledger, queue |-> queue, task |-> task, seen |-> seen, chase |-> chase,
     aside |-> aside, shuffles |-> shuffles, sent |-> sent]

LEMMA BookFields ==
    ASSUME NEW a, NEW b, NEW c, NEW d, NEW e, NEW f, NEW g, NEW h,
           NEW n, n = Book(a, b, c, d, e, f, g, h)
    PROVE  /\ n.ledger = a /\ n.queue = b /\ n.task = c /\ n.seen = d
           /\ n.chase = e /\ n.aside = f /\ n.shuffles = g /\ n.sent = h
BY DEF Book

LEMMA BookTypes ==
    ASSUME NEW m \in Books
    PROVE  /\ m = Book(m.ledger, m.queue, m.task, m.seen, m.chase, m.aside, m.shuffles, m.sent)
           /\ m.ledger \in LedgerType /\ m.queue \in Seq(Tasks) /\ m.task \in [Tasks -> TaskType]
           /\ m.seen \in [Trucks -> Seen] /\ m.chase \in [Trucks -> Ids \cup {None}]
           /\ m.aside \in [Trucks -> Aside \cup {None}]
           /\ m.shuffles \in [Trucks -> 0 .. AsideMax]
           /\ m.sent \in [Trucks -> Seq(Message)]
BY DEF Books, Book

LEMMA BookOfFields ==
    ASSUME NEW n,
           n = Book(n.ledger, n.queue, n.task, n.seen, n.chase, n.aside, n.shuffles, n.sent),
           n.ledger \in LedgerType, n.queue \in Seq(Tasks), n.task \in [Tasks -> TaskType],
           n.seen \in [Trucks -> Seen], n.chase \in [Trucks -> Ids \cup {None}],
           n.aside \in [Trucks -> Aside \cup {None}],
           n.shuffles \in [Trucks -> 0 .. AsideMax], n.sent \in [Trucks -> Seq(Message)]
    PROVE  n \in Books
BY DEF Books, Book

\* Each assignment to a book.
LEMMA BookUpdates ==
    ASSUME NEW m \in Books, NEW x
    PROVE  /\ [m EXCEPT !.ledger = x] =
                 Book(x, m.queue, m.task, m.seen, m.chase, m.aside, m.shuffles, m.sent)
           /\ [m EXCEPT !.queue = x] =
                 Book(m.ledger, x, m.task, m.seen, m.chase, m.aside, m.shuffles, m.sent)
           /\ [m EXCEPT !.task = x] =
                 Book(m.ledger, m.queue, x, m.seen, m.chase, m.aside, m.shuffles, m.sent)
           /\ [m EXCEPT !.seen = x] =
                 Book(m.ledger, m.queue, m.task, x, m.chase, m.aside, m.shuffles, m.sent)
           /\ [m EXCEPT !.chase = x] =
                 Book(m.ledger, m.queue, m.task, m.seen, x, m.aside, m.shuffles, m.sent)
           /\ [m EXCEPT !.aside = x] =
                 Book(m.ledger, m.queue, m.task, m.seen, m.chase, x, m.shuffles, m.sent)
           /\ [m EXCEPT !.shuffles = x] =
                 Book(m.ledger, m.queue, m.task, m.seen, m.chase, m.aside, x, m.sent)
           /\ [m EXCEPT !.sent = x] =
                 Book(m.ledger, m.queue, m.task, m.seen, m.chase, m.aside, m.shuffles, x)
<1>1. m = [ledger |-> m.ledger, queue |-> m.queue, task |-> m.task, seen |-> m.seen,
           chase |-> m.chase, aside |-> m.aside, shuffles |-> m.shuffles, sent |-> m.sent]
  BY DEF Books
<1>2. [m EXCEPT !.ledger = x] =
         Book(x, m.queue, m.task, m.seen, m.chase, m.aside, m.shuffles, m.sent)
  BY <1>1 DEF Book
<1>3. [m EXCEPT !.queue = x] =
         Book(m.ledger, x, m.task, m.seen, m.chase, m.aside, m.shuffles, m.sent)
  BY <1>1 DEF Book
<1>4. [m EXCEPT !.task = x] =
         Book(m.ledger, m.queue, x, m.seen, m.chase, m.aside, m.shuffles, m.sent)
  BY <1>1 DEF Book
<1>5. [m EXCEPT !.seen = x] =
         Book(m.ledger, m.queue, m.task, x, m.chase, m.aside, m.shuffles, m.sent)
  BY <1>1 DEF Book
<1>6. [m EXCEPT !.chase = x] =
         Book(m.ledger, m.queue, m.task, m.seen, x, m.aside, m.shuffles, m.sent)
  BY <1>1 DEF Book
<1>7. [m EXCEPT !.aside = x] =
         Book(m.ledger, m.queue, m.task, m.seen, m.chase, x, m.shuffles, m.sent)
  BY <1>1 DEF Book
<1>8. [m EXCEPT !.shuffles = x] =
         Book(m.ledger, m.queue, m.task, m.seen, m.chase, m.aside, x, m.sent)
  BY <1>1 DEF Book
<1>9. [m EXCEPT !.sent = x] =
         Book(m.ledger, m.queue, m.task, m.seen, m.chase, m.aside, m.shuffles, x)
  BY <1>1 DEF Book
<1>10. QED
  BY <1>2, <1>3, <1>4, <1>5, <1>6, <1>7, <1>8, <1>9

LEMMA TaskFields ==
    ASSUME NEW x \in TaskType
    PROVE  /\ x = Task(x.state, x.by, x.order, x.leg)
           /\ x.state \in States /\ x.by \in Trucks \cup {None}
           /\ x.order \in Ids \cup {None} /\ x.leg \in LegType \cup {None}
BY DEF TaskType, Task

LEMMA TaskOfFields ==
    ASSUME NEW a \in States, NEW b \in Trucks \cup {None}, NEW c \in Ids \cup {None},
           NEW d \in LegType \cup {None}, NEW x, x = Task(a, b, c, d)
    PROVE  x \in TaskType /\ x.state = a /\ x.by = b /\ x.order = c /\ x.leg = d
BY DEF TaskType, Task

LEMMA LegFields ==
    ASSUME NEW x \in LegType
    PROVE  /\ x.path \in Paths /\ x.released \in Nat /\ x.update \in Nat
           /\ x.pending \in Extension \cup {None} /\ x.last \in Nodes
           /\ x # None
           /\ x = [path |-> x.path, released |-> x.released, update |-> x.update,
                   pending |-> x.pending, last |-> x.last]
<1>1. x # None
  BY FloorConstants
<1>2. QED
  BY <1>1 DEF LegType

\* None is none of them.
LEMMA Nones ==
    /\ None \notin Trucks /\ None \notin Tasks /\ None \notin Ids /\ None \notin Nodes
    /\ None \notin LegType /\ None \notin Extension
<1>1. /\ None \notin Nat \cup Tasks \cup Extension \cup LegType
      /\ Ids \subseteq Nat
  BY FloorConstants
<1>2. None \notin Ids /\ None \notin Tasks
  BY <1>1
<1>3. None \notin LegType /\ None \notin Extension
  BY <1>1
<1>4. None \notin Trucks /\ None \notin Nodes
  BY FloorAssumption DEF Trucks
<1>5. QED
  BY <1>2, <1>3, <1>4

LEMMA AsideFields ==
    ASSUME NEW x \in Aside
    PROVE  x.node \in Nodes /\ x.order \in Ids \cup {None} /\ x.seen \in BOOLEAN
BY DEF Aside

-----------------------------------------------------------------------------
(* What a call that is about one truck leaves alone. *)

Same(m, n, u) ==
    /\ n.ledger.held[u] = m.ledger.held[u]
    /\ u \in n.ledger.yielded <=> u \in m.ledger.yielded
    /\ n.ledger.standing[u] = m.ledger.standing[u]
    /\ n.aside[u] = m.aside[u] /\ n.seen[u] = m.seen[u] /\ n.sent[u] = m.sent[u]
    /\ \A t \in Tasks : n.task[t] # m.task[t] => m.task[t].by # u /\ n.task[t].by # u

Others(m, n, v) == \A u \in Trucks \ {v} : Same(m, n, u)

LEMMA OthersTransitive ==
    ASSUME NEW m, NEW n, NEW k, NEW v, Others(m, n, v), Others(n, k, v)
    PROVE  Others(m, k, v)
BY DEF Others, Same

LEMMA SameIsFine ==
    ASSUME NEW m, NEW n, NEW u, Same(m, n, u), NEW on, NEW q, NEW s, Fine(m, u, on, q, s)
    PROVE  Fine(n, u, on, q, s)
<1>1. \A t \in Tasks : n.task[t].by = u \/ m.task[t].by = u => n.task[t] = m.task[t]
  BY DEF Same
<1>2. Settled(n, u) /\ Located(n, u)
  BY <1>1 DEF Same, Fine, Steady, Settled, Located, Carries
<1>3. OnLeg(n, u, on, q, s)
  BY <1>1 DEF Same, Fine, Steady, OnLeg
<1>4. QED
  BY <1>2, <1>3 DEF Fine, Steady

\* A call about v that leaves v's affairs in order leaves everything in order.
LEMMA SoundAfter ==
    ASSUME NEW m, NEW on, NEW q, NEW s, Sound(m, on, q, s),
           NEW v \in Trucks, NEW n, BookOK(n), Others(m, n, v),
           Fine(n, v, on[v], q[v] \o n.sent[v], s[v])
    PROVE  Sound(n, on, q, s)
<1>1. ASSUME NEW u \in Trucks \ {v} PROVE Fine(n, u, on[u], q[u] \o n.sent[u], s[u])
  <2>1. Same(m, n, u) /\ n.sent[u] = m.sent[u]
    BY DEF Others, Same
  <2>2. Fine(m, u, on[u], q[u] \o n.sent[u], s[u])
    BY <2>1 DEF Sound
  <2>3. QED
    BY <2>1, <2>2, SameIsFine
<1>2. QED
  BY <1>1 DEF Sound

\* The task of a truck.
LEMMA TaskOfFacts ==
    ASSUME NEW m, NEW v, Settled(m, v)
    PROVE  /\ TaskOf(m, v) = None => Unladen(m, v)
           /\ TaskOf(m, v) # None => TaskOf(m, v) \in Tasks /\ Carries(m, v, TaskOf(m, v))
           /\ \A t \in Tasks : Carries(m, v, t) => TaskOf(m, v) = t
<1> DEFINE mine == {t \in Tasks : m.task[t].by = v /\ m.task[t].state # "DONE"}
<1>1. mine = {t \in Tasks : Carries(m, v, t)}
  BY DEF Carries
<1>2. CASE mine = {}
  BY <1>1, <1>2 DEF TaskOf, Unladen
<1>3. CASE mine # {}
  <2>1. TaskOf(m, v) = (CHOOSE t \in mine : TRUE)
    BY <1>3 DEF TaskOf
  <2>2. TaskOf(m, v) \in mine
    BY <1>3, <2>1
  <2>3. QED
    BY <1>1, <2>2, Nones DEF Settled
<1>4. QED
  BY <1>2, <1>3

LEMMA UnladenHasNoLeg ==
    ASSUME NEW m, BookOK(m), NEW v, Unladen(m, v), NEW t \in Tasks, m.task[t].by = v
    PROVE  m.task[t].leg = None
<1>1. m.task[t].state = "DONE"
  BY DEF Unladen, Carries
<1>2. QED
  BY <1>1 DEF BookOK, Shape

LEMMA UnladenIsFine ==
    ASSUME NEW m, BookOK(m), NEW v, Unladen(m, v), Located(m, v),
           NEW on, NEW q, NEW s, Truck(on, q, s)
    PROVE  Fine(m, v, on, q, s)
BY UnladenHasNoLeg DEF Fine, Steady, Settled, OnLeg, Unladen

USE DEF Trucks

LEMMA KeptBook ==
    ASSUME NEW m, Kept(m), NEW n,
           n = Book(n.ledger, m.queue, n.task, n.seen, n.chase, n.aside, n.shuffles, n.sent),
           n.ledger \in LedgerType, Consistent(n.ledger), n.queue = m.queue,
           n.task \in [Tasks -> TaskType],
           n.seen \in [Trucks -> Seen], n.chase \in [Trucks -> Ids \cup {None}],
           n.aside \in [Trucks -> Aside \cup {None}],
           n.shuffles \in [Trucks -> 0 .. AsideMax], n.sent \in [Trucks -> Seq(Message)]
    PROVE  Kept(n)
<1>1. m.queue \in Seq(Tasks) /\ Range(m.queue) = Tasks /\ IsInjective(m.queue)
  BY BookTypes DEF Kept
<1>2. n \in Books
  BY <1>1, BookOfFields
<1>3. QED
  BY <1>1, <1>2 DEF Kept

LEMMA OthersByFields ==
    ASSUME NEW m, NEW n, NEW v,
           m.ledger = n.ledger \/ OnlyFor(m.ledger, n.ledger, v),
           \A u \in Trucks \ {v} : /\ n.aside[u] = m.aside[u] /\ n.seen[u] = m.seen[u]
                                   /\ n.sent[u] = m.sent[u],
           \A t \in Tasks : n.task[t] # m.task[t] =>
                m.task[t].by \in {v, None} /\ n.task[t].by \in {v, None}
    PROVE  Others(m, n, v)
BY Nones DEF Others, Same, OnlyFor

\* A call to the ledger.
LEMMA LedgerCall ==
    ASSUME NEW m, Kept(m), NEW v \in Trucks, NEW k, OnlyFor(m.ledger, k, v),
           NEW n, n = [m EXCEPT !.ledger = k]
    PROVE  /\ Kept(n) /\ Others(m, n, v)
           /\ n.ledger = k /\ n.queue = m.queue /\ n.task = m.task /\ n.seen = m.seen
           /\ n.chase = m.chase /\ n.aside = m.aside /\ n.shuffles = m.shuffles /\ n.sent = m.sent
           /\ (BookOK(m) => BookOK(n))
<1>1. /\ m \in Books
      /\ m = Book(m.ledger, m.queue, m.task, m.seen, m.chase, m.aside, m.shuffles, m.sent)
  BY BookTypes DEF Kept
<1>2. n = Book(k, m.queue, m.task, m.seen, m.chase, m.aside, m.shuffles, m.sent)
  BY <1>1, BookUpdates
<1>3. /\ n.ledger = k /\ n.queue = m.queue /\ n.task = m.task /\ n.seen = m.seen
      /\ n.chase = m.chase /\ n.aside = m.aside /\ n.shuffles = m.shuffles /\ n.sent = m.sent
  BY <1>2 DEF Book
<1>4. k \in LedgerType /\ Consistent(k)
  BY DEF OnlyFor
<1>5. Kept(n)
  BY <1>1, <1>2, <1>3, <1>4, BookTypes, KeptBook, ZenonT(60)
<1>6. Others(m, n, v)
  BY <1>3, OthersByFields
<1>7. QED
  BY <1>3, <1>5, <1>6 DEF BookOK

LEMMA ReleaseCall ==
    ASSUME NEW m, Kept(m), NEW v \in Trucks, NEW n, n = Release(m, v)
    PROVE  /\ Kept(n) /\ Others(m, n, v)
           /\ n.ledger.standing = m.ledger.standing /\ OnlyFor(m.ledger, n.ledger, v)
           /\ n.queue = m.queue /\ n.task = m.task /\ n.seen = m.seen
           /\ n.chase = m.chase /\ n.aside = m.aside /\ n.shuffles = m.shuffles /\ n.sent = m.sent
           /\ (BookOK(m) => BookOK(n))
<1> DEFINE l == m.ledger
           k == ReleaseAll(l, v, l.standing[v])
           j == ClearYield(k, v)
<1>1. l \in LedgerType /\ Consistent(l) /\ l.standing[v] \in Nodes \cup {None}
  BY BookTypes, LedgerFields DEF Kept
<1>2. OnlyFor(l, k, v) /\ k.standing = l.standing
  BY <1>1, ReleaseAllOnly
<1>3. OnlyFor(k, j, v) /\ j.standing = k.standing
  <2> HIDE DEF k
  <2>1. k \in LedgerType /\ Consistent(k)
    BY <1>2 DEF OnlyFor
  <2>2. QED
    BY <2>1, ClearYieldOnly
<1>4. OnlyFor(l, j, v) /\ j.standing = l.standing
  BY <1>2, <1>3, OnlyForTransitive
<1>5. n = [m EXCEPT !.ledger = j]
  BY DEF Release, Stands
<1> HIDE DEF j, k
<1>6. QED
  BY <1>4, <1>5, LedgerCall

\* A message handed to the broker.
LEMMA SendCall ==
    ASSUME NEW m, Kept(m), NEW v \in Trucks, NEW msg \in Message, NEW n, n = Send(m, v, msg)
    PROVE  /\ Kept(n) /\ Others(m, n, v)
           /\ n.ledger = m.ledger /\ n.queue = m.queue /\ n.task = m.task /\ n.seen = m.seen
           /\ n.chase = m.chase /\ n.aside = m.aside /\ n.shuffles = m.shuffles
           /\ n.sent[v] = Append(m.sent[v], msg)
           /\ (BookOK(m) => BookOK(n))
<1> DEFINE sent == [m.sent EXCEPT ![v] = Append(@, msg)]
<1>1. /\ m \in Books /\ m.sent \in [Trucks -> Seq(Message)]
      /\ m = Book(m.ledger, m.queue, m.task, m.seen, m.chase, m.aside, m.shuffles, m.sent)
  BY BookTypes DEF Kept
<1>2. n = [m EXCEPT !.sent = sent]
  BY DEF Send
<1>3. sent \in [Trucks -> Seq(Message)] /\ sent[v] = Append(m.sent[v], msg)
      /\ \A u \in Trucks \ {v} : sent[u] = m.sent[u]
  <2>1. Append(m.sent[v], msg) \in Seq(Message)
    BY <1>1, AppendProperties
  <2>2. QED
    BY <1>1, <2>1
<1> HIDE DEF sent
<1>4. n = Book(m.ledger, m.queue, m.task, m.seen, m.chase, m.aside, m.shuffles, sent)
  BY <1>1, <1>2, BookUpdates
<1>5. /\ n.ledger = m.ledger /\ n.queue = m.queue /\ n.task = m.task /\ n.seen = m.seen
      /\ n.chase = m.chase /\ n.aside = m.aside /\ n.shuffles = m.shuffles /\ n.sent = sent
  BY <1>4 DEF Book
<1>6. Kept(n)
  <2>1. /\ m.ledger \in LedgerType /\ Consistent(m.ledger)
        /\ m.task \in [Tasks -> TaskType]
        /\ m.seen \in [Trucks -> Seen] /\ m.chase \in [Trucks -> Ids \cup {None}]
        /\ m.aside \in [Trucks -> Aside \cup {None}]
        /\ m.shuffles \in [Trucks -> 0 .. AsideMax] /\ m.sent \in [Trucks -> Seq(Message)]
    BY <1>1, BookTypes DEF Kept
  <2>2. n = Book(n.ledger, m.queue, n.task, n.seen, n.chase, n.aside, n.shuffles, n.sent)
    BY <1>4, <1>5
  <2>3. QED
    BY <1>3, <1>5, <2>1, <2>2, KeptBook
<1>7. Others(m, n, v)
  BY <1>3, <1>5, OthersByFields
<1>8. QED
  BY <1>3, <1>5, <1>6, <1>7 DEF BookOK

LEMMA ChaseCall ==
    ASSUME NEW m, Kept(m), NEW v \in Trucks, NEW o \in Ids \cup {None},
           NEW n, n = [m EXCEPT !.chase[v] = o]
    PROVE  /\ Kept(n) /\ Others(m, n, v)
           /\ n.ledger = m.ledger /\ n.queue = m.queue /\ n.task = m.task /\ n.seen = m.seen
           /\ n.aside = m.aside /\ n.shuffles = m.shuffles /\ n.sent = m.sent
           /\ (BookOK(m) => BookOK(n))
<1> DEFINE chase == [m.chase EXCEPT ![v] = o]
<1>1. /\ m \in Books /\ m.chase \in [Trucks -> Ids \cup {None}]
      /\ m = Book(m.ledger, m.queue, m.task, m.seen, m.chase, m.aside, m.shuffles, m.sent)
  BY BookTypes DEF Kept
<1>2. n = [m EXCEPT !.chase = chase]
  OBVIOUS
<1>3. chase \in [Trucks -> Ids \cup {None}]
  BY <1>1
<1> HIDE DEF chase
<1>4. n = Book(m.ledger, m.queue, m.task, m.seen, chase, m.aside, m.shuffles, m.sent)
  BY <1>1, <1>2, BookUpdates
<1>5. /\ n.ledger = m.ledger /\ n.queue = m.queue /\ n.task = m.task /\ n.seen = m.seen
      /\ n.aside = m.aside /\ n.shuffles = m.shuffles /\ n.sent = m.sent /\ n.chase = chase
  BY <1>4 DEF Book
<1>6. Kept(n)
  <2>1. /\ m.ledger \in LedgerType /\ Consistent(m.ledger)
        /\ m.task \in [Tasks -> TaskType]
        /\ m.seen \in [Trucks -> Seen] /\ m.chase \in [Trucks -> Ids \cup {None}]
        /\ m.aside \in [Trucks -> Aside \cup {None}]
        /\ m.shuffles \in [Trucks -> 0 .. AsideMax] /\ m.sent \in [Trucks -> Seq(Message)]
    BY <1>1, BookTypes DEF Kept
  <2>2. n = Book(n.ledger, m.queue, n.task, n.seen, n.chase, n.aside, n.shuffles, n.sent)
    BY <1>4, <1>5
  <2>3. QED
    BY <1>3, <1>5, <2>1, <2>2, KeptBook
<1>7. Others(m, n, v)
  BY <1>5, OthersByFields
<1>8. QED
  BY <1>5, <1>6, <1>7 DEF BookOK

Cancel == [kind |-> "cancel"]

LEMMA CancelIsMessage == Cancel \in Message /\ Cancel.kind # "order" /\ Cancel.kind # "update"
BY DEF Message, CancelMsg, Cancel

\* What a book hands to the broker for v when it sends a cancel or nothing.
Quiet(m, n, v) == n.sent[v] = m.sent[v] \/ n.sent[v] = Append(m.sent[v], Cancel)

LEMMA AbandonCall ==
    ASSUME NEW m, Kept(m), NEW v \in Trucks, NEW o \in Ids \cup {None},
           NEW n, n = AbandonOrder(m, v, o)
    PROVE  /\ Kept(n) /\ Others(m, n, v)
           /\ n.ledger = m.ledger /\ n.queue = m.queue /\ n.task = m.task /\ n.seen = m.seen
           /\ n.aside = m.aside /\ n.shuffles = m.shuffles
           /\ Quiet(m, n, v)
           /\ (BookOK(m) => BookOK(n))
<1>1. CASE o = None
  <2>1. n = m
    BY <1>1 DEF AbandonOrder
  <2>2. QED
    BY <2>1 DEF Others, Same, Quiet
<1>2. CASE o # None
  <2> DEFINE k == [m EXCEPT !.chase[v] = o]
  <2>2. /\ Kept(k) /\ Others(m, k, v)
        /\ k.ledger = m.ledger /\ k.queue = m.queue /\ k.task = m.task /\ k.seen = m.seen
        /\ k.aside = m.aside /\ k.shuffles = m.shuffles /\ k.sent = m.sent
        /\ (BookOK(m) => BookOK(k))
    BY ChaseCall
  <2>1. n = Send(k, v, Cancel)
    BY <1>2 DEF AbandonOrder, Cancel
  <2> HIDE DEF k
  <2>3. /\ Kept(n) /\ Others(k, n, v)
        /\ n.ledger = k.ledger /\ n.queue = k.queue /\ n.task = k.task /\ n.seen = k.seen
        /\ n.aside = k.aside /\ n.shuffles = k.shuffles
        /\ n.sent[v] = Append(k.sent[v], Cancel)
        /\ (BookOK(k) => BookOK(n))
    <3>1. Kept(k)
      BY <2>2
    <3>2. QED
      BY <2>1, CancelIsMessage, <3>1, SendCall
  <2>4. QED
    BY <2>2, <2>3, OthersTransitive DEF Quiet
<1>3. QED
  BY <1>1, <1>2

\* The record of one task is replaced, and perhaps the step-asides counted.
LEMMA TaskCall ==
    ASSUME NEW m, Kept(m), NEW v \in Trucks, NEW t \in Tasks, NEW x \in TaskType,
           m.task[t].by \in {v, None}, x.by \in {v, None},
           NEW g \in [Trucks -> 0 .. AsideMax],
           NEW c, c = [m.task EXCEPT ![t] = x],
           NEW n, n = Book(m.ledger, m.queue, c, m.seen, m.chase, m.aside, g, m.sent)
    PROVE  /\ Kept(n) /\ Others(m, n, v)
           /\ n.ledger = m.ledger /\ n.queue = m.queue /\ n.task = c /\ n.seen = m.seen
           /\ n.chase = m.chase /\ n.aside = m.aside /\ n.sent = m.sent /\ n.shuffles = g
<1>1. /\ n.ledger = m.ledger /\ n.queue = m.queue /\ n.task = c /\ n.seen = m.seen
      /\ n.chase = m.chase /\ n.aside = m.aside /\ n.sent = m.sent /\ n.shuffles = g
  BY DEF Book
<1>2. /\ m.ledger \in LedgerType /\ Consistent(m.ledger)
      /\ m.task \in [Tasks -> TaskType]
      /\ m.seen \in [Trucks -> Seen] /\ m.chase \in [Trucks -> Ids \cup {None}]
      /\ m.aside \in [Trucks -> Aside \cup {None}] /\ m.sent \in [Trucks -> Seq(Message)]
  BY BookTypes DEF Kept
<1>3. c \in [Tasks -> TaskType] /\ \A y \in Tasks : c[y] = IF y = t THEN x ELSE m.task[y]
  BY <1>2
<1>4. n = Book(n.ledger, m.queue, n.task, n.seen, n.chase, n.aside, n.shuffles, n.sent)
  BY <1>1
<1>5. Kept(n)
  BY <1>1, <1>2, <1>3, <1>4, KeptBook, ZenonT(60)
<1>6. Others(m, n, v)
  BY <1>1, <1>3, OthersByFields
<1>7. QED
  BY <1>1, <1>5, <1>6

\* What may be assigned to the record of a task.
LEMMA TaskUpdates ==
    ASSUME NEW m \in Books, NEW t \in Tasks, NEW x
    PROVE  /\ [m EXCEPT !.task[t] = x] = [m EXCEPT !.task = [m.task EXCEPT ![t] = x]]
           /\ [m EXCEPT !.task[t].leg = x] =
                [m EXCEPT !.task = [m.task EXCEPT ![t] =
                    Task(m.task[t].state, m.task[t].by, m.task[t].order, x)]]
           /\ [m EXCEPT !.task[t].state = x] =
                [m EXCEPT !.task = [m.task EXCEPT ![t] =
                    Task(x, m.task[t].by, m.task[t].order, m.task[t].leg)]]
<1>1. m.task \in [Tasks -> TaskType]
  BY BookTypes
<1>2. m.task[t] = [state |-> m.task[t].state, by |-> m.task[t].by, order |-> m.task[t].order,
                   leg |-> m.task[t].leg]
  BY <1>1, TaskFields DEF Task
<1>3. [m.task[t] EXCEPT !.leg = x] = Task(m.task[t].state, m.task[t].by, m.task[t].order, x)
  BY <1>2 DEF Task
<1>4. [m.task[t] EXCEPT !.state = x] = Task(x, m.task[t].by, m.task[t].order, m.task[t].leg)
  BY <1>2 DEF Task
<1>5. [m EXCEPT !.task[t].leg = x] =
        [m EXCEPT !.task = [m.task EXCEPT ![t] = [m.task[t] EXCEPT !.leg = x]]]
  OBVIOUS
<1>6. [m EXCEPT !.task[t].state = x] =
        [m EXCEPT !.task = [m.task EXCEPT ![t] = [m.task[t] EXCEPT !.state = x]]]
  OBVIOUS
<1>7. [m EXCEPT !.task[t] = x] = [m EXCEPT !.task = [m.task EXCEPT ![t] = x]]
  OBVIOUS
<1>8. QED
  BY <1>3, <1>4, <1>5, <1>6, <1>7

LEMMA DropTrafficCall ==
    ASSUME NEW m, Kept(m), NEW v \in Trucks, NEW t \in Tasks, m.task[t].by = v,
           NEW n, n = DropTraffic(m, t)
    PROVE  /\ Kept(n) /\ Others(m, n, v)
           /\ n.ledger.standing = m.ledger.standing /\ n.queue = m.queue
           /\ n.task = [m.task EXCEPT ![t] = Task(m.task[t].state, v, m.task[t].order, None)]
           /\ n.seen = m.seen /\ n.chase = m.chase /\ n.aside = m.aside /\ n.sent = m.sent
           /\ m.task[t].state # "DONE" => n.shuffles = m.shuffles
<1> DEFINE x == Task(m.task[t].state, v, m.task[t].order, None)
           c == [m.task EXCEPT ![t] = x]
           g == IF v # None /\ m.task[t].state = "DONE"
                THEN [m.shuffles EXCEPT ![v] = 0] ELSE m.shuffles
           over == [m EXCEPT !.task[t].leg = None,
                             !.shuffles = IF v # None /\ m.task[t].state = "DONE"
                                          THEN [@ EXCEPT ![v] = 0] ELSE @]
           k == [m EXCEPT !.task = c]
<1>1. m \in Books /\ m.task[t] \in TaskType /\ m.shuffles \in [Trucks -> 0 .. AsideMax]
  BY BookTypes DEF Kept
<1>2. x \in TaskType /\ x.by = v
  <2>1. /\ m.task[t].state \in States /\ m.task[t].order \in Ids \cup {None}
        /\ None \in LegType \cup {None} /\ v \in Trucks \cup {None}
    BY <1>1, TaskFields
  <2>2. QED
    BY <2>1, TaskOfFields
<1>3. g \in [Trucks -> 0 .. AsideMax]
  BY <1>1, FloorConstants
<1>4. [m EXCEPT !.task[t].leg = None] = k
  <2>1. [m EXCEPT !.task[t].leg = None] =
           [m EXCEPT !.task = [m.task EXCEPT ![t] = [m.task[t] EXCEPT !.leg = None]]]
    OBVIOUS
  <2>2. [m.task[t] EXCEPT !.leg = None] = x
    <3>1. m.task[t] = [state |-> m.task[t].state, by |-> v, order |-> m.task[t].order,
                       leg |-> m.task[t].leg]
      BY <1>1, TaskFields DEF Task
    <3>2. QED
      BY <3>1 DEF Task
  <2>3. QED
    BY <2>1, <2>2
<1>5. k = Book(m.ledger, m.queue, c, m.seen, m.chase, m.aside, m.shuffles, m.sent)
  BY <1>1, BookUpdates
<1>6. over = [k EXCEPT !.shuffles = IF v # None /\ m.task[t].state = "DONE"
                                    THEN [@ EXCEPT ![v] = 0] ELSE @]
  BY <1>4
<1> HIDE DEF k, c, x
<1>7. over = Book(m.ledger, m.queue, c, m.seen, m.chase, m.aside, g, m.sent)
  BY <1>5, <1>6 DEF Book
<1> HIDE DEF over, g
<1>8. /\ Kept(over) /\ Others(m, over, v)
      /\ over.ledger = m.ledger /\ over.queue = m.queue /\ over.task = c /\ over.seen = m.seen
      /\ over.chase = m.chase /\ over.aside = m.aside /\ over.sent = m.sent /\ over.shuffles = g
  BY <1>2, <1>3, <1>7, TaskCall DEF c
<1>9. n = Release(over, v)
  <2>1. v # None
    BY Nones
  <2>2. QED
    BY <2>1 DEF DropTraffic, over
<1>10. /\ Kept(n) /\ Others(over, n, v)
       /\ n.ledger.standing = over.ledger.standing
       /\ n.queue = over.queue /\ n.task = over.task /\ n.seen = over.seen
       /\ n.chase = over.chase /\ n.aside = over.aside /\ n.sent = over.sent
       /\ n.shuffles = over.shuffles
  BY <1>8, <1>9, ReleaseCall
<1>11. Others(m, n, v)
  BY <1>8, <1>10, OthersTransitive
<1>12. QED
  BY <1>8, <1>10, <1>11 DEF c, x, g

\* A task goes back to the head of the queue.
LEMMA QueueAfter ==
    ASSUME NEW q \in Seq(Tasks), Range(q) = Tasks, IsInjective(q), NEW t \in Tasks
    PROVE  LET p == <<t>> \o Without(q, {t})
           IN  p \in Seq(Tasks) /\ Range(p) = Tasks /\ IsInjective(p)
<1> DEFINE w == Without(q, {t})
           s == <<t>>
<1>1. w \in Seq(Tasks) /\ Range(w) = Tasks \ {t} /\ IsInjective(w)
  BY WithoutProperties
<1>2. s \in Seq(Tasks) /\ Range(s) = {t} /\ IsInjective(s)
  BY DEF Range, IsInjective
<1> HIDE DEF w, s
<1>3. Range(s) \cap Range(w) = {}
  BY <1>1, <1>2
<1>4. s \o w \in Seq(Tasks) /\ Range(s \o w) = Range(s) \cup Range(w)
      /\ IsInjective(s \o w)
  BY <1>1, <1>2, <1>3, ConcatIsDisjointUnion
<1>5. QED
  BY <1>1, <1>2, <1>4 DEF w, s

Queued == Task("QUEUED", None, None, None)

LEMMA RequeueCall ==
    ASSUME NEW m, Kept(m), NEW v \in Trucks, NEW t \in Tasks, m.task[t].by = v,
           NEW n, n = Requeue(m, t)
    PROVE  /\ Kept(n) /\ Others(m, n, v)
           /\ n.ledger.standing = m.ledger.standing
           /\ n.task = [m.task EXCEPT ![t] = Queued]
           /\ n.seen = m.seen /\ n.aside = m.aside /\ n.sent = m.sent
           /\ m.task[t].state # "DONE" => n.shuffles = m.shuffles
           /\ (\A y \in Tasks \ {t} : Shape(m.task[y])) => BookOK(n)
<1> DEFINE d == DropTraffic(m, t)
           c == [d.task EXCEPT ![t] = Queued]
           k == [d EXCEPT !.task[t] = Queued]
           p == <<t>> \o Without(d.queue, {t})
<1>1. /\ Kept(d) /\ Others(m, d, v)
      /\ d.ledger.standing = m.ledger.standing /\ d.queue = m.queue
      /\ d.task = [m.task EXCEPT ![t] = Task(m.task[t].state, v, m.task[t].order, None)]
      /\ d.seen = m.seen /\ d.chase = m.chase /\ d.aside = m.aside /\ d.sent = m.sent
      /\ m.task[t].state # "DONE" => d.shuffles = m.shuffles
  BY DropTrafficCall
<1>2. n = [k EXCEPT !.queue = p]
  BY DEF Requeue, Queued, Task
<1> HIDE DEF d
<1>3. /\ d \in Books /\ d.queue \in Seq(Tasks) /\ Range(d.queue) = Tasks /\ IsInjective(d.queue)
      /\ d.task \in [Tasks -> TaskType] /\ d.shuffles \in [Trucks -> 0 .. AsideMax]
  BY <1>1, BookTypes DEF Kept
<1>4. m.task \in [Tasks -> TaskType]
  BY BookTypes DEF Kept
<1>5. Queued \in TaskType /\ Queued.state = "QUEUED" /\ Queued.by = None /\ Queued.order = None
      /\ Queued.leg = None
  BY TaskOfFields DEF Queued, States
<1> HIDE DEF k, p
<1>6. k = Book(d.ledger, d.queue, c, d.seen, d.chase, d.aside, d.shuffles, d.sent)
  BY <1>3, TaskUpdates, BookUpdates DEF k
<1>7. d.task[t].by = v
  <2>1. Task(m.task[t].state, v, m.task[t].order, None).by = v
    BY DEF Task
  <2>2. QED
    BY <1>1, <1>4, <2>1
<1>8. c = [m.task EXCEPT ![t] = Queued]
  BY <1>1, <1>4
<1>9. /\ Kept(k) /\ Others(d, k, v)
      /\ k.ledger = d.ledger /\ k.queue = d.queue /\ k.task = c /\ k.seen = d.seen
      /\ k.chase = d.chase /\ k.aside = d.aside /\ k.sent = d.sent
  BY <1>1, <1>3, <1>5, <1>6, <1>7, TaskCall, SMTT(40)
<1>10. p \in Seq(Tasks) /\ Range(p) = Tasks /\ IsInjective(p)
  BY <1>3, QueueAfter DEF p
<1> HIDE DEF c
<1>11. n = Book(d.ledger, p, c, d.seen, d.chase, d.aside, d.shuffles, d.sent)
  BY <1>2, <1>6 DEF Book
<1>12. /\ n.ledger = d.ledger /\ n.queue = p /\ n.task = c /\ n.seen = d.seen
       /\ n.chase = d.chase /\ n.aside = d.aside /\ n.sent = d.sent /\ n.shuffles = d.shuffles
  BY <1>11 DEF Book
<1>13. Kept(n)
  <2>1. n = Book(n.ledger, n.queue, n.task, n.seen, n.chase, n.aside, n.shuffles, n.sent)
    BY <1>11, <1>12
  <2>2. /\ k \in Books /\ k.ledger \in LedgerType /\ k.task \in [Tasks -> TaskType]
        /\ Consistent(k.ledger)
        /\ k.seen \in [Trucks -> Seen] /\ k.chase \in [Trucks -> Ids \cup {None}]
        /\ k.aside \in [Trucks -> Aside \cup {None}] /\ k.sent \in [Trucks -> Seq(Message)]
    BY <1>9, BookTypes DEF Kept
  <2>3. n \in Books
    BY <1>3, <1>9, <1>10, <1>12, <2>1, <2>2, BookOfFields
  <2>4. QED
    BY <1>9, <1>10, <1>12, <2>2, <2>3 DEF Kept
<1>14. Others(m, n, v)
  <2>1. Others(k, n, v)
    BY <1>9, <1>12 DEF Others, Same
  <2>2. QED
    BY <1>1, <1>9, <2>1, OthersTransitive
<1>15. ASSUME \A y \in Tasks \ {t} : Shape(m.task[y]) PROVE BookOK(n)
  <2>1. \A y \in Tasks : n.task[y] = IF y = t THEN Queued ELSE m.task[y]
    BY <1>4, <1>8, <1>12
  <2>2. Shape(Queued)
    BY <1>5 DEF Shape
  <2>3. QED
    BY <1>13, <1>15, <2>1, <2>2 DEF BookOK
<1>16. QED
  BY <1>1, <1>8, <1>12, <1>13, <1>14, <1>15

-----------------------------------------------------------------------------
(* The wire. *)

LEMMA AppendToConcat ==
    ASSUME NEW q \in Seq(Message), NEW r \in Seq(Message), NEW msg \in Message
    PROVE  q \o r \in Seq(Message) /\ q \o Append(r, msg) = Append(q \o r, msg)
<1>1. Append(r, msg) = r \o <<msg>> /\ <<msg>> \in Seq(Message) /\ q \o r \in Seq(Message)
  BY AppendIsConcat, ConcatProperties
<1>2. q \o (r \o <<msg>>) = (q \o r) \o <<msg>>
  BY <1>1, ConcatAssociative
<1>3. QED
  BY <1>1, <1>2, AppendIsConcat

\* One more message is on its way ...
LEMMA Appended ==
    ASSUME NEW q \in Seq(Message), NEW msg \in Message, NEW p, p = Append(q, msg)
    PROVE  /\ p \in Seq(Message) /\ Len(q) \in Nat
           /\ DOMAIN q = 1 .. Len(q) /\ DOMAIN p = DOMAIN q \cup {Len(q) + 1}
           /\ Len(q) + 1 \notin DOMAIN q
           /\ \A i \in DOMAIN q : p[i] = q[i]
           /\ p[Len(q) + 1] = msg
<1>1. /\ p \in Seq(Message) /\ Len(q) \in Nat /\ Len(p) = Len(q) + 1
      /\ \A i \in 1 .. Len(q) : p[i] = q[i]
      /\ p[Len(q) + 1] = msg
  BY AppendProperties, LenProperties
<1>2. DOMAIN q = 1 .. Len(q) /\ DOMAIN p = 1 .. Len(q) + 1
  BY <1>1, LenProperties
<1>3. DOMAIN p = DOMAIN q \cup {Len(q) + 1} /\ Len(q) + 1 \notin DOMAIN q
  BY <1>1, <1>2
<1>4. QED
  BY <1>1, <1>2, <1>3

\* ... and where the messages about an order are then.
More(q, p, k) ==
    DOMAIN p = DOMAIN q \cup {k} /\ k \notin DOMAIN q /\ \A i \in DOMAIN q : p[i] = q[i]

LEMMA MoreAbout ==
    ASSUME NEW q, NEW p, NEW k, More(q, p, k), NEW o
    PROVE  /\ Orders(q, o) \subseteq DOMAIN q /\ Updates(q, o) \subseteq DOMAIN q
           /\ \/ Orders(p, o) = Orders(q, o)
              \/ /\ p[k].kind = "order" /\ p[k].order = o
                 /\ Orders(p, o) = Orders(q, o) \cup {k}
           /\ \/ Updates(p, o) = Updates(q, o)
              \/ /\ p[k].kind = "update" /\ p[k].order = o
                 /\ Updates(p, o) = Updates(q, o) \cup {k}
BY DEF More, Orders, Updates

\* A cancel changes nothing about what is under way.
LEMMA MoreAboutNothing ==
    ASSUME NEW q, NEW p, NEW k, More(q, p, k), p[k].kind # "order", p[k].kind # "update", NEW o
    PROVE  /\ Orders(p, o) = Orders(q, o) /\ Updates(p, o) = Updates(q, o)
           /\ Orders(q, o) \subseteq DOMAIN q /\ Updates(q, o) \subseteq DOMAIN q
BY MoreAbout

LEMMA WireAfterMore ==
    ASSUME NEW q, NEW p, NEW k, More(q, p, k), p[k].kind # "order", p[k].kind # "update",
           NEW on, NEW s, NEW o, NEW leg
    PROVE  /\ WireOK(on, q) => WireOK(on, p)
           /\ InStep(leg, o, on, q, s) => InStep(leg, o, on, p, s)
<1>1. p[k].kind # "order" /\ p[k].kind # "update"
  OBVIOUS
<1>2. DOMAIN p = DOMAIN q \cup {k} /\ k \notin DOMAIN q /\ \A i \in DOMAIN q : p[i] = q[i]
  BY DEF More
<1>3. ASSUME NEW x
      PROVE  /\ Orders(p, x) = Orders(q, x) /\ Updates(p, x) = Updates(q, x)
             /\ Orders(q, x) \subseteq DOMAIN q /\ Updates(q, x) \subseteq DOMAIN q
  BY MoreAboutNothing
<1>6. ASSUME WireOK(on, q) PROVE WireOK(on, p)
  <2>1. ASSUME NEW i \in DOMAIN p, p[i].kind = "order"
        PROVE  /\ p[i].base \in 1 .. Len(p[i].route)
               /\ on.order # p[i].order
               /\ Orders(p, p[i].order) = {i}
               /\ \A j \in Updates(p, p[i].order) :
                     /\ i < j /\ p[j].update = 1
                     /\ p[i].base < p[j].base /\ p[j].base <= Len(p[i].route)
    <3>5. i # k
      BY <1>1, <1>2, <2>1
    <3>6. i \in DOMAIN q
      BY <1>2, <2>1, <3>5
    <3>1. i \in DOMAIN q /\ p[i] = q[i] /\ q[i].kind = "order"
      BY <1>2, <2>1, <3>6
    <3>2. /\ Orders(p, q[i].order) = Orders(q, q[i].order)
          /\ Updates(p, q[i].order) = Updates(q, q[i].order)
          /\ \A j \in Updates(q, q[i].order) : p[j] = q[j]
      <4>1. \A x : /\ Orders(p, x) = Orders(q, x) /\ Updates(p, x) = Updates(q, x)
                   /\ Updates(q, x) \subseteq DOMAIN q
        BY <1>3
      <4>2. QED
        BY <1>2, <4>1
    <3>3. /\ q[i].base \in 1 .. Len(q[i].route)
          /\ on.order # q[i].order
          /\ Orders(q, q[i].order) = {i}
          /\ \A j \in Updates(q, q[i].order) :
                /\ i < j /\ q[j].update = 1
                /\ q[i].base < q[j].base /\ q[j].base <= Len(q[i].route)
      BY <1>6, <3>1 DEF WireOK
    <3>4. QED
      BY <3>1, <3>2, <3>3
  <2>2. \A x \in Ids : on.order = x \/ Orders(p, x) # {} =>
           \A i, j \in Updates(p, x) : i = j
    BY <1>3, <1>6 DEF WireOK
  <2>3. ASSUME NEW x \in Ids, on.order = x, NEW i \in Updates(p, x)
        PROVE  /\ on.executing /\ p[i].update = on.update + 1
               /\ on.base < p[i].base /\ p[i].base <= Len(on.route)
    <3>1. i \in Updates(q, x) /\ p[i] = q[i]
      BY <1>2, <1>3, <2>3
    <3>2. QED
      BY <1>6, <2>3, <3>1 DEF WireOK
  <2>4. QED
    BY <2>1, <2>2, <2>3 DEF WireOK
<1>7. ASSUME InStep(leg, o, on, q, s) PROVE InStep(leg, o, on, p, s)
  <2>1. /\ Orders(p, o) = Orders(q, o) /\ Updates(p, o) = Updates(q, o)
        /\ Orders(q, o) \subseteq DOMAIN q /\ Updates(q, o) \subseteq DOMAIN q
    BY <1>3
  <2>2. Ordered(leg, o, on, p, s)
    BY <1>2, <1>7, <2>1 DEF InStep, Ordered
  <2>3. Extended(leg, o, on, p)
    BY <1>2, <1>7, <2>1 DEF InStep, Extended
  <2>4. Driven(leg, o, on, p, s)
    BY <1>7, <2>1 DEF InStep, Driven
  <2>5. QED
    BY <1>7, <2>2, <2>3, <2>4 DEF InStep
<1>8. QED
  BY <1>6, <1>7

LEMMA WireAfterCancel ==
    ASSUME NEW q \in Seq(Message), NEW p, p = Append(q, Cancel),
           NEW on, NEW s, NEW o, NEW leg
    PROVE  /\ p \in Seq(Message)
           /\ WireOK(on, q) => WireOK(on, p)
           /\ InStep(leg, o, on, q, s) => InStep(leg, o, on, p, s)
<1>1. Cancel \in Message /\ Cancel.kind # "order" /\ Cancel.kind # "update"
  BY CancelIsMessage
<1>2. p \in Seq(Message) /\ More(q, p, Len(q) + 1) /\ p[Len(q) + 1] = Cancel
  BY <1>1, Appended DEF More
<1>3. QED
  BY <1>1, <1>2, WireAfterMore

LEMMA QuietWire ==
    ASSUME NEW m, m \in Books, NEW n, NEW v \in Trucks, Quiet(m, n, v),
           NEW q \in Seq(Message), NEW on, NEW s
    PROVE  /\ Truck(on, q \o m.sent[v], s) => Truck(on, q \o n.sent[v], s)
           /\ \A leg, o : InStep(leg, o, on, q \o m.sent[v], s) =>
                          InStep(leg, o, on, q \o n.sent[v], s)
<1>1. m.sent[v] \in Seq(Message)
  BY BookTypes
<1>2. CASE n.sent[v] = m.sent[v]
  BY <1>2
<1>3. CASE n.sent[v] = Append(m.sent[v], Cancel)
  <2> DEFINE r == q \o m.sent[v]
             p == q \o n.sent[v]
  <2>1. r \in Seq(Message)
    BY <1>1, ConcatProperties
  <2>4. p = Append(r, Cancel)
    <3>1. Cancel \in Message
      BY CancelIsMessage
    <3> HIDE DEF r
    <3>2. q \o Append(m.sent[v], Cancel) = Append(q \o m.sent[v], Cancel)
      BY <1>1, <3>1, AppendToConcat
    <3>3. QED
      BY <1>3, <3>2 DEF r
  <2> HIDE DEF r, p
  <2>2. \A leg, o : /\ p \in Seq(Message) /\ (WireOK(on, r) => WireOK(on, p))
                    /\ InStep(leg, o, on, r, s) => InStep(leg, o, on, p, s)
    BY <2>1, <2>4, WireAfterCancel
  <2>3. QED
    BY <2>2 DEF r, p, Truck
<1>4. QED
  BY <1>2, <1>3 DEF Quiet

\* A call that sends a cancel or nothing and leaves v's leg as it is, or v without one.
LEMMA QuietIsSteady ==
    ASSUME NEW m, BookOK(m), NEW n, NEW v \in Trucks, Quiet(m, n, v),
           NEW q \in Seq(Message), NEW on, NEW s, Steady(m, v, on, q \o m.sent[v], s),
           n.task = m.task, n.aside[v] = m.aside[v],
           n.ledger.standing[v] \in Nodes \/ n.ledger.standing[v] = m.ledger.standing[v],
           \/ /\ n.ledger.held[v] = m.ledger.held[v]
              /\ v \in m.ledger.yielded => v \in n.ledger.yielded
           \/ v \in n.ledger.yielded
           \/ \A t \in Tasks : m.task[t].by = v => m.task[t].leg = None
    PROVE  Steady(n, v, on, q \o n.sent[v], s)
<1>1. m \in Books
  BY DEF BookOK, Kept
<1>2. Truck(on, q \o n.sent[v], s)
  BY <1>1, QuietWire DEF Steady
<1>3. Settled(n, v)
  BY DEF Steady, Settled, Carries
<1>4. ASSUME NEW t \in Tasks, n.task[t].by = v, n.task[t].leg # None
      PROVE  /\ LegOK(n.task[t].leg)
             /\ v \notin n.ledger.yielded => Backed(n.ledger.held[v], n.task[t].leg)
             /\ InStep(n.task[t].leg, n.task[t].order, on, q \o n.sent[v], s)
  <2> DEFINE leg == n.task[t].leg
             o == n.task[t].order
  <2>1. /\ LegOK(leg)
        /\ v \notin m.ledger.yielded => Backed(m.ledger.held[v], leg)
        /\ InStep(leg, o, on, q \o m.sent[v], s)
    BY <1>4 DEF Steady, OnLeg
  <2>2. v \notin n.ledger.yielded => Backed(n.ledger.held[v], leg)
    BY <1>4, <2>1
  <2>3. InStep(leg, o, on, q \o n.sent[v], s)
    <3> HIDE DEF leg, o
    <3>1. QED
      BY <1>1, <2>1, QuietWire
  <2>4. QED
    BY <2>1, <2>2, <2>3
<1>5. OnLeg(n, v, on, q \o n.sent[v], s)
  BY <1>4 DEF OnLeg
<1>6. QED
  BY <1>2, <1>3, <1>5 DEF Steady

LEMMA QuietIsFine ==
    ASSUME NEW m, BookOK(m), NEW n, NEW v \in Trucks, Quiet(m, n, v),
           NEW q \in Seq(Message), NEW on, NEW s, Fine(m, v, on, q \o m.sent[v], s),
           n.task = m.task, n.aside[v] = m.aside[v],
           n.seen[v].fit => m.seen[v].fit /\ n.seen[v].node = m.seen[v].node,
           n.ledger.standing[v] = m.ledger.standing[v],
           \/ /\ n.ledger.held[v] = m.ledger.held[v]
              /\ v \in m.ledger.yielded => v \in n.ledger.yielded
           \/ v \in n.ledger.yielded
           \/ \A t \in Tasks : m.task[t].by = v => m.task[t].leg = None
    PROVE  Fine(n, v, on, q \o n.sent[v], s)
<1>1. Steady(m, v, on, q \o m.sent[v], s)
  BY DEF Fine
<1>2. Steady(n, v, on, q \o n.sent[v], s)
  BY <1>1, QuietIsSteady
<1>3. QED
  BY <1>2 DEF Fine, Located

\* A task given back, and its order taken back.
Returned(m, n, v, on, q, s) ==
    /\ BookOK(n) /\ Others(m, n, v)
    /\ Unladen(n, v) /\ Located(n, v) /\ Truck(on, q \o n.sent[v], s)
    /\ Fine(n, v, on, q \o n.sent[v], s)
    /\ n.aside = m.aside /\ n.seen = m.seen /\ n.shuffles = m.shuffles
    /\ n.ledger.standing = m.ledger.standing

LEMMA GivenBack ==
    ASSUME NEW m, BookOK(m), NEW v \in Trucks, NEW t \in Tasks, Carries(m, v, t),
           NEW q \in Seq(Message), NEW on, NEW s, Fine(m, v, on, q \o m.sent[v], s),
           NEW n, n = Requeue(m, t) \/ n = AbandonOrder(Requeue(m, t), v, m.task[t].order)
    PROVE  Returned(m, n, v, on, q, s)
<1> DEFINE d == Requeue(m, t)
<1>1. /\ Kept(m) /\ m \in Books /\ \A y \in Tasks : Shape(m.task[y])
      /\ m.task[t].by = v /\ m.task[t].state # "DONE"
      /\ m.task \in [Tasks -> TaskType]
  BY BookTypes DEF BookOK, Kept, Carries
<1>2. /\ Kept(d) /\ Others(m, d, v)
      /\ d.ledger.standing = m.ledger.standing
      /\ d.task = [m.task EXCEPT ![t] = Queued]
      /\ d.seen = m.seen /\ d.aside = m.aside /\ d.sent = m.sent
      /\ d.shuffles = m.shuffles
      /\ BookOK(d)
  BY <1>1, RequeueCall
<1> HIDE DEF d
<1>3. m.task[t].order \in Ids \cup {None}
  BY <1>1, TaskFields
<1>4. /\ BookOK(n) /\ Others(m, n, v) /\ n.task = d.task
      /\ n.aside = m.aside /\ n.seen = m.seen /\ n.shuffles = m.shuffles
      /\ n.ledger.standing = m.ledger.standing
      /\ Quiet(m, n, v)
  <2>1. CASE n = d
    BY <1>2, <2>1 DEF Quiet
  <2>2. CASE n = AbandonOrder(d, v, m.task[t].order)
    <3>1. /\ Others(d, n, v)
          /\ n.ledger = d.ledger /\ n.task = d.task /\ n.seen = d.seen
          /\ n.aside = d.aside /\ n.shuffles = d.shuffles
          /\ Quiet(d, n, v)
          /\ BookOK(n)
      BY <1>2, <1>3, <2>2, AbandonCall
    <3>2. Others(m, n, v)
      BY <1>2, <3>1, OthersTransitive
    <3>3. QED
      BY <1>2, <3>1, <3>2 DEF Quiet
  <2>3. QED
    BY <2>1, <2>2 DEF d
<1>5. Unladen(n, v)
  <2>1. Queued.by = None
    BY DEF Queued, Task
  <2>2. ASSUME NEW y \in Tasks, Carries(n, v, y) PROVE FALSE
    <3>1. y # t
      BY <1>1, <1>2, <1>4, <2>1, <2>2, Nones DEF Carries
    <3>2. Carries(m, v, y)
      BY <1>1, <1>2, <1>4, <2>2, <3>1 DEF Carries
    <3>3. QED
      BY <3>1, <3>2 DEF Fine, Steady, Settled
  <2>3. QED
    BY <2>2 DEF Unladen
<1>6. Located(n, v)
  BY <1>4 DEF Fine, Steady, Settled, Located
<1>7. Truck(on, q \o n.sent[v], s)
  BY <1>1, <1>4, QuietWire DEF Fine, Steady
<1>8. QED
  BY <1>4, <1>5, <1>6, <1>7, UnladenIsFine DEF Returned

-----------------------------------------------------------------------------
(* The calls about one truck that leave its affairs in order. *)

Handled(m, n, v, on, q, s) ==
    BookOK(n) /\ Others(m, n, v) /\ Fine(n, v, on, q \o n.sent[v], s)

LEMMA HandledAfter ==
    ASSUME NEW m, NEW k, NEW n, NEW v, NEW on, NEW q, NEW s,
           Others(m, k, v), Handled(k, n, v, on, q, s)
    PROVE  Handled(m, n, v, on, q, s)
BY OthersTransitive DEF Handled

LEMMA NothingHandled ==
    ASSUME NEW m, BookOK(m), NEW v, NEW on, NEW q, NEW s, Fine(m, v, on, q \o m.sent[v], s)
    PROVE  Handled(m, m, v, on, q, s)
BY DEF Handled, Others, Same

LEMMA AsideCall ==
    ASSUME NEW m, Kept(m), NEW v \in Trucks,
           NEW aside \in [Trucks -> Aside \cup {None}],
           \A u \in Trucks \ {v} : aside[u] = m.aside[u],
           NEW n, n = [m EXCEPT !.aside = aside]
    PROVE  /\ Kept(n) /\ Others(m, n, v)
           /\ n.ledger = m.ledger /\ n.queue = m.queue /\ n.task = m.task /\ n.seen = m.seen
           /\ n.chase = m.chase /\ n.shuffles = m.shuffles /\ n.sent = m.sent
           /\ n.aside = aside
           /\ (BookOK(m) => BookOK(n))
<1>1. /\ m \in Books
      /\ m = Book(m.ledger, m.queue, m.task, m.seen, m.chase, m.aside, m.shuffles, m.sent)
  BY BookTypes DEF Kept
<1>2. n = [m EXCEPT !.aside = aside]
  OBVIOUS
<1>3. aside \in [Trucks -> Aside \cup {None}] /\ \A u \in Trucks \ {v} : aside[u] = m.aside[u]
  OBVIOUS
<1>4. n = Book(m.ledger, m.queue, m.task, m.seen, m.chase, aside, m.shuffles, m.sent)
  BY <1>1, <1>2, BookUpdates
<1>5. /\ n.ledger = m.ledger /\ n.queue = m.queue /\ n.task = m.task /\ n.seen = m.seen
      /\ n.chase = m.chase /\ n.aside = aside /\ n.shuffles = m.shuffles /\ n.sent = m.sent
  BY <1>4 DEF Book
<1>6. Kept(n)
  <2>1. /\ m.ledger \in LedgerType /\ Consistent(m.ledger)
        /\ m.task \in [Tasks -> TaskType]
        /\ m.seen \in [Trucks -> Seen] /\ m.chase \in [Trucks -> Ids \cup {None}]
        /\ m.shuffles \in [Trucks -> 0 .. AsideMax] /\ m.sent \in [Trucks -> Seq(Message)]
    BY <1>1, BookTypes DEF Kept
  <2>2. n = Book(n.ledger, m.queue, n.task, n.seen, n.chase, n.aside, n.shuffles, n.sent)
    BY <1>4, <1>5
  <2>3. QED
    BY <1>3, <1>5, <2>1, <2>2, KeptBook
<1>7. Others(m, n, v)
  BY <1>3, <1>5, OthersByFields
<1>8. QED
  BY <1>3, <1>5, <1>6, <1>7 DEF BookOK

LEMMA SeenCall ==
    ASSUME NEW m, Kept(m), NEW v \in Trucks,
           NEW seen \in [Trucks -> Seen], \A u \in Trucks \ {v} : seen[u] = m.seen[u],
           NEW n, n = [m EXCEPT !.seen = seen]
    PROVE  /\ Kept(n) /\ Others(m, n, v)
           /\ n.ledger = m.ledger /\ n.queue = m.queue /\ n.task = m.task /\ n.aside = m.aside
           /\ n.chase = m.chase /\ n.shuffles = m.shuffles /\ n.sent = m.sent
           /\ n.seen = seen
           /\ (BookOK(m) => BookOK(n))
<1>1. /\ m \in Books
      /\ m = Book(m.ledger, m.queue, m.task, m.seen, m.chase, m.aside, m.shuffles, m.sent)
  BY BookTypes DEF Kept
<1>2. n = [m EXCEPT !.seen = seen]
  OBVIOUS
<1>3. seen \in [Trucks -> Seen] /\ \A u \in Trucks \ {v} : seen[u] = m.seen[u]
  OBVIOUS
<1>4. n = Book(m.ledger, m.queue, m.task, seen, m.chase, m.aside, m.shuffles, m.sent)
  BY <1>1, <1>2, BookUpdates
<1>5. /\ n.ledger = m.ledger /\ n.queue = m.queue /\ n.task = m.task /\ n.seen = seen
      /\ n.chase = m.chase /\ n.aside = m.aside /\ n.shuffles = m.shuffles /\ n.sent = m.sent
  BY <1>4 DEF Book
<1>6. Kept(n)
  <2>1. /\ m.ledger \in LedgerType /\ Consistent(m.ledger)
        /\ m.task \in [Tasks -> TaskType]
        /\ m.aside \in [Trucks -> Aside \cup {None}] /\ m.chase \in [Trucks -> Ids \cup {None}]
        /\ m.shuffles \in [Trucks -> 0 .. AsideMax] /\ m.sent \in [Trucks -> Seq(Message)]
    BY <1>1, BookTypes DEF Kept
  <2>2. n = Book(n.ledger, m.queue, n.task, n.seen, n.chase, n.aside, n.shuffles, n.sent)
    BY <1>4, <1>5
  <2>3. QED
    BY <1>3, <1>5, <2>1, <2>2, KeptBook
<1>7. Others(m, n, v)
  BY <1>3, <1>5, OthersByFields
<1>8. QED
  BY <1>3, <1>5, <1>6, <1>7 DEF BookOK

-----------------------------------------------------------------------------
(* Floor requests that are not a leg. *)

LEMMA StandingRequest ==
    ASSUME NEW node \in Nodes
    PROVE  <<node>> \in Seq(Elements) /\ IsInjective(<<node>>)
BY DEF Elements, IsInjective

LEMMA PairRequest ==
    ASSUME NEW a \in Nodes, NEW b \in Neighbours(a), NEW p, p = <<a, b>> \/ p = <<b, a>>
    PROVE  RouteElements(p) \in Seq(Elements) /\ IsInjective(RouteElements(p))
<1>1. b \in Nodes /\ b # a /\ Edge(a, b) \in Links /\ Edge(b, a) = Edge(a, b)
  BY DEF Neighbours, Edge
<1>2. p \in [1 .. 2 -> Nodes] /\ IsInjective(p) /\ Edge(p[1], p[2]) \in Links
  BY <1>1 DEF IsInjective
<1>3. \A i \in 1 .. 2 - 1 : Edge(p[i], p[i + 1]) \in Links
  <2>1. \A i \in 1 .. 2 - 1 : i = 1 /\ i + 1 = 2
    OBVIOUS
  <2>2. QED
    BY <1>2, <2>1
<1>4. 2 \in Nat \ {0}
  OBVIOUS
<1>5. QED
  BY <1>2, <1>3, <1>4, RouteElementsOfPath

LEMMA SpurEntryNode ==
    ASSUME NEW node, SpurEntry(node) # None
    PROVE  SpurEntry(node) \in Neighbours(node)
<1>1. Cardinality(Neighbours(node)) = 1 /\ SpurEntry(node) = (CHOOSE n \in Neighbours(node) : TRUE)
  BY DEF SpurEntry
<1>2. Neighbours(node) # {}
  BY <1>1, FS_EmptySet
<1>3. QED
  BY <1>1, <1>2

\* What a vehicle without a leg may hold.
LEMMA HoldStandingCall ==
    ASSUME NEW m, Kept(m), NEW v \in Trucks, NEW node \in Nodes, Stands(m, v) = node,
           NEW n, n = HoldStanding(m, v, node)
    PROVE  /\ Kept(n) /\ Others(m, n, v)
           /\ n.ledger.standing = m.ledger.standing
           /\ n.queue = m.queue /\ n.task = m.task /\ n.seen = m.seen
           /\ n.chase = m.chase /\ n.aside = m.aside /\ n.shuffles = m.shuffles /\ n.sent = m.sent
           /\ (BookOK(m) => BookOK(n))
<1> DEFINE l      == m.ledger
           entry  == DwellEntry(m, v)
           moving == m.aside[v] # None /\ m.aside[v].node \in Neighbours(node)
           want   == IF moving THEN RouteElements(<<node, m.aside[v].node>>)
                     ELSE IF entry = None THEN <<node>>
                     ELSE RouteElements(<<entry, node>>)
           freed  == ReleaseAll(l, v, None)
           ours   == IF entry # None /\ freed.owner[entry] # None THEN <<node>> ELSE want
           held   == Hold(freed, v, ours)
<1>1. l \in LedgerType /\ Consistent(l)
  BY BookTypes DEF Kept
<1>2. entry = None \/ entry \in Neighbours(node)
  <2>1. entry # None => entry = SpurEntry(From[TaskOf(m, v)]) /\ node = From[TaskOf(m, v)]
    BY DEF DwellEntry
  <2>2. QED
    BY <2>1, SpurEntryNode
<1>3. want \in Seq(Elements) /\ IsInjective(want)
  <2>1. CASE moving
    BY <2>1, PairRequest
  <2>2. CASE ~moving /\ entry = None
    BY <2>2, StandingRequest
  <2>3. CASE ~moving /\ entry # None
    BY <1>2, <2>3, PairRequest
  <2>4. QED
    BY <2>1, <2>2, <2>3
<1>4. ours \in Seq(Elements) /\ IsInjective(ours)
  BY <1>3, StandingRequest
<1>5. OnlyFor(l, freed, v) /\ freed.standing = l.standing
  BY <1>1, ReleaseAllOnly
<1> HIDE DEF freed, ours, want
<1>6. freed \in LedgerType /\ Consistent(freed)
  BY <1>5 DEF OnlyFor
<1>7. OnlyFor(freed, held, v) /\ held.standing = freed.standing
  BY <1>4, <1>6, HoldOnly
<1> HIDE DEF held
<1>8. held \in LedgerType /\ Consistent(held)
  BY <1>7 DEF OnlyFor
<1>9. OnlyFor(held, ClearWait(held, v), v) /\ ClearWait(held, v).standing = held.standing
  BY <1>8, ClearWaitOnly
<1>10. OnlyFor(l, ClearWait(held, v), v) /\ ClearWait(held, v).standing = l.standing
  BY <1>5, <1>7, <1>9, OnlyForTransitive
<1>11. OnlyFor(l, ClearWait(l, v), v) /\ ClearWait(l, v).standing = l.standing
  BY <1>1, ClearWaitOnly
<1>12. n = [m EXCEPT !.ledger = ClearWait(l, v)] \/ n = [m EXCEPT !.ledger = ClearWait(held, v)]
  BY DEF HoldStanding, held, ours, want, freed
<1>13. PICK k : n = [m EXCEPT !.ledger = k] /\ OnlyFor(l, k, v) /\ k.standing = l.standing
  BY <1>10, <1>11, <1>12
<1>14. QED
  BY <1>13, LedgerCall

\* The end of leg 1: the truck keeps the junction of the spur it stands in.
LEMMA EndLeg1Call ==
    ASSUME NEW m, Kept(m), NEW v \in Trucks, NEW t \in Tasks, m.task[t].by = v,
           NEW n, n = EndLeg1(m, t, v)
    PROVE  /\ Kept(n) /\ Others(m, n, v)
           /\ n.ledger.standing = m.ledger.standing
           /\ n.task = [m.task EXCEPT ![t] = Task(m.task[t].state, v, m.task[t].order, None)]
           /\ n.seen = m.seen /\ n.aside = m.aside /\ n.sent = m.sent
<1> DEFINE x     == Task(m.task[t].state, v, m.task[t].order, None)
           c     == [m.task EXCEPT ![t] = x]
           g     == [m.shuffles EXCEPT ![v] = 0]
           over  == [m EXCEPT !.task[t].leg = None, !.shuffles[v] = 0]
           entry == DwellEntry(m, v)
           k     == [m EXCEPT !.task = c]
<1>1. m \in Books /\ m.task[t] \in TaskType /\ m.shuffles \in [Trucks -> 0 .. AsideMax]
  BY BookTypes DEF Kept
<1>2. x \in TaskType /\ x.by = v
  <2>1. /\ m.task[t].state \in States /\ m.task[t].order \in Ids \cup {None}
        /\ None \in LegType \cup {None} /\ v \in Trucks \cup {None}
    BY <1>1, TaskFields
  <2>2. QED
    BY <2>1, TaskOfFields
<1>3. g \in [Trucks -> 0 .. AsideMax]
  BY <1>1, FloorConstants
<1>4. [m EXCEPT !.task[t].leg = None] = k
  <2>1. [m EXCEPT !.task[t].leg = None] =
           [m EXCEPT !.task = [m.task EXCEPT ![t] = [m.task[t] EXCEPT !.leg = None]]]
    OBVIOUS
  <2>2. [m.task[t] EXCEPT !.leg = None] = x
    <3>1. m.task[t] = [state |-> m.task[t].state, by |-> v, order |-> m.task[t].order,
                       leg |-> m.task[t].leg]
      BY <1>1, TaskFields DEF Task
    <3>2. QED
      BY <3>1 DEF Task
  <2>3. QED
    BY <2>1, <2>2
<1>5. k = Book(m.ledger, m.queue, c, m.seen, m.chase, m.aside, m.shuffles, m.sent)
  BY <1>1, BookUpdates
<1>6. over = [k EXCEPT !.shuffles = [k.shuffles EXCEPT ![v] = 0]]
  <2>1. over = [[m EXCEPT !.task[t].leg = None] EXCEPT !.shuffles[v] = 0]
    OBVIOUS
  <2> HIDE DEF over, k
  <2>2. QED
    BY <1>4, <2>1
<1> HIDE DEF k, c, x
<1>7. over = Book(m.ledger, m.queue, c, m.seen, m.chase, m.aside, g, m.sent)
  BY <1>5, <1>6 DEF Book
<1> HIDE DEF over, g
<1>8. /\ Kept(over) /\ Others(m, over, v)
      /\ over.ledger = m.ledger /\ over.queue = m.queue /\ over.task = c /\ over.seen = m.seen
      /\ over.chase = m.chase /\ over.aside = m.aside /\ over.sent = m.sent
  BY <1>2, <1>3, <1>7, TaskCall DEF c
<1>9. CASE n = Release(over, v)
  BY <1>8, <1>9, ReleaseCall, OthersTransitive DEF c, x
<1>10. CASE n = [over EXCEPT !.ledger = ClearYield(ReleaseThrough(over.ledger, v, entry), v)]
  <2> DEFINE r == ReleaseThrough(over.ledger, v, entry)
             j == ClearYield(r, v)
  <2>1. over.ledger \in LedgerType /\ Consistent(over.ledger)
    BY <1>8, BookTypes DEF Kept
  <2>2. OnlyFor(over.ledger, r, v) /\ r.standing = over.ledger.standing
    BY <2>1, ReleaseThroughOnly
  <2> HIDE DEF r
  <2>3. r \in LedgerType /\ Consistent(r)
    BY <2>2 DEF OnlyFor
  <2>4. OnlyFor(r, j, v) /\ j.standing = r.standing
    BY <2>3, ClearYieldOnly
  <2> HIDE DEF j
  <2>5. OnlyFor(over.ledger, j, v) /\ j.standing = m.ledger.standing
    BY <1>8, <2>2, <2>4, OnlyForTransitive
  <2>6. n = [over EXCEPT !.ledger = j]
    BY <1>10 DEF j, r
  <2>7. /\ Kept(n) /\ Others(over, n, v) /\ n.ledger = j /\ n.task = over.task
        /\ n.seen = over.seen /\ n.aside = over.aside /\ n.sent = over.sent
    BY <1>8, <2>5, <2>6, LedgerCall
  <2>8. QED
    BY <1>8, <2>5, <2>7, OthersTransitive DEF c, x
<1>11. QED
  BY <1>9, <1>10 DEF EndLeg1, over, entry

\* _stall_pass
LEMMA StallCall ==
    ASSUME NEW m, BookOK(m), NEW v \in Trucks, NEW q \in Seq(Message), NEW on, NEW s,
           Fine(m, v, on, q \o m.sent[v], s)
    PROVE  Handled(m, Stall(m, v), v, on, q, s)
<1> DEFINE t == TaskOf(m, v)
<1>1. CASE t = None \/ m.ledger.waiting[v] # None
  BY <1>1, NothingHandled DEF Stall
<1>2. CASE ~(t = None \/ m.ledger.waiting[v] # None)
  <2>1. t \in Tasks /\ Carries(m, v, t)
    BY <1>2, TaskOfFacts DEF Fine, Steady
  <2>2. Stall(m, v) = AbandonOrder(Requeue(m, t), v, m.task[t].order)
    BY <1>2 DEF Stall
  <2> HIDE DEF t
  <2>3. QED
    BY <2>1, <2>2, GivenBack, ZenonT(60) DEF Handled, Returned
<1>3. QED
  BY <1>1, <1>2

LEMMA EndAsideCall ==
    ASSUME NEW m, BookOK(m), NEW v \in Trucks, NEW q \in Seq(Message), NEW on, NEW s,
           Fine(m, v, on, q \o m.sent[v], s), Unladen(m, v), m.aside[v] \in Aside,
           NEW done \in BOOLEAN
    PROVE  Handled(m, EndAside(m, v, done), v, on, q, s)
<1> DEFINE over  == [m EXCEPT !.aside[v] = None]
           order == m.aside[v].order
           gone  == IF done THEN over ELSE AbandonOrder(over, v, order)
           n     == Release(gone, v)
<1>1. Kept(m) /\ m \in Books
  BY DEF BookOK, Kept
<1>2. order \in Ids \cup {None}
  BY AsideFields
<1>3. /\ Kept(over) /\ Others(m, over, v)
      /\ over.ledger = m.ledger /\ over.task = m.task /\ over.seen = m.seen
      /\ over.sent = m.sent /\ over.aside[v] = None /\ BookOK(over)
  <2> DEFINE aside == [m.aside EXCEPT ![v] = None]
  <2>1. m.aside \in [Trucks -> Aside \cup {None}]
    BY <1>1, BookTypes
  <2>2. /\ aside \in [Trucks -> Aside \cup {None}] /\ aside[v] = None
        /\ \A u \in Trucks \ {v} : aside[u] = m.aside[u]
    BY <2>1
  <2>3. over = [m EXCEPT !.aside = aside]
    OBVIOUS
  <2> HIDE DEF aside, over
  <2>4. /\ Kept(over) /\ Others(m, over, v)
        /\ over.ledger = m.ledger /\ over.task = m.task /\ over.seen = m.seen
        /\ over.sent = m.sent /\ over.aside = aside /\ BookOK(over)
    BY <1>1, <2>2, <2>3, AsideCall
  <2>5. QED
    BY <2>2, <2>4
<1> HIDE DEF over, order
<1>4. /\ Kept(gone) /\ Others(m, gone, v)
      /\ gone.ledger = m.ledger /\ gone.task = m.task /\ gone.seen = m.seen
      /\ Quiet(m, gone, v) /\ gone.aside[v] = None /\ BookOK(gone)
  <2>1. CASE done
    BY <1>3, <2>1 DEF Quiet
  <2>2. CASE ~done
    <3> DEFINE k == AbandonOrder(over, v, order)
    <3>1. /\ Kept(k) /\ Others(over, k, v)
          /\ k.ledger = over.ledger /\ k.task = over.task /\ k.seen = over.seen
          /\ k.aside = over.aside /\ Quiet(over, k, v)
          /\ BookOK(k)
      BY <1>2, <1>3, AbandonCall
    <3>2. gone = k
      BY <2>2
    <3> HIDE DEF k
    <3>3. Others(m, k, v)
      BY <1>3, <3>1, OthersTransitive
    <3>4. QED
      BY <1>3, <3>1, <3>2, <3>3 DEF Quiet
  <2>3. QED
    BY <2>1, <2>2
<1> HIDE DEF gone
<1>5. /\ Kept(n) /\ Others(gone, n, v)
      /\ n.ledger.standing = gone.ledger.standing
      /\ n.task = gone.task /\ n.seen = gone.seen /\ n.aside = gone.aside /\ n.sent = gone.sent
      /\ BookOK(n)
  BY <1>4, ReleaseCall
<1>6. EndAside(m, v, done) = n
  BY DEF EndAside, gone, over, order
<1> HIDE DEF n
<1>7. Unladen(n, v)
  BY <1>4, <1>5 DEF Unladen, Carries
<1>8. Located(n, v)
  BY <1>4, <1>5 DEF Fine, Located
<1>9. Truck(on, q \o n.sent[v], s)
  <2>1. Quiet(m, n, v)
    BY <1>4, <1>5 DEF Quiet
  <2>2. QED
    BY <1>1, <2>1, QuietWire DEF Fine, Steady
<1>10. Fine(n, v, on, q \o n.sent[v], s)
  BY <1>5, <1>7, <1>8, <1>9, UnladenIsFine
<1>11. Others(m, n, v)
  BY <1>4, <1>5, OthersTransitive
<1>12. QED
  BY <1>5, <1>6, <1>10, <1>11 DEF Handled

-----------------------------------------------------------------------------
(* Orders and updates that go out. *)

\* Nothing at the truck, on its way to it or on its way from it names the order.
New(o, on, q, s) ==
    /\ on.order # o /\ on.refused # o
    /\ Orders(q, o) = {} /\ Updates(q, o) = {}
    /\ s # None => s.order # o /\ s.refused # o

\* One more order, or one more update.
LEMMA MoreOrders ==
    ASSUME NEW q, NEW p, NEW k, More(q, p, k), p[k].kind = "order", NEW o
    PROVE  /\ Orders(q, o) \subseteq DOMAIN q /\ Updates(q, o) \subseteq DOMAIN q
           /\ Updates(p, o) = Updates(q, o)
           /\ p[k].order # o => Orders(p, o) = Orders(q, o)
           /\ p[k].order = o => Orders(p, o) = Orders(q, o) \cup {k}
BY DEF More, Orders, Updates

LEMMA MoreUpdates ==
    ASSUME NEW q, NEW p, NEW k, More(q, p, k), p[k].kind = "update", NEW o
    PROVE  /\ Orders(q, o) \subseteq DOMAIN q /\ Updates(q, o) \subseteq DOMAIN q
           /\ Orders(p, o) = Orders(q, o)
           /\ p[k].order # o => Updates(p, o) = Updates(q, o)
           /\ p[k].order = o => Updates(p, o) = Updates(q, o) \cup {k}
BY DEF More, Orders, Updates

\* An order nobody knows goes out with its leg.
LEMMA WireAfterOrder ==
    ASSUME NEW q, NEW p, NEW k, More(q, p, k), p[k].kind = "order",
           p[k].base \in 1 .. Len(p[k].route),
           NEW on, NEW s, New(p[k].order, on, q, s), WireOK(on, q)
    PROVE  /\ WireOK(on, p)
           /\ \A leg : /\ leg.path = p[k].route /\ leg.released = p[k].base /\ leg.update = 0
                       /\ leg.pending = None /\ leg.last = leg.path[1]
                       => InStep(leg, p[k].order, on, p, s)
<1> DEFINE o == p[k].order
<1>1. DOMAIN p = DOMAIN q \cup {k} /\ k \notin DOMAIN q /\ \A i \in DOMAIN q : p[i] = q[i]
  BY DEF More
<1>2. ASSUME NEW x
      PROVE  /\ Orders(q, x) \subseteq DOMAIN q /\ Updates(q, x) \subseteq DOMAIN q
             /\ Updates(p, x) = Updates(q, x)
             /\ o # x => Orders(p, x) = Orders(q, x)
             /\ o = x => Orders(p, x) = Orders(q, x) \cup {k}
  BY MoreOrders
<1>3. /\ on.order # o /\ on.refused # o /\ Orders(p, o) = {k} /\ Updates(p, o) = {}
      /\ Orders(q, o) = {}
      /\ s # None => s.order # o /\ s.refused # o
  BY <1>2 DEF New
<1>4. ASSUME NEW i \in DOMAIN p, p[i].kind = "order"
      PROVE  /\ p[i].base \in 1 .. Len(p[i].route)
             /\ on.order # p[i].order
             /\ Orders(p, p[i].order) = {i}
             /\ \A j \in Updates(p, p[i].order) :
                   /\ i < j /\ p[j].update = 1
                   /\ p[i].base < p[j].base /\ p[j].base <= Len(p[i].route)
  <2>1. CASE i = k
    BY <1>3, <2>1
  <2>2. CASE i # k
    <3>1. i \in DOMAIN q /\ p[i] = q[i] /\ q[i].kind = "order"
      BY <1>1, <1>4, <2>2
    <3>2. i \in Orders(q, q[i].order)
      BY <3>1 DEF Orders
    <3>3. o # q[i].order
      BY <1>3, <3>2
    <3>4. /\ Orders(p, q[i].order) = Orders(q, q[i].order)
          /\ Updates(p, q[i].order) = Updates(q, q[i].order)
          /\ Updates(q, q[i].order) \subseteq DOMAIN q
      BY <1>2, <3>3
    <3>5. \A j \in Updates(q, q[i].order) : p[j] = q[j]
      BY <1>1, <3>4
    <3>6. /\ q[i].base \in 1 .. Len(q[i].route)
          /\ on.order # q[i].order
          /\ Orders(q, q[i].order) = {i}
          /\ \A j \in Updates(q, q[i].order) :
                /\ i < j /\ q[j].update = 1
                /\ q[i].base < q[j].base /\ q[j].base <= Len(q[i].route)
      BY <3>1 DEF WireOK
    <3>7. QED
      BY <3>1, <3>4, <3>5, <3>6
  <2>3. QED
    BY <2>1, <2>2
<1>5. ASSUME NEW x \in Ids, on.order = x \/ Orders(p, x) # {}
      PROVE  \A i, j \in Updates(p, x) : i = j
  <2>1. CASE x = o
    BY <1>3, <2>1
  <2>2. CASE x # o
    <3>1. Orders(p, x) = Orders(q, x) /\ Updates(p, x) = Updates(q, x)
      BY <1>2, <2>2
    <3>2. QED
      BY <1>5, <3>1 DEF WireOK
  <2>3. QED
    BY <2>1, <2>2
<1>6. ASSUME NEW x \in Ids, on.order = x, NEW i \in Updates(p, x)
      PROVE  /\ on.executing /\ p[i].update = on.update + 1
             /\ on.base < p[i].base /\ p[i].base <= Len(on.route)
  <2>1. i \in Updates(q, x) /\ i \in DOMAIN q
    BY <1>2, <1>6
  <2>2. p[i] = q[i]
    BY <1>1, <2>1
  <2>3. QED
    BY <1>6, <2>1, <2>2 DEF WireOK
<1>7. WireOK(on, p)
  BY <1>4, <1>5, <1>6 DEF WireOK
<1>8. ASSUME NEW leg, leg.path = p[k].route, leg.released = p[k].base, leg.update = 0,
             leg.pending = None, leg.last = leg.path[1]
      PROVE  InStep(leg, o, on, p, s)
  <2> HIDE DEF o
  <2>1. Ordered(leg, o, on, p, s)
    BY <1>3, <1>8 DEF Ordered
  <2>2. Extended(leg, o, on, p)
    BY <1>3 DEF Extended
  <2>3. Driven(leg, o, on, p, s) /\ Reported(leg, o, on, s)
    BY <1>3 DEF Driven, Reported
  <2>4. QED
    BY <2>1, <2>2, <2>3 DEF InStep
<1>9. QED
  BY <1>7, <1>8

\* The leg is extended and the update goes out.
LEMMA WireAfterUpdate ==
    ASSUME NEW q, NEW p, NEW k, More(q, p, k), \A i \in DOMAIN q : i < k,
           p[k].kind = "update", p[k].order \in Ids,
           NEW on, NEW s, TruckOK(on), WireOK(on, q),
           NEW leg \in LegType, LegOK(leg), leg.pending = None, InStep(leg, p[k].order, on, q, s),
           p[k].update = leg.update + 1, p[k].base \in leg.released + 1 .. Len(leg.path),
           NEW ext, ext.path = leg.path, ext.released = leg.released, ext.update = leg.update,
           ext.last = leg.last, ext.pending # None,
           ext.pending.update = p[k].update, ext.pending.released = p[k].base
    PROVE  WireOK(on, p) /\ InStep(ext, p[k].order, on, p, s)
<1> DEFINE o == p[k].order
<1>1. DOMAIN p = DOMAIN q \cup {k} /\ k \notin DOMAIN q /\ \A i \in DOMAIN q : p[i] = q[i]
  BY DEF More
<1>2. ASSUME NEW x
      PROVE  /\ Orders(q, x) \subseteq DOMAIN q /\ Updates(q, x) \subseteq DOMAIN q
             /\ Orders(p, x) = Orders(q, x)
             /\ o # x => Updates(p, x) = Updates(q, x)
             /\ o = x => Updates(p, x) = Updates(q, x) \cup {k}
  BY MoreUpdates
<1> HIDE DEF o
<1>3. on.order = o \/ Orders(q, o) # {} => Updates(q, o) = {} /\ Updates(p, o) = {k}
  <2>1. on.order = o \/ Orders(q, o) # {} => Updates(q, o) = {}
    BY DEF InStep, Extended, o
  <2>2. QED
    BY <1>2, <2>1
<1>4. /\ Ordered(leg, o, on, q, s) /\ Driven(leg, o, on, q, s) /\ Reported(leg, o, on, s)
      /\ p[k].order = o
  BY DEF InStep, o
<1>5. leg.released \in Nat /\ leg.update \in Nat
  BY LegFields
<1>6. ASSUME NEW i \in DOMAIN p, p[i].kind = "order"
      PROVE  /\ p[i].base \in 1 .. Len(p[i].route)
             /\ on.order # p[i].order
             /\ Orders(p, p[i].order) = {i}
             /\ \A j \in Updates(p, p[i].order) :
                   /\ i < j /\ p[j].update = 1
                   /\ p[i].base < p[j].base /\ p[j].base <= Len(p[i].route)
  <2>1. i \in DOMAIN q /\ p[i] = q[i] /\ q[i].kind = "order"
    <3>1. i # k
      BY <1>6
    <3>2. i \in DOMAIN q
      BY <1>1, <3>1
    <3>3. QED
      BY <1>1, <1>6, <3>2
  <2>2. i \in Orders(q, q[i].order) /\ Orders(p, q[i].order) = Orders(q, q[i].order)
    BY <1>2, <2>1 DEF Orders
  <2>3. /\ q[i].base \in 1 .. Len(q[i].route)
        /\ on.order # q[i].order
        /\ Orders(q, q[i].order) = {i}
        /\ \A j \in Updates(q, q[i].order) :
              /\ i < j /\ q[j].update = 1
              /\ q[i].base < q[j].base /\ q[j].base <= Len(q[i].route)
    BY <2>1 DEF WireOK
  <2>4. ASSUME NEW j \in Updates(p, q[i].order)
        PROVE  /\ i < j /\ p[j].update = 1
               /\ q[i].base < p[j].base /\ p[j].base <= Len(q[i].route)
    <3>1. CASE q[i].order = o
      <4>1. j = k
        BY <1>3, <2>2, <2>4, <3>1
      <4>2. q[i].route = leg.path /\ q[i].base = leg.released /\ leg.update = 0
        BY <1>4, <2>2, <3>1 DEF Ordered
      <4>3. i < k
        BY <2>1
      <4>4. p[k].update = 1 /\ leg.released < p[k].base /\ p[k].base <= Len(leg.path)
        BY <1>5, <4>2
      <4>5. QED
        BY <4>1, <4>2, <4>3, <4>4
    <3>2. CASE q[i].order # o
      <4>1. j \in Updates(q, q[i].order) /\ j \in DOMAIN q
        BY <1>2, <2>4, <3>2
      <4>2. p[j] = q[j]
        BY <1>1, <4>1
      <4>3. QED
        BY <2>3, <4>1, <4>2
    <3>3. QED
      BY <3>1, <3>2
  <2>5. QED
    BY <2>1, <2>2, <2>3, <2>4
<1>7. ASSUME NEW x \in Ids, on.order = x \/ Orders(p, x) # {}
      PROVE  \A i, j \in Updates(p, x) : i = j
  <2>0. Orders(p, x) = Orders(q, x)
    BY <1>2
  <2>1. CASE x = o
    BY <1>3, <1>7, <2>0, <2>1
  <2>2. CASE x # o
    <3>1. Updates(p, x) = Updates(q, x)
      BY <1>2, <2>2
    <3>2. QED
      BY <1>7, <2>0, <3>1 DEF WireOK
  <2>3. QED
    BY <2>1, <2>2
<1>8. on.order = o =>
        /\ on.route = leg.path /\ on.update = leg.update /\ on.base = leg.released
        /\ on.executing /\ ~Refuses(o, on, s)
  <2>1. SUFFICES ASSUME on.order = o PROVE /\ on.route = leg.path /\ on.update = leg.update
                                           /\ on.base = leg.released
                                           /\ on.executing /\ ~Refuses(o, on, s)
    OBVIOUS
  <2>2. /\ on.route = leg.path /\ on.update = leg.update /\ on.base = leg.released
        /\ ~Refuses(o, on, s)
    BY <1>4, <2>1 DEF Driven
  <2>3. on.order \in Ids \cup {None}
    BY DEF TruckOK, TruckStates
  <2>4. on.order # None /\ ~on.executing => on.base = Len(on.route)
    BY DEF TruckOK
  <2>5. on.base # Len(on.route)
    BY <1>5, <2>2
  <2>6. on.order # None
    BY <2>1, Nones DEF o
  <2>7. QED
    BY <2>2, <2>4, <2>5, <2>6
<1>9. ASSUME NEW x \in Ids, on.order = x, NEW i \in Updates(p, x)
      PROVE  /\ on.executing /\ p[i].update = on.update + 1
             /\ on.base < p[i].base /\ p[i].base <= Len(on.route)
  <2>1. CASE x = o
    <3>1. i = k
      BY <1>3, <1>9, <2>1
    <3>2. QED
      BY <1>5, <1>8, <1>9, <2>1, <3>1
  <2>2. CASE x # o
    <3>1. i \in Updates(q, x) /\ i \in DOMAIN q
      BY <1>2, <1>9, <2>2
    <3>2. p[i] = q[i]
      BY <1>1, <3>1
    <3>3. QED
      BY <1>9, <3>1, <3>2 DEF WireOK
  <2>3. QED
    BY <2>1, <2>2
<1>10. WireOK(on, p)
  BY <1>6, <1>7, <1>9 DEF WireOK
<1>11. At(ext) = At(leg)
  BY DEF At
<1>12. Ordered(ext, o, on, p, s)
  <2>1. \A i \in Orders(q, o) : p[i] = q[i]
    BY <1>1, <1>2
  <2>2. QED
    BY <1>2, <1>4, <2>1 DEF Ordered
<1>13. Extended(ext, o, on, p)
  BY <1>2, <1>3 DEF Extended
<1>14. Driven(ext, o, on, p, s)
  BY <1>4, <1>8, <1>11 DEF Driven, Refuses
<1>15. Reported(ext, o, on, s)
  BY <1>4, <1>11 DEF Reported
<1>16. QED
  BY <1>10, <1>12, <1>13, <1>14, <1>15 DEF InStep, o

-----------------------------------------------------------------------------
(* New ids. *)

UuidsNeverRunOut == \A S \in SUBSET Ids : IsFiniteSet(S) => Ids \ S # {}

LEMMA FiniteImage ==
    ASSUME NEW S, IsFiniteSet(S), NEW f
    PROVE  IsFiniteSet({f[x] : x \in S})
<1> DEFINE T == {f[x] : x \in S}
           g == [x \in S |-> f[x]]
<1>1. g \in Surjection(S, T)
  BY DEF Surjection
<1>2. QED
  BY <1>1, FS_Surjection

LEMMA FiniteRange ==
    ASSUME NEW T, NEW q \in Seq(T)
    PROVE  IsFiniteSet(Range(q))
<1>1. Len(q) \in Nat /\ DOMAIN q = 1 .. Len(q)
  BY LenProperties
<1>2. IsFiniteSet(DOMAIN q)
  BY <1>1, FS_Interval
<1>3. IsFiniteSet({q[i] : i \in DOMAIN q})
  BY <1>2, FiniteImage
<1>4. QED
  BY <1>3 DEF Range

LEMMA FiniteUnionOver ==
    ASSUME NEW S, IsFiniteSet(S), NEW f, \A x \in S : IsFiniteSet(f[x])
    PROVE  IsFiniteSet(UNION {f[x] : x \in S})
<1>1. IsFiniteSet({f[x] : x \in S})
  BY FiniteImage
<1>2. \A y \in {f[x] : x \in S} : IsFiniteSet(y)
  OBVIOUS
<1>3. QED
  BY <1>1, <1>2, FS_UNION

\* The orders a list of messages names.
Named(q) == {msg.order : msg \in {n \in Range(q) : n.kind # "cancel"}}

LEMMA NamedIsFinite ==
    ASSUME NEW T, NEW q \in Seq(T)
    PROVE  IsFiniteSet(Named(q))
<1> DEFINE S == {n \in Range(q) : n.kind # "cancel"}
           f == [n \in S |-> n.order]
<1>1. IsFiniteSet(S)
  BY FiniteRange, FS_Subset
<1>2. IsFiniteSet({f[n] : n \in S})
  <2> HIDE DEF f, S
  <2>1. QED
    BY <1>1, FiniteImage
<1>3. {f[n] : n \in S} = Named(q)
  BY DEF Named
<1>4. QED
  BY <1>2, <1>3

LEMMA NamedInWire ==
    ASSUME NEW q, NEW i \in DOMAIN q, q[i].kind = "order" \/ q[i].kind = "update"
    PROVE  q[i].order \in Named(q)
BY DEF Named, Range

LEMMA FreshIdIsFresh ==
    ASSUME UuidsNeverRunOut, NEW m \in Books, NEW known, IsFiniteSet(known), NEW o,
           o = FreshId(m, known)
    PROVE  o \in Ids /\ o \notin known /\ \A v \in Trucks : o \notin Named(m.sent[v])
<1> DEFINE A == {m.task[t].order : t \in Tasks}
           B == {m.chase[v] : v \in Trucks}
           C == {m.seen[v].order : v \in Trucks}
           D == {m.seen[v].fin : v \in Trucks}
           moved == {u \in Trucks : m.aside[u] # None}
           E == {m.aside[v].order : v \in moved}
           F == UNION {Named(m.sent[v]) : v \in Trucks}
           used == known \cup A \cup B \cup C \cup D \cup E \cup F
<1>1. IsFiniteSet(Tasks) /\ IsFiniteSet(Trucks) /\ IsFiniteSet(moved)
  BY FloorConstants, FloorAssumption, FS_Subset
<1>2. IsFiniteSet(A)
  <2> DEFINE f == [t \in Tasks |-> m.task[t].order]
  <2>1. IsFiniteSet({f[t] : t \in Tasks})
    <3> HIDE DEF f
    <3>1. QED
      BY <1>1, FiniteImage
  <2>2. QED
    BY <2>1
<1>3. IsFiniteSet(B)
  BY <1>1, FiniteImage
<1>4. IsFiniteSet(C)
  <2> DEFINE f == [v \in Trucks |-> m.seen[v].order]
  <2>1. IsFiniteSet({f[v] : v \in Trucks})
    <3> HIDE DEF f
    <3>1. QED
      BY <1>1, FiniteImage
  <2>2. QED
    BY <2>1
<1>5. IsFiniteSet(D)
  <2> DEFINE f == [v \in Trucks |-> m.seen[v].fin]
  <2>1. IsFiniteSet({f[v] : v \in Trucks})
    <3> HIDE DEF f
    <3>1. QED
      BY <1>1, FiniteImage
  <2>2. QED
    BY <2>1
<1>6. IsFiniteSet(E)
  <2> DEFINE f == [v \in moved |-> m.aside[v].order]
  <2>1. IsFiniteSet({f[v] : v \in moved})
    <3> HIDE DEF f, moved
    <3>1. QED
      BY <1>1, FiniteImage
  <2>2. {f[v] : v \in moved} = E
    OBVIOUS
  <2>3. QED
    BY <2>1, <2>2
<1>7. IsFiniteSet(F)
  <2> DEFINE f == [v \in Trucks |-> Named(m.sent[v])]
  <2>1. \A v \in Trucks : IsFiniteSet(Named(m.sent[v]))
    BY BookTypes, NamedIsFinite
  <2>2. IsFiniteSet(UNION {f[v] : v \in Trucks})
    <3>1. \A v \in Trucks : IsFiniteSet(f[v])
      BY <2>1
    <3> HIDE DEF f
    <3>2. QED
      BY <1>1, <3>1, FiniteUnionOver
  <2>3. {f[v] : v \in Trucks} = {Named(m.sent[v]) : v \in Trucks}
    OBVIOUS
  <2>4. QED
    BY <2>2, <2>3
<1>8. o = Min(Ids \ used)
  BY DEF FreshId, Named
<1> HIDE DEF A, B, C, D, E, F
<1>9. IsFiniteSet(used)
  <2>1. IsFiniteSet(known \cup A)
    BY <1>2, FS_Union
  <2>2. IsFiniteSet((known \cup A) \cup B)
    BY <1>3, <2>1, FS_Union
  <2>3. IsFiniteSet((known \cup A \cup B) \cup C)
    BY <1>4, <2>2, FS_Union
  <2>4. IsFiniteSet((known \cup A \cup B \cup C) \cup D)
    BY <1>5, <2>3, FS_Union
  <2>5. IsFiniteSet((known \cup A \cup B \cup C \cup D) \cup E)
    BY <1>6, <2>4, FS_Union
  <2>6. IsFiniteSet((known \cup A \cup B \cup C \cup D \cup E) \cup F)
    BY <1>7, <2>5, FS_Union
  <2>7. QED
    BY <2>6
<1>10. Ids \ used # {} /\ Ids \ used \in SUBSET Nat
  <2> HIDE DEF used
  <2>1. IsFiniteSet(used \cap Ids) /\ used \cap Ids \in SUBSET Ids
    BY <1>9, FS_Subset
  <2>2. Ids \ (used \cap Ids) # {}
    BY <2>1 DEF UuidsNeverRunOut
  <2>3. QED
    BY <2>2, FloorConstants
<1>11. o \in Ids \ used
  <2> HIDE DEF used
  <2>1. QED
    BY <1>8, <1>10, MinIsLeast
<1>12. QED
  BY <1>11 DEF F

\* The ids a truck, what is under way to it and what it last said still name.
Knows(known, on, q, s) ==
    /\ IsFiniteSet(known)
    /\ {on.order, on.refused} \cup Named(q) \subseteq known
    /\ s # None => {s.order, s.refused} \subseteq known

LEMMA FreshIdIsNew ==
    ASSUME UuidsNeverRunOut, NEW m \in Books, NEW v \in Trucks, NEW known,
           NEW on, NEW q \in Seq(Message), NEW s, Knows(known, on, q, s),
           NEW o, o = FreshId(m, known)
    PROVE  o \in Ids /\ New(o, on, q \o m.sent[v], s)
<1>1. o \in Ids /\ o \notin known /\ o \notin Named(m.sent[v])
  BY FreshIdIsFresh DEF Knows
<1>2. m.sent[v] \in Seq(Message)
  BY BookTypes
<1> DEFINE r == m.sent[v]
           p == q \o r
<1> HIDE DEF r
<1>3. /\ Len(q) \in Nat /\ Len(r) \in Nat /\ DOMAIN q = 1 .. Len(q) /\ DOMAIN r = 1 .. Len(r)
      /\ DOMAIN p = 1 .. Len(q) + Len(r)
      /\ \A i \in 1 .. Len(q) + Len(r) : p[i] = IF i <= Len(q) THEN q[i] ELSE r[i - Len(q)]
  BY <1>2, ConcatProperties, LenProperties DEF r
<1> HIDE DEF p
<1>4. ASSUME NEW i \in DOMAIN p, p[i].kind = "order" \/ p[i].kind = "update"
      PROVE  p[i].order # o
  <2>1. CASE i <= Len(q)
    <3>1. i \in DOMAIN q /\ p[i] = q[i]
      BY <1>3, <2>1
    <3>2. q[i].order \in Named(q)
      BY <1>4, <3>1, NamedInWire
    <3>3. QED
      BY <1>1, <3>1, <3>2 DEF Knows
  <2>2. CASE i > Len(q)
    <3>1. i - Len(q) \in DOMAIN r /\ p[i] = r[i - Len(q)]
      BY <1>3, <2>2
    <3>2. r[i - Len(q)].order \in Named(r)
      BY <1>4, <3>1, NamedInWire
    <3>3. QED
      BY <1>1, <3>1, <3>2 DEF r
  <2>3. QED
    BY <1>3, <2>1, <2>2
<1>5. Orders(p, o) = {} /\ Updates(p, o) = {}
  BY <1>4 DEF Orders, Updates
<1>6. QED
  BY <1>1, <1>5 DEF New, Knows, p, r

-----------------------------------------------------------------------------
(* The calls that send an order or an update. *)

\* The list p is w with the message msg behind it, at k.
Sends(w, p, k, msg) == More(w, p, k) /\ p[k] = msg /\ \A i \in DOMAIN w : i < k

LEMMA MoreOnWire ==
    ASSUME NEW w \in Seq(Message), NEW msg \in Message, NEW p, p = Append(w, msg)
    PROVE  p \in Seq(Message) /\ \E k : Sends(w, p, k, msg)
<1>1. Len(w) \in Nat /\ DOMAIN w = 1 .. Len(w)
  BY LenProperties
<1>2. p \in Seq(Message) /\ More(w, p, Len(w) + 1) /\ p[Len(w) + 1] = msg
  BY Appended DEF More
<1>3. \A i \in DOMAIN w : i < Len(w) + 1
  BY <1>1
<1>4. Sends(w, p, Len(w) + 1, msg)
  BY <1>2, <1>3 DEF Sends
<1>5. QED
  BY <1>2, <1>4

LEMMA SentOnWire ==
    ASSUME NEW q \in Seq(Message), NEW r \in Seq(Message), NEW msg \in Message
    PROVE  /\ q \o Append(r, msg) \in Seq(Message)
           /\ \E k : Sends(q \o r, q \o Append(r, msg), k, msg)
<1> DEFINE w == q \o r
           p == q \o Append(r, msg)
<1>1. w \in Seq(Message) /\ p = Append(w, msg)
  BY AppendToConcat
<1> HIDE DEF w, p
<1>2. p \in Seq(Message) /\ \E k : Sends(w, p, k, msg)
  BY <1>1, MoreOnWire
<1>3. QED
  BY <1>2 DEF w, p

OrderOf(o, route, base, action) ==
    [kind |-> "order", order |-> o, route |-> route, base |-> base, action |-> action]
UpdateOf(o, update, base) == [kind |-> "update", order |-> o, update |-> update, base |-> base]

LEMMA OrderIsMessage ==
    ASSUME NEW o \in Ids, NEW route \in Paths, NEW base \in Nat, NEW action \in BOOLEAN,
           NEW msg, msg = OrderOf(o, route, base, action)
    PROVE  /\ msg \in Message /\ msg.kind = "order" /\ msg.order = o
           /\ msg.route = route /\ msg.base = base
BY DEF Message, OrderMsg, OrderOf

LEMMA UpdateIsMessage ==
    ASSUME NEW o \in Ids, NEW update \in Nat, NEW base \in Nat,
           NEW msg, msg = UpdateOf(o, update, base)
    PROVE  /\ msg \in Message /\ msg.kind = "update" /\ msg.order = o
           /\ msg.update = update /\ msg.base = base
BY DEF Message, UpdateMsg, UpdateOf

\* An order goes out that nobody knows.
LEMMA OrderSent ==
    ASSUME NEW q \in Seq(Message), NEW r \in Seq(Message), NEW msg \in Message,
           msg.kind = "order", msg.base \in 1 .. Len(msg.route),
           NEW on, NEW s, Truck(on, q \o r, s), New(msg.order, on, q \o r, s),
           NEW r2, r2 = Append(r, msg)
    PROVE  /\ Truck(on, q \o r2, s)
           /\ \A leg : /\ leg.path = msg.route /\ leg.released = msg.base /\ leg.update = 0
                       /\ leg.pending = None /\ leg.last = leg.path[1]
                       => InStep(leg, msg.order, on, q \o r2, s)
<1> DEFINE w == q \o r
           p == q \o r2
<1>1. p \in Seq(Message) /\ \E k : Sends(w, p, k, msg)
  BY SentOnWire
<1> HIDE DEF w, p
<1>2. PICK k : More(w, p, k) /\ p[k] = msg
  BY <1>1 DEF Sends
<1>3. WireOK(on, w) /\ New(msg.order, on, w, s)
  BY DEF Truck, w
<1>4. /\ p[k].kind = "order" /\ p[k].base \in 1 .. Len(p[k].route)
      /\ New(p[k].order, on, w, s)
  BY <1>2, <1>3
<1>5. /\ WireOK(on, p)
      /\ \A leg : /\ leg.path = p[k].route /\ leg.released = p[k].base /\ leg.update = 0
                  /\ leg.pending = None /\ leg.last = leg.path[1]
                  => InStep(leg, p[k].order, on, p, s)
  BY <1>2, <1>3, <1>4, WireAfterOrder
<1>6. Truck(on, p, s)
  BY <1>1, <1>5 DEF Truck
<1>7. QED
  BY <1>2, <1>5, <1>6 DEF p

\* _pump_aside
LEMMA PumpAsideCall ==
    ASSUME UuidsNeverRunOut,
           NEW m, BookOK(m), NEW v \in Trucks, NEW q \in Seq(Message), NEW on, NEW s,
           Fine(m, v, on, q \o m.sent[v], s),
           NEW known, Knows(known, on, q, s), NEW late
    PROVE  Handled(m, PumpAside(m, v, late, known), v, on, q, s)
<1> DEFINE entry == m.aside[v]
           order == FreshId(m, known)
           moved == entry.order # None /\ m.seen[v].order # entry.order
                    /\ (entry.seen \/ Stands(m, v) = entry.node)
           asked == [m EXCEPT !.aside[v].order = order]
           route == <<entry.node>>
           told  == Send(asked, v, OrderOf(order, route, 1, FALSE))
           noted == [m EXCEPT !.aside[v].seen = TRUE]
           pumped == IF entry.order = None /\ m.seen[v].order = None THEN told
                     ELSE IF entry.order # None /\ m.seen[v].order = entry.order THEN noted
                     ELSE m
<1>1. Kept(m) /\ m \in Books /\ m.aside \in [Trucks -> Aside \cup {None}]
  BY BookTypes DEF BookOK, Kept
<1>2. CASE entry = None
  BY <1>2, NothingHandled DEF PumpAside
<1>3. CASE entry # None
  <2>1. /\ entry \in Aside /\ entry.node \in Nodes /\ entry.order \in Ids \cup {None}
        /\ entry.seen \in BOOLEAN
    <3>1. entry \in Aside
      BY <1>1, <1>3
    <3>2. QED
      BY <3>1, AsideFields
  <2>2. order \in Ids /\ New(order, on, q \o m.sent[v], s)
    BY <1>1, FreshIdIsNew
  <2>3. PumpAside(m, v, late, known) =
          IF moved THEN EndAside(m, v, TRUE)
          ELSE IF v \in late THEN EndAside(pumped, v, FALSE) ELSE pumped
    BY <1>3 DEF PumpAside, OrderOf
  <2>4. Unladen(m, v) /\ Located(m, v) /\ m.ledger.standing[v] \in Nodes
    BY <1>3, Nones DEF Fine, Steady, Settled, Unladen, Carries, Located
  <2>5. Truck(on, q \o m.sent[v], s) /\ m.sent[v] \in Seq(Message)
    BY <1>1, BookTypes DEF Fine, Steady
  <2> HIDE DEF order
  <2>6. Handled(m, told, v, on, q, s) /\ told.aside[v] \in Aside /\ Unladen(told, v)
    <3> DEFINE aside == [m.aside EXCEPT ![v] = [entry EXCEPT !.order = order]]
    <3>1. [entry EXCEPT !.order = order] \in Aside
      BY <2>1, <2>2 DEF Aside
    <3>2. /\ aside \in [Trucks -> Aside \cup {None}] /\ aside[v] \in Aside
          /\ \A u \in Trucks \ {v} : aside[u] = m.aside[u]
      BY <1>1, <3>1
    <3>3. asked = [m EXCEPT !.aside = aside]
      OBVIOUS
    <3> HIDE DEF aside, asked
    <3>4. /\ Kept(asked) /\ Others(m, asked, v)
          /\ asked.ledger = m.ledger /\ asked.task = m.task /\ asked.seen = m.seen
          /\ asked.sent = m.sent /\ asked.aside = aside /\ BookOK(asked)
      BY <1>1, <3>2, <3>3, AsideCall
    <3> DEFINE msg == OrderOf(order, route, 1, FALSE)
    <3>5. route \in Paths /\ 1 \in 1 .. Len(route)
      <4>1. route \in Seq(Nodes) /\ route # << >> /\ IsInjective(route) /\ Len(route) = 1
        BY <2>1 DEF IsInjective
      <4>2. \A i \in 1 .. Len(route) - 1 : Edge(route[i], route[i + 1]) \in Links
        BY <4>1
      <4>3. QED
        BY <4>1, <4>2 DEF Paths
    <3> HIDE DEF route
    <3>6. msg \in Message
      BY <2>2, <3>5, OrderIsMessage
    <3> HIDE DEF msg
    <3>7. told = Send(asked, v, msg)
      BY DEF msg
    <3> HIDE DEF told
    <3>8. /\ Kept(told) /\ Others(asked, told, v)
          /\ told.ledger = asked.ledger /\ told.task = asked.task /\ told.seen = asked.seen
          /\ told.aside = asked.aside /\ told.sent[v] = Append(asked.sent[v], msg)
          /\ BookOK(told)
      <4>1. Kept(asked) /\ BookOK(asked)
        BY <3>4
      <4>2. QED
        BY <3>6, <3>7, <4>1, SendCall, SMTT(40)
    <3>9. Truck(on, q \o told.sent[v], s)
      <4>1. told.sent[v] = Append(m.sent[v], msg)
        BY <3>4, <3>8
      <4>2. QED
        <5>0. msg.kind = "order" /\ msg.order = order /\ msg.base = 1 /\ msg.route = route
          BY DEF msg, OrderOf
        <5>1. /\ msg.kind = "order" /\ msg.base \in 1 .. Len(msg.route)
              /\ New(msg.order, on, q \o m.sent[v], s)
          BY <2>2, <3>5, <5>0
        <5>2. QED
          BY <2>5, <3>6, <4>1, <5>1, OrderSent
    <3>10. Unladen(told, v) /\ Located(told, v)
      BY <2>4, <3>4, <3>8 DEF Unladen, Carries, Located
    <3>11. Fine(told, v, on, q \o told.sent[v], s)
      BY <3>8, <3>9, <3>10, UnladenIsFine
    <3>12. Others(m, told, v)
      BY <3>4, <3>8, OthersTransitive
    <3>13. Handled(m, told, v, on, q, s)
      BY <3>8, <3>11, <3>12 DEF Handled
    <3>14. QED
      BY <3>2, <3>4, <3>8, <3>10, <3>13
  <2>7. Handled(m, noted, v, on, q, s) /\ noted.aside[v] \in Aside /\ Unladen(noted, v)
    <3> DEFINE aside == [m.aside EXCEPT ![v] = [entry EXCEPT !.seen = TRUE]]
    <3>1. [entry EXCEPT !.seen = TRUE] \in Aside
      BY <2>1 DEF Aside
    <3>2. /\ aside \in [Trucks -> Aside \cup {None}] /\ aside[v] \in Aside
          /\ \A u \in Trucks \ {v} : aside[u] = m.aside[u]
      BY <1>1, <3>1
    <3>3. noted = [m EXCEPT !.aside = aside]
      OBVIOUS
    <3> HIDE DEF aside, noted
    <3>4. /\ Kept(noted) /\ Others(m, noted, v)
          /\ noted.ledger = m.ledger /\ noted.task = m.task /\ noted.seen = m.seen
          /\ noted.sent = m.sent /\ noted.aside = aside /\ BookOK(noted)
      BY <1>1, <3>2, <3>3, AsideCall
    <3>10. Unladen(noted, v) /\ Located(noted, v)
      BY <2>4, <3>4 DEF Unladen, Carries, Located
    <3>11. Fine(noted, v, on, q \o noted.sent[v], s)
      BY <2>5, <3>4, <3>10, UnladenIsFine
    <3>13. Handled(m, noted, v, on, q, s)
      BY <3>4, <3>11 DEF Handled
    <3>14. QED
      BY <3>2, <3>4, <3>10, <3>13
  <2>8. Handled(m, m, v, on, q, s)
    BY NothingHandled
  <2> HIDE DEF told, noted
  <2>9. Handled(m, pumped, v, on, q, s) /\ pumped.aside[v] \in Aside /\ Unladen(pumped, v)
    BY <2>1, <2>4, <2>6, <2>7, <2>8
  <2> HIDE DEF pumped, moved
  <2>10. Handled(m, EndAside(m, v, TRUE), v, on, q, s)
    BY <2>1, <2>4, EndAsideCall
  <2>11. Handled(m, EndAside(pumped, v, FALSE), v, on, q, s)
    <3>1. /\ BookOK(pumped) /\ Others(m, pumped, v)
          /\ Fine(pumped, v, on, q \o pumped.sent[v], s)
      BY <2>9 DEF Handled
    <3>2. Handled(pumped, EndAside(pumped, v, FALSE), v, on, q, s)
      BY <2>9, <3>1, EndAsideCall
    <3>3. QED
      BY <3>1, <3>2, HandledAfter
  <2>12. QED
    BY <2>3, <2>9, <2>10, <2>11
<1>4. QED
  BY <1>2, <1>3

-----------------------------------------------------------------------------
(* Legs. *)

\* The floor of a whole path, asked for from its first node.
LEMMA HoldPath ==
    ASSUME NEW l \in LedgerType, Consistent(l), NEW v \in Vehicles, NEW p \in Paths
    PROVE  LET c == NodeCount(Grant(l, v, RouteElements(p)))
               k == Hold(l, v, RouteElements(p))
           IN  /\ OnlyFor(l, k, v) /\ k.yielded = l.yielded /\ k.standing = l.standing
               /\ c \in 0 .. Len(p)
               /\ Seated(k.held[v], RouteElements(p), 1, 2 * c - 1)
<1>1. p \in Seq(Nodes) /\ Len(p) \in Nat /\ 1 \in 1 .. Len(p)
  BY PathFacts
<1>2. SubSeq(p, 1, Len(p)) = p
  BY <1>1
<1> DEFINE c == NodeCount(Grant(l, v, RouteElements(SubSeq(p, 1, Len(p)))))
           k == Hold(l, v, RouteElements(SubSeq(p, 1, Len(p))))
<1>3. /\ OnlyFor(l, k, v) /\ k.yielded = l.yielded /\ k.standing = l.standing
      /\ c \in 0 .. Len(p) + 1 - 1
      /\ Seated(k.held[v], RouteElements(p), 2 * 1 - 1, 2 * (1 - 1 + c) - 1)
  BY <1>1, HoldSeats
<1> HIDE DEF c, k
<1>4. /\ c \in 0 .. Len(p) /\ 2 * 1 - 1 = 1 /\ 2 * (1 - 1 + c) - 1 = 2 * c - 1
  BY <1>1, <1>3
<1>5. /\ OnlyFor(l, k, v) /\ k.yielded = l.yielded /\ k.standing = l.standing
      /\ c \in 0 .. Len(p)
      /\ Seated(k.held[v], RouteElements(p), 1, 2 * c - 1)
  BY <1>3, <1>4
<1>6. /\ c = NodeCount(Grant(l, v, RouteElements(p)))
      /\ k = Hold(l, v, RouteElements(p))
  BY <1>2 DEF c, k
<1>7. QED
  BY <1>5, <1>6

Leg(path, released, update, pending, last) ==
    [path |-> path, released |-> released, update |-> update, pending |-> pending, last |-> last]

LEMMA LegOfFields ==
    ASSUME NEW a \in Paths, NEW b \in Nat, NEW c \in Nat, NEW d \in Extension \cup {None},
           NEW e \in Nodes, NEW x, x = Leg(a, b, c, d, e)
    PROVE  /\ x \in LegType /\ x.path = a /\ x.released = b /\ x.update = c
           /\ x.pending = d /\ x.last = e
BY DEF LegType, Leg

\* A leg on a path that starts under the truck, with what was granted of it.
LEMMA NewLeg ==
    ASSUME NEW p \in Paths, NEW c \in 1 .. Len(p),
           NEW leg, leg = Leg(p, c, 0, None, p[1])
    PROVE  /\ leg \in LegType /\ LegOK(leg)
           /\ leg.path = p /\ leg.released = c /\ leg.update = 0 /\ leg.pending = None
           /\ leg.last = p[1]
           /\ \A held : Seated(held, RouteElements(p), 1, 2 * c - 1) => Backed(held, leg)
<1>1. Len(p) \in Nat /\ 1 \in 1 .. Len(p) /\ c \in Nat
  BY PathFacts
<1>2. p[1] \in Range(p) /\ p[1] \in Nodes /\ IndexOf(p, p[1]) = 1
  BY <1>1, IndexOfNode
<1>3. /\ leg \in LegType
      /\ leg.path = p /\ leg.released = c /\ leg.update = 0 /\ leg.pending = None
      /\ leg.last = p[1]
  BY <1>1, <1>2, LegOfFields
<1>4. LegOK(leg)
  BY <1>2, <1>3 DEF LegOK
<1>5. At(leg) = 1 /\ Bases(leg) = c /\ 2 * 1 - 1 = 1
  BY <1>2, <1>3 DEF At, Bases
<1>6. \A held : Seated(held, RouteElements(p), 1, 2 * c - 1) => Backed(held, leg)
  BY <1>3, <1>5 DEF Backed
<1>7. QED
  BY <1>3, <1>4, <1>6

\* The task a truck carries is the only one that may have a leg of it.
LEMMA OnlyLeg ==
    ASSUME NEW m, \A y \in Tasks : Shape(m.task[y]), NEW v, NEW t \in Tasks,
           \A y \in Tasks \ {t} : ~Carries(m, v, y)
    PROVE  \A y \in Tasks : m.task[y].by = v /\ m.task[y].leg # None => y = t
BY DEF Shape, Carries

Replaced(m, n, t, x) == \A y \in Tasks : n.task[y] = IF y = t THEN x ELSE m.task[y]

\* The floor and a task change together ...
Written(m, k, t, x) == [[m EXCEPT !.ledger = k] EXCEPT !.task[t] = x]

Writes(m, v, k, t, x) ==
    /\ Kept(m) /\ v \in Trucks /\ OnlyFor(m.ledger, k, v)
    /\ t \in Tasks /\ x \in TaskType /\ m.task[t].by \in {v, None} /\ x.by \in {v, None}
Wrote(m, v, k, t, x, n) ==
    /\ Kept(n) /\ Others(m, n, v)
    /\ n.ledger = k /\ n.seen = m.seen /\ n.aside = m.aside /\ n.sent = m.sent
    /\ Replaced(m, n, t, x)

LEMMA WrittenCall ==
    ASSUME NEW m, NEW v, NEW k, NEW t, NEW x, Writes(m, v, k, t, x)
    PROVE  Wrote(m, v, k, t, x, Written(m, k, t, x))
<1>0. /\ Kept(m) /\ v \in Trucks /\ OnlyFor(m.ledger, k, v)
      /\ t \in Tasks /\ x \in TaskType /\ m.task[t].by \in {v, None} /\ x.by \in {v, None}
  BY DEF Writes
<1> DEFINE held == [m EXCEPT !.ledger = k]
           c    == [m.task EXCEPT ![t] = x]
           n    == Written(m, k, t, x)
<1>1. /\ Kept(held) /\ Others(m, held, v)
      /\ held.ledger = k /\ held.queue = m.queue /\ held.task = m.task /\ held.seen = m.seen
      /\ held.chase = m.chase /\ held.aside = m.aside /\ held.shuffles = m.shuffles
      /\ held.sent = m.sent
  BY <1>0, LedgerCall
<1>2. n = [held EXCEPT !.task[t] = x]
  BY DEF Written
<1> HIDE DEF held, n
<1>3. held \in Books /\ held.task \in [Tasks -> TaskType]
      /\ held.shuffles \in [Trucks -> 0 .. AsideMax]
  BY <1>1, BookTypes DEF Kept
<1>4. n = [held EXCEPT !.task = c]
  BY <1>0, <1>1, <1>2, <1>3, TaskUpdates
<1>5. n = Book(held.ledger, held.queue, c, held.seen, held.chase, held.aside,
               held.shuffles, held.sent)
  BY <1>3, <1>4, BookUpdates
<1>6. c = [held.task EXCEPT ![t] = x] /\ held.task[t].by \in {v, None}
  BY <1>0, <1>1
<1>7. \A y \in Tasks : c[y] = IF y = t THEN x ELSE m.task[y]
  BY <1>0, <1>1, <1>3
<1> HIDE DEF c
<1>8. /\ Kept(n) /\ Others(held, n, v)
      /\ n.ledger = held.ledger /\ n.task = c /\ n.seen = held.seen
      /\ n.aside = held.aside /\ n.sent = held.sent
  <2>1. Kept(held)
    BY <1>1
  <2>2. QED
    BY <1>0, <1>3, <1>5, <1>6, <2>1, TaskCall
<1>9. Others(m, n, v)
  BY <1>1, <1>8, OthersTransitive
<1>10. QED
  BY <1>1, <1>7, <1>8, <1>9 DEF Replaced, Wrote, n

\* ... and the truck is told.
Told(m, k, t, x, v, msg) == Send(Written(m, k, t, x), v, msg)

Asks(m, v, k, t, x, msg) == Writes(m, v, k, t, x) /\ msg \in Message
Answers(m, v, k, t, x, msg, n) ==
    /\ Kept(n) /\ Others(m, n, v)
    /\ n.ledger = k /\ n.seen = m.seen /\ n.aside = m.aside
    /\ Replaced(m, n, t, x)
    /\ n.sent[v] = Append(m.sent[v], msg)

LEMMA ToldCall ==
    ASSUME NEW m, NEW v, NEW k, NEW t, NEW x, NEW msg, Asks(m, v, k, t, x, msg)
    PROVE  Answers(m, v, k, t, x, msg, Told(m, k, t, x, v, msg))
<1> DEFINE w == Written(m, k, t, x)
           n == Told(m, k, t, x, v, msg)
<1>1. Writes(m, v, k, t, x) /\ msg \in Message /\ v \in Trucks
  BY DEF Asks, Writes
<1>2. Wrote(m, v, k, t, x, w)
  BY <1>1, WrittenCall
<1>3. n = Send(w, v, msg)
  BY DEF Told
<1> HIDE DEF w, n
<1>4. /\ Kept(w) /\ Others(m, w, v)
      /\ w.ledger = k /\ w.seen = m.seen /\ w.aside = m.aside /\ w.sent = m.sent
      /\ Replaced(m, w, t, x)
  BY <1>2 DEF Wrote
<1>5. /\ Kept(n) /\ Others(w, n, v)
      /\ n.ledger = w.ledger /\ n.task = w.task /\ n.seen = w.seen
      /\ n.aside = w.aside /\ n.sent[v] = Append(w.sent[v], msg)
  <2>1. Kept(w)
    BY <1>4
  <2>2. QED
    BY <1>1, <1>3, <2>1, SendCall
<1>6. Others(m, n, v)
  BY <1>4, <1>5, OthersTransitive
<1>7. QED
  BY <1>4, <1>5, <1>6 DEF Replaced, Answers, n

\* A grant of nothing goes back.
LEMMA GrantBack ==
    ASSUME NEW m, BookOK(m), NEW v \in Trucks, NEW k, OnlyFor(m.ledger, k, v),
           k.standing = m.ledger.standing,
           NEW n, n = Release([m EXCEPT !.ledger = k], v)
    PROVE  /\ BookOK(n) /\ Others(m, n, v) /\ Quiet(m, n, v)
           /\ n.task = m.task /\ n.seen = m.seen /\ n.aside = m.aside
           /\ n.ledger.standing = m.ledger.standing
<1> DEFINE held == [m EXCEPT !.ledger = k]
<1>1. Kept(m)
  BY DEF BookOK
<1>2. /\ Kept(held) /\ Others(m, held, v) /\ BookOK(held)
      /\ held.ledger = k /\ held.task = m.task /\ held.seen = m.seen
      /\ held.aside = m.aside /\ held.sent = m.sent
  BY <1>1, LedgerCall
<1>5. n = Release(held, v)
  OBVIOUS
<1> HIDE DEF held
<1>3. /\ BookOK(n) /\ Others(held, n, v)
      /\ n.ledger.standing = held.ledger.standing
      /\ n.task = held.task /\ n.seen = held.seen /\ n.aside = held.aside /\ n.sent = held.sent
  BY <1>2, <1>5, ReleaseCall
<1>4. QED
  BY <1>2, <1>3, OthersTransitive DEF Quiet

\* A leg on the floor is fine when its truck has no other task.
LEMMA LegIsFine ==
    ASSUME NEW m, NEW v, NEW t \in Tasks, NEW x, NEW n, \A y \in Tasks : Shape(n.task[y]),
           Replaced(m, n, t, x),
           \A y \in Tasks \ {t} : ~Carries(m, v, y),
           n.ledger.standing[v] \in Nodes, n.aside[v] = None, n.seen = m.seen, Located(m, v),
           n.ledger.standing = m.ledger.standing,
           LegOK(x.leg), v \notin n.ledger.yielded => Backed(n.ledger.held[v], x.leg),
           NEW on, NEW q, NEW s, InStep(x.leg, x.order, on, q, s), Truck(on, q, s)
    PROVE  Fine(n, v, on, q, s)
<1>1. \A y \in Tasks \ {t} : ~Carries(n, v, y)
  BY DEF Carries, Replaced
<1>2. Settled(n, v)
  BY <1>1 DEF Settled
<1>3. Located(n, v)
  BY DEF Located
<1>4. \A y \in Tasks : n.task[y].by = v /\ n.task[y].leg # None => y = t
  <2>1. \A y \in Tasks : Shape(n.task[y])
    OBVIOUS
  <2>2. QED
    BY <1>1, <2>1, OnlyLeg
<1>5. OnLeg(n, v, on, q, s)
  BY <1>4 DEF OnLeg, Replaced
<1>6. QED
  BY <1>2, <1>3, <1>5 DEF Fine, Steady

\* The task that is started, and what is said about it.
Starts(x, v, held) ==
    /\ x.by = v /\ x.state \in {"LEG1", "LEG2"} /\ x.order \in Ids
    /\ x.leg \in LegType /\ LegOK(x.leg) /\ Backed(held, x.leg)
Announces(msg, x) ==
    /\ msg.kind = "order" /\ msg.order = x.order /\ msg.base \in 1 .. Len(msg.route)
    /\ x.leg.path = msg.route /\ x.leg.released = msg.base /\ x.leg.update = 0
    /\ x.leg.pending = None /\ x.leg.last = x.leg.path[1]

LEMMA StartedLeg ==
    ASSUME NEW m, BookOK(m), NEW v \in Trucks, NEW q \in Seq(Message), NEW on, NEW s,
           Fine(m, v, on, q \o m.sent[v], s),
           NEW t \in Tasks, m.task[t].by \in {v, None},
           \A y \in Tasks \ {t} : ~Carries(m, v, y),
           m.ledger.standing[v] \in Nodes, m.aside[v] = None,
           NEW k, OnlyFor(m.ledger, k, v), k.standing = m.ledger.standing,
           NEW x \in TaskType, Starts(x, v, k.held[v]),
           NEW msg \in Message, Announces(msg, x), New(msg.order, on, q \o m.sent[v], s),
           NEW n, n = Told(m, k, t, x, v, msg)
    PROVE  Handled(m, n, v, on, q, s)
<1>1. Kept(m) /\ m.sent[v] \in Seq(Message) /\ \A y \in Tasks : Shape(m.task[y])
  BY BookTypes DEF BookOK, Kept
<1>7. /\ Kept(n) /\ Others(m, n, v)
      /\ n.ledger = k /\ n.seen = m.seen /\ n.aside = m.aside
      /\ Replaced(m, n, t, x)
      /\ n.sent[v] = Append(m.sent[v], msg)
  <2>1. Asks(m, v, k, t, x, msg)
    BY <1>1 DEF Starts, Asks, Writes
  <2>2. Answers(m, v, k, t, x, msg, n)
    BY <2>1, ToldCall
  <2>3. QED
    BY <2>2 DEF Answers
<1>8. Shape(x)
  BY LegFields DEF Shape, Starts
<1>9. BookOK(n)
  BY <1>1, <1>7, <1>8 DEF BookOK, Replaced
<1>10. /\ Truck(on, q \o n.sent[v], s)
       /\ InStep(x.leg, x.order, on, q \o n.sent[v], s)
  <2>1. Truck(on, q \o m.sent[v], s)
    BY DEF Fine, Steady
  <2>4. msg.kind = "order" /\ msg.base \in 1 .. Len(msg.route)
    BY DEF Announces
  <2>2. /\ Truck(on, q \o n.sent[v], s)
        /\ \A y : /\ y.path = msg.route /\ y.released = msg.base /\ y.update = 0
                  /\ y.pending = None /\ y.last = y.path[1]
                  => InStep(y, msg.order, on, q \o n.sent[v], s)
    BY <1>1, <1>7, <2>1, <2>4, OrderSent
  <2>3. QED
    BY <2>2 DEF Announces
<1>11. Fine(n, v, on, q \o n.sent[v], s)
  <2>1. Located(m, v)
    BY DEF Fine
  <2>2. /\ \A y \in Tasks : Shape(n.task[y])
        /\ n.ledger.standing[v] \in Nodes /\ n.aside[v] = None
        /\ n.ledger.standing = m.ledger.standing /\ n.seen = m.seen
        /\ LegOK(x.leg) /\ Backed(n.ledger.held[v], x.leg)
    BY <1>7, <1>9 DEF BookOK, Starts
  <2>3. Replaced(m, n, t, x)
    BY <1>7
  <2>4. InStep(x.leg, x.order, on, q \o n.sent[v], s) /\ Truck(on, q \o n.sent[v], s)
    BY <1>10
  <2>5. QED
    BY <2>1, <2>2, <2>3, <2>4, LegIsFine
<1>12. QED
  BY <1>7, <1>9, <1>11 DEF Handled

\* leg_order and _publish_order
LEMMA StartLegCall ==
    ASSUME UuidsNeverRunOut,
           NEW m, BookOK(m), NEW v \in Trucks, NEW q \in Seq(Message), NEW on, NEW s,
           Fine(m, v, on, q \o m.sent[v], s),
           NEW known, Knows(known, on, q, s),
           NEW t \in Tasks, m.task[t].by \in {v, None}, m.task[t].leg = None,
           \A y \in Tasks \ {t} : ~Carries(m, v, y),
           Stands(m, v) \in Nodes, m.aside[v] = None,
           NEW station \in Nodes, NEW next \in {"LEG1", "LEG2"}
    PROVE  Handled(m, StartLeg(m, t, v, station, next, known), v, on, q, s)
<1> DEFINE l        == m.ledger
           path     == Route[Stands(m, v)][station]
           released == NodeCount(Grant(l, v, RouteElements(path)))
           order    == FreshId(m, known)
           k        == Hold(l, v, RouteElements(path))
           x        == Task(next, v, order, Leg(path, released, 0, None, path[1]))
           msg      == OrderOf(order, path, released, TRUE)
           n        == StartLeg(m, t, v, station, next, known)
<1>1. /\ m \in Books /\ l \in LedgerType /\ Consistent(l)
      /\ \A y \in Tasks : Shape(m.task[y])
  BY BookTypes DEF BookOK, Kept
<1>2. path \in Paths /\ path[1] = Stands(m, v)
  BY FloorConstants
<1>3. n = IF released < 1 THEN Release([m EXCEPT !.ledger = k], v)
          ELSE Told(m, k, t, x, v, msg)
  BY <1>2 DEF StartLeg, Task, Leg, OrderOf, Told, Written
<1>4. order \in Ids /\ New(order, on, q \o m.sent[v], s)
  BY <1>1, FreshIdIsNew
<1>5. /\ OnlyFor(l, k, v) /\ k.yielded = l.yielded /\ k.standing = l.standing
      /\ released \in 0 .. Len(path)
      /\ Seated(k.held[v], RouteElements(path), 1, 2 * released - 1)
  <2> HIDE DEF path
  <2>1. QED
    BY <1>1, <1>2, HoldPath
<1> HIDE DEF n, order, path, released, k
<1>6. CASE released < 1
  <2>1. n = Release([m EXCEPT !.ledger = k], v)
    BY <1>3, <1>6
  <2>2. /\ BookOK(n) /\ Others(m, n, v) /\ Quiet(m, n, v)
        /\ n.task = m.task /\ n.seen = m.seen /\ n.aside = m.aside
        /\ n.ledger.standing = m.ledger.standing
    BY <1>5, <2>1, GrantBack
  <2>3. \A y \in Tasks : m.task[y].by = v => m.task[y].leg = None
    <3>1. \A y \in Tasks : Shape(m.task[y])
      BY <1>1
    <3>2. QED
      BY <3>1, OnlyLeg
  <2>4. Fine(n, v, on, q \o n.sent[v], s)
    <3>1. /\ n.aside[v] = m.aside[v]
          /\ n.seen[v] = m.seen[v] /\ n.ledger.standing[v] = m.ledger.standing[v]
      BY <2>2
    <3>2. QED
      BY <2>2, <2>3, <3>1, QuietIsFine
  <2>5. QED
    BY <2>2, <2>4 DEF Handled, n
<1>7. CASE ~(released < 1)
  <2>1. released \in 1 .. Len(path)
    BY <1>2, <1>5, <1>7, PathFacts
  <2>2. n = Told(m, k, t, x, v, msg)
    BY <1>3, <1>7
  <2> DEFINE leg == Leg(path, released, 0, None, path[1])
  <2>3. /\ leg \in LegType /\ LegOK(leg)
        /\ leg.path = path /\ leg.released = released /\ leg.update = 0 /\ leg.pending = None
        /\ leg.last = path[1]
        /\ Backed(k.held[v], leg)
    BY <1>2, <1>5, <2>1, NewLeg
  <2> HIDE DEF leg
  <2>4. /\ x \in TaskType /\ x.by = v /\ x.state = next /\ x.order = order /\ x.leg = leg
    BY <1>4, <2>3 DEF TaskType, Task, States, leg
  <2>5. /\ msg \in Message /\ msg.kind = "order" /\ msg.order = order
        /\ msg.route = path /\ msg.base = released
    BY <1>2, <1>4, <2>1 DEF Message, OrderMsg, OrderOf
  <2> HIDE DEF x, msg
  <2>6. /\ m.ledger.standing[v] \in Nodes /\ Starts(x, v, k.held[v]) /\ Announces(msg, x)
        /\ New(msg.order, on, q \o m.sent[v], s)
    BY <1>2, <1>4, <2>1, <2>3, <2>4, <2>5 DEF Stands, Starts, Announces
  <2>7. x \in TaskType /\ msg \in Message
    BY <2>4, <2>5
  <2>8. Handled(m, n, v, on, q, s)
    BY <1>5, <2>2, <2>6, <2>7, StartedLeg
  <2>9. QED
    BY <2>8 DEF n
<1>8. QED
  BY <1>6, <1>7

-----------------------------------------------------------------------------
(* retry_hold *)

\* What is left of a leg, from where its truck was last seen.
LEMMA LegAhead ==
    ASSUME NEW leg \in LegType, LegOK(leg)
    PROVE  /\ At(leg) \in 1 .. Len(leg.path) /\ leg.path[At(leg)] = leg.last
           /\ Rest(leg.path, leg.last) = SubSeq(leg.path, At(leg), Len(leg.path))
           /\ Len(leg.path) - Len(Rest(leg.path, leg.last)) = At(leg) - 1
           /\ Bases(leg) \in 1 .. Len(leg.path)
<1>1. leg.path \in Paths /\ leg.released \in Nat /\ leg.update \in Nat
  BY LegFields
<1>2. Len(leg.path) \in Nat
  BY <1>1, PathFacts
<1>3. At(leg) \in 1 .. Len(leg.path) /\ leg.path[At(leg)] = leg.last
  BY <1>1, IndexOfFacts DEF At, LegOK
<1>4. Rest(leg.path, leg.last) = SubSeq(leg.path, At(leg), Len(leg.path))
  BY <1>2, <1>3 DEF Rest, At
<1>5. Len(SubSeq(leg.path, At(leg), Len(leg.path))) = Len(leg.path) - At(leg) + 1
  <2>1. Len(leg.path) \in At(leg) .. Len(leg.path)
    BY <1>2, <1>3
  <2>2. QED
    BY <1>1, <1>3, <2>1, RestFacts
<1>6. Len(leg.path) - Len(Rest(leg.path, leg.last)) = At(leg) - 1
  BY <1>2, <1>3, <1>4, <1>5
<1>7. Bases(leg) \in 1 .. Len(leg.path)
  BY <1>1, <1>2 DEF Bases, LegOK
<1>8. QED
  BY <1>3, <1>4, <1>6, <1>7

\* What is granted of it.
LEMMA HoldAhead ==
    ASSUME NEW l \in LedgerType, Consistent(l), NEW v \in Vehicles,
           NEW leg \in LegType, LegOK(leg)
    PROVE  LET rest == Rest(leg.path, leg.last)
               k    == Hold(l, v, RouteElements(rest))
               c    == NodeCount(Grant(l, v, RouteElements(rest)))
               far  == Len(leg.path) - Len(rest) + c
           IN  /\ OnlyFor(l, k, v) /\ k.yielded = l.yielded /\ k.standing = l.standing
               /\ far \in At(leg) - 1 .. Len(leg.path)
               /\ Seated(k.held[v], RouteElements(leg.path), 2 * At(leg) - 1, 2 * far - 1)
               /\ At(leg) <= Bases(leg) /\ Backed(l.held[v], leg) => Bases(leg) <= far
<1> DEFINE p    == leg.path
           at   == At(leg)
           rest == Rest(p, leg.last)
           q    == SubSeq(p, at, Len(p))
           k    == Hold(l, v, RouteElements(q))
           c    == NodeCount(Grant(l, v, RouteElements(q)))
<1>1. /\ at \in 1 .. Len(p) /\ rest = q /\ Len(p) - Len(rest) = at - 1
      /\ Bases(leg) \in 1 .. Len(p) /\ p \in Paths
  BY LegAhead, LegFields
<1>2. Len(p) \in Nat
  BY <1>1, PathFacts
<1> HIDE DEF at, rest, p
<1>3. /\ OnlyFor(l, k, v) /\ k.yielded = l.yielded /\ k.standing = l.standing
      /\ c \in 0 .. Len(p) + 1 - at
      /\ Seated(k.held[v], RouteElements(p), 2 * at - 1, 2 * (at - 1 + c) - 1)
      /\ \A b \in at .. Len(p) :
            Seated(l.held[v], RouteElements(p), 2 * at - 1, 2 * b - 1) => b <= at - 1 + c
  BY <1>1, HoldSeats
<1> HIDE DEF k, c
<1>4. at - 1 + c \in at - 1 .. Len(p)
  BY <1>1, <1>2, <1>3, SMTT(40)
<1>5. ASSUME at <= Bases(leg), Backed(l.held[v], leg) PROVE Bases(leg) <= at - 1 + c
  <2>1. Seated(l.held[v], RouteElements(p), 2 * at - 1, 2 * Bases(leg) - 1)
    BY <1>5 DEF Backed, p, at
  <2>2. Bases(leg) \in at .. Len(p)
    BY <1>1, <1>5
  <2>3. QED
    BY <1>3, <2>1, <2>2
<1>6. Len(p) - Len(rest) + c = at - 1 + c
  BY <1>1
<1>7. /\ k = Hold(l, v, RouteElements(rest))
      /\ c = NodeCount(Grant(l, v, RouteElements(rest)))
  BY <1>1 DEF k, c
<1>8. QED
  BY <1>3, <1>4, <1>5, <1>6, <1>7 DEF p, at, rest

LEMMA MaxOfTwo ==
    ASSUME NEW a \in Nat, NEW b \in Nat
    PROVE  Max({a, b}) = IF b <= a THEN a ELSE b
<1> DEFINE S == {a, b}
           top == IF b <= a THEN a ELSE b
<1>1. top \in Nat /\ S \in SUBSET (0 .. top) /\ top \in S /\ \A y \in S : y <= top
  OBVIOUS
<1>2. Max(S) \in S /\ \A y \in S : y <= Max(S)
  <2> HIDE DEF S, top
  <2>1. S # {}
    BY <1>1
  <2>2. QED
    BY <1>1, <2>1, MaxIsGreatest
<1>3. Max(S) = top
  <2> HIDE DEF S, top
  <2>1. Max(S) <= top /\ top <= Max(S) /\ Max(S) \in 0 .. top
    BY <1>1, <1>2
  <2>2. QED
    BY <1>1, <2>1
<1>4. QED
  BY <1>3

Extend(leg, update, released) ==
    Leg(leg.path, leg.released, leg.update, [update |-> update, released |-> released], leg.last)

\* The legs of a book are where they were.
SameLegs(m, n) ==
    \A y \in Tasks : /\ n.task[y].by = m.task[y].by /\ n.task[y].state = m.task[y].state
                     /\ n.task[y].leg # None <=> m.task[y].leg # None

LEMMA SameLegsInFlight ==
    ASSUME NEW m, NEW n, SameLegs(m, n)
    PROVE  InFlight(n) = InFlight(m)
BY DEF SameLegs, InFlight

\* The body of retry_hold, by cases.
LEMMA RetryHoldCases ==
    ASSUME NEW m \in Books, NEW t \in Tasks, m.task[t].leg \in LegType
    PROVE  LET leg  == m.task[t].leg
               v    == m.task[t].by
               rest == Rest(leg.path, leg.last)
               far  == Len(leg.path) - Len(rest)
                          + NodeCount(Grant(m.ledger, v, RouteElements(rest)))
               k    == Hold(m.ledger, v, RouteElements(rest))
               o    == m.task[t].order
           IN  far \in Nat =>
               RetryHold(m, t) =
                 IF leg.pending # None THEN m
                 ELSE IF far <= leg.released THEN [m EXCEPT !.ledger = k]
                 ELSE Told(m, ClearYield(k, v), t,
                           Task(m.task[t].state, v, o, Extend(leg, leg.update + 1, far)),
                           v, UpdateOf(o, leg.update + 1, far))
<1> DEFINE leg  == m.task[t].leg
           v    == m.task[t].by
           rest == Rest(leg.path, leg.last)
           far  == Len(leg.path) - Len(rest)
                      + NodeCount(Grant(m.ledger, v, RouteElements(rest)))
           k    == Hold(m.ledger, v, RouteElements(rest))
           o    == m.task[t].order
           held == [m EXCEPT !.ledger = k]
           j    == ClearYield(k, v)
           e(r) == [update |-> leg.update + 1, released |-> r]
           top  == Max({leg.released, far})
           grown(r) == [held EXCEPT !.ledger = ClearYield(@, v), !.task[t].leg.pending = e(r)]
           x(r) == Task(m.task[t].state, v, o, Extend(leg, leg.update + 1, r))
<1>0. SUFFICES ASSUME far \in Nat
               PROVE  RetryHold(m, t) =
                        IF leg.pending # None THEN m
                        ELSE IF far <= leg.released THEN [m EXCEPT !.ledger = k]
                        ELSE Told(m, j, t, x(far), v, UpdateOf(o, leg.update + 1, far))
  OBVIOUS
<1>3. RetryHold(m, t) =
        IF leg.pending # None THEN m
        ELSE IF top <= leg.released THEN held
        ELSE Send(grown(top), v, UpdateOf(o, leg.update + 1, top))
  BY DEF RetryHold, UpdateOf
<1> HIDE DEF grown, top, far, k, rest
<1>12. leg \in LegType
  OBVIOUS
<1>1. leg.released \in Nat /\ leg.update \in Nat
  BY <1>12, LegFields
<1>2. top = IF far <= leg.released THEN leg.released ELSE far
  BY <1>0, <1>1, MaxOfTwo DEF top
<1>4. m = Book(m.ledger, m.queue, m.task, m.seen, m.chase, m.aside, m.shuffles, m.sent)
      /\ m.task \in [Tasks -> TaskType]
  BY BookTypes
<1>5. held = Book(k, m.queue, m.task, m.seen, m.chase, m.aside, m.shuffles, m.sent)
  BY BookUpdates
<1>6. [m EXCEPT !.ledger = j] =
        Book(j, m.queue, m.task, m.seen, m.chase, m.aside, m.shuffles, m.sent)
  BY BookUpdates
<1> DEFINE h == [m EXCEPT !.ledger = j]
<1>7. held.ledger = k /\ h.task = m.task
  BY <1>5, <1>6, BookFields
<1>8. [held EXCEPT !.ledger = ClearYield(@, v)] = h
  <2>1. [held EXCEPT !.ledger = ClearYield(@, v)] = [held EXCEPT !.ledger = j]
    BY <1>7
  <2> HIDE DEF held, j, h
  <2>2. [held EXCEPT !.ledger = j] =
          Book(j, m.queue, m.task, m.seen, m.chase, m.aside, m.shuffles, m.sent)
    BY <1>5, SMTT(40) DEF Book
  <2>3. QED
    BY <1>6, <2>1, <2>2 DEF h
<1>9. ASSUME NEW r PROVE grown(r) = [h EXCEPT !.task[t] = x(r)]
  <2>1. grown(r) = [[held EXCEPT !.ledger = ClearYield(@, v)] EXCEPT !.task[t].leg.pending = e(r)]
    BY DEF grown
  <2>2. grown(r) = [h EXCEPT !.task[t].leg.pending = e(r)]
    BY <1>8, <2>1
  <2> HIDE DEF h
  <2>3. [h EXCEPT !.task[t].leg.pending = e(r)] =
          [h EXCEPT !.task[t] = [h.task[t] EXCEPT !.leg = [h.task[t].leg EXCEPT !.pending = e(r)]]]
    OBVIOUS
  <2>4. [h.task[t].leg EXCEPT !.pending = e(r)] = Extend(leg, leg.update + 1, r)
    <3>1. h.task[t].leg = leg
      BY <1>7
    <3>2. leg = [path |-> leg.path, released |-> leg.released, update |-> leg.update,
                 pending |-> leg.pending, last |-> leg.last]
      BY <1>12, LegFields
    <3> HIDE DEF leg
    <3>3. [leg EXCEPT !.pending = e(r)] = Extend(leg, leg.update + 1, r)
      BY <3>2 DEF Extend, Leg
    <3>4. QED
      BY <3>1, <3>3
  <2>5. [h.task[t] EXCEPT !.leg = Extend(leg, leg.update + 1, r)] = x(r)
    <3>1. h.task[t] = m.task[t] /\ m.task[t] \in TaskType
      BY <1>4, <1>7
    <3>2. m.task[t] = [state |-> m.task[t].state, by |-> v, order |-> m.task[t].order,
                       leg |-> leg]
      BY <3>1, TaskFields DEF Task
    <3>3. [m.task[t] EXCEPT !.leg = Extend(leg, leg.update + 1, r)] = x(r)
      BY <3>2 DEF Task
    <3>4. QED
      BY <3>1, <3>3
  <2>6. QED
    BY <2>2, <2>3, <2>4, <2>5
<1> HIDE DEF x, held, leg, v, o, j
<1>10. CASE far <= leg.released
  BY <1>2, <1>3, <1>10, <1>1 DEF held
<1>11. CASE ~(far <= leg.released)
  <2>1. top = far /\ ~(top <= leg.released)
    BY <1>2, <1>11
  <2>2. Send(grown(far), v, UpdateOf(o, leg.update + 1, far)) =
          Told(m, j, t, x(far), v, UpdateOf(o, leg.update + 1, far))
    BY <1>9 DEF Told, Written
  <2>3. QED
    BY <1>3, <1>11, <2>1, <2>2
<1>13. QED
  BY <1>10, <1>11

\* A leg that is extended, and the update that says so.
ExtendsTo(x, y, msg, far) ==
    /\ y.leg \in LegType /\ LegOK(y.leg) /\ y.leg.pending = None
    /\ far \in y.leg.released + 1 .. Len(y.leg.path)
    /\ x = Task(y.state, y.by, y.order, Extend(y.leg, y.leg.update + 1, far))
    /\ msg = UpdateOf(y.order, y.leg.update + 1, far)

LEMMA ExtendedFields ==
    ASSUME NEW x, NEW y, NEW msg, NEW far, y \in TaskType, y.order \in Ids,
           ExtendsTo(x, y, msg, far)
    PROVE  /\ x \in TaskType /\ x.by = y.by /\ x.state = y.state /\ x.order = y.order
           /\ x.leg \in LegType /\ LegOK(x.leg)
           /\ x.leg.path = y.leg.path /\ x.leg.released = y.leg.released
           /\ x.leg.update = y.leg.update /\ x.leg.last = y.leg.last
           /\ x.leg.pending # None
           /\ x.leg.pending.update = msg.update /\ x.leg.pending.released = msg.base
           /\ msg \in Message /\ msg.kind = "update" /\ msg.order = y.order
           /\ msg.update = y.leg.update + 1 /\ msg.base = far
           /\ At(x.leg) = At(y.leg) /\ Bases(x.leg) = far
<1> DEFINE leg == y.leg
           e   == [update |-> leg.update + 1, released |-> far]
           ext == Leg(leg.path, leg.released, leg.update, e, leg.last)
<1>1. /\ leg \in LegType /\ LegOK(leg) /\ leg.pending = None
      /\ far \in leg.released + 1 .. Len(leg.path)
      /\ x = Task(y.state, y.by, y.order, ext)
      /\ msg = UpdateOf(y.order, leg.update + 1, far)
  BY DEF ExtendsTo, Extend
<1>2. leg.path \in Paths /\ leg.released \in Nat /\ leg.update \in Nat /\ leg.last \in Nodes
      /\ leg.last \in Range(leg.path) /\ leg.released \in 1 .. Len(leg.path)
  BY <1>1, LegFields DEF LegOK
<1>3. Len(leg.path) \in Nat /\ far \in Nat
  BY <1>1, <1>2, PathFacts
<1>4. e \in Extension /\ e.update = leg.update + 1 /\ e.released = far /\ e # None
  BY <1>2, <1>3, Nones DEF Extension
<1> HIDE DEF leg, e
<1>5. /\ ext \in LegType /\ ext.path = leg.path /\ ext.released = leg.released
      /\ ext.update = leg.update /\ ext.pending = e /\ ext.last = leg.last
  BY <1>2, <1>4 DEF LegType, Leg
<1> HIDE DEF ext
<1>6. LegOK(ext)
  BY <1>1, <1>2, <1>4, <1>5 DEF LegOK
<1>7. At(ext) = At(leg) /\ Bases(ext) = far
  BY <1>4, <1>5 DEF At, Bases
<1>8. /\ x \in TaskType /\ x.by = y.by /\ x.state = y.state /\ x.order = y.order /\ x.leg = ext
  <2>1. /\ y.state \in States /\ y.by \in Trucks \cup {None} /\ y.order \in Ids \cup {None}
        /\ ext \in LegType \cup {None}
    BY <1>5, TaskFields
  <2>2. QED
    BY <1>1, <2>1 DEF TaskType, Task
<1>9. /\ msg \in Message /\ msg.kind = "update" /\ msg.order = y.order
      /\ msg.update = leg.update + 1 /\ msg.base = far
  BY <1>1, <1>2, <1>3 DEF Message, UpdateMsg, UpdateOf
<1>10. QED
  BY <1>4, <1>5, <1>6, <1>7, <1>8, <1>9 DEF leg

\* The wire after the update.
LEMMA UpdateSent ==
    ASSUME NEW q \in Seq(Message), NEW r \in Seq(Message),
           NEW x, NEW y, NEW msg, NEW far, y \in TaskType, y.order \in Ids,
           ExtendsTo(x, y, msg, far),
           NEW on, NEW s, Truck(on, q \o r, s), InStep(y.leg, y.order, on, q \o r, s),
           NEW r2, r2 = Append(r, msg)
    PROVE  Truck(on, q \o r2, s) /\ InStep(x.leg, x.order, on, q \o r2, s)
<1> DEFINE w == q \o r
           p == q \o r2
<1>1. /\ msg \in Message /\ msg.kind = "update" /\ msg.order = y.order /\ x.order = y.order
      /\ msg.update = y.leg.update + 1 /\ msg.base = far
      /\ x.leg.path = y.leg.path /\ x.leg.released = y.leg.released
      /\ x.leg.update = y.leg.update /\ x.leg.last = y.leg.last
      /\ x.leg.pending # None
      /\ x.leg.pending.update = msg.update /\ x.leg.pending.released = msg.base
  BY ExtendedFields
<1>2. /\ y.leg \in LegType /\ LegOK(y.leg) /\ y.leg.pending = None
      /\ far \in y.leg.released + 1 .. Len(y.leg.path)
  BY DEF ExtendsTo
<1>3. p \in Seq(Message) /\ \E k : Sends(w, p, k, msg)
  BY <1>1, SentOnWire
<1> HIDE DEF w, p
<1>4. PICK k : More(w, p, k) /\ p[k] = msg /\ \A i \in DOMAIN w : i < k
  BY <1>3 DEF Sends
<1>5. TruckOK(on) /\ WireOK(on, w) /\ InStep(y.leg, y.order, on, w, s)
      /\ s \in ReportStates \cup {None}
  BY DEF Truck, w
<1>6. /\ p[k].kind = "update" /\ p[k].order = y.order /\ p[k].order \in Ids
      /\ p[k].update = y.leg.update + 1 /\ p[k].base \in y.leg.released + 1 .. Len(y.leg.path)
      /\ x.leg.pending.update = p[k].update /\ x.leg.pending.released = p[k].base
  BY <1>1, <1>2, <1>4
<1>7. InStep(y.leg, p[k].order, on, w, s)
  BY <1>5, <1>6
<1>8. WireOK(on, p) /\ InStep(x.leg, p[k].order, on, p, s)
  BY <1>1, <1>2, <1>4, <1>5, <1>6, <1>7, WireAfterUpdate
<1>9. QED
  BY <1>1, <1>3, <1>5, <1>6, <1>8 DEF Truck, p

LEMMA CarriesItsLeg ==
    ASSUME NEW m, BookOK(m), NEW v \in Trucks, NEW t \in Tasks, m.task[t].by = v,
           m.task[t].leg # None
    PROVE  /\ Carries(m, v, t) /\ m.task[t].state \in {"LEG1", "LEG2"}
           /\ m.task[t].leg \in LegType /\ m.task[t].order \in Ids
           /\ m.task[t] \in TaskType
<1>1. m.task[t] \in TaskType /\ Shape(m.task[t])
  BY BookTypes DEF BookOK, Kept
<1>2. QED
  BY <1>1, TaskFields DEF Shape, Carries

\* The floor goes on carrying the leg of t.
Carried(m, k, v, t) ==
    /\ OnlyFor(m.ledger, k, v) /\ k.standing = m.ledger.standing
    /\ v \notin k.yielded => Backed(k.held[v], m.task[t].leg)

\* The leg is not extended: its truck may have the floor it has already.
LEMMA RetryInVain ==
    ASSUME NEW m, BookOK(m), NEW v \in Trucks, NEW q \in Seq(Message), NEW on, NEW s,
           Fine(m, v, on, q \o m.sent[v], s),
           NEW t \in Tasks, m.task[t].by = v, m.task[t].leg # None,
           NEW k, Carried(m, k, v, t), NEW n, n = [m EXCEPT !.ledger = k]
    PROVE  Handled(m, n, v, on, q, s) /\ n.task = m.task
<1>1. Kept(m) /\ OnlyFor(m.ledger, k, v) /\ k.standing = m.ledger.standing
  BY DEF BookOK, Carried
<1>2. /\ Others(m, n, v) /\ BookOK(n)
      /\ n.ledger = k /\ n.task = m.task /\ n.seen = m.seen
      /\ n.aside = m.aside /\ n.sent = m.sent
  BY <1>1, LedgerCall
<1>3. Carries(m, v, t) /\ Steady(m, v, on, q \o m.sent[v], s) /\ Located(m, v)
  BY CarriesItsLeg DEF Fine
<1>4. \A y \in Tasks : m.task[y].by = v /\ m.task[y].leg # None => y = t
  BY <1>3, CarriesItsLeg DEF Steady, Settled
<1>5. Settled(n, v) /\ Located(n, v)
  BY <1>1, <1>2, <1>3 DEF Steady, Settled, Located, Carries
<1>6. LegOK(m.task[t].leg) /\ InStep(m.task[t].leg, m.task[t].order, on, q \o m.sent[v], s)
  BY <1>3 DEF Steady, OnLeg
<1>7. OnLeg(n, v, on, q \o n.sent[v], s)
  BY <1>2, <1>4, <1>6 DEF OnLeg, Carried
<1>8. Truck(on, q \o n.sent[v], s)
  BY <1>2, <1>3 DEF Steady
<1>9. QED
  BY <1>2, <1>5, <1>7, <1>8 DEF Handled, Fine, Steady

LEMMA RetryExtends ==
    ASSUME NEW m, BookOK(m), NEW v \in Trucks, NEW q \in Seq(Message), NEW on, NEW s,
           Fine(m, v, on, q \o m.sent[v], s),
           NEW t \in Tasks, m.task[t].by = v, m.task[t].leg # None,
           NEW x, NEW msg, NEW far, ExtendsTo(x, m.task[t], msg, far),
           NEW k, OnlyFor(m.ledger, k, v), k.standing = m.ledger.standing,
           Backed(k.held[v], x.leg),
           NEW n, n = Told(m, k, t, x, v, msg)
    PROVE  Handled(m, n, v, on, q, s) /\ SameLegs(m, n)
<1>1. /\ Kept(m) /\ m.sent[v] \in Seq(Message) /\ \A y \in Tasks : Shape(m.task[y])
      /\ Steady(m, v, on, q \o m.sent[v], s) /\ Located(m, v)
  BY BookTypes DEF BookOK, Kept, Fine
<1>2. /\ Carries(m, v, t) /\ m.task[t].state \in {"LEG1", "LEG2"}
      /\ m.task[t].order \in Ids /\ m.task[t] \in TaskType
  BY CarriesItsLeg
<1>3. /\ x \in TaskType /\ x.by = v /\ x.state = m.task[t].state /\ x.order = m.task[t].order
      /\ x.leg \in LegType /\ LegOK(x.leg) /\ msg \in Message
  BY <1>2, ExtendedFields
<1>4. Asks(m, v, k, t, x, msg)
  BY <1>1, <1>3 DEF Asks, Writes
<1>5. Answers(m, v, k, t, x, msg, n)
  BY <1>4, ToldCall
<1>6. /\ Kept(n) /\ Others(m, n, v)
      /\ n.ledger = k /\ n.seen = m.seen /\ n.aside = m.aside
      /\ Replaced(m, n, t, x)
      /\ n.sent[v] = Append(m.sent[v], msg)
  BY <1>5 DEF Answers
<1>7. Shape(x) /\ x.leg # None
  BY <1>2, <1>3, LegFields DEF Shape
<1>8. BookOK(n) /\ SameLegs(m, n)
  BY <1>1, <1>3, <1>6, <1>7 DEF BookOK, Replaced, SameLegs
<1>9. /\ Truck(on, q \o n.sent[v], s) /\ InStep(x.leg, x.order, on, q \o n.sent[v], s)
  <2> DEFINE y == m.task[t]
  <2>1. Truck(on, q \o m.sent[v], s) /\ InStep(y.leg, y.order, on, q \o m.sent[v], s)
    BY <1>1 DEF Steady, OnLeg
  <2>2. y \in TaskType /\ y.order \in Ids /\ ExtendsTo(x, y, msg, far)
    BY <1>2
  <2> HIDE DEF y
  <2>3. QED
    BY <1>1, <1>6, <2>1, <2>2, UpdateSent
<1>10. Fine(n, v, on, q \o n.sent[v], s)
  <2>1. /\ \A y \in Tasks \ {t} : ~Carries(m, v, y)
        /\ m.ledger.standing[v] \in Nodes /\ m.aside[v] = None
    BY <1>1, <1>2 DEF Steady, Settled
  <2>2. /\ \A y \in Tasks : Shape(n.task[y])
        /\ n.ledger.standing[v] \in Nodes /\ n.aside[v] = None
        /\ n.ledger.standing = m.ledger.standing /\ n.seen = m.seen
        /\ LegOK(x.leg) /\ Backed(n.ledger.held[v], x.leg)
    BY <1>3, <1>6, <1>8, <2>1 DEF BookOK
  <2>3. Replaced(m, n, t, x) /\ Located(m, v)
    BY <1>1, <1>6
  <2>4. QED
    BY <1>9, <2>1, <2>2, <2>3, LegIsFine
<1>11. QED
  BY <1>6, <1>8, <1>10 DEF Handled

\* retry_hold
LEMMA RetryHoldCall ==
    ASSUME NEW m, BookOK(m), NEW v \in Trucks, NEW q \in Seq(Message), NEW on, NEW s,
           Fine(m, v, on, q \o m.sent[v], s),
           NEW t \in Tasks, m.task[t].by = v, m.task[t].leg # None
    PROVE  Handled(m, RetryHold(m, t), v, on, q, s) /\ InFlight(RetryHold(m, t)) = InFlight(m)
<1> DEFINE leg  == m.task[t].leg
           rest == Rest(leg.path, leg.last)
           far  == Len(leg.path) - Len(rest)
                      + NodeCount(Grant(m.ledger, v, RouteElements(rest)))
           k    == Hold(m.ledger, v, RouteElements(rest))
           j    == ClearYield(k, v)
           o    == m.task[t].order
           x    == Task(m.task[t].state, v, o, Extend(leg, leg.update + 1, far))
           msg  == UpdateOf(o, leg.update + 1, far)
           n    == RetryHold(m, t)
<1>1. /\ m \in Books /\ m.ledger \in LedgerType /\ Consistent(m.ledger)
      /\ leg \in LegType
  BY BookTypes, CarriesItsLeg DEF BookOK, Kept
<1>2. /\ LegOK(leg) /\ (v \notin m.ledger.yielded => Backed(m.ledger.held[v], leg))
  BY DEF Fine, Steady, OnLeg
<1>3. /\ OnlyFor(m.ledger, k, v) /\ k.yielded = m.ledger.yielded
      /\ k.standing = m.ledger.standing
      /\ far \in At(leg) - 1 .. Len(leg.path)
      /\ Seated(k.held[v], RouteElements(leg.path), 2 * At(leg) - 1, 2 * far - 1)
      /\ At(leg) <= Bases(leg) /\ Backed(m.ledger.held[v], leg) => Bases(leg) <= far
  <2> HIDE DEF leg
  <2>1. QED
    BY <1>1, <1>2, HoldAhead
<1>4. /\ At(leg) \in 1 .. Len(leg.path) /\ Bases(leg) \in 1 .. Len(leg.path)
      /\ leg.path \in Paths /\ leg.released \in Nat
  <2> HIDE DEF leg
  <2>1. QED
    BY <1>1, <1>2, LegAhead, LegFields
<1>5. Len(leg.path) \in Nat
  BY <1>4, PathFacts
<1>6. far \in Nat
  <2> HIDE DEF leg, far
  <2>1. QED
    BY <1>3, <1>4, <1>5, SMTT(40)
<1>7. n = IF leg.pending # None THEN m
          ELSE IF far <= leg.released THEN [m EXCEPT !.ledger = k]
          ELSE Told(m, j, t, x, v, msg)
  BY <1>1, <1>6, RetryHoldCases
<1> HIDE DEF n, x, msg, far, k, rest
<1>8. CASE leg.pending # None
  <2>1. n = m
    BY <1>7, <1>8
  <2>2. QED
    BY <2>1, NothingHandled DEF n
<1>9. CASE leg.pending = None /\ far <= leg.released
  <2>1. n = [m EXCEPT !.ledger = k]
    BY <1>7, <1>9
  <2>2. ASSUME v \notin k.yielded PROVE Backed(k.held[v], leg)
    <3> HIDE DEF leg
    <3>1. CASE At(leg) <= Bases(leg)
      <4>1. Bases(leg) <= far
        BY <1>2, <1>3, <2>2, <3>1
      <4>2. far = Bases(leg)
        BY <1>4, <1>6, <1>9, <4>1 DEF Bases
      <4>3. QED
        BY <1>3, <4>2 DEF Backed
    <3>2. CASE ~(At(leg) <= Bases(leg))
      BY <3>2 DEF Backed
    <3>3. QED
      BY <3>1, <3>2
  <2>3. Handled(m, n, v, on, q, s) /\ n.task = m.task
    <3>1. Carried(m, k, v, t)
      BY <1>3, <2>2 DEF Carried
    <3> HIDE DEF leg, j
    <3>2. QED
      BY <2>1, <3>1, RetryInVain
  <2>4. QED
    BY <2>3 DEF InFlight, n
<1>10. CASE leg.pending = None /\ ~(far <= leg.released)
  <2>1. n = Told(m, j, t, x, v, msg)
    BY <1>7, <1>10
  <2>2. far \in leg.released + 1 .. Len(leg.path)
    <3> HIDE DEF leg, j
    <3>1. QED
      BY <1>3, <1>4, <1>5, <1>6, <1>10
  <2>3. ExtendsTo(x, m.task[t], msg, far)
    BY <1>1, <1>2, <1>10, <2>2 DEF ExtendsTo, x, msg
  <2>4. OnlyFor(m.ledger, j, v) /\ j.standing = m.ledger.standing /\ j.held = k.held
    <3>1. k \in LedgerType /\ Consistent(k)
      BY <1>3 DEF OnlyFor
    <3>2. OnlyFor(k, j, v) /\ j.standing = k.standing /\ j.held = k.held
      BY <3>1, ClearYieldOnly
    <3>3. QED
      BY <1>3, <3>2, OnlyForTransitive
  <2> HIDE DEF j
  <2>5. Backed(j.held[v], x.leg)
    <3>1. x.leg.path = leg.path /\ At(x.leg) = At(leg) /\ Bases(x.leg) = far
      <4>1. m.task[t] \in TaskType /\ m.task[t].order \in Ids
        BY CarriesItsLeg
      <4>2. QED
        BY <2>3, <4>1, ExtendedFields
    <3>2. QED
      BY <1>3, <2>4, <3>1 DEF Backed
  <2>6. Handled(m, n, v, on, q, s) /\ SameLegs(m, n)
    BY <2>1, <2>3, <2>4, <2>5, RetryExtends
  <2>7. QED
    BY <2>6, SameLegsInFlight DEF n
<1>11. QED
  BY <1>8, <1>9, <1>10

-----------------------------------------------------------------------------
(* A state is read. *)

\* The node a state of the order names, and the leg it is read into.
NodeOf(leg, s) == IF s.last = None THEN leg.last ELSE s.last
Shown(leg, s)  == ReadUpdate([leg EXCEPT !.last = NodeOf(leg, s)], s.update)

LEMMA ShownFields ==
    ASSUME NEW leg \in LegType, NEW s,
           NEW taken, taken = (leg.pending # None /\ s.update >= leg.pending.update)
    PROVE  Shown(leg, s) =
             Leg(leg.path,
                 IF taken THEN leg.pending.released ELSE leg.released,
                 IF taken \/ s.update > leg.update THEN s.update ELSE leg.update,
                 IF taken THEN None ELSE leg.pending,
                 NodeOf(leg, s))
<1> DEFINE node == NodeOf(leg, s)
           l    == [leg EXCEPT !.last = node]
<1>1. leg = [path |-> leg.path, released |-> leg.released, update |-> leg.update,
             pending |-> leg.pending, last |-> leg.last]
  BY LegFields
<1> HIDE DEF node
<1>2. l = [path |-> leg.path, released |-> leg.released, update |-> leg.update,
           pending |-> leg.pending, last |-> node]
  BY <1>1
<1> HIDE DEF l
<1>9. l = Leg(leg.path, leg.released, leg.update, leg.pending, node)
  BY <1>2 DEF Leg
<1>3. l.pending = leg.pending /\ l.update = leg.update /\ l.released = leg.released
  BY <1>2
<1>4. Shown(leg, s) = ReadUpdate(l, s.update)
  BY DEF Shown, l, node
<1>5. CASE taken
  <2>1. ReadUpdate(l, s.update) =
          [l EXCEPT !.update = s.update, !.released = leg.pending.released, !.pending = None]
    BY <1>3, <1>5 DEF ReadUpdate
  <2>2. [l EXCEPT !.update = s.update, !.released = leg.pending.released, !.pending = None] =
          Leg(leg.path, leg.pending.released, s.update, None, node)
    <3> DEFINE a == s.update
               b == leg.pending.released
    <3> HIDE DEF a, b
    <3>1. [l EXCEPT !.update = a, !.released = b, !.pending = None] =
            [[[l EXCEPT !.update = a] EXCEPT !.released = b] EXCEPT !.pending = None]
      OBVIOUS
    <3>2. [l EXCEPT !.update = a] = Leg(leg.path, leg.released, a, leg.pending, node)
      BY <1>9 DEF Leg
    <3>3. [Leg(leg.path, leg.released, a, leg.pending, node) EXCEPT !.released = b] =
            Leg(leg.path, b, a, leg.pending, node)
      BY DEF Leg
    <3>4. [Leg(leg.path, b, a, leg.pending, node) EXCEPT !.pending = None] =
            Leg(leg.path, b, a, None, node)
      BY DEF Leg
    <3>5. [l EXCEPT !.update = a, !.released = b, !.pending = None] =
            Leg(leg.path, b, a, None, node)
      BY <3>1, <3>2, <3>3, <3>4
    <3>6. QED
      BY <3>5 DEF a, b
  <2>3. QED
    BY <1>4, <1>5, <2>1, <2>2 DEF node
<1>6. CASE ~taken /\ s.update > leg.update
  <2>1. ReadUpdate(l, s.update) = [l EXCEPT !.update = s.update]
    BY <1>3, <1>6 DEF ReadUpdate
  <2>2. [l EXCEPT !.update = s.update] =
          Leg(leg.path, leg.released, s.update, leg.pending, node)
    BY <1>9 DEF Leg
  <2>3. QED
    BY <1>4, <1>6, <2>1, <2>2 DEF node
<1>7. CASE ~taken /\ ~(s.update > leg.update)
  <2>1. ReadUpdate(l, s.update) = l
    BY <1>3, <1>7 DEF ReadUpdate
  <2>2. l = Leg(leg.path, leg.released, leg.update, leg.pending, node)
    BY <1>2 DEF Leg
  <2>3. QED
    BY <1>4, <1>7, <2>1, <2>2 DEF node
<1>8. QED
  BY <1>5, <1>6, <1>7

\* What a state of the order o says is true of the leg that has it, and stays so.
LEMMA ShownInStep ==
    ASSUME NEW leg \in LegType, LegOK(leg), NEW o \in Ids, NEW on, NEW q,
           NEW s \in ReportStates, s # None, s.order = o, on.update \in Nat,
           InStep(leg, o, on, q, s), NEW x, x = Shown(leg, s)
    PROVE  /\ x \in LegType /\ LegOK(x) /\ InStep(x, o, on, q, s)
           /\ x.path = leg.path /\ x.last = NodeOf(leg, s)
           /\ NodeOf(leg, s) \in Nodes /\ NodeOf(leg, s) \in Range(leg.path)
           /\ Bases(x) = Bases(leg) /\ At(leg) <= At(x)
<1> DEFINE node  == NodeOf(leg, s)
           taken == leg.pending # None /\ s.update >= leg.pending.update
           far   == IF taken THEN leg.pending.released ELSE leg.released
           new   == IF taken \/ s.update > leg.update THEN s.update ELSE leg.update
           pend  == IF taken THEN None ELSE leg.pending
<1>1. x = Leg(leg.path, far, new, pend, node)
  <2> HIDE DEF taken
  <2>1. taken = (leg.pending # None /\ s.update >= leg.pending.update)
    BY DEF taken
  <2>2. QED
    BY <2>1, ShownFields
<1>2. /\ leg.path \in Paths /\ leg.released \in Nat /\ leg.update \in Nat
      /\ leg.pending \in Extension \cup {None} /\ leg.last \in Nodes
      /\ leg.last \in Range(leg.path) /\ leg.released \in 1 .. Len(leg.path)
      /\ leg.pending # None => /\ leg.pending.update = leg.update + 1
                               /\ leg.pending.released \in leg.released + 1 .. Len(leg.path)
                               /\ leg.pending.released \in Nat
  <2>1. /\ leg.path \in Paths /\ leg.released \in Nat /\ leg.update \in Nat
        /\ leg.pending \in Extension \cup {None} /\ leg.last \in Nodes
    BY LegFields
  <2>2. leg.pending # None => leg.pending.released \in Nat
    BY <2>1 DEF Extension
  <2>3. QED
    BY <2>1, <2>2 DEF LegOK
<1>3. s.update \in Nat /\ s.last \in Nodes \cup {None} /\ s # None
  <2>1. s \in ReportStates /\ s # None
    OBVIOUS
  <2> HIDE DEF node, taken, far, new, pend
  <2>2. QED
    BY <2>1 DEF ReportStates
<1>4. node \in Nodes /\ node \in Range(leg.path) /\ At(leg) <= IndexOf(leg.path, node)
  <2>1. CASE s.last = None
    <3>1. IndexOf(leg.path, leg.last) \in 1 .. Len(leg.path) + 1 /\ Len(leg.path) \in Nat
      BY <1>2, IndexOfFacts, PathFacts
    <3>2. QED
      BY <1>2, <2>1, <3>1 DEF NodeOf, At
  <2>2. CASE s.last # None
    BY <1>3, <2>2 DEF InStep, Reported, NodeOf
  <2>3. QED
    BY <2>1, <2>2
<1>5. far \in Nat /\ far \in 1 .. Len(leg.path) /\ new \in Nat /\ pend \in Extension \cup {None}
  <2>1. Len(leg.path) \in Nat
    BY <1>2, PathFacts
  <2>2. QED
    BY <1>2, <1>3, <2>1
<1> HIDE DEF node, far, new, pend
<1>6. /\ x \in LegType /\ x.path = leg.path /\ x.released = far /\ x.update = new
      /\ x.pending = pend /\ x.last = node
  BY <1>1, <1>2, <1>4, <1>5, LegOfFields
<1>7. At(x) = IndexOf(leg.path, node)
  BY <1>6 DEF At
<1>8. Bases(x) = Bases(leg)
  BY <1>6 DEF Bases, far, pend
<1>9. on.order = o => s.update <= on.update
  BY <1>3 DEF InStep, Reported
<1>10. Orders(q, o) = {}
  BY <1>3 DEF InStep, Ordered
\* An update that the state shows and the book does not expect cannot be.
<1>11. ASSUME on.order = o, ~taken PROVE new = leg.update
  <2>1. on.update = leg.update \/ (leg.pending # None /\ on.update = leg.pending.update)
    BY <1>11 DEF InStep, Driven
  <2>2. ~(s.update > leg.update)
    BY <1>2, <1>3, <1>9, <1>11, <2>1
  <2>3. QED
    BY <1>11, <2>2 DEF new
<1>12. ASSUME on.order = o, taken
       PROVE  /\ on.update = leg.pending.update /\ on.update = s.update
              /\ on.base = leg.pending.released /\ ~Refuses(o, on, s) /\ Updates(q, o) = {}
  <2>1. \/ on.update = leg.update
        \/ /\ ~Refuses(o, on, s) /\ Updates(q, o) = {}
           /\ on.update = leg.pending.update /\ on.base = leg.pending.released
    BY <1>12 DEF InStep, Driven
  <2>2. s.update <= on.update /\ s.update >= leg.update + 1
    BY <1>2, <1>9, <1>12
  <2>3. on.update # leg.update
    BY <1>2, <1>3, <2>2
  <2>6. leg.pending.update = leg.update + 1 /\ leg.update \in Nat
    BY <1>2, <1>12
  <2>4. on.update = s.update
    <3> DEFINE a == on.update
               b == s.update
               c == leg.update
    <3>1. a \in Nat /\ b \in Nat /\ c \in Nat /\ b <= a /\ b >= c + 1 /\ a = c + 1
      BY <1>3, <2>1, <2>2, <2>3, <2>6
    <3> HIDE DEF a, b, c
    <3>2. a = b
      BY <3>1
    <3>3. QED
      BY <3>2 DEF a, b
  <2>5. QED
    BY <2>1, <2>3, <2>4
<1>13. LegOK(x)
  <2>1. ASSUME pend # None PROVE /\ pend.update = new + 1
                                 /\ pend.released \in far + 1 .. Len(leg.path)
    <3>1. ~taken /\ pend = leg.pending /\ far = leg.released
      BY <2>1 DEF pend, far
    <3>2. s.update < leg.update + 1
      BY <1>2, <1>3, <2>1, <3>1
    <3>3. ~(s.update > leg.update)
      BY <1>2, <1>3, <3>2
    <3>4. new = leg.update
      BY <3>1, <3>3 DEF new
    <3>5. QED
      BY <1>2, <2>1, <3>1, <3>4
  <2>2. QED
    BY <1>4, <1>5, <1>6, <2>1 DEF LegOK
<1>14. Ordered(x, o, on, q, s)
  BY <1>10 DEF Ordered
<1>15. Extended(x, o, on, q)
  <2>1. CASE on.order = o /\ ~taken
    <3>1. pend = leg.pending
      BY <2>1 DEF pend
    <3>2. QED
      BY <1>6, <3>1 DEF InStep, Extended
  <2>2. CASE on.order = o /\ taken
    BY <1>12, <2>2 DEF Extended
  <2>3. CASE on.order # o
    BY <1>10, <2>3 DEF Extended
  <2>4. QED
    BY <2>1, <2>2, <2>3
<1>16. Driven(x, o, on, q, s)
  <2>1. SUFFICES ASSUME on.order = o PROVE Driven(x, o, on, q, s)
    BY DEF Driven
  <2>2. /\ on.route = leg.path /\ (At(leg) = 1 \/ At(leg) <= on.pos)
        /\ Refuses(o, on, s) => leg.pending # None /\ Updates(q, o) = {}
        /\ ~(on.refused = o /\ s # None /\ s.refused = o)
    BY <2>1 DEF InStep, Driven
  <2>3. At(x) = 1 \/ At(x) <= on.pos
    <3>1. CASE s.last = None
      <4>1. At(x) = At(leg)
        BY <1>7, <3>1 DEF node, NodeOf, At
      <4>2. QED
        BY <2>2, <4>1
    <3>2. CASE s.last # None
      BY <1>3, <1>7, <2>1, <3>2 DEF InStep, Reported, node, NodeOf
    <3>3. QED
      BY <3>1, <3>2
  <2>4. CASE taken
    <3>1. /\ on.update = new /\ on.base = far /\ ~Refuses(o, on, s)
      BY <1>12, <2>1, <2>4 DEF new, far
    <3>2. QED
      BY <1>6, <2>2, <2>3, <3>1 DEF Driven
  <2>5. CASE ~taken
    <3>1. new = leg.update /\ far = leg.released /\ pend = leg.pending
      BY <1>11, <2>1, <2>5 DEF far, pend
    <3>2. \/ on.update = leg.update /\ on.base = leg.released
          \/ /\ leg.pending # None /\ ~Refuses(o, on, s) /\ Updates(q, o) = {}
             /\ on.update = leg.pending.update /\ on.base = leg.pending.released
      BY <2>1 DEF InStep, Driven
    <3>3. QED
      BY <1>6, <2>2, <2>3, <3>1, <3>2 DEF Driven
  <2>6. QED
    BY <2>4, <2>5
<1>17. Reported(x, o, on, s)
  <2>1. ASSUME s.last # None PROVE At(x) <= IndexOf(leg.path, s.last)
    <3>1. node = s.last
      BY <2>1 DEF node, NodeOf
    <3>2. IndexOf(leg.path, node) \in Nat
      BY <1>2, IndexOfFacts, PathFacts
    <3>3. QED
      BY <1>7, <3>1, <3>2
  <2>2. QED
    BY <1>6, <2>1 DEF InStep, Reported
<1>18. QED
  BY <1>4, <1>6, <1>7, <1>8, <1>13, <1>14, <1>15, <1>16, <1>17 DEF InStep, node

\* The leg of the task a truck carries.
LEMMA LegOfFacts ==
    ASSUME NEW m, BookOK(m), NEW v \in Trucks, Settled(m, v)
    PROVE  /\ LegOf(m, v) = None => \A t \in Tasks : m.task[t].by = v => m.task[t].leg = None
           /\ LegOf(m, v) # None =>
                /\ TaskOf(m, v) \in Tasks /\ m.task[TaskOf(m, v)].by = v
                /\ LegOf(m, v) = m.task[TaskOf(m, v)].leg
                /\ LegOf(m, v) \in LegType
<1>1. CASE TaskOf(m, v) = None
  <2>1. Unladen(m, v) /\ LegOf(m, v) = None
    BY <1>1, TaskOfFacts DEF LegOf
  <2>2. QED
    BY <2>1, UnladenHasNoLeg
<1>2. CASE TaskOf(m, v) # None
  <2> DEFINE t == TaskOf(m, v)
  <2>1. t \in Tasks /\ Carries(m, v, t) /\ LegOf(m, v) = m.task[t].leg
    BY <1>2, TaskOfFacts DEF LegOf
  <2>2. \A y \in Tasks : m.task[y].by = v /\ m.task[y].leg # None => y = t
    BY CarriesItsLeg, TaskOfFacts
  <2> HIDE DEF t
  <2>3. m.task[t] \in TaskType
    BY <2>1, BookTypes DEF BookOK, Kept
  <2>4. m.task[t].leg # None => m.task[t].leg \in LegType
    BY <2>3, TaskFields
  <2>5. QED
    BY <2>1, <2>2, <2>4 DEF Carries, t
<1>3. QED
  BY <1>1, <1>2

\* Floor goes back as far as a node at or before the truck.
LEMMA ReleaseToFacts ==
    ASSUME NEW leg \in LegType, NEW node \in Range(leg.path), NEW state
    PROVE  \E c \in 1 .. IndexOf(leg.path, node) : ReleaseTo(state, leg, node) = leg.path[c]
<1> DEFINE p     == leg.path
           i     == IndexOf(p, node)
           entry == SpurEntry(node)
<1>1. p \in Paths /\ Len(p) \in Nat /\ i \in 1 .. Len(p) /\ p[i] = node
  BY LegFields, PathFacts, IndexOfFacts
<1>2. CASE ReleaseTo(state, leg, node) = node
  BY <1>1, <1>2
<1>3. CASE ReleaseTo(state, leg, node) # node
  <2>1. ReleaseTo(state, leg, node) = entry /\ IndexOf(p, entry) < i
    BY <1>3 DEF ReleaseTo
  <2> HIDE DEF p, i, entry
  <2>2. IndexOf(p, entry) \in 1 .. Len(p) + 1
    BY <1>1, IndexOfFacts
  <2>3. IndexOf(p, entry) \in 1 .. i /\ IndexOf(p, entry) # Len(p) + 1
    BY <1>1, <2>1, <2>2
  <2>4. p[IndexOf(p, entry)] = entry
    BY <1>1, <2>3, IndexOfFacts
  <2>5. QED
    BY <2>1, <2>3, <2>4 DEF p, i
<1>4. QED
  BY <1>2, <1>3

\* The leg x is the leg with its truck further along.
Follows(leg, x) ==
    /\ leg \in LegType /\ LegOK(leg) /\ x \in LegType /\ LegOK(x)
    /\ x.path = leg.path /\ At(leg) <= At(x) /\ Bases(x) = Bases(leg)

LEMMA ShownIsBacked ==
    ASSUME NEW l, l \in LedgerType, Consistent(l), NEW v, v \in Trucks,
           NEW leg, NEW x, Follows(leg, x), NEW state, Backed(l.held[v], leg)
    PROVE  Backed(ReleaseThrough(l, v, ReleaseTo(state, leg, x.last)).held[v], x)
<1>0. /\ leg \in LegType /\ LegOK(leg) /\ x \in LegType /\ LegOK(x)
      /\ x.path = leg.path /\ At(leg) <= At(x) /\ Bases(x) = Bases(leg)
  BY DEF Follows
<1> DEFINE p  == leg.path
           i  == At(leg)
           i2 == At(x)
           b  == Bases(leg)
<1>1. p \in Paths /\ Len(p) \in Nat /\ i \in 1 .. Len(p) /\ i2 \in 1 .. Len(p)
      /\ b \in 1 .. Len(p) /\ x.last \in Range(p) /\ i2 = IndexOf(p, x.last)
  <2>1. i \in 1 .. Len(leg.path) /\ b \in 1 .. Len(leg.path) /\ i2 \in 1 .. Len(x.path)
    BY <1>0, LegAhead
  <2>2. x.last \in Range(x.path)
    BY <1>0 DEF LegOK
  <2>3. QED
    BY <1>0, <2>1, <2>2, LegFields, PathFacts DEF At
<1>2. SUFFICES ASSUME i2 <= b
      PROVE  Seated(ReleaseThrough(l, v, ReleaseTo(state, leg, x.last)).held[v],
                    RouteElements(p), 2 * i2 - 1, 2 * b - 1)
  BY <1>0 DEF Backed
<1>3. PICK c \in 1 .. i2 : ReleaseTo(state, leg, x.last) = p[c]
  BY <1>0, <1>1, ReleaseToFacts
<1>4. i <= b /\ i2 \in i .. Len(p)
  BY <1>0, <1>1, <1>2
<1>5. Seated(l.held[v], RouteElements(p), 2 * i - 1, 2 * b - 1)
  BY <1>4 DEF Backed
<1> HIDE DEF p, i, i2, b
<1>6. Seated(ReleaseThrough(l, v, p[c]).held[v], RouteElements(p), 2 * i2 - 1, 2 * b - 1)
  BY <1>1, <1>2, <1>4, <1>5, ReleaseKeepsSeat
<1>7. QED
  BY <1>3, <1>6

\* The truck stands where the state says.
Stood(m, v, node) == [m EXCEPT !.ledger = SetStanding(@, v, node)]

LEMMA StoodBook ==
    ASSUME NEW m, Kept(m), NEW v \in Trucks, NEW node \in Nodes,
           NEW n, n = Stood(m, v, node)
    PROVE  /\ Kept(n) /\ Others(m, n, v)
           /\ n.task = m.task /\ n.seen = m.seen /\ n.aside = m.aside /\ n.sent = m.sent
           /\ n.ledger = SetStanding(m.ledger, v, node)
           /\ n.ledger.yielded = m.ledger.yielded /\ n.ledger.held = m.ledger.held
           /\ Stands(n, v) = node
           /\ (BookOK(m) => BookOK(n))
<1> DEFINE k == SetStanding(m.ledger, v, node)
<1>1. m.ledger \in LedgerType /\ Consistent(m.ledger)
  BY BookTypes DEF Kept
<1>2. /\ OnlyFor(m.ledger, k, v) /\ k.yielded = m.ledger.yielded /\ k.held = m.ledger.held
      /\ k.standing[v] = node
  BY <1>1, SetStandingOnly
<1>3. n = [m EXCEPT !.ledger = k]
  BY DEF Stood
<1> HIDE DEF k
<1>4. /\ Kept(n) /\ Others(m, n, v) /\ n.ledger = k /\ n.task = m.task /\ n.seen = m.seen
      /\ n.aside = m.aside /\ n.sent = m.sent /\ (BookOK(m) => BookOK(n))
  BY <1>2, <1>3, LedgerCall
<1>5. QED
  BY <1>2, <1>4 DEF Stands, k

StoodThere(m, v, on, q, s, node, n) ==
    /\ BookOK(n) /\ Others(m, n, v) /\ Steady(n, v, on, q \o n.sent[v], s)
    /\ n.task = m.task /\ n.seen = m.seen /\ n.aside = m.aside /\ n.sent = m.sent
    /\ Stands(n, v) = node /\ n.ledger = SetStanding(m.ledger, v, node)

LEMMA StoodCall ==
    ASSUME NEW m, BookOK(m), NEW v \in Trucks, NEW q \in Seq(Message), NEW on, NEW s,
           Steady(m, v, on, q \o m.sent[v], s), NEW node \in Nodes
    PROVE  StoodThere(m, v, on, q, s, node, Stood(m, v, node))
<1> DEFINE n == Stood(m, v, node)
<1>1. Kept(m)
  BY DEF BookOK
<1>2. /\ BookOK(n) /\ Others(m, n, v)
      /\ n.task = m.task /\ n.seen = m.seen /\ n.aside = m.aside /\ n.sent = m.sent
      /\ n.ledger.yielded = m.ledger.yielded /\ n.ledger.held = m.ledger.held
      /\ Stands(n, v) = node /\ n.ledger = SetStanding(m.ledger, v, node)
  BY <1>1, StoodBook
<1> HIDE DEF n
<1>3. /\ Quiet(m, n, v) /\ n.ledger.standing[v] \in Nodes
      /\ n.ledger.held[v] = m.ledger.held[v]
      /\ v \in m.ledger.yielded => v \in n.ledger.yielded
      /\ n.task = m.task /\ n.aside[v] = m.aside[v]
  BY <1>2 DEF Quiet, Stands
<1>4. Steady(n, v, on, q \o n.sent[v], s)
  BY <1>3, QuietIsSteady
<1>5. QED
  BY <1>2, <1>4 DEF StoodThere, n

\* note_state, by cases.
Reads(m, v, s, t, leg) ==
    /\ t = TaskOf(m, v) /\ t # None /\ LegOf(m, v) = leg /\ leg # None
    /\ s.order = m.task[t].order

LEMMA NoteStateCases ==
    ASSUME NEW m \in Books, NEW v, NEW s, NEW t, NEW leg, Reads(m, v, s, t, leg),
           m.task[t] \in TaskType
    PROVE  NoteState(m, v, s) =
             Written(Stood(m, v, NodeOf(leg, s)),
                     ReleaseThrough(SetStanding(m.ledger, v, NodeOf(leg, s)), v,
                                    ReleaseTo(m.task[t].state, leg, NodeOf(leg, s))),
                     t, Task(m.task[t].state, m.task[t].by, m.task[t].order, Shown(leg, s)))
<1> DEFINE node  == NodeOf(leg, s)
           l     == SetStanding(m.ledger, v, node)
           stood == Stood(m, v, node)
           k     == ReleaseThrough(l, v, ReleaseTo(m.task[t].state, leg, node))
           x     == Task(m.task[t].state, m.task[t].by, m.task[t].order, Shown(leg, s))
           held  == [stood EXCEPT !.ledger = k]
<1>1. stood = Book(l, m.queue, m.task, m.seen, m.chase, m.aside, m.shuffles, m.sent)
  <2>1. stood = [m EXCEPT !.ledger = l]
    BY DEF Stood
  <2> HIDE DEF stood, l
  <2>2. QED
    BY <2>1, BookUpdates
<1>2. stood.ledger = l /\ stood.task = m.task
  BY <1>1, BookFields
<1>3. NoteState(m, v, s) =
        [stood EXCEPT !.ledger = ReleaseThrough(@, v, ReleaseTo(m.task[t].state, leg, node)),
                      !.task[t].leg = ReadUpdate([leg EXCEPT !.last = node], s.update)]
  <2> HIDE DEF k, x, held, l
  <2>1. QED
    BY DEF NoteState, Stood, NodeOf, Reads
<1>4. NoteState(m, v, s) = [stood EXCEPT !.ledger = k, !.task[t].leg = Shown(leg, s)]
  BY <1>2, <1>3 DEF Shown
<1> HIDE DEF stood, k, l, x
<1>5. NoteState(m, v, s) = [held EXCEPT !.task[t].leg = Shown(leg, s)]
  BY <1>4
<1>6. held = Book(k, m.queue, m.task, m.seen, m.chase, m.aside, m.shuffles, m.sent)
  BY <1>1 DEF Book
<1>7. held.task = m.task
  BY <1>6 DEF Book
<1> HIDE DEF held
<1>8. [held EXCEPT !.task[t].leg = Shown(leg, s)] = [held EXCEPT !.task[t] = x]
  <2>1. [held EXCEPT !.task[t].leg = Shown(leg, s)] =
          [held EXCEPT !.task[t] = [held.task[t] EXCEPT !.leg = Shown(leg, s)]]
    OBVIOUS
  <2>2. m.task[t] = [state |-> m.task[t].state, by |-> m.task[t].by,
                     order |-> m.task[t].order, leg |-> m.task[t].leg]
    BY TaskFields DEF Task
  <2>3. [m.task[t] EXCEPT !.leg = Shown(leg, s)] = x
    BY <2>2 DEF Task, x
  <2>4. QED
    BY <1>7, <2>1, <2>3
<1>9. QED
  BY <1>5, <1>8 DEF Written, held, stood, k, l, x, node

\* A state of the order its task has.
LEMMA ReadCall ==
    ASSUME NEW m, BookOK(m), NEW v \in Trucks, NEW q \in Seq(Message), NEW on,
           NEW s \in ReportStates, s # None, Steady(m, v, on, q \o m.sent[v], s),
           m.seen[v].node \in Nodes,
           NEW t, NEW leg, Reads(m, v, s, t, leg), NEW n, n = NoteState(m, v, s)
    PROVE  Handled(m, n, v, on, q, s)
<1> DEFINE node == NodeOf(leg, s)
           b    == Stood(m, v, node)
           k    == ReleaseThrough(SetStanding(m.ledger, v, node), v,
                                  ReleaseTo(m.task[t].state, leg, node))
           x    == Task(m.task[t].state, m.task[t].by, m.task[t].order, Shown(leg, s))
<1>1. /\ m \in Books /\ t = TaskOf(m, v) /\ t # None /\ LegOf(m, v) = leg /\ leg # None
      /\ s.order = m.task[t].order /\ Settled(m, v) /\ Truck(on, q \o m.sent[v], s)
  BY DEF Reads, BookOK, Kept, Steady
<1>2. t \in Tasks /\ m.task[t].by = v /\ leg = m.task[t].leg /\ leg \in LegType
  BY <1>1, LegOfFacts
<1>3. /\ Carries(m, v, t) /\ m.task[t].state \in {"LEG1", "LEG2"} /\ m.task[t].order \in Ids
      /\ m.task[t] \in TaskType
  BY <1>1, <1>2, CarriesItsLeg
<1>4. /\ LegOK(leg) /\ InStep(leg, m.task[t].order, on, q \o m.sent[v], s)
      /\ v \notin m.ledger.yielded => Backed(m.ledger.held[v], leg)
  BY <1>1, <1>2 DEF Steady, OnLeg
<1>5. on.update \in Nat
  <2>1. on \in TruckStates
    BY <1>1 DEF Truck, TruckOK
  <2>2. QED
    BY <2>1 DEF TruckStates
<1>6. n = Written(b, k, t, x)
  BY <1>1, <1>3, NoteStateCases
<1> DEFINE w == Shown(leg, s)
           o == m.task[t].order
<1>7. /\ w \in LegType /\ LegOK(w) /\ InStep(w, o, on, q \o m.sent[v], s)
      /\ w.path = leg.path /\ w.last = node /\ node \in Nodes /\ node \in Range(leg.path)
      /\ Bases(w) = Bases(leg) /\ At(leg) <= At(w)
  <2>1. o \in Ids /\ s.order = o /\ InStep(leg, o, on, q \o m.sent[v], s)
    BY <1>1, <1>3, <1>4
  <2> HIDE DEF o
  <2>2. QED
    BY <1>2, <1>4, <1>5, <2>1, ShownInStep
<1>8. /\ BookOK(b) /\ Others(m, b, v) /\ Steady(b, v, on, q \o b.sent[v], s)
      /\ b.task = m.task /\ b.seen = m.seen /\ b.aside = m.aside /\ b.sent = m.sent
      /\ Stands(b, v) = node /\ b.ledger = SetStanding(m.ledger, v, node)
  <2>1. node \in Nodes
    BY <1>7
  <2> HIDE DEF node
  <2>2. StoodThere(m, v, on, q, s, node, b)
    BY <2>1, StoodCall
  <2> HIDE DEF b
  <2>3. QED
    BY <2>2 DEF StoodThere
<1> HIDE DEF b, node, w
<1>9. b.ledger \in LedgerType /\ Consistent(b.ledger) /\ Kept(b)
  BY <1>8, BookTypes DEF BookOK, Kept
<1>10. k = ReleaseThrough(b.ledger, v, ReleaseTo(m.task[t].state, leg, node))
  BY <1>8
<1> HIDE DEF k
<1>11. OnlyFor(b.ledger, k, v) /\ k.yielded = b.ledger.yielded /\ k.standing = b.ledger.standing
  BY <1>9, <1>10, ReleaseThroughOnly
<1>12. /\ x \in TaskType /\ x.by = v /\ x.state = m.task[t].state /\ x.order = m.task[t].order
       /\ x.leg = w
  <2>1. /\ m.task[t].state \in States /\ m.task[t].by \in Trucks \cup {None}
        /\ m.task[t].order \in Ids \cup {None} /\ w \in LegType \cup {None}
    BY <1>3, <1>7, TaskFields
  <2>2. QED
    BY <1>2, <2>1 DEF TaskType, Task, w
<1> HIDE DEF x
<1>13. Writes(b, v, k, t, x)
  BY <1>2, <1>8, <1>9, <1>11, <1>12 DEF Writes
<1>14. /\ Kept(n) /\ Others(b, n, v)
       /\ n.ledger = k /\ n.seen = b.seen /\ n.aside = b.aside /\ n.sent = b.sent
       /\ Replaced(b, n, t, x)
  <2>1. Wrote(b, v, k, t, x, n)
    BY <1>6, <1>13, WrittenCall
  <2>2. QED
    BY <2>1 DEF Wrote
<1>15. Shape(x)
  BY <1>3, <1>7, <1>12, LegFields DEF Shape
<1>16. BookOK(n)
  BY <1>8, <1>14, <1>15 DEF BookOK, Replaced
<1>17. /\ \A y \in Tasks \ {t} : ~Carries(b, v, y)
       /\ b.aside[v] = None
  BY <1>1, <1>2, <1>3, <1>8 DEF Settled, Carries
<1>18. n.ledger.standing[v] \in Nodes /\ n.ledger.standing = b.ledger.standing
  BY <1>7, <1>8, <1>11, <1>14 DEF Stands
<1>19. Located(b, v)
  BY <1>7, <1>8, <1>17 DEF Located, Stands
<1>20. v \notin n.ledger.yielded => Backed(n.ledger.held[v], x.leg)
  <2>1. ASSUME v \notin n.ledger.yielded PROVE Backed(k.held[v], w)
    <3>1. v \notin b.ledger.yielded
      BY <1>11, <1>14, <2>1
    <3>2. Backed(b.ledger.held[v], leg)
      BY <1>2, <1>8, <1>1, <3>1 DEF Steady, OnLeg
    <3>3. Backed(ReleaseThrough(b.ledger, v, ReleaseTo(m.task[t].state, leg, w.last)).held[v], w)
      <4>1. Follows(leg, w)
        BY <1>2, <1>4, <1>7 DEF Follows
      <4>2. QED
        BY <1>9, <3>2, <4>1, ShownIsBacked
    <3>4. QED
      BY <1>7, <1>10, <3>3
  <2>2. QED
    BY <1>12, <1>14, <2>1
<1>21. InStep(x.leg, x.order, on, q \o n.sent[v], s) /\ Truck(on, q \o n.sent[v], s)
  BY <1>1, <1>7, <1>8, <1>12, <1>14 DEF o
<1>22. Fine(n, v, on, q \o n.sent[v], s)
  <2>1. \A y \in Tasks : Shape(n.task[y])
    BY <1>16 DEF BookOK
  <2>2. Replaced(b, n, t, x) /\ n.aside[v] = None /\ n.seen = b.seen /\ LegOK(x.leg)
    BY <1>7, <1>12, <1>14, <1>17
  <2>3. QED
    BY <1>2, <1>17, <1>18, <1>19, <1>20, <1>21, <2>1, <2>2, LegIsFine
<1>23. QED
  BY <1>8, <1>14, <1>16, <1>22, OthersTransitive DEF Handled

LEMMA NoteStateCall ==
    ASSUME NEW m, BookOK(m), NEW v \in Trucks, NEW q \in Seq(Message), NEW on,
           NEW s \in ReportStates, s # None, Steady(m, v, on, q \o m.sent[v], s),
           m.seen[v].node \in Nodes
    PROVE  Handled(m, NoteState(m, v, s), v, on, q, s)
<1> DEFINE t     == TaskOf(m, v)
           leg   == LegOf(m, v)
           stale == leg # None /\ s.order # m.task[t].order
           node  == IF leg = None THEN s.node
                    ELSE IF stale \/ s.last = None THEN leg.last ELSE s.last
           b     == Stood(m, v, node)
           n     == NoteState(m, v, s)
<1>1. Settled(m, v) /\ s.node \in Nodes
  BY DEF Steady, ReportStates
<1>2. leg # None => leg \in LegType /\ t \in Tasks
  BY <1>1, LegOfFacts
<1>3. CASE leg # None /\ ~stale
  <2>1. Reads(m, v, s, t, leg)
    BY <1>2, <1>3, Nones DEF Reads
  <2> HIDE DEF t, leg, stale
  <2>2. QED
    BY <2>1, ReadCall
<1>4. CASE ~(leg # None /\ ~stale)
  <2>1. node \in Nodes
    BY <1>1, <1>2, <1>4, LegFields
  <2> HIDE DEF node
  <2>2. /\ BookOK(b) /\ Others(m, b, v) /\ Steady(b, v, on, q \o b.sent[v], s)
        /\ b.task = m.task /\ b.seen = m.seen /\ b.aside = m.aside /\ b.sent = m.sent
        /\ Stands(b, v) = node
    <3>1. StoodThere(m, v, on, q, s, node, b)
      BY <2>1, StoodCall
    <3> HIDE DEF b
    <3>2. QED
      BY <3>1 DEF StoodThere
  <2>3. n = IF stale THEN b ELSE HoldStanding(b, v, node)
    BY <1>4 DEF NoteState, Stood, node
  <2> HIDE DEF b, n
  <2>4. CASE stale
    <3>1. Located(b, v)
      BY <2>1, <2>2 DEF Located, Stands
    <3>2. QED
      BY <2>2, <2>3, <2>4, <3>1 DEF Handled, Fine, n
  <2>5. CASE ~stale
    <3>1. leg = None /\ n = HoldStanding(b, v, node)
      BY <1>4, <2>3, <2>5
    <3>2. Kept(b)
      BY <2>2 DEF BookOK
    <3>3. /\ Kept(n) /\ Others(b, n, v)
          /\ n.ledger.standing = b.ledger.standing
          /\ n.task = b.task /\ n.seen = b.seen
          /\ n.aside = b.aside /\ n.sent = b.sent
          /\ (BookOK(b) => BookOK(n))
      BY <2>1, <2>2, <3>1, <3>2, HoldStandingCall
    <3>4. \A y \in Tasks : b.task[y].by = v => b.task[y].leg = None
      BY <1>1, <2>2, <3>1, LegOfFacts
    <3>5. /\ Quiet(b, n, v) /\ n.task = b.task /\ n.aside[v] = b.aside[v]
          /\ n.ledger.standing[v] = b.ledger.standing[v] /\ BookOK(b)
          /\ Steady(b, v, on, q \o b.sent[v], s)
      BY <2>2, <3>3 DEF Quiet
    <3>6. Steady(n, v, on, q \o n.sent[v], s)
      BY <3>4, <3>5, QuietIsSteady
    <3>7. Located(n, v)
      BY <2>1, <2>2, <3>3 DEF Located, Stands
    <3>8. QED
      BY <2>2, <3>3, <3>6, <3>7, OthersTransitive DEF Handled, Fine, n
  <2>6. QED
    BY <2>4, <2>5
<1>5. QED
  BY <1>3, <1>4

\* What the truck said has been read.
LEMMA ReadInStep ==
    ASSUME NEW leg, NEW o, NEW on, NEW q, NEW s, InStep(leg, o, on, q, s)
    PROVE  InStep(leg, o, on, q, None)
BY DEF InStep, Ordered, Extended, Driven, Reported, Refuses

LEMMA ReadIsFine ==
    ASSUME NEW m, NEW v, NEW on, NEW q, NEW s, Fine(m, v, on, q, s)
    PROVE  Fine(m, v, on, q, None)
BY ReadInStep DEF Fine, Steady, Truck, OnLeg

\* An update refused is dropped.
Dropped(x, y) ==
    /\ y.leg \in LegType /\ LegOK(y.leg) /\ y.leg.pending # None
    /\ x = Task(y.state, y.by, y.order,
                Leg(y.leg.path, y.leg.released, y.leg.update, None, y.leg.last))

LEMMA DroppedFields ==
    ASSUME NEW x, NEW y, y \in TaskType, Dropped(x, y)
    PROVE  /\ x \in TaskType /\ x.by = y.by /\ x.state = y.state /\ x.order = y.order
           /\ x.leg \in LegType /\ LegOK(x.leg)
           /\ x.leg.path = y.leg.path /\ x.leg.released = y.leg.released
           /\ x.leg.update = y.leg.update /\ x.leg.last = y.leg.last /\ x.leg.pending = None
           /\ At(x.leg) = At(y.leg)
           /\ \A held : Backed(held, y.leg) => Backed(held, x.leg)
<1> DEFINE leg == y.leg
           new == Leg(leg.path, leg.released, leg.update, None, leg.last)
<1>1. /\ leg \in LegType /\ LegOK(leg) /\ leg.pending # None
      /\ x = Task(y.state, y.by, y.order, new)
  BY DEF Dropped
<1>2. /\ leg.path \in Paths /\ leg.released \in Nat /\ leg.update \in Nat /\ leg.last \in Nodes
      /\ leg.last \in Range(leg.path) /\ leg.released \in 1 .. Len(leg.path)
      /\ leg.pending.released \in leg.released + 1 .. Len(leg.path)
  BY <1>1, LegFields DEF LegOK
<1> HIDE DEF leg
<1>3. /\ new \in LegType /\ new.path = leg.path /\ new.released = leg.released
      /\ new.update = leg.update /\ new.pending = None /\ new.last = leg.last
  BY <1>2 DEF LegType, Leg
<1> HIDE DEF new
<1>4. LegOK(new) /\ At(new) = At(leg) /\ Bases(new) = leg.released
      /\ Bases(leg) = leg.pending.released
  BY <1>1, <1>2, <1>3 DEF LegOK, At, Bases
<1>5. ASSUME NEW held, Backed(held, leg) PROVE Backed(held, new)
  <2>1. SUFFICES ASSUME At(new) <= leg.released
                 PROVE  Seated(held, RouteElements(leg.path), 2 * At(leg) - 1,
                               2 * leg.released - 1)
    BY <1>3, <1>4 DEF Backed
  <2>2. At(leg) \in 1 .. Len(leg.path) /\ Len(leg.path) \in Nat
    BY <1>1, <1>2, LegAhead, PathFacts
  <2>3. leg.released < leg.pending.released /\ leg.pending.released \in Int
    BY <1>2, <2>2
  <2>4. Seated(held, RouteElements(leg.path), 2 * At(leg) - 1, 2 * leg.pending.released - 1)
    BY <1>2, <1>4, <1>5, <2>1, <2>2, <2>3 DEF Backed
  <2>5. PICK split \in Int :
           /\ 1 <= split + (2 * At(leg) - 1)
           /\ split + (2 * leg.pending.released - 1) <= Len(held)
           /\ Len(held) <= split + Len(RouteElements(leg.path))
           /\ \A k \in split + (2 * At(leg) - 1) .. Len(held) :
                 held[k] = RouteElements(leg.path)[k - split]
    BY <2>4 DEF Seated
  <2>6. Len(held) \in Int => split + (2 * leg.released - 1) <= Len(held)
    BY <1>2, <2>3, <2>5, SMTT(40)
  <2>7. QED
    BY <2>5, <2>6 DEF Seated
<1>6. x \in TaskType /\ x.by = y.by /\ x.state = y.state /\ x.order = y.order /\ x.leg = new
  <2>1. /\ y.state \in States /\ y.by \in Trucks \cup {None} /\ y.order \in Ids \cup {None}
        /\ new \in LegType \cup {None}
    BY <1>3, TaskFields
  <2>2. QED
    BY <1>1, <2>1 DEF TaskType, Task
<1>7. QED
  BY <1>3, <1>4, <1>5, <1>6 DEF leg

LEMMA DroppedInStep ==
    ASSUME NEW x, NEW y, y \in TaskType, Dropped(x, y), NEW on, NEW q,
           NEW s, s # None, y.order \in Ids, s.refused = y.order,
           InStep(y.leg, y.order, on, q, s)
    PROVE  InStep(x.leg, x.order, on, q, None)
<1> DEFINE o == y.order
           leg == y.leg
           new == x.leg
<1>1. /\ new.path = leg.path /\ new.released = leg.released /\ new.update = leg.update
      /\ new.pending = None /\ At(new) = At(leg) /\ x.order = o
  BY DroppedFields
<1>2. /\ Ordered(leg, o, on, q, s) /\ Driven(leg, o, on, q, s) /\ s # None /\ s.refused = o
  BY DEF InStep
<1> HIDE DEF o, leg, new
<1>3. Orders(q, o) = {}
  BY <1>2 DEF Ordered
<1>4. on.order = o => on.refused # o /\ on.update = leg.update /\ on.base = leg.released
                      /\ Updates(q, o) = {} /\ on.route = leg.path
                      /\ (At(leg) = 1 \/ At(leg) <= on.pos)
  BY <1>2 DEF Driven, Refuses
<1>5. Ordered(new, o, on, q, None)
  BY <1>3 DEF Ordered
<1>6. Extended(new, o, on, q)
  BY <1>3, <1>4 DEF Extended
<1>7. Driven(new, o, on, q, None)
  BY <1>1, <1>4 DEF Driven, Refuses
<1>8. Reported(new, o, on, None)
  BY DEF Reported
<1>9. QED
  BY <1>1, <1>5, <1>6, <1>7, <1>8 DEF InStep, new

\* The body of that case of _check_rejection.
LEMMA DropWritten ==
    ASSUME NEW m \in Books, NEW t \in Tasks, m.task[t].leg \in LegType
    PROVE  [m EXCEPT !.task[t].leg.pending = None] =
             Written(m, m.ledger, t,
                     Task(m.task[t].state, m.task[t].by, m.task[t].order,
                          Leg(m.task[t].leg.path, m.task[t].leg.released, m.task[t].leg.update,
                              None, m.task[t].leg.last)))
<1> DEFINE leg == m.task[t].leg
           new == Leg(leg.path, leg.released, leg.update, None, leg.last)
           x   == Task(m.task[t].state, m.task[t].by, m.task[t].order, new)
<1>1. m = Book(m.ledger, m.queue, m.task, m.seen, m.chase, m.aside, m.shuffles, m.sent)
      /\ m.task[t] \in TaskType
  BY BookTypes
<1>2. [m EXCEPT !.ledger = m.ledger] = m
  BY <1>1, BookUpdates
<1>3. [m EXCEPT !.task[t].leg.pending = None] =
        [m EXCEPT !.task[t] = [m.task[t] EXCEPT !.leg = [m.task[t].leg EXCEPT !.pending = None]]]
  OBVIOUS
<1>4. [leg EXCEPT !.pending = None] = new
  <2>1. leg = [path |-> leg.path, released |-> leg.released, update |-> leg.update,
               pending |-> leg.pending, last |-> leg.last]
    BY LegFields
  <2> HIDE DEF leg
  <2>2. QED
    BY <2>1 DEF Leg
<1> HIDE DEF new
<1>5. [m.task[t] EXCEPT !.leg = new] = x
  <2>1. m.task[t] = [state |-> m.task[t].state, by |-> m.task[t].by,
                     order |-> m.task[t].order, leg |-> m.task[t].leg]
    BY <1>1, TaskFields DEF Task
  <2>2. QED
    BY <2>1 DEF Task
<1>6. [m EXCEPT !.task[t].leg.pending = None] = [m EXCEPT !.task[t] = x]
  BY <1>3, <1>4, <1>5
<1> HIDE DEF x
<1>7. Written(m, m.ledger, t, x) = [m EXCEPT !.task[t] = x]
  BY <1>2 DEF Written
<1>8. QED
  BY <1>6, <1>7 DEF x, new, leg

LEMMA DropCall ==
    ASSUME NEW m, BookOK(m), NEW v \in Trucks, NEW q \in Seq(Message), NEW on, NEW s,
           s # None, Fine(m, v, on, q \o m.sent[v], s),
           NEW t \in Tasks, m.task[t].by = v, m.task[t].leg # None,
           m.task[t].leg.pending # None, s.refused = m.task[t].order,
           NEW n, n = [m EXCEPT !.task[t].leg.pending = None]
    PROVE  Handled(m, n, v, on, q, None)
<1> DEFINE y == m.task[t]
           x == Task(y.state, y.by, y.order,
                     Leg(y.leg.path, y.leg.released, y.leg.update, None, y.leg.last))
           l == m.ledger
<1>1. /\ Carries(m, v, t) /\ y.state \in {"LEG1", "LEG2"} /\ y.leg \in LegType
      /\ y.order \in Ids /\ y \in TaskType
  BY CarriesItsLeg
<1>2. /\ m \in Books /\ Kept(m) /\ \A z \in Tasks : Shape(m.task[z])
      /\ l \in LedgerType /\ Consistent(l)
      /\ Settled(m, v) /\ Located(m, v) /\ Truck(on, q \o m.sent[v], s)
  BY BookTypes DEF BookOK, Kept, Fine, Steady
<1>3. /\ LegOK(y.leg) /\ InStep(y.leg, y.order, on, q \o m.sent[v], s)
      /\ v \notin l.yielded => Backed(l.held[v], y.leg)
  BY DEF Fine, Steady, OnLeg
<1>4. Dropped(x, y)
  BY <1>1, <1>3 DEF Dropped
<1>5. n = Written(m, l, t, x)
  BY <1>1, <1>2, DropWritten
<1> HIDE DEF x
<1>6. /\ x \in TaskType /\ x.by = v /\ x.state = y.state /\ x.order = y.order
      /\ x.leg \in LegType /\ LegOK(x.leg)
      /\ Backed(l.held[v], y.leg) => Backed(l.held[v], x.leg)
  BY <1>1, <1>4, DroppedFields, SMTT(40)
<1>7. InStep(x.leg, x.order, on, q \o m.sent[v], None)
  BY <1>1, <1>3, <1>4, DroppedInStep
<1>8. Writes(m, v, l, t, x)
  <2>1. OnlyFor(l, l, v)
    BY <1>2 DEF OnlyFor
  <2>2. QED
    BY <1>2, <1>6, <2>1 DEF Writes
<1>9. /\ Kept(n) /\ Others(m, n, v)
      /\ n.ledger = l /\ n.seen = m.seen /\ n.aside = m.aside /\ n.sent = m.sent
      /\ Replaced(m, n, t, x)
  <2>1. Wrote(m, v, l, t, x, n)
    BY <1>5, <1>8, WrittenCall, SMTT(40)
  <2>2. QED
    BY <2>1 DEF Wrote
<1>10. Shape(x)
  BY <1>1, <1>6, LegFields DEF Shape
<1>11. BookOK(n)
  BY <1>2, <1>9, <1>10 DEF BookOK, Replaced
<1>12. Fine(n, v, on, q \o n.sent[v], None)
  <2>1. /\ \A z \in Tasks \ {t} : ~Carries(m, v, z)
        /\ n.aside[v] = None /\ n.ledger.standing[v] \in Nodes
        /\ n.ledger.standing = m.ledger.standing /\ n.seen = m.seen
    BY <1>1, <1>2, <1>9 DEF Settled
  <2>2. \A z \in Tasks : Shape(n.task[z])
    BY <1>11 DEF BookOK
  <2>3. v \notin n.ledger.yielded => Backed(n.ledger.held[v], x.leg)
    BY <1>3, <1>6, <1>9
  <2>4. InStep(x.leg, x.order, on, q \o n.sent[v], None) /\ Truck(on, q \o n.sent[v], None)
    BY <1>2, <1>7, <1>9 DEF Truck
  <2>5. Replaced(m, n, t, x) /\ LegOK(x.leg) /\ Located(m, v)
    BY <1>2, <1>6, <1>9
  <2>6. QED
    BY <2>1, <2>2, <2>3, <2>4, <2>5, LegIsFine
<1>13. QED
  BY <1>9, <1>11, <1>12 DEF Handled

\* A truck stood down.
StoodDown(m, v) == [m EXCEPT !.seen[v].fit = FALSE]

LEMMA StoodDownCall ==
    ASSUME NEW m, BookOK(m), NEW v \in Trucks, NEW q \in Seq(Message), NEW on, NEW s,
           Fine(m, v, on, q \o m.sent[v], s),
           NEW n, n = StoodDown(m, v)
    PROVE  Handled(m, n, v, on, q, s) /\ n.task = m.task
<1> DEFINE r    == [m.seen[v] EXCEPT !.fit = FALSE]
           seen == [m.seen EXCEPT ![v] = r]
<1>1. Kept(m) /\ m.seen \in [Trucks -> Seen] /\ m.seen[v] \in Seen
  BY BookTypes DEF BookOK, Kept
<1>2. r \in Seen /\ ~r.fit
  BY <1>1 DEF Seen
<1>3. n = [m EXCEPT !.seen = seen]
  <2>1. n = [m EXCEPT !.seen = [m.seen EXCEPT ![v] = [m.seen[v] EXCEPT !.fit = FALSE]]]
    BY DEF StoodDown
  <2>2. QED
    BY <2>1
<1> HIDE DEF r
<1>4. /\ seen \in [Trucks -> Seen] /\ seen[v] = r /\ \A u \in Trucks \ {v} : seen[u] = m.seen[u]
  BY <1>1, <1>2
<1> HIDE DEF seen
<1>5. /\ Others(m, n, v) /\ n.ledger = m.ledger /\ n.task = m.task
      /\ n.aside = m.aside /\ n.sent = m.sent /\ n.seen = seen /\ (BookOK(m) => BookOK(n))
  <2>1. Kept(m)
    BY <1>1
  <2>2. QED
    BY <1>3, <1>4, <2>1, SeenCall
<1>6. /\ Quiet(m, n, v) /\ n.task = m.task /\ n.aside[v] = m.aside[v]
      /\ n.ledger.standing[v] = m.ledger.standing[v]
      /\ n.ledger.held[v] = m.ledger.held[v]
      /\ v \in m.ledger.yielded => v \in n.ledger.yielded
      /\ ~n.seen[v].fit
  BY <1>2, <1>4, <1>5 DEF Quiet
<1>7. Fine(n, v, on, q \o n.sent[v], s)
  BY <1>6, QuietIsFine
<1>8. QED
  BY <1>5, <1>7 DEF Handled

\* _check_rejection
LEMMA CheckRejectionCall ==
    ASSUME NEW m, BookOK(m), NEW v \in Trucks, NEW q \in Seq(Message), NEW on, NEW s,
           s # None, Fine(m, v, on, q \o m.sent[v], s),
           NEW n, n = CheckRejection(m, v, s)
    PROVE  Handled(m, n, v, on, q, None)
<1> DEFINE t == TaskOf(m, v)
<1>1. Fine(m, v, on, q \o m.sent[v], None)
  BY ReadIsFine
<1>2. CASE n = m
  BY <1>1, <1>2, NothingHandled
<1>3. CASE ~(t = None \/ s.refused = None \/ s.refused # m.task[t].order)
  <2>1. t \in Tasks /\ Carries(m, v, t) /\ m.task[t].by = v /\ s.refused = m.task[t].order
    BY <1>3, TaskOfFacts DEF Fine, Steady, Carries
  <2>2. CASE m.task[t].leg # None /\ m.task[t].leg.pending # None
    <3>1. n = [m EXCEPT !.task[t].leg.pending = None]
      BY <1>3, <2>2 DEF CheckRejection
    <3> HIDE DEF t
    <3>2. QED
      BY <2>1, <2>2, <3>1, DropCall
  <2>3. CASE ~(m.task[t].leg # None /\ m.task[t].leg.pending # None)
    <3> DEFINE k == StoodDown(m, v)
    <3>1. n = Requeue(k, t)
      BY <1>3, <2>3 DEF CheckRejection, StoodDown
    <3> HIDE DEF t
    <3>2. Handled(m, k, v, on, q, None) /\ k.task = m.task
      BY <1>1, StoodDownCall
    <3> HIDE DEF k
    <3>3. BookOK(k) /\ Others(m, k, v) /\ Fine(k, v, on, q \o k.sent[v], None) /\ Carries(k, v, t)
      BY <2>1, <3>2 DEF Handled, Carries
    <3>4. Handled(k, n, v, on, q, None)
      BY <2>1, <3>1, <3>3, GivenBack, SMTT(40) DEF Handled, Returned
    <3>5. QED
      BY <3>3, <3>4, HandledAfter
  <2>4. QED
    BY <2>2, <2>3
<1>4. QED
  BY <1>2, <1>3 DEF CheckRejection

\* A leg is over, or the task is done: nothing is on the floor any more.
LEMMA ArrivedIsFine ==
    ASSUME NEW m, BookOK(m), NEW v \in Trucks, NEW t \in Tasks, Carries(m, v, t),
           NEW on, NEW q, NEW s, Fine(m, v, on, q \o m.sent[v], s),
           NEW n, Kept(n), Others(m, n, v), n.ledger.standing = m.ledger.standing,
           n.seen = m.seen, n.aside = m.aside, n.sent = m.sent,
           NEW x, Replaced(m, n, t, x), x.state \in {"DWELL", "DONE"}, x.by = v, x.order \in Ids,
           x.leg = None
    PROVE  Handled(m, n, v, on, q, s)
<1>1. /\ \A y \in Tasks : Shape(m.task[y])
      /\ Truck(on, q \o m.sent[v], s) /\ Settled(m, v) /\ Located(m, v)
  BY DEF BookOK, Fine, Steady
<1>2. Shape(x)
  BY DEF Shape
<1>3. BookOK(n)
  BY <1>1, <1>2 DEF BookOK, Replaced
<1>4. \A y \in Tasks : Carries(n, v, y) => y = t
  BY <1>1 DEF Settled, Carries, Replaced
<1>5. Settled(n, v)
  BY <1>1, <1>4 DEF Settled
<1>6. \A y \in Tasks : ~(n.task[y].by = v /\ n.task[y].leg # None)
  <2>1. SUFFICES ASSUME NEW y \in Tasks, n.task[y].by = v, n.task[y].leg # None PROVE FALSE
    OBVIOUS
  <2>2. Shape(n.task[y]) /\ n.task[y].state # "DONE"
    BY <1>3, <2>1 DEF BookOK, Shape
  <2>3. y = t
    BY <1>4, <2>1, <2>2 DEF Carries
  <2>4. QED
    BY <2>1, <2>3 DEF Replaced
<1>7. OnLeg(n, v, on, q \o n.sent[v], s)
  BY <1>6 DEF OnLeg
<1>8. Located(n, v)
  BY <1>1 DEF Located
<1>9. QED
  BY <1>1, <1>3, <1>5, <1>7, <1>8 DEF Handled, Fine, Steady

\* A task's state moves on while its leg is still written down.
InState(m, t, st) == [m EXCEPT !.task[t].state = st]

LEMMA StateCall ==
    ASSUME NEW m, Kept(m), NEW v \in Trucks, NEW t \in Tasks, m.task[t].by = v,
           NEW st \in States, NEW n, n = InState(m, t, st)
    PROVE  /\ Kept(n) /\ Others(m, n, v)
           /\ n.ledger = m.ledger /\ n.seen = m.seen /\ n.aside = m.aside /\ n.sent = m.sent
           /\ n.task = [m.task EXCEPT ![t] = Task(st, v, m.task[t].order, m.task[t].leg)]
           /\ n.task[t] = Task(st, v, m.task[t].order, m.task[t].leg)
<1> DEFINE x == Task(st, v, m.task[t].order, m.task[t].leg)
           c == [m.task EXCEPT ![t] = x]
           g == m.shuffles
<1>1. m \in Books /\ m.task[t] \in TaskType /\ m.task \in [Tasks -> TaskType]
      /\ g \in [Trucks -> 0 .. AsideMax]
  BY BookTypes DEF Kept
<1>2. x \in TaskType /\ x.by = v
  <2>1. m.task[t].order \in Ids \cup {None} /\ m.task[t].leg \in LegType \cup {None}
    BY <1>1, TaskFields
  <2>2. QED
    BY <2>1 DEF TaskType, Task
<1>3. InState(m, t, st) = [m EXCEPT !.task = c]
  <2>1. [m EXCEPT !.task[t].state = st] =
          [m EXCEPT !.task = [m.task EXCEPT ![t] = [m.task[t] EXCEPT !.state = st]]]
    OBVIOUS
  <2>2. [m.task[t] EXCEPT !.state = st] = x
    <3>1. m.task[t] = [state |-> m.task[t].state, by |-> v, order |-> m.task[t].order,
                       leg |-> m.task[t].leg]
      BY <1>1, TaskFields DEF Task
    <3>2. QED
      BY <3>1 DEF Task
  <2>3. QED
    BY <2>1, <2>2 DEF InState
<1>4. c[t] = x
  BY <1>1
<1>5. [m EXCEPT !.task = c] =
        Book(m.ledger, m.queue, c, m.seen, m.chase, m.aside, m.shuffles, m.sent)
  BY <1>1, BookUpdates
<1>6. n = Book(m.ledger, m.queue, c, m.seen, m.chase, m.aside, g, m.sent)
  BY <1>3, <1>5
<1> HIDE DEF c, x, g
<1>7. m.task[t].by \in {v, None} /\ x.by \in {v, None} /\ Kept(m)
  BY <1>2
<1>8. c = [m.task EXCEPT ![t] = x]
  BY DEF c
<1>9. /\ Kept(n) /\ Others(m, n, v)
      /\ n.ledger = m.ledger /\ n.task = c /\ n.seen = m.seen
      /\ n.aside = m.aside /\ n.sent = m.sent
  BY <1>1, <1>2, <1>6, <1>7, <1>8, TaskCall
<1>10. QED
  BY <1>4, <1>9 DEF c, x

\* The last call of _check_arrival.
LEMMA ArrivedCall ==
    ASSUME NEW m, BookOK(m), NEW v \in Trucks, NEW t \in Tasks, Carries(m, v, t),
           m.task[t].order \in Ids,
           NEW on, NEW q, NEW s, Fine(m, v, on, q \o m.sent[v], s),
           NEW st \in {"DWELL", "DONE"}, NEW k, k = InState(m, t, st),
           NEW n, n = EndLeg1(k, t, v) \/ n = DropTraffic(k, t)
    PROVE  Handled(m, n, v, on, q, s)
<1> DEFINE x == Task(st, v, m.task[t].order, None)
<1>1. /\ m.task[t].by = v /\ Kept(m) /\ m \in Books /\ st \in States
  BY DEF BookOK, Kept, Carries, States
<1>2. /\ Kept(k) /\ Others(m, k, v)
      /\ k.ledger = m.ledger /\ k.seen = m.seen /\ k.aside = m.aside /\ k.sent = m.sent
      /\ k.task = [m.task EXCEPT ![t] = Task(st, v, m.task[t].order, m.task[t].leg)]
      /\ k.task[t] = Task(st, v, m.task[t].order, m.task[t].leg)
  BY <1>1, StateCall
<1>3. k.task[t].by = v /\ k.task[t].state = st /\ k.task[t].order = m.task[t].order
  BY <1>2 DEF Task
<1>4. /\ Kept(n) /\ Others(k, n, v) /\ n.ledger.standing = k.ledger.standing
      /\ n.task = [k.task EXCEPT ![t] = x]
      /\ n.seen = k.seen /\ n.aside = k.aside /\ n.sent = k.sent
  <2>1. CASE n = EndLeg1(k, t, v)
    <3>1. Kept(k) /\ k.task[t].by = v
      BY <1>2, <1>3
    <3>2. /\ Kept(n) /\ Others(k, n, v) /\ n.ledger.standing = k.ledger.standing
          /\ n.task = [k.task EXCEPT ![t] = Task(k.task[t].state, v, k.task[t].order, None)]
          /\ n.seen = k.seen /\ n.aside = k.aside /\ n.sent = k.sent
      BY <2>1, <3>1, EndLeg1Call
    <3>3. QED
      BY <1>3, <3>2
  <2>2. CASE n = DropTraffic(k, t)
    <3>1. Kept(k) /\ k.task[t].by = v
      BY <1>2, <1>3
    <3>2. /\ Kept(n) /\ Others(k, n, v) /\ n.ledger.standing = k.ledger.standing
          /\ n.task = [k.task EXCEPT ![t] = Task(k.task[t].state, v, k.task[t].order, None)]
          /\ n.seen = k.seen /\ n.aside = k.aside /\ n.sent = k.sent
      BY <2>2, <3>1, DropTrafficCall
    <3>3. QED
      BY <1>3, <3>2
  <2>3. QED
    BY <2>1, <2>2
<1>5. x.state \in {"DWELL", "DONE"} /\ x.by = v /\ x.order \in Ids /\ x.leg = None
  BY <1>1 DEF Task
<1> HIDE DEF x
<1>6. Replaced(m, n, t, x)
  <2>1. m.task \in [Tasks -> TaskType]
    BY <1>1, BookTypes
  <2>2. QED
    BY <1>2, <1>4, <2>1 DEF Replaced
<1>7. Others(m, n, v)
  BY <1>2, <1>4, OthersTransitive
<1>8. /\ n.ledger.standing = m.ledger.standing
      /\ n.seen = m.seen /\ n.aside = m.aside /\ n.sent = m.sent
  BY <1>2, <1>4
<1>9. QED
  BY <1>1, <1>4, <1>5, <1>6, <1>7, <1>8, ArrivedIsFine

\* _check_arrival
LEMMA CheckArrivalCall ==
    ASSUME NEW m, BookOK(m), NEW v \in Trucks, NEW q \in Seq(Message), NEW on, NEW s,
           Fine(m, v, on, q \o m.sent[v], None), NEW unreported,
           NEW n, n = CheckArrival(m, v, s, unreported)
    PROVE  Handled(m, n, v, on, q, None)
<1> DEFINE t == TaskOf(m, v)
<1>1. CASE n = m
  BY <1>1, NothingHandled
<1>2. ASSUME t # None PROVE t \in Tasks /\ Carries(m, v, t) /\ Shape(m.task[t])
  BY <1>2, TaskOfFacts DEF Fine, Steady, BookOK
<1>3. CASE /\ t # None /\ m.task[t].state \in {"LEG1", "LEG2"}
           /\ \/ n = EndLeg1(InState(m, t, "DWELL"), t, v)
              \/ n = DropTraffic(InState(m, t, "DONE"), t)
  <2>1. t \in Tasks /\ Carries(m, v, t) /\ m.task[t].order \in Ids
    BY <1>2, <1>3 DEF Shape
  <2>2. PICK st \in {"DWELL", "DONE"} : \/ n = EndLeg1(InState(m, t, st), t, v)
                                       \/ n = DropTraffic(InState(m, t, st), t)
    BY <1>3
  <2> HIDE DEF t
  <2> DEFINE k == InState(m, t, st)
  <2>3. n = EndLeg1(k, t, v) \/ n = DropTraffic(k, t)
    BY <2>2
  <2>4. k = InState(m, t, st)
    OBVIOUS
  <2> HIDE DEF k
  <2>5. QED
    BY <2>1, <2>3, <2>4, ArrivedCall
<1>4. CASE t # None /\ n = Requeue(m, t)
  <2>1. t \in Tasks /\ Carries(m, v, t) /\ n = Requeue(m, t)
    BY <1>2, <1>4
  <2> HIDE DEF t
  <2>2. QED
    BY <2>1, GivenBack, ZenonT(60) DEF Handled, Returned
<1>5. QED
  BY <1>1, <1>3, <1>4 DEF CheckArrival, InState

\* What a state says of the truck is written down.
Noting(m, v, s) ==
    [order |-> IF s.over THEN None ELSE s.order, node |-> s.node, fin |-> s.fin,
     fit |-> m.seen[v].fit \/ (IF s.over THEN None ELSE s.order) = None]
Noted(m, v, s) == [m EXCEPT !.seen[v] = Noting(m, v, s)]

LEMMA NotedCall ==
    ASSUME NEW m, BookOK(m), NEW v \in Trucks, NEW q \in Seq(Message), NEW on,
           NEW s \in ReportStates, Steady(m, v, on, q \o m.sent[v], s),
           NEW n, n = Noted(m, v, s)
    PROVE  /\ BookOK(n) /\ Others(m, n, v) /\ Steady(n, v, on, q \o n.sent[v], s)
           /\ n.seen[v].node \in Nodes
<1> DEFINE r    == Noting(m, v, s)
           seen == [m.seen EXCEPT ![v] = r]
<1>1. Kept(m) /\ m.seen \in [Trucks -> Seen] /\ m.seen[v] \in Seen
  BY BookTypes DEF BookOK, Kept
<1>2. s.order \in Ids \cup {None} /\ s.node \in Nodes /\ s.fin \in Ids \cup {None}
  BY DEF ReportStates
<1>3. r \in Seen /\ r.node \in Nodes
  <2>1. m.seen[v].fit \in BOOLEAN
    BY <1>1 DEF Seen
  <2>2. (m.seen[v].fit \/ (IF s.over THEN None ELSE s.order) = None) \in BOOLEAN
    BY <2>1
  <2>3. (IF s.over THEN None ELSE s.order) \in Ids \cup {None}
    BY <1>2
  <2>4. QED
    BY <1>2, <2>2, <2>3 DEF Noting, Seen
<1>4. n = [m EXCEPT !.seen = seen]
  BY DEF Noted
<1> HIDE DEF r
<1>5. /\ seen \in [Trucks -> Seen] /\ seen[v] = r /\ \A u \in Trucks \ {v} : seen[u] = m.seen[u]
  BY <1>1, <1>3
<1> HIDE DEF seen
<1>6. /\ Others(m, n, v) /\ n.ledger = m.ledger /\ n.task = m.task
      /\ n.aside = m.aside /\ n.sent = m.sent /\ n.seen = seen /\ BookOK(n)
  <2>1. Kept(m)
    BY <1>1
  <2>2. QED
    BY <1>4, <1>5, <2>1, SeenCall
<1>7. /\ Quiet(m, n, v) /\ n.task = m.task /\ n.aside[v] = m.aside[v]
      /\ n.ledger.standing[v] = m.ledger.standing[v]
      /\ n.ledger.held[v] = m.ledger.held[v]
      /\ v \in m.ledger.yielded => v \in n.ledger.yielded
  BY <1>6 DEF Quiet
<1>8. Steady(n, v, on, q \o n.sent[v], s)
  BY <1>7, QuietIsSteady
<1>9. QED
  BY <1>3, <1>5, <1>6, <1>8

\* _chase_cancel
LEMMA ChaseCancelCall ==
    ASSUME NEW m, BookOK(m), NEW v \in Trucks, NEW q \in Seq(Message), NEW on, NEW s,
           Steady(m, v, on, q \o m.sent[v], s), NEW retry,
           NEW n, n = ChaseCancel(m, v, retry)
    PROVE  /\ BookOK(n) /\ Others(m, n, v) /\ Steady(n, v, on, q \o n.sent[v], s)
           /\ n.seen = m.seen
<1>1. Kept(m) /\ m \in Books
  BY DEF BookOK, Kept
<1>2. CASE n = m
  BY <1>2 DEF Others, Same
<1>3. CASE n = [m EXCEPT !.chase[v] = None] \/ n = Send(m, v, Cancel)
  <2>1. /\ BookOK(n) /\ Others(m, n, v) /\ Quiet(m, n, v)
        /\ n.ledger = m.ledger /\ n.task = m.task /\ n.seen = m.seen /\ n.aside = m.aside
    <3>1. CASE n = [m EXCEPT !.chase[v] = None]
      <4>1. None \in Ids \cup {None} /\ Kept(m)
        BY <1>1
      <4>2. /\ Kept(n) /\ Others(m, n, v)
            /\ n.ledger = m.ledger /\ n.queue = m.queue /\ n.task = m.task /\ n.seen = m.seen
            /\ n.aside = m.aside /\ n.shuffles = m.shuffles /\ n.sent = m.sent
            /\ (BookOK(m) => BookOK(n))
        BY <3>1, <4>1, ChaseCall
      <4>3. QED
        BY <4>2 DEF Quiet
    <3>2. CASE n = Send(m, v, Cancel)
      <4> DEFINE msg == Cancel
      <4>1. msg \in Message /\ Kept(m) /\ n = Send(m, v, msg)
        BY <1>1, <3>2, CancelIsMessage
      <4> HIDE DEF msg
      <4>2. /\ Others(m, n, v)
            /\ n.ledger = m.ledger /\ n.task = m.task /\ n.seen = m.seen /\ n.aside = m.aside
            /\ n.sent[v] = Append(m.sent[v], msg)
            /\ (BookOK(m) => BookOK(n))
        BY <4>1, SendCall
      <4>3. QED
        BY <4>2 DEF Quiet, msg
    <3>3. QED
      BY <1>3, <3>1, <3>2
  <2>2. /\ n.aside[v] = m.aside[v] /\ n.ledger.standing[v] = m.ledger.standing[v]
        /\ n.ledger.held[v] = m.ledger.held[v]
        /\ v \in m.ledger.yielded => v \in n.ledger.yielded
    BY <2>1
  <2>3. Steady(n, v, on, q \o n.sent[v], s)
    BY <2>1, <2>2, QuietIsSteady
  <2>4. QED
    BY <2>1, <2>3
<1>4. QED
  BY <1>2, <1>3 DEF ChaseCancel, Cancel

\* _on_state
LEMMA OnStateCall ==
    ASSUME NEW m, BookOK(m), NEW v \in Trucks, NEW q \in Seq(Message), NEW on,
           NEW s \in ReportStates, s # None, Steady(m, v, on, q \o m.sent[v], s),
           NEW retry, NEW unreported
    PROVE  Handled(m, OnState(m, v, s, retry, unreported), v, on, q, None)
<1> DEFINE a == Noted(m, v, s)
           b == ChaseCancel(a, v, retry)
           c == NoteState(b, v, s)
           d == CheckRejection(c, v, s)
           e == CheckArrival(d, v, s, unreported)
<1>1. OnState(m, v, s, retry, unreported) = e
  BY DEF OnState, Noted, Noting
<1>2. /\ BookOK(a) /\ Others(m, a, v) /\ Steady(a, v, on, q \o a.sent[v], s)
      /\ a.seen[v].node \in Nodes
  BY NotedCall
<1> HIDE DEF a
<1>3. /\ BookOK(b) /\ Others(a, b, v) /\ Steady(b, v, on, q \o b.sent[v], s)
      /\ b.seen = a.seen
  BY <1>2, ChaseCancelCall
<1> HIDE DEF b
<1>4. BookOK(c) /\ Others(b, c, v) /\ Fine(c, v, on, q \o c.sent[v], s)
  <2>1. b.seen[v].node \in Nodes
    BY <1>2, <1>3
  <2>2. Handled(b, c, v, on, q, s)
    BY <1>3, <2>1, NoteStateCall
  <2>3. QED
    BY <2>2 DEF Handled
<1> HIDE DEF c
<1>5. BookOK(d) /\ Others(c, d, v) /\ Fine(d, v, on, q \o d.sent[v], None)
  <2>1. Handled(c, d, v, on, q, None)
    BY <1>4, CheckRejectionCall
  <2>2. QED
    BY <2>1 DEF Handled
<1> HIDE DEF d
<1>6. Handled(d, e, v, on, q, None)
  BY <1>5, CheckArrivalCall
<1> HIDE DEF e
<1>7. Others(m, d, v)
  <2>1. Others(m, b, v)
    BY <1>2, <1>3, OthersTransitive
  <2>2. Others(m, c, v)
    BY <1>4, <2>1, OthersTransitive
  <2>3. QED
    BY <1>5, <2>2, OthersTransitive
<1>8. Handled(m, e, v, on, q, None)
  BY <1>6, <1>7, HandledAfter
<1>9. QED
  BY <1>1, <1>8

-----------------------------------------------------------------------------
(* Deadlocks. *)

\* The least of a rank of four.
LEMMA LeastRanked ==
    ASSUME NEW S, S # {}, NEW f, \A x \in S : f[x] \in 0 .. 3
    PROVE  \E x \in S : \A y \in S : f[x] <= f[y]
<1>1. CASE \E x \in S : f[x] = 0
  BY <1>1
<1>2. CASE (\A x \in S : f[x] # 0) /\ \E x \in S : f[x] = 1
  BY <1>2
<1>3. CASE (\A x \in S : f[x] \notin {0, 1}) /\ \E x \in S : f[x] = 2
  BY <1>3
<1>4. CASE \A x \in S : f[x] \notin {0, 1, 2}
  <2>1. \A x \in S : f[x] = 3
    BY <1>4
  <2>2. QED
    BY <2>1
<1>5. QED
  BY <1>1, <1>2, <1>3, <1>4

\* A truck is moved to a neighbour of the node it stands on.
LEMMA TargetIsNext ==
    ASSUME NEW m, NEW v, NEW others, NEW x, x = StepAsideTarget(m, v, others), x # None
    PROVE  /\ Stands(m, v) # None /\ m.aside[v] = None
           /\ x \in Neighbours(Stands(m, v))
<1> DEFINE node    == Stands(m, v)
           legs    == {u \in others : LegOf(m, u) # None}
           theirs  == (UNION {Range(Rest(LegOf(m, u).path, LegOf(m, u).last)) : u \in legs})
                      \cup {Stands(m, u) : u \in others}
           open(n) == /\ FreeFor(m.ledger, v, n) /\ FreeFor(m.ledger, v, Edge(node, n))
                      /\ {node, n} \in Near
           junction(n) == SpurEntry(n) # None
           targets == IF node = None \/ m.aside[v] # None THEN {}
                      ELSE {n \in Neighbours(node) : open(n)}
           rank(n) == (IF n \in theirs THEN 2 ELSE 0) + (IF junction(n) THEN 1 ELSE 0)
           f       == [n \in targets |-> rank(n)]
<1>1. x = IF targets = {} THEN None
          ELSE CHOOSE n \in targets : \A o \in targets : rank(n) <= rank(o)
  BY DEF StepAsideTarget
<1> HIDE DEF theirs
<1>2. \A n \in targets : f[n] \in 0 .. 3 /\ f[n] = rank(n)
  <2> HIDE DEF targets, junction
  <2>1. QED
    OBVIOUS
<1> HIDE DEF f, rank
<1>3. targets # {} => \E n \in targets : \A o \in targets : rank(n) <= rank(o)
  <2>1. targets # {} => \E n \in targets : \A o \in targets : f[n] <= f[o]
    <3> HIDE DEF targets
    <3>1. QED
      BY <1>2, LeastRanked
  <2>2. QED
    BY <1>2, <2>1
<1>4. x \in targets
  <2> HIDE DEF targets
  <2>1. QED
    BY <1>1, <1>3
<1>5. QED
  BY <1>4

\* The floor a truck is moved onto, and the move.
Moved(m, k, g, a) == [[[m EXCEPT !.ledger = k] EXCEPT !.shuffles = g] EXCEPT !.aside = a]

LEMMA MovedCall ==
    ASSUME NEW m, BookOK(m), NEW v \in Trucks, NEW k, OnlyFor(m.ledger, k, v),
           NEW g \in [Trucks -> 0 .. AsideMax],
           NEW a \in [Trucks -> Aside \cup {None}], \A u \in Trucks \ {v} : a[u] = m.aside[u],
           NEW n, n = Moved(m, k, g, a)
    PROVE  /\ BookOK(n) /\ Others(m, n, v)
           /\ n.ledger = k /\ n.task = m.task /\ n.seen = m.seen /\ n.aside = a
           /\ n.sent = m.sent
<1>1. /\ m \in Books /\ Kept(m)
      /\ m = Book(m.ledger, m.queue, m.task, m.seen, m.chase, m.aside, m.shuffles, m.sent)
  BY BookTypes DEF Kept, BookOK
<1>2. n = Book(k, m.queue, m.task, m.seen, m.chase, a, g, m.sent)
  <2> DEFINE b == [m EXCEPT !.ledger = k]
             c == [b EXCEPT !.shuffles = g]
  <2>1. b = Book(k, m.queue, m.task, m.seen, m.chase, m.aside, m.shuffles, m.sent)
    BY <1>1, BookUpdates
  <2>2. n = [c EXCEPT !.aside = a]
    BY DEF Moved
  <2> HIDE DEF b
  <2>3. c = Book(k, m.queue, m.task, m.seen, m.chase, m.aside, g, m.sent)
    BY <2>1 DEF Book
  <2> HIDE DEF c
  <2>4. QED
    BY <2>2, <2>3 DEF Book
<1>3. /\ n.ledger = k /\ n.queue = m.queue /\ n.task = m.task /\ n.seen = m.seen
      /\ n.chase = m.chase /\ n.aside = a /\ n.shuffles = g /\ n.sent = m.sent
  BY <1>2 DEF Book
<1>4. Kept(n)
  <2>1. /\ k \in LedgerType /\ Consistent(k)
        /\ m.task \in [Tasks -> TaskType]
        /\ m.seen \in [Trucks -> Seen] /\ m.chase \in [Trucks -> Ids \cup {None}]
        /\ m.sent \in [Trucks -> Seq(Message)]
    BY <1>1, BookTypes DEF OnlyFor
  <2>2. n = Book(n.ledger, m.queue, n.task, n.seen, n.chase, n.aside, n.shuffles, n.sent)
    BY <1>2, <1>3
  <2>3. QED
    BY <1>1, <1>3, <2>1, <2>2, KeptBook
<1>5. Others(m, n, v)
  BY <1>3, OthersByFields
<1>6. QED
  BY <1>3, <1>4, <1>5 DEF BookOK

\* The truck's task, if it has one, is taken from it.
Emptied(m, n, v) ==
    \/ TaskOf(m, v) = None /\ n = m
    \/ /\ TaskOf(m, v) # None
       /\ n = AbandonOrder(Requeue(m, TaskOf(m, v)), v, m.task[TaskOf(m, v)].order)

LEMMA UnladenAfter ==
    ASSUME NEW m, BookOK(m), NEW v \in Trucks, NEW q \in Seq(Message), NEW on, NEW s,
           Fine(m, v, on, q \o m.sent[v], s),
           NEW n, Emptied(m, n, v)
    PROVE  /\ Handled(m, n, v, on, q, s) /\ Unladen(n, v)
           /\ n.aside = m.aside /\ n.shuffles = m.shuffles
           /\ n.ledger.standing = m.ledger.standing
<1>1. CASE TaskOf(m, v) = None /\ n = m
  BY <1>1, TaskOfFacts, NothingHandled DEF Fine, Steady
<1>2. CASE TaskOf(m, v) # None
  <2> DEFINE t == TaskOf(m, v)
  <2>1. t \in Tasks /\ Carries(m, v, t)
    BY <1>2, TaskOfFacts DEF Fine, Steady
  <2>2. n = AbandonOrder(Requeue(m, t), v, m.task[t].order)
    BY <1>2 DEF Emptied
  <2> HIDE DEF t
  <2> DEFINE k == AbandonOrder(Requeue(m, t), v, m.task[t].order)
  <2>3. Returned(m, k, v, on, q, s)
    BY <2>1, GivenBack
  <2>4. n = k
    BY <2>2
  <2> HIDE DEF k
  <2>5. QED
    BY <2>3, <2>4 DEF Handled, Returned
<1>3. QED
  BY <1>1, <1>2 DEF Emptied

\* _step_aside
LEMMA StepAsideCall ==
    ASSUME NEW m, BookOK(m), NEW v \in Trucks, NEW q \in Seq(Message), NEW on, NEW s,
           Fine(m, v, on, q \o m.sent[v], s),
           m.shuffles[v] < AsideMax, Stands(m, v) # None,
           NEW target \in Neighbours(Stands(m, v)),
           NEW n, n = StepAside(m, v, target)
    PROVE  Handled(m, n, v, on, q, s)
<1> DEFINE t    == TaskOf(m, v)
           node == Stands(m, v)
           gone == IF t = None THEN m ELSE AbandonOrder(Requeue(m, t), v, m.task[t].order)
           r    == RouteElements(<<node, target>>)
           k    == ClearWait(Hold(gone.ledger, v, r), v)
           g    == [gone.shuffles EXCEPT ![v] = @ + 1]
           x    == [node |-> target, order |-> None, seen |-> FALSE]
           a    == [gone.aside EXCEPT ![v] = x]
<1>1. /\ Handled(m, gone, v, on, q, s) /\ Unladen(gone, v)
      /\ gone.aside = m.aside /\ gone.shuffles = m.shuffles
      /\ gone.ledger.standing = m.ledger.standing
  <2>1. Emptied(m, gone, v)
    BY DEF Emptied
  <2> HIDE DEF gone
  <2>2. QED
    BY <2>1, UnladenAfter
<1>2. n = Moved(gone, k, g, a)
  <2>1. n = [gone EXCEPT !.ledger = ClearWait(Hold(@, v, r), v),
                         !.shuffles[v] = @ + 1,
                         !.aside[v] = x]
    BY DEF StepAside
  <2> HIDE DEF gone, r, x
  <2>2. QED
    BY <2>1 DEF Moved
<1> HIDE DEF gone
<1>3. /\ BookOK(gone) /\ Others(m, gone, v) /\ Fine(gone, v, on, q \o gone.sent[v], s)
      /\ gone \in Books /\ Kept(gone)
      /\ gone.ledger \in LedgerType /\ Consistent(gone.ledger)
      /\ gone.shuffles \in [Trucks -> 0 .. AsideMax]
      /\ gone.aside \in [Trucks -> Aside \cup {None}]
  BY <1>1, BookTypes DEF Handled, BookOK, Kept
<1>4. node \in Nodes /\ target \in Nodes
  <2>1. m.ledger \in LedgerType
    BY BookTypes DEF BookOK, Kept
  <2>2. QED
    BY <2>1, LedgerFields DEF Stands, Neighbours
<1>5. r \in Seq(Elements) /\ IsInjective(r)
  BY <1>4, PairRequest
<1> HIDE DEF r
<1>6. OnlyFor(gone.ledger, k, v) /\ k.standing = gone.ledger.standing
  <2> DEFINE h == Hold(gone.ledger, v, r)
  <2>1. OnlyFor(gone.ledger, h, v) /\ h.standing = gone.ledger.standing
    BY <1>3, <1>5, HoldOnly
  <2> HIDE DEF h
  <2>2. h \in LedgerType /\ Consistent(h)
    BY <2>1 DEF OnlyFor
  <2>3. OnlyFor(h, ClearWait(h, v), v) /\ ClearWait(h, v).standing = h.standing
    BY <2>2, ClearWaitOnly
  <2>4. k = ClearWait(h, v)
    BY DEF h
  <2>5. QED
    BY <2>1, <2>3, <2>4, OnlyForTransitive
<1> HIDE DEF k
<1>7. g \in [Trucks -> 0 .. AsideMax]
  <2>1. gone.shuffles[v] < AsideMax /\ gone.shuffles[v] \in 0 .. AsideMax
    BY <1>1, <1>3
  <2>2. gone.shuffles[v] + 1 \in 0 .. AsideMax
    BY <2>1, FloorConstants
  <2>3. QED
    BY <1>3, <2>2
<1>8. x \in Aside
  BY <1>4 DEF Aside
<1> HIDE DEF x
<1>9. a \in [Trucks -> Aside \cup {None}] /\ \A u \in Trucks \ {v} : a[u] = gone.aside[u]
  BY <1>3, <1>8
<1> HIDE DEF a, g
<1>10. /\ BookOK(n) /\ Others(gone, n, v)
       /\ n.ledger = k /\ n.task = gone.task /\ n.seen = gone.seen /\ n.aside = a
       /\ n.sent = gone.sent
  BY <1>2, <1>3, <1>6, <1>7, <1>9, MovedCall, SMTT(40)
<1>11. Unladen(n, v)
  BY <1>1, <1>10 DEF Unladen, Carries
<1>12. Located(n, v)
  <2>1. n.ledger.standing[v] \in Nodes
    BY <1>1, <1>4, <1>6, <1>10 DEF Stands
  <2>2. Located(gone, v)
    BY <1>3 DEF Fine
  <2>3. QED
    BY <1>10, <2>1, <2>2 DEF Located
<1>13. Fine(n, v, on, q \o n.sent[v], s)
  <2>1. Truck(on, q \o n.sent[v], s)
    BY <1>3, <1>10 DEF Fine, Steady
  <2>2. QED
    BY <1>10, <1>11, <1>12, <2>1, UnladenIsFine
<1>14. Others(m, n, v)
  BY <1>3, <1>10, OthersTransitive
<1>15. QED
  BY <1>10, <1>13, <1>14 DEF Handled

LEMMA AgesOfTasks ==
    ASSUME NEW m
    PROVE  \A v \in DOMAIN Ages(m) : Ages(m)[v] \in Nat
<1>1. SUFFICES ASSUME NEW v \in DOMAIN Ages(m) PROVE Ages(m)[v] \in Nat
  OBVIOUS
<1>2. \E t \in InFlight(m) : m.task[t].by = v
  BY DEF Ages
<1>3. (CHOOSE t \in InFlight(m) : m.task[t].by = v) \in Tasks
  BY <1>2 DEF InFlight
<1>4. Ages(m)[v] = Submit[CHOOSE t \in InFlight(m) : m.task[t].by = v]
  BY DEF Ages
<1>5. QED
  BY <1>3, <1>4, FloorConstants

\* _cannot_yield and _unresolvable
LEMMA CannotYieldCall ==
    ASSUME NEW m, BookOK(m), NEW v \in Trucks, NEW q \in Seq(Message), NEW on, NEW s,
           Fine(m, v, on, q \o m.sent[v], s),
           NEW cycle, NEW n, n = CannotYield(m, cycle, v)
    PROVE  Handled(m, n, v, on, q, s)
<1> DEFINE target == IF m.shuffles[v] >= AsideMax THEN None
                     ELSE StepAsideTarget(m, v, cycle \ {v})
<1>1. CASE target # None /\ n = StepAside(m, v, target)
  <2>1. m.shuffles[v] < AsideMax
    <3>1. m.shuffles[v] \in 0 .. AsideMax
      BY BookTypes DEF BookOK, Kept
    <3>2. QED
      BY <1>1, <3>1, FloorConstants
  <2>2. target = StepAsideTarget(m, v, cycle \ {v}) /\ target # None
    BY <1>1, <2>1, FloorConstants
  <2>3. n = StepAside(m, v, target)
    BY <1>1
  <2> HIDE DEF target
  <2>4. Stands(m, v) # None /\ target \in Neighbours(Stands(m, v))
    BY <2>2, TargetIsNext
  <2>5. QED
    BY <2>1, <2>3, <2>4, StepAsideCall
<1>2. CASE Emptied(m, n, v)
  BY <1>2, UnladenAfter
<1>3. QED
  BY <1>1, <1>2 DEF CannotYield, Emptied

\* Wait-die takes a truck's floor.
Yielded(m, v) == [m EXCEPT !.ledger = Yield(m.ledger, v)]

LEMMA YieldCall ==
    ASSUME NEW m, BookOK(m), NEW v \in Trucks, NEW q \in Seq(Message), NEW on, NEW s,
           Fine(m, v, on, q \o m.sent[v], s),
           NEW n, n = Yielded(m, v)
    PROVE  Handled(m, n, v, on, q, s)
<1> DEFINE k == Yield(m.ledger, v)
<1>1. Kept(m) /\ m.ledger \in LedgerType /\ Consistent(m.ledger)
  BY BookTypes DEF BookOK, Kept
<1>2. OnlyFor(m.ledger, k, v) /\ v \in k.yielded /\ k.standing = m.ledger.standing
  BY <1>1, YieldOnly
<1>3. n = [m EXCEPT !.ledger = k]
  BY DEF Yielded
<1> HIDE DEF k
<1>4. /\ Others(m, n, v) /\ n.ledger = k /\ n.task = m.task /\ n.seen = m.seen
      /\ n.aside = m.aside /\ n.sent = m.sent /\ BookOK(n)
  <2>1. Kept(m) /\ OnlyFor(m.ledger, k, v)
    BY <1>1, <1>2
  <2>2. QED
    BY <1>3, <2>1, LedgerCall, SMTT(40)
<1>5. /\ Quiet(m, n, v) /\ n.task = m.task /\ n.aside[v] = m.aside[v] /\ v \in n.ledger.yielded
      /\ n.ledger.standing[v] = m.ledger.standing[v]
      /\ n.seen[v].fit => m.seen[v].fit /\ n.seen[v].node = m.seen[v].node
  BY <1>2, <1>4 DEF Quiet
<1>6. Fine(n, v, on, q \o n.sent[v], s)
  BY <1>5, QuietIsFine
<1>7. QED
  BY <1>4, <1>6 DEF Handled

LEMMA SoundHandled ==
    ASSUME NEW m, NEW on, NEW q, NEW s, Sound(m, on, q, s), NEW v \in Trucks,
           NEW n, Handled(m, n, v, on[v], q[v], s[v])
    PROVE  Sound(n, on, q, s)
BY SoundAfter DEF Handled

\* One turn of the loop.
LEMMA ResolveTurnCall ==
    ASSUME NEW m, NEW on, NEW q \in [Trucks -> Seq(Message)], NEW s, Sound(m, on, q, s), NEW still
    PROVE  Sound(ResolveTurn(m, still).book, on, q, s)
<1> DEFINE cycle   == FindCycle(m.ledger)
           loser   == Youngest(Ages(m), cycle)
           yielded == Yielded(m, loser)
           n       == ResolveTurn(m, still).book
<1>1. \/ n = m
      \/ cycle # {} /\ (\/ n = CannotYield(m, cycle, loser)
                        \/ n = CannotYield(yielded, cycle, loser)
                        \/ n = yielded)
  BY DEF ResolveTurn, Yielded
<1>2. ASSUME cycle # {} PROVE loser \in Trucks
  <2>1. cycle \in SUBSET Vehicles
    BY BookTypes, CycleOfVehicles DEF Sound, BookOK, Kept
  <2> HIDE DEF cycle
  <2>2. QED
    BY <1>2, <2>1, AgesOfTasks, LoserInCycle
<1>3. CASE cycle # {} /\ loser \in Trucks
  <2> HIDE DEF cycle, loser, n
  <2>1. BookOK(m) /\ Fine(m, loser, on[loser], q[loser] \o m.sent[loser], s[loser])
        /\ q[loser] \in Seq(Message)
    BY <1>3 DEF Sound
  <2>2. Sound(yielded, on, q, s)
    <3>1. Handled(m, yielded, loser, on[loser], q[loser], s[loser])
      BY <1>3, <2>1, YieldCall
    <3> HIDE DEF yielded
    <3>2. QED
      BY <1>3, <3>1, SoundHandled
  <2> HIDE DEF yielded
  <2>3. BookOK(yielded)
        /\ Fine(yielded, loser, on[loser], q[loser] \o yielded.sent[loser], s[loser])
    BY <1>3, <2>2 DEF Sound
  <2>4. CASE n = CannotYield(m, cycle, loser)
    <3>1. Handled(m, n, loser, on[loser], q[loser], s[loser])
      BY <1>3, <2>1, <2>4, CannotYieldCall
    <3>2. QED
      BY <1>3, <3>1, SoundHandled DEF n
  <2>5. CASE n = CannotYield(yielded, cycle, loser)
    <3>1. Handled(yielded, n, loser, on[loser], q[loser], s[loser])
      BY <1>3, <2>1, <2>3, <2>5, CannotYieldCall
    <3>2. Sound(n, on, q, s)
      BY <1>3, <2>2, <3>1, SoundHandled
    <3>3. QED
      BY <3>2 DEF n
  <2>6. QED
    BY <1>1, <2>2, <2>4, <2>5 DEF n
<1>4. QED
  BY <1>1, <1>2, <1>3
=============================================================================
