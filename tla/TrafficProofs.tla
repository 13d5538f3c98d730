---------------------------- MODULE TrafficProofs ----------------------------
(***************************************************************************)
(* Theorems about traffic.py: the ledger in use (Reservations), for every  *)
(* floor, every set of vehicles and every order of the names, and          *)
(* find_cycle and wait-die alone (WaitDie), for every wait-for graph that  *)
(* the vehicles can make.                                                  *)
(***************************************************************************)
EXTENDS Reservations, WaitDie, LedgerProofs

-----------------------------------------------------------------------------
(* What a caller asks for. *)

LEMMA RequestsNameFloorOnce ==
    ASSUME NEW request \in Requests
    PROVE  request \in Seq(Elements) /\ IsInjective(request)
<1>1. PICK p \in Paths : request = RouteElements(p)
  BY DEF Requests
<1>2. PICK n \in 1 .. MaxPath : p \in [1 .. n -> Nodes]
  BY <1>1 DEF Paths
<1>3. n \in Nat \ {0}
  BY <1>2, RequestAssumption
<1>4. Len(p) = n
  <2>1. p \in Seq(Nodes)
    BY <1>2, <1>3, SeqDef
  <2>2. QED
    BY <1>2, <1>3, <2>1, LenProperties
<1>5. IsInjective(p) /\ \A i \in 1 .. n - 1 : Edge(p[i], p[i + 1]) \in Links
  BY <1>4 DEF Paths
<1>6. QED
  BY <1>1, <1>2, <1>3, <1>5, RouteElementsOfPath

-----------------------------------------------------------------------------
(***************************************************************************)
(* The ledger is well typed and consistent: an inductive invariant, since  *)
(* every call leaves it so.                                                *)
(***************************************************************************)
LedgerInv == TypeOK /\ IndexesAgree

\* A call made for v: the ledger it leaves behind, and what it did to owners.
CallFor(v) ==
    /\ ledger' \in LedgerType
    /\ Consistent(ledger')
    /\ Traded(ledger.owner, ledger'.owner, v)

LEMMA InitLedgerInv == Init => LedgerInv
<1> SUFFICES ASSUME Init PROVE LedgerInv
  OBVIOUS
<1>1. << >> \in Seq(Elements) /\ Range(<< >>) = {} /\ IsInjective(<< >>)
  BY DEF Range, IsInjective
<1>2. ledger = [owner |-> [e \in Elements |-> None], held |-> [v \in Vehicles |-> << >>],
                waiting |-> [v \in Vehicles |-> None], standing |-> [v \in Vehicles |-> None],
                yielded |-> {}]
  BY DEF Init, EmptyLedger
<1>3. ledger \in LedgerType
  BY <1>1, <1>2 DEF LedgerType
<1>4. \A v \in Vehicles : ledger.held[v] = << >> /\ OwnedBy(ledger, v) = {}
  BY <1>2, FloorAssumption DEF OwnedBy
<1>5. Consistent(ledger)
  BY <1>1, <1>4 DEF Consistent
<1>6. granted \in [Vehicles -> Seq(Elements)]
  BY <1>1 DEF Init
<1>7. QED
  BY <1>3, <1>5, <1>6 DEF LedgerInv, TypeOK, IndexesAgree

\* Every step is a call made for one vehicle.
LEMMA StepIsCall ==
    ASSUME LedgerInv, Next
    PROVE  TypeOK' /\ \E v \in Vehicles : CallFor(v)
<1>1. /\ ledger \in LedgerType /\ Consistent(ledger)
      /\ granted \in [Vehicles -> Seq(Elements)]
  BY DEF LedgerInv, TypeOK, IndexesAgree
<1>2. ASSUME NEW v \in Vehicles, NEW request \in Requests, CallHold(v, request)
      PROVE  TypeOK' /\ CallFor(v)
  <2>1. request \in Seq(Elements) /\ IsInjective(request)
    BY RequestsNameFloorOnce
  <2>2. CallFor(v)
    BY <1>1, <1>2, <2>1, HoldConsistent DEF CallHold, CallFor
  <2>3. Grant(ledger, v, request) \in Seq(Elements)
    BY <1>1, <2>1, GrantProperties
  <2>4. granted' \in [Vehicles -> Seq(Elements)]
    BY <1>1, <1>2, <2>3 DEF CallHold
  <2>5. QED
    BY <2>2, <2>4 DEF TypeOK, CallFor
<1>3. ASSUME NEW v \in Vehicles, NEW node \in Nodes, CallReleaseThrough(v, node)
      PROVE  TypeOK' /\ CallFor(v)
  BY <1>1, <1>3, ReleaseThroughConsistent DEF CallReleaseThrough, CallFor, TypeOK
<1>4. ASSUME NEW v \in Vehicles, ledger' \in LedgerType,
             granted' = [granted EXCEPT ![v] = ledger'.held[v]]
      PROVE  granted' \in [Vehicles -> Seq(Elements)]
  <2>1. ledger'.held[v] \in Seq(Elements)
    BY <1>4 DEF LedgerType
  <2>2. QED
    BY <1>1, <1>4, <2>1
<1>5. ASSUME NEW v \in Vehicles, NEW keep \in {None, ledger.standing[v]},
             CallReleaseAll(v, keep)
      PROVE  TypeOK' /\ CallFor(v)
  <2>1. keep \in Nodes \cup {None}
    BY <1>1 DEF LedgerType
  <2>2. CallFor(v)
    BY <1>1, <1>5, <2>1, ReleaseAllConsistent DEF CallReleaseAll, CallFor
  <2>3. QED
    BY <1>4, <1>5, <2>2 DEF CallReleaseAll, CallFor, TypeOK
<1>6. ASSUME CallResolveDeadlock
      PROVE  TypeOK' /\ \E v \in Vehicles : CallFor(v)
  <2> DEFINE loser == Youngest(Submitted, FindCycle(ledger))
  <2>1. FindCycle(ledger) \in SUBSET Vehicles /\ FindCycle(ledger) # {}
    BY <1>1, <1>6, CycleOfVehicles DEF CallResolveDeadlock
  <2>2. loser \in Vehicles
    BY <2>1, RequestAssumption, LoserInCycle
  <2>3. ledger' = Yield(ledger, loser) /\ granted' = [granted EXCEPT ![loser] = ledger'.held[loser]]
    BY <1>6 DEF CallResolveDeadlock, ResolveDeadlock
  <2> HIDE DEF loser
  <2>4. CallFor(loser)
    BY <1>1, <2>2, <2>3, YieldConsistent DEF CallFor
  <2>5. QED
    BY <1>4, <2>2, <2>3, <2>4 DEF CallFor, TypeOK
<1>7. ASSUME NEW v \in Vehicles, NEW node \in Nodes, CallSetStanding(v, node)
      PROVE  TypeOK' /\ CallFor(v)
  <2>1. /\ ledger' \in LedgerType /\ Consistent(ledger')
        /\ ledger'.owner = ledger.owner
    BY <1>1, <1>7, SetStandingConsistent DEF CallSetStanding
  <2>2. QED
    BY <1>1, <1>7, <2>1 DEF CallSetStanding, CallFor, Traded, TypeOK
<1>8. ASSUME NEW v \in Vehicles, CallClearYield(v)
      PROVE  TypeOK' /\ CallFor(v)
  <2>1. /\ ledger' \in LedgerType /\ Consistent(ledger')
        /\ ledger'.owner = ledger.owner
    BY <1>1, <1>8, ClearYieldConsistent DEF CallClearYield
  <2>2. QED
    BY <1>1, <1>8, <2>1 DEF CallClearYield, CallFor, Traded, TypeOK
<1>9. ASSUME NEW v \in Vehicles, CallClearWait(v)
      PROVE  TypeOK' /\ CallFor(v)
  <2>1. /\ ledger' \in LedgerType /\ Consistent(ledger')
        /\ ledger'.owner = ledger.owner
    BY <1>1, <1>9, ClearWaitConsistent DEF CallClearWait
  <2>2. QED
    BY <1>1, <1>9, <2>1 DEF CallClearWait, CallFor, Traded, TypeOK
<1>10. QED
  BY <1>2, <1>3, <1>5, <1>6, <1>7, <1>8, <1>9 DEF Next

LEMMA StepLedgerInv == LedgerInv /\ [Next]_vars => LedgerInv'
<1> SUFFICES ASSUME LedgerInv, [Next]_vars PROVE LedgerInv'
  OBVIOUS
<1>1. CASE Next
  <2>1. TypeOK' /\ \E v \in Vehicles : CallFor(v)
    BY <1>1, StepIsCall
  <2>2. QED
    BY <2>1 DEF LedgerInv, IndexesAgree, CallFor
<1>2. CASE UNCHANGED vars
  BY <1>2 DEF vars, LedgerInv, TypeOK, IndexesAgree
<1>3. QED
  BY <1>1, <1>2

\* The ledger and the last grants are of their types.
THEOREM TypeCorrect == Spec => []TypeOK
<1>1. LedgerInv => TypeOK
  BY DEF LedgerInv
<1>2. QED
  BY <1>1, InitLedgerInv, StepLedgerInv, PTL DEF Spec

\* _held and _owner never disagree, whatever calls are made in whatever order:
\* what a vehicle's list names is what it owns, each element once.
THEOREM IndexesAlwaysAgree == Spec => []IndexesAgree
<1>1. LedgerInv => IndexesAgree
  BY DEF LedgerInv
<1>2. QED
  BY <1>1, InitLedgerInv, StepLedgerInv, PTL DEF Spec

\* No call takes floor from the vehicle that owns it and gives it to another:
\* hold grants only what nobody owns, the releases and the yield of wait-die
\* free only what the named vehicle owns.
THEOREM FloorNeverTakenOver == Spec => NeverTakenOver
<1> DEFINE Kept == \A e \in Elements :
                       ledger.owner[e] # None => ledger'.owner[e] \in {ledger.owner[e], None}
<1>1. LedgerInv /\ [Next]_vars => [Kept]_vars
  <2> SUFFICES ASSUME LedgerInv, Next PROVE Kept
    OBVIOUS
  <2>1. PICK v \in Vehicles : CallFor(v)
    BY StepIsCall
  <2>2. QED
    BY <2>1 DEF CallFor, Traded
<1>2. QED
  BY <1>1, InitLedgerInv, StepLedgerInv, PTL DEF Spec, NeverTakenOver

\* The ledger implements Claims: every call trades floor for one vehicle and
\* touches nobody else's.
THEOREM LedgerImplementsClaims == Spec => ImplementsClaims
<1>1. Init => ClaimsOf!Init
  BY DEF Init, EmptyLedger, ClaimsOf!Init
<1>2. LedgerInv /\ [Next]_vars => [ClaimsOf!Next]_(ledger.owner)
  <2> SUFFICES ASSUME LedgerInv, [Next]_vars PROVE [ClaimsOf!Next]_(ledger.owner)
    OBVIOUS
  <2>1. CASE Next
    <3>1. PICK v \in Vehicles : CallFor(v)
      BY <2>1, StepIsCall
    <3>2. ledger'.owner \in [Elements -> Vehicles \cup {None}]
      BY <3>1 DEF CallFor, LedgerType
    <3>3. ClaimsOf!Trade(v)
      BY <3>1, <3>2 DEF CallFor, Traded, ClaimsOf!Trade
    <3>4. QED
      BY <3>3 DEF ClaimsOf!Next
  <2>2. CASE UNCHANGED vars
    BY <2>2 DEF vars
  <2>3. QED
    BY <2>1, <2>2
<1>3. QED
  BY <1>1, <1>2, InitLedgerInv, StepLedgerInv, PTL DEF Spec, ImplementsClaims, ClaimsOf!Spec

-----------------------------------------------------------------------------
(***************************************************************************)
(* Rule 2 of traffic.py: a grant stays ahead of the truck.  A vehicle's    *)
(* list is what lies behind it followed by what is left of its last grant; *)
(* the argument goes by positions.  hold puts the whole grant last,        *)
(* release_through cuts the list at the front, and release_all and         *)
(* wait-die leave a list that is its own grant.                            *)
(***************************************************************************)

\* What GrantStaysAhead says of one vehicle: its list, and its last grant.
StaysAhead(held, grant) ==
    \E k \in 1 .. Len(grant) + 1 :
        LET ahead == SubSeq(grant, k, Len(grant))
            split == Len(held) - Len(ahead)
        IN  /\ split >= 0
            /\ SubSeq(held, split + 1, Len(held)) = ahead
            /\ Range(SubSeq(held, 1, split)) \cap Range(grant) = {}

\* The same by positions: from its k-th element on the grant is what the list
\* has behind its first split elements, and none of those is of the grant.
AheadFrom(held, grant, k, split) ==
    /\ split + (Len(grant) + 1 - k) = Len(held)
    /\ \A i \in 1 .. Len(grant) + 1 - k : held[split + i] = grant[k + i - 1]
    /\ \A j \in 1 .. split : \A i \in 1 .. Len(grant) : held[j] # grant[i]

\* A part of a list, to its end or from its start.
LEMMA PartOfList ==
    ASSUME NEW T, NEW s \in Seq(T), NEW m \in 1 .. Len(s) + 1, NEW n \in 0 .. Len(s),
           m = 1 \/ n = Len(s), m <= n + 1
    PROVE  /\ SubSeq(s, m, n) \in Seq(T)
           /\ Len(SubSeq(s, m, n)) = n + 1 - m
           /\ \A i \in 1 .. n + 1 - m : SubSeq(s, m, n)[i] = s[m + i - 1]
<1>1. Len(s) \in Nat /\ \A i \in 1 .. Len(s) : s[i] \in T
  BY LenProperties, ElementOfSeq
<1>2. m \in Int /\ n \in Int /\ \A i \in m .. n : s[i] \in T
  BY <1>1
<1>3. /\ SubSeq(s, m, n) \in Seq(T)
      /\ Len(SubSeq(s, m, n)) = IF m <= n THEN n - m + 1 ELSE 0
      /\ \A i \in 1 .. n - m + 1 : SubSeq(s, m, n)[i] = s[m + i - 1]
  BY <1>2, SubSeqProperties
<1>4. QED
  BY <1>1, <1>3

LEMMA StaysAheadByPosition ==
    ASSUME NEW held \in Seq(Elements), NEW grant \in Seq(Elements)
    PROVE  StaysAhead(held, grant) <=>
                \E k \in 1 .. Len(grant) + 1, split \in 0 .. Len(held) :
                    AheadFrom(held, grant, k, split)
<1> DEFINE g == Len(grant)
           h == Len(held)
<1>1. /\ g \in Nat /\ h \in Nat
      /\ DOMAIN held = 1 .. h /\ DOMAIN grant = 1 .. g
  BY LenProperties
<1>2. ASSUME NEW k \in 1 .. g + 1
      PROVE  /\ SubSeq(grant, k, g) \in Seq(Elements)
             /\ Len(SubSeq(grant, k, g)) = g + 1 - k
             /\ \A i \in 1 .. g + 1 - k : SubSeq(grant, k, g)[i] = grant[k + i - 1]
  BY <1>1, PartOfList
<1>3. ASSUME NEW split \in 0 .. h
      PROVE  /\ SubSeq(held, split + 1, h) \in Seq(Elements)
             /\ Len(SubSeq(held, split + 1, h)) = h - split
             /\ \A i \in 1 .. h - split : SubSeq(held, split + 1, h)[i] = held[split + i]
  <2> HIDE DEF g, h
  <2>1. split + 1 \in 1 .. h + 1 /\ h \in 0 .. h /\ split + 1 <= h + 1 /\ h + 1 - (split + 1) = h - split
        /\ \A i \in 1 .. h - split : split + 1 + i - 1 = split + i
    BY <1>1
  <2>2. /\ SubSeq(held, split + 1, h) \in Seq(Elements)
        /\ Len(SubSeq(held, split + 1, h)) = h + 1 - (split + 1)
        /\ \A i \in 1 .. h + 1 - (split + 1) :
                SubSeq(held, split + 1, h)[i] = held[split + 1 + i - 1]
    BY <2>1, PartOfList DEF h
  <2>3. QED
    BY <2>1, <2>2
<1>4. ASSUME NEW split \in 0 .. h
      PROVE  Range(SubSeq(held, 1, split)) \cap Range(grant) = {} <=>
                \A j \in 1 .. split : \A i \in 1 .. g : held[j] # grant[i]
  <2>1. 1 \in 1 .. h + 1 /\ 1 <= split + 1 /\ split + 1 - 1 = split /\ split \in Nat
        /\ \A i \in 1 .. split : 1 + i - 1 = i
    BY <1>1
  <2>2. /\ SubSeq(held, 1, split) \in Seq(Elements)
        /\ Len(SubSeq(held, 1, split)) = split + 1 - 1
        /\ \A i \in 1 .. split + 1 - 1 : SubSeq(held, 1, split)[i] = held[1 + i - 1]
    BY <2>1, PartOfList
  <2>3. /\ DOMAIN SubSeq(held, 1, split) = 1 .. split
        /\ \A i \in 1 .. split : SubSeq(held, 1, split)[i] = held[i]
    BY <2>1, <2>2, LenProperties
  <2>4. QED
    BY <1>1, <2>3 DEF Range
<1> HIDE DEF g, h
<1>5. ASSUME NEW k \in 1 .. g + 1, NEW split \in 0 .. h, split + (g + 1 - k) = h
      PROVE  SubSeq(held, split + 1, h) = SubSeq(grant, k, g) <=>
                \A i \in 1 .. g + 1 - k : held[split + i] = grant[k + i - 1]
  <2> DEFINE a == SubSeq(held, split + 1, h)
             b == SubSeq(grant, k, g)
  <2>1. /\ a \in Seq(Elements) /\ b \in Seq(Elements)
        /\ Len(a) = Len(b) /\ Len(a) = g + 1 - k
        /\ \A i \in 1 .. g + 1 - k : a[i] = held[split + i] /\ b[i] = grant[k + i - 1]
    BY <1>1, <1>2, <1>3, <1>5
  <2> HIDE DEF a, b
  <2>2. (\A i \in 1 .. Len(a) : a[i] = b[i]) => a = b
    BY <2>1, SeqEqual
  <2>3. QED
    BY <2>1, <2>2 DEF a, b
<1>6. ASSUME NEW k \in 1 .. g + 1
      PROVE  (LET ahead == SubSeq(grant, k, g)
                  split == h - Len(ahead)
              IN  /\ split >= 0
                  /\ SubSeq(held, split + 1, h) = ahead
                  /\ Range(SubSeq(held, 1, split)) \cap Range(grant) = {})
             <=> \E split \in 0 .. h : AheadFrom(held, grant, k, split)
  <2> DEFINE s == h - (g + 1 - k)
  <2>1. Len(SubSeq(grant, k, g)) = g + 1 - k
    BY <1>2
  <2>2. s \in Int /\ s + (g + 1 - k) = h /\ s <= h
        /\ \A split \in 0 .. h : split + (g + 1 - k) = h <=> split = s
    BY <1>1
  <2>3. h - Len(SubSeq(grant, k, g)) = s
    BY <2>1
  <2> HIDE DEF s
  <2>4. s >= 0 <=> s \in 0 .. h
    BY <1>1, <2>2
  <2>5. ASSUME s \in 0 .. h
        PROVE  (SubSeq(held, s + 1, h) = SubSeq(grant, k, g)
                    /\ Range(SubSeq(held, 1, s)) \cap Range(grant) = {})
               <=> AheadFrom(held, grant, k, s)
    BY <1>4, <1>5, <2>2, <2>5 DEF AheadFrom, g, h
  <2>6. \A split \in 0 .. h : AheadFrom(held, grant, k, split) => split = s
    BY <2>2 DEF AheadFrom, g, h
  <2>7. QED
    BY <2>3, <2>4, <2>5, <2>6
<1>7. QED
  BY <1>6 DEF StaysAhead, g, h

\* A list that is its own grant is all ahead.
LEMMA AllAhead ==
    ASSUME NEW held \in Seq(Elements)
    PROVE  StaysAhead(held, held)
<1>1. Len(held) \in Nat
  BY LenProperties
<1>2. AheadFrom(held, held, 1, 0)
  BY <1>1 DEF AheadFrom
<1>3. 1 \in 1 .. Len(held) + 1 /\ 0 \in 0 .. Len(held)
  BY <1>1
<1>4. QED
  BY <1>2, <1>3, StaysAheadByPosition

\* A grant that is put behind the rest of the list, which has none of it.
LEMMA GrantPutBehind ==
    ASSUME NEW rest \in Seq(Elements), NEW grant \in Seq(Elements),
           Range(rest) \cap Range(grant) = {}
    PROVE  StaysAhead(rest \o grant, grant)
<1>1. /\ rest \o grant \in Seq(Elements)
      /\ Len(rest) \in Nat /\ Len(grant) \in Nat
      /\ DOMAIN rest = 1 .. Len(rest) /\ DOMAIN grant = 1 .. Len(grant)
      /\ Len(rest \o grant) = Len(rest) + Len(grant)
      /\ \A i \in 1 .. Len(rest) + Len(grant) :
            (rest \o grant)[i] = IF i <= Len(rest) THEN rest[i] ELSE grant[i - Len(rest)]
  BY ConcatProperties, LenProperties
<1>2. \A j \in 1 .. Len(rest) : \A i \in 1 .. Len(grant) : rest[j] # grant[i]
  BY <1>1 DEF Range
<1>3. \A i \in 1 .. Len(grant) : (rest \o grant)[Len(rest) + i] = grant[i]
  BY <1>1
<1>4. \A j \in 1 .. Len(rest) : (rest \o grant)[j] = rest[j]
  BY <1>1
<1>5. AheadFrom(rest \o grant, grant, 1, Len(rest))
  BY <1>1, <1>2, <1>3, <1>4 DEF AheadFrom
<1>6. 1 \in 1 .. Len(grant) + 1 /\ Len(rest) \in 0 .. Len(rest \o grant)
  BY <1>1
<1>7. QED
  BY <1>1, <1>5, <1>6, StaysAheadByPosition

\* A list that is cut from the front, through what is behind the truck and, it
\* may be, a part of the grant.
LEMMA CutStaysAhead ==
    ASSUME NEW held \in Seq(Elements), NEW grant \in Seq(Elements),
           StaysAhead(held, grant), NEW cut \in 1 .. Len(held)
    PROVE  StaysAhead(SubSeq(held, cut, Len(held)), grant)
<1> DEFINE list == SubSeq(held, cut, Len(held))
           g == Len(grant)
           h == Len(held)
<1>1. g \in Nat /\ h \in Nat
  BY LenProperties
<1>2. /\ list \in Seq(Elements) /\ Len(list) = h + 1 - cut
      /\ \A i \in 1 .. h + 1 - cut : list[i] = held[cut + i - 1]
  BY <1>1, PartOfList
<1>3. PICK k \in 1 .. g + 1, split \in 0 .. h : AheadFrom(held, grant, k, split)
  BY StaysAheadByPosition
<1>4. /\ split + (g + 1 - k) = h
      /\ \A i \in 1 .. g + 1 - k : held[split + i] = grant[k + i - 1]
      /\ \A j \in 1 .. split : \A i \in 1 .. g : held[j] # grant[i]
  BY <1>3 DEF AheadFrom
<1> HIDE DEF list, g, h
<1>5. \E m \in 1 .. g + 1, left \in 0 .. h + 1 - cut :
            /\ left + (g + 1 - m) = h + 1 - cut
            /\ \A i \in 1 .. g + 1 - m : list[left + i] = grant[m + i - 1]
            /\ \A j \in 1 .. left : \A i \in 1 .. g : list[j] # grant[i]
  <2>1. CASE cut <= split + 1
    <3> DEFINE left == split + 1 - cut
    <3>1. /\ left \in 0 .. h + 1 - cut /\ left + (g + 1 - k) = h + 1 - cut
      BY <1>1, <1>4, <2>1 DEF h
    <3>2. ASSUME NEW i \in 1 .. g + 1 - k PROVE list[left + i] = grant[k + i - 1]
      <4>1. left + i \in 1 .. h + 1 - cut /\ cut + (left + i) - 1 = split + i
        BY <1>1, <1>4, <2>1 DEF h
      <4>2. QED
        BY <1>2, <1>4, <4>1
    <3>3. ASSUME NEW j \in 1 .. left, NEW i \in 1 .. g PROVE list[j] # grant[i]
      <4>1. j \in 1 .. h + 1 - cut /\ cut + j - 1 \in 1 .. split
        BY <1>1, <1>4, <2>1 DEF h
      <4>2. QED
        BY <1>2, <1>4, <4>1, SMTT(40)
    <3> HIDE DEF left
    <3>4. QED
      BY <3>1, <3>2, <3>3
  <2>2. CASE cut > split + 1
    <3> DEFINE m == k + (cut - 1 - split)
    <3>1. m \in 1 .. g + 1 /\ 0 + (g + 1 - m) = h + 1 - cut /\ 0 \in 0 .. h + 1 - cut
      BY <1>1, <1>4, <2>2 DEF h
    <3>2. ASSUME NEW i \in 1 .. g + 1 - m PROVE list[0 + i] = grant[m + i - 1]
      <4>1. /\ i \in 1 .. h + 1 - cut /\ cut - 1 - split + i \in 1 .. g + 1 - k
            /\ cut + i - 1 = split + (cut - 1 - split + i)
            /\ k + (cut - 1 - split + i) - 1 = m + i - 1 /\ 0 + i = i
        BY <1>1, <1>4, <2>2, <3>1 DEF h
      <4>2. QED
        BY <1>2, <1>4, <4>1
    <3> HIDE DEF m
    <3>3. \A j \in 1 .. 0 : \A i \in 1 .. g : list[j] # grant[i]
      OBVIOUS
    <3>4. QED
      BY <3>1, <3>2, <3>3
  <2>3. QED
    BY <1>1, <2>1, <2>2 DEF h
<1>6. PICK m \in 1 .. g + 1, left \in 0 .. h + 1 - cut :
            /\ left + (g + 1 - m) = h + 1 - cut
            /\ \A i \in 1 .. g + 1 - m : list[left + i] = grant[m + i - 1]
            /\ \A j \in 1 .. left : \A i \in 1 .. g : list[j] # grant[i]
  BY <1>5
<1>7. AheadFrom(list, grant, m, left)
  BY <1>2, <1>6 DEF AheadFrom, g
<1>8. m \in 1 .. Len(grant) + 1 /\ left \in 0 .. Len(list) /\ list \in Seq(Elements)
  BY <1>2 DEF g
<1>9. StaysAhead(list, grant)
  BY <1>7, <1>8, StaysAheadByPosition
<1>10. QED
  BY <1>9 DEF list, h

-----------------------------------------------------------------------------
\* The inductive invariant: the two indexes are needed beside it, because they
\* type the lists and say that a wait-for cycle is one of vehicles.
AheadInv == LedgerInv /\ GrantStaysAhead

\* A step does to one vehicle's list and grant one of those three things, or
\* nothing to any.
LEMMA StepStaysAhead ==
    ASSUME AheadInv, Next PROVE GrantStaysAhead'
<1>1. /\ ledger \in LedgerType /\ Consistent(ledger)
      /\ granted \in [Vehicles -> Seq(Elements)]
      /\ \A u \in Vehicles : StaysAhead(ledger.held[u], granted[u])
  BY DEF AheadInv, LedgerInv, TypeOK, IndexesAgree, GrantStaysAhead, StaysAhead
<1>2. ledger.held \in [Vehicles -> Seq(Elements)]
  BY <1>1, LedgerFields
<1>3. ledger' \in LedgerType /\ ledger'.held \in [Vehicles -> Seq(Elements)]
  <2>1. TypeOK'
    BY StepIsCall DEF AheadInv
  <2>2. QED
    BY <2>1, LedgerFields DEF TypeOK
<1>4. ASSUME NEW v \in Vehicles, NEW list \in Seq(Elements), NEW grant \in Seq(Elements),
             ledger'.held = [ledger.held EXCEPT ![v] = list],
             granted' = [granted EXCEPT ![v] = grant],
             StaysAhead(list, grant)
      PROVE  GrantStaysAhead'
  <2>1. \A u \in Vehicles : StaysAhead(ledger'.held[u], granted'[u])
    BY <1>1, <1>2, <1>4
  <2>2. QED
    BY <2>1 DEF GrantStaysAhead, StaysAhead
<1>5. ASSUME ledger'.held = ledger.held, granted' = granted PROVE GrantStaysAhead'
  BY <1>5 DEF AheadInv, GrantStaysAhead
<1>6. ASSUME NEW v \in Vehicles, NEW request \in Requests, CallHold(v, request)
      PROVE  GrantStaysAhead'
  <2> DEFINE prefix == Grant(ledger, v, request)
             rest   == Without(ledger.held[v], Range(prefix))
  <2>1. prefix \in Seq(Elements)
    BY <1>1, RequestsNameFloorOnce, GrantProperties
  <2>2. rest \in Seq(Elements) /\ Range(rest) \cap Range(prefix) = {}
    <3> HIDE DEF prefix
    <3>1. QED
      BY <1>2, WithoutProperties
  <2>3. ledger' = Hold(ledger, v, request) /\ granted' = [granted EXCEPT ![v] = prefix]
    BY <1>6 DEF CallHold
  <2>4. ledger'.held = [ledger.held EXCEPT ![v] = rest \o prefix]
    <3>1. ledger = [owner |-> ledger.owner, held |-> ledger.held, waiting |-> ledger.waiting,
                    standing |-> ledger.standing, yielded |-> ledger.yielded]
      BY <1>1, LedgerRecord
    <3> DEFINE owner   == [e \in Elements |->
                            IF e \in Range(prefix) THEN v ELSE ledger.owner[e]]
               waiting == [ledger.waiting EXCEPT ![v] = Blocker(ledger, v, request)]
    <3>2. ledger' = [ledger EXCEPT !.waiting = waiting, !.owner = owner,
                                   !.held = [ledger.held EXCEPT ![v] = rest \o prefix]]
      BY <2>3 DEF Hold
    <3> HIDE DEF rest, prefix, owner, waiting
    <3>3. QED
      BY <3>1, <3>2
  <2> HIDE DEF rest, prefix
  <2>5. StaysAhead(rest \o prefix, prefix) /\ rest \o prefix \in Seq(Elements)
    BY <2>1, <2>2, GrantPutBehind, ConcatProperties
  <2>6. QED
    BY <1>4, <2>1, <2>3, <2>4, <2>5
<1>7. ASSUME NEW v \in Vehicles, NEW node \in Nodes, CallReleaseThrough(v, node)
      PROVE  GrantStaysAhead'
  <2> DEFINE held == ledger.held[v]
             at   == {i \in DOMAIN held : held[i] = node}
             cut  == Min(at)
             list == SubSeq(held, cut, Len(held))
  <2>1. held \in Seq(Elements) /\ DOMAIN held = 1 .. Len(held)
    BY <1>2, LenProperties
  <2>2. ledger' = ReleaseThrough(ledger, v, node) /\ granted' = granted
    BY <1>7 DEF CallReleaseThrough
  <2>3. CASE at = {}
    BY <1>5, <2>2, <2>3 DEF ReleaseThrough
  <2>4. CASE at # {}
    <3>1. cut \in 1 .. Len(held)
      <4>1. at \in SUBSET Nat
        BY <2>1
      <4> HIDE DEF at
      <4>2. cut \in at
        BY <2>4, <4>1, MinIsLeast
      <4>3. QED
        BY <2>1, <4>2 DEF at
    <3>2. ledger'.held = [ledger.held EXCEPT ![v] = list]
      <4>1. ledger = [owner |-> ledger.owner, held |-> ledger.held,
                      waiting |-> ledger.waiting, standing |-> ledger.standing,
                      yielded |-> ledger.yielded]
        BY <1>1, LedgerRecord, SMTT(40)
      <4>2. \E owner :
              ledger' = [ledger EXCEPT !.owner = owner,
                                       !.held = [ledger.held EXCEPT ![v] = list]]
        BY <2>2, <2>4 DEF ReleaseThrough
      <4> HIDE DEF list
      <4>3. QED
        BY <4>1, <4>2
    <3>3. StaysAhead(held, granted[v]) /\ granted[v] \in Seq(Elements)
      BY <1>1
    <3>4. list \in Seq(Elements) /\ StaysAhead(list, granted[v])
      <4> HIDE DEF held, cut
      <4>1. Len(held) \in Nat
        BY <2>1, LenProperties
      <4>2. QED
        BY <2>1, <3>1, <3>3, <4>1, CutStaysAhead, PartOfList
    <3>5. granted' = [granted EXCEPT ![v] = granted[v]]
      BY <1>1, <2>2
    <3> HIDE DEF list
    <3>6. QED
      BY <1>4, <3>2, <3>3, <3>4, <3>5
  <2>5. QED
    BY <2>3, <2>4
<1>8. ASSUME NEW v \in Vehicles, granted' = [granted EXCEPT ![v] = ledger'.held[v]],
             \E list : ledger'.held = [ledger.held EXCEPT ![v] = list]
      PROVE  GrantStaysAhead'
  <2>1. PICK list : ledger'.held = [ledger.held EXCEPT ![v] = list]
    BY <1>8
  <2>2. ledger'.held[v] = list /\ list \in Seq(Elements)
    BY <1>2, <1>3, <2>1
  <2>3. QED
    BY <1>4, <1>8, <2>1, <2>2, AllAhead
<1>9. ASSUME NEW v \in Vehicles, NEW keep
      PROVE  \E list : ReleaseAll(ledger, v, keep).held = [ledger.held EXCEPT ![v] = list]
  <2>1. ledger = [owner |-> ledger.owner, held |-> ledger.held, waiting |-> ledger.waiting,
                  standing |-> ledger.standing, yielded |-> ledger.yielded]
    BY <1>1, LedgerRecord
  <2> DEFINE freed   == Freed(ledger, v, Range(ledger.held[v]))
             retaken == keep # None /\ freed[keep] = None
             owner   == IF retaken THEN [freed EXCEPT ![keep] = v] ELSE freed
             list    == IF retaken THEN <<keep>> ELSE << >>
             waiting == [ledger.waiting EXCEPT ![v] = None]
  <2>2. ReleaseAll(ledger, v, keep) =
            [ledger EXCEPT !.owner = owner, !.held = [ledger.held EXCEPT ![v] = list],
                           !.waiting = waiting]
    BY DEF ReleaseAll
  <2> HIDE DEF owner, list, waiting
  <2>3. ReleaseAll(ledger, v, keep).held = [ledger.held EXCEPT ![v] = list]
    BY <2>1, <2>2
  <2>4. QED
    BY <2>3
<1>10. ASSUME NEW v \in Vehicles, NEW keep, CallReleaseAll(v, keep)
       PROVE  GrantStaysAhead'
  <2>1. ledger'.held = ReleaseAll(ledger, v, keep).held
        /\ granted' = [granted EXCEPT ![v] = ledger'.held[v]]
    BY <1>10 DEF CallReleaseAll
  <2>2. \E list : ledger'.held = [ledger.held EXCEPT ![v] = list]
    BY <1>9, <2>1, ZenonT(60)
  <2>3. QED
    BY <1>8, <2>1, <2>2
<1>11. ASSUME CallResolveDeadlock PROVE GrantStaysAhead'
  <2> DEFINE loser == Youngest(Submitted, FindCycle(ledger))
             keep  == ledger.standing[loser]
  <2>1. loser \in Vehicles
    BY <1>1, <1>11, CycleOfVehicles, RequestAssumption, LoserInCycle DEF CallResolveDeadlock
  <2>2. ledger' = Yield(ledger, loser) /\ granted' = [granted EXCEPT ![loser] = ledger'.held[loser]]
    BY <1>11 DEF CallResolveDeadlock, ResolveDeadlock
  <2> HIDE DEF loser
  <2>3. ledger'.held = ReleaseAll(ledger, loser, keep).held
    <3>1. ledger' = [ReleaseAll(ledger, loser, keep) EXCEPT
                        !.yielded = ReleaseAll(ledger, loser, keep).yielded \cup {loser}]
      BY <2>2 DEF Yield
    <3>2. DOMAIN ReleaseAll(ledger, loser, keep) = DOMAIN ledger /\ "held" \in DOMAIN ledger
      BY <1>1 DEF ReleaseAll, LedgerType
    <3>3. QED
      BY <3>1, <3>2
  <2> HIDE DEF keep
  <2>4. \E list : ledger'.held = [ledger.held EXCEPT ![loser] = list]
    BY <1>9, <2>1, <2>3, ZenonT(60)
  <2>5. QED
    BY <1>8, <2>1, <2>2, <2>4
<1>12. ASSUME NEW v \in Vehicles, NEW node \in Nodes, CallSetStanding(v, node)
       PROVE  GrantStaysAhead'
  BY <1>1, <1>5, <1>12, SetStandingConsistent DEF CallSetStanding
<1>13. ASSUME NEW v \in Vehicles, CallClearYield(v) PROVE GrantStaysAhead'
  BY <1>1, <1>5, <1>13, ClearYieldConsistent DEF CallClearYield
<1>14. ASSUME NEW v \in Vehicles, CallClearWait(v) PROVE GrantStaysAhead'
  BY <1>1, <1>5, <1>14, ClearWaitConsistent DEF CallClearWait
<1>15. QED
  BY <1>6, <1>7, <1>10, <1>11, <1>12, <1>13, <1>14 DEF Next

\* Whatever calls are made in whatever order, what a truck still owns of its
\* last grant is the end of its list, in the order it drives it, so that what
\* release_through frees behind a truck is never floor it was sent onto.
THEOREM GrantAlwaysAhead == Spec => []GrantStaysAhead
<1>1. Init => AheadInv
  <2> SUFFICES ASSUME Init PROVE AheadInv
    OBVIOUS
  <2>1. LedgerInv
    BY InitLedgerInv
  <2>2. \A v \in Vehicles : ledger.held[v] = << >> /\ granted[v] = << >>
    BY DEF Init, EmptyLedger
  <2>3. << >> \in Seq(Elements)
    BY EmptySeq
  <2>4. \A v \in Vehicles : StaysAhead(ledger.held[v], granted[v])
    BY <2>2, <2>3, AllAhead
  <2>5. QED
    BY <2>1, <2>4 DEF AheadInv, GrantStaysAhead, StaysAhead
<1>2. AheadInv /\ [Next]_vars => AheadInv'
  <2> SUFFICES ASSUME AheadInv, [Next]_vars PROVE AheadInv'
    OBVIOUS
  <2>1. LedgerInv'
    BY StepLedgerInv DEF AheadInv
  <2>2. CASE Next
    BY <2>1, <2>2, StepStaysAhead DEF AheadInv
  <2>3. CASE UNCHANGED vars
    BY <2>1, <2>3 DEF vars, AheadInv, GrantStaysAhead
  <2>4. QED
    BY <2>2, <2>3
<1>3. AheadInv => GrantStaysAhead
  BY DEF AheadInv
<1>4. QED
  BY <1>1, <1>2, <1>3, PTL DEF Spec

-----------------------------------------------------------------------------
(* Walks along the wait-for edges.                                         *)

Turns == Cardinality(Vehicles)

\* One step of a walk.
After(l, u) == IF u \in DOMAIN WaitFor(l) THEN WaitFor(l)[u] ELSE u

\* f is the walk from v, as far as k steps.
IsWalk(l, v, f, k) == f = [i \in 0 .. k |-> IF i = 0 THEN v ELSE After(l, f[i - 1])]

LEMMA TurnsIsNat == Turns \in Nat
BY FloorAssumption, FS_CardinalityType DEF Turns

LEMMA GraphOfVehicles ==
    ASSUME NEW l \in LedgerType
    PROVE  /\ DOMAIN WaitFor(l) \subseteq Vehicles
           /\ \A v \in DOMAIN WaitFor(l) : WaitFor(l)[v] \in Vehicles /\ WaitFor(l)[v] # v
           /\ \A v \in Vehicles : After(l, v) \in Vehicles
<1> DEFINE graph == WaitFor(l)
<1>1. DOMAIN graph \subseteq Vehicles
  BY DEF WaitFor
<1>2. ASSUME NEW v \in DOMAIN graph
      PROVE  graph[v] \in Vehicles /\ graph[v] # v
  <2>1. /\ v \in Vehicles /\ l.waiting[v] # None
        /\ l.owner[l.waiting[v]] \notin {None, v}
        /\ graph[v] = l.owner[l.waiting[v]]
    BY <1>2 DEF WaitFor
  <2>2. l.waiting[v] \in Elements /\ l.owner \in [Elements -> Vehicles \cup {None}]
    BY <2>1 DEF LedgerType
  <2>3. QED
    BY <2>1, <2>2
<1>3. QED
  BY <1>1, <1>2 DEF After

\* A recursive function is what its equation says once some function satisfies it.
LEMMA WalkExists ==
    ASSUME NEW l, NEW v, NEW n \in Nat
    PROVE  \E f : IsWalk(l, v, f, n)
<1> DEFINE bad == {k \in Nat : ~ \E f : IsWalk(l, v, f, k)}
<1>1. bad = {}
  <2>1. SUFFICES ASSUME bad # {} PROVE FALSE
    OBVIOUS
  <2>2. PICK m \in bad : \A k \in bad : m <= k
    <3>1. bad \in SUBSET Nat
      OBVIOUS
    <3> HIDE DEF bad
    <3>2. QED
      BY <2>1, <3>1, MinIsLeast
  <2>3. m # 0
    <3> DEFINE f == [i \in 0 .. 0 |-> v]
    <3>1. IsWalk(l, v, f, 0)
      BY DEF IsWalk
    <3>2. QED
      BY <2>2, <3>1
  <2>4. m \in Nat /\ m - 1 \in Nat /\ ~(m <= m - 1)
    BY <2>2, <2>3
  <2>5. PICK f : IsWalk(l, v, f, m - 1)
    BY <2>2, <2>4
  <2> DEFINE g == [i \in 0 .. m |-> IF i = 0 THEN v ELSE After(l, f[i - 1])]
  <2>6. \A i \in 0 .. m - 1 : g[i] = f[i]
    BY <2>4, <2>5 DEF IsWalk
  <2>7. \A i \in 0 .. m : i # 0 => i - 1 \in 0 .. m - 1
    BY <2>4
  <2>8. IsWalk(l, v, g, m)
    BY <2>6, <2>7 DEF IsWalk
  <2>9. QED
    BY <2>2, <2>8
<1>2. n \notin bad
  BY <1>1
<1>3. QED
  BY <1>2

\* The walk, step by step.
LEMMA WalkSteps ==
    ASSUME NEW l \in LedgerType, NEW v \in Vehicles
    PROVE  /\ Walk(l, v)[0] = v
           /\ \A i \in 1 .. Turns : Walk(l, v)[i] = After(l, Walk(l, v)[i - 1])
           /\ Walk(l, v) \in [0 .. Turns -> Vehicles]
<1> DEFINE w == Walk(l, v)
<1>1. IsWalk(l, v, w, Turns)
  <2>1. w = CHOOSE f : IsWalk(l, v, f, Turns)
    BY DEF Walk, IsWalk, After, Turns
  <2>2. QED
    BY <2>1, WalkExists, TurnsIsNat
<1> HIDE DEF w
<1>2. w[0] = v /\ \A i \in 1 .. Turns : w[i] = After(l, w[i - 1])
  BY <1>1, TurnsIsNat DEF IsWalk
<1> DEFINE bad == {k \in 0 .. Turns : w[k] \notin Vehicles}
<1>3. bad = {}
  <2>1. SUFFICES ASSUME bad # {} PROVE FALSE
    OBVIOUS
  <2>2. PICK m \in bad : \A k \in bad : m <= k
    <3>1. bad \in SUBSET Nat
      BY TurnsIsNat
    <3> HIDE DEF bad
    <3>2. QED
      BY <2>1, <3>1, MinIsLeast
  <2>3. m # 0
    BY <1>2
  <2>4. m \in 1 .. Turns /\ m - 1 \in 0 .. Turns /\ ~(m <= m - 1)
    BY <2>2, <2>3, TurnsIsNat
  <2>5. w[m - 1] \in Vehicles
    BY <2>2, <2>4
  <2>6. w[m] \in Vehicles
    BY <1>2, <2>4, <2>5, GraphOfVehicles
  <2>7. QED
    BY <2>2, <2>6
<1>4. w \in [0 .. Turns -> Vehicles]
  <2>1. \A k \in 0 .. Turns : w[k] \in Vehicles
    BY <1>3
  <2>2. QED
    BY <1>1, <2>1 DEF IsWalk
<1>5. QED
  BY <1>2, <1>4 DEF w

\* A walk from where a walk has come to is the rest of it.
LEMMA WalkOn ==
    ASSUME NEW l \in LedgerType, NEW v \in Vehicles, NEW i \in 0 .. Turns
    PROVE  \A j \in 0 .. Turns - i : Walk(l, Walk(l, v)[i])[j] = Walk(l, v)[i + j]
<1> DEFINE w   == Walk(l, v)
           u   == w[i]
           bad == {j \in 0 .. Turns - i : Walk(l, u)[j] # w[i + j]}
<1>1. Turns \in Nat /\ i \in Nat /\ Turns - i \in Nat
  BY TurnsIsNat
<1>2. u \in Vehicles
  BY WalkSteps
<1>3. bad = {}
  <2>1. SUFFICES ASSUME bad # {} PROVE FALSE
    OBVIOUS
  <2>2. PICK m \in bad : \A k \in bad : m <= k
    <3>1. bad \in SUBSET Nat
      BY <1>1
    <3> HIDE DEF bad
    <3>2. QED
      BY <2>1, <3>1, MinIsLeast
  <2>3. m # 0
    <3>1. Walk(l, u)[0] = u
      BY <1>2, WalkSteps
    <3>2. 0 \notin bad
      BY <1>1, <3>1
    <3>3. QED
      BY <2>2, <3>2
  <2>4. /\ m \in 1 .. Turns /\ m - 1 \in 0 .. Turns - i /\ ~(m <= m - 1)
        /\ i + m \in 1 .. Turns /\ i + m - 1 = i + (m - 1)
    BY <1>1, <2>2, <2>3
  <2>5. Walk(l, u)[m - 1] = w[i + (m - 1)]
    BY <2>2, <2>4
  <2>6. Walk(l, u)[m] = After(l, Walk(l, u)[m - 1])
    BY <1>2, <2>4, WalkSteps
  <2>7. w[i + m] = After(l, w[i + (m - 1)])
    BY <2>4, WalkSteps
  <2>8. QED
    BY <2>2, <2>5, <2>6, <2>7
<1>4. QED
  BY <1>3

-----------------------------------------------------------------------------
(* Cycles.                                                                 *)

\* Some vehicles that all wait for one another.
Stuck(l, S) == \A v \in S : v \in DOMAIN WaitFor(l) /\ WaitFor(l)[v] \in S

\* A walk never leaves a set of vehicles that wait for one another.
LEMMA StuckHoldsWalk ==
    ASSUME NEW l \in LedgerType, NEW S \in SUBSET Vehicles, Stuck(l, S), NEW v \in S
    PROVE  Range(Walk(l, v)) \subseteq S
<1> DEFINE w   == Walk(l, v)
           bad == {k \in 0 .. Turns : w[k] \notin S}
<1>1. Turns \in Nat /\ v \in Vehicles
  BY TurnsIsNat
<1>2. bad = {}
  <2>1. SUFFICES ASSUME bad # {} PROVE FALSE
    OBVIOUS
  <2>2. PICK m \in bad : \A k \in bad : m <= k
    <3>1. bad \in SUBSET Nat
      BY <1>1
    <3> HIDE DEF bad
    <3>2. QED
      BY <2>1, <3>1, MinIsLeast
  <2>3. m # 0
    BY <1>1, <2>2, WalkSteps
  <2>4. m \in 1 .. Turns /\ m - 1 \in 0 .. Turns /\ ~(m <= m - 1)
    BY <1>1, <2>2, <2>3
  <2>5. w[m - 1] \in S
    BY <2>2, <2>4
  <2>6. w[m] = After(l, w[m - 1])
    BY <1>1, <2>4, WalkSteps
  <2>7. w[m] \in S
    BY <2>5, <2>6 DEF Stuck, After
  <2>8. QED
    BY <2>2, <2>7
<1>3. DOMAIN w = 0 .. Turns
  BY <1>1, WalkSteps
<1>4. QED
  BY <1>2, <1>3 DEF Range

\* A walk has more places than there are vehicles, so it comes back.
LEMMA WalkRepeats ==
    ASSUME NEW l \in LedgerType, NEW v \in Vehicles
    PROVE  \E j, k \in 0 .. Turns : j < k /\ Walk(l, v)[j] = Walk(l, v)[k]
<1> DEFINE w == Walk(l, v)
<1>1. IsFiniteSet(0 .. Turns) /\ Cardinality(0 .. Turns) = Turns + 1
  BY TurnsIsNat, FS_Interval
<1>2. IsFiniteSet(Vehicles) /\ Cardinality(Vehicles) < Cardinality(0 .. Turns)
  BY <1>1, TurnsIsNat, FloorAssumption DEF Turns
<1>3. w \in [0 .. Turns -> Vehicles]
  BY WalkSteps
<1> HIDE DEF w
<1>4. PICK x, y \in 0 .. Turns : x # y /\ w[x] = w[y]
  BY <1>1, <1>2, <1>3, FS_PigeonHole
<1>5. x < y \/ y < x
  BY <1>4, TurnsIsNat
<1>6. QED
  BY <1>4, <1>5 DEF w

\* Each vehicle of a walk is met before its last place, so the next is on it too.
LEMMA WalkMetEarly ==
    ASSUME NEW l \in LedgerType, NEW v \in Vehicles, NEW u \in Range(Walk(l, v))
    PROVE  /\ \E i \in 0 .. Turns : i < Turns /\ Walk(l, v)[i] = u
           /\ After(l, u) \in Range(Walk(l, v))
<1> DEFINE w == Walk(l, v)
<1>1. Turns \in Nat /\ DOMAIN w = 0 .. Turns
  BY TurnsIsNat, WalkSteps
<1>2. PICK n \in 0 .. Turns : w[n] = u
  BY <1>1 DEF Range
<1>3. PICK j, k \in 0 .. Turns : j < k /\ w[j] = w[k]
  BY WalkRepeats
<1>4. \E i \in 0 .. Turns : i < Turns /\ w[i] = u
  <2>1. CASE n < Turns
    BY <1>2, <2>1
  <2>2. CASE n = Turns
    <3> DEFINE t == Turns - k
    <3>1. /\ t \in 0 .. Turns - j /\ t \in 0 .. Turns - k
          /\ j + t \in 0 .. Turns /\ j + t < Turns /\ k + t = Turns
      BY <1>1, <1>3
    <3>2. Walk(l, w[j])[t] = w[j + t] /\ Walk(l, w[k])[t] = w[k + t]
      BY <1>3, <3>1, WalkOn
    <3>3. w[j + t] = u
      BY <1>2, <1>3, <2>2, <3>1, <3>2
    <3>4. QED
      BY <3>1, <3>3
  <2>3. QED
    BY <1>1, <2>1, <2>2
<1>5. PICK i \in 0 .. Turns : i < Turns /\ w[i] = u
  BY <1>4
<1>6. i + 1 \in 1 .. Turns /\ (i + 1) - 1 = i /\ i + 1 \in 0 .. Turns
  BY <1>1, <1>5
<1>7. w[i + 1] = After(l, u)
  BY <1>5, <1>6, WalkSteps
<1>8. QED
  BY <1>1, <1>4, <1>6, <1>7 DEF Range

\* Who waits for nobody is not left by its walk.
LEMMA WalkHalts ==
    ASSUME NEW l \in LedgerType, NEW v \in Vehicles, v \notin DOMAIN WaitFor(l)
    PROVE  \A i \in 0 .. Turns : Walk(l, v)[i] = v
<1> DEFINE w   == Walk(l, v)
           bad == {k \in 0 .. Turns : w[k] # v}
<1>1. Turns \in Nat
  BY TurnsIsNat
<1>2. bad = {}
  <2>1. SUFFICES ASSUME bad # {} PROVE FALSE
    OBVIOUS
  <2>2. PICK m \in bad : \A k \in bad : m <= k
    <3>1. bad \in SUBSET Nat
      BY <1>1
    <3> HIDE DEF bad
    <3>2. QED
      BY <2>1, <3>1, MinIsLeast
  <2>3. m # 0
    BY <1>1, <2>2, WalkSteps
  <2>4. m \in 1 .. Turns /\ m - 1 \in 0 .. Turns /\ ~(m <= m - 1)
    BY <1>1, <2>2, <2>3
  <2>5. w[m - 1] = v
    BY <2>2, <2>4
  <2>6. w[m] = After(l, w[m - 1])
    BY <2>4, WalkSteps
  <2>7. QED
    BY <2>2, <2>5, <2>6 DEF After
<1>3. QED
  BY <1>2

\* Whom a vehicle on a cycle waits for is on a cycle.
LEMMA NextOnCycle ==
    ASSUME NEW l \in LedgerType, NEW u \in Vehicles, OnCycle(l, u)
    PROVE  /\ u \in DOMAIN WaitFor(l) /\ WaitFor(l)[u] \in Vehicles
           /\ OnCycle(l, WaitFor(l)[u])
<1> DEFINE w == Walk(l, u)
           x == WaitFor(l)[u]
<1>1. u \in DOMAIN WaitFor(l) /\ x \in Vehicles /\ x # u /\ x = After(l, u)
  BY GraphOfVehicles DEF OnCycle, After
<1>2. PICK p \in 1 .. Turns : w[p] = u
  BY DEF OnCycle, Turns
<1>3. /\ Turns \in Nat /\ 1 \in 1 .. Turns /\ 1 \in 0 .. Turns /\ 1 - 1 = 0
      /\ p - 1 \in 0 .. Turns - 1 /\ 1 + (p - 1) = p
      /\ p \in 0 .. Turns /\ p - 1 \in 0 .. Turns
  BY <1>2, TurnsIsNat
<1>4. w[0] = u /\ w[1] = x
  <2>1. w[0] = u /\ w[1] = After(l, w[1 - 1])
    BY <1>3, WalkSteps
  <2>2. QED
    BY <1>1, <1>3, <2>1
<1>5. Walk(l, x)[p - 1] = u
  BY <1>2, <1>3, <1>4, WalkOn
<1>6. Walk(l, x)[p] = x
  BY <1>1, <1>2, <1>5, WalkSteps
<1>7. x \in DOMAIN WaitFor(l)
  BY <1>1, <1>3, <1>5, WalkHalts
<1>8. QED
  BY <1>1, <1>2, <1>6, <1>7 DEF OnCycle, Turns

\* Among vehicles that wait for one another there is a cycle.
LEMMA StuckHasCycle ==
    ASSUME NEW l \in LedgerType, NEW S \in SUBSET Vehicles, Stuck(l, S), S # {}
    PROVE  \E u \in S : OnCycle(l, u)
<1>1. PICK v \in S : TRUE
  OBVIOUS
<1> DEFINE w == Walk(l, v)
<1>2. PICK j, k \in 0 .. Turns : j < k /\ w[j] = w[k]
  BY <1>1, WalkRepeats
<1>3. /\ k - j \in 0 .. Turns - j /\ k - j \in 1 .. Turns /\ j + (k - j) = k
  BY <1>2, TurnsIsNat
<1>4. w[j] \in S
  <2>1. DOMAIN w = 0 .. Turns
    BY <1>1, WalkSteps
  <2>2. Range(w) \subseteq S
    BY <1>1, StuckHoldsWalk
  <2>3. QED
    BY <1>2, <2>1, <2>2 DEF Range
<1>5. Walk(l, w[j])[k - j] = w[j]
  BY <1>1, <1>2, <1>3, WalkOn
<1>6. QED
  BY <1>3, <1>4, <1>5 DEF OnCycle, Stuck, Turns

\* What find_cycle returns from a start: the vehicles of the walk that are on a cycle.
Met(l, v) == {u \in Range(Walk(l, v)) : OnCycle(l, u)}

\* Of two vehicles of a walk that are on a cycle each leads to the other.
LEMMA CycleIsOneOrbit ==
    ASSUME NEW l \in LedgerType, NEW v \in Vehicles, NEW x \in Met(l, v), NEW u \in Met(l, v)
    PROVE  u \in Range(Walk(l, x))
<1> DEFINE w == Walk(l, v)
<1>1. Turns \in Nat /\ DOMAIN w = 0 .. Turns /\ x \in Vehicles /\ u \in Vehicles
  BY TurnsIsNat, WalkSteps DEF Met, Range
<1>2. DOMAIN Walk(l, x) = 0 .. Turns
  BY <1>1, WalkSteps
<1>3. PICK i \in 0 .. Turns : w[i] = x
  BY <1>1 DEF Met, Range
<1>4. PICK j \in 0 .. Turns : w[j] = u
  BY <1>1 DEF Met, Range
<1>5. CASE i <= j
  <2>1. j - i \in 0 .. Turns - i /\ i + (j - i) = j /\ j - i \in 0 .. Turns
    BY <1>1, <1>5
  <2>2. Walk(l, x)[j - i] = u
    BY <1>3, <1>4, <2>1, WalkOn
  <2>3. QED
    BY <1>2, <2>1, <2>2 DEF Range
<1>6. CASE j < i
  <2> DEFINE round == Walk(l, u)
             at    == {d \in 0 .. Turns : round[d] = x}
  <2>1. i - j \in 0 .. Turns - j /\ j + (i - j) = i /\ i - j \in 0 .. Turns
    BY <1>1, <1>6
  <2>2. round[i - j] = x
    BY <1>3, <1>4, <2>1, WalkOn
  <2>3. PICK p \in 1 .. Turns : round[p] = u
    BY DEF Met, OnCycle, Turns
  <2>4. PICK d \in at : \A n \in at : d <= n
    <3>1. at # {} /\ at \in SUBSET Nat
      BY <1>1, <2>1, <2>2
    <3> HIDE DEF at
    <3>2. QED
      BY <3>1, MinIsLeast
  <2>5. d <= p
    <3>1. SUFFICES ASSUME p < d PROVE FALSE
      BY <1>1, <2>3, <2>4
    <3>2. /\ d - p \in 0 .. Turns - p /\ p + (d - p) = d /\ d - p \in 0 .. Turns
          /\ p \in 0 .. Turns /\ ~(d <= d - p)
      BY <1>1, <2>3, <2>4, <3>1
    <3>3. Walk(l, round[p])[d - p] = round[p + (d - p)]
      BY <1>1, <3>2, WalkOn
    <3>4. round[d - p] = x
      BY <2>3, <2>4, <3>2, <3>3
    <3>5. QED
      BY <2>4, <3>2, <3>4
  <2>6. p - d \in 0 .. Turns - d /\ d + (p - d) = p /\ p - d \in 0 .. Turns
    BY <1>1, <2>3, <2>4, <2>5
  <2>7. Walk(l, round[d])[p - d] = round[d + (p - d)]
    BY <1>1, <2>4, <2>6, WalkOn
  <2>8. Walk(l, x)[p - d] = u
    BY <2>3, <2>4, <2>6, <2>7
  <2>9. QED
    BY <1>2, <2>6, <2>8 DEF Range
<1>7. QED
  BY <1>1, <1>5, <1>6

\* From any start find_cycle returns one whole cycle, or nothing.
LEMMA MetIsCycle ==
    ASSUME NEW l \in LedgerType, NEW v \in Vehicles
    PROVE  /\ Met(l, v) \in SUBSET Vehicles /\ Stuck(l, Met(l, v))
           /\ \A S \in SUBSET Met(l, v) : S # {} /\ Stuck(l, S) => S = Met(l, v)
<1>1. Met(l, v) \in SUBSET Vehicles
  <2>1. Walk(l, v) \in [0 .. Turns -> Vehicles]
    BY WalkSteps
  <2>2. QED
    BY <2>1 DEF Met, Range
<1>2. Stuck(l, Met(l, v))
  <2>1. SUFFICES ASSUME NEW u \in Met(l, v)
                 PROVE  u \in DOMAIN WaitFor(l) /\ WaitFor(l)[u] \in Met(l, v)
    BY DEF Stuck
  <2>2. /\ u \in DOMAIN WaitFor(l) /\ OnCycle(l, WaitFor(l)[u])
    BY <1>1, NextOnCycle DEF Met
  <2>3. WaitFor(l)[u] \in Range(Walk(l, v))
    BY <2>2, WalkMetEarly DEF Met, After
  <2>4. QED
    BY <2>2, <2>3 DEF Met
<1>3. ASSUME NEW S \in SUBSET Met(l, v), S # {}, Stuck(l, S)
      PROVE  S = Met(l, v)
  <2>1. PICK x \in S : TRUE
    BY <1>3
  <2>2. Range(Walk(l, x)) \subseteq S
    BY <1>1, <1>3, StuckHoldsWalk
  <2>3. \A u \in Met(l, v) : u \in S
    BY <2>2, CycleIsOneOrbit
  <2>4. QED
    BY <2>3
<1>4. QED
  BY <1>1, <1>2, <1>3

\* find_cycle returns a cycle whenever there is one.
LEMMA FindCycleFinds ==
    ASSUME NEW l \in LedgerType
    PROVE  /\ FindCycle(l) \in SUBSET Vehicles /\ Stuck(l, FindCycle(l))
           /\ \A S \in SUBSET FindCycle(l) : S # {} /\ Stuck(l, S) => S = FindCycle(l)
           /\ \A S \in SUBSET Vehicles : S # {} /\ Stuck(l, S) => FindCycle(l) # {}
<1> DEFINE starts == {v \in DOMAIN WaitFor(l) : Met(l, v) # {}}
           first  == CHOOSE v \in starts : \A u \in starts : Serial[v] <= Serial[u]
<1>1. FindCycle(l) = IF starts = {} THEN {} ELSE Met(l, first)
  BY DEF FindCycle, Met
<1>2. starts \in SUBSET Vehicles
  BY GraphOfVehicles
<1>3. ASSUME starts # {}
      PROVE  first \in starts
  <2> DEFINE serials == {Serial[v] : v \in starts}
  <2>1. serials \in SUBSET Nat /\ serials # {}
    BY <1>2, <1>3, FloorAssumption
  <2> HIDE DEF serials
  <2>2. PICK n \in serials : \A m \in serials : n <= m
    BY <2>1, MinIsLeast
  <2>3. \E v \in starts : \A u \in starts : Serial[v] <= Serial[u]
    BY <2>2 DEF serials
  <2> HIDE DEF starts
  <2>4. QED
    BY <2>3
<1>4. ASSUME NEW S \in SUBSET Vehicles, S # {}, Stuck(l, S)
      PROVE  starts # {}
  <2>1. PICK u \in S : OnCycle(l, u)
    BY <1>4, StuckHasCycle
  <2>2. u \in Range(Walk(l, u))
    <3>1. Walk(l, u) \in [0 .. Turns -> Vehicles] /\ Walk(l, u)[0] = u
      BY WalkSteps
    <3>2. 0 \in 0 .. Turns
      BY TurnsIsNat
    <3>3. QED
      BY <3>1, <3>2 DEF Range
  <2>3. QED
    BY <2>1, <2>2 DEF Met, OnCycle
<1> HIDE DEF starts
<1>5. CASE starts = {}
  BY <1>1, <1>4, <1>5 DEF Stuck
<1>6. CASE starts # {}
  <2>1. first \in Vehicles /\ Met(l, first) # {}
    BY <1>2, <1>3, <1>6 DEF starts
  <2> HIDE DEF first
  <2>2. QED
    BY <1>1, <1>6, <2>1, MetIsCycle
<1>7. QED
  BY <1>5, <1>6

-----------------------------------------------------------------------------
(* What a yield leaves. *)

\* A loser that owns its ground gives back the rest and waits no more; nobody else's
\* floor or wait is touched.
LEMMA YieldLeaves ==
    ASSUME NEW l \in LedgerType, Consistent(l), NEW v \in Vehicles,
           l.standing[v] \in Nodes, l.owner[l.standing[v]] = v
    PROVE  /\ Yield(l, v).standing = l.standing
           /\ Yield(l, v).waiting = [l.waiting EXCEPT ![v] = None]
           /\ Yield(l, v).yielded = l.yielded \cup {v}
           /\ \A e \in Elements :
                Yield(l, v).owner[e] = IF l.owner[e] = v /\ e # l.standing[v] THEN None
                                       ELSE l.owner[e]
<1> DEFINE keep    == l.standing[v]
           freed   == Freed(l, v, Range(l.held[v]))
           retaken == keep # None /\ freed[keep] = None
           owner   == IF retaken THEN [freed EXCEPT ![keep] = v] ELSE freed
           held    == [l.held EXCEPT ![v] = IF retaken THEN <<keep>> ELSE << >>]
           waiting == [l.waiting EXCEPT ![v] = None]
<1>1. l = [owner |-> l.owner, held |-> l.held, waiting |-> l.waiting,
           standing |-> l.standing, yielded |-> l.yielded]
  BY LedgerRecord
<1>2. Yield(l, v) = [owner |-> owner, held |-> held, waiting |-> waiting,
                     standing |-> l.standing, yielded |-> l.yielded \cup {v}]
  <2>1. ReleaseAll(l, v, keep) =
            [l EXCEPT !.owner = owner, !.held = held, !.waiting = waiting]
    BY DEF ReleaseAll
  <2> DEFINE m == ReleaseAll(l, v, keep)
  <2>2. Yield(l, v) = [m EXCEPT !.yielded = @ \cup {v}]
    BY DEF Yield
  <2> HIDE DEF owner, held, waiting
  <2>3. m = [owner |-> owner, held |-> held, waiting |-> waiting,
             standing |-> l.standing, yielded |-> l.yielded]
    <3> HIDE DEF m
    <3>1. QED
      BY <1>1, <2>1 DEF m
  <2> HIDE DEF m
  <2>4. QED
    BY <2>2, <2>3
<1>3. freed \in [Elements -> Vehicles \cup {None}]
  BY FreedProperties
<1>4. \A e \in Elements : freed[e] = IF l.owner[e] = v THEN None ELSE l.owner[e]
  <2>1. Range(l.held[v]) = OwnedBy(l, v)
    BY DEF Consistent
  <2>2. QED
    BY <2>1 DEF Freed, OwnedBy
<1>5. keep \in Elements /\ keep # None /\ freed[keep] = None
  BY <1>4, FloorAssumption DEF Elements
<1>6. owner = [freed EXCEPT ![keep] = v]
  BY <1>5
<1> HIDE DEF freed, owner, held, waiting
<1>7. \A e \in Elements : owner[e] = IF e = keep THEN v ELSE freed[e]
  BY <1>3, <1>5, <1>6
<1>8. /\ Yield(l, v).owner = owner /\ Yield(l, v).waiting = waiting
      /\ Yield(l, v).standing = l.standing /\ Yield(l, v).yielded = l.yielded \cup {v}
  BY <1>2
<1>9. QED
  BY <1>4, <1>7, <1>8 DEF waiting

\* So a yield takes edges from the wait-for graph and adds none: who waits for one
\* another afterwards did before, and the loser does not.
LEMMA YieldShrinks ==
    ASSUME NEW l \in LedgerType, Consistent(l), NEW v \in Vehicles,
           l.standing[v] \in Nodes, l.owner[l.standing[v]] = v,
           NEW S \in SUBSET Vehicles, Stuck(Yield(l, v), S)
    PROVE  Stuck(l, S) /\ v \notin S
<1>1. /\ l.waiting \in [Vehicles -> Elements \cup {None}]
      /\ Yield(l, v).waiting = [l.waiting EXCEPT ![v] = None]
      /\ \A e \in Elements :
            Yield(l, v).owner[e] = IF l.owner[e] = v /\ e # l.standing[v] THEN None
                                   ELSE l.owner[e]
  BY LedgerFields, YieldLeaves
<1> DEFINE m == Yield(l, v)
<1>2. m.waiting = [l.waiting EXCEPT ![v] = None]
  BY <1>1
<1>3. \A e \in Elements : m.owner[e] \in {None, l.owner[e]}
  BY <1>1, SMTT(40)
<1> HIDE DEF m
<1>4. ASSUME NEW u \in S
      PROVE  u # v /\ u \in DOMAIN WaitFor(l) /\ WaitFor(l)[u] = WaitFor(m)[u]
  <2>1. u \in DOMAIN WaitFor(m) /\ u \in Vehicles
    BY DEF Stuck, m
  <2>2. /\ m.waiting[u] # None /\ m.owner[m.waiting[u]] \notin {None, u}
        /\ WaitFor(m)[u] = m.owner[m.waiting[u]]
    BY <2>1 DEF WaitFor
  <2>3. u # v /\ m.waiting[u] = l.waiting[u] /\ l.waiting[u] \in Elements
    BY <1>1, <1>2, <2>1, <2>2
  <2>4. m.owner[l.waiting[u]] = l.owner[l.waiting[u]]
    BY <1>3, <2>2, <2>3
  <2>5. QED
    BY <2>1, <2>2, <2>3, <2>4 DEF WaitFor
<1>5. QED
  BY <1>4 DEF Stuck, m

-----------------------------------------------------------------------------
(* The pass. *)

\* Everybody owns its ground; whoever has yielded waits for nobody, and there was
\* somebody with the same task's age or an earlier one.
Grounded ==
    /\ stopped \in LedgerType /\ Consistent(stopped)
    /\ stopped.standing = Ground
    /\ \A v \in Vehicles : stopped.owner[Ground[v]] = v
Aged ==
    /\ turns \in Nat
    /\ \A v \in DOMAIN ages : v \in Vehicles /\ ages[v] \in Nat
    /\ turns = 0 => stopped.yielded = {}
YieldedWell ==
    \A v \in stopped.yielded :
        /\ stopped.waiting[v] = None
        /\ v \in DOMAIN ages => \E u \in DOMAIN ages \ {v} : ages[u] <= ages[v]

\* Each turn has done with two vehicles more: no deadlock has one of them.
DoneWith(l, D) == \A S \in SUBSET Vehicles : Stuck(l, S) => S \cap D = {}
TwoPerTurn == \E D \in SUBSET Vehicles : 2 * turns <= Cardinality(D) /\ DoneWith(stopped, D)

PassInv == Grounded /\ Aged /\ YieldedWell /\ TwoPerTurn

LEMMA InitPassInv == WaitDieInit => PassInv
<1> SUFFICES ASSUME WaitDieInit
             PROVE  PassInv
  OBVIOUS
<1>1. Ground \in [Vehicles -> Nodes] /\ \A u, v \in Vehicles : Ground[u] = Ground[v] => u = v
  BY WaitDieConstants DEF Injection, IsInjective
<1>2. PICK ahead \in [Vehicles -> Nodes \cup {None}], waits \in [Vehicles -> Nodes \cup {None}] :
        /\ \A u, v \in Vehicles :
            /\ ahead[u] # Ground[v]
            /\ u # v /\ ahead[u] # None => ahead[u] # ahead[v]
        /\ stopped = StoppedLedger(ahead, waits)
  BY DEF WaitDieInit
<1> DEFINE mine(v) == {Ground[v], ahead[v]} \ {None}
           owner   == [e \in Elements |-> IF \E v \in Vehicles : e \in mine(v)
                                          THEN CHOOSE v \in Vehicles : e \in mine(v) ELSE None]
           held    == [v \in Vehicles |-> IF ahead[v] = None THEN <<Ground[v]>>
                                          ELSE <<Ground[v], ahead[v]>>]
<1>3. stopped = [owner |-> owner, held |-> held, waiting |-> waits, standing |-> Ground,
                yielded |-> {}]
  BY <1>2 DEF StoppedLedger, EmptyLedger
<1>4. \A v \in Vehicles : mine(v) \subseteq Elements /\ Ground[v] \in mine(v)
  BY <1>1, FloorAssumption DEF Elements
<1>5. \A u, v \in Vehicles : \A e \in mine(u) : e \in mine(v) => u = v
  BY <1>1, <1>2
<1>6. \A v \in Vehicles : \A e \in mine(v) : owner[e] = v
  BY <1>4, <1>5
<1>7. \A v \in Vehicles, e \in Elements : owner[e] = v => e \in mine(v)
  BY FloorAssumption
<1>8. owner \in [Elements -> Vehicles \cup {None}]
  OBVIOUS
<1>9. ASSUME NEW v \in Vehicles
      PROVE  held[v] \in Seq(Elements) /\ Range(held[v]) = mine(v) /\ IsInjective(held[v])
  <2>1. Ground[v] \in Elements /\ Ground[v] # None
    BY <1>1, FloorAssumption DEF Elements
  <2>2. CASE ahead[v] = None
    BY <2>1, <2>2 DEF Range, IsInjective
  <2>3. CASE ahead[v] # None
    <3>1. ahead[v] \in Elements /\ ahead[v] # Ground[v]
      BY <1>2, <2>3 DEF Elements
    <3>2. held[v] = <<Ground[v], ahead[v]>>
      BY <2>3
    <3>3. QED
      BY <2>1, <2>3, <3>1, <3>2 DEF Range, IsInjective
  <2>4. QED
    BY <2>2, <2>3
<1> HIDE DEF owner, held
<1>10. held \in [Vehicles -> Seq(Elements)]
  BY <1>9 DEF held
<1>11. stopped \in LedgerType
  BY <1>1, <1>3, <1>8, <1>10 DEF LedgerType, Elements
<1>12. Consistent(stopped)
  <2>1. \A v \in Vehicles : mine(v) = {e \in Elements : owner[e] = v}
    BY <1>4, <1>6, <1>7
  <2>2. stopped.held = held /\ stopped.owner = owner
    BY <1>3
  <2> HIDE DEF mine
  <2>3. QED
    BY <1>9, <2>1, <2>2 DEF Consistent, OwnedBy
<1>13. Grounded
  BY <1>3, <1>4, <1>6, <1>11, <1>12 DEF Grounded
<1>14. Aged /\ YieldedWell
  <2>1. ages = << >> /\ turns = 0 /\ stopped.yielded = {}
    BY <1>3 DEF WaitDieInit
  <2>2. DOMAIN ages = {}
    BY <2>1
  <2>3. QED
    BY <2>1, <2>2 DEF Aged, YieldedWell
<1>15. TwoPerTurn
  <2>1. 2 * turns <= Cardinality({}) /\ DoneWith(stopped, {})
    BY FS_EmptySet DEF WaitDieInit, DoneWith
  <2>2. QED
    BY <2>1 DEF TwoPerTurn
<1>16. QED
  BY <1>13, <1>14, <1>15 DEF PassInv

\* One turn: the loser leaves the cycle, and the cycle is over.
LEMMA ResolveKeepsInv == PassInv /\ Resolve => PassInv'
<1> SUFFICES ASSUME PassInv, Resolve
             PROVE  PassInv'
  OBVIOUS
<1> DEFINE cycle == FindCycle(stopped)
           loser == Youngest(ages', cycle)
           l     == stopped
<1>1. /\ Ground \in [Vehicles -> Nodes] /\ Times \subseteq Nat
  BY WaitDieConstants DEF Injection
<1>2. cycle # {} /\ stopped' = Yield(l, loser) /\ turns' = turns + 1
  BY DEF Resolve, ResolveDeadlock
<1>3. /\ l \in LedgerType /\ Consistent(l) /\ l.standing = Ground
      /\ \A v \in Vehicles : l.owner[Ground[v]] = v
  BY DEF PassInv, Grounded
<1>4. \A v \in DOMAIN ages' : v \in Vehicles /\ ages'[v] \in Nat
  <2>1. CASE turns = 0
    BY <1>1, <2>1, ZenonT(60) DEF Resolve
  <2>2. CASE turns # 0
    BY <2>2 DEF Resolve, PassInv, Aged
  <2>3. QED
    BY <2>1, <2>2
<1>5. /\ cycle \in SUBSET Vehicles /\ Stuck(l, cycle)
      /\ \A S \in SUBSET cycle : S # {} /\ Stuck(l, S) => S = cycle
  BY <1>3, FindCycleFinds
<1> HIDE DEF cycle
<1>6. loser \in Latest(ages', cycle) /\ loser \in cycle /\ loser \in Vehicles
  BY <1>2, <1>4, <1>5, LoserInCycle
<1>7. PICK w \in cycle : w # loser
  BY <1>3, <1>5, <1>6, GraphOfVehicles DEF Stuck
<1>8. l.standing[loser] \in Nodes /\ l.owner[l.standing[loser]] = loser
  BY <1>1, <1>3, <1>6
<1>9. ~(loser \in DOMAIN ages' /\ \A u \in DOMAIN ages' \ {loser} : ~(ages'[u] <= ages'[loser]))
  <2>1. SUFFICES ASSUME loser \in DOMAIN ages'
                 PROVE  w \in DOMAIN ages' /\ ages'[w] <= ages'[loser]
    BY <1>7
  <2>2. cycle \ DOMAIN ages' = {}
    BY <1>6, <2>1 DEF Latest
  <2>3. QED
    BY <1>6, <1>7, <2>2 DEF Latest
<1> HIDE DEF loser
<1>10. /\ stopped'.standing = l.standing
       /\ stopped'.waiting = [l.waiting EXCEPT ![loser] = None]
       /\ stopped'.yielded = l.yielded \cup {loser}
       /\ \A e \in Elements :
            stopped'.owner[e] = IF l.owner[e] = loser /\ e # l.standing[loser] THEN None
                               ELSE l.owner[e]
  BY <1>2, <1>3, <1>6, <1>8, YieldLeaves
<1>11. Grounded'
  <2>1. stopped' \in LedgerType /\ Consistent(stopped')
    BY <1>2, <1>3, <1>6, YieldConsistent
  <2>2. ASSUME NEW v \in Vehicles
        PROVE  stopped'.owner[Ground[v]] = v
    <3>1. Ground[v] \in Elements /\ l.owner[Ground[v]] = v
      BY <1>1, <1>3 DEF Elements
    <3>2. v = loser => Ground[v] = l.standing[loser]
      BY <1>3
    <3>3. QED
      BY <1>10, <3>1, <3>2
  <2>3. QED
    BY <1>3, <1>10, <2>1, <2>2 DEF Grounded
<1>12. Aged'
  BY <1>2, <1>4 DEF PassInv, Aged
<1>13. YieldedWell'
  <2>1. SUFFICES ASSUME NEW v \in l.yielded \cup {loser}
                 PROVE  /\ stopped'.waiting[v] = None
                        /\ v \in DOMAIN ages' =>
                              \E u \in DOMAIN ages' \ {v} : ages'[u] <= ages'[v]
    BY <1>10 DEF YieldedWell
  <2>2. CASE v = loser
    <3>1. l.waiting \in [Vehicles -> Elements \cup {None}]
      BY <1>3, LedgerFields
    <3>2. QED
      BY <1>6, <1>9, <1>10, <2>2, <3>1
  <2>3. CASE v # loser
    <3>1. v \in l.yielded /\ turns # 0 /\ ages' = ages
      BY <2>1, <2>3 DEF PassInv, Aged, Resolve
    <3>2. l.waiting \in [Vehicles -> Elements \cup {None}] /\ v \in Vehicles
      BY <1>3, <3>1, LedgerFields
    <3>3. QED
      BY <1>10, <2>3, <3>1, <3>2 DEF PassInv, YieldedWell
  <2>4. QED
    BY <2>2, <2>3
<1>14. TwoPerTurn'
  <2>1. PICK D \in SUBSET Vehicles : 2 * turns <= Cardinality(D) /\ DoneWith(stopped, D)
    BY DEF PassInv, TwoPerTurn
  <2>2. cycle \cap D = {}
    BY <1>5, <2>1 DEF DoneWith
  <2>3. /\ IsFiniteSet(D) /\ IsFiniteSet(cycle)
        /\ Cardinality(D) \in Nat /\ Cardinality(cycle) \in Nat
    BY <1>5, FloorAssumption, FS_Subset, FS_CardinalityType
  <2>4. Cardinality(D \cup cycle) = Cardinality(D) + Cardinality(cycle)
    <3>1. Cardinality(D \cap cycle) = 0
      BY <2>2, FS_EmptySet
    <3> HIDE DEF l
    <3>2. Cardinality(D \cup cycle) = Cardinality(D) + Cardinality(cycle) - Cardinality(D \cap cycle)
      BY <2>3, FS_Union
    <3>3. QED
      BY <2>3, <3>1, <3>2
  <2>5. Cardinality(cycle) >= 2
    <3>1. cycle # {} /\ Cardinality(cycle) # 0
      BY <1>2, <2>3, FS_EmptySet
    <3>2. Cardinality(cycle) # 1
      <4>1. SUFFICES ASSUME NEW x, cycle = {x} PROVE FALSE
        BY <2>3, FS_Singleton
      <4>2. QED
        BY <1>6, <1>7, <4>1
    <3>3. QED
      BY <2>3, <3>1, <3>2
  <2>6. 2 * turns' <= Cardinality(D \cup cycle)
    BY <1>2, <2>1, <2>3, <2>4, <2>5 DEF PassInv, Aged
  <2>7. ASSUME NEW S \in SUBSET Vehicles, Stuck(stopped', S)
        PROVE  S \cap (D \cup cycle) = {}
    <3>1. Stuck(l, S) /\ loser \notin S
      BY <1>2, <1>3, <1>6, <1>8, <2>7, YieldShrinks
    <3>2. S \cap D = {}
      BY <2>1, <3>1 DEF DoneWith
    <3>3. Stuck(l, S \cap cycle) /\ S \cap cycle # cycle
      BY <1>5, <1>6, <3>1 DEF Stuck
    <3>4. S \cap cycle = {}
      BY <1>5, <3>3
    <3>5. QED
      BY <3>2, <3>4
  <2>8. DoneWith(stopped', D \cup cycle)
    BY <2>7 DEF DoneWith
  <2>9. D \cup cycle \in SUBSET Vehicles
    BY <1>5
  <2>10. QED
    BY <2>6, <2>8, <2>9 DEF TwoPerTurn
<1>15. QED
  BY <1>11, <1>12, <1>13, <1>14 DEF PassInv

LEMMA PassAlwaysInv == WaitDieSpec => []PassInv
<1>1. PassInv /\ UNCHANGED waitDieVars => PassInv'
  BY DEF waitDieVars, PassInv, Grounded, Aged, YieldedWell, TwoPerTurn
<1>2. QED
  BY <1>1, InitPassInv, ResolveKeepsInv, PTL DEF WaitDieSpec

-----------------------------------------------------------------------------
(* Theorems. *)

\* find_cycle finds a deadlock exactly when there is one, and returns one whole cycle.
THEOREM CyclesAreFound == WaitDieSpec => []CycleFoundIffDeadlocked
<1>1. PassInv => CycleFoundIffDeadlocked
  BY FindCycleFinds DEF PassInv, Grounded, CycleFoundIffDeadlocked, Stuck
<1>2. QED
  BY <1>1, PassAlwaysInv, PTL

\* Wait-die never takes the floor of the oldest task, nor the ground under a truck.
THEOREM OldestAndGroundAreSpared == WaitDieSpec => []YieldsSpare
<1>1. PassInv => YieldsSpare
  BY LedgerFields DEF PassInv, Grounded, YieldedWell, YieldsSpare
<1>2. QED
  BY <1>1, PassAlwaysInv, PTL

\* A deadlock that was resolved stays resolved, and the loop of _resolve asks often
\* enough: it takes at most half as many turns as there are vehicles.
THEOREM TurnsAlwaysSuffice == WaitDieSpec => []TurnsSuffice
<1>1. PassInv => TurnsSuffice
  <2> SUFFICES ASSUME PassInv PROVE TurnsSuffice
    OBVIOUS
  <2>1. FindCycle(stopped) \cap stopped.yielded = {}
    <3>1. \A v \in stopped.yielded : v \notin DOMAIN WaitFor(stopped)
      BY DEF PassInv, YieldedWell, WaitFor
    <3>2. QED
      BY <3>1, FindCycleFinds DEF PassInv, Grounded, Stuck
  <2>2. PICK D \in SUBSET Vehicles : 2 * turns <= Cardinality(D)
    BY DEF PassInv, TwoPerTurn
  <2>3. /\ Cardinality(D) <= Cardinality(Vehicles)
        /\ Cardinality(D) \in Nat /\ Cardinality(Vehicles) \in Nat /\ turns \in Nat
    BY FloorAssumption, FS_Subset, FS_CardinalityType DEF PassInv, Aged
  <2>4. QED
    BY <2>1, <2>2, <2>3 DEF TurnsSuffice
<1>2. QED
  BY <1>1, PassAlwaysInv, PTL
=============================================================================
