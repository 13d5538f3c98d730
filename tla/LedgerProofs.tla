---------------------------- MODULE LedgerProofs ----------------------------
(***************************************************************************)
(* What each call does to a consistent ledger, proved once here and cited  *)
(* by the theorems about the specifications that hold one.                 *)
(***************************************************************************)
EXTENDS Ledger, FiniteSetTheorems, FunctionTheorems, SequenceTheorems, TLAPS

-----------------------------------------------------------------------------
(* Minima and maxima of sets of integers. *)

LEMMA LessThanWellFounded ==
    IsWellFoundedOn({pair \in Nat \X Nat : pair[1] < pair[2]}, Nat)
BY NatLessThanWellFounded DEF OpToRel

\* A non-empty set of naturals has a least element, and Min names it.
LEMMA MinIsLeast ==
    ASSUME NEW S \in SUBSET Nat, S # {}
    PROVE  Min(S) \in S /\ \A x \in S : Min(S) <= x
<1> DEFINE less == {pair \in Nat \X Nat : pair[1] < pair[2]}
<1>1. \E m \in S : \A x \in S : ~ (<<x, m>> \in less)
  <2>1. IsWellFoundedOn(less, Nat)
    BY LessThanWellFounded
  <2> HIDE DEF less
  <2>2. QED
    BY <2>1, WFMin
<1>2. ASSUME NEW m \in S, NEW x \in S, ~(<<x, m>> \in less)
      PROVE  m <= x
  <2>1. <<x, m>> \in Nat \X Nat /\ x \in Nat /\ m \in Nat
    OBVIOUS
  <2>2. ~(x < m)
    BY <1>2, <2>1
  <2>3. QED
    BY <2>1, <2>2
<1>3. QED
  BY <1>1, <1>2 DEF Min

\* A non-empty set of naturals with an upper bound has a greatest element, and
\* Max names it.
LEMMA MaxIsGreatest ==
    ASSUME NEW n \in Nat, NEW S \in SUBSET (0 .. n), S # {}
    PROVE  Max(S) \in S /\ \A x \in S : x <= Max(S)
<1> DEFINE mirror == {y \in 0 .. n : n - y \in S}
<1>1. \A x \in S : n - x \in mirror
  <2> TAKE x \in S
  <2>1. n - x \in 0 .. n /\ n - (n - x) = x
    OBVIOUS
  <2>2. QED
    BY <2>1
<1>2. mirror \in SUBSET Nat /\ mirror # {}
  <2>1. \E y : y \in mirror
    BY <1>1
  <2>2. \A y \in mirror : y \in Nat
    OBVIOUS
  <2> HIDE DEF mirror
  <2>3. QED
    BY <2>1, <2>2
<1>3. Min(mirror) \in mirror /\ \A y \in mirror : Min(mirror) <= y
  <2> HIDE DEF mirror
  <2>1. QED
    BY <1>2, MinIsLeast
<1>4. \A x \in S : x <= n - Min(mirror)
  <2> TAKE x \in S
  <2>1. Min(mirror) <= n - x /\ x \in 0 .. n /\ Min(mirror) \in 0 .. n
    BY <1>1, <1>3
  <2>2. QED
    BY <2>1
<1>5. QED
  BY <1>3, <1>4 DEF Max

-----------------------------------------------------------------------------
(* Filtering a sequence. *)

\* Without(s, S) is a sequence of what s holds outside S; it names each of
\* these elements, and each once when s does.
LEMMA WithoutProperties ==
    ASSUME NEW T, NEW s \in Seq(T), NEW S
    PROVE  /\ Without(s, S) \in Seq(T)
           /\ Range(Without(s, S)) = Range(s) \ S
           /\ IsInjective(s) => IsInjective(Without(s, S))
<1> DEFINE keep    == {i \in DOMAIN s : s[i] \notin S}
           rank(i) == Cardinality({j \in keep : j <= i})
           card    == Cardinality(keep)
           ranking == [i \in keep |-> rank(i)]
           pos(n)  == CHOOSE i \in keep : rank(i) = n
<1>1. Len(s) \in Nat /\ DOMAIN s = 1 .. Len(s) /\ s \in [1 .. Len(s) -> T]
  BY LenProperties
<1>2. IsFiniteSet(keep) /\ card \in Nat /\ keep \subseteq Nat
  <2>1. keep \in SUBSET (1 .. Len(s)) /\ keep \subseteq Nat
    BY <1>1
  <2>2. IsFiniteSet(1 .. Len(s))
    BY <1>1, FS_Interval
  <2> HIDE DEF keep
  <2>3. IsFiniteSet(keep)
    BY <2>1, <2>2, FS_Subset
  <2>4. QED
    BY <2>1, <2>3, FS_CardinalityType
<1> DEFINE upTo(i) == {j \in keep : j <= i}
<1>3. ASSUME NEW i \in keep
      PROVE  rank(i) \in 1 .. card /\ IsFiniteSet(upTo(i))
  <2>1. upTo(i) \in SUBSET keep /\ {i} \in SUBSET upTo(i)
    BY <1>2
  <2> HIDE DEF keep, upTo
  <2>2. IsFiniteSet(upTo(i)) /\ Cardinality(upTo(i)) <= card /\ Cardinality(upTo(i)) \in Nat
    BY <1>2, <2>1, FS_Subset, FS_CardinalityType
  <2>3. Cardinality({i}) = 1
    BY FS_Singleton
  <2>4. Cardinality({i}) <= Cardinality(upTo(i))
    BY <2>1, <2>2, FS_Subset
  <2>5. QED
    BY <1>2, <2>2, <2>3, <2>4 DEF upTo
<1>4. ASSUME NEW i \in keep, NEW j \in keep, i < j
      PROVE  rank(i) < rank(j)
  <2>1. upTo(i) \in SUBSET upTo(j) /\ upTo(i) # upTo(j)
    <3>1. i \in Nat /\ j \in Nat /\ keep \subseteq Nat
      BY <1>2
    <3>2. j \in upTo(j) /\ j \notin upTo(i)
      BY <1>4, <3>1
    <3>3. \A k \in keep : k <= i => k <= j
      BY <1>4, <3>1
    <3>4. QED
      BY <3>2, <3>3
  <2>2. IsFiniteSet(upTo(j)) /\ rank(i) \in Nat /\ rank(j) \in Nat
    <3>1. rank(i) \in 1 .. card /\ rank(j) \in 1 .. card /\ IsFiniteSet(upTo(j))
      BY <1>3
    <3> HIDE DEF rank, card, upTo
    <3>2. QED
      BY <3>1
  <2>3. rank(i) = Cardinality(upTo(i)) /\ rank(j) = Cardinality(upTo(j))
    OBVIOUS
  <2> HIDE DEF rank, upTo
  <2>4. Cardinality(upTo(i)) <= Cardinality(upTo(j))
        /\ Cardinality(upTo(i)) # Cardinality(upTo(j))
    BY <2>1, <2>2, FS_Subset
  <2>5. QED
    BY <2>2, <2>3, <2>4
<1>5. ranking \in Injection(keep, 1 .. card)
  <2>1. ranking \in [keep -> 1 .. card]
    BY <1>3
  <2>2. ASSUME NEW i \in keep, NEW j \in keep, ranking[i] = ranking[j]
        PROVE  i = j
    <3>1. rank(i) = rank(j)
      BY <2>2
    <3>2. rank(i) \in Nat /\ i \in Nat /\ j \in Nat
      <4>1. rank(i) \in 1 .. card /\ i \in Nat /\ j \in Nat
        BY <1>2, <1>3
      <4> HIDE DEF rank, card
      <4>2. QED
        BY <4>1
    <3>3. (i < j => rank(i) < rank(j)) /\ (j < i => rank(j) < rank(i))
      BY <1>4
    <3> HIDE DEF rank
    <3>4. QED
      BY <3>1, <3>2, <3>3
  <2>3. QED
    BY <2>1, <2>2, Fun_IsInj
<1>6. ranking \in Surjection(keep, 1 .. card)
  <2>1. IsFiniteSet(1 .. card) /\ Cardinality(1 .. card) = card
    BY <1>2, FS_Interval
  <2>2. QED
    BY <1>5, <2>1, FS_Injection
<1>7. \A n \in 1 .. card : \E i \in keep : rank(i) = n
  BY <1>6 DEF Surjection
<1>8. \A n \in 1 .. card : pos(n) \in keep /\ rank(pos(n)) = n
  BY <1>7
<1>9. \A i \in keep : rank(i) \in 1 .. card /\ pos(rank(i)) = i
  <2> TAKE i \in keep
  <2>1. rank(i) \in 1 .. card
    BY <1>3
  <2>2. pos(rank(i)) \in keep /\ rank(pos(rank(i))) = rank(i)
    BY <1>8, <2>1
  <2>3. QED
    BY <2>1, <2>2, <1>5 DEF Injection, IsInjective
<1>10. Without(s, S) = [n \in 1 .. card |-> s[pos(n)]]
  BY DEF Without
<1>11. Without(s, S) \in Seq(T)
  <2>1. \A n \in 1 .. card : s[pos(n)] \in T
    BY <1>1, <1>8
  <2> HIDE DEF card, pos
  <2>2. Without(s, S) \in [1 .. card -> T]
    BY <1>10, <2>1
  <2>3. QED
    BY <1>2, <2>2, SeqDef
<1>12. Range(Without(s, S)) = Range(s) \ S
  <2>1. ASSUME NEW e \in Range(Without(s, S))
        PROVE  e \in Range(s) \ S
    <3>1. PICK n \in 1 .. card : s[pos(n)] = e
      BY <1>10 DEF Range
    <3>2. pos(n) \in keep
      BY <1>8
    <3>3. QED
      BY <3>1, <3>2 DEF Range
  <2>2. ASSUME NEW e \in Range(s) \ S
        PROVE  e \in Range(Without(s, S))
    <3>1. PICK i \in keep : s[i] = e
      BY DEF Range
    <3>2. rank(i) \in 1 .. card /\ s[pos(rank(i))] = e
      BY <1>9, <3>1
    <3>3. QED
      BY <1>10, <3>2 DEF Range
  <2>3. QED
    BY <2>1, <2>2
<1>13. ASSUME IsInjective(s)
       PROVE  IsInjective(Without(s, S))
  <2> SUFFICES ASSUME NEW m \in 1 .. card, NEW n \in 1 .. card,
                      s[pos(m)] = s[pos(n)]
               PROVE  m = n
    BY <1>10 DEF IsInjective
  <2>1. pos(m) = pos(n)
    BY <1>8, <1>13 DEF IsInjective
  <2>2. QED
    BY <1>8, <2>1
<1>14. QED
  BY <1>11, <1>12, <1>13

\* Two sequences with nothing in common, each naming its elements once, make a
\* sequence that names the elements of both once.
LEMMA ConcatIsDisjointUnion ==
    ASSUME NEW T, NEW s \in Seq(T), NEW t \in Seq(T),
           IsInjective(s), IsInjective(t), Range(s) \cap Range(t) = {}
    PROVE  /\ s \o t \in Seq(T)
           /\ Range(s \o t) = Range(s) \cup Range(t)
           /\ IsInjective(s \o t)
<1>1. /\ s \o t \in Seq(T)
      /\ Len(s) \in Nat /\ Len(t) \in Nat
      /\ DOMAIN s = 1 .. Len(s) /\ DOMAIN t = 1 .. Len(t)
      /\ DOMAIN (s \o t) = 1 .. (Len(s) + Len(t))
      /\ \A i \in 1 .. (Len(s) + Len(t)) :
            (s \o t)[i] = IF i <= Len(s) THEN s[i] ELSE t[i - Len(s)]
  BY ConcatProperties, LenProperties
<1>2. Range(s \o t) = Range(s) \cup Range(t)
  <2>1. ASSUME NEW e \in Range(s \o t) PROVE e \in Range(s) \cup Range(t)
    BY <1>1 DEF Range
  <2>2. ASSUME NEW e \in Range(s) PROVE e \in Range(s \o t)
    BY <1>1 DEF Range
  <2>3. ASSUME NEW e \in Range(t) PROVE e \in Range(s \o t)
    <3>1. PICK i \in 1 .. Len(t) : t[i] = e
      BY <1>1 DEF Range
    <3>2. Len(s) + i \in 1 .. (Len(s) + Len(t)) /\ (s \o t)[Len(s) + i] = e
      BY <1>1, <3>1
    <3>3. QED
      BY <1>1, <3>2 DEF Range
  <2>4. QED
    BY <2>1, <2>2, <2>3
<1>3. IsInjective(s \o t)
  <2> SUFFICES ASSUME NEW i \in 1 .. (Len(s) + Len(t)), NEW j \in 1 .. (Len(s) + Len(t)),
                      (s \o t)[i] = (s \o t)[j]
               PROVE  i = j
    BY <1>1 DEF IsInjective
  <2>1. CASE i <= Len(s) /\ j <= Len(s)
    BY <1>1, <2>1 DEF IsInjective
  <2>2. CASE i > Len(s) /\ j > Len(s)
    <3>1. t[i - Len(s)] = t[j - Len(s)] /\ i - Len(s) \in DOMAIN t /\ j - Len(s) \in DOMAIN t
      BY <1>1, <2>2
    <3>2. i - Len(s) = j - Len(s)
      BY <3>1 DEF IsInjective
    <3>3. QED
      BY <1>1, <3>2
  <2>3. CASE i <= Len(s) /\ j > Len(s)
    <3>1. s[i] = t[j - Len(s)] /\ i \in DOMAIN s /\ j - Len(s) \in DOMAIN t
      BY <1>1, <2>3
    <3>2. QED
      BY <3>1 DEF Range
  <2>4. CASE i > Len(s) /\ j <= Len(s)
    <3>1. t[i - Len(s)] = s[j] /\ i - Len(s) \in DOMAIN t /\ j \in DOMAIN s
      BY <1>1, <2>4
    <3>2. QED
      BY <3>1 DEF Range
  <2>5. QED
    BY <1>1, <2>1, <2>2, <2>3, <2>4
<1>4. QED
  BY <1>1, <1>2, <1>3

-----------------------------------------------------------------------------
(* hold *)

\* The grant is a prefix of the request, every element of it is free or the
\* vehicle's own, and it ends on a node when it is not empty.
LEMMA GrantProperties ==
    ASSUME NEW l \in LedgerType, NEW v \in Vehicles, NEW r \in Seq(Elements)
    PROVE  /\ GrantLen(l, v, r) \in 0 .. Len(r)
           /\ Grant(l, v, r) \in Seq(Elements)
           /\ Len(Grant(l, v, r)) = GrantLen(l, v, r)
           /\ \A i \in 1 .. GrantLen(l, v, r) :
                Grant(l, v, r)[i] = r[i] /\ FreeFor(l, v, r[i])
           /\ GrantLen(l, v, r) > 0 => r[GrantLen(l, v, r)] \in Nodes
<1> DEFINE lens == {n \in 0 .. Len(r) : /\ \A i \in 1 .. n : FreeFor(l, v, r[i])
                                        /\ n > 0 => r[n] \in Nodes}
<1>1. Len(r) \in Nat /\ \A i \in 1 .. Len(r) : r[i] \in Elements
  BY ElementOfSeq, LenProperties
<1>2. lens \in SUBSET (0 .. Len(r)) /\ lens # {}
  <2>1. 0 \in lens
    BY <1>1
  <2>2. QED
    BY <2>1
<1>3. GrantLen(l, v, r) \in lens
  <2>1. GrantLen(l, v, r) = Max(lens)
    BY DEF GrantLen
  <2> HIDE DEF lens
  <2>2. QED
    BY <1>1, <1>2, <2>1, MaxIsGreatest
<1>4. GrantLen(l, v, r) \in 0 .. Len(r) /\ GrantLen(l, v, r) \in Nat
  BY <1>1, <1>3
<1>5. \A i \in 1 .. GrantLen(l, v, r) : r[i] \in Elements
  BY <1>1, <1>4
<1>6. /\ Grant(l, v, r) \in Seq(Elements)
      /\ Len(Grant(l, v, r)) = GrantLen(l, v, r)
      /\ \A i \in 1 .. GrantLen(l, v, r) : Grant(l, v, r)[i] = r[i]
  BY <1>4, <1>5, SubSeqProperties DEF Grant
<1>7. QED
  BY <1>3, <1>4, <1>6

\* What a ledger operation made for v may do to the owners: give back v's
\* floor, and take floor nobody has.
Traded(before, after, v) ==
    \A e \in Elements : after[e] # before[e] =>
        \/ before[e] = v /\ after[e] = None
        \/ before[e] = None /\ after[e] = v

\* hold keeps a ledger consistent and takes only floor nobody has.
LEMMA HoldConsistent ==
    ASSUME NEW l \in LedgerType, Consistent(l), NEW v \in Vehicles,
           NEW r \in Seq(Elements), IsInjective(r)
    PROVE  /\ Hold(l, v, r) \in LedgerType
           /\ Consistent(Hold(l, v, r))
           /\ Traded(l.owner, Hold(l, v, r).owner, v)
<1> DEFINE prefix == Grant(l, v, r)
           rest   == Without(l.held[v], Range(prefix))
           m      == Hold(l, v, r)
<1>1. /\ l.owner \in [Elements -> Vehicles \cup {None}]
      /\ l.held \in [Vehicles -> Seq(Elements)]
      /\ l.waiting \in [Vehicles -> Elements \cup {None}]
  BY DEF LedgerType
<1>2. prefix \in Seq(Elements) /\ DOMAIN prefix = 1 .. GrantLen(l, v, r)
  BY GrantProperties, LenProperties
<1>3. Range(prefix) \subseteq Elements /\ \A e \in Range(prefix) : FreeFor(l, v, e)
  BY <1>2, GrantProperties, ElementOfSeq DEF Range
<1>4. IsInjective(prefix)
  <2>1. 1 .. GrantLen(l, v, r) \subseteq DOMAIN r
    BY GrantProperties, LenProperties
  <2>2. QED
    BY <1>2, <2>1, GrantProperties DEF IsInjective
<1>5. /\ rest \in Seq(Elements)
      /\ Range(rest) = OwnedBy(l, v) \ Range(prefix)
      /\ IsInjective(rest)
  BY <1>1, WithoutProperties DEF Consistent
<1>6. /\ rest \o prefix \in Seq(Elements)
      /\ Range(rest \o prefix) = Range(rest) \cup Range(prefix)
      /\ IsInjective(rest \o prefix)
  BY <1>2, <1>4, <1>5, ConcatIsDisjointUnion
<1>7. /\ m.owner = [e \in Elements |-> IF e \in Range(prefix) THEN v ELSE l.owner[e]]
      /\ m.held = [l.held EXCEPT ![v] = rest \o prefix]
      /\ m.standing = l.standing /\ m.yielded = l.yielded
      /\ m.waiting = [l.waiting EXCEPT ![v] = Blocker(l, v, r)]
      /\ m \in [owner : {m.owner}, held : {m.held}, waiting : {m.waiting},
                standing : {m.standing}, yielded : {m.yielded}]
  <2>1. l = [owner |-> l.owner, held |-> l.held, waiting |-> l.waiting,
             standing |-> l.standing, yielded |-> l.yielded]
    BY DEF LedgerType
  <2>2. m = [l EXCEPT !.waiting = [l.waiting EXCEPT ![v] = Blocker(l, v, r)],
                      !.owner = [e \in Elements |-> IF e \in Range(prefix) THEN v
                                                    ELSE l.owner[e]],
                      !.held = [l.held EXCEPT ![v] = rest \o prefix]]
    BY DEF Hold
  <2> HIDE DEF m, prefix, rest
  <2>3. QED
    BY <2>1, <2>2
<1>8. Blocker(l, v, r) \in Elements \cup {None}
  <2> DEFINE taken == {i \in DOMAIN r : ~FreeFor(l, v, r[i])}
  <2>1. taken \in SUBSET Nat /\ DOMAIN r = 1 .. Len(r)
    BY LenProperties
  <2>2. CASE taken = {}
    BY <2>2 DEF Blocker
  <2>3. CASE taken # {}
    <3>1. Min(taken) \in taken
      <4> HIDE DEF taken
      <4>1. QED
        BY <2>1, <2>3, MinIsLeast
    <3>2. r[Min(taken)] \in Elements
      BY <2>1, <3>1, ElementOfSeq
    <3>3. QED
      BY <2>3, <3>2 DEF Blocker
  <2>4. QED
    BY <2>2, <2>3
<1> HIDE DEF prefix, rest, m
<1>9. m \in LedgerType
  <2>1. m.owner \in [Elements -> Vehicles \cup {None}]
    BY <1>1, <1>7
  <2>2. m.held \in [Vehicles -> Seq(Elements)]
    BY <1>1, <1>6, <1>7
  <2>3. m.waiting \in [Vehicles -> Elements \cup {None}]
    BY <1>1, <1>7, <1>8
  <2>4. m.standing \in [Vehicles -> Nodes \cup {None}] /\ m.yielded \in SUBSET Vehicles
    BY <1>7 DEF LedgerType
  <2>5. QED
    BY <1>7, <2>1, <2>2, <2>3, <2>4 DEF LedgerType
<1>10. Traded(l.owner, m.owner, v)
  BY <1>1, <1>3, <1>7 DEF Traded, FreeFor
<1>11. Consistent(m)
  <2> SUFFICES ASSUME NEW u \in Vehicles
               PROVE  /\ Range(m.held[u]) = OwnedBy(m, u)
                      /\ IsInjective(m.held[u])
    BY DEF Consistent
  <2>1. CASE u = v
    <3>1. OwnedBy(m, v) = OwnedBy(l, v) \cup Range(prefix)
      BY <1>1, <1>3, <1>7 DEF OwnedBy
    <3>2. QED
      BY <1>1, <1>5, <1>6, <1>7, <2>1, <3>1
  <2>2. CASE u # v
    <3>1. OwnedBy(m, u) = OwnedBy(l, u)
      BY <1>1, <1>3, <1>7, <2>2, FloorAssumption DEF OwnedBy, FreeFor
    <3>2. QED
      BY <1>1, <1>7, <2>2, <3>1 DEF Consistent
  <2>3. QED
    BY <2>1, <2>2
<1>12. QED
  BY <1>9, <1>10, <1>11 DEF m

-----------------------------------------------------------------------------
(* release_through, release_all and the yield *)

\* A cut of a list that names its elements once: the two parts name its
\* elements between them, each once, and have nothing in common.
LEMMA CutProperties ==
    ASSUME NEW T, NEW s \in Seq(T), IsInjective(s), NEW cut \in 1 .. Len(s)
    PROVE  /\ SubSeq(s, cut, Len(s)) \in Seq(T)
           /\ IsInjective(SubSeq(s, cut, Len(s)))
           /\ Range(SubSeq(s, cut, Len(s))) = Range(s) \ Range(SubSeq(s, 1, cut - 1))
           /\ Range(SubSeq(s, 1, cut - 1)) \subseteq Range(s)
<1> DEFINE tail == SubSeq(s, cut, Len(s))
           head == SubSeq(s, 1, cut - 1)
           n    == Len(s)
<1>1. n \in Nat /\ DOMAIN s = 1 .. n /\ \A i \in 1 .. n : s[i] \in T
  BY LenProperties, ElementOfSeq
<1>2. /\ tail \in Seq(T) /\ DOMAIN tail = 1 .. (n - cut + 1)
      /\ \A i \in 1 .. (n - cut + 1) : tail[i] = s[cut + i - 1]
  <2>1. \A i \in cut .. n : s[i] \in T
    BY <1>1
  <2>2. /\ tail \in Seq(T) /\ Len(tail) = n - cut + 1
        /\ \A i \in 1 .. (n - cut + 1) : tail[i] = s[cut + i - 1]
    BY <1>1, <2>1, SubSeqProperties
  <2>3. QED
    BY <2>2, LenProperties
<1>3. /\ DOMAIN head = 1 .. (cut - 1)
      /\ \A i \in 1 .. (cut - 1) : head[i] = s[i]
  <2>1. \A i \in 1 .. (cut - 1) : s[i] \in T
    BY <1>1
  <2>2. /\ head \in Seq(T) /\ Len(head) = cut - 1
        /\ \A i \in 1 .. (cut - 1) : head[i] = s[i]
    BY <1>1, <2>1, SubSeqProperties
  <2>3. QED
    BY <2>2, LenProperties
<1> HIDE DEF tail, head, n
<1>4. cut \in 1 .. n
  BY DEF n
<1>5. IsInjective(tail)
  <2> SUFFICES ASSUME NEW i \in 1 .. (n - cut + 1), NEW j \in 1 .. (n - cut + 1),
                      tail[i] = tail[j]
               PROVE  i = j
    BY <1>2 DEF IsInjective
  <2>1. cut + i - 1 \in DOMAIN s /\ cut + j - 1 \in DOMAIN s
        /\ s[cut + i - 1] = s[cut + j - 1]
    BY <1>1, <1>2, <1>4
  <2>2. cut + i - 1 = cut + j - 1
    BY <2>1 DEF IsInjective
  <2>3. QED
    BY <1>1, <1>4, <2>2
<1>6. Range(head) \subseteq Range(s)
  BY <1>1, <1>3, <1>4 DEF Range
<1>7. Range(tail) = Range(s) \ Range(head)
  <2>1. ASSUME NEW e \in Range(tail) PROVE e \in Range(s) \ Range(head)
    <3>1. PICK i \in 1 .. (n - cut + 1) : tail[i] = e
      BY <1>2 DEF Range
    <3>2. cut + i - 1 \in DOMAIN s /\ s[cut + i - 1] = e
      BY <1>1, <1>2, <1>4, <3>1
    <3>3. ASSUME NEW j \in 1 .. (cut - 1) PROVE s[j] # e
      BY <1>1, <1>4, <3>2 DEF IsInjective
    <3>4. QED
      BY <1>3, <3>2, <3>3 DEF Range
  <2>2. ASSUME NEW e \in Range(s) \ Range(head) PROVE e \in Range(tail)
    <3>1. PICK i \in 1 .. n : s[i] = e
      BY <1>1 DEF Range
    <3>2. ~(i < cut)
      BY <1>1, <1>3, <1>4, <3>1 DEF Range
    <3>3. i - cut + 1 \in 1 .. (n - cut + 1) /\ tail[i - cut + 1] = e
      BY <1>1, <1>2, <1>4, <3>1, <3>2
    <3>4. QED
      BY <1>2, <3>3 DEF Range
  <2>3. QED
    BY <2>1, <2>2
<1>8. QED
  BY <1>2, <1>5, <1>6, <1>7 DEF tail, head, n

\* Giving back the elements of S that v owns leaves everybody else's alone.
LEMMA FreedProperties ==
    ASSUME NEW l \in LedgerType, NEW v \in Vehicles, NEW S
    PROVE  /\ Freed(l, v, S) \in [Elements -> Vehicles \cup {None}]
           /\ Traded(l.owner, Freed(l, v, S), v)
           /\ {e \in Elements : Freed(l, v, S)[e] = v} = OwnedBy(l, v) \ S
           /\ \A u \in Vehicles \ {v} :
                {e \in Elements : Freed(l, v, S)[e] = u} = OwnedBy(l, u)
BY FloorAssumption DEF LedgerType, Freed, Traded, OwnedBy

\* A ledger is its five fields ...
LEMMA LedgerRecord ==
    ASSUME NEW l \in LedgerType
    PROVE  l = [owner |-> l.owner, held |-> l.held, waiting |-> l.waiting,
                standing |-> l.standing, yielded |-> l.yielded]
BY DEF LedgerType

\* ... each of its type.
LEMMA LedgerFields ==
    ASSUME NEW l \in LedgerType
    PROVE  /\ l.owner \in [Elements -> Vehicles \cup {None}]
           /\ l.held \in [Vehicles -> Seq(Elements)]
           /\ l.waiting \in [Vehicles -> Elements \cup {None}]
           /\ l.standing \in [Vehicles -> Nodes \cup {None}]
           /\ l.yielded \in SUBSET Vehicles
BY DEF LedgerType

\* ... and fields of the right types make a ledger.
LEMMA LedgerOfFields ==
    ASSUME NEW owner \in [Elements -> Vehicles \cup {None}],
           NEW held \in [Vehicles -> Seq(Elements)],
           NEW waiting \in [Vehicles -> Elements \cup {None}],
           NEW standing \in [Vehicles -> Nodes \cup {None}],
           NEW yielded \in SUBSET Vehicles
    PROVE  [owner |-> owner, held |-> held, waiting |-> waiting,
            standing |-> standing, yielded |-> yielded] \in LedgerType
BY DEF LedgerType

\* A ledger stays consistent when one vehicle's list is replaced by one that
\* names once what the vehicle now owns, and nobody else's floor changes.
LEMMA ReplacedListConsistent ==
    ASSUME NEW l \in LedgerType, Consistent(l), NEW m \in LedgerType,
           NEW v \in Vehicles, NEW list, IsInjective(list),
           m.held = [l.held EXCEPT ![v] = list],
           Range(list) = OwnedBy(m, v),
           \A u \in Vehicles \ {v} : OwnedBy(m, u) = OwnedBy(l, u)
    PROVE  Consistent(m)
<1>1. l.held \in [Vehicles -> Seq(Elements)]
  BY DEF LedgerType
<1>2. ASSUME NEW u \in Vehicles
      PROVE  Range(m.held[u]) = OwnedBy(m, u) /\ IsInjective(m.held[u])
  <2>1. CASE u = v
    BY <1>1, <2>1
  <2>2. CASE u # v
    BY <1>1, <2>2 DEF Consistent
  <2>3. QED
    BY <2>1, <2>2
<1>3. QED
  BY <1>2 DEF Consistent

\* release_through keeps a ledger consistent and gives back only v's floor.
LEMMA ReleaseThroughConsistent ==
    ASSUME NEW l \in LedgerType, Consistent(l), NEW v \in Vehicles, NEW node
    PROVE  /\ ReleaseThrough(l, v, node) \in LedgerType
           /\ Consistent(ReleaseThrough(l, v, node))
           /\ Traded(l.owner, ReleaseThrough(l, v, node).owner, v)
<1> DEFINE held == l.held[v]
           at   == {i \in DOMAIN held : held[i] = node}
           cut  == Min(at)
           gone == Range(SubSeq(held, 1, cut - 1))
           m    == ReleaseThrough(l, v, node)
<1>1. /\ l.held \in [Vehicles -> Seq(Elements)]
      /\ held \in Seq(Elements) /\ IsInjective(held) /\ Range(held) = OwnedBy(l, v)
      /\ DOMAIN held = 1 .. Len(held)
  BY LenProperties DEF LedgerType, Consistent
<1>2. CASE at = {}
  BY <1>2 DEF ReleaseThrough, Traded
<1>3. CASE at # {}
  <2>1. cut \in 1 .. Len(held)
    <3>1. at \in SUBSET Nat
      BY <1>1
    <3> HIDE DEF at
    <3>2. cut \in at
      BY <1>3, <3>1, MinIsLeast
    <3>3. QED
      BY <1>1, <3>2 DEF at
  <2>2. /\ SubSeq(held, cut, Len(held)) \in Seq(Elements)
        /\ IsInjective(SubSeq(held, cut, Len(held)))
        /\ Range(SubSeq(held, cut, Len(held))) = OwnedBy(l, v) \ gone
    <3> HIDE DEF cut, held
    <3>1. QED
      BY <1>1, <2>1, CutProperties
  <2>3. m = [l EXCEPT !.owner = Freed(l, v, gone),
                      !.held = [l.held EXCEPT ![v] = SubSeq(held, cut, Len(held))]]
    BY <1>3 DEF ReleaseThrough
  <2> DEFINE owner == Freed(l, v, gone)
             list  == SubSeq(held, cut, Len(held))
  <2>4. /\ owner \in [Elements -> Vehicles \cup {None}]
        /\ Traded(l.owner, owner, v)
        /\ {e \in Elements : owner[e] = v} = OwnedBy(l, v) \ gone
        /\ \A u \in Vehicles \ {v} : {e \in Elements : owner[e] = u} = OwnedBy(l, u)
    <3> HIDE DEF gone
    <3>1. QED
      BY FreedProperties
  <2>5. l.waiting \in [Vehicles -> Elements \cup {None}]
    BY DEF LedgerType
  <2>6. [l.held EXCEPT ![v] = list] \in [Vehicles -> Seq(Elements)]
    BY <1>1, <2>2
  <2> HIDE DEF m, gone, cut, at, held, owner
  <2>7. /\ m \in LedgerType
        /\ m.owner = owner /\ m.held = [l.held EXCEPT ![v] = list]
    <3> DEFINE lists == [l.held EXCEPT ![v] = list]
    <3>1. l = [owner |-> l.owner, held |-> l.held, waiting |-> l.waiting,
               standing |-> l.standing, yielded |-> l.yielded]
      BY LedgerRecord
    <3>2. m = [owner |-> owner, held |-> lists, waiting |-> l.waiting,
               standing |-> l.standing, yielded |-> l.yielded]
      <4>1. m = [l EXCEPT !.owner = owner, !.held = lists]
        BY <2>3 DEF owner
      <4> HIDE DEF lists
      <4>2. QED
        BY <3>1, <4>1
    <3>3. lists \in [Vehicles -> Seq(Elements)]
      BY <2>6
    <3> HIDE DEF lists
    <3>4. m \in LedgerType
      BY <2>4, <3>2, <3>3, LedgerFields, LedgerOfFields
    <3>5. QED
      BY <3>2, <3>4 DEF lists
  <2>8. Consistent(m)
    <3>1. /\ OwnedBy(m, v) = Range(list)
          /\ \A u \in Vehicles \ {v} : OwnedBy(m, u) = OwnedBy(l, u)
      BY <2>2, <2>4, <2>7 DEF OwnedBy
    <3>2. QED
      BY <2>2, <2>7, <3>1, ReplacedListConsistent
  <2>9. QED
    BY <2>4, <2>7, <2>8 DEF m
<1>4. QED
  BY <1>2, <1>3

\* release_all keeps a ledger consistent; v keeps at most the node named, and
\* waits for nothing.
LEMMA ReleaseAllConsistent ==
    ASSUME NEW l \in LedgerType, Consistent(l), NEW v \in Vehicles,
           NEW keep \in Nodes \cup {None}
    PROVE  /\ ReleaseAll(l, v, keep) \in LedgerType
           /\ Consistent(ReleaseAll(l, v, keep))
           /\ Traded(l.owner, ReleaseAll(l, v, keep).owner, v)
           /\ Range(ReleaseAll(l, v, keep).held[v]) \subseteq {keep}
           /\ ReleaseAll(l, v, keep).waiting[v] = None
<1> DEFINE m       == ReleaseAll(l, v, keep)
           freed   == Freed(l, v, Range(l.held[v]))
           retaken == keep # None /\ freed[keep] = None
           owner   == IF retaken THEN [freed EXCEPT ![keep] = v] ELSE freed
           list    == IF retaken THEN <<keep>> ELSE << >>
           held    == [l.held EXCEPT ![v] = list]
           waiting == [l.waiting EXCEPT ![v] = None]
<1>1. m = [l EXCEPT !.owner = owner, !.held = held, !.waiting = waiting]
  BY DEF ReleaseAll
<1>2. /\ freed \in [Elements -> Vehicles \cup {None}]
      /\ Traded(l.owner, freed, v)
      /\ \A e \in Elements : freed[e] # v
      /\ \A u \in Vehicles \ {v} : {e \in Elements : freed[e] = u} = OwnedBy(l, u)
  <2>1. Range(l.held[v]) = OwnedBy(l, v)
    BY DEF Consistent
  <2>2. QED
    BY <2>1, FreedProperties
<1>3. keep # None => keep \in Elements
  BY DEF Elements
<1> HIDE DEF freed
<1>4. /\ owner \in [Elements -> Vehicles \cup {None}]
      /\ {e \in Elements : owner[e] = v} = Range(list)
      /\ \A u \in Vehicles \ {v} : {e \in Elements : owner[e] = u} = OwnedBy(l, u)
  <2>1. CASE retaken
    <3>1. owner = [freed EXCEPT ![keep] = v] /\ list = <<keep>> /\ keep \in Elements
      BY <1>3, <2>1
    <3>2. Range(<<keep>>) = {keep}
      BY DEF Range
    <3>3. \A e \in Elements : owner[e] = IF e = keep THEN v ELSE freed[e]
      BY <1>2, <3>1
    <3>4. \A u \in Vehicles \ {v} : {e \in Elements : owner[e] = u} = {e \in Elements : freed[e] = u}
      BY <2>1, <3>3, FloorAssumption
    <3>5. {e \in Elements : owner[e] = v} = {keep}
      BY <1>2, <3>1, <3>3
    <3>6. owner \in [Elements -> Vehicles \cup {None}]
      BY <1>2, <3>1
    <3>7. QED
      BY <1>2, <3>1, <3>2, <3>4, <3>5, <3>6
  <2>2. CASE ~retaken
    <3>1. owner = freed /\ list = << >> /\ Range(<< >>) = {}
      BY <2>2 DEF Range
    <3>2. QED
      BY <1>2, <3>1
  <2>3. QED
    BY <2>1, <2>2
<1>5. Traded(l.owner, owner, v)
  <2>1. ASSUME NEW e \in Elements, owner[e] # l.owner[e]
        PROVE  \/ l.owner[e] = v /\ owner[e] = None
               \/ l.owner[e] = None /\ owner[e] = v
    BY <1>2, <1>3, <2>1, FloorAssumption DEF Traded
  <2>2. QED
    BY <2>1 DEF Traded
<1>6. list \in Seq(Elements) /\ IsInjective(list) /\ Range(list) \subseteq {keep}
  BY <1>3 DEF IsInjective, Range
<1>7. /\ held \in [Vehicles -> Seq(Elements)]
      /\ waiting \in [Vehicles -> Elements \cup {None}]
      /\ held[v] = list /\ waiting[v] = None
  BY <1>6 DEF LedgerType
<1> HIDE DEF m, owner, list, waiting
<1>8. m \in LedgerType /\ m.owner = owner /\ m.held = held /\ m.waiting = waiting
  <2>1. l = [owner |-> l.owner, held |-> l.held, waiting |-> l.waiting,
             standing |-> l.standing, yielded |-> l.yielded]
    BY LedgerRecord
  <2> HIDE DEF held
  <2>2. m = [owner |-> owner, held |-> held, waiting |-> waiting,
             standing |-> l.standing, yielded |-> l.yielded]
    BY <1>1, <2>1
  <2>3. m \in LedgerType
    BY <1>4, <1>7, <2>2, LedgerFields, LedgerOfFields
  <2>4. QED
    BY <2>2, <2>3
<1>9. Consistent(m)
  <2>1. /\ OwnedBy(m, v) = Range(list)
        /\ \A u \in Vehicles \ {v} : OwnedBy(m, u) = OwnedBy(l, u)
    BY <1>4, <1>8 DEF OwnedBy
  <2>2. QED
    BY <1>6, <1>8, <2>1, ReplacedListConsistent
<1>10. QED
  BY <1>5, <1>6, <1>7, <1>8, <1>9 DEF m

\* The calls that move no floor keep a ledger consistent.
LEMMA BookkeepingConsistent ==
    ASSUME NEW l \in LedgerType, Consistent(l), NEW m \in LedgerType,
           m.owner = l.owner, m.held = l.held
    PROVE  Consistent(m)
BY DEF Consistent, OwnedBy

LEMMA SetStandingConsistent ==
    ASSUME NEW l \in LedgerType, Consistent(l), NEW v \in Vehicles, NEW node \in Nodes,
           NEW m, m = SetStanding(l, v, node)
    PROVE  m \in LedgerType /\ Consistent(m) /\ m.owner = l.owner /\ m.held = l.held
<1> DEFINE standing == [l.standing EXCEPT ![v] = node]
<1>1. m = [owner |-> l.owner, held |-> l.held, waiting |-> l.waiting,
           standing |-> standing, yielded |-> l.yielded]
  <2>1. l = [owner |-> l.owner, held |-> l.held, waiting |-> l.waiting,
             standing |-> l.standing, yielded |-> l.yielded]
    BY LedgerRecord
  <2>2. m = [l EXCEPT !.standing = standing]
    BY DEF SetStanding
  <2> HIDE DEF standing
  <2>3. QED
    BY <2>1, <2>2
<1>2. standing \in [Vehicles -> Nodes \cup {None}]
  BY LedgerFields
<1> HIDE DEF standing
<1>3. m \in LedgerType
  BY <1>1, <1>2 DEF LedgerType
<1>4. m.owner = l.owner /\ m.held = l.held
  BY <1>1
<1>5. QED
  BY <1>3, <1>4, BookkeepingConsistent

LEMMA ClearYieldConsistent ==
    ASSUME NEW l \in LedgerType, Consistent(l), NEW v \in Vehicles,
           NEW m, m = ClearYield(l, v)
    PROVE  m \in LedgerType /\ Consistent(m) /\ m.owner = l.owner /\ m.held = l.held
<1> DEFINE yielded == l.yielded \ {v}
<1>1. m = [owner |-> l.owner, held |-> l.held, waiting |-> l.waiting,
           standing |-> l.standing, yielded |-> yielded]
  <2>1. l = [owner |-> l.owner, held |-> l.held, waiting |-> l.waiting,
             standing |-> l.standing, yielded |-> l.yielded]
    BY LedgerRecord
  <2>2. m = [l EXCEPT !.yielded = yielded]
    BY DEF ClearYield
  <2> HIDE DEF yielded
  <2>3. QED
    BY <2>1, <2>2
<1>2. yielded \in SUBSET Vehicles
  BY LedgerFields
<1> HIDE DEF yielded
<1>3. m \in LedgerType
  BY <1>1, <1>2 DEF LedgerType
<1>4. m.owner = l.owner /\ m.held = l.held
  BY <1>1
<1>5. QED
  BY <1>3, <1>4, BookkeepingConsistent

LEMMA ClearWaitConsistent ==
    ASSUME NEW l \in LedgerType, Consistent(l), NEW v \in Vehicles,
           NEW m, m = ClearWait(l, v)
    PROVE  m \in LedgerType /\ Consistent(m) /\ m.owner = l.owner /\ m.held = l.held
<1> DEFINE waiting == [l.waiting EXCEPT ![v] = None]
<1>1. m = [owner |-> l.owner, held |-> l.held, waiting |-> waiting,
           standing |-> l.standing, yielded |-> l.yielded]
  <2>1. l = [owner |-> l.owner, held |-> l.held, waiting |-> l.waiting,
             standing |-> l.standing, yielded |-> l.yielded]
    BY LedgerRecord
  <2>2. m = [l EXCEPT !.waiting = waiting]
    BY DEF ClearWait
  <2> HIDE DEF waiting
  <2>3. QED
    BY <2>1, <2>2
<1>2. waiting \in [Vehicles -> Elements \cup {None}]
  BY LedgerFields
<1> HIDE DEF waiting
<1>3. m \in LedgerType
  BY <1>1, <1>2 DEF LedgerType
<1>4. m.owner = l.owner /\ m.held = l.held
  BY <1>1
<1>5. QED
  BY <1>3, <1>4, BookkeepingConsistent

\* The yield of wait-die keeps a ledger consistent and leaves the loser with
\* at most the node its truck stands on.
LEMMA YieldConsistent ==
    ASSUME NEW l \in LedgerType, Consistent(l), NEW v \in Vehicles
    PROVE  /\ Yield(l, v) \in LedgerType
           /\ Consistent(Yield(l, v))
           /\ Traded(l.owner, Yield(l, v).owner, v)
           /\ Range(Yield(l, v).held[v]) \subseteq {l.standing[v]}
<1> DEFINE m       == ReleaseAll(l, v, l.standing[v])
           yielded == m.yielded \cup {v}
<1>1. l.standing[v] \in Nodes \cup {None}
  BY LedgerFields
<1>2. /\ m \in LedgerType /\ Consistent(m) /\ Traded(l.owner, m.owner, v)
      /\ Range(m.held[v]) \subseteq {l.standing[v]}
  BY <1>1, ReleaseAllConsistent
<1>3. Yield(l, v) = [m EXCEPT !.yielded = yielded]
  BY DEF Yield
<1> HIDE DEF m
<1>4. Yield(l, v) = [owner |-> m.owner, held |-> m.held, waiting |-> m.waiting,
                     standing |-> m.standing, yielded |-> yielded]
  <2>1. m = [owner |-> m.owner, held |-> m.held, waiting |-> m.waiting,
             standing |-> m.standing, yielded |-> m.yielded]
    BY <1>2, LedgerRecord
  <2> HIDE DEF yielded
  <2>2. QED
    BY <1>3, <2>1
<1>5. yielded \in SUBSET Vehicles
  BY <1>2, LedgerFields
<1> HIDE DEF yielded
<1>6. /\ Yield(l, v) \in LedgerType
      /\ Yield(l, v).owner = m.owner /\ Yield(l, v).held = m.held
  BY <1>2, <1>4, <1>5 DEF LedgerType
<1>7. Consistent(Yield(l, v))
  BY <1>2, <1>6, BookkeepingConsistent
<1>8. QED
  BY <1>2, <1>6, <1>7

-----------------------------------------------------------------------------
(* Wait-die always has somebody to pick. *)

\* A function into the naturals has a greatest value on a finite set.
LEMMA GreatestOnFiniteSet ==
    ASSUME NEW S, IsFiniteSet(S), S # {}, NEW f \in [S -> Nat]
    PROVE  \E x \in S : \A y \in S : f[y] <= f[x]
<1>1. Cardinality(S) \in Nat /\ ExistsBijection(1 .. Cardinality(S), S)
  BY FS_CardinalityType
<1>2. PICK g \in Bijection(1 .. Cardinality(S), S) : TRUE
  BY <1>1 DEF ExistsBijection
<1> DEFINE n      == Cardinality(S)
           top(k) == \E x \in S : \A i \in 1 .. k : f[g[i]] <= f[x]
           bad    == {k \in 0 .. n : ~top(k)}
<1>3. n \in Nat /\ \A i \in 1 .. n : g[i] \in S /\ f[g[i]] \in Nat
  BY <1>1, <1>2, Fun_BijectionProperties
<1>4. \A y \in S : \E i \in 1 .. n : g[i] = y
  BY DEF Bijection, Surjection
<1> HIDE DEF n
<1>5. bad = {}
  <2>1. SUFFICES ASSUME bad # {} PROVE FALSE
    OBVIOUS
  <2>2. bad \in SUBSET Nat
    BY <1>3
  <2>3. Min(bad) \in bad /\ \A k \in bad : Min(bad) <= k
    <3> HIDE DEF bad
    <3>1. QED
      BY <2>1, <2>2, MinIsLeast
  <2>4. PICK m \in 0 .. n : ~top(m) /\ \A k \in 0 .. n : ~top(k) => m <= k
    BY <2>3
  <2>5. m # 0
    <3>1. PICK s \in S : TRUE
      OBVIOUS
    <3>2. \A i \in 1 .. 0 : f[g[i]] <= f[s]
      OBVIOUS
    <3>3. QED
      BY <2>4, <3>1, <3>2
  <2>6. m \in Nat /\ m - 1 \in 0 .. n /\ m \in 1 .. n /\ ~(m <= m - 1)
    BY <1>3, <2>5
  <2>7. PICK x \in S : \A i \in 1 .. m - 1 : f[g[i]] <= f[x]
    BY <2>4, <2>6
  <2>8. \A i \in 1 .. m : i \in 1 .. m - 1 \/ i = m
    BY <2>6
  <2>9. g[m] \in S /\ f[g[m]] \in Nat /\ f[x] \in Nat
    BY <1>3, <2>6
  <2>10. CASE f[g[m]] <= f[x]
    BY <2>4, <2>7, <2>8, <2>10
  <2>11. CASE f[x] < f[g[m]]
    <3>1. \A i \in 1 .. m - 1 : f[g[i]] \in Nat
      BY <1>3, <2>6
    <3>2. \A i \in 1 .. m : f[g[i]] <= f[g[m]]
      BY <2>7, <2>8, <2>9, <2>11, <3>1
    <3>3. QED
      BY <2>4, <2>9, <3>2
  <2>12. QED
    BY <2>9, <2>10, <2>11
<1>6. top(n)
  <2>1. \A k \in 0 .. n : k \notin bad
    BY <1>5
  <2>2. n \in 0 .. n
    BY <1>3
  <2> HIDE DEF top
  <2>3. QED
    BY <2>1, <2>2
<1>7. QED
  BY <1>4, <1>6

\* The loser of a cycle is one of its vehicles, one with the latest submit time.
LEMMA LoserInCycle ==
    ASSUME NEW cycle \in SUBSET Vehicles, cycle # {},
           NEW ages, \A v \in DOMAIN ages : ages[v] \in Nat
    PROVE  /\ Youngest(ages, cycle) \in Latest(ages, cycle)
           /\ Latest(ages, cycle) \subseteq cycle
<1> DEFINE latest == Latest(ages, cycle)
           tasked == {u \in cycle : \A v \in cycle : ages[v] <= ages[u]}
           since  == [v \in cycle |-> ages[v]]
           order  == [v \in latest |-> Serial[v]]
<1>1. IsFiniteSet(cycle)
  BY FloorAssumption, FS_Subset
<1>2. latest \subseteq cycle /\ latest # {}
  <2>1. CASE cycle \ DOMAIN ages # {}
    BY <2>1 DEF Latest
  <2>2. CASE cycle \ DOMAIN ages = {}
    <3>1. since \in [cycle -> Nat]
      BY <2>2
    <3> HIDE DEF since
    <3>2. \E u \in cycle : \A v \in cycle : since[v] <= since[u]
      BY <1>1, <3>1, GreatestOnFiniteSet
    <3> USE DEF since
    <3>3. tasked # {} /\ latest = tasked
      BY <2>2, <3>2 DEF Latest
    <3>4. QED
      BY <3>3
  <2>3. QED
    BY <2>1, <2>2
<1>3. \E u \in latest : \A v \in latest : Serial[v] <= Serial[u]
  <2>1. order \in [latest -> Nat]
    BY <1>2, FloorAssumption
  <2>2. IsFiniteSet(latest)
    BY <1>1, <1>2, FS_Subset
  <2> HIDE DEF order, latest
  <2>3. \E u \in latest : \A v \in latest : order[v] <= order[u]
    BY <1>2, <2>1, <2>2, GreatestOnFiniteSet
  <2>4. QED
    BY <2>3 DEF order
<1>4. QED
  BY <1>2, <1>3 DEF Youngest

\* Whom find_cycle names are vehicles.
LEMMA CycleOfVehicles ==
    ASSUME NEW l \in LedgerType
    PROVE  FindCycle(l) \in SUBSET Vehicles
<1>1. \A v \in Vehicles : {u \in Range(Walk(l, v)) : OnCycle(l, u)} \subseteq Vehicles
  BY DEF OnCycle, WaitFor
<1>2. DOMAIN WaitFor(l) \subseteq Vehicles
  BY DEF WaitFor
<1>3. QED
  BY <1>1, <1>2 DEF FindCycle, OnCycle

-----------------------------------------------------------------------------
(* The floor of a path. *)

\* The element list of a simple path names floor, and no piece of it twice.
LEMMA RouteElementsOfPath ==
    ASSUME NEW n \in Nat \ {0}, NEW p \in [1 .. n -> Nodes], IsInjective(p),
           \A i \in 1 .. n - 1 : Edge(p[i], p[i + 1]) \in Links
    PROVE  RouteElements(p) \in Seq(Elements) /\ IsInjective(RouteElements(p))
<1> DEFINE r       == RouteElements(p)
           node(i) == i \in 1 .. (2 * n - 1) /\ i % 2 = 1
           half(i) == (i + 1) \div 2
           low(i)  == i \div 2
<1>1. p \in Seq(Nodes) /\ Len(p) = n /\ DOMAIN p = 1 .. n
  <2>1. n \in Nat
    OBVIOUS
  <2>2. p \in Seq(Nodes)
    BY <2>1, SeqDef
  <2>3. QED
    BY <2>1, <2>2, LenProperties
<1>2. ASSUME NEW i \in 1 .. (2 * n - 1), i % 2 = 1
      PROVE  half(i) \in 1 .. n /\ i = 2 * half(i) - 1
  BY <1>2
<1>3. ASSUME NEW i \in 1 .. (2 * n - 1), i % 2 # 1
      PROVE  low(i) \in 1 .. n - 1 /\ i = 2 * low(i) /\ low(i) \in 1 .. n /\ low(i) + 1 \in 1 .. n
  BY <1>3
<1>4. r = [i \in 1 .. (2 * n - 1) |->
             IF i % 2 = 1 THEN p[half(i)] ELSE Edge(p[low(i)], p[low(i) + 1])]
  BY <1>1 DEF RouteElements
<1> HIDE DEF r, half, low
<1>5. \A i \in 1 .. (2 * n - 1) :
        /\ i % 2 = 1 => r[i] = p[half(i)] /\ r[i] \in Nodes
        /\ i % 2 # 1 => r[i] = Edge(p[low(i)], p[low(i) + 1]) /\ r[i] \in Links
  BY <1>2, <1>3, <1>4
<1>6. DOMAIN r = 1 .. (2 * n - 1) /\ r \in [1 .. (2 * n - 1) -> Elements]
  BY <1>4, <1>5 DEF Elements
<1>7. r \in Seq(Elements)
  <2>1. 2 * n - 1 \in Nat
    OBVIOUS
  <2>2. QED
    BY <1>6, <2>1, SeqDef
<1>8. \A a, b \in 1 .. n : p[a] = p[b] => a = b
  BY <1>1 DEF IsInjective
<1>9. ASSUME NEW i \in 1 .. (2 * n - 1), NEW j \in 1 .. (2 * n - 1), r[i] = r[j]
      PROVE  i = j
  <2>1. CASE i % 2 = 1 /\ j % 2 = 1
    <3>1. p[half(i)] = p[half(j)]
      BY <1>5, <1>9, <2>1
    <3>2. half(i) = half(j)
      BY <1>2, <1>8, <2>1, <3>1
    <3>3. QED
      BY <1>2, <2>1, <3>2
  <2>2. CASE i % 2 # 1 /\ j % 2 # 1
    <3>1. /\ low(i) \in 1 .. n /\ low(i) + 1 \in 1 .. n /\ i = 2 * low(i)
          /\ low(j) \in 1 .. n /\ low(j) + 1 \in 1 .. n /\ j = 2 * low(j)
      BY <1>3, <2>2
    <3>2. {p[low(i)], p[low(i) + 1]} = {p[low(j)], p[low(j) + 1]}
      BY <1>5, <1>9, <2>2 DEF Edge
    <3>3. \/ p[low(i)] = p[low(j)]
          \/ p[low(i)] = p[low(j) + 1] /\ p[low(i) + 1] = p[low(j)]
      BY <3>2
    <3>4. \/ low(i) = low(j)
          \/ low(i) = low(j) + 1 /\ low(i) + 1 = low(j)
      BY <1>8, <3>1, <3>3
    <3>5. QED
      BY <3>1, <3>4
  <2>3. CASE ~(i % 2 = 1 <=> j % 2 = 1)
    BY <1>5, <1>9, <2>3, FloorAssumption
  <2>4. QED
    BY <2>1, <2>2, <2>3
<1>10. QED
  BY <1>6, <1>7, <1>9 DEF IsInjective, r
=============================================================================
