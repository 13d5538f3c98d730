---------------------------- MODULE FleetProofs -----------------------------
(***************************************************************************)
(* Theorems about the fleet: manager, trucks and the wire between them,    *)
(* for every route graph, any number of trucks and tasks, any number of    *)
(* messages under way, lost or late.  The invariant is FleetInv            *)
(* (FloorProofs); a uuid is taken to be new whatever has been used         *)
(* (UuidsNeverRunOut).                                                     *)
(***************************************************************************)
EXTENDS FloorProofs

USE DEF Trucks

-----------------------------------------------------------------------------
(* Loops of the manager: folds of a list. *)

\* The last of the first k indices.
LEMMA LastIndex ==
    ASSUME NEW k \in Nat, k # 0
    PROVE  Max(1 .. k) = k /\ (1 .. k) \ {k} = 1 .. k - 1 /\ 1 .. k # {}
<1>1. k \in 1 .. k /\ \A x \in 1 .. k : x \in Int /\ k >= x
  OBVIOUS
<1>2. \A x \in 1 .. k : (\A y \in 1 .. k : x >= y) => x = k
  BY <1>1
<1>3. Max(1 .. k) = k
  BY <1>1, <1>2 DEF Max
<1>4. (1 .. k) \ {k} = 1 .. k - 1
  OBVIOUS
<1>5. QED
  BY <1>1, <1>3, <1>4

\* What a fold of the function h says of every set of the first n indices of q.
Folding(f, h, a, q, n) ==
    \A s \in SUBSET (1 .. n) :
        f[s] = IF s = {} THEN a ELSE h[<<f[s \ {Max(s)}], q[Max(s)]>>]

LEMMA FoldExists ==
    ASSUME NEW S, NEW X, NEW h \in [S \X X -> S], NEW a \in S, NEW n \in Nat,
           NEW q \in [1 .. n -> X]
    PROVE  \E f \in [SUBSET (1 .. n) -> S] : Folding(f, h, a, q, n)
<1> DEFINE does(m) == \E f \in [SUBSET (1 .. m) -> S] : Folding(f, h, a, q, m)
           bad     == {m \in 0 .. n : ~does(m)}
<1>1. does(0)
  <2> DEFINE f == [s \in SUBSET (1 .. 0) |-> a]
  <2>1. 1 .. 0 = {}
    OBVIOUS
  <2>2. f \in [SUBSET (1 .. 0) -> S] /\ \A s \in SUBSET (1 .. 0) : s = {} /\ f[s] = a
    BY <2>1
  <2> HIDE DEF f
  <2>3. Folding(f, h, a, q, 0)
    BY <2>2 DEF Folding
  <2>4. QED
    BY <2>2, <2>3
<1>2. ASSUME NEW m \in 1 .. n, does(m - 1) PROVE does(m)
  <2>1. PICK f \in [SUBSET (1 .. m - 1) -> S] : Folding(f, h, a, q, m - 1)
    BY <1>2
  <2> DEFINE g == [s \in SUBSET (1 .. m) |-> IF m \in s THEN h[<<f[s \ {m}], q[m]>>] ELSE f[s]]
  <2>2. \A s \in SUBSET (1 .. m) : s \ {m} \in SUBSET (1 .. m - 1)
    OBVIOUS
  <2>3. g \in [SUBSET (1 .. m) -> S]
    <3>1. ASSUME NEW s \in SUBSET (1 .. m) PROVE g[s] \in S
      <4>1. f[s \ {m}] \in S /\ q[m] \in X
        BY <2>2
      <4>2. h[<<f[s \ {m}], q[m]>>] \in S
        BY <4>1
      <4>3. m \notin s => f[s] \in S
        BY <2>2
      <4>4. QED
        BY <4>2, <4>3
    <3>2. QED
      BY <3>1
  <2>4. ASSUME NEW s \in SUBSET (1 .. m)
        PROVE  g[s] = IF s = {} THEN a ELSE h[<<g[s \ {Max(s)}], q[Max(s)]>>]
    <3>1. s \ {m} \in SUBSET (1 .. m - 1)
      BY <2>2
    <3>2. CASE m \in s
      <4>1. \A x \in s : x \in Int /\ m >= x
        OBVIOUS
      <4>2. Max(s) = m
        <5>1. \A x \in s : (\A y \in s : x >= y) => x = m
          BY <3>2, <4>1
        <5>2. QED
          BY <3>2, <4>1, <5>1 DEF Max
      <4>3. g[s \ {m}] = f[s \ {m}]
        BY <3>1
      <4>4. QED
        BY <3>2, <4>2, <4>3
    <3>3. CASE m \notin s
      <4>1. s \in SUBSET (1 .. m - 1) /\ s \ {Max(s)} \in SUBSET (1 .. m - 1)
        BY <3>1, <3>3
      <4>2. f[s] = IF s = {} THEN a ELSE h[<<f[s \ {Max(s)}], q[Max(s)]>>]
        BY <2>1, <4>1 DEF Folding
      <4>3. g[s] = f[s] /\ g[s \ {Max(s)}] = f[s \ {Max(s)}]
        BY <3>3, <4>1
      <4>4. QED
        BY <4>2, <4>3
    <3>4. QED
      BY <3>2, <3>3
  <2> HIDE DEF g
  <2>5. Folding(g, h, a, q, m)
    BY <2>4 DEF Folding
  <2>6. QED
    BY <2>3, <2>5
<1> HIDE DEF does
<1>3. bad = {}
  <2>1. SUFFICES ASSUME bad # {} PROVE FALSE
    OBVIOUS
  <2>2. Min(bad) \in bad /\ \A k \in bad : Min(bad) <= k
    <3>1. bad \in SUBSET Nat
      OBVIOUS
    <3> HIDE DEF bad
    <3>2. QED
      BY <2>1, <3>1, MinIsLeast
  <2>3. Min(bad) # 0 /\ Min(bad) \in 1 .. n /\ ~does(Min(bad))
    BY <1>1, <2>2
  <2>4. Min(bad) - 1 \in 0 .. n /\ ~(Min(bad) <= Min(bad) - 1)
    BY <2>3
  <2>5. does(Min(bad) - 1)
    BY <2>2, <2>4
  <2>6. QED
    BY <1>2, <2>3, <2>5
<1>4. does(n)
  BY <1>3
<1>5. QED
  BY <1>4 DEF does

\* What holds at first and is handed on from each index to the next holds at last.
LEMMA FoldReaches ==
    ASSUME NEW n \in Nat, NEW F, NEW S, F[{}] \in S,
           \A i \in 1 .. n : F[1 .. i - 1] \in S => F[1 .. i] \in S
    PROVE  F[1 .. n] \in S
<1> DEFINE bad == {k \in 0 .. n : F[1 .. k] \notin S}
<1>1. SUFFICES ASSUME bad # {} PROVE FALSE
  OBVIOUS
<1>2. Min(bad) \in bad /\ \A k \in bad : Min(bad) <= k
  <2>1. bad \in SUBSET Nat
    OBVIOUS
  <2> HIDE DEF bad
  <2>2. QED
    BY <1>1, <2>1, MinIsLeast
<1>3. Min(bad) # 0
  <2>1. 1 .. 0 = {}
    OBVIOUS
  <2>2. 0 \notin bad
    BY <2>1
  <2>3. QED
    BY <1>2, <2>2
<1>4. Min(bad) \in 1 .. n /\ Min(bad) - 1 \in 0 .. n /\ ~(Min(bad) <= Min(bad) - 1)
  BY <1>2, <1>3
<1>5. F[1 .. Min(bad) - 1] \in S /\ F[1 .. Min(bad)] \notin S
  BY <1>2, <1>4
<1>6. QED
  BY <1>4, <1>5

\* A set of indices that is not empty has a last one.
LEMMA LastOf ==
    ASSUME NEW n \in Nat, NEW s \in SUBSET (1 .. n), s # {}
    PROVE  Max(s) \in 1 .. n /\ s \ {Max(s)} \in SUBSET (1 .. n)
<1>1. s \in SUBSET (0 .. n)
  OBVIOUS
<1>2. Max(s) \in s
  BY <1>1, MaxIsGreatest
<1>3. QED
  BY <1>2

-----------------------------------------------------------------------------
(* The order in which they go. *)

Ascending(q, key) == \A i, j \in DOMAIN q : i < j => key[q[i]] < key[q[j]]

LEMMA AscendingExists ==
    ASSUME NEW S, IsFiniteSet(S), NEW key, \A x \in S : key[x] \in Nat,
           \A x, y \in S : key[x] = key[y] => x = y
    PROVE  \E q \in [1 .. Cardinality(S) -> S] : Ascending(q, key)
<1> DEFINE n       == Cardinality(S)
           does(m) == \A T \in SUBSET S : Cardinality(T) = m =>
                          \E q \in [1 .. m -> T] : Ascending(q, key)
           bad     == {m \in 0 .. n : ~does(m)}
<1>1. n \in Nat
  BY FS_CardinalityType
<1>2. does(0)
  <2>1. SUFFICES ASSUME NEW T \in SUBSET S, Cardinality(T) = 0
                 PROVE  \E q \in [1 .. 0 -> T] : Ascending(q, key)
    OBVIOUS
  <2>2. 1 .. 0 = {}
    OBVIOUS
  <2> DEFINE q == [i \in 1 .. 0 |-> i]
  <2>3. q \in [1 .. 0 -> T] /\ DOMAIN q = {}
    BY <2>2
  <2> HIDE DEF q
  <2>4. Ascending(q, key)
    BY <2>3 DEF Ascending
  <2>5. QED
    BY <2>3, <2>4
<1>3. ASSUME NEW m \in 1 .. n, does(m - 1) PROVE does(m)
  <2>1. SUFFICES ASSUME NEW T \in SUBSET S, Cardinality(T) = m
                 PROVE  \E q \in [1 .. m -> T] : Ascending(q, key)
    OBVIOUS
  <2>2. IsFiniteSet(T) /\ T # {}
    <3>1. IsFiniteSet(T)
      BY FS_Subset
    <3>2. Cardinality({}) = 0 /\ m # 0
      BY <1>1, FS_EmptySet
    <3>3. QED
      BY <2>1, <3>1, <3>2
  <2> DEFINE f == [x \in T |-> key[x]]
  <2>3. PICK x \in T : \A y \in T : f[y] <= f[x]
    <3>1. f \in [T -> Nat]
      OBVIOUS
    <3> HIDE DEF f
    <3>2. QED
      BY <2>2, <3>1, GreatestOnFiniteSet
  <2>4. \A y \in T \ {x} : key[y] < key[x]
    BY <2>3
  <2> DEFINE R == T \ {x}
  <2>5. R \in SUBSET S /\ Cardinality(R) = m - 1
    BY <2>1, <2>2, FS_RemoveElement
  <2> HIDE DEF R
  <2>6. PICK p \in [1 .. m - 1 -> R] : Ascending(p, key)
    BY <1>3, <2>5
  <2> DEFINE q == [i \in 1 .. m |-> IF i = m THEN x ELSE p[i]]
  <2>7. \A i \in 1 .. m : i = m \/ i \in 1 .. m - 1
    BY <1>1
  <2>8. q \in [1 .. m -> T]
    BY <2>6, <2>7 DEF R
  <2>9. ASSUME NEW i \in 1 .. m, NEW j \in 1 .. m, i < j PROVE key[q[i]] < key[q[j]]
    <3>1. i \in 1 .. m - 1 /\ i # m /\ q[i] = p[i] /\ p[i] \in T \ {x}
      BY <2>6, <2>9 DEF R
    <3>2. CASE j = m
      BY <2>4, <3>1, <3>2
    <3>3. CASE j # m
      <4>1. j \in 1 .. m - 1 /\ q[j] = p[j]
        BY <2>7, <3>3
      <4>2. DOMAIN p = 1 .. m - 1
        BY <2>6
      <4>3. QED
        BY <2>6, <2>9, <3>1, <4>1, <4>2 DEF Ascending
    <3>4. QED
      BY <3>2, <3>3
  <2>10. DOMAIN q = 1 .. m
    OBVIOUS
  <2> HIDE DEF q
  <2>11. Ascending(q, key)
    BY <2>9, <2>10 DEF Ascending
  <2>12. QED
    BY <2>8, <2>11
<1> HIDE DEF does, n
<1>4. bad = {}
  <2>1. SUFFICES ASSUME bad # {} PROVE FALSE
    OBVIOUS
  <2>2. Min(bad) \in bad /\ \A k \in bad : Min(bad) <= k
    <3>1. bad \in SUBSET Nat
      BY <1>1
    <3> HIDE DEF bad
    <3>2. QED
      BY <2>1, <3>1, MinIsLeast
  <2>3. Min(bad) # 0 /\ Min(bad) \in 1 .. n /\ ~does(Min(bad))
    BY <1>1, <1>2, <2>2
  <2>4. Min(bad) - 1 \in 0 .. n /\ ~(Min(bad) <= Min(bad) - 1)
    BY <1>1, <2>3
  <2>5. does(Min(bad) - 1)
    BY <2>2, <2>4
  <2>6. QED
    BY <1>3, <2>3, <2>5
<1>5. does(n)
  BY <1>1, <1>4
<1>6. QED
  BY <1>5 DEF does, n

LEMMA InOrder ==
    ASSUME NEW S, IsFiniteSet(S), NEW key, \A x \in S : key[x] \in Nat,
           \A x, y \in S : key[x] = key[y] => x = y
    PROVE  InOrderOf(key, S) \in [1 .. Cardinality(S) -> S] /\ Cardinality(S) \in Nat
           /\ Ascending(InOrderOf(key, S), key)
<1>1. \E q \in [1 .. Cardinality(S) -> S] : Ascending(q, key)
  BY AscendingExists
<1>2. Cardinality(S) \in Nat
  BY FS_CardinalityType
<1>3. QED
  BY <1>1, <1>2 DEF InOrderOf, Ascending

LEMMA TrucksInOrder ==
    ASSUME NEW S \in SUBSET Trucks
    PROVE  InOrderOf(Serial, S) \in [1 .. Cardinality(S) -> S] /\ Cardinality(S) \in Nat
<1>1. IsFiniteSet(S)
  BY FloorAssumption, FS_Subset
<1>2. \A x, y \in S : Serial[x] \in Nat /\ (Serial[x] = Serial[y] => x = y)
  BY FloorAssumption
<1>3. QED
  BY <1>1, <1>2, InOrder

LEMMA TasksInOrder ==
    ASSUME NEW S \in SUBSET Tasks
    PROVE  InOrderOf(Submit, S) \in [1 .. Cardinality(S) -> S] /\ Cardinality(S) \in Nat
           /\ Ascending(InOrderOf(Submit, S), Submit)
<1>1. IsFiniteSet(S)
  BY FloorConstants, FS_Subset
<1>2. \A x, y \in S : Submit[x] \in Nat /\ (Submit[x] = Submit[y] => x = y)
  BY FloorConstants DEF IsInjective
<1>3. QED
  BY <1>1, <1>2, InOrder

\* A function that folds h wherever what it has so far is in S.
Steps(F, S, h, a, q, n) ==
    /\ F[{}] = a
    /\ \A s \in SUBSET (1 .. n) : s # {} /\ F[s \ {Max(s)}] \in S =>
          F[s] = h[<<F[s \ {Max(s)}], q[Max(s)]>>]

LEMMA FoldStays ==
    ASSUME NEW S, NEW X, NEW h \in [S \X X -> S], NEW a \in S, NEW n \in Nat,
           NEW q \in [1 .. n -> X], NEW F, Steps(F, S, h, a, q, n)
    PROVE  F[1 .. n] \in S
<1>0. /\ F[{}] = a
      /\ \A s \in SUBSET (1 .. n) : s # {} /\ F[s \ {Max(s)}] \in S =>
            F[s] = h[<<F[s \ {Max(s)}], q[Max(s)]>>]
  BY DEF Steps
<1>1. ASSUME NEW i \in 1 .. n, F[1 .. i - 1] \in S PROVE F[1 .. i] \in S
  <2>0. i \in Nat /\ i # 0
    OBVIOUS
  <2>1. Max(1 .. i) = i /\ (1 .. i) \ {i} = 1 .. i - 1 /\ 1 .. i # {}
    BY <2>0, LastIndex
  <2>2. 1 .. i \in SUBSET (1 .. n)
    OBVIOUS
  <2>3. F[1 .. i] = h[<<F[1 .. i - 1], q[i]>>]
    <3> DEFINE x == 1 .. i
    <3>1. Max(x) = i /\ x \ {Max(x)} = 1 .. i - 1 /\ x # {} /\ x \in SUBSET (1 .. n)
      BY <2>1, <2>2
    <3> HIDE DEF x
    <3>2. F[x \ {Max(x)}] \in S
      BY <1>1, <3>1
    <3>3. F[x] = h[<<F[x \ {Max(x)}], q[Max(x)]>>]
      BY <1>0, <3>1, <3>2
    <3>4. QED
      BY <3>1, <3>3 DEF x
  <2>4. q[i] \in X
    OBVIOUS
  <2>5. QED
    BY <1>1, <2>3, <2>4
<1>2. F[{}] \in S
  BY <1>0
<1>3. QED
  BY <1>1, <1>2, FoldReaches

\* The books that are sound.
Safe(on, q, s) == {b \in Books : Sound(b, on, q, s)}

LEMMA SoundIsSafe ==
    ASSUME NEW m, NEW on, NEW q, NEW s
    PROVE  m \in Safe(on, q, s) <=> Sound(m, on, q, s)
BY DEF Safe, Sound, BookOK, Kept

KnowsAll(known, on, q, s) == \A v \in Trucks : Knows(known, on[v], q[v], s[v])

\* The moves out of the way.
Pumped(m, late, known) ==
    FoldLeft(LAMBDA b, v : PumpAside(b, v, late, known), m, InOrderOf(Serial, Trucks))

LEMMA PumpFold ==
    ASSUME UuidsNeverRunOut,
           NEW m, NEW on, NEW q \in [Trucks -> Seq(Message)], NEW s, Sound(m, on, q, s),
           NEW known, KnowsAll(known, on, q, s), NEW late
    PROVE  Sound(Pumped(m, late, known), on, q, s)
<1> DEFINE S == Safe(on, q, s)
           X == Trucks
           p == InOrderOf(Serial, X)
           n == Cardinality(X)
           h == [z \in S \X X |-> PumpAside(z[1], z[2], late, known)]
           Is(f) == f = [x \in SUBSET DOMAIN p |->
                           IF x = {} THEN m
                           ELSE PumpAside(f[x \ {Max(x)}], p[Max(x)], late, known)]
           F == CHOOSE f : Is(f)
<1>1. ASSUME NEW b \in S, NEW v \in X PROVE PumpAside(b, v, late, known) \in S
  <2>1. Sound(b, on, q, s)
    BY SoundIsSafe
  <2>2. BookOK(b) /\ Fine(b, v, on[v], q[v] \o b.sent[v], s[v]) /\ q[v] \in Seq(Message)
        /\ Knows(known, on[v], q[v], s[v])
    BY <2>1 DEF Sound, KnowsAll
  <2>3. Handled(b, PumpAside(b, v, late, known), v, on[v], q[v], s[v])
    BY <2>2, PumpAsideCall
  <2>4. QED
    BY <2>1, <2>3, SoundHandled, SoundIsSafe
<1>2. /\ m \in S /\ n \in Nat /\ p \in [1 .. n -> X] /\ DOMAIN p = 1 .. n
  BY SoundIsSafe, TrucksInOrder
<1> HIDE DEF S, p, n
<1>3. h \in [S \X X -> S] /\ \A b \in S : \A v \in X : h[<<b, v>>] = PumpAside(b, v, late, known)
  BY <1>1
<1> HIDE DEF h
<1>4. PICK f \in [SUBSET (1 .. n) -> S] : Folding(f, h, m, p, n)
  BY <1>2, <1>3, FoldExists, ZenonT(60)
<1>5. Is(f)
  <2>1. ASSUME NEW x \in SUBSET (1 .. n)
        PROVE  f[x] = IF x = {} THEN m
                      ELSE PumpAside(f[x \ {Max(x)}], p[Max(x)], late, known)
    <3>1. CASE x = {}
      BY <1>4, <3>1 DEF Folding
    <3>2. CASE x # {}
      <4>1. Max(x) \in 1 .. n /\ x \ {Max(x)} \in SUBSET (1 .. n)
        BY <1>2, <3>2, LastOf
      <4>2. f[x \ {Max(x)}] \in S /\ p[Max(x)] \in X
        BY <1>2, <1>4, <4>1
      <4>3. f[x] = h[<<f[x \ {Max(x)}], p[Max(x)]>>]
        BY <1>4, <3>2 DEF Folding
      <4>4. QED
        BY <1>3, <3>2, <4>2, <4>3
    <3>3. QED
      BY <3>1, <3>2
  <2>2. QED
    BY <1>2, <1>4, <2>1
<1>6. Is(F)
  BY <1>5
<1> HIDE DEF F
<1>7. \A x \in SUBSET (1 .. n) :
         F[x] = IF x = {} THEN m ELSE PumpAside(F[x \ {Max(x)}], p[Max(x)], late, known)
  BY <1>2, <1>6
<1>8. ASSUME NEW x \in SUBSET (1 .. n), x # {}, F[x \ {Max(x)}] \in S
      PROVE  F[x] = h[<<F[x \ {Max(x)}], p[Max(x)]>>]
  <2>1. p[Max(x)] \in X
    BY <1>2, <1>8, LastOf
  <2>2. QED
    BY <1>3, <1>7, <1>8, <2>1
<1>9. F[{}] = m
  BY <1>7
<1>10. F[1 .. n] \in S
  <2>1. Steps(F, S, h, m, p, n)
    BY <1>8, <1>9 DEF Steps
  <2> HIDE DEF Is, X
  <2>2. h \in [S \X X -> S] /\ m \in S /\ n \in Nat /\ p \in [1 .. n -> X]
    BY <1>2, <1>3
  <2>3. QED
    BY <2>1, <2>2, FoldStays
<1>11. FoldLeft(LAMBDA b, v : PumpAside(b, v, late, known), m, p) = F[1 .. n]
  <2>1. FoldLeft(LAMBDA b, v : PumpAside(b, v, late, known), m, p) =
          (CHOOSE g : g = [x \in SUBSET DOMAIN p |->
                              IF x = {} THEN m
                              ELSE PumpAside(g[x \ {Max(x)}], p[Max(x)], late, known)])[DOMAIN p]
    BY DEF FoldLeft, MapThenFoldSet
  <2>2. QED
    BY <1>2, <2>1 DEF F
<1>12. QED
  BY <1>10, <1>11, SoundIsSafe DEF S, p, Pumped

\* The legs in flight are retried; no retry starts or ends one.
Retried(m) ==
    FoldLeft(LAMBDA b, t : RetryHold(b, t), m, InOrderOf(Submit, InFlight(m)))

LEMMA RetryFold ==
    ASSUME NEW m, NEW on, NEW q \in [Trucks -> Seq(Message)], NEW s, Sound(m, on, q, s)
    PROVE  Sound(Retried(m), on, q, s)
<1> DEFINE S == {k \in Safe(on, q, s) : InFlight(k) = InFlight(m)}
           X == InFlight(m)
           p == InOrderOf(Submit, X)
           n == Cardinality(X)
           h == [z \in S \X X |-> RetryHold(z[1], z[2])]
           Is(f) == f = [x \in SUBSET DOMAIN p |->
                           IF x = {} THEN m
                           ELSE RetryHold(f[x \ {Max(x)}], p[Max(x)])]
           F == CHOOSE f : Is(f)
<1>1. ASSUME NEW b \in S, NEW t \in X PROVE RetryHold(b, t) \in S
  <2>1. Sound(b, on, q, s) /\ InFlight(b) = InFlight(m)
    BY SoundIsSafe
  <2>2. t \in Tasks /\ b.task[t].by # None /\ b.task[t].leg # None
    BY <2>1 DEF InFlight
  <2> DEFINE v == b.task[t].by
  <2>3. BookOK(b)
    BY <2>1 DEF Sound
  <2>4. v \in Trucks
    BY <2>2, <2>3, BookTypes, TaskFields DEF BookOK, Kept
  <2>5. Fine(b, v, on[v], q[v] \o b.sent[v], s[v]) /\ q[v] \in Seq(Message)
    BY <2>1, <2>4 DEF Sound
  <2>6. b.task[t].by = v
    OBVIOUS
  <2> HIDE DEF v
  <2>7. /\ Handled(b, RetryHold(b, t), v, on[v], q[v], s[v])
        /\ InFlight(RetryHold(b, t)) = InFlight(b)
    BY <2>2, <2>3, <2>4, <2>5, <2>6, RetryHoldCall
  <2>8. Sound(RetryHold(b, t), on, q, s)
    BY <2>1, <2>4, <2>7, SoundHandled
  <2>9. QED
    BY <2>1, <2>7, <2>8, SoundIsSafe
<1>2. /\ m \in S /\ n \in Nat /\ p \in [1 .. n -> X] /\ DOMAIN p = 1 .. n
  <2>1. X \in SUBSET Tasks
    BY DEF InFlight
  <2> HIDE DEF X
  <2>2. p \in [1 .. n -> X] /\ n \in Nat
    BY <2>1, TasksInOrder
  <2>3. QED
    BY <2>2, SoundIsSafe DEF X
<1> HIDE DEF S, p, n
<1>3. h \in [S \X X -> S] /\ \A b \in S : \A t \in X : h[<<b, t>>] = RetryHold(b, t)
  BY <1>1
<1> HIDE DEF h
<1>4. PICK f \in [SUBSET (1 .. n) -> S] : Folding(f, h, m, p, n)
  BY <1>2, <1>3, FoldExists
<1>5. Is(f)
  <2>1. ASSUME NEW x \in SUBSET (1 .. n)
        PROVE  f[x] = IF x = {} THEN m
                      ELSE RetryHold(f[x \ {Max(x)}], p[Max(x)])
    <3>1. CASE x = {}
      BY <1>4, <3>1 DEF Folding
    <3>2. CASE x # {}
      <4>1. Max(x) \in 1 .. n /\ x \ {Max(x)} \in SUBSET (1 .. n)
        BY <1>2, <3>2, LastOf
      <4>2. f[x \ {Max(x)}] \in S /\ p[Max(x)] \in X
        BY <1>2, <1>4, <4>1
      <4>3. f[x] = h[<<f[x \ {Max(x)}], p[Max(x)]>>]
        BY <1>4, <3>2 DEF Folding
      <4>4. QED
        BY <1>3, <3>2, <4>2, <4>3
    <3>3. QED
      BY <3>1, <3>2
  <2>2. QED
    BY <1>2, <1>4, <2>1
<1>6. Is(F)
  BY <1>5
<1> HIDE DEF F
<1>7. \A x \in SUBSET (1 .. n) :
         F[x] = IF x = {} THEN m ELSE RetryHold(F[x \ {Max(x)}], p[Max(x)])
  BY <1>2, <1>6
<1>8. ASSUME NEW x \in SUBSET (1 .. n), x # {}, F[x \ {Max(x)}] \in S
      PROVE  F[x] = h[<<F[x \ {Max(x)}], p[Max(x)]>>]
  <2>1. p[Max(x)] \in X
    BY <1>2, <1>8, LastOf
  <2>2. QED
    BY <1>3, <1>7, <1>8, <2>1
<1>9. F[{}] = m
  BY <1>7
<1>10. F[1 .. n] \in S
  <2>1. Steps(F, S, h, m, p, n)
    BY <1>8, <1>9 DEF Steps
  <2> HIDE DEF Is, X
  <2>2. h \in [S \X X -> S] /\ m \in S /\ n \in Nat /\ p \in [1 .. n -> X]
    BY <1>2, <1>3
  <2>3. QED
    BY <2>1, <2>2, FoldStays
<1>11. Retried(m) = F[1 .. n]
  <2>1. Retried(m) =
          (CHOOSE g : g = [x \in SUBSET DOMAIN p |->
                              IF x = {} THEN m
                              ELSE RetryHold(g[x \ {Max(x)}], p[Max(x)])])[DOMAIN p]
    BY DEF FoldLeft, MapThenFoldSet, Retried, p
  <2>2. QED
    BY <1>2, <2>1 DEF F
<1>12. QED
  BY <1>10, <1>11, SoundIsSafe DEF S

\* The turns of the loop that looks for deadlocks.
LEMMA ResolveFold ==
    ASSUME NEW m, NEW on, NEW q \in [Trucks -> Seq(Message)], NEW s, Sound(m, on, q, s), NEW still
    PROVE  Sound(Resolve(m, still), on, q, s)
<1> DEFINE first == [book |-> m, more |-> TRUE]
<1> DEFINE S == [book : Safe(on, q, s), more : BOOLEAN]
           X == 1 .. Cardinality(Trucks) + 1
           p == [i \in 1 .. Cardinality(Trucks) + 1 |-> i]
           n == Cardinality(Trucks) + 1
           h == [z \in S \X X |-> (IF z[1].more THEN ResolveTurn(z[1].book, still) ELSE z[1])]
           Is(f) == f = [x \in SUBSET DOMAIN p |->
                           IF x = {} THEN first
                           ELSE (IF f[x \ {Max(x)}].more
                                 THEN ResolveTurn(f[x \ {Max(x)}].book, still)
                                 ELSE f[x \ {Max(x)}])]
           F == CHOOSE f : Is(f)
<1>1. ASSUME NEW turn \in S, NEW i \in X
      PROVE  (IF turn.more THEN ResolveTurn(turn.book, still) ELSE turn) \in S
  <2>1. CASE turn.more
    <3>1. Sound(turn.book, on, q, s)
      BY SoundIsSafe
    <3>2. Sound(ResolveTurn(turn.book, still).book, on, q, s)
      BY <3>1, ResolveTurnCall
    <3>3. ResolveTurn(turn.book, still).book \in Safe(on, q, s)
      BY <3>2, SoundIsSafe, SMTT(40)
    <3> DEFINE r == ResolveTurn(turn.book, still)
    <3>4. r = [book |-> r.book, more |-> r.more] /\ r.more \in BOOLEAN
      BY DEF ResolveTurn
    <3> HIDE DEF r
    <3>5. r \in S
      BY <3>3, <3>4 DEF r
    <3>6. QED
      BY <2>1, <3>5 DEF r
  <2>2. CASE ~turn.more
    BY <2>2
  <2>3. QED
    BY <2>1, <2>2
<1>2. /\ first \in S /\ n \in Nat /\ p \in [1 .. n -> X] /\ DOMAIN p = 1 .. n
  <2>1. n \in Nat
    BY TrucksInOrder
  <2>2. m \in Safe(on, q, s)
    BY SoundIsSafe
  <2>3. QED
    BY <2>1, <2>2
<1> HIDE DEF S, p, n
<1>3. h \in [S \X X -> S] /\ \A turn \in S : \A i \in X :
         h[<<turn, i>>] = (IF turn.more THEN ResolveTurn(turn.book, still) ELSE turn)
  BY <1>1
<1> HIDE DEF h
<1>4. PICK f \in [SUBSET (1 .. n) -> S] : Folding(f, h, first, p, n)
  BY <1>2, <1>3, FoldExists
<1>5. Is(f)
  <2>1. ASSUME NEW x \in SUBSET (1 .. n)
        PROVE  f[x] = IF x = {} THEN first
                      ELSE (IF f[x \ {Max(x)}].more
                                 THEN ResolveTurn(f[x \ {Max(x)}].book, still)
                                 ELSE f[x \ {Max(x)}])
    <3>1. CASE x = {}
      BY <1>4, <3>1 DEF Folding
    <3>2. CASE x # {}
      <4>1. Max(x) \in 1 .. n /\ x \ {Max(x)} \in SUBSET (1 .. n)
        BY <1>2, <3>2, LastOf
      <4>2. f[x \ {Max(x)}] \in S /\ p[Max(x)] \in X
        BY <1>2, <1>4, <4>1
      <4>3. f[x] = h[<<f[x \ {Max(x)}], p[Max(x)]>>]
        BY <1>4, <3>2 DEF Folding
      <4>4. QED
        BY <1>3, <3>2, <4>2, <4>3
    <3>3. QED
      BY <3>1, <3>2
  <2>2. QED
    BY <1>2, <1>4, <2>1
<1>6. Is(F)
  BY <1>5
<1> HIDE DEF F
<1>7. \A x \in SUBSET (1 .. n) :
         F[x] = IF x = {} THEN first ELSE (IF F[x \ {Max(x)}].more
                 THEN ResolveTurn(F[x \ {Max(x)}].book, still) ELSE F[x \ {Max(x)}])
  BY <1>2, <1>6
<1>8. ASSUME NEW x \in SUBSET (1 .. n), x # {}, F[x \ {Max(x)}] \in S
      PROVE  F[x] = h[<<F[x \ {Max(x)}], p[Max(x)]>>]
  <2> DEFINE y == F[x \ {Max(x)}]
             i == p[Max(x)]
  <2>1. i \in X /\ y \in S
    BY <1>2, <1>8, LastOf
  <2>2. F[x] = IF y.more THEN ResolveTurn(y.book, still) ELSE y
    BY <1>7, <1>8
  <2> HIDE DEF y, i
  <2>3. h[<<y, i>>] = IF y.more THEN ResolveTurn(y.book, still) ELSE y
    BY <1>3, <2>1
  <2>4. h[<<y, i>>] = F[x]
    BY <2>2, <2>3
  <2>5. QED
    BY <2>4 DEF y, i
<1>9. F[{}] = first
  BY <1>7
<1>10. F[1 .. n] \in S
  <2>1. Steps(F, S, h, first, p, n)
    BY <1>8, <1>9 DEF Steps
  <2> HIDE DEF Is, X
  <2>2. h \in [S \X X -> S] /\ first \in S /\ n \in Nat /\ p \in [1 .. n -> X]
    BY <1>2, <1>3
  <2>3. QED
    BY <2>1, <2>2, FoldStays
<1>11. FoldLeft(LAMBDA turn, i : (IF turn.more THEN ResolveTurn(turn.book, still) ELSE turn),
                first, p) = F[1 .. n]
  <2>1. FoldLeft(LAMBDA turn, i : (IF turn.more THEN ResolveTurn(turn.book, still) ELSE turn),
                  first, p) =
          (CHOOSE g : g = [x \in SUBSET DOMAIN p |->
                              IF x = {} THEN first
                              ELSE (IF g[x \ {Max(x)}].more
                                 THEN ResolveTurn(g[x \ {Max(x)}].book, still)
                                 ELSE g[x \ {Max(x)}])])[DOMAIN p]
    BY DEF FoldLeft, MapThenFoldSet
  <2>2. QED
    BY <1>2, <2>1 DEF F
<1>12. Resolve(m, still) = F[1 .. n].book
  BY <1>11 DEF Resolve, p
<1>13. F[1 .. n].book \in Safe(on, q, s)
  BY <1>10 DEF S
<1>14. QED
  BY <1>12, <1>13, SoundIsSafe

\* One task of the drain's second part.
Dwelt(b, t, unreported, known) ==
    LET v == b.task[t].by
    IN  IF b.task[t].state # "DWELL" THEN b
        ELSE IF b.seen[v].fin = b.task[t].order
        THEN StartLeg(b, t, v, To[t], "LEG2", known)
        ELSE IF v \in unreported THEN Requeue(b, t) ELSE b

LEMMA DweltCall ==
    ASSUME UuidsNeverRunOut,
           NEW m, NEW on, NEW q \in [Trucks -> Seq(Message)], NEW s, Sound(m, on, q, s),
           NEW known, KnowsAll(known, on, q, s), NEW unreported,
           NEW t \in Tasks
    PROVE  Sound(Dwelt(m, t, unreported, known), on, q, s)
<1> DEFINE v == m.task[t].by
<1>1. BookOK(m)
  BY DEF Sound
<1>2. CASE m.task[t].state # "DWELL"
  BY <1>2 DEF Dwelt
<1>3. CASE m.task[t].state = "DWELL"
  <2>1. v \in Trucks /\ m.task[t].leg = None /\ Carries(m, v, t) /\ m.task[t].by = v
    BY <1>1, <1>3 DEF BookOK, Shape, Carries
  <2>2. Fine(m, v, on[v], q[v] \o m.sent[v], s[v]) /\ q[v] \in Seq(Message)
        /\ Knows(known, on[v], q[v], s[v])
    BY <2>1 DEF Sound, KnowsAll
  <2>3. Dwelt(m, t, unreported, known) =
          IF m.seen[v].fin = m.task[t].order
          THEN StartLeg(m, t, v, To[t], "LEG2", known)
          ELSE IF v \in unreported THEN Requeue(m, t) ELSE m
    BY <1>3 DEF Dwelt
  <2> HIDE DEF v
  <2>4. /\ \A y \in Tasks \ {t} : ~Carries(m, v, y)
        /\ Stands(m, v) \in Nodes /\ m.aside[v] = None
    BY <2>1, <2>2 DEF Fine, Steady, Settled, Stands
  <2>5. To[t] \in Nodes
    BY FloorConstants
  <2>6. Handled(m, StartLeg(m, t, v, To[t], "LEG2", known), v, on[v], q[v], s[v])
    <3>1. m.task[t].by \in {v, None} /\ "LEG2" \in {"LEG1", "LEG2"}
      BY <2>1
    <3>2. QED
      BY <1>1, <2>1, <2>2, <2>4, <2>5, <3>1, StartLegCall
  <2>7. Handled(m, Requeue(m, t), v, on[v], q[v], s[v])
    BY <1>1, <2>1, <2>2, GivenBack, ZenonT(60) DEF Handled, Returned
  <2>8. CASE m.seen[v].fin = m.task[t].order
    BY <2>1, <2>3, <2>6, <2>8, SoundHandled
  <2>9. CASE m.seen[v].fin # m.task[t].order /\ v \in unreported
    BY <2>1, <2>3, <2>7, <2>9, SoundHandled
  <2>10. CASE m.seen[v].fin # m.task[t].order /\ v \notin unreported
    BY <2>3, <2>10
  <2>11. QED
    BY <2>8, <2>9, <2>10
<1>4. QED
  BY <1>2, <1>3

LEMMA DwellFold ==
    ASSUME UuidsNeverRunOut,
           NEW m, NEW on, NEW q \in [Trucks -> Seq(Message)], NEW s, Sound(m, on, q, s),
           NEW known, KnowsAll(known, on, q, s), NEW unreported
    PROVE  Sound(ExpireDwells(m, unreported, known), on, q, s)
<1> DEFINE S == Safe(on, q, s)
           X == Tasks
           p == InOrderOf(Submit, X)
           n == Cardinality(X)
           h == [z \in S \X X |-> Dwelt(z[1], z[2], unreported, known)]
           Is(f) == f = [x \in SUBSET DOMAIN p |->
                           IF x = {} THEN m
                           ELSE Dwelt(f[x \ {Max(x)}], p[Max(x)], unreported, known)]
           F == CHOOSE f : Is(f)
<1>1. ASSUME NEW b \in S, NEW t \in X PROVE Dwelt(b, t, unreported, known) \in S
  <2>1. Sound(b, on, q, s)
    BY SoundIsSafe
  <2>2. Sound(Dwelt(b, t, unreported, known), on, q, s)
    BY <2>1, DweltCall
  <2>3. QED
    BY <2>2, SoundIsSafe
<1>2. /\ m \in S /\ n \in Nat /\ p \in [1 .. n -> X] /\ DOMAIN p = 1 .. n
  <2>1. p \in [1 .. n -> X] /\ n \in Nat
    BY TasksInOrder
  <2>2. QED
    BY <2>1, SoundIsSafe
<1> HIDE DEF S, p, n
<1>3. h \in [S \X X -> S] /\ \A b \in S : \A t \in X : h[<<b, t>>] = Dwelt(b, t, unreported, known)
  BY <1>1
<1> HIDE DEF h
<1>4. PICK f \in [SUBSET (1 .. n) -> S] : Folding(f, h, m, p, n)
  BY <1>2, <1>3, FoldExists
<1>5. Is(f)
  <2>1. ASSUME NEW x \in SUBSET (1 .. n)
        PROVE  f[x] = IF x = {} THEN m
                      ELSE Dwelt(f[x \ {Max(x)}], p[Max(x)], unreported, known)
    <3>1. CASE x = {}
      BY <1>4, <3>1 DEF Folding
    <3>2. CASE x # {}
      <4>1. Max(x) \in 1 .. n /\ x \ {Max(x)} \in SUBSET (1 .. n)
        BY <1>2, <3>2, LastOf
      <4>2. f[x \ {Max(x)}] \in S /\ p[Max(x)] \in X
        BY <1>2, <1>4, <4>1
      <4>3. f[x] = h[<<f[x \ {Max(x)}], p[Max(x)]>>]
        BY <1>4, <3>2 DEF Folding
      <4>4. QED
        BY <1>3, <3>2, <4>2, <4>3
    <3>3. QED
      BY <3>1, <3>2
  <2>2. QED
    BY <1>2, <1>4, <2>1
<1>6. Is(F)
  BY <1>5
<1> HIDE DEF F
<1>7. \A x \in SUBSET (1 .. n) :
         F[x] = IF x = {} THEN m ELSE Dwelt(F[x \ {Max(x)}], p[Max(x)], unreported, known)
  BY <1>2, <1>6
<1>8. ASSUME NEW x \in SUBSET (1 .. n), x # {}, F[x \ {Max(x)}] \in S
      PROVE  F[x] = h[<<F[x \ {Max(x)}], p[Max(x)]>>]
  <2>1. p[Max(x)] \in X
    BY <1>2, <1>8, LastOf
  <2>2. QED
    BY <1>3, <1>7, <1>8, <2>1
<1>9. F[{}] = m
  BY <1>7
<1>10. F[1 .. n] \in S
  <2>1. Steps(F, S, h, m, p, n)
    BY <1>8, <1>9 DEF Steps
  <2> HIDE DEF Is, X
  <2>2. h \in [S \X X -> S] /\ m \in S /\ n \in Nat /\ p \in [1 .. n -> X]
    BY <1>2, <1>3
  <2>3. QED
    BY <2>1, <2>2, FoldStays
<1>11. ExpireDwells(m, unreported, known) = F[1 .. n]
  <2>1. ExpireDwells(m, unreported, known) =
          (CHOOSE g : g = [x \in SUBSET DOMAIN p |->
                              IF x = {} THEN m
                              ELSE Dwelt(g[x \ {Max(x)}], p[Max(x)], unreported, known)])[DOMAIN p]
    BY DEF FoldLeft, MapThenFoldSet, ExpireDwells, Dwelt, p
  <2>2. QED
    BY <1>2, <2>1 DEF F
<1>12. QED
  BY <1>10, <1>11, SoundIsSafe DEF S, p

\* The trucks that have stood too long.
Stalled(m, trucks) == FoldLeft(LAMBDA b, v : Stall(b, v), m, InOrderOf(Serial, trucks))

LEMMA StallFold ==
    ASSUME NEW m, NEW on, NEW q \in [Trucks -> Seq(Message)], NEW s, Sound(m, on, q, s),
           NEW trucks \in SUBSET Trucks
    PROVE  Sound(Stalled(m, trucks), on, q, s)
<1> DEFINE S == Safe(on, q, s)
           X == trucks
           p == InOrderOf(Serial, X)
           n == Cardinality(X)
           h == [z \in S \X X |-> Stall(z[1], z[2])]
           Is(f) == f = [x \in SUBSET DOMAIN p |->
                           IF x = {} THEN m
                           ELSE Stall(f[x \ {Max(x)}], p[Max(x)])]
           F == CHOOSE f : Is(f)
<1>1. ASSUME NEW b \in S, NEW v \in X PROVE Stall(b, v) \in S
  <2>1. Sound(b, on, q, s) /\ v \in Trucks
    BY SoundIsSafe
  <2>2. BookOK(b) /\ Fine(b, v, on[v], q[v] \o b.sent[v], s[v]) /\ q[v] \in Seq(Message)
    BY <2>1 DEF Sound
  <2>3. Handled(b, Stall(b, v), v, on[v], q[v], s[v])
    BY <2>1, <2>2, StallCall
  <2>4. QED
    BY <2>1, <2>3, SoundHandled, SoundIsSafe
<1>2. /\ m \in S /\ n \in Nat /\ p \in [1 .. n -> X] /\ DOMAIN p = 1 .. n
  <2>1. p \in [1 .. n -> X] /\ n \in Nat
    BY TrucksInOrder
  <2>2. QED
    BY <2>1, SoundIsSafe
<1> HIDE DEF S, p, n
<1>3. h \in [S \X X -> S] /\ \A b \in S : \A v \in X : h[<<b, v>>] = Stall(b, v)
  BY <1>1
<1> HIDE DEF h
<1>4. PICK f \in [SUBSET (1 .. n) -> S] : Folding(f, h, m, p, n)
  BY <1>2, <1>3, FoldExists
<1>5. Is(f)
  <2>1. ASSUME NEW x \in SUBSET (1 .. n)
        PROVE  f[x] = IF x = {} THEN m
                      ELSE Stall(f[x \ {Max(x)}], p[Max(x)])
    <3>1. CASE x = {}
      BY <1>4, <3>1 DEF Folding
    <3>2. CASE x # {}
      <4>1. Max(x) \in 1 .. n /\ x \ {Max(x)} \in SUBSET (1 .. n)
        BY <1>2, <3>2, LastOf
      <4>2. f[x \ {Max(x)}] \in S /\ p[Max(x)] \in X
        BY <1>2, <1>4, <4>1
      <4>3. f[x] = h[<<f[x \ {Max(x)}], p[Max(x)]>>]
        BY <1>4, <3>2 DEF Folding
      <4>4. QED
        BY <1>3, <3>2, <4>2, <4>3
    <3>3. QED
      BY <3>1, <3>2
  <2>2. QED
    BY <1>2, <1>4, <2>1
<1>6. Is(F)
  BY <1>5
<1> HIDE DEF F
<1>7. \A x \in SUBSET (1 .. n) :
         F[x] = IF x = {} THEN m ELSE Stall(F[x \ {Max(x)}], p[Max(x)])
  BY <1>2, <1>6
<1>8. ASSUME NEW x \in SUBSET (1 .. n), x # {}, F[x \ {Max(x)}] \in S
      PROVE  F[x] = h[<<F[x \ {Max(x)}], p[Max(x)]>>]
  <2>1. p[Max(x)] \in X
    BY <1>2, <1>8, LastOf
  <2>2. QED
    BY <1>3, <1>7, <1>8, <2>1
<1>9. F[{}] = m
  BY <1>7
<1>10. F[1 .. n] \in S
  <2>1. Steps(F, S, h, m, p, n)
    BY <1>8, <1>9 DEF Steps
  <2> HIDE DEF Is, X
  <2>2. h \in [S \X X -> S] /\ m \in S /\ n \in Nat /\ p \in [1 .. n -> X]
    BY <1>2, <1>3
  <2>3. QED
    BY <2>1, <2>2, FoldStays
<1>11. Stalled(m, trucks) = F[1 .. n]
  <2>1. Stalled(m, trucks) =
          (CHOOSE g : g = [x \in SUBSET DOMAIN p |->
                              IF x = {} THEN m
                              ELSE Stall(g[x \ {Max(x)}], p[Max(x)])])[DOMAIN p]
    BY DEF FoldLeft, MapThenFoldSet, Stalled, p
  <2>2. QED
    BY <1>2, <2>1 DEF F
<1>12. QED
  BY <1>10, <1>11, SoundIsSafe DEF S, p

LEMMA TrafficPassFold ==
    ASSUME UuidsNeverRunOut,
           NEW m, NEW on, NEW q \in [Trucks -> Seq(Message)], NEW s, Sound(m, on, q, s),
           NEW known, KnowsAll(known, on, q, s), NEW still, NEW late
    PROVE  Sound(TrafficPass(m, still, late, known), on, q, s)
<1>1. TrafficPass(m, still, late, known) = Resolve(Retried(Pumped(m, late, known)), still)
  BY DEF TrafficPass, Retried, Pumped
<1>2. Sound(Pumped(m, late, known), on, q, s)
  BY PumpFold
<1>3. Sound(Retried(Pumped(m, late, known)), on, q, s)
  BY <1>2, RetryFold
<1>4. QED
  BY <1>1, <1>3, ResolveFold

\* Two numbers order a set, the second one where the first is the same.
Ranks(far, key, S) ==
    /\ \A v \in S : far[v] \in Nat /\ key[v] \in Nat
    /\ \A u, v \in S : key[u] = key[v] => u = v
First(far, key, S, v) ==
    \A u \in S \ {v} : far[v] < far[u] \/ (far[v] = far[u] /\ key[v] < key[u])

LEMMA LeastOfTwo ==
    ASSUME NEW S, S # {}, NEW far, NEW key, Ranks(far, key, S)
    PROVE  \E v \in S : First(far, key, S, v)
<1> DEFINE D == {far[v] : v \in S}
           d == Min(D)
           T == {v \in S : far[v] = d}
           K == {key[v] : v \in T}
           k == Min(K)
<1>0. /\ \A v \in S : far[v] \in Nat /\ key[v] \in Nat
      /\ \A u, v \in S : key[u] = key[v] => u = v
  BY DEF Ranks
<1>1. D \subseteq Nat /\ D # {}
  BY <1>0
<1> HIDE DEF D
<1>2. d \in D /\ \A x \in D : d <= x
  BY <1>1, MinIsLeast
<1> HIDE DEF d
<1>3. T # {} /\ \A v \in S : d <= far[v]
  BY <1>2 DEF D
<1>4. K \subseteq Nat /\ K # {}
  BY <1>0, <1>3
<1> HIDE DEF K
<1>5. k \in K /\ \A x \in K : k <= x
  BY <1>4, MinIsLeast
<1> HIDE DEF k
<1>6. PICK v \in T : key[v] = k
  BY <1>5 DEF K
<1>7. ASSUME NEW u \in S \ {v} PROVE far[v] < far[u] \/ (far[v] = far[u] /\ key[v] < key[u])
  <2>1. far[v] = d /\ d <= far[u] /\ far[u] \in Nat /\ d \in Nat /\ key[u] \in Nat /\ key[v] \in Nat
        /\ key[u] # key[v]
    BY <1>0, <1>3, <1>6, <1>7
  <2>2. CASE far[u] = d
    <3>1. k <= key[u]
      BY <1>5, <1>7, <2>2 DEF K
    <3>2. QED
      BY <1>6, <2>1, <2>2, <3>1
  <2>3. CASE far[u] # d
    BY <2>1, <2>3
  <2>4. QED
    BY <2>2, <2>3
<1>8. QED
  BY <1>6, <1>7 DEF First

\* A truck that may be assigned is where its last state said, and carries nothing.
LEMMA IdleIsLocated ==
    ASSUME NEW m, NEW v, NEW on, NEW q, NEW s, Fine(m, v, on, q, s), Idle(m, v)
    PROVE  /\ m.seen[v].node \in Nodes /\ Stands(m, v) \in Nodes
           /\ m.aside[v] = None /\ Unladen(m, v)
BY TaskOfFacts DEF Fine, Steady, Located, Idle, Stands

LEMMA AssignCall ==
    ASSUME UuidsNeverRunOut,
           NEW m, NEW on, NEW q \in [Trucks -> Seq(Message)], NEW s, Sound(m, on, q, s),
           NEW known, KnowsAll(known, on, q, s)
    PROVE  Sound(Assign(m, known), on, q, s)
<1> DEFINE queued == {i \in DOMAIN m.queue : m.task[m.queue[i]].state = "QUEUED"}
           t      == m.queue[Min(queued)]
           far(v) == Metres[m.seen[v].node][From[t]]
           idle   == {v \in Trucks : Idle(m, v)}
           Nearest(v) == \A u \in idle \ {v} :
                            far(v) < far(u) \/ (far(v) = far(u) /\ Serial[v] < Serial[u])
           chosen == CHOOSE v \in idle : Nearest(v)
<1>1. Assign(m, known) = IF queued = {} \/ idle = {} THEN m
                         ELSE StartLeg(m, t, chosen, From[t], "LEG1", known)
  BY SMTT(40) DEF Assign
<1>2. CASE queued = {} \/ idle = {}
  BY <1>1, <1>2
<1>3. CASE ~(queued = {} \/ idle = {})
  <2>1. BookOK(m) /\ m.queue \in Seq(Tasks)
    BY BookTypes, SMTT(40) DEF Sound, BookOK, Kept
  <2>2. t \in Tasks /\ m.task[t].state = "QUEUED"
    <3>1. queued \subseteq Nat /\ queued # {}
      BY <1>3, <2>1
    <3>2. Min(queued) \in queued
      <4> HIDE DEF queued
      <4>1. QED
        BY <3>1, MinIsLeast, SMTT(40)
    <3> DEFINE i == Min(queued)
    <3>3. i \in DOMAIN m.queue /\ m.task[m.queue[i]].state = "QUEUED"
      BY <3>2
    <3> HIDE DEF i
    <3>4. m.queue[i] \in Tasks
      BY <2>1, <3>3, SMTT(40)
    <3>5. QED
      BY <3>3, <3>4 DEF i
  <2>3. m.task[t].by = None /\ m.task[t].leg = None
    BY <2>1, <2>2, ZenonT(60) DEF BookOK, Shape
  <2>4. From[t] \in Nodes
    BY <2>2, FloorConstants
  <2> HIDE DEF t
  <2>5. ASSUME NEW v \in idle
        PROVE  /\ v \in Trucks /\ m.seen[v].node \in Nodes /\ Stands(m, v) \in Nodes
               /\ m.aside[v] = None /\ Unladen(m, v)
               /\ Fine(m, v, on[v], q[v] \o m.sent[v], s[v])
    <3>1. v \in Trucks /\ Idle(m, v) /\ Fine(m, v, on[v], q[v] \o m.sent[v], s[v])
      BY DEF Sound
    <3>2. QED
      BY <3>1, IdleIsLocated
  <2>6. chosen \in idle
    <3> DEFINE f == [v \in idle |-> far(v)]
    <3>1. \A v \in idle : f[v] = far(v) /\ f[v] \in Nat /\ Serial[v] \in Nat
      <4>1. \A v \in idle : Serial[v] \in Nat
        BY FloorAssumption DEF idle
      <4>2. \A v \in idle : Metres[m.seen[v].node] \in [Nodes -> Nat]
        BY <2>5, FloorConstants
      <4>3. \A v \in idle : far(v) \in Nat
        BY <2>4, <4>2
      <4> HIDE DEF far
      <4>4. QED
        BY <4>1, <4>3
    <3>2. \A u, v \in idle : Serial[u] = Serial[v] => u = v
      BY FloorAssumption
    <3> HIDE DEF f
    <3>3. idle # {}
      BY <1>3
    <3>4. PICK v \in idle : First(f, Serial, idle, v)
      <4> HIDE DEF idle
      <4>1. Ranks(f, Serial, idle)
        BY <3>1, <3>2 DEF Ranks
      <4>2. QED
        BY <3>3, <4>1, LeastOfTwo
    <3>5. Nearest(v)
      BY <3>1, <3>4 DEF First
    <3> HIDE DEF Nearest, idle
    <3>6. QED
      BY <3>4, <3>5
  <2> HIDE DEF chosen
  <2>7. /\ chosen \in Trucks /\ Stands(m, chosen) \in Nodes /\ m.aside[chosen] = None
        /\ Unladen(m, chosen) /\ Fine(m, chosen, on[chosen], q[chosen] \o m.sent[chosen], s[chosen])
    BY <2>5, <2>6
  <2>8. Knows(known, on[chosen], q[chosen], s[chosen]) /\ q[chosen] \in Seq(Message)
    BY <2>7 DEF KnowsAll
  <2>9. Assign(m, known) = StartLeg(m, t, chosen, From[t], "LEG1", known)
    BY <1>1, <1>3
  <2> HIDE DEF idle, queued
  <2>10. Handled(m, StartLeg(m, t, chosen, From[t], "LEG1", known), chosen, on[chosen], q[chosen],
                 s[chosen])
    <3>1. m.task[t].by \in {chosen, None} /\ "LEG1" \in {"LEG1", "LEG2"}
          /\ \A y \in Tasks \ {t} : ~Carries(m, chosen, y)
      BY <2>3, <2>7 DEF Unladen
    <3>2. QED
      BY <2>1, <2>2, <2>3, <2>4, <2>7, <2>8, <3>1, StartLegCall
  <2>11. QED
    BY <2>7, <2>9, <2>10, SoundHandled
<1>4. QED
  BY <1>2, <1>3

-----------------------------------------------------------------------------
(* The trucks' own steps. *)

\* A step of the truck or of its wire leaves the book alone, and what the manager
\* and the truck agree on with it.
Agrees(on, q, s, on2, q2, s2) ==
    \A leg \in LegType : \A o \in Ids :
        LegOK(leg) /\ InStep(leg, o, on, q, s) => InStep(leg, o, on2, q2, s2)

LEMMA TruckMoves ==
    ASSUME NEW m, BookOK(m), NEW v \in Trucks, NEW on, NEW q, NEW s, Fine(m, v, on, q, s),
           NEW on2, NEW q2, NEW s2, Truck(on2, q2, s2), Agrees(on, q, s, on2, q2, s2)
    PROVE  Fine(m, v, on2, q2, s2)
<1>1. ASSUME NEW t \in Tasks, m.task[t].by = v, m.task[t].leg # None
      PROVE  InStep(m.task[t].leg, m.task[t].order, on2, q2, s2)
  <2>1. m.task[t].leg \in LegType /\ m.task[t].order \in Ids
    BY <1>1, CarriesItsLeg
  <2>2. LegOK(m.task[t].leg) /\ InStep(m.task[t].leg, m.task[t].order, on, q, s)
    BY <1>1 DEF Fine, Steady, OnLeg
  <2>3. QED
    BY <2>1, <2>2 DEF Agrees
<1>2. OnLeg(m, v, on2, q2, s2)
  BY <1>1 DEF OnLeg, Fine, Steady
<1>3. QED
  BY <1>2 DEF Fine, Steady

\* publish_state
Published(on) ==
    LET onOrder == on.order # None
    IN  [order   |-> on.order,
         update  |-> IF onOrder THEN on.update ELSE 0,
         last    |-> IF onOrder /\ on.pos > 0 THEN on.route[on.pos] ELSE None,
         over    |-> ~onOrder \/ on.pos = Len(on.route),
         node    |-> on.node,
         fin     |-> on.fin,
         refused |-> on.refused]

LEMMA PublishMoves ==
    ASSUME NEW on, NEW q, Truck(on, q, None), NEW s, s = Published(on),
           NEW on2, on2 = [on EXCEPT !.refused = None]
    PROVE  Truck(on2, q, s) /\ Agrees(on, q, None, on2, q, s)
<1>1. /\ on \in TruckStates /\ on.pos <= on.base /\ on.base <= Len(on.route)
      /\ on.order # None => on.route \in Paths
  BY DEF Truck, TruckOK
<1>2. /\ on2 \in TruckStates
      /\ on2.node = on.node /\ on2.order = on.order /\ on2.update = on.update
      /\ on2.route = on.route /\ on2.base = on.base /\ on2.pos = on.pos
      /\ on2.executing = on.executing /\ on2.stopping = on.stopping /\ on2.fin = on.fin
      /\ on2.refused = None
  BY <1>1 DEF TruckStates
<1>3. TruckOK(on2)
  BY <1>2 DEF Truck, TruckOK
<1>4. WireOK(on2, q)
  BY <1>2, ZenonT(60) DEF Truck, WireOK
<1>5. /\ s.order = on.order /\ s.refused = on.refused
      /\ on.order # None => s.update = on.update
      /\ s.last # None => s.last = on.route[on.pos] /\ on.order # None /\ on.pos > 0
  BY DEF Published
<1>6. s \in ReportStates
  <2>1. Published(on).last \in Nodes \cup {None}
    <3>1. CASE on.order # None /\ on.pos > 0
      <4>1. on.route \in Seq(Nodes) /\ on.pos \in Nat /\ on.base \in Nat /\ Len(on.route) \in Nat
        BY <1>1, LenProperties DEF TruckStates
      <4>2. on.pos \in 1 .. Len(on.route)
        BY <1>1, <3>1, <4>1
      <4>3. on.route[on.pos] \in Nodes
        BY <4>1, <4>2, ElementOfSeq
      <4>4. QED
        BY <3>1, <4>3 DEF Published
    <3>2. CASE ~(on.order # None /\ on.pos > 0)
      BY <3>2 DEF Published
    <3>3. QED
      BY <3>1, <3>2
  <2>2. Published(on).update \in Nat
    BY <1>1 DEF Published, TruckStates
  <2>3. QED
    BY <1>1, <2>1, <2>2 DEF Published, ReportStates, TruckStates
<1>7. ASSUME NEW leg \in LegType, NEW o \in Ids, LegOK(leg), InStep(leg, o, on, q, None)
      PROVE  InStep(leg, o, on2, q, s)
  <2>1. o # None
    BY Nones
  <2>2. Ordered(leg, o, on2, q, s)
    BY <1>2, <1>5, <1>7, <2>1 DEF InStep, Ordered
  <2>3. Extended(leg, o, on2, q)
    BY <1>2, <1>7 DEF InStep, Extended
  <2>4. Refuses(o, on2, s) => Refuses(o, on, None)
    BY <1>2, <1>5, <2>1 DEF Refuses
  <2>5. Driven(leg, o, on2, q, s)
    BY <1>2, <1>7, <2>1, <2>4 DEF InStep, Driven
  <2>6. Reported(leg, o, on2, s)
    <3>1. SUFFICES ASSUME s.order = o PROVE
            /\ s.last # None =>
                  /\ s.last \in Range(leg.path) /\ At(leg) <= IndexOf(leg.path, s.last)
                  /\ on2.order = o => IndexOf(leg.path, s.last) <= on2.pos
            /\ on2.order = o => s.update <= on2.update
      BY DEF Reported
    <3>2. on.order = o /\ on.order # None /\ s.update = on.update
      BY <1>5, <2>1, <3>1
    <3>3. on.route = leg.path /\ (At(leg) = 1 \/ At(leg) <= on.pos) /\ leg.path \in Paths
      BY <1>7, <3>2, LegFields DEF InStep, Driven
    <3>4. on.update \in Nat /\ on.pos \in Nat /\ on.base \in Nat /\ Len(on.route) \in Nat
      BY <1>1, <3>3, PathFacts DEF TruckStates
    <3>5. CASE s.last # None
      <4>1. s.last = leg.path[on.pos] /\ on.pos \in 1 .. Len(leg.path)
        BY <1>1, <1>5, <3>3, <3>4, <3>5
      <4>2. s.last \in Range(leg.path) /\ IndexOf(leg.path, s.last) = on.pos
        BY <3>3, <4>1, IndexOfNode
      <4>3. At(leg) <= on.pos
        BY <3>3, <4>1
      <4>4. QED
        BY <1>2, <3>2, <3>4, <4>2, <4>3
    <3>6. CASE s.last = None
      BY <1>2, <3>2, <3>4, <3>6
    <3>7. QED
      BY <3>5, <3>6
  <2>7. QED
    BY <2>2, <2>3, <2>5, <2>6 DEF InStep
<1>8. QED
  BY <1>3, <1>4, <1>6, <1>7 DEF Agrees, Truck

\* The truck drives on, arrives, works or stops.
OnSameOrder(on, on2) ==
    /\ on2.order = on.order /\ on2.update = on.update /\ on2.refused = on.refused
    /\ on.order # None => on2.route = on.route /\ on2.base = on.base

LEMMA DrivesOn ==
    ASSUME NEW on, NEW q, NEW s, Truck(on, q, s), NEW on2, TruckOK(on2), OnSameOrder(on, on2),
           on.order # None => on.pos <= on2.pos,
           on.executing => on2.executing \/ on.base = Len(on.route)
    PROVE  Truck(on2, q, s) /\ Agrees(on, q, s, on2, q, s)
<1>1. TruckOK(on) /\ WireOK(on, q)
  BY DEF Truck
<1>2. WireOK(on2, q)
  <2>1. ASSUME NEW o \in Ids, on2.order = o, NEW i \in Updates(q, o)
        PROVE  /\ on2.executing /\ q[i].update = on2.update + 1
               /\ on2.base < q[i].base /\ q[i].base <= Len(on2.route)
    <3>1. on.order = o /\ on.order # None
      BY <2>1, Nones DEF OnSameOrder
    <3>2. /\ on.executing /\ q[i].update = on.update + 1
          /\ on.base < q[i].base /\ q[i].base <= Len(on.route)
      BY <1>1, <2>1, <3>1 DEF WireOK
    <3>3. on.base # Len(on.route)
      <4>1. q[i].kind = "update" /\ q[i] \in Message
        BY DEF Truck, Updates
      <4>2. on.base \in Nat /\ Len(on.route) \in Nat /\ q[i].base \in Nat
        BY <1>1, <4>1 DEF TruckOK, TruckStates, Message, OrderMsg, CancelMsg, UpdateMsg
      <4>3. QED
        BY <3>2, <4>2
    <3>4. QED
      BY <3>1, <3>2, <3>3 DEF OnSameOrder
  <2>2. \A i \in DOMAIN q : on2.order = on.order
    BY DEF OnSameOrder
  <2>3. QED
    BY <1>1, <2>1 DEF WireOK, OnSameOrder
<1>3. ASSUME NEW leg \in LegType, NEW o \in Ids, LegOK(leg), InStep(leg, o, on, q, s)
      PROVE  InStep(leg, o, on2, q, s)
  <2>1. o # None
    BY Nones
  <2>2. Ordered(leg, o, on2, q, s) /\ Extended(leg, o, on2, q)
    BY <1>3 DEF InStep, Ordered, Extended, OnSameOrder
  <2>3. Refuses(o, on2, s) <=> Refuses(o, on, s)
    BY DEF Refuses, OnSameOrder
  <2>4. on.order = o => on.pos <= on2.pos /\ on.pos \in Nat /\ on2.pos \in Nat
    BY <1>1, <2>1 DEF TruckOK, TruckStates
  <2>5. leg.path \in Paths /\ At(leg) \in Nat
    BY LegFields, IndexOfFacts, PathFacts DEF At
  <2>6. Driven(leg, o, on2, q, s)
    BY <1>3, <2>1, <2>3, <2>4, <2>5 DEF InStep, Driven, OnSameOrder
  <2>7. \A node \in Range(leg.path) : IndexOf(leg.path, node) \in Nat
    BY <2>5, IndexOfFacts, PathFacts
  <2>8. Reported(leg, o, on2, s)
    BY <1>3, <2>1, <2>4, <2>7 DEF InStep, Reported, OnSameOrder
  <2>9. QED
    BY <2>2, <2>6, <2>8 DEF InStep
<1>4. QED
  BY <1>2, <1>3 DEF Agrees, Truck

\* The head of the queue is delivered or lost.
Shorter(q, p) ==
    /\ q \in Seq(Message) /\ p \in Seq(Message) /\ 1 \in DOMAIN q
    /\ \A i \in DOMAIN p : i \in Nat /\ i > 0 /\ i + 1 \in DOMAIN q /\ p[i] = q[i + 1]

LEMMA TailIsShorter ==
    ASSUME NEW q \in Seq(Message), q # << >>, NEW p, p = Tail(q)
    PROVE  Shorter(q, p) /\ Head(q) = q[1] /\ q[1] \in Message
<1>1. Len(q) \in Nat /\ Len(q) # 0 /\ DOMAIN q = 1 .. Len(q)
  BY LenProperties, EmptySeq
<1>2. /\ p \in Seq(Message) /\ Len(p) = Len(q) - 1 /\ DOMAIN p = 1 .. Len(p)
      /\ \A i \in 1 .. Len(p) : p[i] = q[i + 1]
      /\ Head(q) = q[1]
  BY HeadTailProperties, LenProperties
<1>3. 1 \in DOMAIN q
  BY <1>1
<1>4. q[1] \in Message
  BY <1>1, <1>3, ElementOfSeq
<1>5. \A i \in DOMAIN p : i \in Nat /\ i > 0 /\ i + 1 \in DOMAIN q
  BY <1>1, <1>2
<1>6. QED
  BY <1>2, <1>3, <1>4, <1>5 DEF Shorter

LEMMA ShorterAbout ==
    ASSUME NEW q, NEW p, Shorter(q, p), NEW o
    PROVE  /\ \A i \in Orders(p, o) :
                 i \in Nat /\ i > 0 /\ i + 1 \in Orders(q, o) /\ p[i] = q[i + 1]
           /\ \A i \in Updates(p, o) :
                 i \in Nat /\ i > 0 /\ i + 1 \in Updates(q, o) /\ p[i] = q[i + 1]
           /\ Orders(q, o) = {} => Orders(p, o) = {}
           /\ Updates(q, o) = {} => Updates(p, o) = {}
BY DEF Shorter, Orders, Updates

LEMMA HeadLost ==
    ASSUME NEW on, NEW q, NEW s, Truck(on, q, s), NEW p, Shorter(q, p)
    PROVE  Truck(on, p, s) /\ Agrees(on, q, s, on, p, s)
<1>1. WireOK(on, q)
  BY DEF Truck
<1>2. WireOK(on, p)
  <2>1. ASSUME NEW i \in DOMAIN p, p[i].kind = "order"
        PROVE  /\ p[i].base \in 1 .. Len(p[i].route)
               /\ on.order # p[i].order
               /\ Orders(p, p[i].order) = {i}
               /\ \A j \in Updates(p, p[i].order) :
                     /\ i < j /\ p[j].update = 1
                     /\ p[i].base < p[j].base /\ p[j].base <= Len(p[i].route)
    <3> DEFINE o == p[i].order
    <3>1. i \in Nat /\ i + 1 \in DOMAIN q /\ p[i] = q[i + 1] /\ i \in Orders(p, o)
      BY <2>1 DEF Shorter, Orders
    <3>2. /\ p[i].base \in 1 .. Len(p[i].route) /\ on.order # o
          /\ Orders(q, o) = {i + 1}
          /\ \A j \in Updates(q, o) :
                     /\ i + 1 < j /\ q[j].update = 1
                     /\ p[i].base < q[j].base /\ q[j].base <= Len(p[i].route)
      BY <1>1, <2>1, <3>1 DEF WireOK
    <3> HIDE DEF o
    <3>3. \A j \in Orders(p, o) : j = i
      BY <3>1, <3>2, ShorterAbout
    <3>4. Orders(p, o) = {i}
      BY <3>1, <3>3
    <3>5. ASSUME NEW j \in Updates(p, o)
          PROVE  /\ i < j /\ p[j].update = 1
                 /\ p[i].base < p[j].base /\ p[j].base <= Len(p[i].route)
      <4>1. j \in Nat /\ j + 1 \in Updates(q, o) /\ p[j] = q[j + 1]
        BY ShorterAbout
      <4>2. i + 1 < j + 1
        BY <3>2, <4>1
      <4>3. QED
        BY <3>1, <3>2, <4>1, <4>2
    <3>6. QED
      BY <3>2, <3>4, <3>5 DEF o
  <2>2. ASSUME NEW o \in Ids, on.order = o \/ Orders(p, o) # {},
               NEW i \in Updates(p, o), NEW j \in Updates(p, o)
        PROVE  i = j
    <3>1. on.order = o \/ Orders(q, o) # {}
      BY <2>2, ShorterAbout
    <3>2. /\ i \in Nat /\ i + 1 \in Updates(q, o) /\ j \in Nat /\ j + 1 \in Updates(q, o)
      BY ShorterAbout
    <3>3. i + 1 = j + 1
      BY <1>1, <3>1, <3>2 DEF WireOK
    <3>4. QED
      BY <3>2, <3>3
  <2>3. ASSUME NEW o \in Ids, on.order = o, NEW i \in Updates(p, o)
        PROVE  /\ on.executing /\ p[i].update = on.update + 1
               /\ on.base < p[i].base /\ p[i].base <= Len(on.route)
    <3>1. i + 1 \in Updates(q, o) /\ p[i] = q[i + 1]
      BY ShorterAbout
    <3>2. QED
      BY <1>1, <2>3, <3>1 DEF WireOK
  <2>4. QED
    BY <2>1, <2>2, <2>3 DEF WireOK
<1>3. ASSUME NEW leg \in LegType, NEW o \in Ids, LegOK(leg), InStep(leg, o, on, q, s)
      PROVE  InStep(leg, o, on, p, s)
  <2>1. Ordered(leg, o, on, p, s)
    <3>1. \A i \in Orders(p, o) : i + 1 \in Orders(q, o) /\ p[i] = q[i + 1]
      BY ShorterAbout
    <3>2. QED
      BY <1>3, <3>1 DEF InStep, Ordered
  <2>2. Extended(leg, o, on, p)
    <3>1. \A i \in Updates(p, o) : i + 1 \in Updates(q, o) /\ p[i] = q[i + 1]
      BY ShorterAbout
    <3>2. Orders(p, o) # {} => Orders(q, o) # {}
      BY ShorterAbout
    <3>3. QED
      BY <1>3, <3>1, <3>2 DEF InStep, Extended
  <2>3. Driven(leg, o, on, p, s)
    <3>1. Updates(q, o) = {} => Updates(p, o) = {}
      BY ShorterAbout
    <3>2. QED
      BY <1>3, <3>1 DEF InStep, Driven
  <2>4. QED
    BY <1>3, <2>1, <2>2, <2>3 DEF InStep
<1>4. QED
  BY <1>2, <1>3 DEF Agrees, Truck, Shorter

\* The state nobody has read is lost.
LEMMA StateLost ==
    ASSUME NEW on, NEW q, NEW s, Truck(on, q, s)
    PROVE  Truck(on, q, None) /\ Agrees(on, q, s, on, q, None)
BY ReadInStep DEF Truck, Agrees

\* What the head of the queue says of what is behind it.
OrderFirst(on, q, s, p, o) ==
    /\ on.order # o /\ Orders(p, o) = {}
    /\ q[1].base \in 1 .. Len(q[1].route)
    /\ \A i, j \in Updates(p, o) : i = j
    /\ \A j \in Updates(p, o) :
          p[j].update = 1 /\ q[1].base < p[j].base /\ p[j].base <= Len(q[1].route)
    /\ \A leg : InStep(leg, o, on, q, s) =>
          /\ q[1].route = leg.path /\ q[1].base = leg.released
          /\ leg.update = 0 /\ leg.last = leg.path[1] /\ on.refused # o
          /\ s # None => s.order # o /\ s.refused # o
          /\ \A i \in Updates(p, o) :
                leg.pending # None /\ p[i].update = leg.pending.update
                /\ p[i].base = leg.pending.released

LEMMA OrderAtHead ==
    ASSUME NEW on, NEW q, NEW s, Truck(on, q, s), NEW p, Shorter(q, p),
           q[1].kind = "order", NEW o \in Ids, q[1].order = o
    PROVE  OrderFirst(on, q, s, p, o)
<1>1. 1 \in DOMAIN q /\ 1 \in Orders(q, o) /\ WireOK(on, q)
  BY DEF Shorter, Orders, Truck
<1>2. /\ on.order # o /\ Orders(q, o) = {1}
      /\ q[1].base \in 1 .. Len(q[1].route)
      /\ \A j \in Updates(q, o) :
            q[j].update = 1 /\ q[1].base < q[j].base /\ q[j].base <= Len(q[1].route)
      /\ \A i, j \in Updates(q, o) : i = j
  BY <1>1 DEF WireOK
<1>3. \A i \in Orders(p, o) :
                 i \in Nat /\ i > 0 /\ i + 1 \in Orders(q, o)
  BY ShorterAbout
<1>4. Orders(p, o) = {}
  BY <1>2, <1>3
<1>5. \A i \in Updates(p, o) : i \in Nat /\ i + 1 \in Updates(q, o) /\ p[i] = q[i + 1]
  BY ShorterAbout
<1>6. \A i, j \in Updates(p, o) : i = j
  <2>1. SUFFICES ASSUME NEW i \in Updates(p, o), NEW j \in Updates(p, o) PROVE i = j
    OBVIOUS
  <2>2. i \in Nat /\ j \in Nat /\ i + 1 = j + 1
    BY <1>2, <1>5
  <2>3. QED
    BY <2>2
<1>7. ASSUME NEW leg, InStep(leg, o, on, q, s)
      PROVE  /\ q[1].route = leg.path /\ q[1].base = leg.released
             /\ leg.update = 0 /\ leg.last = leg.path[1] /\ on.refused # o
             /\ s # None => s.order # o /\ s.refused # o
             /\ \A i \in Updates(p, o) :
                   leg.pending # None /\ p[i].update = leg.pending.update
                   /\ p[i].base = leg.pending.released
  <2>1. Ordered(leg, o, on, q, s) /\ Extended(leg, o, on, q)
    BY <1>7 DEF InStep
  <2>2. \A i \in Updates(q, o) :
           leg.pending # None /\ q[i].update = leg.pending.update
           /\ q[i].base = leg.pending.released
    BY <1>1, <2>1 DEF Extended
  <2>3. QED
    BY <1>1, <1>5, <2>1, <2>2 DEF Ordered
<1>8. QED
  BY <1>2, <1>4, <1>5, <1>6, <1>7 DEF OrderFirst

UpdateFirst(on, q, s, p, o) ==
    /\ Orders(p, o) = {}
    /\ on.order = o =>
          /\ Updates(p, o) = {} /\ on.executing /\ q[1].update = on.update + 1
          /\ on.base < q[1].base /\ q[1].base <= Len(on.route)
          /\ \A leg : InStep(leg, o, on, q, s) =>
                /\ leg.pending # None /\ q[1].update = leg.pending.update
                /\ q[1].base = leg.pending.released
                /\ ~Refuses(o, on, s)
                /\ on.update = leg.update /\ on.base = leg.released

LEMMA UpdateAtHead ==
    ASSUME NEW on, NEW q, NEW s, Truck(on, q, s), NEW p, Shorter(q, p),
           q[1].kind = "update", NEW o \in Ids, q[1].order = o
    PROVE  UpdateFirst(on, q, s, p, o)
<1>1. 1 \in DOMAIN q /\ 1 \in Updates(q, o) /\ WireOK(on, q)
  BY DEF Shorter, Updates, Truck
<1>2. Orders(p, o) = {}
  <2>1. SUFFICES ASSUME NEW i \in Orders(p, o) PROVE FALSE
    OBVIOUS
  <2>2. i \in Nat /\ i > 0 /\ i + 1 \in Orders(q, o)
    BY ShorterAbout
  <2>3. i + 1 < 1
    BY <1>1, <2>2 DEF WireOK, Orders
  <2>4. QED
    BY <2>2, <2>3
<1>3. ASSUME on.order = o
      PROVE  /\ Updates(p, o) = {} /\ on.executing /\ q[1].update = on.update + 1
             /\ on.base < q[1].base /\ q[1].base <= Len(on.route)
  <2>1. /\ \A i, j \in Updates(q, o) : i = j
        /\ on.executing /\ q[1].update = on.update + 1
        /\ on.base < q[1].base /\ q[1].base <= Len(on.route)
    BY <1>1, <1>3 DEF WireOK
  <2>2. \A i \in Updates(p, o) :
                 i \in Nat /\ i > 0 /\ i + 1 \in Updates(q, o)
    BY ShorterAbout
  <2>3. Updates(p, o) = {}
    <3>1. SUFFICES ASSUME NEW i \in Updates(p, o) PROVE FALSE
      OBVIOUS
    <3>2. i \in Nat /\ i > 0 /\ i + 1 = 1
      BY <1>1, <2>1, <2>2
    <3>3. QED
      BY <3>2
  <2>4. QED
    BY <2>1, <2>3
<1>4. ASSUME on.order = o, NEW leg, InStep(leg, o, on, q, s)
      PROVE  /\ leg.pending # None /\ q[1].update = leg.pending.update
             /\ q[1].base = leg.pending.released /\ ~Refuses(o, on, s)
             /\ on.update = leg.update /\ on.base = leg.released
  <2>1. Extended(leg, o, on, q) /\ Driven(leg, o, on, q, s)
    BY <1>4 DEF InStep
  <2>2. QED
    BY <1>1, <1>4, <2>1 DEF Extended, Driven
<1>5. QED
  BY <1>2, <1>3, <1>4 DEF UpdateFirst

\* The head is refused: it names an order nobody else under way names.
Refusable(on, q, p, s, o) ==
    /\ Orders(p, o) = {}
    /\ on.order = o =>
          /\ Updates(p, o) = {}
          /\ \A leg : InStep(leg, o, on, q, s) =>
                /\ leg.pending # None /\ ~Refuses(o, on, s)
                /\ on.update = leg.update /\ on.base = leg.released

LEMMA Refused ==
    ASSUME NEW on, NEW q, NEW s, Truck(on, q, s), NEW p, Shorter(q, p),
           NEW o \in Ids, Refusable(on, q, p, s, o), NEW on2, on2 = [on EXCEPT !.refused = o]
    PROVE  Truck(on2, p, s) /\ Agrees(on, q, s, on2, p, s)
<1>1. Truck(on, p, s) /\ Agrees(on, q, s, on, p, s)
  BY HeadLost
<1>2. /\ on2 \in TruckStates
      /\ on2.node = on.node /\ on2.order = on.order /\ on2.update = on.update
      /\ on2.route = on.route /\ on2.base = on.base /\ on2.pos = on.pos
      /\ on2.executing = on.executing /\ on2.stopping = on.stopping /\ on2.fin = on.fin
      /\ on2.refused = o
  <2>1. on \in TruckStates
    BY DEF Truck, TruckOK
  <2>2. QED
    BY <2>1 DEF TruckStates
<1>3. TruckOK(on2) /\ WireOK(on2, p)
  <2>1. TruckOK(on2)
    BY <1>1, <1>2 DEF Truck, TruckOK
  <2>2. WireOK(on2, p)
    <3>1. WireOK(on, p)
      BY <1>1 DEF Truck
    <3>2. /\ on2.order = on.order /\ on2.update = on.update /\ on2.route = on.route
          /\ on2.base = on.base /\ on2.executing = on.executing
      BY <1>2
    <3>3. \A i \in DOMAIN p : p[i].kind = "order" =>
             /\ p[i].base \in 1 .. Len(p[i].route)
             /\ on2.order # p[i].order
             /\ Orders(p, p[i].order) = {i}
             /\ \A j \in Updates(p, p[i].order) :
                   /\ i < j /\ p[j].update = 1
                   /\ p[i].base < p[j].base /\ p[j].base <= Len(p[i].route)
      BY <3>1, <3>2 DEF WireOK
    <3>4. \A x \in Ids : on2.order = x \/ Orders(p, x) # {} =>
             \A i, j \in Updates(p, x) : i = j
      BY <3>1, <3>2 DEF WireOK
    <3>5. \A x \in Ids : on2.order = x =>
             \A i \in Updates(p, x) :
                /\ on2.executing /\ p[i].update = on2.update + 1
                /\ on2.base < p[i].base /\ p[i].base <= Len(on2.route)
      BY <3>1, <3>2 DEF WireOK
    <3>6. QED
      BY <3>3, <3>4, <3>5 DEF WireOK
  <2>3. QED
    BY <2>1, <2>2
<1>4. ASSUME NEW leg \in LegType, NEW x \in Ids, LegOK(leg), InStep(leg, x, on, q, s)
      PROVE  InStep(leg, x, on2, p, s)
  <2>1. InStep(leg, x, on, p, s)
    BY <1>1, <1>4 DEF Agrees
  <2>2. Ordered(leg, x, on2, p, s) /\ Extended(leg, x, on2, p) /\ Reported(leg, x, on2, s)
    <3>1. x = o => Orders(p, x) = {}
      BY DEF Refusable
    <3>2. Ordered(leg, x, on2, p, s)
      BY <1>2, <2>1, <3>1 DEF InStep, Ordered
    <3>3. Extended(leg, x, on2, p)
      BY <1>2, <2>1 DEF InStep, Extended
    <3>4. Reported(leg, x, on2, s)
      BY <1>2, <2>1 DEF InStep, Reported
    <3>5. QED
      BY <3>2, <3>3, <3>4
  <2>3. Driven(leg, x, on2, p, s)
    <3>1. CASE x # o
      <4>1. Refuses(x, on2, s) => Refuses(x, on, s)
        BY <1>2, <3>1 DEF Refuses
      <4>2. QED
        BY <1>2, <2>1, <3>1, <4>1 DEF InStep, Driven
    <3>2. CASE x = o
      <4>1. SUFFICES ASSUME on2.order = x PROVE
                /\ on2.route = leg.path /\ (At(leg) = 1 \/ At(leg) <= on2.pos)
                /\ on2.update = leg.update /\ on2.base = leg.released
                /\ leg.pending # None /\ Updates(p, x) = {}
                /\ ~(s # None /\ s.refused = x)
        BY DEF Driven
      <4>2. /\ Updates(p, x) = {} /\ leg.pending # None /\ ~Refuses(x, on, s)
            /\ on.update = leg.update /\ on.base = leg.released
        BY <1>2, <1>4, <3>2, <4>1 DEF Refusable
      <4>3. on.route = leg.path /\ (At(leg) = 1 \/ At(leg) <= on.pos)
        BY <1>2, <2>1, <4>1 DEF InStep, Driven
      <4>4. QED
        BY <1>2, <4>2, <4>3 DEF Refuses
    <3>3. QED
      BY <3>1, <3>2
  <2>4. QED
    BY <2>2, <2>3 DEF InStep
<1>5. QED
  BY <1>1, <1>3, <1>4 DEF Agrees, Truck

\* A cancel is taken.
LEMMA CancelTaken ==
    ASSUME NEW on, NEW q, NEW s, Truck(on, q, s), NEW p, Shorter(q, p),
           NEW on2, on2 = TakeCancel(on)
    PROVE  Truck(on2, p, s) /\ Agrees(on, q, s, on2, p, s)
<1>1. Truck(on, p, s) /\ Agrees(on, q, s, on, p, s)
  BY HeadLost
<1>2. /\ on2 \in TruckStates
      /\ on2.order = None /\ on2.base = on.base /\ on2.pos = on.pos /\ on2.route = on.route
      /\ on2.executing = FALSE /\ on2.refused = on.refused
  <2>1. on \in TruckStates
    BY DEF Truck, TruckOK
  <2>2. QED
    BY <2>1 DEF TruckStates, TakeCancel
<1>3. TruckOK(on2)
  BY <1>1, <1>2 DEF Truck, TruckOK
<1>4. WireOK(on2, p)
  <2>1. \A i \in DOMAIN p : p[i].kind = "order" => p[i].order # None
    <3>1. ASSUME NEW i \in DOMAIN p, p[i].kind = "order" PROVE p[i].order # None
      <4>1. p[i] \in Message
        BY <1>1, ElementOfSeq, LenProperties DEF Truck
      <4>2. p[i].order \in Ids
        BY <3>1, <4>1 DEF Message, CancelMsg, OrderMsg, UpdateMsg
      <4>3. QED
        BY <4>2, Nones
    <3>2. QED
      BY <3>1
  <2>2. \A o \in Ids : on2.order # o
    BY <1>2, Nones
  <2>3. QED
    BY <1>1, <1>2, <2>1, <2>2 DEF Truck, WireOK
<1>5. ASSUME NEW leg \in LegType, NEW o \in Ids, LegOK(leg), InStep(leg, o, on, q, s)
      PROVE  InStep(leg, o, on2, p, s)
  <2>1. InStep(leg, o, on, p, s) /\ on2.order # o
    BY <1>1, <1>2, <1>5, Nones DEF Agrees
  <2>2. Ordered(leg, o, on2, p, s)
    BY <1>2, <2>1 DEF InStep, Ordered
  <2>3. Extended(leg, o, on2, p)
    BY <1>2, <2>1 DEF InStep, Extended
  <2>4. Driven(leg, o, on2, p, s)
    BY <2>1 DEF Driven
  <2>5. Reported(leg, o, on2, s)
    BY <1>2, <2>1 DEF InStep, Reported
  <2>6. QED
    BY <2>2, <2>3, <2>4, <2>5 DEF InStep
<1>6. QED
  BY <1>1, <1>3, <1>4, <1>5 DEF Agrees, Truck

\* An order is taken by a truck that drives none.
LEMMA OrderTaken ==
    ASSUME NEW on, NEW q, NEW s, Truck(on, q, s), NEW p, Shorter(q, p),
           NEW msg \in OrderMsg, q[1] = msg, ~on.executing,
           NEW on2, on2 = TakeOrder(on, msg)
    PROVE  Truck(on2, p, s) /\ Agrees(on, q, s, on2, p, s)
<1> DEFINE o == msg.order
<1>1. Truck(on, p, s) /\ Agrees(on, q, s, on, p, s)
  BY HeadLost
<1>2. msg.kind = "order" /\ o \in Ids /\ msg.route \in Paths /\ msg.base \in Nat
  BY DEF OrderMsg
<1>3. /\ on.order # o /\ Orders(p, o) = {}
      /\ msg.base \in 1 .. Len(msg.route)
      /\ \A i, j \in Updates(p, o) : i = j
      /\ \A j \in Updates(p, o) :
            p[j].update = 1 /\ msg.base < p[j].base /\ p[j].base <= Len(msg.route)
      /\ \A leg : InStep(leg, o, on, q, s) =>
            /\ msg.route = leg.path /\ msg.base = leg.released
            /\ leg.update = 0 /\ leg.last = leg.path[1] /\ on.refused # o
            /\ s # None => s.order # o /\ s.refused # o
            /\ \A i \in Updates(p, o) :
                  leg.pending # None /\ p[i].update = leg.pending.update
                  /\ p[i].base = leg.pending.released
  <2>1. OrderFirst(on, q, s, p, o)
    BY <1>2, OrderAtHead
  <2> HIDE DEF o
  <2>2. QED
    BY <2>1 DEF OrderFirst
<1>4. msg.route \in Seq(Nodes) /\ Len(msg.route) \in Nat
  BY <1>2, PathFacts
<1>5. /\ on2 \in TruckStates
      /\ on2.order = o /\ on2.update = 0 /\ on2.route = msg.route /\ on2.base = msg.base
      /\ on2.executing = TRUE /\ on2.refused = on.refused
      /\ on2.pos \in 0 .. 1
  <2>1. on \in TruckStates
    BY DEF Truck, TruckOK
  <2> DEFINE pos == IF msg.route[1] = on.node THEN 1 ELSE 0
             fin == IF msg.action THEN on.fin ELSE msg.order
  <2>2. on2 = [on EXCEPT !.order = msg.order, !.update = 0, !.route = msg.route,
                         !.base = msg.base, !.executing = TRUE, !.fin = fin, !.pos = pos]
    BY DEF TakeOrder
  <2>3. pos \in Nat /\ pos \in 0 .. 1
    OBVIOUS
  <2>4. fin \in Ids \cup {None}
    BY <1>2, <2>1 DEF TruckStates
  <2> HIDE DEF pos, fin
  <2>5. on2 = [node |-> on.node, order |-> msg.order, update |-> 0, route |-> msg.route,
               base |-> msg.base, pos |-> pos, executing |-> TRUE, stopping |-> on.stopping,
               fin |-> fin, refused |-> on.refused]
    BY <2>1, <2>2 DEF TruckStates
  <2>6. on.node \in Nodes /\ on.stopping \in BOOLEAN /\ on.refused \in Ids \cup {None}
    BY <2>1 DEF TruckStates
  <2>7. QED
    BY <1>2, <1>4, <2>3, <2>4, <2>5, <2>6 DEF TruckStates
<1>6. TruckOK(on2)
  <2>1. on2.pos <= on2.base /\ on2.base <= Len(on2.route) /\ 1 <= on2.base
    BY <1>2, <1>3, <1>4, <1>5
  <2>2. QED
    BY <1>2, <1>5, <2>1, Nones DEF TruckOK
<1> HIDE DEF o
<1>7. WireOK(on2, p)
  <2>1. ASSUME NEW i \in DOMAIN p, p[i].kind = "order" PROVE on2.order # p[i].order
    <3>1. i \in Orders(p, p[i].order)
      BY <2>1 DEF Orders
    <3>2. QED
      BY <1>3, <1>5, <3>1
  <2>2. ASSUME NEW x \in Ids, on2.order = x, NEW i \in Updates(p, x)
        PROVE  /\ on2.executing /\ p[i].update = on2.update + 1
               /\ on2.base < p[i].base /\ p[i].base <= Len(on2.route)
    BY <1>3, <1>5, <2>2
  <2>3. ASSUME NEW x \in Ids, on2.order = x \/ Orders(p, x) # {},
               NEW i \in Updates(p, x), NEW j \in Updates(p, x)
        PROVE  i = j
    BY <1>1, <1>3, <1>5, <2>3 DEF Truck, WireOK
  <2>4. QED
    BY <1>1, <2>1, <2>2, <2>3 DEF Truck, WireOK
<1>8. ASSUME NEW leg \in LegType, NEW x \in Ids, LegOK(leg), InStep(leg, x, on, q, s)
      PROVE  InStep(leg, x, on2, p, s)
  <2>1. InStep(leg, x, on, p, s)
    BY <1>1, <1>8 DEF Agrees
  <2>2. Ordered(leg, x, on2, p, s)
    BY <1>3, <1>5, <2>1 DEF InStep, Ordered
  <2>3. CASE x # o
    <3>1. Extended(leg, x, on2, p)
      BY <1>5, <2>1, <2>3 DEF InStep, Extended
    <3>2. Driven(leg, x, on2, p, s)
      BY <1>5, <2>3 DEF Driven
    <3>3. Reported(leg, x, on2, s)
      BY <1>5, <2>1, <2>3 DEF InStep, Reported
    <3>4. QED
      BY <2>2, <3>1, <3>2, <3>3 DEF InStep
  <2>4. CASE x = o
    <3>1. /\ msg.route = leg.path /\ msg.base = leg.released
          /\ leg.update = 0 /\ leg.last = leg.path[1] /\ on.refused # o
          /\ s # None => s.order # o /\ s.refused # o
          /\ \A i \in Updates(p, o) :
                leg.pending # None /\ p[i].update = leg.pending.update
                /\ p[i].base = leg.pending.released
      BY <1>3, <1>8, <2>4
    <3>2. Extended(leg, x, on2, p)
      BY <2>4, <3>1 DEF Extended
    <3>3. At(leg) = 1
      <4>1. leg.path \in Paths
        BY LegFields
      <4>2. Len(leg.path) \in Nat /\ Len(leg.path) >= 1
        BY <4>1, PathFacts
      <4>3. 1 \in 1 .. Len(leg.path)
        BY <4>2
      <4>4. QED
        BY <3>1, <4>1, <4>3, IndexOfNode DEF At
    <3>4. ~Refuses(x, on2, s)
      BY <1>5, <2>4, <3>1 DEF Refuses
    <3>5. Driven(leg, x, on2, p, s)
      BY <1>5, <3>1, <3>3, <3>4 DEF Driven, Refuses
    <3>6. Reported(leg, x, on2, s)
      BY <2>4, <3>1 DEF Reported
    <3>7. QED
      BY <2>2, <3>2, <3>5, <3>6 DEF InStep
  <2>5. QED
    BY <2>3, <2>4
<1>9. QED
  BY <1>1, <1>6, <1>7, <1>8 DEF Agrees, Truck

\* An update is taken by the truck that drives its order.
LEMMA UpdateTaken ==
    ASSUME NEW on, NEW q, NEW s, Truck(on, q, s), NEW p, Shorter(q, p),
           NEW msg \in UpdateMsg, q[1] = msg, on.order = msg.order,
           NEW on2, on2 = [on EXCEPT !.update = msg.update, !.base = msg.base]
    PROVE  Truck(on2, p, s) /\ Agrees(on, q, s, on2, p, s)
<1> DEFINE o == msg.order
<1>1. Truck(on, p, s) /\ Agrees(on, q, s, on, p, s)
  BY HeadLost
<1>2. msg.kind = "update" /\ o \in Ids /\ msg.update \in Nat /\ msg.base \in Nat
  BY DEF UpdateMsg
<1>3. /\ Orders(p, o) = {}
      /\ Updates(p, o) = {} /\ on.executing /\ msg.update = on.update + 1
      /\ on.base < msg.base /\ msg.base <= Len(on.route)
      /\ \A leg : InStep(leg, o, on, q, s) =>
            /\ leg.pending # None /\ msg.update = leg.pending.update
            /\ msg.base = leg.pending.released
            /\ ~Refuses(o, on, s)
            /\ on.update = leg.update /\ on.base = leg.released
  <2>1. UpdateFirst(on, q, s, p, o) /\ on.order = o
    BY <1>2, UpdateAtHead
  <2> HIDE DEF o
  <2>2. QED
    BY <2>1 DEF UpdateFirst
<1>4. on \in TruckStates /\ TruckOK(on)
  BY DEF Truck, TruckOK
<1>5. /\ on2 \in TruckStates
      /\ on2.order = on.order /\ on2.update = msg.update /\ on2.base = msg.base
      /\ on2.route = on.route /\ on2.pos = on.pos
      /\ on2.executing = on.executing /\ on2.stopping = on.stopping
      /\ on2.refused = on.refused
  BY <1>2, <1>4 DEF TruckStates
<1> HIDE DEF o
<1>6. TruckOK(on2)
  <2>1. /\ on.pos \in Nat /\ on.base \in Nat /\ on.pos <= on.base /\ on.order # None
        /\ 1 <= on.base
    BY <1>2, <1>4, Nones DEF TruckOK, TruckStates, o
  <2>2. on2.pos <= on2.base /\ 1 <= on2.base /\ on2.base <= Len(on2.route)
    BY <1>2, <1>3, <1>5, <2>1
  <2>3. QED
    BY <1>3, <1>4, <1>5, <2>2 DEF TruckOK
<1>7. on.order = o
  BY DEF o
<1>8. WireOK(on2, p)
  BY <1>1, <1>3, <1>5, <1>7 DEF Truck, WireOK
<1>9. ASSUME NEW leg \in LegType, NEW x \in Ids, LegOK(leg), InStep(leg, x, on, q, s)
      PROVE  InStep(leg, x, on2, p, s)
  <2>1. InStep(leg, x, on, p, s)
    BY <1>1, <1>9 DEF Agrees
  <2>2. Ordered(leg, x, on2, p, s) /\ Extended(leg, x, on2, p)
    BY <1>5, <2>1 DEF InStep, Ordered, Extended
  <2>3. Refuses(x, on2, s) <=> Refuses(x, on, s)
    BY <1>5 DEF Refuses
  <2>4. CASE x # o
    <3>1. Driven(leg, x, on2, p, s) /\ Reported(leg, x, on2, s)
      BY <1>5, <1>7, <2>1, <2>4 DEF InStep, Driven, Reported
    <3>2. QED
      BY <2>2, <3>1 DEF InStep
  <2>5. CASE x = o
    <3>1. /\ leg.pending # None /\ msg.update = leg.pending.update
          /\ msg.base = leg.pending.released /\ ~Refuses(x, on, s)
      BY <1>3, <1>9, <2>5
    <3>2. Driven(leg, x, on2, p, s)
      BY <1>3, <1>5, <1>7, <2>1, <2>3, <2>5, <3>1 DEF InStep, Driven, Refuses
    <3>3. Reported(leg, x, on2, s)
      <4>1. SUFFICES ASSUME s # None, s.order = x PROVE s.update <= on2.update
        BY <1>5, <2>1 DEF InStep, Reported
      <4>2. s.update <= on.update
        BY <1>7, <2>1, <2>5, <4>1 DEF InStep, Reported
      <4>3. s.update \in Nat /\ on.update \in Nat
        BY <1>4, <4>1 DEF Truck, ReportStates, TruckStates
      <4>4. QED
        BY <1>3, <1>5, <4>2, <4>3
    <3>4. QED
      BY <2>2, <3>2, <3>3 DEF InStep
  <2>6. QED
    BY <2>4, <2>5
<1>10. QED
  BY <1>1, <1>6, <1>8, <1>9 DEF Agrees, Truck

LEMMA MessageKinds ==
    ASSUME NEW msg \in Message
    PROVE  \/ msg.kind = "order" /\ msg \in OrderMsg /\ msg.order \in Ids
           \/ msg.kind = "update" /\ msg \in UpdateMsg /\ msg.order \in Ids
           \/ msg.kind = "cancel"
BY DEF Message, OrderMsg, UpdateMsg, CancelMsg

Delivered(on, msg) ==
    CASE msg.kind = "order"  -> TakeOrder(on, msg)
      [] msg.kind = "update" -> TakeUpdate(on, msg)
      [] msg.kind = "cancel" -> TakeCancel(on)

LEMMA DeliverMoves ==
    ASSUME NEW on, NEW q, NEW s, Truck(on, q, s), q # << >>,
           NEW p, p = Tail(q), NEW on2, on2 = Delivered(on, Head(q))
    PROVE  Truck(on2, p, s) /\ Agrees(on, q, s, on2, p, s)
<1> DEFINE msg == Head(q)
<1>1. Shorter(q, p) /\ q[1] = msg /\ msg \in Message
  <2>1. q \in Seq(Message)
    BY DEF Truck
  <2>2. QED
    BY <2>1, TailIsShorter
<1>2. on2 = Delivered(on, msg)
  OBVIOUS
<1> HIDE DEF msg
<1>3. CASE msg.kind = "order" /\ msg \in OrderMsg /\ msg.order \in Ids
  <2>1. on2 = TakeOrder(on, msg)
    BY <1>2, <1>3 DEF Delivered
  <2>2. CASE ~on.executing
    BY <1>1, <1>3, <2>1, <2>2, OrderTaken
  <2>3. CASE on.executing
    <3>1. on2 = [on EXCEPT !.refused = msg.order]
      BY <2>1, <2>3 DEF TakeOrder
    <3>2. OrderFirst(on, q, s, p, msg.order)
      BY <1>1, <1>3, OrderAtHead
    <3>3. Refusable(on, q, p, s, msg.order)
      BY <3>2 DEF OrderFirst, Refusable
    <3>4. QED
      BY <1>1, <1>3, <3>1, <3>3, Refused
  <2>4. QED
    BY <2>2, <2>3
<1>4. CASE msg.kind = "update" /\ msg \in UpdateMsg /\ msg.order \in Ids
  <2>1. on2 = TakeUpdate(on, msg)
    BY <1>2, <1>4 DEF Delivered
  <2>2. CASE on2 = [on EXCEPT !.update = msg.update, !.base = msg.base] /\ on.order = msg.order
    BY <1>1, <1>4, <2>2, UpdateTaken
  <2>3. CASE on2 = [on EXCEPT !.refused = msg.order]
    <3>1. UpdateFirst(on, q, s, p, msg.order)
      BY <1>1, <1>4, UpdateAtHead
    <3>2. Refusable(on, q, p, s, msg.order)
      BY <3>1 DEF UpdateFirst, Refusable
    <3>3. QED
      BY <1>1, <1>4, <2>3, <3>2, Refused
  <2>4. QED
    BY <2>1, <2>2, <2>3 DEF TakeUpdate
<1>5. CASE msg.kind = "cancel"
  <2>1. on2 = TakeCancel(on)
    BY <1>2, <1>5 DEF Delivered
  <2>2. QED
    BY <1>1, <2>1, CancelTaken
<1>6. QED
  BY <1>1, <1>3, <1>4, <1>5, MessageKinds

\* Nobody has anything of the book's still to send.
Unsent(m) == \A v \in Trucks : m.sent[v] = << >>

LEMMA NothingToSend ==
    ASSUME NEW m, Unsent(m), NEW v \in Trucks, NEW q \in Seq(Message)
    PROVE  q \o m.sent[v] = q
BY EmptySeq, ConcatEmptySeq DEF Unsent

\* A truck or its wire moves.
\* The book m stays while v alone may have moved.
Moves(m, on, q, s, v, on2, q2, s2) ==
    /\ Sound(m, on, q, s) /\ Unsent(m)
    /\ q \in [Trucks -> Seq(Message)] /\ q2 \in [Trucks -> Seq(Message)]
    /\ \A u \in Trucks \ {v} : on2[u] = on[u] /\ q2[u] = q[u] /\ s2[u] = s[u]
    /\ Truck(on2[v], q2[v], s2[v]) /\ Agrees(on[v], q[v], s[v], on2[v], q2[v], s2[v])

LEMMA SoundAfterTruck ==
    ASSUME NEW m, NEW on, NEW q, NEW s, NEW v \in Trucks, NEW on2, NEW q2, NEW s2,
           Moves(m, on, q, s, v, on2, q2, s2)
    PROVE  Sound(m, on2, q2, s2)
<1>0. /\ Sound(m, on, q, s) /\ Unsent(m)
      /\ q \in [Trucks -> Seq(Message)] /\ q2 \in [Trucks -> Seq(Message)]
      /\ \A u \in Trucks \ {v} : on2[u] = on[u] /\ q2[u] = q[u] /\ s2[u] = s[u]
      /\ Truck(on2[v], q2[v], s2[v]) /\ Agrees(on[v], q[v], s[v], on2[v], q2[v], s2[v])
  BY DEF Moves
<1>1. BookOK(m)
  BY <1>0 DEF Sound
<1>2. ASSUME NEW u \in Trucks PROVE Fine(m, u, on[u], q[u], s[u])
  <2>1. q[u] \o m.sent[u] = q[u]
    BY <1>0, NothingToSend
  <2>2. QED
    BY <1>0, <2>1 DEF Sound
<1>3. ASSUME NEW u \in Trucks PROVE Fine(m, u, on2[u], q2[u] \o m.sent[u], s2[u])
  <2>1. q2[u] \o m.sent[u] = q2[u]
    BY <1>0, NothingToSend
  <2>2. CASE u = v
    BY <1>0, <1>1, <1>2, <2>1, <2>2, TruckMoves
  <2>3. CASE u # v
    BY <1>0, <1>2, <2>1, <2>3
  <2>4. QED
    BY <2>2, <2>3
<1>4. QED
  BY <1>1, <1>3 DEF Sound

\* The manager reads a truck's state.
LEMMA SoundAfterReading ==
    ASSUME NEW m, NEW on, NEW q, NEW s, Sound(m, on, q, s),
           NEW v \in Trucks, NEW n, Handled(m, n, v, on[v], q[v], None),
           NEW s2, s2[v] = None, \A u \in Trucks \ {v} : s2[u] = s[u]
    PROVE  Sound(n, on, q, s2)
<1>1. BookOK(n) /\ Others(m, n, v) /\ Fine(n, v, on[v], q[v] \o n.sent[v], s2[v])
  BY DEF Handled
<1>2. ASSUME NEW u \in Trucks \ {v} PROVE Fine(n, u, on[u], q[u] \o n.sent[u], s2[u])
  <2>1. Same(m, n, u)
    BY <1>1 DEF Others
  <2>2. Fine(m, u, on[u], q[u] \o m.sent[u], s[u]) /\ n.sent[u] = m.sent[u]
    BY <2>1 DEF Sound, Same
  <2>3. Fine(n, u, on[u], q[u] \o m.sent[u], s[u])
    BY <2>1, <2>2, SameIsFine
  <2>4. QED
    BY <2>2, <2>3
<1>3. QED
  BY <1>1, <1>2 DEF Sound

\* What a step of the manager sent goes on the wire.
Posted(m)   == [m EXCEPT !.sent = [v \in Trucks |-> << >>]]
Wired(q, m) == [v \in Trucks |-> q[v] \o m.sent[v]]

LEMMA SoundWhenSent ==
    ASSUME NEW m, NEW on, NEW q \in [Trucks -> Seq(Message)], NEW s, Sound(m, on, q, s),
           NEW n, n = Posted(m), NEW p, p = Wired(q, m)
    PROVE  Sound(n, on, p, s) /\ p \in [Trucks -> Seq(Message)] /\ Unsent(n)
<1>1. BookOK(m) /\ Kept(m) /\ m \in Books
  BY DEF Sound, BookOK, Kept
<1> DEFINE none == [v \in Trucks |-> << >>]
<1>2. none \in [Trucks -> Seq(Message)]
  BY EmptySeq
<1>3. n = Book(m.ledger, m.queue, m.task, m.seen, m.chase, m.aside, m.shuffles, none)
  BY <1>1, BookUpdates DEF Posted
<1> HIDE DEF none
<1>4. /\ n.ledger = m.ledger /\ n.queue = m.queue /\ n.task = m.task /\ n.seen = m.seen
      /\ n.chase = m.chase /\ n.aside = m.aside /\ n.shuffles = m.shuffles /\ n.sent = none
  BY <1>3, BookFields
<1>5. /\ m.ledger \in LedgerType /\ m.queue \in Seq(Tasks) /\ m.task \in [Tasks -> TaskType]
      /\ m.seen \in [Trucks -> Seen] /\ m.chase \in [Trucks -> Ids \cup {None}]
      /\ m.aside \in [Trucks -> Aside \cup {None}]
      /\ m.shuffles \in [Trucks -> 0 .. AsideMax] /\ m.sent \in [Trucks -> Seq(Message)]
  BY <1>1, BookTypes
<1>6. n \in Books
  BY <1>2, <1>3, <1>4, <1>5, BookOfFields
<1>7. BookOK(n)
  BY <1>1, <1>4, <1>6 DEF BookOK, Kept
<1>8. p \in [Trucks -> Seq(Message)]
  <2>1. ASSUME NEW v \in Trucks PROVE q[v] \o m.sent[v] \in Seq(Message)
    BY <1>5, ConcatProperties
  <2>2. QED
    BY <2>1 DEF Wired
<1>9. Unsent(n)
  BY <1>4 DEF Unsent, none
<1>10. ASSUME NEW v \in Trucks PROVE Fine(n, v, on[v], p[v] \o n.sent[v], s[v])
  <2>0. p[v] = q[v] \o m.sent[v] /\ p[v] \in Seq(Message)
    BY <1>8 DEF Wired
  <2>1. p[v] \o n.sent[v] = p[v] /\ p[v] = q[v] \o m.sent[v]
    BY <1>9, <2>0, NothingToSend
  <2>2. Fine(m, v, on[v], p[v], s[v])
    BY <2>1 DEF Sound
  <2>3. Fine(n, v, on[v], p[v], s[v])
    BY <1>4, <2>2 DEF Fine, Steady, Settled, OnLeg, Located, Carries
  <2>4. QED
    BY <2>1, <2>3
<1>11. QED
  BY <1>7, <1>8, <1>9, <1>10 DEF Sound

-----------------------------------------------------------------------------
(* The steps of the specification. *)

LEMMA FiniteTriple ==
    ASSUME NEW a, NEW b, NEW c
    PROVE  IsFiniteSet({a, b, c})
<1>1. IsFiniteSet({a} \cup {b}) /\ IsFiniteSet({c})
  BY FS_Singleton, FS_Union
<1>2. IsFiniteSet(({a} \cup {b}) \cup {c})
  BY <1>1, FS_Union
<1>3. {a, b, c} = ({a} \cup {b}) \cup {c}
  OBVIOUS
<1>4. QED
  BY <1>2, <1>3

LEMMA KnownIdsSuffice ==
    ASSUME FleetInv
    PROVE  KnowsAll(KnownIds, truck, wire, report)
<1> DEFINE f == [v \in Trucks |-> {truck[v].order, truck[v].fin, truck[v].refused}]
           g == [v \in Trucks |-> Named(wire[v])]
           told == {u \in Trucks : report[u] # None}
           h == [v \in told |-> {report[v].order, report[v].fin, report[v].refused}]
           A == UNION {{truck[v].order, truck[v].fin, truck[v].refused} : v \in Trucks}
           B == UNION {{msg.order : msg \in {n \in Range(wire[v]) : n.kind # "cancel"}} :
                           v \in Trucks}
           C == UNION {{report[v].order, report[v].fin, report[v].refused} :
                          v \in {u \in Trucks : report[u] # None}}
<1>1. KnownIds = A \cup B \cup C
  BY DEF KnownIds
<1>2. IsFiniteSet(Trucks)
  BY FloorAssumption
<1>3. IsFiniteSet(told)
  BY <1>2, FS_Subset
<1>4. \A v \in Trucks : IsFiniteSet(f[v])
  BY FiniteTriple
<1>5. \A v \in Trucks : IsFiniteSet(g[v])
  <2>1. \A v \in Trucks : wire[v] \in Seq(Message)
    BY DEF FleetInv
  <2>2. QED
    BY <2>1, NamedIsFinite
<1>6. \A v \in told : IsFiniteSet(h[v])
  BY FiniteTriple
<1>7. ASSUME NEW v \in Trucks
      PROVE  /\ {truck[v].order, truck[v].refused} \cup Named(wire[v]) \subseteq KnownIds
             /\ report[v] # None => {report[v].order, report[v].refused} \subseteq KnownIds
  <2>1. {truck[v].order, truck[v].refused} \subseteq A
    OBVIOUS
  <2>2. Named(wire[v]) \subseteq B
    BY DEF Named
  <2>3. report[v] # None => {report[v].order, report[v].refused} \subseteq C
    OBVIOUS
  <2> HIDE DEF A, B, C
  <2>4. QED
    BY <1>1, <2>1, <2>2, <2>3
<1>8. IsFiniteSet(KnownIds)
  <2>0. /\ A = UNION {f[v] : v \in Trucks} /\ B = UNION {g[v] : v \in Trucks}
        /\ C = UNION {h[v] : v \in told}
    <3>1. A = UNION {f[v] : v \in Trucks}
      OBVIOUS
    <3>2. B = UNION {g[v] : v \in Trucks}
      BY DEF Named
    <3>3. C = UNION {h[v] : v \in told}
      OBVIOUS
    <3>4. QED
      BY <3>1, <3>2, <3>3
  <2> HIDE DEF f, g, h, told, A, B, C
  <2>1. IsFiniteSet(A)
    BY <1>2, <1>4, <2>0, FiniteUnionOver
  <2>2. IsFiniteSet(B)
    BY <1>2, <1>5, <2>0, FiniteUnionOver
  <2>3. IsFiniteSet(C)
    BY <1>3, <1>6, <2>0, FiniteUnionOver
  <2>4. QED
    BY <1>1, <2>1, <2>2, <2>3, FS_Union
<1>9. QED
  BY <1>7, <1>8 DEF KnowsAll, Knows

LEMMA SoundDrained ==
    ASSUME UuidsNeverRunOut, FleetInv, NEW clock, NEW trucks,
           clock = "STALL_GIVE_UP_S" => trucks \in SUBSET Trucks
    PROVE  Sound(Drained(clock, trucks), truck, wire, report)
<1> DEFINE out(c) == IF c = clock THEN trucks ELSE {}
           passed == TrafficPass(book, out("STANDSTILL_S"), out("ASIDE_S"), KnownIds)
           dwelt  == ExpireDwells(passed, out("ACTION_WAIT_S"), KnownIds)
           kept   == Stalled(dwelt, out("STALL_GIVE_UP_S"))
<1>1. Drained(clock, trucks) = Assign(kept, KnownIds)
  BY DEF Drained, Stalled
<1>2. wire \in [Trucks -> Seq(Message)] /\ Sound(book, truck, wire, report)
  BY DEF FleetInv
<1>3. KnowsAll(KnownIds, truck, wire, report)
  BY KnownIdsSuffice
<1>4. out("STALL_GIVE_UP_S") \in SUBSET Trucks
  OBVIOUS
<1> HIDE DEF out
<1>5. Sound(passed, truck, wire, report)
  BY <1>2, <1>3, TrafficPassFold
<1> HIDE DEF passed
<1>6. Sound(dwelt, truck, wire, report)
  BY <1>2, <1>3, <1>5, DwellFold
<1> HIDE DEF dwelt
<1>7. Sound(kept, truck, wire, report)
  BY <1>2, <1>4, <1>6, StallFold
<1> HIDE DEF kept
<1>8. QED
  BY <1>1, <1>2, <1>3, <1>7, AssignCall

\* The manager has read a state or drained.
LEMMA PutKeeps ==
    ASSUME FleetInv, NEW m, Put(m), truck' = truck,
           report' \in [Trucks -> ReportStates \cup {None}], Sound(m, truck, wire, report')
    PROVE  FleetInv'
<1>1. wire \in [Trucks -> Seq(Message)] /\ truck \in [Trucks -> TruckStates]
  BY DEF FleetInv
<1>2. book' = Posted(m) /\ wire' = Wired(wire, m)
  BY DEF Put, Posted, Wired
<1>3. Sound(book', truck, wire', report') /\ wire' \in [Trucks -> Seq(Message)] /\ Unsent(book')
  BY <1>1, <1>2, SoundWhenSent
<1>4. QED
  BY <1>1, <1>3 DEF FleetInv, Unsent

LEMMA DrainKeeps ==
    ASSUME UuidsNeverRunOut, FleetInv, ManagerDrains
    PROVE  FleetInv'
<1>1. PICK clock, trucks :
         Drain(clock, trucks) /\ (clock = "STALL_GIVE_UP_S" => trucks \in SUBSET Trucks)
  <2>1. CASE Drain("none", {})
    BY <2>1
  <2>2. CASE \E clock \in Clocks : \E trucks \in HeldUp(clock) : Drain(clock, trucks)
    <3>0. PICK clock \in Clocks : \E trucks \in HeldUp(clock) : Drain(clock, trucks)
      BY <2>2
    <3>1. PICK trucks \in HeldUp(clock) : Drain(clock, trucks)
      BY <3>0
    <3>2. clock = "STALL_GIVE_UP_S" => trucks \in SUBSET Trucks
      BY <3>1 DEF HeldUp
    <3>3. QED
      BY <3>1, <3>2
  <2>3. QED
    BY <2>1, <2>2 DEF ManagerDrains
<1>2. Sound(Drained(clock, trucks), truck, wire, report)
  BY <1>1, SoundDrained
<1>3. Put(Drained(clock, trucks)) /\ truck' = truck /\ report' = report
  BY <1>1 DEF Drain
<1>4. report' \in [Trucks -> ReportStates \cup {None}]
  BY <1>3 DEF FleetInv
<1>5. QED
  BY <1>2, <1>3, <1>4, PutKeeps

LEMMA ReadKeeps ==
    ASSUME FleetInv, NEW v \in Trucks, NEW retry, ReadState(v, retry)
    PROVE  FleetInv'
<1>1. PICK unreported : Put(OnState(book, v, report[v], retry, unreported))
  BY DEF ReadState
<1>2. report[v] # None /\ report' = [report EXCEPT ![v] = None] /\ truck' = truck
  BY DEF ReadState
<1>3. /\ report \in [Trucks -> ReportStates \cup {None}] /\ wire[v] \in Seq(Message)
      /\ Sound(book, truck, wire, report)
  BY DEF FleetInv
<1>4. /\ report' \in [Trucks -> ReportStates \cup {None}] /\ report'[v] = None
      /\ \A u \in Trucks \ {v} : report'[u] = report[u]
  BY <1>2, <1>3
<1>5. report[v] \in ReportStates
  BY <1>2, <1>3
<1>6. BookOK(book) /\ Steady(book, v, truck[v], wire[v] \o book.sent[v], report[v])
  BY <1>3 DEF Sound, Fine
<1>7. Handled(book, OnState(book, v, report[v], retry, unreported), v, truck[v], wire[v], None)
  BY <1>2, <1>3, <1>5, <1>6, OnStateCall
<1>8. Sound(OnState(book, v, report[v], retry, unreported), truck, wire, report')
  BY <1>3, <1>4, <1>7, SoundAfterReading
<1>9. QED
  BY <1>1, <1>2, <1>4, <1>8, PutKeeps

LEMMA TruckKeeps ==
    ASSUME FleetInv, NEW v \in Trucks, book' = book,
           truck' \in [Trucks -> TruckStates], wire' \in [Trucks -> Seq(Message)],
           report' \in [Trucks -> ReportStates \cup {None}],
           \A u \in Trucks \ {v} :
              truck'[u] = truck[u] /\ wire'[u] = wire[u] /\ report'[u] = report[u],
           Truck(truck'[v], wire'[v], report'[v]),
           Agrees(truck[v], wire[v], report[v], truck'[v], wire'[v], report'[v])
    PROVE  FleetInv'
<1>1. Sound(book, truck, wire, report) /\ Unsent(book) /\ wire \in [Trucks -> Seq(Message)]
  BY DEF FleetInv, Unsent
<1>2. Sound(book, truck', wire', report')
  <2>1. Moves(book, truck, wire, report, v, truck', wire', report')
    BY <1>1 DEF Moves
  <2>2. QED
    BY <2>1, SoundAfterTruck
<1>3. Sound(book', truck', wire', report')
  BY <1>2
<1>4. \A u \in Trucks : book'.sent[u] = << >>
  BY <1>1 DEF Unsent
<1>5. QED
  BY <1>3, <1>4 DEF FleetInv

\* What the invariant says of one truck.
LEMMA OneTruck ==
    ASSUME FleetInv, NEW v \in Trucks
    PROVE  /\ Truck(truck[v], wire[v], report[v])
           /\ truck \in [Trucks -> TruckStates] /\ wire \in [Trucks -> Seq(Message)]
           /\ report \in [Trucks -> ReportStates \cup {None}]
<1>1. truck \in [Trucks -> TruckStates] /\ wire \in [Trucks -> Seq(Message)]
      /\ report \in [Trucks -> ReportStates \cup {None}]
  BY DEF FleetInv
<1>2. wire[v] \o book.sent[v] = wire[v]
  <2>1. Unsent(book) /\ wire[v] \in Seq(Message)
    BY DEF FleetInv, Unsent
  <2>2. QED
    BY <2>1, NothingToSend
<1>3. Fine(book, v, truck[v], wire[v] \o book.sent[v], report[v])
  BY DEF FleetInv, Sound
<1>4. QED
  BY <1>1, <1>2, <1>3 DEF Fine, Steady

LEMMA TruckMovesKeep ==
    ASSUME FleetInv, NEW v \in Trucks, UNCHANGED book,
           NEW on2, truck' = [truck EXCEPT ![v] = on2],
           NEW q2, wire' = [wire EXCEPT ![v] = q2],
           NEW s2, report' = [report EXCEPT ![v] = s2],
           Truck(on2, q2, s2), Agrees(truck[v], wire[v], report[v], on2, q2, s2)
    PROVE  FleetInv'
<1>1. on2 \in TruckStates /\ q2 \in Seq(Message) /\ s2 \in ReportStates \cup {None}
  BY DEF Truck, TruckOK
<1>2. /\ truck \in [Trucks -> TruckStates] /\ wire \in [Trucks -> Seq(Message)]
      /\ report \in [Trucks -> ReportStates \cup {None}]
  BY OneTruck
<1>3. /\ truck' \in [Trucks -> TruckStates] /\ wire' \in [Trucks -> Seq(Message)]
      /\ report' \in [Trucks -> ReportStates \cup {None}]
      /\ truck'[v] = on2 /\ wire'[v] = q2 /\ report'[v] = s2
      /\ \A u \in Trucks \ {v} :
            truck'[u] = truck[u] /\ wire'[u] = wire[u] /\ report'[u] = report[u]
  BY <1>1, <1>2
<1>4. book' = book
  OBVIOUS
<1>5. QED
  BY <1>3, <1>4, TruckKeeps

LEMMA PublishKeeps ==
    ASSUME FleetInv, NEW v \in Trucks, Publish(v)
    PROVE  FleetInv'
<1> DEFINE on == truck[v]
           on2 == [on EXCEPT !.refused = None]
           s2 == Published(on)
<1>1. Truck(on, wire[v], report[v]) /\ truck \in [Trucks -> TruckStates]
      /\ wire \in [Trucks -> Seq(Message)] /\ report \in [Trucks -> ReportStates \cup {None}]
  BY OneTruck
<1>2. report[v] = None /\ book' = book /\ wire' = wire
  BY DEF Publish
<1>3. report' = [report EXCEPT ![v] = s2]
  BY DEF Publish, Published
<1>4. truck' = [truck EXCEPT ![v] = on2]
  BY <1>1 DEF Publish
<1>5. wire' = [wire EXCEPT ![v] = wire[v]]
  BY <1>1, <1>2
<1>6. Truck(on2, wire[v], s2) /\ Agrees(on, wire[v], report[v], on2, wire[v], s2)
  BY <1>1, <1>2, PublishMoves
<1> HIDE DEF on2, s2
<1>7. QED
  BY <1>2, <1>3, <1>4, <1>5, <1>6, TruckMovesKeep

LEMMA DeliverKeeps ==
    ASSUME FleetInv, NEW v \in Trucks, Deliver(v)
    PROVE  FleetInv'
<1> DEFINE on == truck[v]
           on2 == Delivered(on, Head(wire[v]))
           q2 == Tail(wire[v])
<1>1. Truck(on, wire[v], report[v]) /\ truck \in [Trucks -> TruckStates]
      /\ wire \in [Trucks -> Seq(Message)] /\ report \in [Trucks -> ReportStates \cup {None}]
  BY OneTruck
<1>2. wire[v] # << >> /\ book' = book /\ report' = report
  BY DEF Deliver
<1>3. wire' = [wire EXCEPT ![v] = q2] /\ report' = [report EXCEPT ![v] = report[v]]
  BY <1>1, <1>2 DEF Deliver
<1>4. truck' = [truck EXCEPT ![v] = on2]
  BY <1>1 DEF Deliver, Delivered
<1>5. Truck(on2, q2, report[v]) /\ Agrees(on, wire[v], report[v], on2, q2, report[v])
  BY <1>1, <1>2, DeliverMoves
<1> HIDE DEF on2, q2
<1>6. QED
  BY <1>2, <1>3, <1>4, <1>5, TruckMovesKeep

LEMMA LoseKeeps ==
    ASSUME FleetInv, NEW v \in Trucks, Lose(v)
    PROVE  FleetInv'
<1>1. Truck(truck[v], wire[v], report[v]) /\ truck \in [Trucks -> TruckStates]
      /\ wire \in [Trucks -> Seq(Message)] /\ report \in [Trucks -> ReportStates \cup {None}]
  BY OneTruck
<1>2. book' = book /\ truck' = truck /\ truck' = [truck EXCEPT ![v] = truck[v]]
  BY <1>1 DEF Lose
<1>3. CASE wire[v] # << >> /\ wire' = [wire EXCEPT ![v] = Tail(@)] /\ report' = report
  <2> DEFINE q2 == Tail(wire[v])
  <2>1. wire' = [wire EXCEPT ![v] = q2] /\ report' = [report EXCEPT ![v] = report[v]]
    BY <1>1, <1>3
  <2>2. Shorter(wire[v], q2)
    BY <1>1, <1>3, TailIsShorter
  <2>3. Truck(truck[v], q2, report[v])
        /\ Agrees(truck[v], wire[v], report[v], truck[v], q2, report[v])
    BY <1>1, <2>2, HeadLost
  <2> HIDE DEF q2
  <2>4. QED
    BY <1>2, <2>1, <2>3, TruckMovesKeep
<1>4. CASE report' = [report EXCEPT ![v] = None] /\ wire' = wire
  <2>1. wire' = [wire EXCEPT ![v] = wire[v]]
    BY <1>1, <1>4
  <2>2. Truck(truck[v], wire[v], None)
        /\ Agrees(truck[v], wire[v], report[v], truck[v], wire[v], None)
    BY <1>1, StateLost
  <2>3. QED
    BY <1>2, <1>4, <2>1, <2>2, TruckMovesKeep
<1>5. QED
  BY <1>3, <1>4 DEF Lose

\* A truck a node further, one that is through, and one that was stopped.
Further(on, p, n)  == [on EXCEPT !.pos = p, !.node = n]
Unloaded(on, r, z) == [on EXCEPT !.stopping = FALSE, !.route = r, !.base = z, !.pos = z]

LEMMA FurtherIsThere ==
    ASSUME NEW on \in TruckStates, NEW p, NEW n, p \in Nat, n \in Nodes, NEW on2,
           on2 = Further(on, p, n)
    PROVE  /\ on2 \in TruckStates /\ on2.pos = p
           /\ on2.order = on.order /\ on2.update = on.update /\ on2.refused = on.refused
           /\ on2.route = on.route /\ on2.base = on.base /\ on2.executing = on.executing
           /\ on2.stopping = on.stopping
<1>1. on2 = [node |-> n, order |-> on.order, update |-> on.update, route |-> on.route,
             base |-> on.base, pos |-> p, executing |-> on.executing, stopping |-> on.stopping,
             fin |-> on.fin, refused |-> on.refused]
  BY DEF TruckStates, Further
<1>2. /\ on.order \in Ids \cup {None} /\ on.update \in Nat /\ on.route \in Seq(Nodes)
      /\ on.base \in Nat /\ on.executing \in BOOLEAN /\ on.stopping \in BOOLEAN
      /\ on.fin \in Ids \cup {None} /\ on.refused \in Ids \cup {None}
  BY DEF TruckStates
<1>3. QED
  BY <1>1, <1>2 DEF TruckStates

LEMMA Halted ==
    ASSUME NEW on \in TruckStates, NEW on2,
           on2 = [on EXCEPT !.executing = FALSE, !.stopping = FALSE]
    PROVE  /\ on2 \in TruckStates /\ on2.pos = on.pos
           /\ on2.order = on.order /\ on2.update = on.update /\ on2.refused = on.refused
           /\ on2.route = on.route /\ on2.base = on.base /\ on2.executing = FALSE
           /\ on2.stopping = FALSE
<1>1. on2 = [node |-> on.node, order |-> on.order, update |-> on.update, route |-> on.route,
             base |-> on.base, pos |-> on.pos, executing |-> FALSE, stopping |-> FALSE,
             fin |-> on.fin, refused |-> on.refused]
  BY DEF TruckStates
<1>2. /\ on.order \in Ids \cup {None} /\ on.update \in Nat /\ on.route \in Seq(Nodes)
      /\ on.base \in Nat /\ on.pos \in Nat /\ on.node \in Nodes
      /\ on.fin \in Ids \cup {None} /\ on.refused \in Ids \cup {None}
  BY DEF TruckStates
<1>3. QED
  BY <1>1, <1>2 DEF TruckStates

LEMMA UnloadedStands ==
    ASSUME NEW on \in TruckStates, NEW r, NEW z, r \in Seq(Nodes), z \in Nat,
           NEW on2, on2 = Unloaded(on, r, z)
    PROVE  /\ on2 \in TruckStates /\ on2.pos = z /\ on2.base = z /\ on2.route = r
           /\ on2.order = on.order /\ on2.update = on.update /\ on2.refused = on.refused
           /\ on2.executing = on.executing
<1>1. on2 = [node |-> on.node, order |-> on.order, update |-> on.update, route |-> r,
             base |-> z, pos |-> z, executing |-> on.executing, stopping |-> FALSE,
             fin |-> on.fin, refused |-> on.refused]
  BY DEF TruckStates, Unloaded
<1>2. /\ on.order \in Ids \cup {None} /\ on.update \in Nat /\ on.node \in Nodes
      /\ on.executing \in BOOLEAN
      /\ on.fin \in Ids \cup {None} /\ on.refused \in Ids \cup {None}
  BY DEF TruckStates
<1>3. QED
  BY <1>1, <1>2 DEF TruckStates

\* Drive, Arrive, Work and Stopped leave the truck on the order it is on.
LEMMA MotionKeeps ==
    ASSUME FleetInv, NEW v \in Trucks, Drive(v) \/ Arrive(v) \/ Work(v) \/ Stopped(v)
    PROVE  FleetInv'
<1> DEFINE on == truck[v]
           on2 == truck'[v]
<1>1. Truck(on, wire[v], report[v]) /\ truck \in [Trucks -> TruckStates]
      /\ wire \in [Trucks -> Seq(Message)] /\ report \in [Trucks -> ReportStates \cup {None}]
  BY OneTruck
<1>2. on \in TruckStates /\ TruckOK(on)
  BY <1>1 DEF Truck, TruckOK
<1>3. /\ on.pos \in Nat /\ on.base \in Nat /\ on.route \in Seq(Nodes) /\ Len(on.route) \in Nat
      /\ on.pos <= on.base /\ on.base <= Len(on.route)
  BY <1>2, LenProperties DEF TruckStates, TruckOK
<1>4. book' = book /\ wire' = wire /\ report' = report
  BY DEF Drive, Arrive, Work, Stopped
<1>5. /\ truck' = [truck EXCEPT ![v] = on2]
      /\ TruckOK(on2) /\ OnSameOrder(on, on2)
      /\ on.order # None => on.pos <= on2.pos
      /\ on.executing => on2.executing \/ on.base = Len(on.route)
  <2>1. CASE Drive(v)
    <3>1. on2 = [on EXCEPT !.pos = on.pos + 1, !.node = on.route[on.pos + 1]]
          /\ truck' = [truck EXCEPT ![v] = on2] /\ on.pos < on.base
      BY <1>1, <2>1 DEF Drive
    <3>2. on.route[on.pos + 1] \in Nodes
      <4>1. on.pos + 1 \in 1 .. Len(on.route)
        BY <1>3, <3>1
      <4>2. QED
        BY <1>3, <4>1, ElementOfSeq
    <3>3. /\ on2 \in TruckStates /\ on2.pos = on.pos + 1
          /\ on2.order = on.order /\ on2.update = on.update /\ on2.refused = on.refused
          /\ on2.route = on.route /\ on2.base = on.base /\ on2.executing = on.executing
          /\ on2.stopping = on.stopping
      <4> DEFINE p == on.pos + 1
                 n == on.route[p]
      <4>1. p \in Nat /\ n \in Nodes /\ on2 = Further(on, p, n)
        BY <1>3, <3>1, <3>2 DEF Further
      <4> HIDE DEF on, on2, p, n
      <4>2. /\ on2 \in TruckStates /\ on2.pos = p
            /\ on2.order = on.order /\ on2.update = on.update /\ on2.refused = on.refused
            /\ on2.route = on.route /\ on2.base = on.base /\ on2.executing = on.executing
            /\ on2.stopping = on.stopping
        BY <1>2, <4>1, FurtherIsThere
      <4>3. QED
        BY <4>2 DEF p
    <3>4. TruckOK(on2)
      BY <1>2, <1>3, <3>1, <3>3 DEF TruckOK
    <3>5. QED
      BY <1>3, <3>1, <3>3, <3>4 DEF OnSameOrder
  <2>2. CASE Arrive(v)
    <3>1. on2 = [on EXCEPT !.executing = FALSE, !.stopping = FALSE]
          /\ truck' = [truck EXCEPT ![v] = on2] /\ on.pos = Len(on.route) /\ on.executing
      BY <1>1, <2>2 DEF Arrive
    <3>2. on.base = Len(on.route)
      BY <1>3, <3>1
    <3>3. /\ on2 \in TruckStates /\ on2.pos = on.pos
          /\ on2.order = on.order /\ on2.update = on.update /\ on2.refused = on.refused
          /\ on2.route = on.route /\ on2.base = on.base /\ on2.executing = FALSE
          /\ on2.stopping = FALSE
      <4> HIDE DEF on, on2
      <4>1. QED
        BY <1>2, <3>1, Halted
    <3>4. TruckOK(on2)
      BY <1>2, <3>2, <3>3 DEF TruckOK
    <3>5. QED
      BY <1>3, <3>1, <3>2, <3>3, <3>4 DEF OnSameOrder
  <2>3. CASE Work(v)
    <3>1. on2 = [on EXCEPT !.fin = on.order] /\ truck' = [truck EXCEPT ![v] = on2]
      BY <1>1, <2>3 DEF Work
    <3>2. on.order \in Ids \cup {None}
      BY <1>2 DEF TruckStates
    <3>3. /\ on2 \in TruckStates /\ on2.pos = on.pos
          /\ on2.order = on.order /\ on2.update = on.update /\ on2.refused = on.refused
          /\ on2.route = on.route /\ on2.base = on.base /\ on2.executing = on.executing
          /\ on2.stopping = on.stopping
      BY <1>2, <3>1, <3>2 DEF TruckStates
    <3>4. TruckOK(on2)
      BY <1>2, <3>3 DEF TruckOK
    <3>5. QED
      BY <1>3, <3>1, <3>3, <3>4 DEF OnSameOrder
  <2>4. CASE Stopped(v) /\ on.executing
    <3>1. on2 = [on EXCEPT !.stopping = FALSE] /\ truck' = [truck EXCEPT ![v] = on2]
      BY <1>1, <2>4 DEF Stopped
    <3>2. /\ on2 \in TruckStates /\ on2.pos = on.pos
          /\ on2.order = on.order /\ on2.update = on.update /\ on2.refused = on.refused
          /\ on2.route = on.route /\ on2.base = on.base /\ on2.executing = on.executing
          /\ on2.stopping = FALSE
      BY <1>2, <3>1 DEF TruckStates
    <3>3. TruckOK(on2)
      BY <1>2, <3>2 DEF TruckOK
    <3>4. QED
      BY <1>3, <3>1, <3>2, <3>3 DEF OnSameOrder
  <2>5. CASE Stopped(v) /\ ~on.executing
    <3>1. /\ on2 = [on EXCEPT !.stopping = FALSE, !.route = << >>, !.base = 0, !.pos = 0]
          /\ truck' = [truck EXCEPT ![v] = on2] /\ on.stopping
      BY <1>1, <2>5 DEF Stopped
    <3>2. on.order = None
      BY <1>2, <2>5, <3>1 DEF TruckOK
    <3>3. << >> \in Seq(Nodes) /\ Len(<< >>) = 0
      BY EmptySeq
    <3>4. /\ on2 \in TruckStates /\ on2.pos = 0 /\ on2.base = 0 /\ on2.route = << >>
          /\ on2.order = on.order /\ on2.update = on.update /\ on2.refused = on.refused
          /\ on2.executing = on.executing
      <4> DEFINE r == << >>
                 z == 0
      <4>1. r \in Seq(Nodes) /\ z \in Nat /\ on2 = Unloaded(on, r, z)
        BY <3>1 DEF Unloaded
      <4> HIDE DEF on, on2, r, z
      <4>2. /\ on2 \in TruckStates /\ on2.pos = z /\ on2.base = z /\ on2.route = r
            /\ on2.order = on.order /\ on2.update = on.update /\ on2.refused = on.refused
            /\ on2.executing = on.executing
        BY <1>2, <4>1, UnloadedStands
      <4>3. QED
        BY <4>2 DEF r, z
    <3>5. TruckOK(on2)
      BY <2>5, <3>2, <3>3, <3>4 DEF TruckOK
    <3>6. QED
      BY <2>5, <3>1, <3>2, <3>4, <3>5 DEF OnSameOrder
  <2>6. QED
    BY <2>1, <2>2, <2>3, <2>4, <2>5
<1>6. wire' = [wire EXCEPT ![v] = wire[v]] /\ report' = [report EXCEPT ![v] = report[v]]
  BY <1>1, <1>4
<1>7. Truck(on2, wire[v], report[v]) /\ Agrees(on, wire[v], report[v], on2, wire[v], report[v])
  BY <1>1, <1>5, DrivesOn
<1> HIDE DEF on2
<1>8. QED
  BY <1>4, <1>5, <1>6, <1>7, TruckMovesKeep

\* The queue the book starts with: every task, once.
LEMMA FirstQueue ==
    LET q == InOrderOf(Submit, Tasks)
    IN  q \in Seq(Tasks) /\ Range(q) = Tasks /\ IsInjective(q)
<1> DEFINE q == InOrderOf(Submit, Tasks)
           n == Cardinality(Tasks)
<1>1. q \in [1 .. n -> Tasks] /\ n \in Nat /\ Ascending(q, Submit)
  BY TasksInOrder
<1>2. \A t \in Tasks : Submit[t] \in Nat
  BY FloorConstants
<1> HIDE DEF q, n
<1>3. ASSUME NEW i \in 1 .. n, NEW j \in 1 .. n, q[i] = q[j] PROVE i = j
  <2>1. q[i] \in Tasks /\ q[j] \in Tasks /\ DOMAIN q = 1 .. n
    BY <1>1
  <2>2. ~(i < j)
    BY <1>1, <1>2, <1>3, <2>1 DEF Ascending
  <2>3. ~(j < i)
    BY <1>1, <1>2, <1>3, <2>1 DEF Ascending
  <2>4. QED
    BY <1>1, <2>2, <2>3
<1>4. q \in Injection(1 .. n, Tasks)
  BY <1>1, <1>3 DEF Injection, IsInjective
<1>5. Cardinality(1 .. n) = n
  BY <1>1, FS_Interval
<1>6. q \in Surjection(1 .. n, Tasks)
  BY <1>4, <1>5, FS_Injection, FloorConstants DEF n
<1>7. Range(q) = Tasks
  BY <1>1, <1>6 DEF Surjection, Range
<1>8. q \in Seq(Tasks)
  BY <1>1
<1>9. IsInjective(q)
  BY <1>1, <1>3 DEF IsInjective
<1>10. QED
  BY <1>7, <1>8, <1>9 DEF q

LEMMA EmptyLedgerOK == EmptyLedger \in LedgerType /\ Consistent(EmptyLedger)
<1> DEFINE none == << >>
<1>1. none \in Seq(Elements) /\ Range(none) = {} /\ IsInjective(none)
  BY DEF Range, IsInjective
<1>2. EmptyLedger = [owner |-> [e \in Elements |-> None], held |-> [v \in Vehicles |-> none],
                     waiting |-> [v \in Vehicles |-> None],
                     standing |-> [v \in Vehicles |-> None], yielded |-> {}]
  BY DEF EmptyLedger
<1> HIDE DEF none
<1>3. EmptyLedger \in LedgerType
  BY <1>1, <1>2 DEF LedgerType
<1>4. \A v \in Vehicles : EmptyLedger.held[v] = none /\ OwnedBy(EmptyLedger, v) = {}
  BY <1>2, FloorAssumption DEF OwnedBy
<1>5. QED
  BY <1>1, <1>3, <1>4 DEF Consistent

\* A truck that was never told anything, and a book that never told it.
Untold(on) ==
    /\ on \in TruckStates /\ on.order = None /\ on.pos = 0 /\ on.base = 0
    /\ on.executing = FALSE

LEMMA UntoldTruck ==
    ASSUME NEW on, Untold(on), NEW q, q = << >>, NEW s, s = None
    PROVE  Truck(on, q, s)
<1>1. on.pos <= on.base /\ on.base <= Len(on.route)
  <2>1. Len(on.route) \in Nat
    BY LenProperties DEF Untold, TruckStates
  <2>2. QED
    BY <2>1 DEF Untold
<1>2. TruckOK(on)
  BY <1>1 DEF Untold, TruckOK
<1>3. q \in Seq(Message) /\ DOMAIN q = {}
  OBVIOUS
<1>4. \A o \in Ids : Orders(q, o) = {} /\ Updates(q, o) = {}
  BY <1>3 DEF Orders, Updates
<1>5. WireOK(on, q)
  BY <1>3, <1>4 DEF WireOK
<1>6. QED
  BY <1>2, <1>3, <1>5 DEF Truck

LEMMA InitBook ==
    ASSUME Init
    PROVE  /\ BookOK(book)
           /\ \A t \in Tasks : book.task[t].by = None
           /\ \A v \in Trucks : book.sent[v] = << >> /\ book.aside[v] = None
                                /\ book.seen[v].fit = FALSE
<1> DEFINE none == << >>
           queue == InOrderOf(Submit, Tasks)
           task == [t \in Tasks |-> Task("QUEUED", None, None, None)]
           unseen == [order |-> None, node |-> None, fin |-> None, fit |-> FALSE]
           seen == [v \in Trucks |-> unseen]
           nothing == [v \in Trucks |-> None]
           zero == [v \in Trucks |-> 0]
           sent == [v \in Trucks |-> none]
<1>1. book = [ledger |-> EmptyLedger, queue |-> queue, task |-> task, seen |-> seen,
              chase |-> nothing, aside |-> nothing, shuffles |-> zero, sent |-> sent]
  BY DEF Init, Task
<1>2. queue \in Seq(Tasks) /\ Range(queue) = Tasks /\ IsInjective(queue)
  BY FirstQueue
<1>3. /\ Task("QUEUED", None, None, None) \in TaskType
      /\ Shape(Task("QUEUED", None, None, None))
      /\ Task("QUEUED", None, None, None).by = None
  <2>1. Task("QUEUED", None, None, None) \in TaskType
    BY DEF Task, TaskType, States
  <2>2. QED
    BY <2>1 DEF Task, Shape
<1>4. task \in [Tasks -> TaskType] /\ \A t \in Tasks : Shape(task[t]) /\ task[t].by = None
  BY <1>3
<1>5. unseen \in Seen /\ unseen.fit = FALSE
  BY DEF Seen
<1>6. seen \in [Trucks -> Seen] /\ \A v \in Trucks : seen[v].fit = FALSE
  BY <1>5
<1>7. none \in Seq(Message)
  OBVIOUS
<1>8. /\ nothing \in [Trucks -> Ids \cup {None}] /\ nothing \in [Trucks -> Aside \cup {None}]
      /\ \A v \in Trucks : nothing[v] = None
  OBVIOUS
<1>9. zero \in [Trucks -> 0 .. AsideMax]
  BY FloorConstants
<1>10. sent \in [Trucks -> Seq(Message)] /\ \A v \in Trucks : sent[v] = none
  BY <1>7
<1>11. EmptyLedger \in LedgerType /\ Consistent(EmptyLedger)
  BY EmptyLedgerOK
<1> HIDE DEF none, queue, task, unseen, seen, nothing, zero, sent
<1>12. book \in Books
  BY <1>1, <1>2, <1>4, <1>6, <1>8, <1>9, <1>10, <1>11 DEF Books
<1>13. /\ book.ledger = EmptyLedger /\ book.queue = queue /\ book.task = task /\ book.seen = seen
       /\ book.aside = nothing /\ book.sent = sent
  BY <1>1
<1>14. BookOK(book)
  BY <1>2, <1>4, <1>11, <1>12, <1>13 DEF BookOK, Kept
<1>15. /\ \A t \in Tasks : book.task[t].by = None
       /\ \A v \in Trucks : book.sent[v] = none /\ book.aside[v] = None
                            /\ book.seen[v].fit = FALSE
  BY <1>4, <1>6, <1>8, <1>10, <1>13
<1>16. QED
  BY <1>14, <1>15 DEF none

LEMMA InitFleetInv == Init => FleetInv
<1> SUFFICES ASSUME Init PROVE FleetInv
  OBVIOUS
<1> DEFINE none == << >>
<1>1. /\ BookOK(book)
      /\ \A t \in Tasks : book.task[t].by = None
      /\ \A v \in Trucks : book.sent[v] = none /\ book.aside[v] = None
                           /\ book.seen[v].fit = FALSE
  BY InitBook
<1>2. none \in Seq(Nodes) /\ none \in Seq(Message) /\ none \o none = none
  OBVIOUS
<1>3. truck = [v \in Trucks |-> [node |-> Home[v], order |-> None, update |-> 0,
                                 route |-> none, base |-> 0, pos |-> 0,
                                 executing |-> FALSE, stopping |-> FALSE,
                                 fin |-> None, refused |-> None]]
      /\ wire = [v \in Trucks |-> none] /\ report = [v \in Trucks |-> None]
  BY DEF Init
<1> HIDE DEF none
<1>4. ASSUME NEW v \in Trucks PROVE Untold(truck[v])
  <2>1. Home[v] \in Nodes
    BY FleetConstants DEF Injection
  <2>2. truck[v] = [node |-> Home[v], order |-> None, update |-> 0,
                    route |-> none, base |-> 0, pos |-> 0,
                    executing |-> FALSE, stopping |-> FALSE, fin |-> None, refused |-> None]
    BY <1>3
  <2>3. QED
    BY <1>2, <2>1, <2>2 DEF Untold, TruckStates
<1>5. truck \in [Trucks -> TruckStates]
  <2>1. \A v \in Trucks : truck[v] \in TruckStates
    BY <1>4 DEF Untold
  <2> DEFINE r(v) == [node |-> Home[v], order |-> None, update |-> 0,
                    route |-> none, base |-> 0, pos |-> 0,
                    executing |-> FALSE, stopping |-> FALSE, fin |-> None, refused |-> None]
  <2>2. truck = [v \in Trucks |-> r(v)]
    BY <1>3
  <2> HIDE DEF r
  <2>3. QED
    BY <2>1, <2>2
<1>6. wire \in [Trucks -> Seq(Message)] /\ report \in [Trucks -> ReportStates \cup {None}]
  BY <1>2, <1>3
<1>7. ASSUME NEW v \in Trucks
      PROVE  Fine(book, v, truck[v], wire[v] \o book.sent[v], report[v])
  <2>1. wire[v] \o book.sent[v] = none /\ report[v] = None
    BY <1>1, <1>2, <1>3
  <2>2. Truck(truck[v], none, None)
    BY <1>4, UntoldTruck DEF none
  <2>3. v # None
    BY FloorAssumption
  <2>4. Settled(book, v)
    BY <1>1, <2>3 DEF Settled, Carries
  <2>5. OnLeg(book, v, truck[v], none, None)
    BY <1>1, <2>3 DEF OnLeg
  <2>6. Located(book, v)
    BY <1>1 DEF Located
  <2>7. QED
    BY <2>1, <2>2, <2>4, <2>5, <2>6 DEF Fine, Steady
<1>8. Sound(book, truck, wire, report)
  BY <1>1, <1>7 DEF Sound
<1>9. QED
  BY <1>1, <1>5, <1>6, <1>8 DEF FleetInv, none

\* Every step keeps it.
LEMMA StepFleetInv ==
    ASSUME UuidsNeverRunOut, FleetInv, [Next]_vars
    PROVE  FleetInv'
<1>1. CASE ManagerDrains
  BY <1>1, DrainKeeps
<1>2. ASSUME NEW v \in Trucks, NEW retry \in BOOLEAN, ReadState(v, retry) PROVE FleetInv'
  BY <1>2, ReadKeeps
<1>3. ASSUME NEW v \in Trucks, Publish(v) PROVE FleetInv'
  BY <1>3, PublishKeeps
<1>4. ASSUME NEW v \in Trucks, Deliver(v) PROVE FleetInv'
  BY <1>4, DeliverKeeps
<1>5. ASSUME NEW v \in Trucks, Drive(v) \/ Arrive(v) \/ Work(v) \/ Stopped(v) PROVE FleetInv'
  BY <1>5, MotionKeeps
<1>6. ASSUME NEW v \in Trucks, Lose(v) PROVE FleetInv'
  BY <1>6, LoseKeeps
<1>7. CASE UNCHANGED vars
  <2>1. book' = book /\ truck' = truck /\ wire' = wire /\ report' = report
    BY <1>7 DEF vars
  <2>2. QED
    BY <2>1 DEF FleetInv
<1>8. QED
  BY <1>1, <1>2, <1>3, <1>4, <1>5, <1>6, <1>7 DEF Next

LEMMA FleetInvHolds == UuidsNeverRunOut => (Spec => []FleetInv)
<1> SUFFICES ASSUME UuidsNeverRunOut PROVE Spec => []FleetInv
  OBVIOUS
<1>1. Init => FleetInv
  BY InitFleetInv
<1>2. FleetInv /\ [Next]_vars => FleetInv'
  BY StepFleetInv
<1>3. QED
  BY <1>1, <1>2, PTL DEF Spec

LEMMA FleetInvType == FleetInv => TypeOK
<1> SUFFICES ASSUME FleetInv PROVE TypeOK
  OBVIOUS
<1>1. book \in Books /\ Range(book.queue) = Tasks /\ IsInjective(book.queue)
      /\ \A v \in Trucks : book.sent[v] = << >>
  BY DEF FleetInv, Sound, BookOK, Kept
<1>2. /\ book.ledger \in LedgerType /\ book.task \in [Tasks -> TaskType]
      /\ book.seen \in [Trucks -> Seen] /\ book.chase \in [Trucks -> Ids \cup {None}]
      /\ book.shuffles \in [Trucks -> 0 .. AsideMax]
  BY <1>1 DEF Books
<1>3. ASSUME NEW v \in Trucks
      PROVE  truck[v].pos \in 0 .. truck[v].base /\ truck[v].base <= Len(truck[v].route)
  <2>1. TruckOK(truck[v])
    BY OneTruck DEF Truck
  <2>2. QED
    BY <2>1 DEF TruckOK, TruckStates
<1>4. book.task \in [Tasks -> [state : {"QUEUED", "LEG1", "DWELL", "LEG2", "DONE"},
                               by : Trucks \cup {None}, order : Ids \cup {None},
                               leg : LegType \cup {None}]]
  BY <1>2 DEF TaskType, States
<1>5. book.seen \in [Trucks -> [order : Ids \cup {None}, node : Nodes \cup {None},
                                fin : Ids \cup {None}, fit : BOOLEAN]]
  BY <1>2 DEF Seen
<1>6. \A v \in Trucks : book.sent[v] = << >> /\ book.shuffles[v] \in 0 .. AsideMax
  BY <1>1, <1>2
<1>7. QED
  BY <1>1, <1>2, <1>3, <1>4, <1>5, <1>6 DEF TypeOK

LEMMA FleetInvBacked ==
    ASSUME FleetInv, NEW v \in Trucks, NEW t \in Tasks, book.task[t].by = v,
           book.task[t].leg # None, v \notin book.ledger.yielded,
           NEW i2 \in Nat, NEW b2 \in 0 .. Bases(book.task[t].leg),
           At(book.task[t].leg) <= i2, i2 <= Len(book.task[t].leg.path)
    PROVE  FloorOf(book.task[t].leg.path, i2, b2) \subseteq OwnedBy(book.ledger, v)
<1> DEFINE l == book.ledger
           leg == book.task[t].leg
           p == leg.path
           i == At(leg)
           b == Bases(leg)
<1>1. l \in LedgerType /\ Consistent(l) /\ book.task \in [Tasks -> TaskType]
  BY DEF FleetInv, Sound, BookOK, Kept, Books
<1>2. leg \in LegType
  BY <1>1 DEF TaskType
<1>3. LegOK(leg) /\ Backed(l.held[v], leg)
  BY DEF FleetInv, Sound, Fine, Steady, OnLeg
<1>4. p \in Paths /\ leg.last \in Range(p)
  BY <1>2, <1>3 DEF LegType, LegOK
<1>5. i \in 1 .. Len(p) /\ Len(p) \in Nat
  BY <1>4, IndexOfFacts, PathFacts DEF At
<1>6. b \in 1 .. Len(p)
  BY <1>2, <1>3, LegAhead
<1>7. i <= b => Seated(l.held[v], RouteElements(p), 2 * i - 1, 2 * b - 1)
  BY <1>3 DEF Backed
<1>8. i2 \in i .. Len(p) /\ b2 \in 0 .. b
  BY <1>5
<1> HIDE DEF l, leg, p, i, b
<1>9. FloorOf(p, i2, b2) \subseteq OwnedBy(l, v)
  BY <1>1, <1>4, <1>5, <1>6, <1>7, <1>8, SeatedIsOwned
<1>10. QED
  BY <1>9 DEF l, leg, p

LEMMA FleetInvLiveBase == FleetInv => LiveBaseBacked
<1> SUFFICES ASSUME FleetInv, NEW t \in InFlight(book), book.task[t].by \notin book.ledger.yielded
             PROVE  LET leg == book.task[t].leg
                        v   == book.task[t].by
                        end == IF leg.pending = None THEN leg.released ELSE leg.pending.released
                    IN  FloorOf(leg.path, IndexOf(leg.path, leg.last), end)
                            \subseteq OwnedBy(book.ledger, v)
  BY DEF LiveBaseBacked
<1> DEFINE leg == book.task[t].leg
           v   == book.task[t].by
<1>1. t \in Tasks /\ leg # None /\ v # None
  BY DEF InFlight
<1>2. book.task \in [Tasks -> TaskType]
  BY DEF FleetInv, Sound, BookOK, Kept, Books
<1>3. v \in Trucks /\ leg \in LegType
  BY <1>1, <1>2 DEF TaskType
<1>4. LegOK(leg)
  BY <1>1, <1>3 DEF FleetInv, Sound, Fine, Steady, OnLeg
<1>5. leg.path \in Paths /\ At(leg) \in 1 .. Len(leg.path) /\ Len(leg.path) \in Nat
  BY <1>3, <1>4, IndexOfFacts, PathFacts DEF LegType, LegOK, At
<1>6. Bases(leg) \in 0 .. Bases(leg)
  <2>1. leg.pending # None => leg.pending.released \in Nat
    BY <1>4, <1>5 DEF LegOK
  <2>2. leg.released \in Nat
    BY <1>3 DEF LegType
  <2>3. QED
    BY <2>1, <2>2 DEF Bases
<1>7. At(leg) \in Nat /\ At(leg) <= At(leg) /\ At(leg) <= Len(leg.path)
  BY <1>5
<1>8. FloorOf(leg.path, At(leg), Bases(leg)) \subseteq OwnedBy(book.ledger, v)
  <2> DEFINE i2 == At(leg)
             b2 == Bases(leg)
  <2>1. i2 \in Nat /\ b2 \in 0 .. Bases(leg) /\ At(leg) <= i2 /\ i2 <= Len(leg.path)
    BY <1>6, <1>7
  <2> HIDE DEF i2, b2
  <2>2. FloorOf(leg.path, i2, b2) \subseteq OwnedBy(book.ledger, v)
    BY <1>1, <1>3, <2>1, FleetInvBacked
  <2>3. QED
    BY <2>2 DEF i2, b2
<1>9. QED
  BY <1>8 DEF At, Bases

\* No update under way can be anything but the truck's next.
LEMMA FleetInvUpdates == FleetInv => UpdatesInStep
<1> SUFFICES ASSUME FleetInv, NEW v \in Trucks, wire[v] # << >>, Head(wire[v]).kind = "update",
                    truck[v].order = Head(wire[v]).order
             PROVE  /\ truck[v].executing
                    /\ Head(wire[v]).update = truck[v].update + 1
                    /\ Head(wire[v]).base > truck[v].base
  BY DEF UpdatesInStep
<1> DEFINE q == wire[v]
           on == truck[v]
           o == q[1].order
<1>1. Truck(on, q, report[v])
  BY OneTruck
<1>2. q \in Seq(Message) /\ WireOK(on, q) /\ on \in TruckStates
  BY <1>1 DEF Truck, TruckOK
<1>3. 1 \in DOMAIN q /\ Head(q) = q[1] /\ q[1] \in Message
  BY <1>2
<1>4. 1 \in Updates(q, o)
  BY <1>3 DEF Updates
<1>5. o \in Ids
  BY <1>3, MessageKinds
<1>6. on.executing /\ q[1].update = on.update + 1 /\ on.base < q[1].base
  BY <1>2, <1>3, <1>4, <1>5 DEF WireOK
<1>7. on.base \in Nat /\ q[1].base \in Nat
  BY <1>2, <1>3 DEF TruckStates, Message, UpdateMsg, OrderMsg, CancelMsg
<1>8. QED
  BY <1>3, <1>6, <1>7

\* What a truck may still drive of the order of a leg on the floor is its own,
\* wherever it is and whatever update of the order it has taken, unless it yielded.
LegsAreOwned ==
    \A v \in Trucks : LegOf(book, v) # None /\ v \notin book.ledger.yielded =>
        Drivable(v) \subseteq OwnedBy(book.ledger, v)

LEMMA FleetInvLegs == FleetInv => LegsAreOwned
<1> SUFFICES ASSUME FleetInv, NEW v \in Trucks, LegOf(book, v) # None,
                    v \notin book.ledger.yielded
             PROVE  Drivable(v) \subseteq OwnedBy(book.ledger, v)
  BY SMTT(40) DEF LegsAreOwned
<1> DEFINE t == TaskOf(book, v)
           leg == book.task[t].leg
           on == truck[v]
<1>1. t \in Tasks /\ book.task[t].by = v
  BY DEF LegOf, TaskOf
<1>2. leg # None
  BY <1>1, FloorConstants DEF LegOf
<1>3. CASE on.order = None \/ on.pos = 0 \/ on.order # book.task[t].order
  BY <1>3 DEF Drivable
<1>4. CASE on.order # None /\ on.pos # 0 /\ on.order = book.task[t].order
  <2>1. Fine(book, v, on, wire[v] \o book.sent[v], report[v])
    BY DEF FleetInv, Sound
  <2>2. InStep(leg, book.task[t].order, on, wire[v] \o book.sent[v], report[v]) /\ LegOK(leg)
    BY <1>1, <1>2, <2>1 DEF Fine, Steady, OnLeg
  <2>3. /\ on.route = leg.path /\ (At(leg) = 1 \/ At(leg) <= on.pos)
        /\ \/ on.base = leg.released
           \/ leg.pending # None /\ on.base = leg.pending.released
    BY <1>4, <2>2 DEF InStep, Driven
  <2>4. TruckOK(on)
    BY OneTruck DEF Truck
  <2>5. on.pos \in Nat /\ on.base \in Nat /\ on.pos <= on.base /\ on.base <= Len(leg.path)
    BY <2>3, <2>4 DEF TruckOK, TruckStates
  <2>6. leg \in LegType
    <3>1. book.task \in [Tasks -> TaskType]
      BY DEF FleetInv, Sound, BookOK, Kept, Books
    <3>2. QED
      BY <1>1, <1>2, <3>1 DEF TaskType
  <2>7. At(leg) \in 1 .. Len(leg.path) /\ Len(leg.path) \in Nat
    BY <2>2, <2>6, IndexOfFacts, PathFacts DEF LegType, LegOK, At
  <2>8. on.base \in 0 .. Bases(leg)
    <3>1. leg.pending # None => leg.pending.released \in leg.released + 1 .. Len(leg.path)
      BY <2>2 DEF LegOK
    <3>2. leg.released \in Nat
      BY <2>6 DEF LegType
    <3>3. QED
      BY <2>3, <2>5, <2>7, <3>1, <3>2, SMTT(40) DEF Bases
  <2>9. At(leg) <= on.pos /\ on.pos <= Len(leg.path)
    BY <1>4, <2>3, <2>5, <2>7, SMTT(40)
  <2> DEFINE i2 == on.pos
             b2 == on.base
  <2>10. i2 \in Nat /\ b2 \in 0 .. Bases(leg) /\ At(leg) <= i2 /\ i2 <= Len(leg.path)
    BY <2>5, <2>8, <2>9
  <2>11. FloorOf(leg.path, i2, b2) \subseteq OwnedBy(book.ledger, v)
    <3> HIDE DEF i2, b2, t, on
    <3>1. QED
      BY <1>1, <1>2, <2>10, FleetInvBacked
  <2>12. Drivable(v) \subseteq FloorOf(leg.path, i2, b2)
    BY <2>3 DEF Drivable
  <2>13. QED
    BY <2>11, <2>12
<1>5. QED
  BY <1>3, <1>4

-----------------------------------------------------------------------------
(* The theorems. *)

\* The manager's book and the trucks keep their types: the ledger's two indexes
\* are of vehicles and floor, the queue names every task once whatever is put
\* back at its head, and no truck is past the end of its base.
THEOREM FleetTypeCorrect == UuidsNeverRunOut => (Spec => []TypeOK)
<1> SUFFICES ASSUME UuidsNeverRunOut PROVE Spec => []TypeOK
  OBVIOUS
<1>1. QED
  BY FleetInvHolds, FleetInvType, PTL

\* _check_floor never has anything to say: the floor of every base that was sent
\* out, and of every extension in the air, is the truck's own from the node the
\* manager last saw it on, until the truck yields.
THEOREM BaseStaysBacked == UuidsNeverRunOut => (Spec => []LiveBaseBacked)
<1> SUFFICES ASSUME UuidsNeverRunOut PROVE Spec => []LiveBaseBacked
  OBVIOUS
<1>1. QED
  BY FleetInvHolds, FleetInvLiveBase, PTL

\* However late states and orders are and whatever is lost or refused, the update
\* that reaches a truck on its order is the next one and grows its base.
THEOREM UpdatesKeepStep == UuidsNeverRunOut => (Spec => []UpdatesInStep)
<1> SUFFICES ASSUME UuidsNeverRunOut PROVE Spec => []UpdatesInStep
  OBVIOUS
<1>1. QED
  BY FleetInvHolds, FleetInvUpdates, PTL

\* What the manager frees on late states is never floor a truck may still drive
\* under a leg in flight, wherever the truck really is by then.
THEOREM LegsStayOwned == UuidsNeverRunOut => (Spec => []LegsAreOwned)
<1> SUFFICES ASSUME UuidsNeverRunOut PROVE Spec => []LegsAreOwned
  OBVIOUS
<1>1. QED
  BY FleetInvHolds, FleetInvLegs, PTL
=============================================================================
