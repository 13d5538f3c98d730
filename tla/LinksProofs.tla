---------------------------- MODULE LinksProofs -----------------------------
(***************************************************************************)
(* Theorems about the two parts of MCLinks.  A truck's agent and its nav   *)
(* (Vehicle), on a line of any length and with any number of orders,       *)
(* cancels and upsets, whenever they come: the types, that the fork cycle  *)
(* of an order sent to a truck at rest runs at its station only, and that  *)
(* an order whose cancel was reported FINISHED is not driven, unless a     *)
(* report from before its last route confirmed the stop.  The image of a   *)
(* cell's bridge (Bridge), for every set of inputs in every order, every   *)
(* start value, window and modulus, and any number of restarts, breaks and *)
(* kills.                                                                  *)
(***************************************************************************)
EXTENDS MCLinks, NaturalsInduction, WellFoundedInduction, SequenceTheorems, TLAPS

-----------------------------------------------------------------------------
(* The invariants are stated of an agent that has handled the first i messages *)
(* of its inbox q, so that they speak of the drain's steps too; between two    *)
(* drains it has handled none.                                                 *)

MaybeId   == Nat \cup {Nothing}
Routes    == [label : Nat, nodes : Seq(Nodes)]
Forks     == {"NONE", "WAITING", "RUNNING", "FINISHED", "FAILED"}
NavStates == {"IDLE", "EN-ROUTE", "ARRIVED"}
Notes     == {"", "route refused", "cancelled", "mode left auto"}
Messages  == [kind : {"order"}, order : Orders] \cup [kind : {"cancel", "lost", "connected"}]
Reports   == [state : NavStates, goal : MaybeId, note : Notes]
Spendings == [orders : Nat, cancels : Nat, upsets : Nat]

Agents ==
    [order : Orders \cup {Nothing}, reached : Nat, executing : BOOLEAN,
     cancel : [target : MaybeId, action : BOOLEAN] \cup {Nothing},
     navState : NavStates \cup {""}, navGoal : MaybeId, auto : BOOLEAN, settled : BOOLEAN,
     fork : Forks, routes : Seq(Routes), goals : 0 .. GoalDepth, finished : SUBSET Nat,
     behind : SUBSET Nat, aired : SUBSET Nat, misread : SUBSET Nat, rolling : SUBSET Nat]

Navs ==
    [auto : BOOLEAN, up : BOOLEAN, state : NavStates, goal : MaybeId, route : Seq(Nodes),
     note : Notes]

Proper(o, s) ==
    /\ o.id \in 1 .. s.orders
    /\ Len(o.path) \in 1 .. Line /\ o.base \in 1 .. Len(o.path)
    /\ \A j, k \in DOMAIN o.path : o.path[j] = o.path[k] => j = k

IsOrder(msg) == msg.kind = "order"
IsNew(msg)   == msg.kind = "order" /\ msg.order.update = 0

\* What is in the inbox fits the order that is held.
Fits(a, msg) ==
    IsOrder(msg) /\ a.order # Nothing /\ msg.order.id = a.order.id =>
        /\ ~IsNew(msg)
        /\ msg.order.update = a.order.update + 1 =>
            msg.order.path = a.order.path /\ msg.order.base = a.order.base + 1

\* The order an agent holds, against the messages it has still to handle.
Holds(a, i, q, s) ==
    /\ a.order # Nothing => Proper(a.order, s) /\ a.reached <= a.order.base
    /\ a.order = Nothing => ~a.executing /\ a.reached = 0
    /\ \A k \in DOMAIN a.routes : a.routes[k].nodes # << >>
    /\ \A j \in i + 1 .. Len(q) : Fits(a, q[j])

Posted(q, s) ==
    /\ \A j \in DOMAIN q : IsOrder(q[j]) => Proper(q[j].order, s)
    /\ \A j, k \in DOMAIN q : IsOrder(q[j]) /\ IsOrder(q[k]) => j = k

TypeInv ==
    /\ agent \in Agents /\ nav \in Navs /\ place \in Nodes /\ inbox \in Seq(Messages)
    /\ report \in Reports \cup {Nothing} /\ mode \in BOOLEAN /\ broker \in BOOLEAN
    /\ spent \in Spendings
    /\ nav.state = "EN-ROUTE" => nav.route # << >>
    /\ Holds(agent, 0, inbox, spent) /\ Posted(inbox, spent)

-----------------------------------------------------------------------------
(* Where the truck is on its order's path, and what nav's word is worth. *)

\* The orders with a route on the wire.
Labels(a) == {a.routes[k].label : k \in DOMAIN a.routes}

\* The number is nobody's yet.
Fresh(id, a, n, r) ==
    /\ a.navGoal # id /\ n.goal # id /\ id \notin a.finished /\ id \notin Labels(a)
    /\ a.cancel # Nothing => a.cancel.target # id
    /\ r # Nothing => r.goal # id

\* A new order is the first thing handled; one for a truck that stood still finds nav
\* at its first node and without work.
NewFirst(a, i, q, n, p, r) ==
    \A j \in i + 1 .. Len(q) :
        IsNew(q[j]) =>
            /\ j = 1 /\ Fresh(q[j].order.id, a, n, r)
            /\ q[j].order.id \notin a.rolling =>
                q[j].order.path[1] = p /\ n.state # "EN-ROUTE" /\ a.routes = << >>

\* A route's only node that may be the last of the path is its own last.
Along(nodes, path) == \A k \in 1 .. Len(nodes) : nodes[k] = Last(path) => k = Len(nodes)
Final(nodes, path) == Last(nodes) = Last(path)

\* The truck is at the station or nav is on the way to it.
ForStation(n, p, path) == p = Last(path) \/ (n.state = "EN-ROUTE" /\ Final(n.route, path))

\* The order that is held was sent to a truck that stood still.
Steady(a) == a.order # Nothing /\ a.order.id \notin a.rolling

\* Then routes run on along its path; once one ends at the station, so do all that
\* follow.
OnPathWith(a, routes, n, p) ==
    Steady(a) =>
        LET path == a.order.path
        IN  /\ \A k \in DOMAIN routes : Along(routes[k].nodes, path)
            /\ n.state = "EN-ROUTE" => Along(n.route, path)
            /\ ForStation(n, p, path) => \A k \in DOMAIN routes : Final(routes[k].nodes, path)
            /\ \A j, k \in DOMAIN routes :
                j < k /\ Final(routes[j].nodes, path) => Final(routes[k].nodes, path)
            /\ ForStation(n, p, path) => a.order.base = Len(path)
            /\ \A k \in DOMAIN routes :
                Final(routes[k].nodes, path) => a.order.base = Len(path)
            /\ p = Last(path) /\ n.state = "EN-ROUTE" => Final(n.route, path)
            /\ a.reached = Len(path) => p = Last(path)

OnPath(a, n, p) == OnPathWith(a, a.routes, n, p)

\* The fork works after the whole path.
ForkWaits(a) == a.fork = "RUNNING" => a.order # Nothing /\ a.reached = Len(a.order.path)

\* Nav does not drive for o and is not about to.
Away(a, n, o) == ~(n.state = "EN-ROUTE" /\ n.goal = o) /\ o \notin Labels(a)

\* Nav's word is about every order but those it had still to take a route of.
Word(a, n, r) ==
    /\ a.navState # "" => \A o \in Nat : o \notin a.behind /\ o # a.navGoal => Away(a, n, o)
    /\ r # Nothing => \A o \in Nat : o \notin a.aired /\ o # r.goal => Away(a, n, o)

\* What a cancelOrder stops is no longer held.
Chased(a) ==
    a.cancel # Nothing /\ a.cancel.action /\ a.order # Nothing => a.order.id # a.cancel.target

\* What was reported FINISHED is over.
Over(a, n) ==
    /\ a.order # Nothing => a.order.id \notin a.finished
    /\ \A o \in a.finished \ a.misread : Away(a, n, o)

\* All numbers are of orders that were sent.
Known(a, n, r, s) ==
    LET sent == 1 .. s.orders \cup {Nothing}
    IN  /\ a.navGoal \in sent /\ n.goal \in sent /\ a.finished \subseteq sent
        /\ Labels(a) \subseteq sent
        /\ a.cancel # Nothing => a.cancel.target \in sent
        /\ r # Nothing => r.goal \in sent

Orderly(a, i, q, n, p, r, s) ==
    /\ NewFirst(a, i, q, n, p, r)
    /\ OnPath(a, n, p) /\ ForkWaits(a)
    /\ Word(a, n, r) /\ Chased(a) /\ Over(a, n) /\ Known(a, n, r, s)

OrderlyInv == Orderly(agent, 0, inbox, nav, place, report, spent)

-----------------------------------------------------------------------------
(* The drain handles one message after the other. *)

\* A set of naturals that is not empty has a least element.
LEMMA LeastNatural ==
    ASSUME NEW S \in SUBSET Nat, NEW x \in S
    PROVE  \E m \in S : \A y \in S : m <= y
<1> DEFINE less == {pair \in Nat \X Nat : pair[1] < pair[2]}
<1>1. \E m \in S : \A y \in S : ~ (<<y, m>> \in less)
  <2>1. IsWellFoundedOn(less, Nat)
    BY NatLessThanWellFounded DEF OpToRel
  <2> HIDE DEF less
  <2>2. QED
    BY <2>1, WFMin
<1>2. ASSUME NEW m \in S, NEW y \in S, ~(<<y, m>> \in less)
      PROVE  m <= y
  <2>1. m \in Nat /\ y \in Nat
    OBVIOUS
  <2>2. ~(y < m)
    BY <1>2, <2>1
  <2>3. QED
    BY <2>1, <2>2
<1>3. QED
  BY <1>1, <1>2

\* What FoldLeft(Handle, a, q) says of every set of the first n indices.
Folding(f, a, q, n) ==
    f = [s \in SUBSET (1 .. n) |->
            IF s = {} THEN a ELSE Handle(f[s \ {Max(s)}], q[Max(s)])]

LEMMA FoldExists ==
    ASSUME NEW a, NEW q, NEW n \in Nat
    PROVE  \E f : Folding(f, a, q, n)
<1> DEFINE bad == {m \in Nat : ~ \E f : Folding(f, a, q, m)}
<1>1. SUFFICES ASSUME n \in bad PROVE FALSE
  OBVIOUS
<1>2. PICK m \in bad : \A k \in bad : m <= k
  <2> HIDE DEF bad
  <2>1. bad \in SUBSET Nat
    BY DEF bad
  <2>2. QED
    BY <1>1, <2>1, LeastNatural
<1>3. m \in Nat /\ ~ \E f : Folding(f, a, q, m)
  BY <1>2
<1>4. CASE m = 0
  <2>1. 1 .. 0 = {}
    OBVIOUS
  <2>2. Folding([s \in SUBSET {} |-> a], a, q, 0)
    BY <2>1 DEF Folding
  <2>3. QED
    BY <1>3, <1>4, <2>2
<1>5. CASE m # 0
  <2>1. m - 1 \in Nat /\ ~(m <= m - 1)
    BY <1>3, <1>5
  <2>2. m - 1 \notin bad
    BY <1>2, <2>1
  <2>3. PICK f : Folding(f, a, q, m - 1)
    BY <2>1, <2>2
  <2> DEFINE g == [s \in SUBSET (1 .. m) |->
                      IF m \in s THEN Handle(f[s \ {m}], q[m]) ELSE f[s]]
  <2>4. ASSUME NEW s \in SUBSET (1 .. m)
        PROVE  g[s] = IF s = {} THEN a ELSE Handle(g[s \ {Max(s)}], q[Max(s)])
    <3>1. s \ {m} \in SUBSET (1 .. m - 1)
      BY <1>3
    <3>2. CASE m \in s
      <4>1. \A x \in s : x \in Int /\ m >= x
        BY <1>3
      <4>2. Max(s) = m
        <5>1. \A x \in s : (\A y \in s : x >= y) => x = m
          BY <3>2, <4>1, <1>3
        <5>2. QED
          BY <3>2, <4>1, <5>1 DEF Max
      <4>3. g[s \ {m}] = f[s \ {m}]
        BY <3>1
      <4>4. QED
        BY <3>2, <4>2, <4>3
    <3>3. CASE m \notin s
      <4>1. s \in SUBSET (1 .. m - 1) /\ s \ {Max(s)} \in SUBSET (1 .. m - 1)
        BY <3>1, <3>3
      <4>2. f[s] = IF s = {} THEN a ELSE Handle(f[s \ {Max(s)}], q[Max(s)])
        BY <2>3, <4>1 DEF Folding
      <4>3. g[s] = f[s] /\ g[s \ {Max(s)}] = f[s \ {Max(s)}]
        BY <3>3, <4>1
      <4>4. QED
        BY <4>2, <4>3
    <3>4. QED
      BY <3>2, <3>3
  <2>5. g = [s \in SUBSET (1 .. m) |-> g[s]]
    OBVIOUS
  <2> HIDE DEF g
  <2>6. Folding(g, a, q, m)
    BY <2>4, <2>5 DEF Folding
  <2>7. QED
    BY <1>3, <2>6
<1>6. QED
  BY <1>4, <1>5

\* What holds before the first message and is handed on by each holds after the last.
LEMMA HandledAll ==
    ASSUME NEW a, NEW q, NEW n \in Nat, DOMAIN q = 1 .. n, NEW S,
           a \in S[0],
           \A i \in 1 .. n : \A b \in S[i - 1] : Handle(b, q[i]) \in S[i]
    PROVE  FoldLeft(Handle, a, q) \in S[n]
<1>1. FoldLeft(Handle, a, q) = (CHOOSE f : Folding(f, a, q, n))[1 .. n]
  BY DEF FoldLeft, MapThenFoldSet, Folding
<1>2. PICK f : f = (CHOOSE g : Folding(g, a, q, n)) /\ Folding(f, a, q, n)
  BY FoldExists
<1> DEFINE bad == {k \in Nat : k <= n /\ f[1 .. k] \notin S[k]}
<1>3. SUFFICES ASSUME f[1 .. n] \notin S[n] PROVE FALSE
  BY <1>1, <1>2
<1>4. PICK k \in bad : \A j \in bad : k <= j
  <2>1. n \in bad /\ bad \in SUBSET Nat
    BY <1>3
  <2> HIDE DEF bad
  <2>2. QED
    BY <2>1, LeastNatural
<1>5. k \in Nat /\ k <= n /\ f[1 .. k] \notin S[k] /\ 1 .. k \in SUBSET (1 .. n)
  BY <1>4
<1>6. f[1 .. k] = IF 1 .. k = {} THEN a ELSE Handle(f[(1 .. k) \ {Max(1 .. k)}], q[Max(1 .. k)])
  BY <1>2, <1>5 DEF Folding
<1>7. k # 0
  <2>1. 1 .. 0 = {}
    OBVIOUS
  <2>2. QED
    BY <1>5, <1>6, <2>1
<1>8. Max(1 .. k) = k /\ (1 .. k) \ {k} = 1 .. k - 1 /\ 1 .. k # {}
  <2>1. k \in 1 .. k /\ \A x \in 1 .. k : x \in Int /\ k >= x
    BY <1>5, <1>7
  <2>2. \A x \in 1 .. k : (\A y \in 1 .. k : x >= y) => x = k
    BY <1>5, <2>1
  <2>3. Max(1 .. k) = k
    BY <2>1, <2>2 DEF Max
  <2>4. (1 .. k) \ {k} = 1 .. k - 1
    BY <1>5, <1>7
  <2>5. QED
    BY <2>1, <2>3, <2>4
<1>9. k - 1 \notin bad /\ k - 1 \in Nat /\ k - 1 <= n
  BY <1>4, <1>5, <1>7
<1>10. f[1 .. k - 1] \in S[k - 1]
  BY <1>9
<1>11. k \in 1 .. n /\ f[1 .. k] = Handle(f[1 .. k - 1], q[k])
  <2> HIDE DEF bad
  <2>1. k \in 1 .. n
    BY <1>5, <1>7
  <2>2. f[1 .. k] = Handle(f[(1 .. k) \ {Max(1 .. k)}], q[Max(1 .. k)])
    BY <1>6, <1>8, Zenon
  <2>3. QED
    BY <1>8, <2>1, <2>2, Zenon
<1>12. Handle(f[1 .. k - 1], q[k]) \in S[k]
  BY <1>10, <1>11
<1>13. QED
  BY <1>5, <1>11, <1>12

-----------------------------------------------------------------------------
(* What the agent's methods leave. *)

\* What no message changes: nav's word, as it was heard, the mode, and which orders
\* found the truck rolling.
Deaf(b, a) ==
    /\ b.navState = a.navState /\ b.navGoal = a.navGoal /\ b.auto = a.auto
    /\ b.rolling = a.rolling

\* What a stop leaves alone.
Routed(b, a) ==
    /\ b.routes = a.routes /\ b.settled = a.settled
    /\ b.behind = a.behind /\ b.aired = a.aired /\ Deaf(b, a)

\* The routes that are ahead of nav's reports when one more is sent.
Aired(a, id) == IF report = Nothing THEN a.aired ELSE a.aired \cup {id}

\* A route is sent for the order that is held.
LEMMA Sent ==
    ASSUME NEW a \in Agents, a.order \in Orders, NEW nodes \in Seq(Nodes)
    PROVE  LET b == SendRoute(a, nodes)
           IN  /\ b \in Agents /\ Deaf(b, a)
               /\ b.order = a.order /\ b.reached = a.reached /\ b.cancel = a.cancel
               /\ b.fork = a.fork /\ b.finished = a.finished /\ b.misread = a.misread
               /\ b.executing = TRUE /\ b.settled = FALSE
               /\ b.behind = a.behind \cup {a.order.id} /\ b.aired = Aired(a, a.order.id)
               /\ b.routes = Append(a.routes, [label |-> a.order.id, nodes |-> nodes])
<1> DEFINE route == [label |-> a.order.id, nodes |-> nodes]
           behind == a.behind \cup {a.order.id}
           aired == Aired(a, a.order.id)
           more == Append(a.routes, route)
<1>1. route \in Routes /\ a.routes \in Seq(Routes)
  BY DEF Routes, Agents, Orders
<1>2. more \in Seq(Routes) /\ behind \in SUBSET Nat /\ aired \in SUBSET Nat
  <2>1. more \in Seq(Routes)
    <3> HIDE DEF route
    <3>1. QED
      BY <1>1
  <2>2. a.order.id \in Nat /\ a.behind \in SUBSET Nat /\ a.aired \in SUBSET Nat
    BY DEF Agents, Orders
  <2>3. QED
    BY <2>1, <2>2 DEF Aired
<1>3. SendRoute(a, nodes) = [a EXCEPT !.routes = more, !.executing = TRUE, !.settled = FALSE,
                                      !.behind = behind, !.aired = aired]
  BY DEF SendRoute, Aired
<1> HIDE DEF more, behind, aired
<1>4. SendRoute(a, nodes) \in Agents
  BY <1>2, <1>3 DEF Agents
<1>5. QED
  BY <1>3, <1>4 DEF Agents, Deaf, more, route, behind, aired

\* Of the order's released nodes, those that were not passed.
LEMMA RemainingNodes ==
    ASSUME NEW a \in Agents, a.order \in Orders, a.order.base \in 1 .. Len(a.order.path),
           a.reached <= a.order.base
    PROVE  /\ Remaining(a) \in Seq(Nodes)
           /\ Len(Remaining(a)) = a.order.base - a.reached
           /\ \A k \in 1 .. a.order.base - a.reached :
                Remaining(a)[k] = a.order.path[a.reached + k]
<1> DEFINE path == a.order.path
           base == a.order.base
           r == a.reached
<1>1. path \in Seq(Nodes) /\ base \in 1 .. Len(path) /\ r \in Nat /\ r <= base
  BY DEF Agents, Orders
<1>2. Remaining(a) = SubSeq(SubSeq(path, 1, base), r + 1, base)
  BY DEF Remaining, Base
<1> HIDE DEF path, base, r
<1>3. /\ SubSeq(path, 1, base) \in Seq(Nodes)
      /\ Len(SubSeq(path, 1, base)) = base
      /\ \A k \in 1 .. base : SubSeq(path, 1, base)[k] = path[k]
  BY <1>1
<1>4. \A k \in r + 1 .. base : SubSeq(path, 1, base)[k] \in Nodes
  BY <1>1, <1>3
<1> DEFINE front == SubSeq(path, 1, base)
<1> HIDE DEF front
<1>5. /\ SubSeq(front, r + 1, base) \in Seq(Nodes)
      /\ Len(SubSeq(front, r + 1, base)) = base - r
      /\ \A k \in 1 .. base - r : SubSeq(front, r + 1, base)[k] = front[r + k]
  BY <1>1, <1>3 DEF front
<1>6. \A k \in 1 .. base - r : front[r + k] = path[r + k]
  BY <1>1, <1>3 DEF front
<1>7. QED
  BY <1>2, <1>5, <1>6 DEF front, path, base, r

\* A stop is chased one step further.
LEMMA Pumped ==
    ASSUME NEW a \in Agents, NEW late \in BOOLEAN
    PROVE  LET b == PumpCancel(a, late)
           IN  /\ b \in Agents /\ Routed(b, a)
               /\ b.order = a.order /\ b.reached = a.reached /\ b.executing = a.executing
               /\ b.fork = a.fork /\ a.misread \subseteq b.misread
               /\ \/ b.cancel = a.cancel /\ b.finished = a.finished
                  \/ b.cancel = Nothing /\ b.finished = a.finished
                  \/ /\ a.cancel # Nothing /\ CancelConfirmed(a)
                     /\ a.cancel.action /\ a.cancel.target # Nothing
                     /\ b.cancel = Nothing /\ b.finished = a.finished \cup {a.cancel.target}
                     /\ a.cancel.target \in a.behind => a.cancel.target \in b.misread
<1>1. a.cancel # Nothing => a.cancel \in [target : MaybeId, action : BOOLEAN]
  BY DEF Agents
<1> DEFINE goals == IF a.goals < GoalDepth THEN a.goals + 1 ELSE a.goals
<1>2. goals \in 0 .. GoalDepth
  <2>1. a.goals \in 0 .. GoalDepth
    BY DEF Agents
  <2>2. QED
    BY <2>1 DEF GoalDepth
<1>3. a.cancel # Nothing /\ a.cancel.target # Nothing
        => a.finished \cup {a.cancel.target} \in SUBSET Nat
  BY <1>1 DEF Agents, MaybeId
<1>4. CASE a.cancel = Nothing
  BY <1>4 DEF PumpCancel, Routed, Deaf
<1>5. CASE a.cancel # Nothing /\ CancelConfirmed(a)
  <2> DEFINE finished == IF a.cancel.action /\ a.cancel.target # Nothing
                         THEN a.finished \cup {a.cancel.target} ELSE a.finished
             misread == a.misread \cup ({a.cancel.target} \cap a.behind)
  <2>1. PumpCancel(a, late) = [a EXCEPT !.cancel = Nothing, !.finished = finished,
                                        !.misread = misread]
    <3>1. finished = IF a.cancel.action THEN a.finished \cup ({a.cancel.target} \ {Nothing})
                     ELSE a.finished
      OBVIOUS
    <3>2. QED
      BY <1>5, <3>1 DEF PumpCancel, Confirmed
  <2>2. /\ finished \in SUBSET Nat /\ misread \in SUBSET Nat /\ a.misread \subseteq misread
        /\ a.cancel.target \in a.behind => a.cancel.target \in misread
    BY <1>3, <1>5 DEF Agents
  <2>3. \/ finished = a.finished
        \/ /\ a.cancel.action /\ a.cancel.target # Nothing
           /\ finished = a.finished \cup {a.cancel.target}
    BY Zenon
  <2> HIDE DEF finished, misread
  <2>4. PumpCancel(a, late) \in Agents
    BY <2>1, <2>2 DEF Agents
  <2> DEFINE b == PumpCancel(a, late)
  <2>5. /\ Routed(b, a) /\ b.order = a.order /\ b.reached = a.reached
        /\ b.executing = a.executing /\ b.fork = a.fork
        /\ b.cancel = Nothing /\ b.finished = finished /\ b.misread = misread
    BY <2>1 DEF Agents, Routed, Deaf
  <2> HIDE DEF b
  <2>6. QED
    BY <1>5, <2>2, <2>3, <2>4, <2>5 DEF b
<1>6. CASE a.cancel # Nothing /\ ~CancelConfirmed(a)
  <2>1. PumpCancel(a, late) \in {a, [a EXCEPT !.cancel = Nothing], [a EXCEPT !.goals = goals]}
    BY <1>6 DEF PumpCancel
  <2> HIDE DEF goals
  <2>2. CASE PumpCancel(a, late) = a
    BY <2>2 DEF Agents, Routed, Deaf
  <2>3. CASE PumpCancel(a, late) = [a EXCEPT !.cancel = Nothing]
    BY <2>3 DEF Agents, Routed, Deaf
  <2>4. CASE PumpCancel(a, late) = [a EXCEPT !.goals = goals]
    BY <1>2, <2>4 DEF Agents, Routed, Deaf
  <2>5. QED
    BY <2>1, <2>2, <2>3, <2>4, Zenon
<1>7. QED
  BY <1>4, <1>5, <1>6

\* A stop begins.
Swept(a, action) ==
    [a EXCEPT !.fork = IF @ \in {"WAITING", "RUNNING"} THEN "FAILED" ELSE @,
              !.cancel = [target |-> IF a.order # Nothing THEN a.order.id ELSE a.navGoal,
                          action |-> action],
              !.executing = FALSE]

LEMMA SweptAway ==
    ASSUME NEW a \in Agents, NEW action \in BOOLEAN
    PROVE  LET b == Swept(a, action)
           IN  /\ b \in Agents /\ Routed(b, a)
               /\ b.order = a.order /\ b.reached = a.reached /\ ~b.executing
               /\ b.fork # "RUNNING" /\ b.finished = a.finished /\ b.misread = a.misread
               /\ b.cancel.target = IF a.order # Nothing THEN a.order.id ELSE a.navGoal
               /\ b.cancel.action = action
               /\ BeginCancel(a, action) = PumpCancel(b, FALSE)
<1> DEFINE stop == [target |-> IF a.order # Nothing THEN a.order.id ELSE a.navGoal,
                    action |-> action]
           fork == IF a.fork \in {"WAITING", "RUNNING"} THEN "FAILED" ELSE a.fork
<1>1. stop \in [target : MaybeId, action : BOOLEAN]
  BY DEF Agents, Orders, MaybeId
<1>2. fork \in Forks /\ fork # "RUNNING"
  BY DEF Forks, Agents
<1>3. Swept(a, action) = [a EXCEPT !.fork = fork, !.cancel = stop, !.executing = FALSE]
  BY DEF Swept
<1>4. /\ stop.target = IF a.order # Nothing THEN a.order.id ELSE a.navGoal
      /\ stop.action = action
  OBVIOUS
<1> HIDE DEF stop, fork
<1>5. Swept(a, action) \in Agents
  BY <1>1, <1>2, <1>3 DEF Agents
<1>6. BeginCancel(a, action) = PumpCancel(Swept(a, action), FALSE)
  BY DEF BeginCancel, Swept
<1>7. QED
  BY <1>2, <1>3, <1>4, <1>5, <1>6 DEF Agents, Routed, Deaf

-----------------------------------------------------------------------------
(* What a message does, if it does anything. *)

RouteSent(b, a, nodes) ==
    /\ b.executing = TRUE /\ b.settled = FALSE
    /\ b.behind = a.behind \cup {b.order.id} /\ b.aired = Aired(a, b.order.id)
    /\ nodes \in Seq(Nodes) /\ nodes # << >>
    /\ b.routes = Append(a.routes, [label |-> b.order.id, nodes |-> nodes])

Accepted(b, a, msg) ==
    /\ IsNew(msg) /\ ~a.executing /\ ~(a.order # Nothing /\ a.order.id = msg.order.id)
    /\ b.order = msg.order /\ b.reached = 0 /\ b.fork = "WAITING"
    /\ b.cancel = a.cancel /\ b.finished = a.finished /\ b.misread = a.misread
    /\ RouteSent(b, a, Base(msg.order))

Extended(b, a, msg) ==
    /\ IsOrder(msg) /\ a.order # Nothing
    /\ a.order.id = msg.order.id /\ msg.order.update = a.order.update + 1
    /\ b.order = msg.order /\ b.reached = a.reached /\ b.fork = a.fork
    /\ b.cancel = a.cancel /\ b.finished = a.finished /\ b.misread = a.misread
    /\ \/ Routed(b, a) /\ b.executing = a.executing
       \/ a.cancel = Nothing /\ RouteSent(b, a, Remaining(b))

Resumed(b, a, msg) ==
    /\ msg.kind = "connected" /\ a.order # Nothing /\ a.reached < a.order.base
    /\ b.order = a.order /\ b.reached = a.reached /\ b.fork = a.fork
    /\ b.cancel = Nothing /\ b.finished = a.finished /\ b.misread = a.misread
    /\ RouteSent(b, a, Remaining(b))

Target(a) == IF a.order # Nothing THEN a.order.id ELSE a.navGoal

Stopped(b, a, msg) ==
    /\ msg.kind \in {"cancel", "lost"}
    /\ Routed(b, a) /\ b.executing = FALSE /\ b.fork # "RUNNING"
    /\ a.misread \subseteq b.misread
    /\ \/ msg.kind = "cancel" /\ b.order = Nothing /\ b.reached = 0
       \/ msg.kind = "lost" /\ b.order = a.order /\ b.reached = a.reached
    /\ \/ /\ b.cancel.target = Target(a)
          /\ b.cancel.action = (msg.kind = "cancel")
          /\ b.finished = a.finished
       \/ b.cancel = Nothing /\ b.finished = a.finished
       \/ /\ msg.kind = "cancel" /\ b.cancel = Nothing
          /\ Target(a) # Nothing /\ a.navGoal # Target(a) /\ a.navState # ""
          /\ b.finished = a.finished \cup {Target(a)}
          /\ Target(a) \in a.behind => Target(a) \in b.misread

\* What the agent and a message must be for that.
Ready(a, msg) ==
    /\ a.order # Nothing => a.order.base \in 1 .. Len(a.order.path) /\ a.reached <= a.order.base
    /\ IsOrder(msg) => msg.order.base \in 1 .. Len(msg.order.path)
    /\ IsOrder(msg) /\ a.order # Nothing /\ a.order.id = msg.order.id
       /\ msg.order.update = a.order.update + 1 => a.reached <= msg.order.base

LEMMA OrderHandled ==
    ASSUME NEW a \in Agents, NEW msg \in Messages, IsOrder(msg), Ready(a, msg)
    PROVE  LET b == OnOrder(a, msg.order)
           IN  /\ b \in Agents /\ Deaf(b, a)
               /\ b = a \/ Accepted(b, a, msg) \/ Extended(b, a, msg)
<1> DEFINE o == msg.order
<1>1. o \in Orders /\ o.base \in 1 .. Len(o.path) /\ o # Nothing
  BY VehicleConstants DEF Messages, IsOrder, Ready
<1>2. CASE Verdict(a, o) = "extend"
  <2> DEFINE longer == [a EXCEPT !.order = o]
  <2>1. a.order # Nothing /\ a.order.id = o.id /\ o.update = a.order.update + 1
    BY <1>2 DEF Verdict
  <2>2. longer \in Agents
    BY <1>1 DEF Agents
  <2>3. /\ longer.order = o /\ longer.reached = a.reached /\ longer.fork = a.fork
        /\ longer.cancel = a.cancel /\ longer.finished = a.finished
        /\ longer.misread = a.misread /\ longer.executing = a.executing /\ Routed(longer, a)
    BY DEF Agents, Deaf, Routed
  <2>4. a.reached <= o.base
    BY <2>1 DEF Ready
  <2> HIDE DEF longer
  <2>5. Remaining(longer) \in Seq(Nodes)
    BY <1>1, <2>2, <2>3, <2>4, RemainingNodes
  <2>6. OnOrder(a, o) = IF a.cancel # Nothing THEN a
                        ELSE IF Remaining(longer) = << >> THEN longer
                        ELSE SendRoute(longer, Remaining(longer))
    BY <1>2 DEF OnOrder, Extend, longer
  <2>7. CASE OnOrder(a, o) = longer
    BY <2>1, <2>2, <2>3, <2>7 DEF Extended, Routed
  <2>8. CASE /\ a.cancel = Nothing /\ Remaining(longer) # << >>
             /\ OnOrder(a, o) = SendRoute(longer, Remaining(longer))
    <3> DEFINE b == SendRoute(longer, Remaining(longer))
    <3>1. /\ b \in Agents /\ Deaf(b, longer)
          /\ b.order = longer.order /\ b.reached = longer.reached /\ b.cancel = longer.cancel
          /\ b.fork = longer.fork /\ b.finished = longer.finished
          /\ b.misread = longer.misread /\ b.executing = TRUE /\ b.settled = FALSE
          /\ b.behind = longer.behind \cup {longer.order.id}
          /\ b.aired = Aired(longer, longer.order.id)
          /\ b.routes = Append(longer.routes, [label |-> longer.order.id,
                                               nodes |-> Remaining(longer)])
      BY <1>1, <2>2, <2>3, <2>5, Sent
    <3> HIDE DEF b
    <3>2. Remaining(b) = Remaining(longer)
      BY <3>1 DEF Remaining
    <3>3. b.routes = Append(a.routes, [label |-> b.order.id, nodes |-> Remaining(b)])
      BY <2>3, <3>1, <3>2 DEF Routed
    <3>4. RouteSent(b, a, Remaining(b))
      BY <2>3, <2>5, <2>8, <3>1, <3>2, <3>3 DEF RouteSent, Routed, Aired
    <3>5. Extended(b, a, msg) /\ Deaf(b, a)
      BY <2>1, <2>3, <2>8, <3>1, <3>4 DEF Extended, Deaf, Routed
    <3>6. QED
      BY <2>8, <3>1, <3>5 DEF b
  <2>9. CASE OnOrder(a, o) = a
    BY <2>9 DEF Deaf
  <2>10. QED
    BY <2>6, <2>7, <2>8, <2>9
<1>3. CASE Verdict(a, o) = "accept"
  <2> DEFINE held == [a EXCEPT !.order = o, !.reached = 0, !.fork = "WAITING"]
             b == SendRoute(held, Base(o))
  <2>1. o.update = 0 /\ ~a.executing /\ ~(a.order # Nothing /\ a.order.id = o.id)
    BY <1>3 DEF Verdict
  <2>2. held \in Agents
    BY <1>1 DEF Agents, Forks
  <2>3. /\ held.order = o /\ held.reached = 0 /\ held.fork = "WAITING"
        /\ held.cancel = a.cancel /\ held.finished = a.finished /\ held.misread = a.misread
        /\ Routed(held, a)
    BY DEF Agents, Deaf, Routed
  <2>4. Base(o) \in Seq(Nodes) /\ Base(o) # << >>
    <3> DEFINE path == o.path
               base == o.base
    <3>1. path \in Seq(Nodes) /\ base \in 1 .. Len(path) /\ Base(o) = SubSeq(path, 1, base)
      BY <1>1 DEF Orders, Base
    <3> HIDE DEF path, base
    <3>2. SubSeq(path, 1, base) \in Seq(Nodes) /\ Len(SubSeq(path, 1, base)) = base
      BY <3>1
    <3>3. QED
      BY <3>1, <3>2
  <2> HIDE DEF held
  <2>5. /\ b \in Agents /\ Deaf(b, held)
        /\ b.order = held.order /\ b.reached = held.reached /\ b.cancel = held.cancel
        /\ b.fork = held.fork /\ b.finished = held.finished /\ b.misread = held.misread
        /\ b.executing = TRUE /\ b.settled = FALSE
        /\ b.behind = held.behind \cup {held.order.id} /\ b.aired = Aired(held, held.order.id)
        /\ b.routes = Append(held.routes, [label |-> held.order.id, nodes |-> Base(o)])
    BY <1>1, <2>2, <2>3, <2>4, Sent
  <2>6. OnOrder(a, o) = b
    BY <1>3 DEF OnOrder, held
  <2> HIDE DEF b
  <2>7. b.routes = Append(a.routes, [label |-> b.order.id, nodes |-> Base(o)])
    BY <2>3, <2>5 DEF Routed
  <2>8. RouteSent(b, a, Base(o))
    BY <2>3, <2>4, <2>5, <2>7 DEF RouteSent, Routed, Aired
  <2>9. Accepted(b, a, msg) /\ Deaf(b, a)
    BY <2>1, <2>3, <2>5, <2>8 DEF Accepted, Deaf, IsNew, IsOrder, Routed
  <2>10. QED
    BY <2>5, <2>6, <2>9
<1>4. CASE Verdict(a, o) \notin {"extend", "accept"}
  BY <1>4 DEF OnOrder, Deaf
<1>5. QED
  BY <1>2, <1>3, <1>4

\* A stop as it was begun.
LEMMA BegunStop ==
    ASSUME NEW a \in Agents, NEW action \in BOOLEAN
    PROVE  LET b == BeginCancel(a, action)
           IN  /\ b \in Agents /\ Routed(b, a)
               /\ b.order = a.order /\ b.reached = a.reached /\ b.executing = FALSE
               /\ b.fork # "RUNNING" /\ a.misread \subseteq b.misread
               /\ \/ /\ b.cancel.target = Target(a) /\ b.cancel.action = action
                     /\ b.finished = a.finished
                  \/ b.cancel = Nothing /\ b.finished = a.finished
                  \/ /\ action /\ b.cancel = Nothing
                     /\ Target(a) # Nothing /\ a.navGoal # Target(a) /\ a.navState # ""
                     /\ b.finished = a.finished \cup {Target(a)}
                     /\ Target(a) \in a.behind => Target(a) \in b.misread
<1> DEFINE s == Swept(a, action)
           b == PumpCancel(s, FALSE)
<1>1. /\ s \in Agents /\ Routed(s, a)
      /\ s.order = a.order /\ s.reached = a.reached /\ ~s.executing
      /\ s.fork # "RUNNING" /\ s.finished = a.finished /\ s.misread = a.misread
      /\ s.cancel.target = Target(a) /\ s.cancel.action = action
      /\ BeginCancel(a, action) = b
  BY SweptAway DEF Target
<1> HIDE DEF s
<1>2. /\ b \in Agents /\ Routed(b, s)
      /\ b.order = s.order /\ b.reached = s.reached /\ b.executing = s.executing
      /\ b.fork = s.fork /\ s.misread \subseteq b.misread
      /\ \/ b.cancel = s.cancel /\ b.finished = s.finished
         \/ b.cancel = Nothing /\ b.finished = s.finished
         \/ /\ s.cancel # Nothing /\ CancelConfirmed(s)
            /\ s.cancel.action /\ s.cancel.target # Nothing
            /\ b.cancel = Nothing /\ b.finished = s.finished \cup {s.cancel.target}
            /\ s.cancel.target \in s.behind => s.cancel.target \in b.misread
  BY <1>1, Pumped
<1>3. CancelConfirmed(s) /\ Target(a) # Nothing => a.navGoal # Target(a) /\ a.navState # ""
  BY <1>1 DEF CancelConfirmed, Routed, Deaf
<1> HIDE DEF b
<1>4. Routed(b, a)
  BY <1>1, <1>2 DEF Routed, Deaf
<1>5. b.executing = FALSE
  BY <1>1, <1>2 DEF Agents
<1>6. \/ /\ b.cancel.target = Target(a) /\ b.cancel.action = action
         /\ b.finished = a.finished
      \/ b.cancel = Nothing /\ b.finished = a.finished
      \/ /\ action /\ b.cancel = Nothing
         /\ Target(a) # Nothing /\ a.navGoal # Target(a) /\ a.navState # ""
         /\ b.finished = a.finished \cup {Target(a)}
         /\ Target(a) \in a.behind => Target(a) \in b.misread
  <2>1. CASE b.cancel = s.cancel /\ b.finished = s.finished
    BY <1>1, <2>1
  <2>2. CASE b.cancel = Nothing /\ b.finished = s.finished
    BY <1>1, <2>2
  <2>3. CASE /\ s.cancel # Nothing /\ CancelConfirmed(s)
             /\ s.cancel.action /\ s.cancel.target # Nothing
             /\ b.cancel = Nothing /\ b.finished = s.finished \cup {s.cancel.target}
             /\ s.cancel.target \in s.behind => s.cancel.target \in b.misread
    <3>1. s.behind = a.behind
      BY <1>1 DEF Routed
    <3>2. QED
      BY <1>1, <1>3, <2>3, <3>1, Zenon
  <2>4. QED
    BY <1>2, <2>1, <2>2, <2>3
<1>7. QED
  BY <1>1, <1>2, <1>4, <1>5, <1>6

LEMMA StopHandled ==
    ASSUME NEW a \in Agents, NEW msg, msg.kind \in {"cancel", "lost"}
    PROVE  LET b == Handle(a, msg)
           IN  /\ b \in Agents /\ Deaf(b, a)
               /\ b = a \/ Stopped(b, a, msg)
<1>1. CASE msg.kind = "cancel"
  <2> DEFINE c == BeginCancel(a, TRUE)
             b == [c EXCEPT !.order = Nothing, !.reached = 0]
  <2>1. Handle(a, msg) = b
    BY <1>1 DEF Handle, OnCancel
  <2>2. /\ c \in Agents /\ Routed(c, a)
        /\ c.executing = FALSE /\ c.fork # "RUNNING" /\ a.misread \subseteq c.misread
        /\ \/ /\ c.cancel.target = Target(a) /\ c.cancel.action = TRUE
              /\ c.finished = a.finished
           \/ c.cancel = Nothing /\ c.finished = a.finished
           \/ /\ c.cancel = Nothing
              /\ Target(a) # Nothing /\ a.navGoal # Target(a) /\ a.navState # ""
              /\ c.finished = a.finished \cup {Target(a)}
              /\ Target(a) \in a.behind => Target(a) \in c.misread
    BY BegunStop
  <2> HIDE DEF c
  <2>3. /\ b \in Agents /\ b.order = Nothing /\ b.reached = 0
        /\ b.executing = c.executing /\ b.fork = c.fork /\ b.cancel = c.cancel
        /\ b.finished = c.finished /\ b.misread = c.misread /\ Routed(b, c)
    BY <2>2 DEF Agents, Routed, Deaf
  <2> HIDE DEF b
  <2>4. Routed(b, a) /\ Deaf(b, a)
    BY <2>2, <2>3 DEF Routed, Deaf
  <2>5. Stopped(b, a, msg)
    BY <1>1, <2>2, <2>3, <2>4 DEF Stopped
  <2>6. QED
    BY <2>1, <2>3, <2>4, <2>5
<1>2. CASE msg.kind = "lost"
  <2>1. CASE ~a.executing
    <3>1. Handle(a, msg) = a
      BY <1>2, <2>1 DEF Handle, SupervisionLost
    <3>2. QED
      BY <3>1 DEF Deaf
  <2>2. CASE a.executing
    <3> DEFINE b == BeginCancel(a, FALSE)
    <3>1. Handle(a, msg) = b
      BY <1>2, <2>2 DEF Handle, SupervisionLost
    <3>2. /\ b \in Agents /\ Routed(b, a)
          /\ b.order = a.order /\ b.reached = a.reached /\ b.executing = FALSE
          /\ b.fork # "RUNNING" /\ a.misread \subseteq b.misread
          /\ \/ /\ b.cancel.target = Target(a) /\ b.cancel.action = FALSE
                /\ b.finished = a.finished
             \/ b.cancel = Nothing /\ b.finished = a.finished
      BY BegunStop
    <3> HIDE DEF b
    <3>3. Stopped(b, a, msg) /\ Deaf(b, a)
      BY <1>2, <3>2 DEF Stopped, Routed
    <3>4. QED
      BY <3>1, <3>2, <3>3
  <2>3. QED
    BY <2>1, <2>2
<1>3. QED
  BY <1>1, <1>2

LEMMA ResumeHandled ==
    ASSUME NEW a \in Agents, NEW msg, msg.kind = "connected",
           a.order # Nothing => /\ a.order.base \in 1 .. Len(a.order.path)
                                /\ a.reached <= a.order.base
    PROVE  LET b == Handle(a, msg)
           IN  /\ b \in Agents /\ Deaf(b, a)
               /\ b = a \/ Resumed(b, a, msg)
<1>1. Handle(a, msg) = Announce(a)
  BY DEF Handle
<1>2. CASE Announce(a) = a
  BY <1>1, <1>2 DEF Deaf
<1>3. CASE Announce(a) # a
  <2> DEFINE c == SendRoute(a, Remaining(a))
             b == [c EXCEPT !.cancel = Nothing]
  <2>1. a.order # Nothing /\ a.reached # a.order.base /\ Announce(a) = b
    BY <1>3 DEF Announce
  <2>2. a.order \in Orders
    BY <2>1 DEF Agents
  <2>3. a.reached < a.order.base
    <3>1. a.reached \in Nat /\ a.order.base \in Nat /\ a.reached <= a.order.base
      BY <2>1, <2>2 DEF Agents, Orders
    <3>2. QED
      BY <2>1, <3>1
  <2>4. Remaining(a) \in Seq(Nodes) /\ Remaining(a) # << >>
    <3>1. Remaining(a) \in Seq(Nodes) /\ Len(Remaining(a)) = a.order.base - a.reached
      BY <2>1, <2>2, RemainingNodes
    <3>2. a.reached \in Nat /\ a.order.base \in Nat
      BY <2>2 DEF Agents, Orders
    <3>3. QED
      BY <2>3, <3>1, <3>2
  <2>5. /\ c \in Agents /\ Deaf(c, a)
        /\ c.order = a.order /\ c.reached = a.reached /\ c.fork = a.fork
        /\ c.finished = a.finished /\ c.misread = a.misread
        /\ c.executing = TRUE /\ c.settled = FALSE
        /\ c.behind = a.behind \cup {a.order.id} /\ c.aired = Aired(a, a.order.id)
        /\ c.routes = Append(a.routes, [label |-> a.order.id, nodes |-> Remaining(a)])
    BY <2>2, <2>4, Sent
  <2> HIDE DEF c
  <2>6. /\ b \in Agents /\ Deaf(b, c) /\ b.cancel = Nothing
        /\ b.order = c.order /\ b.reached = c.reached /\ b.fork = c.fork
        /\ b.finished = c.finished /\ b.misread = c.misread /\ b.executing = c.executing
        /\ Routed(b, c)
    BY <2>5 DEF Agents, Deaf, Routed
  <2> HIDE DEF b
  <2>7. Remaining(b) = Remaining(a)
    BY <2>5, <2>6 DEF Remaining
  <2>8. RouteSent(b, a, Remaining(b))
    BY <2>4, <2>5, <2>6, <2>7 DEF RouteSent, Routed
  <2>9. Resumed(b, a, msg) /\ Deaf(b, a)
    BY <2>1, <2>3, <2>5, <2>6, <2>8 DEF Resumed, Deaf
  <2>10. QED
    BY <1>1, <2>1, <2>6, <2>9
<1>4. QED
  BY <1>2, <1>3

\* A message changes nothing, or it does one of four things.
LEMMA Handled ==
    ASSUME NEW a \in Agents, NEW msg \in Messages, Ready(a, msg)
    PROVE  LET b == Handle(a, msg)
           IN  /\ b \in Agents /\ Deaf(b, a)
               /\ \/ b = a \/ Accepted(b, a, msg) \/ Extended(b, a, msg)
                  \/ Resumed(b, a, msg) \/ Stopped(b, a, msg)
<1>1. CASE IsOrder(msg)
  <2>1. Handle(a, msg) = OnOrder(a, msg.order)
    BY <1>1 DEF Handle, IsOrder
  <2>2. QED
    BY <1>1, <2>1, OrderHandled
<1>2. CASE msg.kind \in {"cancel", "lost"}
  BY <1>2, StopHandled
<1>3. CASE msg.kind = "connected"
  BY <1>3, ResumeHandled DEF Ready
<1>4. msg.kind \in {"order", "cancel", "lost", "connected"}
  BY DEF Messages
<1>5. QED
  BY <1>1, <1>2, <1>3, <1>4 DEF IsOrder

-----------------------------------------------------------------------------
(* Types. *)

\* The elements of a sequence that grew by one.
LEMMA Appended ==
    ASSUME NEW T, NEW q \in Seq(T), NEW e \in T
    PROVE  /\ Append(q, e) \in Seq(T) /\ Len(Append(q, e)) = Len(q) + 1
           /\ DOMAIN Append(q, e) = 1 .. Len(q) + 1
           /\ \A k \in 1 .. Len(q) : Append(q, e)[k] = q[k]
           /\ Append(q, e)[Len(q) + 1] = e
  OBVIOUS

LEMMA ReadyIfHeld ==
    ASSUME NEW a \in Agents, NEW q \in Seq(Messages), NEW s \in Spendings, Posted(q, s),
           NEW i \in 1 .. Len(q), Holds(a, i - 1, q, s)
    PROVE  Ready(a, q[i]) /\ q[i] \in Messages
<1>1. q[i] \in Messages /\ i \in DOMAIN q /\ i \in i - 1 + 1 .. Len(q)
  OBVIOUS
<1>2. Fits(a, q[i])
  BY <1>1 DEF Holds
<1>3. a.order # Nothing => a.order.base \in 1 .. Len(a.order.path) /\ a.reached <= a.order.base
  BY DEF Holds, Proper
<1>4. IsOrder(q[i]) => q[i].order \in Orders /\ q[i].order.base \in 1 .. Len(q[i].order.path)
  BY <1>1 DEF Posted, Proper, IsOrder, Messages
<1>5. ASSUME IsOrder(q[i]), a.order # Nothing, a.order.id = q[i].order.id,
             q[i].order.update = a.order.update + 1
      PROVE  a.reached <= q[i].order.base
  <2>1. q[i].order.base = a.order.base + 1
    BY <1>2, <1>5 DEF Fits
  <2>2. a.reached \in Nat /\ a.order.base \in Nat /\ a.reached <= a.order.base
    BY <1>3, <1>5 DEF Agents, Orders
  <2>3. QED
    BY <2>1, <2>2
<1>6. QED
  BY <1>1, <1>3, <1>4, <1>5 DEF Ready

\* The routes' nodes after one more was sent.
LEMMA RoutesStay ==
    ASSUME NEW a \in Agents, NEW b, NEW nodes, RouteSent(b, a, nodes), b.order \in Orders,
           \A k \in DOMAIN a.routes : a.routes[k].nodes # << >>
    PROVE  \A k \in DOMAIN b.routes : b.routes[k].nodes # << >>
<1> DEFINE route == [label |-> b.order.id, nodes |-> nodes]
<1>1. route \in Routes /\ a.routes \in Seq(Routes) /\ route.nodes # << >>
  BY DEF Routes, Agents, Orders, RouteSent
<1>2. b.routes = Append(a.routes, route)
  BY DEF RouteSent
<1> HIDE DEF route
<1>3. QED
  BY <1>1, <1>2, Appended

\* The drain's step keeps the types.
LEMMA HeldOn ==
    ASSUME NEW a \in Agents, NEW q \in Seq(Messages), NEW s \in Spendings, Posted(q, s),
           NEW i \in 1 .. Len(q), Holds(a, i - 1, q, s)
    PROVE  LET b == Handle(a, q[i]) IN b \in Agents /\ Holds(b, i, q, s)
<1> DEFINE msg == q[i]
           b == Handle(a, msg)
<1>1. Ready(a, msg) /\ msg \in Messages
  BY ReadyIfHeld
<1>2. /\ b \in Agents
      /\ \/ b = a \/ Accepted(b, a, msg) \/ Extended(b, a, msg)
         \/ Resumed(b, a, msg) \/ Stopped(b, a, msg)
  BY <1>1, Handled
<1>3. /\ IsOrder(msg) => msg.order \in Orders /\ Proper(msg.order, s)
      /\ IsOrder(msg) => \A j \in i + 1 .. Len(q) : ~IsOrder(q[j])
  BY <1>1 DEF Posted, IsOrder, Messages
<1>4. /\ a.order # Nothing => Proper(a.order, s) /\ a.reached <= a.order.base
      /\ a.order = Nothing => ~a.executing /\ a.reached = 0
      /\ \A k \in DOMAIN a.routes : a.routes[k].nodes # << >>
      /\ \A j \in i + 1 .. Len(q) : Fits(a, q[j])
  BY DEF Holds
<1>5. (a.order # Nothing => a.order \in Orders) /\ Nothing \notin Orders
  BY VehicleConstants DEF Agents
<1> HIDE DEF b
<1>6. CASE b = a
  BY <1>2, <1>4, <1>6 DEF Holds, b
<1>7. CASE Accepted(b, a, msg)
  <2>1. IsOrder(msg) /\ b.order = msg.order /\ b.reached = 0
    BY <1>7 DEF Accepted, IsNew, IsOrder
  <2>2. \A k \in DOMAIN b.routes : b.routes[k].nodes # << >>
    BY <1>3, <1>4, <1>7, <2>1, RoutesStay DEF Accepted
  <2>3. Proper(b.order, s) /\ b.reached <= b.order.base
    BY <1>3, <2>1 DEF Proper
  <2>4. \A j \in i + 1 .. Len(q) : Fits(b, q[j])
    BY <1>3, <2>1 DEF Fits
  <2>5. QED
    BY <1>2, <1>3, <1>5, <2>1, <2>2, <2>3, <2>4 DEF Holds, b
<1>8. CASE Extended(b, a, msg)
  <2>1. IsOrder(msg) /\ b.order = msg.order /\ b.reached = a.reached
    BY <1>8 DEF Extended
  <2>2. \A k \in DOMAIN b.routes : b.routes[k].nodes # << >>
    <3>1. CASE b.routes = a.routes
      BY <1>4, <3>1
    <3>2. CASE RouteSent(b, a, Remaining(b))
      BY <1>3, <1>4, <2>1, <3>2, RoutesStay
    <3>3. QED
      BY <1>8, <3>1, <3>2 DEF Extended, Routed
  <2>3. Proper(b.order, s) /\ b.reached <= b.order.base
    BY <1>1, <1>3, <1>8, <2>1 DEF Ready, Extended
  <2>4. \A j \in i + 1 .. Len(q) : Fits(b, q[j])
    BY <1>3, <2>1 DEF Fits
  <2>5. QED
    BY <1>2, <1>3, <1>5, <2>1, <2>2, <2>3, <2>4 DEF Holds, b
<1>9. CASE Resumed(b, a, msg)
  <2>1. b.order = a.order /\ a.order # Nothing /\ b.reached = a.reached
    BY <1>9 DEF Resumed
  <2>2. \A k \in DOMAIN b.routes : b.routes[k].nodes # << >>
    BY <1>4, <1>5, <1>9, <2>1, RoutesStay DEF Resumed
  <2>3. QED
    BY <1>2, <1>4, <2>1, <2>2 DEF Holds, Fits, b
<1>10. CASE Stopped(b, a, msg)
  BY <1>2, <1>4, <1>10 DEF Stopped, Routed, Holds, Fits, b
<1>11. QED
  BY <1>2, <1>6, <1>7, <1>8, <1>9, <1>10

\* The whole drain.
LEMMA DrainedHolds ==
    ASSUME TypeInv, NEW late \in BOOLEAN, NEW cycled \in BOOLEAN
    PROVE  Drained(late, cycled) \in Agents /\ Holds(Drained(late, cycled), 0, << >>, spent)
<1> DEFINE n == Len(inbox)
           S == [i \in 0 .. n |-> {a \in Agents : Holds(a, i, inbox, spent)}]
           handled == FoldLeft(Handle, agent, inbox)
           over == late /\ handled.cancel = agent.cancel
           pumped == PumpCancel(handled, over)
           b == Drained(late, cycled)
<1>1. inbox \in Seq(Messages) /\ spent \in Spendings /\ Posted(inbox, spent)
  BY DEF TypeInv
<1>2. n \in Nat /\ DOMAIN inbox = 1 .. n
  BY <1>1
<1>3. agent \in S[0]
  BY <1>2 DEF TypeInv
<1>4. ASSUME NEW i \in 1 .. n, NEW a \in S[i - 1]
      PROVE  Handle(a, inbox[i]) \in S[i]
  <2>1. i - 1 \in 0 .. n /\ i \in 0 .. n
    BY <1>2
  <2>2. a \in Agents /\ Holds(a, i - 1, inbox, spent)
    BY <2>1
  <2>3. Handle(a, inbox[i]) \in Agents /\ Holds(Handle(a, inbox[i]), i, inbox, spent)
    BY <1>1, <2>2, HeldOn
  <2>4. QED
    BY <2>1, <2>3
<1>5. handled \in S[n]
  <2> HIDE DEF S, n
  <2>1. QED
    BY <1>2, <1>3, <1>4, HandledAll
<1>6. handled \in Agents /\ Holds(handled, n, inbox, spent)
  BY <1>2, <1>5
<1>0. over \in BOOLEAN
  OBVIOUS
<1> HIDE DEF S, handled, over
<1>7. /\ pumped \in Agents /\ pumped.order = handled.order /\ pumped.reached = handled.reached
      /\ pumped.routes = handled.routes /\ pumped.executing = handled.executing
  BY <1>0, <1>6, Pumped DEF Routed
<1>8. b = IF cycled /\ pumped.fork = "RUNNING" THEN [pumped EXCEPT !.fork = "FINISHED"]
          ELSE pumped
  BY DEF Drained, handled, over
<1> HIDE DEF pumped, b
<1>9. /\ b \in Agents /\ b.order = handled.order /\ b.reached = handled.reached
      /\ b.routes = handled.routes /\ b.executing = handled.executing
  BY <1>7, <1>8 DEF Agents, Forks
<1>10. Holds(b, 0, << >>, spent)
  BY <1>6, <1>9 DEF Holds
<1>11. QED
  BY <1>9, <1>10 DEF b

LEMMA EmptyWork ==
    /\ NoWork \in Navs /\ [NoWork EXCEPT !.up = FALSE] \in Navs
    /\ NoWork.state = "IDLE" /\ NoWork.goal = Nothing /\ NoWork.up
    /\ [NoWork EXCEPT !.up = FALSE].state = "IDLE"
    /\ [NoWork EXCEPT !.up = FALSE].goal = Nothing /\ ~[NoWork EXCEPT !.up = FALSE].up
<1>1. << >> \in Seq(Nodes) /\ "" \in Notes
  BY DEF Notes
<1>2. QED
  BY <1>1 DEF NoWork, Navs, NavStates, MaybeId

LEMMA TypeInit == VehicleInit => TypeInv
<1> SUFFICES ASSUME VehicleInit PROVE TypeInv
  OBVIOUS
<1> DEFINE first == [order |-> Nothing, reached |-> 0, executing |-> FALSE, cancel |-> Nothing,
                navState |-> "", navGoal |-> Nothing, auto |-> TRUE, settled |-> TRUE,
                fork |-> "NONE", routes |-> << >>, goals |-> 0, finished |-> {},
                behind |-> {}, aired |-> {}, misread |-> {}, rolling |-> {}]
<1>1. 0 \in 0 .. GoalDepth /\ 1 \in Nodes
  BY VehicleConstants DEF GoalDepth, Nodes
<1>2. first \in Agents
  BY <1>1 DEF Agents, NavStates, MaybeId, Forks
<1>3. nav \in Navs /\ nav.state = "IDLE"
  <2>1. NoWork \in Navs /\ NoWork.state = "IDLE"
    BY EmptyWork
  <2>2. nav = [NoWork EXCEPT !.auto = TRUE]
    BY DEF VehicleInit
  <2>3. QED
    BY <2>1, <2>2 DEF Navs
<1>4. first.order = Nothing /\ first.routes = << >> /\ ~first.executing /\ first.reached = 0
  OBVIOUS
<1>5. agent = first
  BY DEF VehicleInit
<1> HIDE DEF first
<1>6. Holds(agent, 0, << >>, spent) /\ Posted(<< >>, spent)
  BY <1>4, <1>5 DEF Holds, Posted
<1>7. spent \in Spendings
  BY DEF VehicleInit, Spendings
<1>8. inbox \in Seq(Messages) /\ report \in Reports \cup {Nothing} /\ place \in Nodes
  <2>1. inbox = << >> /\ report = Nothing /\ place = 1
    BY DEF VehicleInit
  <2>2. QED
    BY <1>1, <2>1
<1>9. mode \in BOOLEAN /\ broker \in BOOLEAN
  <2>1. mode = TRUE /\ broker = TRUE
    BY DEF VehicleInit
  <2>2. QED
    BY <2>1
<1>10. Holds(agent, 0, inbox, spent) /\ Posted(inbox, spent)
  BY <1>6 DEF VehicleInit
<1>11. agent \in Agents /\ nav.state # "EN-ROUTE"
  BY <1>2, <1>3, <1>5
<1>12. QED
  BY <1>3, <1>7, <1>8, <1>9, <1>10, <1>11 DEF TypeInv

\* The planned path goes from node to node and passes none twice.
LEMMA StraightPath ==
    ASSUME NEW from \in Nodes, NEW to \in Nodes
    PROVE  LET path == Straight(from, to)
           IN  /\ path \in Seq(Nodes) /\ Len(path) \in 1 .. Line /\ path[1] = from
               /\ \A j, k \in DOMAIN path : path[j] = path[k] => j = k
<1> DEFINE n == (IF to >= from THEN to - from ELSE from - to) + 1
           path == Straight(from, to)
<1>1. Line \in Nat /\ from \in Int /\ to \in Int
  BY VehicleConstants DEF Nodes
<1>2. n \in Nat \ {0} /\ n <= Line
  BY <1>1 DEF Nodes
<1>3. path = [i \in 1 .. n |-> IF to >= from THEN from + i - 1 ELSE from - i + 1]
  BY DEF Straight
<1>4. \A i \in 1 .. n : (IF to >= from THEN from + i - 1 ELSE from - i + 1) \in Nodes
  BY <1>1 DEF Nodes
<1> HIDE DEF path
<1>5. path \in Seq(Nodes) /\ Len(path) = n /\ DOMAIN path = 1 .. n
  BY <1>2, <1>3, <1>4
<1>6. path[1] = from
  BY <1>1, <1>2, <1>3
<1>7. ASSUME NEW j \in 1 .. n, NEW k \in 1 .. n, path[j] = path[k] PROVE j = k
  BY <1>1, <1>2, <1>3, <1>7
<1>8. QED
  BY <1>1, <1>2, <1>5, <1>6, <1>7 DEF path

\* The greatest of a set with a bound.
LEMMA GreatestBelow ==
    ASSUME NEW n \in Nat, NEW S \in SUBSET (0 .. n), NEW x \in S
    PROVE  \E m \in S : \A y \in S : y <= m
<1> DEFINE mirror == {n - y : y \in S}
<1>1. mirror \in SUBSET Nat /\ n - x \in mirror
  OBVIOUS
<1>2. PICK c \in mirror : \A y \in mirror : c <= y
  <2> HIDE DEF mirror
  <2>1. QED
    BY <1>1, LeastNatural
<1>3. PICK m \in S : c = n - m
  BY <1>2
<1>4. \A y \in S : n - m <= n - y
  BY <1>2, <1>3
<1>5. QED
  BY <1>3, <1>4

\* An arrival is made of an order all of whose nodes were passed.
LEMMA Arrived ==
    ASSUME NEW a \in Agents
    PROVE  LET b == SettleArrival(a)
           IN  /\ b \in Agents /\ Routed(b, a)
               /\ b.order = a.order /\ b.reached = a.reached /\ b.cancel = a.cancel
               /\ b.finished = a.finished /\ b.misread = a.misread
               /\ \/ b.executing = a.executing /\ b.fork = a.fork
                  \/ /\ b.executing = FALSE /\ b.fork = "RUNNING"
                     /\ a.order # Nothing /\ a.reached = Len(a.order.path)
<1>1. CASE SettleArrival(a) = a
  BY <1>1 DEF Routed, Deaf
<1>2. CASE /\ SettleArrival(a) = [a EXCEPT !.executing = FALSE, !.fork = "RUNNING"]
           /\ a.order # Nothing /\ a.reached = Len(a.order.path)
  BY <1>2 DEF Agents, Forks, Routed, Deaf
<1>3. QED
  BY <1>1, <1>2 DEF SettleArrival

LEMMA OdomCounts ==
    ASSUME NEW a \in Agents, a.order \in Orders, a.reached <= a.order.base
    PROVE  LET b == OdomHeard(a)
           IN  /\ b \in Agents /\ Routed(b, a)
               /\ b.order = a.order /\ b.cancel = a.cancel /\ b.finished = a.finished
               /\ b.misread = a.misread /\ (b.executing => a.executing)
               /\ \/ b.reached = a.reached
                  \/ /\ b.reached \in a.reached + 1 .. a.order.base
                     /\ a.order.path[b.reached] = place
               /\ \/ b.fork = a.fork
                  \/ a.order # Nothing /\ b.reached = Len(a.order.path)
<1> DEFINE at == {j \in a.reached + 1 .. a.order.base : a.order.path[j] = place}
           furthest == CHOOSE j \in at : \A k \in at : k <= j
<1>1. a.reached \in Nat /\ a.order.base \in Nat
  BY DEF Agents, Orders
<1>2. CASE at = {}
  <2>1. OdomHeard(a) = a
    BY <1>2 DEF OdomHeard
  <2>2. QED
    BY <2>1 DEF Routed, Deaf
<1>3. CASE at # {}
  <2>1. furthest \in at
    <3>1. at \in SUBSET (0 .. a.order.base)
      BY <1>1
    <3> HIDE DEF at
    <3>2. \E j \in at : \A k \in at : k <= j
      BY <1>1, <1>3, <3>1, GreatestBelow
    <3>3. QED
      BY <3>2
  <2> DEFINE c == [a EXCEPT !.reached = furthest]
             b == SettleArrival(c)
  <2>2. OdomHeard(a) = b
    BY <1>3 DEF OdomHeard
  <2>3. furthest \in Nat /\ furthest \in a.reached + 1 .. a.order.base
        /\ a.order.path[furthest] = place
    BY <1>1, <2>1
  <2> HIDE DEF furthest, at
  <2>4. /\ c \in Agents /\ Routed(c, a) /\ c.reached = furthest
        /\ c.order = a.order /\ c.cancel = a.cancel /\ c.finished = a.finished
        /\ c.misread = a.misread /\ c.executing = a.executing /\ c.fork = a.fork
    BY <2>3 DEF Agents, Routed, Deaf
  <2> HIDE DEF c
  <2>5. /\ b \in Agents /\ Routed(b, c)
        /\ b.order = c.order /\ b.reached = c.reached /\ b.cancel = c.cancel
        /\ b.finished = c.finished /\ b.misread = c.misread
        /\ \/ b.executing = c.executing /\ b.fork = c.fork
           \/ /\ b.executing = FALSE /\ b.fork = "RUNNING"
              /\ c.order # Nothing /\ c.reached = Len(c.order.path)
    BY <2>4, Arrived
  <2> HIDE DEF b
  <2>6. Routed(b, a)
    BY <2>4, <2>5 DEF Routed, Deaf
  <2>7. QED
    BY <2>2, <2>3, <2>4, <2>5, <2>6
<1>4. QED
  BY <1>2, <1>3

LEMMA ReportHeard ==
    ASSUME NEW a \in Agents, NEW said \in Reports
    PROVE  LET b == NavHeard(a, said)
           IN  /\ b \in Agents
               /\ b.order = a.order /\ b.reached = a.reached /\ b.cancel = a.cancel
               /\ b.finished = a.finished /\ b.routes = a.routes /\ b.misread = a.misread
               /\ b.rolling = a.rolling
               /\ b.navGoal = said.goal /\ b.behind = a.aired /\ b.aired = {}
               /\ b.executing => a.executing
               /\ \/ b.fork = a.fork
                  \/ a.order # Nothing /\ a.reached = Len(a.order.path)
<1> DEFINE cached == [a EXCEPT !.navState = said.state, !.navGoal = said.goal,
                               !.behind = a.aired, !.aired = {}]
           settled == SettleArrival(cached)
<1>1. NavHeard(a, said) \in {settled, cached, [cached EXCEPT !.executing = FALSE]}
  BY DEF NavHeard
<1>2. /\ cached \in Agents
      /\ cached.order = a.order /\ cached.reached = a.reached /\ cached.cancel = a.cancel
      /\ cached.finished = a.finished /\ cached.routes = a.routes
      /\ cached.misread = a.misread /\ cached.rolling = a.rolling
      /\ cached.navGoal = said.goal /\ cached.behind = a.aired /\ cached.aired = {}
      /\ cached.executing = a.executing /\ cached.fork = a.fork
  <2>1. said.state \in NavStates \cup {""} /\ said.goal \in MaybeId
    BY DEF Reports
  <2>2. QED
    BY <2>1 DEF Agents
<1> HIDE DEF cached
<1>3. CASE NavHeard(a, said) = cached
  BY <1>2, <1>3
<1>4. CASE NavHeard(a, said) = [cached EXCEPT !.executing = FALSE]
  BY <1>2, <1>4 DEF Agents
<1>5. CASE NavHeard(a, said) = settled
  <2>1. /\ settled \in Agents /\ Routed(settled, cached)
        /\ settled.order = cached.order /\ settled.reached = cached.reached
        /\ settled.cancel = cached.cancel /\ settled.finished = cached.finished
        /\ settled.misread = cached.misread
        /\ \/ settled.executing = cached.executing /\ settled.fork = cached.fork
           \/ /\ settled.executing = FALSE /\ settled.fork = "RUNNING"
              /\ cached.order # Nothing /\ cached.reached = Len(cached.order.path)
    BY <1>2, Arrived
  <2> HIDE DEF settled
  <2>2. QED
    BY <1>2, <1>5, <2>1 DEF Routed, Deaf
<1>6. QED
  BY <1>1, <1>3, <1>4, <1>5

\* One more message, and perhaps one more order in the count.
LEMMA OneMore ==
    ASSUME NEW a \in Agents, NEW q \in Seq(Messages), NEW s \in Spendings, NEW t \in Spendings,
           s.orders <= t.orders, Holds(a, 0, q, s), Posted(q, s),
           NEW msg \in Messages, Fits(a, msg),
           IsOrder(msg) => Proper(msg.order, t) /\ \A j \in DOMAIN q : ~IsOrder(q[j])
    PROVE  /\ Append(q, msg) \in Seq(Messages)
           /\ Holds(a, 0, Append(q, msg), t) /\ Posted(Append(q, msg), t)
<1> DEFINE more == Append(q, msg)
<1>1. /\ more \in Seq(Messages) /\ Len(more) = Len(q) + 1 /\ DOMAIN more = 1 .. Len(q) + 1
      /\ \A k \in 1 .. Len(q) : more[k] = q[k]
      /\ more[Len(q) + 1] = msg /\ DOMAIN q = 1 .. Len(q) /\ Len(q) \in Nat
  BY Appended
<1> HIDE DEF more
<1>2. \A o : Proper(o, s) => Proper(o, t)
  <2>1. s.orders \in Nat /\ t.orders \in Nat /\ 1 .. s.orders \subseteq 1 .. t.orders
    BY DEF Spendings
  <2>2. QED
    BY <2>1 DEF Proper
<1>3. \A j \in 0 + 1 .. Len(more) : Fits(a, more[j])
  BY <1>1 DEF Holds
<1>4. \A j \in DOMAIN more : IsOrder(more[j]) => Proper(more[j].order, t)
  BY <1>1, <1>2 DEF Posted
<1>5. \A j, k \in DOMAIN more : IsOrder(more[j]) /\ IsOrder(more[k]) => j = k
  BY <1>1 DEF Posted
<1>6. QED
  BY <1>1, <1>2, <1>3, <1>4, <1>5 DEF Holds, Posted, more

LEMMA SpendType ==
    ASSUME spent \in Spendings, NEW what \in {"orders", "cancels", "upsets"}, NEW bound,
           Spend(what, bound)
    PROVE  /\ spent' \in Spendings /\ spent.orders <= spent'.orders
           /\ what = "orders" => spent'.orders = spent.orders + 1
           /\ what # "orders" => spent'.orders = spent.orders
  BY DEF Spend, Spendings

\* An agent that differs only in what Holds does not speak of, or has passed more.
LEMMA HoldsToo ==
    ASSUME NEW a \in Agents, NEW b, NEW i, NEW q, NEW s, Holds(a, i, q, s),
           b.order = a.order, b.routes = a.routes, b.executing => a.executing,
           IF b.order = Nothing THEN b.reached = a.reached ELSE b.reached <= b.order.base
    PROVE  Holds(b, i, q, s)
BY DEF Holds, Fits

LEMMA TailRoutes ==
    ASSUME NEW a \in Agents, a.routes # << >>
    PROVE  LET b == [a EXCEPT !.routes = Tail(@)]
           IN  /\ b \in Agents /\ Deaf(b, a)
               /\ b.order = a.order /\ b.reached = a.reached /\ b.executing = a.executing
               /\ b.cancel = a.cancel /\ b.finished = a.finished /\ b.fork = a.fork
               /\ b.misread = a.misread /\ b.behind = a.behind /\ b.aired = a.aired
               /\ Len(a.routes) \in Nat \ {0} /\ DOMAIN a.routes = 1 .. Len(a.routes)
               /\ DOMAIN b.routes = 1 .. Len(a.routes) - 1
               /\ \A k \in 1 .. Len(a.routes) - 1 : b.routes[k] = a.routes[k + 1]
               /\ Head(a.routes) = a.routes[1] /\ a.routes[1] \in Routes
<1>1. a.routes \in Seq(Routes)
  BY DEF Agents
<1>2. /\ Tail(a.routes) \in Seq(Routes) /\ Len(a.routes) \in Nat \ {0}
      /\ DOMAIN a.routes = 1 .. Len(a.routes)
      /\ DOMAIN Tail(a.routes) = 1 .. Len(a.routes) - 1
      /\ \A k \in 1 .. Len(a.routes) - 1 : Tail(a.routes)[k] = a.routes[k + 1]
      /\ Head(a.routes) = a.routes[1] /\ a.routes[1] \in Routes
  BY <1>1
<1> DEFINE rest == Tail(a.routes)
<1> HIDE DEF rest
<1>3. [a EXCEPT !.routes = rest] \in Agents
  BY <1>2 DEF Agents, rest
<1>4. QED
  BY <1>2, <1>3 DEF Agents, Deaf, rest

\* What nav makes of a route, a mode and a goal.
LEMMA NavTypes ==
    ASSUME NEW n \in Navs
    PROVE  /\ \A r \in Routes :
                LET m == OnRoute(n, r)
                IN  /\ m \in Navs /\ m.up = n.up
                    /\ \/ /\ m.state = "EN-ROUTE" /\ m.goal = r.label /\ m.route = r.nodes
                       \/ m.state = n.state /\ m.goal = n.goal /\ m.route = n.route
           /\ \A auto \in BOOLEAN :
                LET m == OnMode(n, auto)
                IN  /\ m \in Navs /\ m.up = n.up
                    /\ \/ m.state = n.state /\ m.goal = n.goal /\ m.route = n.route
                       \/ m.state = "IDLE" /\ m.goal = Nothing
           /\ LET m == Cancelled(n, "cancelled")
              IN  m \in Navs /\ m.up = n.up /\ m.state = "IDLE" /\ m.goal = Nothing
<1>1. << >> \in Seq(Nodes) /\ Nothing \in MaybeId
  BY DEF MaybeId
<1>2. ASSUME NEW r \in Routes
      PROVE  LET m == OnRoute(n, r)
                IN  /\ m \in Navs /\ m.up = n.up
                    /\ \/ /\ m.state = "EN-ROUTE" /\ m.goal = r.label /\ m.route = r.nodes
                       \/ m.state = n.state /\ m.goal = n.goal /\ m.route = n.route
  <2>1. r.label \in MaybeId /\ r.nodes \in Seq(Nodes)
    BY DEF Routes, MaybeId
  <2>2. CASE ~n.auto
    BY <2>2 DEF OnRoute, Navs, Notes
  <2>3. CASE n.auto
    BY <2>1, <2>3 DEF OnRoute, Navs, NavStates, Notes
  <2>4. QED
    BY <2>2, <2>3
<1>3. ASSUME NEW m \in Navs, NEW why \in {"cancelled", "mode left auto"}
      PROVE  /\ Cancelled(m, why) \in Navs /\ Cancelled(m, why).up = m.up
             /\ Cancelled(m, why).state = "IDLE" /\ Cancelled(m, why).goal = Nothing
  BY <1>1 DEF Cancelled, Navs, NavStates, Notes
<1>4. ASSUME NEW auto \in BOOLEAN
      PROVE  LET m == OnMode(n, auto)
                IN  /\ m \in Navs /\ m.up = n.up
                    /\ \/ m.state = n.state /\ m.goal = n.goal /\ m.route = n.route
                       \/ m.state = "IDLE" /\ m.goal = Nothing
  <2> DEFINE heard == [n EXCEPT !.auto = auto]
  <2>1. /\ heard \in Navs /\ heard.up = n.up /\ heard.state = n.state
        /\ heard.goal = n.goal /\ heard.route = n.route
    BY DEF Navs
  <2>2. OnMode(n, auto) \in {heard, Cancelled(heard, "mode left auto")}
    BY DEF OnMode
  <2> HIDE DEF heard
  <2>3. QED
    BY <1>3, <2>1, <2>2
<1>5. QED
  BY <1>2, <1>3, <1>4

\* A step that leaves inbox and spent alone, and whose agent and nav keep the types.
LEMMA TypeOfStep ==
    ASSUME TypeInv, agent' \in Agents, Holds(agent', 0, inbox, spent),
           nav' \in Navs, nav'.state = "EN-ROUTE" => nav'.route # << >>,
           place' \in Nodes, report' \in Reports \cup {Nothing},
           UNCHANGED <<inbox, mode, broker, spent>>
    PROVE  TypeInv'
BY DEF TypeInv, Holds, Posted, Fits, Proper, IsNew, IsOrder

\* A step that puts one message in the inbox.
LEMMA TypeOfPost ==
    ASSUME TypeInv, NEW msg \in Messages, Fits(agent, msg),
           IsOrder(msg) => Proper(msg.order, spent') /\ NoOrderInTheAir,
           inbox' = Append(inbox, msg), spent' \in Spendings, spent.orders <= spent'.orders,
           broker' \in BOOLEAN, UNCHANGED <<agent, nav, place, report, mode>>
    PROVE  TypeInv'
<1> DEFINE more == Append(inbox, msg)
<1>1. \A j \in DOMAIN inbox : IsOrder(msg) => ~IsOrder(inbox[j])
  BY DEF NoOrderInTheAir, IsOrder
<1>2. more \in Seq(Messages) /\ Holds(agent, 0, more, spent') /\ Posted(more, spent')
  BY <1>1, OneMore DEF TypeInv
<1> HIDE DEF more
<1>3. inbox' = more
  BY DEF more
<1>4. /\ inbox' \in Seq(Messages) /\ Holds(agent', 0, inbox', spent')
      /\ Posted(inbox', spent')
  BY <1>2, <1>3
<1>5. QED
  BY <1>4 DEF TypeInv, Holds, Posted, Fits, Proper, IsNew, IsOrder

\* What the fleet's order is, and what the agent is when it is sent.
FleetTypes(b, msg) ==
    /\ b \in Agents /\ b.order = agent.order /\ b.reached = agent.reached
    /\ b.executing = agent.executing /\ b.routes = agent.routes /\ b.cancel = agent.cancel
    /\ b.fork = agent.fork /\ b.finished = agent.finished /\ b.misread = agent.misread
    /\ b.navState = agent.navState /\ b.navGoal = agent.navGoal
    /\ b.behind = agent.behind /\ b.aired = agent.aired
    /\ agent.rolling \subseteq b.rolling
    /\ nav.state = "EN-ROUTE" \/ agent.routes # << >> => msg.order.id \in b.rolling
    /\ msg \in Messages /\ IsNew(msg) /\ IsOrder(msg) /\ Proper(msg.order, spent')
    /\ msg.order.id = spent.orders + 1 /\ msg.order.path[1] = place
    /\ agent.order # Nothing => agent.order.id # msg.order.id

LEMMA OrderSent ==
    ASSUME TypeInv, FleetOrders, NEW to \in Nodes, NEW base \in DOMAIN Straight(place, to)
    PROVE  FleetTypes(agent', [kind |-> "order",
                        order |-> [id |-> spent.orders + 1, update |-> 0,
                                   path |-> Straight(place, to), base |-> base]])
<1> DEFINE path == Straight(place, to)
           o == [id |-> spent.orders + 1, update |-> 0, path |-> path, base |-> base]
           msg == [kind |-> "order", order |-> o]
           rolling == IF nav.state = "EN-ROUTE" \/ agent.routes # << >>
                      THEN agent.rolling \cup {spent.orders + 1} ELSE agent.rolling
<1>0. agent \in Agents /\ place \in Nodes /\ spent \in Spendings /\ Holds(agent, 0, inbox, spent)
  BY DEF TypeInv
<1>1. spent' \in Spendings /\ spent'.orders = spent.orders + 1
  BY <1>0, SpendType DEF FleetOrders
<1>2. /\ path \in Seq(Nodes) /\ Len(path) \in 1 .. Line /\ path[1] = place
      /\ \A j, k \in DOMAIN path : path[j] = path[k] => j = k
  BY <1>0, StraightPath
<1>3. base \in 1 .. Len(path) /\ base \in Nat
  <2> HIDE DEF path
  <2>1. DOMAIN path = 1 .. Len(path) /\ base \in DOMAIN path
    BY <1>2 DEF path
  <2>2. QED
    BY <2>1
<1> HIDE DEF path
<1>4. /\ spent.orders \in Nat /\ spent.orders + 1 \in Nat
      /\ o.id = spent.orders + 1 /\ o.path = path /\ o.base = base /\ o.update = 0
      /\ o.id \in 1 .. spent'.orders
  BY <1>0, <1>1 DEF Spendings
<1>5. o \in Orders /\ Proper(o, spent')
  BY <1>2, <1>3, <1>4 DEF Orders, Proper
<1>6. agent.order # Nothing => agent.order.id # o.id
  BY <1>0, <1>4 DEF Holds, Proper
<1>7. agent' = [agent EXCEPT !.rolling = rolling]
  BY DEF FleetOrders
<1>8. /\ rolling \in SUBSET Nat /\ agent.rolling \subseteq rolling
      /\ nav.state = "EN-ROUTE" \/ agent.routes # << >> => o.id \in rolling
  BY <1>0, <1>4 DEF Agents
<1> HIDE DEF o, rolling
<1>9. msg \in Messages /\ IsNew(msg) /\ IsOrder(msg) /\ msg.order = o
  BY <1>4, <1>5 DEF Messages, IsNew, IsOrder
<1> HIDE DEF msg
<1>10. agent' \in Agents /\ agent'.rolling = rolling
  BY <1>0, <1>7, <1>8 DEF Agents
<1>11. FleetTypes(agent', msg)
  BY <1>0, <1>2, <1>4, <1>5, <1>6, <1>7, <1>8, <1>9, <1>10 DEF FleetTypes, Agents
<1>12. QED
  BY <1>11 DEF msg, o, path

LEMMA TypeStep == TypeInv /\ [VehicleNext]_vehicleVars => TypeInv'
<1> SUFFICES ASSUME TypeInv, [VehicleNext]_vehicleVars PROVE TypeInv'
  OBVIOUS
<1>0. /\ agent \in Agents /\ nav \in Navs /\ place \in Nodes /\ inbox \in Seq(Messages)
      /\ report \in Reports \cup {Nothing} /\ spent \in Spendings
      /\ mode \in BOOLEAN /\ broker \in BOOLEAN
      /\ nav.state = "EN-ROUTE" => nav.route # << >>
      /\ Holds(agent, 0, inbox, spent)
  BY DEF TypeInv
<1>1. CASE TakeRoute
  <2> DEFINE b == [agent EXCEPT !.routes = Tail(@)]
             r == Head(agent.routes)
  <2>1. agent.routes # << >> /\ agent' = b /\ nav' = OnRoute(nav, r)
        /\ UNCHANGED <<place, inbox, report, mode, broker, spent>>
    BY <1>1 DEF TakeRoute
  <2>2. /\ b \in Agents /\ b.order = agent.order /\ b.reached = agent.reached
        /\ b.executing = agent.executing
        /\ Len(agent.routes) \in Nat \ {0} /\ DOMAIN agent.routes = 1 .. Len(agent.routes)
        /\ DOMAIN b.routes = 1 .. Len(agent.routes) - 1
        /\ \A k \in 1 .. Len(agent.routes) - 1 : b.routes[k] = agent.routes[k + 1]
        /\ r = agent.routes[1] /\ r \in Routes
    BY <1>0, <2>1, TailRoutes
  <2> HIDE DEF b, r
  <2>3. r.nodes # << >>
    BY <1>0, <2>2 DEF Holds
  <2>4. ASSUME NEW k \in DOMAIN b.routes PROVE b.routes[k].nodes # << >>
    <3>1. k + 1 \in DOMAIN agent.routes /\ b.routes[k] = agent.routes[k + 1]
      BY <2>2
    <3>2. QED
      BY <1>0, <3>1 DEF Holds
  <2>5. Holds(b, 0, inbox, spent)
    BY <1>0, <2>2, <2>4 DEF Holds, Fits
  <2>6. /\ OnRoute(nav, r) \in Navs
        /\ OnRoute(nav, r).state = "EN-ROUTE" => OnRoute(nav, r).route # << >>
    BY <1>0, <2>2, <2>3, NavTypes
  <2>7. QED
    BY <1>0, <2>1, <2>2, <2>5, <2>6, TypeOfStep
<1>2. CASE TakeGoal
  <2> DEFINE b == [agent EXCEPT !.goals = @ - 1]
  <2>1. agent.goals > 0 /\ agent' = b /\ nav' = Cancelled(nav, "cancelled")
        /\ UNCHANGED <<place, inbox, report, mode, broker, spent>>
    BY <1>2 DEF TakeGoal
  <2>2. agent.goals - 1 \in 0 .. GoalDepth
    <3>1. agent.goals \in 0 .. 1
      BY <1>0 DEF Agents, GoalDepth
    <3>2. QED
      BY <2>1, <3>1 DEF GoalDepth
  <2>3. /\ b \in Agents /\ b.order = agent.order /\ b.reached = agent.reached
        /\ b.executing = agent.executing /\ b.routes = agent.routes
    BY <1>0, <2>2 DEF Agents
  <2> HIDE DEF b
  <2>4. Holds(b, 0, inbox, spent)
    BY <1>0, <2>3, HoldsToo DEF Holds
  <2>5. nav' \in Navs /\ nav'.state = "IDLE"
    BY <1>0, <2>1, NavTypes
  <2>6. QED
    BY <1>0, <2>1, <2>3, <2>4, <2>5, TypeOfStep
<1>3. CASE Step
  <2>1. nav.route \in Seq(Nodes) /\ nav.route # << >>
        /\ UNCHANGED <<agent, inbox, report, mode, broker, spent>>
    BY <1>0, <1>3 DEF Step, Navs
  <2>2. Head(nav.route) \in Nodes
    BY <2>1
  <2>3. place' \in Nodes
    BY <1>0, <1>3, <2>2 DEF Step
  <2> DEFINE left == IF Len(nav.route) = 1 THEN nav.route ELSE Tail(nav.route)
  <2>4. left \in Seq(Nodes) /\ left # << >>
    <3>1. Len(nav.route) \in Nat \ {0} /\ Tail(nav.route) \in Seq(Nodes)
      BY <2>1
    <3>2. Len(nav.route) # 1 => Tail(nav.route) # << >>
      <4>1. Len(Tail(nav.route)) = Len(nav.route) - 1
        BY <2>1
      <4>2. Len(<< >>) = 0
        OBVIOUS
      <4>3. Len(nav.route) # 1 => Len(nav.route) - 1 # 0
        BY <3>1
      <4>4. QED
        BY <4>1, <4>2, <4>3
    <3>3. QED
      BY <2>1, <3>1, <3>2
  <2>5. nav' \in {[nav EXCEPT !.state = "ARRIVED"], [nav EXCEPT !.route = left]}
    BY <1>3 DEF Step
  <2> HIDE DEF left
  <2>6. nav' \in Navs /\ (nav'.state = "EN-ROUTE" => nav'.route # << >>)
    BY <1>0, <2>4, <2>5 DEF Navs, NavStates
  <2>7. QED
    BY <1>0, <2>1, <2>3, <2>6, TypeOfStep
<1>4. CASE Report
  <2> DEFINE labels == {r.label : r \in Range(agent.routes)}
             b == [agent EXCEPT !.aired = labels]
  <2>1. report' \in Reports
    BY <1>0, <1>4 DEF Report, Said, Reports, Navs
  <2>2. agent' = b /\ UNCHANGED <<nav, place, inbox, mode, broker, spent>>
    BY <1>4 DEF Report, Told
  <2>3. labels \in SUBSET Nat
    <3>1. ASSUME NEW k \in DOMAIN agent.routes PROVE agent.routes[k].label \in Nat
      <4>1. agent.routes \in Seq(Routes)
        BY <1>0 DEF Agents
      <4>2. agent.routes[k] \in Routes
        BY <4>1
      <4>3. QED
        BY <4>2 DEF Routes
    <3>2. QED
      BY <3>1 DEF Range
  <2> HIDE DEF labels
  <2>4. /\ b \in Agents /\ b.order = agent.order /\ b.routes = agent.routes
        /\ b.reached = agent.reached /\ b.executing = agent.executing
    BY <1>0, <2>3 DEF Agents
  <2> HIDE DEF b
  <2>5. Holds(b, 0, inbox, spent)
    BY <1>0, <2>4 DEF Holds, Fits
  <2>6. QED
    BY <1>0, <2>1, <2>2, <2>4, <2>5, TypeOfStep
<1>5. CASE Drain
  <2>1. PICK late \in BOOLEAN, cycled \in BOOLEAN : agent' = Drained(late, cycled)
    BY <1>5 DEF Drain, Agent
  <2>2. inbox' = << >> /\ UNCHANGED <<nav, place, report, mode, broker, spent>>
    BY <1>5 DEF Drain, Agent
  <2>3. agent' \in Agents /\ Holds(agent', 0, << >>, spent)
    BY <2>1, DrainedHolds
  <2>4. << >> \in Seq(Messages) /\ Posted(<< >>, spent)
    BY DEF Posted
  <2>5. QED
    BY <1>0, <2>2, <2>3, <2>4
       DEF TypeInv, Holds, Posted, Fits, Proper, IsNew, IsOrder
<1>6. CASE Odom
  <2> DEFINE b == OdomHeard(agent)
  <2>1. agent.executing /\ agent' = b
        /\ UNCHANGED <<nav, place, inbox, report, mode, broker, spent>>
    BY <1>6 DEF Odom, Agent
  <2>2. agent.order # Nothing /\ agent.order \in Orders /\ agent.reached <= agent.order.base
    BY <1>0, <2>1 DEF Holds, Agents
  <2>3. /\ b \in Agents /\ Routed(b, agent) /\ b.order = agent.order
        /\ (b.executing => agent.executing)
        /\ b.reached = agent.reached \/ b.reached \in agent.reached + 1 .. agent.order.base
    BY <1>0, <2>2, OdomCounts
  <2> HIDE DEF b
  <2>4. b.reached <= agent.order.base
    <3>1. agent.order.base \in Nat /\ agent.reached \in Nat
      BY <1>0, <2>2 DEF Agents, Orders
    <3>2. QED
      BY <2>2, <2>3, <3>1
  <2>5. Holds(b, 0, inbox, spent)
    BY <1>0, <2>2, <2>3, <2>4, HoldsToo DEF Routed
  <2>6. QED
    BY <1>0, <2>1, <2>3, <2>5, TypeOfStep
<1>7. CASE HearNav
  <2> DEFINE b == NavHeard(agent, report)
  <2>1. report # Nothing /\ agent' = b /\ report' = Nothing
        /\ UNCHANGED <<nav, place, inbox, mode, broker, spent>>
    BY <1>7 DEF HearNav, Agent
  <2>2. /\ b \in Agents /\ b.order = agent.order /\ b.reached = agent.reached
        /\ b.routes = agent.routes /\ (b.executing => agent.executing)
    BY <1>0, <2>1, ReportHeard
  <2> HIDE DEF b
  <2>3. Holds(b, 0, inbox, spent)
    BY <1>0, <2>2, HoldsToo DEF Holds
  <2>4. QED
    BY <1>0, <2>1, <2>2, <2>3, TypeOfStep
<1>8. CASE Settle \/ HearMode
  <2>1. agent' \in {[agent EXCEPT !.settled = TRUE], [agent EXCEPT !.auto = mode]}
        /\ UNCHANGED <<nav, place, inbox, report, mode, broker, spent>>
    BY <1>8 DEF Settle, HearMode, Agent
  <2>2. /\ agent' \in Agents /\ agent'.order = agent.order /\ agent'.routes = agent.routes
        /\ agent'.reached = agent.reached /\ agent'.executing = agent.executing
    BY <1>0, <2>1 DEF Agents
  <2>3. Holds(agent', 0, inbox, spent)
    BY <1>0, <2>2 DEF Holds, Fits
  <2>4. QED
    BY <1>0, <2>1, <2>2, <2>3, TypeOfStep
<1>9. CASE NavHearsMode
  <2>1. nav' = OnMode(nav, mode) /\ UNCHANGED <<agent, place, inbox, report, mode, broker, spent>>
    BY <1>9 DEF NavHearsMode
  <2>2. nav' \in Navs /\ (nav'.state = "EN-ROUTE" => nav'.route # << >>)
    BY <1>0, <2>1, NavTypes
  <2>3. QED
    BY <1>0, <2>1, <2>2, TypeOfStep
<1>10. CASE FleetOrders
  <2>0. PICK to \in Nodes : \E base \in DOMAIN Straight(place, to) :
            inbox' = << [kind |-> "order",
                         order |-> [id |-> spent.orders + 1, update |-> 0,
                                    path |-> Straight(place, to), base |-> base]] >>
    BY <1>10 DEF FleetOrders
  <2>1. PICK base \in DOMAIN Straight(place, to) :
            inbox' = << [kind |-> "order",
                         order |-> [id |-> spent.orders + 1, update |-> 0,
                                    path |-> Straight(place, to), base |-> base]] >>
    BY <2>0
  <2>2. /\ Spend("orders", Sendings) /\ inbox = << >>
        /\ UNCHANGED <<nav, place, report, mode, broker>>
    BY <1>10 DEF FleetOrders
  <2> DEFINE b == agent'
             path == Straight(place, to)
             o == [id |-> spent.orders + 1, update |-> 0, path |-> path, base |-> base]
             msg == [kind |-> "order", order |-> o]
  <2>3. spent' \in Spendings /\ spent.orders <= spent'.orders /\ spent'.orders = spent.orders + 1
    BY <1>0, <2>2, SpendType
  <2>4. FleetTypes(b, msg)
    BY <1>0, <1>10, <2>1, OrderSent
  <2>5. inbox' = << msg >>
    BY <2>1
  <2> HIDE DEF o, path
  <2>6. msg.order = o
    OBVIOUS
  <2> HIDE DEF msg
  <2>7. /\ b \in Agents /\ b.order = agent.order /\ b.reached = agent.reached
        /\ b.executing = agent.executing /\ b.routes = agent.routes
        /\ msg \in Messages /\ IsOrder(msg) /\ Proper(msg.order, spent')
        /\ agent.order # Nothing => agent.order.id # msg.order.id
    BY <2>4 DEF FleetTypes
  <2>8. inbox' \in Seq(Messages) /\ Len(inbox') = 1 /\ DOMAIN inbox' = 1 .. 1 /\ inbox'[1] = msg
    BY <2>5, <2>7
  <2>9. Posted(inbox', spent')
    BY <2>7, <2>8 DEF Posted
  <2>10. \A x : Proper(x, spent) => Proper(x, spent')
    <3>1. 1 .. spent.orders \subseteq 1 .. spent'.orders
      BY <1>0, <2>3 DEF Spendings
    <3>2. QED
      BY <3>1 DEF Proper
  <2>11. Holds(b, 0, inbox', spent')
    <3>1. \A j \in 0 + 1 .. Len(inbox') : Fits(b, inbox'[j])
      BY <2>7, <2>8 DEF Fits
    <3>2. QED
      BY <1>0, <2>7, <2>10, <3>1 DEF Holds
  <2>12. QED
    BY <1>0, <2>2, <2>3, <2>7, <2>8, <2>9, <2>11
       DEF TypeInv, Holds, Posted, Fits, Proper, IsNew, IsOrder
<1>11. CASE FleetExtends
  <2> DEFINE o == [agent.order EXCEPT !.update = @ + 1, !.base = @ + 1]
             msg == [kind |-> "order", order |-> o]
  <2>1. /\ agent.order # Nothing /\ agent.order.base < Len(agent.order.path)
        /\ NoOrderInTheAir /\ inbox' = Append(inbox, msg)
        /\ UNCHANGED <<agent, nav, place, report, mode, broker, spent>>
    BY <1>11 DEF FleetExtends, Receive
  <2>2. agent.order \in Orders /\ Proper(agent.order, spent)
    BY <1>0, <2>1 DEF Agents, Holds
  <2>3. /\ o \in Orders /\ o.id = agent.order.id /\ o.path = agent.order.path
        /\ o.base = agent.order.base + 1 /\ o.update = agent.order.update + 1
        /\ o.update # 0
    <3>1. /\ agent.order.update + 1 \in Nat /\ agent.order.base + 1 \in Nat
          /\ agent.order.update + 1 # 0
      BY <2>2 DEF Orders
    <3>2. QED
      BY <2>2, <3>1 DEF Orders
  <2> HIDE DEF o
  <2>4. o.base \in 1 .. Len(o.path)
    <3>1. agent.order.base \in Nat /\ Len(agent.order.path) \in Nat
      BY <2>2 DEF Orders
    <3>2. QED
      BY <2>1, <2>3, <3>1
  <2>5. Proper(o, spent)
    BY <2>2, <2>3, <2>4 DEF Proper
  <2>6. msg \in Messages /\ msg.order = o /\ Fits(agent, msg)
    BY <2>3 DEF Messages, Fits, IsNew
  <2> HIDE DEF msg
  <2>7. spent' = spent /\ spent' \in Spendings /\ spent.orders <= spent'.orders
    BY <1>0, <2>1 DEF Spendings
  <2>8. Proper(msg.order, spent') /\ broker' \in BOOLEAN
    BY <1>0, <2>1, <2>5, <2>6, <2>7
  <2>9. QED
    BY <2>1, <2>6, <2>7, <2>8, TypeOfPost
<1>12. CASE FleetCancels \/ BrokerLost \/ BrokerBack
  <2>1. PICK msg \in [kind : {"cancel", "lost", "connected"}] : inbox' = Append(inbox, msg)
    BY <1>12 DEF FleetCancels, BrokerLost, BrokerBack, Receive
  <2>2. msg \in Messages /\ ~IsOrder(msg)
    BY DEF Messages, IsOrder
  <2>3. spent' \in Spendings /\ spent.orders <= spent'.orders
    <3>1. CASE FleetCancels
      BY <1>0, <3>1, SpendType DEF FleetCancels
    <3>2. CASE BrokerLost
      BY <1>0, <3>2, SpendType DEF BrokerLost
    <3>3. CASE BrokerBack
      BY <1>0, <3>3 DEF BrokerBack, Spendings
    <3>4. QED
      BY <1>12, <3>1, <3>2, <3>3
  <2>4. broker' \in BOOLEAN /\ UNCHANGED <<agent, nav, place, report, mode>>
    <3>1. CASE FleetCancels
      BY <1>0, <3>1 DEF FleetCancels, Receive
    <3>2. CASE BrokerLost
      <4>1. broker' = FALSE /\ UNCHANGED <<agent, nav, place, report, mode>>
        BY <3>2 DEF BrokerLost
      <4>2. QED
        BY <4>1
    <3>3. CASE BrokerBack
      <4>1. broker' = TRUE /\ UNCHANGED <<agent, nav, place, report, mode>>
        BY <3>3 DEF BrokerBack
      <4>2. QED
        BY <4>1
    <3>4. QED
      BY <1>12, <3>1, <3>2, <3>3
  <2>5. Fits(agent, msg)
    BY <2>2 DEF Fits
  <2>6. QED
    BY <2>1, <2>2, <2>3, <2>4, <2>5, TypeOfPost
<1>13. CASE SwitchMode
  <2>1. spent' \in Spendings /\ spent'.orders = spent.orders
    BY <1>0, <1>13, SpendType DEF SwitchMode
  <2>2. mode' = ~mode /\ UNCHANGED <<agent, nav, place, inbox, report, broker>>
    BY <1>13 DEF SwitchMode
  <2>3. mode' \in BOOLEAN
    BY <2>2
  <2>4. Holds(agent, 0, inbox, spent') /\ Posted(inbox, spent')
    BY <2>1 DEF TypeInv, Holds, Posted, Proper
  <2>5. QED
    BY <1>0, <2>1, <2>2, <2>3, <2>4 DEF TypeInv, Holds, Posted, Fits, Proper, IsNew, IsOrder
<1>14. CASE NavDies
  <2>1. spent' \in Spendings /\ spent'.orders = spent.orders
    BY <1>0, <1>14, SpendType DEF NavDies
  <2>2. nav' \in Navs /\ nav'.state = "IDLE" /\ UNCHANGED <<agent, place, inbox, report, mode, broker>>
    BY <1>14, EmptyWork DEF NavDies
  <2>3. Holds(agent, 0, inbox, spent') /\ Posted(inbox, spent')
    BY <2>1 DEF TypeInv, Holds, Posted, Proper
  <2>4. QED
    BY <1>0, <2>1, <2>2, <2>3 DEF TypeInv, Holds, Posted, Fits, Proper, IsNew, IsOrder
<1>15. CASE NavReturns
  <2> DEFINE b == [agent EXCEPT !.routes = << >>, !.goals = 0]
  <2>1. agent' = b /\ nav' = NoWork /\ UNCHANGED <<place, inbox, report, mode, broker, spent>>
    BY <1>15 DEF NavReturns
  <2>2. << >> \in Seq(Routes) /\ 0 \in 0 .. GoalDepth
    BY DEF GoalDepth
  <2>3. /\ b \in Agents /\ b.order = agent.order /\ b.reached = agent.reached
        /\ b.executing = agent.executing /\ b.routes = << >>
    BY <1>0, <2>2 DEF Agents
  <2> HIDE DEF b
  <2>4. Holds(b, 0, inbox, spent)
    BY <1>0, <2>3 DEF Holds, Fits
  <2>5. QED
    BY <1>0, <2>1, <2>3, <2>4, EmptyWork, TypeOfStep
<1>16. CASE UNCHANGED vehicleVars
  BY <1>16 DEF vehicleVars, TypeInv, Holds, Posted, Fits, Proper, IsNew, IsOrder
<1>17. QED
  BY <1>1, <1>2, <1>3, <1>4, <1>5, <1>6, <1>7, <1>8, <1>9, <1>10, <1>11, <1>12, <1>13,
     <1>14, <1>15, <1>16 DEF VehicleNext

LEMMA TypesAlways == VehicleSpec => []TypeInv
<1>1. QED
  BY TypeInit, TypeStep, PTL DEF VehicleSpec

LEMMA AgentTypes == TypeInv => VehicleTypeOK
<1> SUFFICES ASSUME TypeInv PROVE VehicleTypeOK
  OBVIOUS
<1>1. /\ agent \in Agents /\ nav \in Navs /\ place \in Nodes
      /\ Holds(agent, 0, inbox, spent)
  BY DEF TypeInv
<1>2. agent.order # Nothing => agent.reached <= agent.order.base
  BY <1>1 DEF Holds
<1>3. agent.reached \in 0 .. Line
  <2>1. CASE agent.order = Nothing
    BY <1>1, <2>1, VehicleConstants DEF Holds
  <2>2. CASE agent.order # Nothing
    <3>1. /\ agent.order.base \in 1 .. Len(agent.order.path)
          /\ Len(agent.order.path) \in 1 .. Line /\ agent.reached \in Nat
      BY <1>1, <2>2 DEF Holds, Proper, Agents
    <3>2. QED
      BY <1>2, <2>2, <3>1, VehicleConstants
  <2>3. QED
    BY <2>1, <2>2
<1>4. agent.goals \in 0 .. GoalDepth /\ agent.fork \in Forks /\ nav.state \in NavStates
  BY <1>1 DEF Agents, Navs
<1>5. QED
  BY <1>1, <1>2, <1>3, <1>4 DEF VehicleTypeOK, NavStates, Forks

\* The agent counts only what it may pass, its topics hold what they may hold, and nav
\* is on the floor: for every floor, however many orders are sent and cancelled.
THEOREM VehicleTypeCorrect == VehicleSpec => []VehicleTypeOK
BY AgentTypes, TypesAlways, PTL

-----------------------------------------------------------------------------
(* The invariant in a drain. *)

\* What is sent runs on along the path, and ends at the station when all is released.
LEMMA NewRoute ==
    ASSUME NEW o \in Orders, NEW s, Proper(o, s), NEW reached \in Nat, reached < o.base,
           NEW nodes \in Seq(Nodes), Len(nodes) = o.base - reached,
           \A k \in 1 .. o.base - reached : nodes[k] = o.path[reached + k]
    PROVE  Along(nodes, o.path) /\ (Final(nodes, o.path) <=> o.base = Len(o.path))
<1> DEFINE path == o.path
           base == o.base
           n == Len(path)
<1>1. /\ path \in Seq(Nodes) /\ n \in Nat /\ n >= 1 /\ base \in 1 .. n /\ base \in Nat
      /\ DOMAIN path = 1 .. n /\ \A j, k \in 1 .. n : path[j] = path[k] => j = k
  BY DEF Orders, Proper
<1>2. Last(path) = path[n]
  BY DEF Last
<1>3. Last(nodes) = nodes[base - reached]
  BY DEF Last
<1> HIDE DEF path, base, n
<1>4. nodes[base - reached] = path[base]
  <2>1. base - reached \in 1 .. base - reached /\ reached + (base - reached) = base
    BY <1>1 DEF base
  <2>2. QED
    BY <2>1 DEF base, path
<1>5. Final(nodes, path) <=> base = n
  BY <1>1, <1>2, <1>3, <1>4 DEF Final
<1>6. Along(nodes, path)
  <2> SUFFICES ASSUME NEW k \in 1 .. Len(nodes), nodes[k] = Last(path) PROVE k = Len(nodes)
    BY DEF Along
  <2>1. k \in 1 .. base - reached /\ nodes[k] = path[reached + k]
    BY DEF base, path
  <2>2. reached + k \in 1 .. n
    BY <1>1, <2>1 DEF base
  <2>3. reached + k = n
    BY <1>1, <1>2, <2>1, <2>2
  <2>4. QED
    BY <1>1, <2>1, <2>3 DEF base
<1>7. QED
  BY <1>5, <1>6 DEF path, base, n

\* One more route, if the order was sent to a truck that stood still, keeps the path.
LEMMA RouteAdded ==
    ASSUME NEW a \in Agents, NEW b, NEW n, NEW p, NEW nodes, RouteSent(b, a, nodes),
           b.order \in Orders, OnPathWith(b, a.routes, n, p), Along(nodes, b.order.path),
           Final(nodes, b.order.path) <=> b.order.base = Len(b.order.path)
    PROVE  OnPath(b, n, p)
<1> SUFFICES ASSUME Steady(b) PROVE OnPath(b, n, p)
  BY DEF OnPath, OnPathWith
<1> DEFINE route == [label |-> b.order.id, nodes |-> nodes]
           more == b.routes
           path == b.order.path
           m == Len(a.routes)
<1>1. route \in Routes /\ a.routes \in Seq(Routes)
  BY DEF Routes, Agents, Orders, RouteSent
<1>2. /\ DOMAIN more = 1 .. m + 1 /\ m \in Nat /\ DOMAIN a.routes = 1 .. m
      /\ \A k \in 1 .. m : more[k] = a.routes[k]
      /\ more[m + 1].nodes = nodes
  <2>1. more = Append(a.routes, route)
    BY DEF RouteSent
  <2>2. QED
    BY <1>1, <2>1, Appended
<1> HIDE DEF more, m, route, path
<1>3. /\ \A k \in 1 .. m : Along(a.routes[k].nodes, path)
      /\ ForStation(n, p, path) => \A k \in 1 .. m : Final(a.routes[k].nodes, path)
      /\ \A j, k \in 1 .. m :
           j < k /\ Final(a.routes[j].nodes, path) => Final(a.routes[k].nodes, path)
      /\ ForStation(n, p, path) => b.order.base = Len(path)
      /\ \A k \in 1 .. m : Final(a.routes[k].nodes, path) => b.order.base = Len(path)
      /\ n.state = "EN-ROUTE" => Along(n.route, path)
      /\ p = Last(path) /\ n.state = "EN-ROUTE" => Final(n.route, path)
      /\ b.reached = Len(path) => p = Last(path)
  BY <1>2 DEF OnPathWith, path
<1>4. Along(nodes, path) /\ (Final(nodes, path) <=> b.order.base = Len(path))
  BY DEF path
<1>5. \A k \in 1 .. m + 1 : k \in 1 .. m \/ k = m + 1
  BY <1>2
<1>6. \A k \in 1 .. m + 1 : Along(more[k].nodes, path)
  BY <1>2, <1>3, <1>4, <1>5
<1>7. ForStation(n, p, path) => \A k \in 1 .. m + 1 : Final(more[k].nodes, path)
  BY <1>2, <1>3, <1>4, <1>5
<1>8. \A k \in 1 .. m + 1 : Final(more[k].nodes, path) => b.order.base = Len(path)
  BY <1>2, <1>3, <1>4, <1>5
<1>9. ASSUME NEW j \in 1 .. m + 1, NEW k \in 1 .. m + 1, j < k, Final(more[j].nodes, path)
      PROVE  Final(more[k].nodes, path)
  <2>1. j \in 1 .. m
    BY <1>2, <1>9
  <2>2. Final(a.routes[j].nodes, path)
    BY <1>2, <1>9, <2>1
  <2>3. CASE k \in 1 .. m
    BY <1>2, <1>3, <1>9, <2>1, <2>2, <2>3
  <2>4. CASE k = m + 1
    BY <1>2, <1>3, <1>4, <2>1, <2>2, <2>4
  <2>5. QED
    BY <1>5, <2>3, <2>4
<1>10. QED
  BY <1>2, <1>3, <1>6, <1>7, <1>8, <1>9 DEF OnPath, OnPathWith, more, path

\* And what is on the wire.
LEMMA LabelAdded ==
    ASSUME NEW a \in Agents, NEW b, NEW nodes, RouteSent(b, a, nodes), b.order \in Orders
    PROVE  Labels(b) = Labels(a) \cup {b.order.id}
<1> DEFINE route == [label |-> b.order.id, nodes |-> nodes]
           m == Len(a.routes)
           more == b.routes
<1>1. route \in Routes /\ a.routes \in Seq(Routes) /\ route.label = b.order.id
  BY DEF Routes, Agents, Orders, RouteSent
<1>2. more = Append(a.routes, route)
  BY DEF RouteSent
<1> HIDE DEF route, more
<1>3. /\ DOMAIN more = 1 .. m + 1 /\ m \in Nat /\ DOMAIN a.routes = 1 .. m
      /\ \A k \in 1 .. m : more[k] = a.routes[k]
      /\ more[m + 1].label = b.order.id
  BY <1>1, <1>2, Appended
<1> HIDE DEF m
<1>4. \A k \in 1 .. m + 1 : k \in 1 .. m \/ k = m + 1
  BY <1>3
<1>5. m + 1 \in 1 .. m + 1 /\ \A k \in 1 .. m : k \in 1 .. m + 1
  BY <1>3
<1>6. {more[k].label : k \in 1 .. m + 1} = {a.routes[k].label : k \in 1 .. m} \cup {b.order.id}
  BY <1>3, <1>4, <1>5
<1>7. QED
  BY <1>3, <1>6 DEF Labels, more

\* A route for an order that is not over leaves what nav's word says of the others.
LEMMA WordOfRoute ==
    ASSUME NEW a \in Agents, NEW b, NEW nodes, RouteSent(b, a, nodes), b.order \in Orders,
           Deaf(b, a), b.finished = a.finished, b.misread = a.misread, NEW n, NEW s,
           b.order.id \notin a.finished, b.order.id \in 1 .. s.orders,
           Word(a, n, report), Over(a, n), Known(a, n, report, s),
           b.cancel = a.cancel \/ b.cancel = Nothing
    PROVE  Word(b, n, report) /\ Over(b, n) /\ Known(b, n, report, s)
<1> DEFINE id == b.order.id
<1>1. Labels(b) = Labels(a) \cup {id} /\ id \in Nat
  BY LabelAdded DEF Orders
<1>2. b.behind = a.behind \cup {id} /\ b.aired = Aired(a, id)
  BY DEF RouteSent
<1> HIDE DEF id
<1>3. \A o : o # id /\ Away(a, n, o) => Away(b, n, o)
  BY <1>1 DEF Away
<1>4. Word(b, n, report)
  BY <1>2, <1>3 DEF Word, Aired, Deaf
<1>5. Over(b, n)
  BY <1>3 DEF Over, id
<1>6. Known(b, n, report, s)
  BY <1>1 DEF Known, Deaf, id
<1>7. QED
  BY <1>4, <1>5, <1>6

\* The whole of what a message finds, unfolded.
LEMMA OrderlyOn ==
    ASSUME NEW a \in Agents, NEW q \in Seq(Messages), NEW n \in Navs, NEW p \in Nodes,
           NEW s \in Spendings, Posted(q, s),
           NEW i \in 1 .. Len(q), Holds(a, i - 1, q, s),
           Orderly(a, i - 1, q, n, p, report, s)
    PROVE  Orderly(Handle(a, q[i]), i, q, n, p, report, s)
<1> DEFINE msg == q[i]
           b == Handle(a, msg)
<1>1. Ready(a, msg) /\ msg \in Messages
  BY ReadyIfHeld
<1>2. /\ b \in Agents /\ Deaf(b, a)
      /\ \/ b = a \/ Accepted(b, a, msg) \/ Extended(b, a, msg)
         \/ Resumed(b, a, msg) \/ Stopped(b, a, msg)
  BY <1>1, Handled
<1>3. /\ i \in Nat /\ Len(q) \in Nat /\ i > 0
      /\ i \in i - 1 + 1 .. Len(q) /\ \A j \in i + 1 .. Len(q) : j \in i - 1 + 1 .. Len(q) /\ j # 1
  OBVIOUS
<1>4. IsOrder(msg) => msg.order \in Orders /\ Proper(msg.order, s)
  BY <1>1 DEF Posted, IsOrder, Messages
<1>5. /\ a.order # Nothing => a.order \in Orders /\ Proper(a.order, s)
      /\ a.order # Nothing => a.reached <= a.order.base
      /\ a.reached \in Nat /\ Nothing \notin Orders /\ Nothing \notin Nat
      /\ \A j \in i .. Len(q) : Fits(a, q[j])
  <2>1. i - 1 + 1 = i
    OBVIOUS
  <2>2. \A j \in i .. Len(q) : Fits(a, q[j])
    BY <2>1 DEF Holds
  <2>3. QED
    BY <2>2, VehicleConstants DEF Holds, Agents
<1>6. /\ NewFirst(a, i - 1, q, n, p, report) /\ OnPath(a, n, p) /\ ForkWaits(a)
      /\ Word(a, n, report) /\ Chased(a) /\ Over(a, n) /\ Known(a, n, report, s)
  BY DEF Orderly
<1>7. NewFirst(b, i, q, n, p, report)
  BY <1>3, <1>6 DEF NewFirst
<1> HIDE DEF b, msg
<1>8. CASE b = a
  BY <1>6, <1>7, <1>8 DEF Orderly, b, msg
<1>9. CASE Accepted(b, a, msg)
  <2> DEFINE o == msg.order
             nodes == Base(o)
  <2>1. /\ IsNew(msg) /\ IsOrder(msg)
        /\ b.order = o /\ b.reached = 0 /\ b.fork = "WAITING"
        /\ b.cancel = a.cancel /\ b.finished = a.finished /\ b.misread = a.misread
        /\ RouteSent(b, a, nodes)
    BY <1>9 DEF Accepted, IsNew, IsOrder
  <2>2. /\ Fresh(o.id, a, n, report)
        /\ o.id \notin a.rolling => o.path[1] = p /\ n.state # "EN-ROUTE" /\ a.routes = << >>
    BY <1>3, <1>6, <2>1 DEF NewFirst, msg
  <2>3. o \in Orders /\ Proper(o, s) /\ o.id \in 1 .. s.orders
    BY <1>4, <2>1 DEF Proper
  <2> HIDE DEF o
  <2>4. /\ o.path \in Seq(Nodes) /\ o.base \in 1 .. Len(o.path) /\ Len(o.path) \in Nat
        /\ Last(o.path) = o.path[Len(o.path)] /\ o.base \in Nat /\ 0 < o.base
    BY <2>3 DEF Orders, Proper, Last
  <2>5. /\ nodes \in Seq(Nodes) /\ Len(nodes) = o.base - 0
        /\ \A k \in 1 .. o.base - 0 : nodes[k] = o.path[0 + k]
    BY <2>4 DEF Base
  <2> HIDE DEF nodes
  <2>6. Along(nodes, o.path) /\ (Final(nodes, o.path) <=> o.base = Len(o.path))
    BY <2>3, <2>4, <2>5, NewRoute
  <2>7. o.path[1] = p /\ p = Last(o.path) => o.base = Len(o.path)
    <3>1. /\ 1 \in DOMAIN o.path /\ Len(o.path) \in DOMAIN o.path
          /\ DOMAIN o.path = 1 .. Len(o.path)
      BY <2>4
    <3>2. o.path[1] = o.path[Len(o.path)] => 1 = Len(o.path)
      BY <2>3, <2>4, <3>1 DEF Proper
    <3>3. QED
      BY <2>4, <3>2
  <2>8. OnPathWith(b, a.routes, n, p)
    <3> SUFFICES ASSUME Steady(b) PROVE OnPathWith(b, a.routes, n, p)
      BY DEF OnPathWith
    <3>1. o.id \notin a.rolling
      BY <1>2, <2>1 DEF Steady, Deaf
    <3>2. QED
      BY <2>1, <2>2, <2>4, <2>7, <3>1 DEF OnPathWith, ForStation
  <2>9. OnPath(b, n, p)
    BY <2>1, <2>3, <2>6, <2>8, RouteAdded
  <2>10. Chased(b)
    BY <2>1, <2>2 DEF Chased, Fresh
  <2>11. Word(b, n, report) /\ Over(b, n) /\ Known(b, n, report, s)
    BY <1>2, <1>6, <2>1, <2>2, <2>3, WordOfRoute DEF Fresh
  <2>12. ForkWaits(b)
    BY <2>1 DEF ForkWaits
  <2>13. QED
    BY <1>7, <2>9, <2>10, <2>11, <2>12 DEF Orderly, b, msg
<1>10. CASE Extended(b, a, msg)
  <2> DEFINE o == msg.order
  <2>1. /\ IsOrder(msg) /\ a.order # Nothing /\ a.order.id = o.id
        /\ o.update = a.order.update + 1 /\ b.order = o /\ b.reached = a.reached
        /\ b.fork = a.fork /\ b.cancel = a.cancel /\ b.finished = a.finished
        /\ b.misread = a.misread
        /\ Routed(b, a) \/ RouteSent(b, a, Remaining(b))
    BY <1>10 DEF Extended
  <2>2. o.path = a.order.path /\ o.base = a.order.base + 1
    <3>1. Fits(a, msg)
      BY <1>3, <1>5 DEF msg
    <3>2. QED
      BY <2>1, <3>1 DEF Fits
  <2>3. o \in Orders /\ Proper(o, s) /\ o # Nothing /\ o.id \in 1 .. s.orders
    BY <1>4, <1>5, <2>1 DEF Proper
  <2> HIDE DEF o
  <2>4. /\ o.base \in 1 .. Len(o.path) /\ Len(o.path) \in Nat /\ a.order.base \in Nat
        /\ a.reached <= a.order.base /\ a.order.base # Len(o.path) /\ a.reached # Len(o.path)
        /\ a.reached < o.base
    <3>1. /\ o.base \in 1 .. Len(o.path) /\ Len(o.path) \in Nat /\ a.order.base \in Nat
          /\ a.reached <= a.order.base
      BY <1>5, <2>1, <2>3 DEF Proper, Orders
    <3>2. QED
      BY <1>5, <2>2, <3>1
  <2>5. OnPathWith(b, a.routes, n, p)
    BY <1>2, <1>6, <2>1, <2>2, <2>3, <2>4 DEF OnPath, OnPathWith, Steady, Deaf
  <2>6. ForkWaits(b)
    BY <1>6, <2>1, <2>2, <2>4 DEF ForkWaits
  <2>7. Chased(b)
    BY <1>6, <2>1 DEF Chased
  <2>8. CASE Routed(b, a)
    <3>1. OnPath(b, n, p)
      BY <2>5, <2>8 DEF OnPath, Routed
    <3>2. Word(b, n, report) /\ Over(b, n) /\ Known(b, n, report, s)
      <4>1. Labels(b) = Labels(a) /\ \A id : Away(b, n, id) <=> Away(a, n, id)
        BY <2>8 DEF Labels, Routed, Away
      <4>2. b.finished = a.finished /\ b.misread = a.misread /\ b.cancel = a.cancel
        BY <2>1
      <4>3. Word(b, n, report)
        BY <1>6, <2>8, <4>1 DEF Word, Routed, Deaf
      <4>4. Over(b, n)
        BY <1>6, <2>1, <4>1, <4>2 DEF Over
      <4>5. Known(b, n, report, s)
        BY <1>6, <2>8, <4>1, <4>2 DEF Known, Routed, Deaf
      <4>6. QED
        BY <4>3, <4>4, <4>5
    <3>3. QED
      BY <1>7, <2>6, <2>7, <3>1, <3>2 DEF Orderly, b, msg
  <2>9. CASE RouteSent(b, a, Remaining(b))
    <3>1. /\ Remaining(b) \in Seq(Nodes) /\ Len(Remaining(b)) = o.base - a.reached
          /\ \A k \in 1 .. o.base - a.reached : Remaining(b)[k] = o.path[a.reached + k]
      <4>1. b.order \in Orders /\ b.order.base \in 1 .. Len(b.order.path)
            /\ b.reached <= b.order.base
        BY <2>1, <2>3, <2>4, <1>5
      <4>2. QED
        BY <1>2, <2>1, <4>1, RemainingNodes
    <3>2. /\ Along(Remaining(b), o.path)
          /\ Final(Remaining(b), o.path) <=> o.base = Len(o.path)
      BY <1>5, <2>3, <2>4, <3>1, NewRoute
    <3>3. OnPath(b, n, p)
      BY <2>1, <2>3, <2>5, <2>9, <3>2, RouteAdded
    <3>4. b.order.id \notin a.finished
      BY <1>6, <2>1 DEF Over
    <3>5. Word(b, n, report) /\ Over(b, n) /\ Known(b, n, report, s)
      BY <1>2, <1>6, <2>1, <2>3, <2>9, <3>4, WordOfRoute
    <3>6. QED
      BY <1>7, <2>6, <2>7, <3>3, <3>5 DEF Orderly, b, msg
  <2>10. QED
    BY <2>1, <2>8, <2>9
<1>11. CASE Resumed(b, a, msg)
  <2> DEFINE o == a.order
  <2>1. /\ o # Nothing /\ a.reached < o.base /\ b.order = o /\ b.reached = a.reached
        /\ b.fork = a.fork /\ b.cancel = Nothing /\ b.finished = a.finished
        /\ b.misread = a.misread
        /\ RouteSent(b, a, Remaining(b))
    BY <1>11 DEF Resumed
  <2>2. o \in Orders /\ Proper(o, s) /\ o.id \in 1 .. s.orders
    BY <1>5, <2>1 DEF Proper
  <2>3. OnPathWith(b, a.routes, n, p)
    BY <1>2, <1>6, <2>1 DEF OnPath, OnPathWith, Steady, Deaf
  <2>4. ForkWaits(b) /\ Chased(b) /\ o.id \notin a.finished
    BY <1>6, <2>1 DEF ForkWaits, Chased, Over
  <2> HIDE DEF o
  <2>5. /\ Remaining(b) \in Seq(Nodes) /\ Len(Remaining(b)) = o.base - a.reached
        /\ \A k \in 1 .. o.base - a.reached : Remaining(b)[k] = o.path[a.reached + k]
    <3>1. o.base \in 1 .. Len(o.path) /\ a.reached <= o.base
      BY <1>5, <2>1, <2>2 DEF Proper, o
    <3>2. QED
      BY <1>2, <2>1, <2>2, <3>1, RemainingNodes
  <2>6. /\ Along(Remaining(b), o.path)
        /\ Final(Remaining(b), o.path) <=> o.base = Len(o.path)
    BY <1>5, <2>1, <2>2, <2>5, NewRoute
  <2>7. OnPath(b, n, p)
    BY <2>1, <2>2, <2>3, <2>6, RouteAdded
  <2>8. Word(b, n, report) /\ Over(b, n) /\ Known(b, n, report, s)
    BY <1>2, <1>6, <2>1, <2>2, <2>4, WordOfRoute
  <2>9. QED
    BY <1>7, <2>4, <2>7, <2>8 DEF Orderly, b, msg
<1>12. CASE Stopped(b, a, msg)
  <2>1. /\ Routed(b, a) /\ b.fork # "RUNNING" /\ a.misread \subseteq b.misread
        /\ \/ msg.kind = "cancel" /\ b.order = Nothing
           \/ msg.kind = "lost" /\ b.order = a.order /\ b.reached = a.reached
        /\ \/ /\ b.cancel.target = Target(a) /\ b.cancel.action = (msg.kind = "cancel")
              /\ b.finished = a.finished
           \/ b.cancel = Nothing /\ b.finished = a.finished
           \/ /\ msg.kind = "cancel" /\ b.cancel = Nothing
              /\ Target(a) # Nothing /\ a.navGoal # Target(a) /\ a.navState # ""
              /\ b.finished = a.finished \cup {Target(a)}
              /\ Target(a) \in a.behind => Target(a) \in b.misread
    BY <1>12 DEF Stopped
  <2>2. /\ Labels(b) = Labels(a) /\ \A o : Away(b, n, o) <=> Away(a, n, o)
        /\ b.navGoal = a.navGoal /\ b.navState = a.navState
        /\ b.behind = a.behind /\ b.aired = a.aired
    BY <2>1 DEF Routed, Deaf, Labels, Away
  <2>3. Target(a) \in 1 .. s.orders \cup {Nothing} /\ Target(a) \in MaybeId
    BY <1>5, <1>6 DEF Target, Known, Proper, Agents, Orders, MaybeId
  <2>4. OnPath(b, n, p) /\ ForkWaits(b)
    BY <1>6, <2>1 DEF OnPath, OnPathWith, ForkWaits, Steady, Routed, Deaf
  <2>5. Word(b, n, report)
    BY <1>6, <2>2 DEF Word
  <2>6. Chased(b)
    BY <2>1 DEF Chased
  <2>7. Over(b, n)
    <3>1. CASE b.finished = a.finished
      BY <1>6, <2>1, <2>2, <3>1 DEF Over
    <3>2. CASE /\ msg.kind = "cancel"
               /\ Target(a) # Nothing /\ a.navGoal # Target(a) /\ a.navState # ""
               /\ b.finished = a.finished \cup {Target(a)}
               /\ Target(a) \in a.behind => Target(a) \in b.misread
      <4>1. b.order = Nothing
        BY <2>1, <3>2
      <4>2. Target(a) \notin b.misread => Away(a, n, Target(a))
        BY <1>6, <2>3, <3>2 DEF Word, MaybeId
      <4>3. QED
        BY <1>6, <2>1, <2>2, <3>2, <4>1, <4>2 DEF Over
    <3>3. QED
      BY <2>1, <3>1, <3>2
  <2>8. Known(b, n, report, s)
    BY <1>6, <2>1, <2>2, <2>3 DEF Known
  <2>9. QED
    BY <1>7, <2>4, <2>5, <2>6, <2>7, <2>8 DEF Orderly, b, msg
<1>13. QED
  BY <1>2, <1>8, <1>9, <1>10, <1>11, <1>12

LEMMA DrainedOrderly ==
    ASSUME TypeInv, OrderlyInv, NEW late \in BOOLEAN, NEW cycled \in BOOLEAN
    PROVE  Orderly(Drained(late, cycled), 0, << >>, nav, place, report, spent)
<1> DEFINE m == Len(inbox)
           Kept(a, i) == Orderly(a, i, inbox, nav, place, report, spent)
           S == [i \in 0 .. m |-> {a \in Agents : Holds(a, i, inbox, spent) /\ Kept(a, i)}]
           handled == FoldLeft(Handle, agent, inbox)
           over == late /\ handled.cancel = agent.cancel
           pumped == PumpCancel(handled, over)
           b == Drained(late, cycled)
<1>1. /\ inbox \in Seq(Messages) /\ spent \in Spendings /\ Posted(inbox, spent)
      /\ nav \in Navs /\ place \in Nodes
  BY DEF TypeInv
<1>2. m \in Nat /\ DOMAIN inbox = 1 .. m
  BY <1>1
<1>3. agent \in S[0]
  BY <1>2 DEF TypeInv, OrderlyInv
<1>4. ASSUME NEW i \in 1 .. m, NEW a \in S[i - 1]
      PROVE  Handle(a, inbox[i]) \in S[i]
  <2>1. i - 1 \in 0 .. m /\ i \in 0 .. m
    BY <1>2
  <2>2. a \in Agents /\ Holds(a, i - 1, inbox, spent) /\ Kept(a, i - 1)
    BY <2>1
  <2>3. /\ Handle(a, inbox[i]) \in Agents /\ Holds(Handle(a, inbox[i]), i, inbox, spent)
        /\ Kept(Handle(a, inbox[i]), i)
    BY <1>1, <2>2, HeldOn, OrderlyOn
  <2> HIDE DEF Kept
  <2>4. QED
    BY <2>1, <2>3
<1>5. handled \in S[m]
  <2> HIDE DEF S, m
  <2>1. QED
    BY <1>2, <1>3, <1>4, HandledAll
<1>6. handled \in Agents /\ Kept(handled, m)
  BY <1>2, <1>5
<1>7. over \in BOOLEAN
  OBVIOUS
<1> HIDE DEF S, handled, over
<1>8. /\ OnPath(handled, nav, place) /\ ForkWaits(handled)
      /\ Word(handled, nav, report) /\ Chased(handled) /\ Over(handled, nav)
      /\ Known(handled, nav, report, spent)
  BY <1>6 DEF Orderly
<1>9. /\ pumped \in Agents /\ Routed(pumped, handled)
      /\ pumped.order = handled.order /\ pumped.reached = handled.reached
      /\ pumped.fork = handled.fork /\ handled.misread \subseteq pumped.misread
      /\ \/ pumped.cancel = handled.cancel /\ pumped.finished = handled.finished
         \/ pumped.cancel = Nothing /\ pumped.finished = handled.finished
         \/ /\ handled.cancel # Nothing /\ CancelConfirmed(handled)
            /\ handled.cancel.action /\ handled.cancel.target # Nothing
            /\ pumped.cancel = Nothing
            /\ pumped.finished = handled.finished \cup {handled.cancel.target}
            /\ handled.cancel.target \in handled.behind
                    => handled.cancel.target \in pumped.misread
  BY <1>6, <1>7, Pumped
<1> HIDE DEF Kept, m
<1>10. b = IF cycled /\ pumped.fork = "RUNNING" THEN [pumped EXCEPT !.fork = "FINISHED"]
           ELSE pumped
  BY DEF Drained, handled, over
<1> HIDE DEF pumped, b
<1>11. /\ b.order = handled.order /\ b.reached = handled.reached /\ Routed(b, handled)
       /\ b.fork = "RUNNING" => handled.fork = "RUNNING"
       /\ b.cancel = pumped.cancel /\ b.finished = pumped.finished
       /\ b.misread = pumped.misread
  BY <1>9, <1>10 DEF Agents, Forks, Routed, Deaf
<1>12. OnPath(b, nav, place) /\ ForkWaits(b)
  BY <1>8, <1>11 DEF OnPath, OnPathWith, ForkWaits, Steady, Routed, Deaf
<1>13. /\ Labels(b) = Labels(handled) /\ \A o : Away(b, nav, o) <=> Away(handled, nav, o)
       /\ b.navGoal = handled.navGoal /\ b.navState = handled.navState
       /\ b.behind = handled.behind /\ b.aired = handled.aired
  BY <1>11 DEF Routed, Deaf, Labels, Away
<1>14. Word(b, nav, report)
  BY <1>8, <1>13 DEF Word
<1>15. Chased(b)
  BY <1>8, <1>9, <1>11 DEF Chased
<1>16. Over(b, nav)
  <2>1. CASE b.finished = handled.finished
    BY <1>8, <1>9, <1>11, <1>13, <2>1 DEF Over
  <2>2. CASE /\ handled.cancel # Nothing /\ CancelConfirmed(handled)
             /\ handled.cancel.action /\ handled.cancel.target # Nothing
             /\ b.finished = handled.finished \cup {handled.cancel.target}
             /\ handled.cancel.target \in handled.behind
                    => handled.cancel.target \in b.misread
    <3> DEFINE o == handled.cancel.target
    <3>1. handled.navGoal # o /\ handled.navState # "" /\ o \in Nat
      BY <1>6, <2>2 DEF CancelConfirmed, Agents, MaybeId
    <3>2. handled.order # Nothing => handled.order.id # o
      BY <1>8, <2>2 DEF Chased
    <3>3. o \notin b.misread => Away(handled, nav, o)
      BY <1>8, <2>2, <3>1 DEF Word
    <3>4. QED
      BY <1>8, <1>9, <1>11, <1>13, <2>2, <3>2, <3>3 DEF Over
  <2>3. QED
    BY <1>9, <1>11, <2>1, <2>2
<1>17. Known(b, nav, report, spent)
  BY <1>8, <1>9, <1>11, <1>13 DEF Known
<1>18. NewFirst(b, 0, << >>, nav, place, report)
  BY DEF NewFirst
<1>19. QED
  BY <1>12, <1>14, <1>15, <1>16, <1>17, <1>18 DEF Orderly, b

-----------------------------------------------------------------------------
(* The invariant in the other steps. *)

\* Nav stands, or stands again: what is said of a nav under way says nothing.
LEMMA NavStands ==
    ASSUME NEW a \in Agents, NEW q \in Seq(Messages), NEW n \in Navs, NEW m, NEW p,
           NEW r, NEW s \in Spendings, Posted(q, s), Orderly(a, 0, q, n, p, r, s),
           m.state # "EN-ROUTE", m.goal \in {n.goal, Nothing}
    PROVE  Orderly(a, 0, q, m, p, r, s)
<1>1. \A j \in DOMAIN q : IsNew(q[j]) => q[j].order.id # Nothing
  BY VehicleConstants DEF Posted, Proper, IsNew, IsOrder
<1>2. 0 + 1 .. Len(q) = DOMAIN q
  OBVIOUS
<1>3. NewFirst(a, 0, q, m, p, r)
  <2>1. \A j \in 0 + 1 .. Len(q) : IsNew(q[j]) => m.goal # q[j].order.id
    BY <1>1, <1>2 DEF Orderly, NewFirst, Fresh
  <2>2. QED
    BY <2>1 DEF Orderly, NewFirst, Fresh
<1>4. OnPath(a, m, p)
  BY DEF Orderly, OnPath, OnPathWith, ForStation
<1>5. \A o : Away(a, n, o) => Away(a, m, o)
  BY DEF Away
<1>6. Word(a, m, r) /\ Over(a, m)
  BY <1>5 DEF Orderly, Word, Over
<1>7. Known(a, m, r, s)
  BY DEF Orderly, Known
<1>8. QED
  BY <1>3, <1>4, <1>6, <1>7 DEF Orderly

\* The same of a nav whose state, goal and route are as they were.
LEMMA NavSame ==
    ASSUME NEW a, NEW q, NEW n, NEW m, NEW p, NEW r, NEW s, Orderly(a, 0, q, n, p, r, s),
           m.state = n.state, m.goal = n.goal, m.route = n.route
    PROVE  Orderly(a, 0, q, m, p, r, s)
BY DEF Orderly, NewFirst, Fresh, OnPath, OnPathWith, ForStation, Word, Over, Known, Away

\* What an agent may change without being spoken of.
Alike(b, a) ==
    /\ b.order = a.order /\ b.reached = a.reached /\ b.cancel = a.cancel
    /\ b.finished = a.finished /\ b.misread = a.misread /\ b.fork = a.fork
    /\ b.navState = a.navState /\ b.navGoal = a.navGoal /\ b.rolling = a.rolling
    /\ b.behind = a.behind /\ b.aired = a.aired

LEMMA AgentSame ==
    ASSUME NEW a, NEW b, NEW q, NEW n, NEW p, NEW r, NEW s, Orderly(a, 0, q, n, p, r, s),
           Alike(b, a), b.routes = a.routes
    PROVE  Orderly(b, 0, q, n, p, r, s)
<1>1. Labels(b) = Labels(a)
  BY DEF Labels
<1>2. \A o : Away(a, n, o) <=> Away(b, n, o)
  BY <1>1 DEF Away
<1>3. Word(b, n, r) /\ Over(b, n) /\ Chased(b)
  BY <1>2 DEF Orderly, Alike, Word, Over, Chased
<1>4. NewFirst(b, 0, q, n, p, r) /\ Known(b, n, r, s)
  BY <1>1 DEF Orderly, Alike, NewFirst, Fresh, Known
<1>5. OnPath(b, n, p) /\ ForkWaits(b)
  BY DEF Orderly, Alike, OnPath, OnPathWith, Steady, ForkWaits
<1>6. QED
  BY <1>3, <1>4, <1>5 DEF Orderly

\* Between two drains an agent that holds an order holds a proper one.
LEMMA HeldOrder ==
    ASSUME TypeInv, OrderlyInv
    PROVE  /\ agent \in Agents /\ nav \in Navs /\ place \in Nodes /\ inbox \in Seq(Messages)
           /\ report \in Reports \cup {Nothing} /\ spent \in Spendings /\ Posted(inbox, spent)
           /\ NewFirst(agent, 0, inbox, nav, place, report)
           /\ OnPath(agent, nav, place) /\ ForkWaits(agent)
           /\ Word(agent, nav, report) /\ Chased(agent) /\ Over(agent, nav)
           /\ Known(agent, nav, report, spent)
           /\ agent.executing => agent.order # Nothing
           /\ agent.order # Nothing =>
                /\ agent.order \in Orders /\ agent.order.id \in Nat \ {0}
                /\ agent.order.id \in 1 .. spent.orders
                /\ agent.order.path \in Seq(Nodes) /\ Len(agent.order.path) \in Nat \ {0}
                /\ agent.order.base \in Nat /\ agent.order.base <= Len(agent.order.path)
                /\ agent.reached \in Nat /\ agent.reached <= agent.order.base
<1>1. /\ agent \in Agents /\ nav \in Navs /\ place \in Nodes /\ inbox \in Seq(Messages)
      /\ report \in Reports \cup {Nothing} /\ spent \in Spendings /\ Posted(inbox, spent)
      /\ Holds(agent, 0, inbox, spent)
  BY DEF TypeInv
<1>2. agent.executing => agent.order # Nothing
  BY <1>1 DEF Holds
<1>3. ASSUME agent.order # Nothing
      PROVE  /\ agent.order \in Orders /\ agent.order.id \in Nat \ {0}
             /\ agent.order.id \in 1 .. spent.orders
             /\ agent.order.path \in Seq(Nodes) /\ Len(agent.order.path) \in Nat \ {0}
             /\ agent.order.base \in Nat /\ agent.order.base <= Len(agent.order.path)
             /\ agent.reached \in Nat /\ agent.reached <= agent.order.base
  <2>0. agent.order \in Orders \cup {Nothing} /\ agent.reached \in Nat
    BY <1>1 DEF Agents
  <2>1. /\ agent.order \in Orders /\ Proper(agent.order, spent) /\ agent.reached \in Nat
        /\ agent.reached <= agent.order.base
    BY <1>1, <1>3, <2>0 DEF Holds
  <2>2. agent.order.id \in 1 .. spent.orders /\ spent.orders \in Nat
        /\ Len(agent.order.path) \in 1 .. Line /\ agent.order.base \in 1 .. Len(agent.order.path)
    BY <1>1, <2>1 DEF Proper, Spendings
  <2>3. agent.order.path \in Seq(Nodes) /\ Len(agent.order.path) \in Nat /\ agent.order.base \in Nat
    BY <2>1 DEF Orders
  <2>4. QED
    BY <2>1, <2>2, <2>3
<1>4. QED
  BY <1>1, <1>2, <1>3 DEF OrderlyInv, Orderly

\* One route less on the wire.
LEMMA LabelTaken ==
    ASSUME NEW a \in Agents, a.routes # << >>
    PROVE  LET b == [a EXCEPT !.routes = Tail(@)]
           IN  Labels(b) \subseteq Labels(a) /\ a.routes[1].label \in Labels(a)
<1> DEFINE b == [a EXCEPT !.routes = Tail(@)]
<1>1. /\ Len(a.routes) \in Nat \ {0} /\ DOMAIN a.routes = 1 .. Len(a.routes)
      /\ DOMAIN b.routes = 1 .. Len(a.routes) - 1
      /\ \A k \in 1 .. Len(a.routes) - 1 : b.routes[k] = a.routes[k + 1]
  BY TailRoutes
<1> HIDE DEF b
<1>2. 1 \in DOMAIN a.routes
  BY <1>1
<1>3. ASSUME NEW k \in DOMAIN b.routes
      PROVE  k + 1 \in DOMAIN a.routes /\ b.routes[k].label = a.routes[k + 1].label
  BY <1>1
<1>4. QED
  BY <1>2, <1>3 DEF Labels, b

\* Nav takes a route: the first of those the agent has sent.
LEMMA OrderlyTaken == TypeInv /\ OrderlyInv /\ TakeRoute => OrderlyInv'
<1> SUFFICES ASSUME TypeInv, OrderlyInv, TakeRoute PROVE OrderlyInv'
  OBVIOUS
<1> DEFINE b == [agent EXCEPT !.routes = Tail(@)]
           m == OnRoute(nav, Head(agent.routes))
           first == agent.routes[1]
           path == agent.order.path
           rest == Len(agent.routes) - 1
<1>1. agent.routes # << >> /\ agent' = b /\ nav' = m
      /\ UNCHANGED <<place, inbox, report, mode, broker, spent>>
  BY DEF TakeRoute
<1>2. /\ b \in Agents /\ Deaf(b, agent)
      /\ b.order = agent.order /\ b.reached = agent.reached
      /\ b.cancel = agent.cancel /\ b.finished = agent.finished /\ b.fork = agent.fork
      /\ b.misread = agent.misread /\ b.behind = agent.behind /\ b.aired = agent.aired
      /\ rest \in Nat /\ DOMAIN agent.routes = 1 .. rest + 1
      /\ DOMAIN b.routes = 1 .. rest
      /\ \A k \in 1 .. rest : b.routes[k] = agent.routes[k + 1]
      /\ Head(agent.routes) = first /\ first \in Routes
  <2>1. agent \in Agents /\ agent.routes # << >>
    BY <1>1, HeldOrder
  <2>2. /\ b \in Agents /\ Deaf(b, agent)
        /\ b.order = agent.order /\ b.reached = agent.reached
        /\ b.cancel = agent.cancel /\ b.finished = agent.finished /\ b.fork = agent.fork
        /\ b.misread = agent.misread /\ b.behind = agent.behind /\ b.aired = agent.aired
        /\ Len(agent.routes) \in Nat \ {0} /\ DOMAIN agent.routes = 1 .. Len(agent.routes)
        /\ DOMAIN b.routes = 1 .. Len(agent.routes) - 1
        /\ \A k \in 1 .. Len(agent.routes) - 1 : b.routes[k] = agent.routes[k + 1]
        /\ Head(agent.routes) = agent.routes[1] /\ agent.routes[1] \in Routes
    BY <2>1, TailRoutes
  <2> DEFINE n == Len(agent.routes)
  <2> HIDE DEF b, m, path, n
  <2>3. rest \in Nat /\ rest = n - 1 /\ rest + 1 = n
    BY <2>2 DEF n
  <2>4. QED
    BY <2>2, <2>3 DEF n
<1>3. \/ m.state = "EN-ROUTE" /\ m.goal = first.label /\ m.route = first.nodes
      \/ m.state = nav.state /\ m.goal = nav.goal /\ m.route = nav.route
  <2>1. nav \in Navs
    BY HeldOrder
  <2> DEFINE head == Head(agent.routes)
  <2>2. head \in Routes /\ head = first
    BY <1>2
  <2> HIDE DEF head, first
  <2>3. LET o == OnRoute(nav, head)
        IN  \/ o.state = "EN-ROUTE" /\ o.goal = head.label /\ o.route = head.nodes
            \/ o.state = nav.state /\ o.goal = nav.goal /\ o.route = nav.route
    BY <2>1, <2>2, NavTypes
  <2>4. QED
    BY <2>2, <2>3 DEF head
<1>4. /\ NewFirst(agent, 0, inbox, nav, place, report)
      /\ OnPath(agent, nav, place) /\ ForkWaits(agent)
      /\ Word(agent, nav, report) /\ Chased(agent) /\ Over(agent, nav)
      /\ Known(agent, nav, report, spent)
  BY HeldOrder
<1>5. Labels(b) \subseteq Labels(agent) /\ first.label \in Labels(agent)
  BY <1>1, HeldOrder, LabelTaken
<1>6. Steady(agent) =>
      /\ \A k \in 1 .. rest + 1 : Along(agent.routes[k].nodes, path)
      /\ nav.state = "EN-ROUTE" => Along(nav.route, path)
      /\ ForStation(nav, place, path) =>
           \A k \in 1 .. rest + 1 : Final(agent.routes[k].nodes, path)
      /\ \A j, k \in 1 .. rest + 1 : j < k /\ Final(agent.routes[j].nodes, path)
                                        => Final(agent.routes[k].nodes, path)
      /\ ForStation(nav, place, path) => agent.order.base = Len(path)
      /\ \A k \in 1 .. rest + 1 :
           Final(agent.routes[k].nodes, path) => agent.order.base = Len(path)
      /\ place = Last(path) /\ nav.state = "EN-ROUTE" => Final(nav.route, path)
      /\ agent.reached = Len(path) => place = Last(path)
  BY <1>2, <1>4 DEF OnPath, OnPathWith
<1>7. 1 \in 1 .. rest + 1
  BY <1>2
<1>8. \A k \in 1 .. rest : k + 1 \in 1 .. rest + 1 /\ 1 < k + 1
  BY <1>2
<1>9. \A j, k \in 1 .. rest : j < k => j + 1 < k + 1
  BY <1>2
<1> HIDE DEF b, m, first, path, rest
<1>10. NewFirst(b, 0, inbox, m, place, report)
  <2> SUFFICES ASSUME NEW j \in 0 + 1 .. Len(inbox), IsNew(inbox[j])
               PROVE  /\ j = 1 /\ Fresh(inbox[j].order.id, b, m, report)
                      /\ inbox[j].order.id \in b.rolling
    BY DEF NewFirst
  <2>1. /\ j = 1 /\ Fresh(inbox[j].order.id, agent, nav, report)
        /\ inbox[j].order.id \in agent.rolling
    BY <1>1, <1>4 DEF NewFirst
  <2>2. inbox[j].order.id # first.label
    BY <1>5, <2>1 DEF Fresh
  <2>3. QED
    BY <1>2, <1>3, <1>5, <2>1, <2>2 DEF Fresh, Deaf
<1>11. OnPath(b, m, place)
  <2> SUFFICES ASSUME Steady(b) PROVE OnPath(b, m, place)
    BY DEF OnPath, OnPathWith
  <2>0. Steady(agent)
    BY <1>2 DEF Steady, Deaf
  <2>1. \A k \in 1 .. rest : /\ Along(b.routes[k].nodes, path)
                             /\ Final(b.routes[k].nodes, path) => agent.order.base = Len(path)
    BY <1>2, <1>6, <1>8, <2>0
  <2>2. \A j, k \in 1 .. rest : j < k /\ Final(b.routes[j].nodes, path)
                                   => Final(b.routes[k].nodes, path)
    BY <1>2, <1>6, <1>8, <1>9, <2>0
  <2>3. /\ m.state = "EN-ROUTE" => Along(m.route, path)
        /\ ForStation(m, place, path) => \A k \in 1 .. rest : Final(b.routes[k].nodes, path)
        /\ ForStation(m, place, path) => agent.order.base = Len(path)
        /\ place = Last(path) /\ m.state = "EN-ROUTE" => Final(m.route, path)
    <3>1. CASE m.state = nav.state /\ m.goal = nav.goal /\ m.route = nav.route
      BY <1>2, <1>6, <1>8, <2>0, <3>1 DEF ForStation
    <3>2. CASE m.state = "EN-ROUTE" /\ m.goal = first.label /\ m.route = first.nodes
      <4>1. Along(first.nodes, path)
            /\ (Final(first.nodes, path) => agent.order.base = Len(path))
            /\ (place = Last(path) => Final(first.nodes, path))
        BY <1>6, <1>7, <2>0 DEF first, ForStation
      <4>2. Final(first.nodes, path) => \A k \in 1 .. rest : Final(b.routes[k].nodes, path)
        BY <1>2, <1>6, <1>7, <1>8, <2>0 DEF first
      <4>3. QED
        BY <3>2, <4>1, <4>2 DEF ForStation
    <3>3. QED
      BY <1>3, <3>1, <3>2
  <2>4. QED
    BY <1>2, <1>6, <2>0, <2>1, <2>2, <2>3 DEF OnPath, OnPathWith, path
<1>12. \A o : Away(agent, nav, o) => Away(b, m, o)
  BY <1>3, <1>5 DEF Away
<1>13. Word(b, m, report) /\ Over(b, m)
  BY <1>2, <1>4, <1>12 DEF Word, Over, Deaf
<1>14. ForkWaits(b) /\ Chased(b)
  BY <1>2, <1>4 DEF ForkWaits, Chased
<1>15. Known(b, m, report, spent)
  BY <1>2, <1>3, <1>4, <1>5 DEF Known, Deaf
<1>16. Orderly(b, 0, inbox, m, place, report, spent)
  BY <1>10, <1>11, <1>13, <1>14, <1>15 DEF Orderly
<1>17. QED
  BY <1>1, <1>16 DEF OrderlyInv

\* Nav drives on to the next node of its route.
LEMMA OrderlyMoved == TypeInv /\ OrderlyInv /\ Step => OrderlyInv'
<1> SUFFICES ASSUME TypeInv, OrderlyInv, Step PROVE OrderlyInv'
  OBVIOUS
<1> DEFINE old == nav.route
           path == agent.order.path
<1>1. /\ agent \in Agents /\ nav \in Navs /\ spent \in Spendings /\ Posted(inbox, spent)
      /\ inbox \in Seq(Messages)
      /\ NewFirst(agent, 0, inbox, nav, place, report)
      /\ OnPath(agent, nav, place) /\ ForkWaits(agent)
      /\ Word(agent, nav, report) /\ Chased(agent) /\ Over(agent, nav)
      /\ Known(agent, nav, report, spent)
  BY HeldOrder
<1>2. /\ nav.up /\ nav.state = "EN-ROUTE"
      /\ UNCHANGED <<agent, inbox, report, mode, broker, spent>>
  BY DEF Step
<1>3. CASE nav' = [nav EXCEPT !.state = "ARRIVED"] /\ UNCHANGED place
  <2>1. nav'.state = "ARRIVED" /\ nav'.goal = nav.goal /\ nav'.up = nav.up
    BY <1>1, <1>3 DEF Navs
  <2>2. Orderly(agent, 0, inbox, nav, place, report, spent)
    BY DEF OrderlyInv
  <2>3. nav'.state # "EN-ROUTE" /\ nav'.goal \in {nav.goal, Nothing}
    BY <2>1
  <2>4. Orderly(agent, 0, inbox, nav', place, report, spent)
    BY <1>1, <2>2, <2>3, NavStands
  <2>5. QED
    BY <1>2, <1>3, <2>4 DEF OrderlyInv
<1>4. CASE /\ place # Last(old) /\ place' = Head(old)
           /\ nav' = [nav EXCEPT !.route = IF Len(@) = 1 THEN @ ELSE Tail(@)]
  <2> DEFINE new == IF Len(old) = 1 THEN old ELSE Tail(old)
  <2>1. old \in Seq(Nodes) /\ Len(old) \in Nat \ {0} /\ Head(old) = old[1]
    BY <1>1, <1>2 DEF TypeInv, Navs
  <2>2. /\ Last(new) = Last(old) /\ Len(new) \in Nat
        /\ \/ Len(old) = 1 /\ new = old
           \/ Len(new) = Len(old) - 1 /\ \A k \in 1 .. Len(new) : new[k] = old[k + 1]
    <3>1. CASE Len(old) = 1
      BY <2>1, <3>1
    <3>2. CASE Len(old) # 1
      <4>1. Tail(old) \in Seq(Nodes) /\ Len(Tail(old)) = Len(old) - 1
            /\ \A k \in 1 .. Len(old) - 1 : Tail(old)[k] = old[k + 1]
        BY <2>1
      <4>2. Last(Tail(old)) = Last(old)
        <5> DEFINE n == Len(old)
        <5>1. n \in Nat \ {0} /\ n # 1
          BY <2>1, <3>2
        <5> HIDE DEF n
        <5>2. n - 1 \in 1 .. n - 1 /\ n - 1 + 1 = n
          BY <5>1
        <5>3. QED
          BY <4>1, <5>2 DEF Last, n
      <4>3. QED
        BY <2>1, <3>2, <4>1, <4>2
    <3>3. QED
      BY <3>1, <3>2
  <2>3. /\ nav'.state = "EN-ROUTE" /\ nav'.goal = nav.goal /\ nav'.up = nav.up
        /\ nav'.route = new
    BY <1>1, <1>2, <1>4 DEF Navs
  <2>4. place' = old[1]
    BY <1>4, <2>1
  <2> HIDE DEF new, old
  <2>5. Steady(agent) => /\ Along(new, path) /\ (Final(new, path) <=> Final(old, path))
                         /\ old[1] = Last(path) => Final(old, path)
    <3> SUFFICES ASSUME Steady(agent)
                 PROVE  /\ Along(new, path) /\ (Final(new, path) <=> Final(old, path))
                        /\ old[1] = Last(path) => Final(old, path)
      OBVIOUS
    <3>1. Along(old, path)
      BY <1>1, <1>2 DEF OnPath, OnPathWith, old
    <3>2. ASSUME Len(new) = Len(old) - 1, \A k \in 1 .. Len(new) : new[k] = old[k + 1]
          PROVE  Along(new, path)
      <4> HIDE DEF path
      <4> SUFFICES ASSUME NEW k \in 1 .. Len(new), new[k] = Last(path) PROVE k = Len(new)
        BY DEF Along
      <4>1. k + 1 \in 1 .. Len(old) /\ old[k + 1] = Last(path)
        BY <2>1, <2>2, <3>2
      <4>2. k + 1 = Len(old)
        BY <3>1, <4>1 DEF Along
      <4>3. QED
        BY <2>1, <3>2, <4>2
    <3>3. Along(new, path)
      BY <2>2, <3>1, <3>2
    <3>4. old[1] = Last(path) => Final(old, path)
      <4> HIDE DEF path
      <4>1. 1 \in 1 .. Len(old)
        BY <2>1
      <4>2. old[1] = Last(path) => 1 = Len(old)
        BY <3>1, <4>1 DEF Along
      <4>3. QED
        BY <4>2 DEF Final, Last
    <3>5. QED
      BY <2>2, <3>3, <3>4 DEF Final
  <2>6. OnPath(agent, nav', place')
    <3> SUFFICES ASSUME Steady(agent) PROVE OnPath(agent, nav', place')
      BY <1>1 DEF OnPath, OnPathWith
    <3>1. ForStation(nav', place', path) => Final(old, path)
      BY <2>3, <2>4, <2>5 DEF ForStation
    <3>2. Final(old, path) => ForStation(nav, place, path)
      BY <1>2 DEF ForStation, old
    <3>3. agent.reached # Len(path)
      <4>1. ASSUME place = Last(path) PROVE FALSE
        <5>1. Final(old, path)
          BY <1>1, <1>2, <4>1 DEF OnPath, OnPathWith, old
        <5>2. QED
          BY <1>4, <4>1, <5>1 DEF Final, old
      <4>2. QED
        BY <1>1, <4>1 DEF OnPath, OnPathWith
    <3>4. QED
      BY <1>1, <1>2, <2>3, <2>4, <2>5, <3>1, <3>2, <3>3 DEF OnPath, OnPathWith
  <2>7. NewFirst(agent, 0, inbox, nav', place', report)
    BY <1>1, <1>2, <2>3 DEF NewFirst, Fresh
  <2>8. Word(agent, nav', report) /\ Over(agent, nav') /\ Known(agent, nav', report, spent)
    BY <1>1, <1>2, <2>3 DEF Word, Over, Known, Away
  <2>9. Orderly(agent, 0, inbox, nav', place', report, spent)
    BY <1>1, <2>6, <2>7, <2>8 DEF Orderly
  <2>10. QED
    BY <1>2, <2>9 DEF OrderlyInv
<1>5. QED
  BY <1>3, <1>4 DEF Step

\* The agent counts the node it stands on.
LEMMA OrderlyCounted == TypeInv /\ OrderlyInv /\ Odom => OrderlyInv'
<1> SUFFICES ASSUME TypeInv, OrderlyInv, Odom PROVE OrderlyInv'
  OBVIOUS
<1> DEFINE b == OdomHeard(agent)
           path == agent.order.path
<1>1. /\ agent.executing /\ agent' = b
      /\ UNCHANGED <<nav, place, inbox, report, mode, broker, spent>>
  BY DEF Odom, Agent
<1>2. /\ agent \in Agents /\ agent.order # Nothing /\ agent.order \in Orders
      /\ Len(path) \in Nat \ {0} /\ agent.order.base \in Nat /\ agent.order.base <= Len(path)
      /\ agent.reached \in Nat /\ agent.reached <= agent.order.base
      /\ NewFirst(agent, 0, inbox, nav, place, report)
      /\ OnPath(agent, nav, place) /\ ForkWaits(agent)
      /\ Word(agent, nav, report) /\ Chased(agent) /\ Over(agent, nav)
      /\ Known(agent, nav, report, spent)
  BY <1>1, HeldOrder
<1>3. /\ Routed(b, agent)
      /\ b.order = agent.order /\ b.cancel = agent.cancel /\ b.finished = agent.finished
      /\ b.misread = agent.misread
      /\ \/ b.reached = agent.reached
         \/ /\ b.reached \in agent.reached + 1 .. agent.order.base
            /\ path[b.reached] = place
      /\ \/ b.fork = agent.fork
         \/ agent.order # Nothing /\ b.reached = Len(path)
  BY <1>2, OdomCounts
<1> HIDE DEF b
<1>4. Steady(agent) /\ b.reached = Len(path) => place = Last(path)
  <2>1. CASE b.reached = agent.reached
    BY <1>2, <2>1 DEF OnPath, OnPathWith
  <2>2. CASE path[b.reached] = place
    BY <2>2 DEF Last
  <2>3. QED
    BY <1>3, <2>1, <2>2
<1>5. OnPath(b, nav, place)
  BY <1>2, <1>3, <1>4 DEF OnPath, OnPathWith, Steady, Routed, Deaf
<1>6. ForkWaits(b)
  <2>1. CASE b.fork = "RUNNING" /\ agent.fork = "RUNNING"
    <3>1. agent.reached = Len(path)
      BY <1>2, <2>1 DEF ForkWaits
    <3>2. b.reached = agent.reached
      <4> HIDE DEF path
      <4>1. QED
        BY <1>2, <1>3, <3>1
    <3>3. QED
      BY <1>2, <1>3, <3>1, <3>2 DEF ForkWaits
  <2>2. QED
    BY <1>3, <2>1 DEF ForkWaits
<1>7. NewFirst(b, 0, inbox, nav, place, report)
  <2>1. \A id : Fresh(id, agent, nav, report) => Fresh(id, b, nav, report)
    BY <1>3 DEF Fresh, Labels, Routed, Deaf
  <2>2. QED
    BY <1>2, <1>3, <2>1 DEF NewFirst, Routed, Deaf
<1>8. /\ Word(b, nav, report) /\ Chased(b) /\ Over(b, nav)
      /\ Known(b, nav, report, spent)
  BY <1>2, <1>3 DEF Word, Chased, Over, Known, Away, Labels, Routed, Deaf
<1>9. Orderly(b, 0, inbox, nav, place, report, spent)
  BY <1>5, <1>6, <1>7, <1>8 DEF Orderly
<1>10. QED
  BY <1>1, <1>9 DEF OrderlyInv

\* Nav reports: what it says is true as it leaves, but for the routes on the wire.
LEMMA OrderlySaid == TypeInv /\ OrderlyInv /\ Report => OrderlyInv'
<1> SUFFICES ASSUME TypeInv, OrderlyInv, Report PROVE OrderlyInv'
  OBVIOUS
<1> DEFINE labels == {r.label : r \in Range(agent.routes)}
           b == [agent EXCEPT !.aired = labels]
<1>1. /\ agent \in Agents /\ nav \in Navs
      /\ NewFirst(agent, 0, inbox, nav, place, report)
      /\ OnPath(agent, nav, place) /\ ForkWaits(agent)
      /\ Word(agent, nav, report) /\ Chased(agent) /\ Over(agent, nav)
      /\ Known(agent, nav, report, spent)
  BY HeldOrder
<1>2. /\ report' = Said /\ agent' = b
      /\ UNCHANGED <<nav, place, inbox, mode, broker, spent>>
  BY DEF Report, Told
<1>3. Said.goal = nav.goal
  BY DEF Said
<1>4. labels = Labels(agent)
  BY DEF Labels, Range
<1> HIDE DEF labels
<1>5. /\ b.order = agent.order /\ b.reached = agent.reached /\ b.cancel = agent.cancel
      /\ b.finished = agent.finished /\ b.misread = agent.misread /\ b.fork = agent.fork
      /\ b.navState = agent.navState /\ b.navGoal = agent.navGoal
      /\ b.rolling = agent.rolling /\ b.routes = agent.routes
      /\ b.behind = agent.behind /\ b.aired = labels
  BY <1>1 DEF Agents
<1> HIDE DEF b
<1>6. Labels(b) = Labels(agent) /\ \A o : Away(b, nav, o) <=> Away(agent, nav, o)
  BY <1>5 DEF Labels, Away
<1>7. NewFirst(b, 0, inbox, nav, place, Said)
  BY <1>1, <1>3, <1>5, <1>6 DEF NewFirst, Fresh
<1>8. OnPath(b, nav, place) /\ ForkWaits(b) /\ Chased(b)
  BY <1>1, <1>5 DEF OnPath, OnPathWith, Steady, ForkWaits, Chased
<1>9. Word(b, nav, Said)
  <2>1. \A o : o \notin labels /\ o # nav.goal => Away(b, nav, o)
    BY <1>4, <1>6 DEF Away
  <2>2. QED
    BY <1>1, <1>3, <1>5, <1>6, <2>1 DEF Word
<1>10. Over(b, nav) /\ Known(b, nav, Said, spent)
  BY <1>1, <1>3, <1>5, <1>6 DEF Over, Known
<1>11. Orderly(b, 0, inbox, nav, place, Said, spent)
  BY <1>7, <1>8, <1>9, <1>10 DEF Orderly
<1>12. QED
  BY <1>2, <1>11 DEF OrderlyInv

\* The agent hears nav.
LEMMA OrderlyHeard == TypeInv /\ OrderlyInv /\ HearNav => OrderlyInv'
<1> SUFFICES ASSUME TypeInv, OrderlyInv, HearNav PROVE OrderlyInv'
  OBVIOUS
<1> DEFINE b == NavHeard(agent, report)
<1>1. /\ report # Nothing /\ agent' = b /\ report' = Nothing
      /\ UNCHANGED <<nav, place, inbox, mode, broker, spent>>
  BY DEF HearNav, Agent
<1>2. /\ agent \in Agents /\ report \in Reports
      /\ NewFirst(agent, 0, inbox, nav, place, report)
      /\ OnPath(agent, nav, place) /\ ForkWaits(agent)
      /\ Word(agent, nav, report) /\ Chased(agent) /\ Over(agent, nav)
      /\ Known(agent, nav, report, spent)
  BY <1>1, HeldOrder
<1>3. /\ b.order = agent.order /\ b.reached = agent.reached /\ b.cancel = agent.cancel
      /\ b.finished = agent.finished /\ b.routes = agent.routes
      /\ b.misread = agent.misread /\ b.rolling = agent.rolling
      /\ b.navGoal = report.goal /\ b.behind = agent.aired /\ b.aired = {}
      /\ \/ b.fork = agent.fork
         \/ agent.order # Nothing /\ agent.reached = Len(agent.order.path)
  BY <1>2, ReportHeard
<1> HIDE DEF b
<1>4. Labels(b) = Labels(agent) /\ \A o : Away(b, nav, o) <=> Away(agent, nav, o)
  BY <1>3 DEF Labels, Away
<1>5. OnPath(b, nav, place) /\ ForkWaits(b) /\ Chased(b)
  BY <1>2, <1>3 DEF OnPath, OnPathWith, Steady, ForkWaits, Chased
<1>6. NewFirst(b, 0, inbox, nav, place, Nothing)
  BY <1>1, <1>2, <1>3, <1>4 DEF NewFirst, Fresh
<1>7. Word(b, nav, Nothing) /\ Over(b, nav) /\ Known(b, nav, Nothing, spent)
  BY <1>1, <1>2, <1>3, <1>4 DEF Word, Over, Known
<1>8. Orderly(b, 0, inbox, nav, place, Nothing, spent)
  BY <1>5, <1>6, <1>7 DEF Orderly
<1>9. QED
  BY <1>1, <1>8 DEF OrderlyInv

\* The fleet sends an order, to a truck that stands or rolls.
LEMMA OrderlyOrdered == TypeInv /\ OrderlyInv /\ FleetOrders => OrderlyInv'
<1> SUFFICES ASSUME TypeInv, OrderlyInv, FleetOrders PROVE OrderlyInv'
  OBVIOUS
<1>1. PICK to \in Nodes : \E base \in DOMAIN Straight(place, to) :
          inbox' = << [kind |-> "order",
                       order |-> [id |-> spent.orders + 1, update |-> 0,
                                  path |-> Straight(place, to), base |-> base]] >>
  BY DEF FleetOrders
<1>2. PICK base \in DOMAIN Straight(place, to) :
          inbox' = << [kind |-> "order",
                       order |-> [id |-> spent.orders + 1, update |-> 0,
                                  path |-> Straight(place, to), base |-> base]] >>
  BY <1>1
<1> DEFINE b == agent'
           msg == [kind |-> "order",
                   order |-> [id |-> spent.orders + 1, update |-> 0,
                              path |-> Straight(place, to), base |-> base]]
           id == spent.orders + 1
<1>3. FleetTypes(b, msg) /\ inbox' = << msg >>
  BY <1>2, OrderSent
<1> HIDE DEF msg
<1>4. /\ spent.orders \in Nat /\ spent'.orders = id
      /\ UNCHANGED <<nav, place, report>>
  BY HeldOrder, SpendType DEF FleetOrders, Spendings
<1>5. /\ OnPath(agent, nav, place) /\ ForkWaits(agent)
      /\ Word(agent, nav, report) /\ Chased(agent) /\ Over(agent, nav)
      /\ Known(agent, nav, report, spent)
  BY HeldOrder
<1>6. /\ b.order = agent.order /\ b.reached = agent.reached /\ b.routes = agent.routes
      /\ b.cancel = agent.cancel /\ b.fork = agent.fork /\ b.finished = agent.finished
      /\ b.misread = agent.misread /\ b.navState = agent.navState
      /\ b.navGoal = agent.navGoal /\ b.behind = agent.behind /\ b.aired = agent.aired
      /\ agent.rolling \subseteq b.rolling
      /\ nav.state = "EN-ROUTE" \/ agent.routes # << >> => id \in b.rolling
      /\ msg.order.id = id /\ msg.order.path[1] = place
  BY <1>3 DEF FleetTypes
<1> HIDE DEF b
<1>7. Labels(b) = Labels(agent) /\ \A o : Away(b, nav, o) <=> Away(agent, nav, o)
  BY <1>6 DEF Labels, Away
<1>8. Fresh(id, b, nav, report)
  <2>1. id \notin 1 .. spent.orders \cup {Nothing}
    BY <1>4, VehicleConstants
  <2> HIDE DEF id
  <2>2. QED
    BY <1>5, <1>6, <1>7, <2>1 DEF Known, Fresh
<1>9. NewFirst(b, 0, << msg >>, nav, place, report)
  <2>1. Len(<< msg >>) = 1 /\ << msg >>[1] = msg
    OBVIOUS
  <2> SUFFICES ASSUME NEW j \in 0 + 1 .. 1
               PROVE  /\ j = 1 /\ Fresh(msg.order.id, b, nav, report)
                      /\ msg.order.id \notin b.rolling =>
                            /\ msg.order.path[1] = place /\ nav.state # "EN-ROUTE"
                            /\ b.routes = << >>
    BY <2>1 DEF NewFirst
  <2>2. j = 1
    OBVIOUS
  <2>3. QED
    BY <1>6, <1>8, <2>2
<1>10. OnPath(b, nav, place) /\ ForkWaits(b) /\ Chased(b)
  <2>1. Steady(b) => Steady(agent)
    BY <1>6 DEF Steady
  <2>2. QED
    BY <1>5, <1>6, <2>1 DEF OnPath, OnPathWith, ForkWaits, Chased
<1>11. Word(b, nav, report) /\ Over(b, nav)
  BY <1>5, <1>6, <1>7 DEF Word, Over
<1>12. Known(b, nav, report, spent')
  <2>1. 1 .. spent.orders \subseteq 1 .. spent'.orders
    BY <1>4
  <2>2. QED
    BY <1>5, <1>6, <1>7, <2>1 DEF Known
<1>13. Orderly(b, 0, << msg >>, nav, place, report, spent')
  BY <1>9, <1>10, <1>11, <1>12 DEF Orderly
<1>14. QED
  BY <1>3, <1>4, <1>13 DEF OrderlyInv, b

\* Another message in the inbox, and what else the step changes is not spoken of.
LEMMA OrderlyPosted ==
    ASSUME TypeInv, OrderlyInv, NEW msg \in Messages, ~IsNew(msg), spent' \in Spendings,
           spent.orders <= spent'.orders, inbox' = Append(inbox, msg),
           UNCHANGED <<agent, nav, place, report>>
    PROVE  OrderlyInv'
<1> DEFINE more == Append(inbox, msg)
<1>1. inbox \in Seq(Messages) /\ spent \in Spendings /\ Orderly(agent, 0, inbox, nav, place, report, spent)
  BY HeldOrder DEF OrderlyInv
<1>2. /\ Len(more) = Len(inbox) + 1 /\ \A k \in 1 .. Len(inbox) : more[k] = inbox[k]
      /\ more[Len(inbox) + 1] = msg /\ Len(inbox) \in Nat
  BY <1>1, Appended
<1> HIDE DEF more
<1>3. NewFirst(agent, 0, more, nav, place, report)
  <2> SUFFICES ASSUME NEW j \in 0 + 1 .. Len(more), IsNew(more[j])
               PROVE  /\ j = 1 /\ Fresh(more[j].order.id, agent, nav, report)
                      /\ more[j].order.id \notin agent.rolling =>
                            /\ more[j].order.path[1] = place /\ nav.state # "EN-ROUTE"
                            /\ agent.routes = << >>
    BY DEF NewFirst
  <2>1. j \in 1 .. Len(inbox)
    BY <1>2
  <2>2. QED
    BY <1>1, <1>2, <2>1 DEF Orderly, NewFirst
<1>4. Known(agent, nav, report, spent')
  <2>1. 1 .. spent.orders \subseteq 1 .. spent'.orders
    BY <1>1 DEF Spendings
  <2>2. QED
    BY <1>1, <2>1 DEF Orderly, Known
<1>5. Orderly(agent, 0, more, nav, place, report, spent')
  BY <1>1, <1>3, <1>4 DEF Orderly
<1>6. QED
  BY <1>5 DEF OrderlyInv, more

LEMMA OrderlyInit == VehicleInit => OrderlyInv
<1> SUFFICES ASSUME VehicleInit PROVE OrderlyInv
  OBVIOUS
<1> DEFINE first == [order |-> Nothing, reached |-> 0, executing |-> FALSE, cancel |-> Nothing,
                navState |-> "", navGoal |-> Nothing, auto |-> TRUE, settled |-> TRUE,
                fork |-> "NONE", routes |-> << >>, goals |-> 0, finished |-> {},
                behind |-> {}, aired |-> {}, misread |-> {}, rolling |-> {}]
<1>0. /\ first.order = Nothing /\ first.cancel = Nothing
      /\ first.routes = << >> /\ first.fork = "NONE" /\ first.finished = {}
      /\ first.navState = "" /\ first.navGoal = Nothing
  OBVIOUS
<1>1. agent = first /\ inbox = << >> /\ report = Nothing
  BY DEF VehicleInit
<1> HIDE DEF first
<1>2. nav.goal = Nothing
  <2>1. NoWork \in Navs /\ NoWork.goal = Nothing
    BY EmptyWork
  <2>2. nav = [NoWork EXCEPT !.auto = TRUE]
    BY DEF VehicleInit
  <2>3. QED
    BY <2>1, <2>2 DEF Navs
<1>3. NewFirst(agent, 0, inbox, nav, place, report)
  BY <1>1 DEF NewFirst
<1>4. OnPath(agent, nav, place) /\ ForkWaits(agent)
  BY <1>0, <1>1 DEF OnPath, OnPathWith, Steady, ForkWaits
<1>5. Word(agent, nav, report) /\ Chased(agent) /\ Over(agent, nav)
  BY <1>0, <1>1 DEF Word, Chased, Over
<1>6. Known(agent, nav, report, spent)
  <2>1. Labels(agent) = {}
    <3>1. agent.routes = << >>
      BY <1>0, <1>1
    <3>2. DOMAIN agent.routes = {}
      BY <3>1
    <3>3. QED
      BY <3>2 DEF Labels
  <2>2. QED
    BY <1>0, <1>1, <1>2, <2>1 DEF Known
<1>7. QED
  BY <1>3, <1>4, <1>5, <1>6 DEF OrderlyInv, Orderly

LEMMA OrderlyStep == TypeInv /\ OrderlyInv /\ [VehicleNext]_vehicleVars => OrderlyInv'
<1> SUFFICES ASSUME TypeInv, OrderlyInv, [VehicleNext]_vehicleVars PROVE OrderlyInv'
  OBVIOUS
<1>0. /\ agent \in Agents /\ nav \in Navs /\ place \in Nodes /\ inbox \in Seq(Messages)
      /\ spent \in Spendings /\ Posted(inbox, spent) /\ mode \in BOOLEAN
      /\ Orderly(agent, 0, inbox, nav, place, report, spent)
  BY HeldOrder DEF OrderlyInv, TypeInv
<1>1. CASE TakeGoal
  <2> DEFINE b == [agent EXCEPT !.goals = @ - 1]
             m == Cancelled(nav, "cancelled")
  <2>1. agent' = b /\ nav' = m /\ UNCHANGED <<place, inbox, report, mode, broker, spent>>
    BY <1>1 DEF TakeGoal
  <2>2. Alike(b, agent) /\ b.routes = agent.routes
    BY <1>0 DEF Agents, Alike
  <2> HIDE DEF b
  <2>3. m.state = "IDLE" /\ m.goal = Nothing
    BY <1>0, NavTypes
  <2> HIDE DEF m
  <2>4. Orderly(agent, 0, inbox, m, place, report, spent)
    BY <1>0, <2>3, NavStands
  <2>5. Orderly(b, 0, inbox, m, place, report, spent)
    BY <2>2, <2>4, AgentSame
  <2>6. QED
    BY <2>1, <2>5 DEF OrderlyInv
<1>2. CASE Drain
  <2>1. PICK late \in BOOLEAN, cycled \in BOOLEAN : agent' = Drained(late, cycled)
    BY <1>2 DEF Drain, Agent
  <2>2. inbox' = << >> /\ UNCHANGED <<nav, place, report, mode, broker, spent>>
    BY <1>2 DEF Drain, Agent
  <2>3. Orderly(Drained(late, cycled), 0, << >>, nav, place, report, spent)
    BY DrainedOrderly
  <2>4. QED
    BY <2>1, <2>2, <2>3 DEF OrderlyInv
<1>3. CASE Settle \/ HearMode
  <2>1. agent' \in {[agent EXCEPT !.settled = TRUE], [agent EXCEPT !.auto = mode]}
        /\ UNCHANGED <<nav, place, inbox, report, mode, broker, spent>>
    BY <1>3 DEF Settle, HearMode, Agent
  <2>2. Alike(agent', agent) /\ agent'.routes = agent.routes
    BY <1>0, <2>1 DEF Agents, Alike
  <2>3. Orderly(agent', 0, inbox, nav, place, report, spent)
    BY <1>0, <2>2, AgentSame
  <2>4. QED
    BY <2>1, <2>3 DEF OrderlyInv
<1>4. CASE NavHearsMode
  <2> DEFINE m == OnMode(nav, mode)
  <2>1. nav' = m /\ UNCHANGED <<agent, place, inbox, report, mode, broker, spent>>
    BY <1>4 DEF NavHearsMode
  <2>2. \/ m.state = nav.state /\ m.goal = nav.goal /\ m.route = nav.route
        \/ m.state = "IDLE" /\ m.goal = Nothing
    BY <1>0, NavTypes
  <2> HIDE DEF m
  <2>3. CASE m.state = nav.state /\ m.goal = nav.goal /\ m.route = nav.route
    BY <1>0, <2>1, <2>3, NavSame DEF OrderlyInv
  <2>4. CASE m.state = "IDLE" /\ m.goal = Nothing
    <3>1. Orderly(agent, 0, inbox, m, place, report, spent)
      BY <1>0, <2>4, NavStands
    <3>2. QED
      BY <2>1, <3>1 DEF OrderlyInv
  <2>5. QED
    BY <2>2, <2>3, <2>4
<1>5. CASE FleetExtends
  <2> DEFINE o == [agent.order EXCEPT !.update = @ + 1, !.base = @ + 1]
             msg == [kind |-> "order", order |-> o]
  <2>1. /\ agent.order # Nothing /\ inbox' = Append(inbox, msg)
        /\ UNCHANGED <<agent, nav, place, report, mode, broker, spent>>
    BY <1>5 DEF FleetExtends, Receive
  <2>2. agent.order \in Orders
    BY <2>1, HeldOrder
  <2>3. o \in Orders /\ o.update # 0
    <3>1. /\ agent.order.update + 1 \in Nat /\ agent.order.base + 1 \in Nat
          /\ agent.order.update + 1 # 0
      BY <2>2 DEF Orders
    <3>2. QED
      BY <2>2, <3>1 DEF Orders
  <2> HIDE DEF o
  <2>4. msg \in Messages /\ msg.kind = "order" /\ msg.order = o
    BY <2>3 DEF Messages
  <2>5. ~IsNew(msg)
    BY <2>3, <2>4 DEF IsNew
  <2> HIDE DEF msg
  <2>6. spent' \in Spendings /\ spent.orders <= spent'.orders
    BY <1>0, <2>1 DEF Spendings
  <2>7. QED
    BY <2>1, <2>4, <2>5, <2>6, OrderlyPosted
<1>6. CASE FleetCancels \/ BrokerLost \/ BrokerBack
  <2>1. PICK msg \in [kind : {"cancel", "lost", "connected"}] : inbox' = Append(inbox, msg)
    BY <1>6 DEF FleetCancels, BrokerLost, BrokerBack, Receive
  <2>2. msg \in Messages /\ ~IsNew(msg)
    BY DEF Messages, IsNew
  <2>3. spent' \in Spendings /\ spent.orders <= spent'.orders
    <3>1. CASE FleetCancels
      BY <1>0, <3>1, SpendType DEF FleetCancels
    <3>2. CASE BrokerLost
      BY <1>0, <3>2, SpendType DEF BrokerLost
    <3>3. CASE BrokerBack
      BY <1>0, <3>3 DEF BrokerBack, Spendings
    <3>4. QED
      BY <1>6, <3>1, <3>2, <3>3
  <2>4. UNCHANGED <<agent, nav, place, report>>
    BY <1>6 DEF FleetCancels, Receive, BrokerLost, BrokerBack
  <2>5. QED
    BY <2>1, <2>2, <2>3, <2>4, OrderlyPosted
<1>7. CASE SwitchMode
  <2>1. spent'.orders = spent.orders /\ UNCHANGED <<agent, nav, place, inbox, report>>
    BY <1>0, <1>7, SpendType DEF SwitchMode
  <2>2. Orderly(agent, 0, inbox, nav, place, report, spent')
    BY <1>0, <2>1 DEF Orderly, Known
  <2>3. QED
    BY <2>1, <2>2 DEF OrderlyInv
<1>8. CASE NavDies
  <2> DEFINE m == [NoWork EXCEPT !.up = FALSE]
  <2>1. /\ spent'.orders = spent.orders /\ nav' = m /\ UNCHANGED <<agent, place, inbox, report>>
    BY <1>0, <1>8, SpendType DEF NavDies
  <2>2. m.state = "IDLE" /\ m.goal = Nothing
    BY EmptyWork
  <2> HIDE DEF m
  <2>3. Orderly(agent, 0, inbox, m, place, report, spent)
    BY <1>0, <2>2, NavStands
  <2>4. Orderly(agent, 0, inbox, m, place, report, spent')
    BY <2>1, <2>3 DEF Orderly, Known
  <2>5. QED
    BY <2>1, <2>4 DEF OrderlyInv
<1>9. CASE NavReturns
  <2> DEFINE b == [agent EXCEPT !.routes = << >>, !.goals = 0]
  <2>1. agent' = b /\ nav' = NoWork /\ UNCHANGED <<place, inbox, report, mode, broker, spent>>
    BY <1>9 DEF NavReturns
  <2>2. Alike(b, agent) /\ b.routes = << >>
    BY <1>0 DEF Agents, Alike
  <2> HIDE DEF b
  <2>3. NoWork.state = "IDLE" /\ NoWork.goal = Nothing
    BY EmptyWork
  <2>4. Orderly(agent, 0, inbox, NoWork, place, report, spent)
    BY <1>0, <2>3, NavStands
  <2>5. Labels(b) = {} /\ \A o : Away(agent, NoWork, o) => Away(b, NoWork, o)
    BY <2>2 DEF Labels, Away
  <2>6. NewFirst(b, 0, inbox, NoWork, place, report) /\ Known(b, NoWork, report, spent)
    BY <2>2, <2>3, <2>4, <2>5 DEF Orderly, NewFirst, Fresh, Known, Alike
  <2>7. OnPath(b, NoWork, place) /\ ForkWaits(b) /\ Chased(b)
    BY <2>2, <2>4
       DEF Orderly, OnPath, OnPathWith, ForkWaits, Steady, Chased, Alike
  <2>8. Word(b, NoWork, report) /\ Over(b, NoWork)
    BY <2>2, <2>4, <2>5 DEF Orderly, Word, Over, Alike
  <2>9. Orderly(b, 0, inbox, NoWork, place, report, spent)
    BY <2>6, <2>7, <2>8 DEF Orderly
  <2>10. QED
    BY <2>1, <2>9 DEF OrderlyInv
<1>10. CASE UNCHANGED vehicleVars
  BY <1>0, <1>10 DEF vehicleVars, OrderlyInv
<1>11. QED
  BY <1>1, <1>2, <1>3, <1>4, <1>5, <1>6, <1>7, <1>8, <1>9, <1>10, OrderlyTaken, OrderlyMoved,
     OrderlySaid, OrderlyCounted, OrderlyHeard, OrderlyOrdered DEF VehicleNext

LEMMA OrderlyAlways == VehicleSpec => [](TypeInv /\ OrderlyInv)
<1>1. QED
  BY TypeInit, TypeStep, OrderlyInit, OrderlyStep, PTL DEF VehicleSpec

\* The fork cycle starts at the last node of an order that was sent to a truck at
\* rest, on any line, after any number of orders, extensions, cancels, losses of the
\* broker and deaths of nav, whenever they come and whatever reports are under way
\* (_settle_arrival with Progress.update and _base_kept).
THEOREM WorkOnlyAtStation == VehicleSpec => []WorkAtStation
<1>1. TypeInv /\ OrderlyInv => WorkAtStation
  <2> SUFFICES ASSUME TypeInv, OrderlyInv, agent.fork = "RUNNING",
                      agent.order.id \notin agent.rolling
               PROVE  place = Last(agent.order.path)
    BY DEF WorkAtStation
  <2>1. OnPath(agent, nav, place) /\ ForkWaits(agent)
    BY HeldOrder
  <2>2. QED
    BY <2>1 DEF ForkWaits, OnPath, OnPathWith, Steady
<1>2. QED
  BY <1>1, OrderlyAlways, PTL

\* A cancel that was reported FINISHED is one nav no longer drives and no route is left
\* of, whenever the cancel comes and whatever reports are under way, unless the report
\* that confirmed it left nav before the order's last route was taken (_cancel_confirmed
\* with _pump_cancel, _resume and _extend).
THEOREM FinishedIsStopped == VehicleSpec => []FinishedMeansStopped
<1>1. TypeInv /\ OrderlyInv => FinishedMeansStopped
  <2> SUFFICES ASSUME TypeInv, OrderlyInv, NEW o \in agent.finished \ agent.misread
               PROVE  NotDriven(o)
    BY DEF FinishedMeansStopped
  <2>1. Away(agent, nav, o)
    BY HeldOrder DEF Over
  <2>2. QED
    BY <2>1 DEF NotDriven, Away, Labels
<1>2. QED
  BY <1>1, OrderlyAlways, PTL


-----------------------------------------------------------------------------
(* The invariant. *)

\* The server still holds what the session has written, and what its cache
\* says, or the read-back of the next cycle will notice that it does not.
InSync ==
    /\ session.written \subseteq past.mine
    /\ \A key \in OnChange : key \in session.written => server.image[key] = session.last[key]
Noticeable == step \in {"verify", "sleep"} /\ Reverted
CacheInSync == step # "down" /\ ~past.blind /\ ~past.early => InSync \/ Noticeable

\* Whatever restarts there were: a key of the silence rule that was written
\* TRUE is TRUE in the server, for its start value is TRUE too.
AssertedStays ==
    step # "down" =>
        \A key \in StaleAsserts :
            key \in session.written /\ session.last[key] = TRUE => server.image[key] = TRUE

\* A key that was quiet when the cycle began is silent still, and from its turn
\* in the input path on it reads TRUE.
QuietIsSilent == \A key \in past.quiet : Silent(key) \/ slots[key] = Unset
StillToCome(key) == step = "inputs" /\ \E i \in 1 .. Len(todo) : todo[i] = key
QuietReadsTrue ==
    step \in {"inputs", "heartbeat", "sleep"} =>
        \A key \in past.quiet :
            slots[key] # Unset => StillToCome(key) \/ server.image[key] = TRUE

BridgeInv ==
    /\ BridgeTypeOK
    /\ CacheInSync /\ AssertedStays /\ QuietIsSilent /\ QuietReadsTrue

-----------------------------------------------------------------------------
(* Lemmas. *)

\* What the assumption says, without the finiteness.
LEMMA Inputs ==
    /\ InputKeys = Cyclic \cup OnChange /\ StaleAsserts \subseteq OnChange
    /\ Order \in Seq(InputKeys) /\ \A key \in InputKeys : \E i \in 1 .. Len(Order) : Order[i] = key
    /\ StartValue \in [InputKeys -> BOOLEAN] /\ \A key \in StaleAsserts : StartValue[key] = TRUE
    /\ Unset \notin BOOLEAN /\ Unset \notin Nat
    /\ HEARTBEATS \in Nat /\ HEARTBEATS > 1 /\ WINDOW \in Nat /\ Mishaps \in Nat
<1>1. HEARTBEATS > 1
  BY BridgeAssumption
<1>2. \A key \in StaleAsserts : key \in InputKeys /\ StartValue[key] \in BOOLEAN /\ StartValue[key]
  BY BridgeAssumption DEF InputKeys
<1>3. QED
  BY <1>1, <1>2, BridgeAssumption DEF InputKeys

\* A key that is written has a sample, and the value written is a Boolean; a
\* silent one is written TRUE.
LEMMA WhatIsWritten ==
    ASSUME BridgeTypeOK, NEW key \in InputKeys, slots[key] # Unset
    PROVE  /\ ValueForWrite(key) \in BOOLEAN
           /\ Silent(key) => ValueForWrite(key) = TRUE
BY DEF BridgeTypeOK, ValueForWrite

\* The head of a non-empty list of keys is one, and the rest is a list of keys
\* that has every other one.
LEMMA HeadAndTail ==
    ASSUME NEW S, NEW s \in Seq(S), s # << >>
    PROVE  /\ Head(s) \in S /\ Tail(s) \in Seq(S)
           /\ \A key : (\E i \in 1 .. Len(s) : s[i] = key) =>
                key = Head(s) \/ \E i \in 1 .. Len(Tail(s)) : Tail(s)[i] = key
<1>1. Head(s) \in S /\ Tail(s) \in Seq(S) /\ Head(s) = s[1] /\ Len(s) \in Nat
  OBVIOUS
<1>2. Len(Tail(s)) = Len(s) - 1 /\ \A i \in 1 .. Len(Tail(s)) : Tail(s)[i] = s[i + 1]
  OBVIOUS
<1>3. ASSUME NEW i \in 1 .. Len(s), i # 1
      PROVE  i - 1 \in 1 .. Len(Tail(s)) /\ Tail(s)[i - 1] = s[i]
  BY <1>1, <1>2, <1>3
<1>4. QED
  BY <1>1, <1>3

-----------------------------------------------------------------------------
(* Types. *)

\* A cache that is emptied speaks of no key.
LEMMA Emptied ==
    /\ EmptyCache \in [written : SUBSET InputKeys, last : [OnChange -> BOOLEAN \cup {Unset}],
                       beat : 0 .. HEARTBEATS - 1 \cup {Unset}]
    /\ EmptyCache.written \cap OnChange = {key \in OnChange : EmptyCache.last[key] # Unset}
BY Inputs DEF EmptyCache

\* The counters start in their ranges.
LEMMA Zeros ==
    /\ 0 \in 0 .. HEARTBEATS - 1 /\ Mishaps \in 0 .. Mishaps
    /\ [key \in StaleAsserts |-> 0] \in [StaleAsserts -> 0 .. WINDOW + 1]
    /\ [key \in InputKeys |-> Unset] \in [InputKeys -> BOOLEAN \cup {Unset}]
    /\ << >> \in Seq(InputKeys)
BY Inputs

LEMMA ImageTypeInit == BridgeInit => BridgeTypeOK
<1> SUFFICES ASSUME BridgeInit PROVE BridgeTypeOK
  OBVIOUS
<1>1. server \in [image : [InputKeys -> BOOLEAN], beat : 0 .. HEARTBEATS - 1]
  BY Inputs, Zeros DEF BridgeInit
<1>2. past \in [mine : SUBSET InputKeys, blind : BOOLEAN, early : BOOLEAN,
                quiet : SUBSET StaleAsserts]
  BY DEF BridgeInit
<1>3. QED
  BY <1>1, <1>2, Emptied, Zeros DEF BridgeInit, BridgeTypeOK, Steps


LEMMA NextBeatType == heartbeat \in 0 .. HEARTBEATS - 1 => NextBeat \in 0 .. HEARTBEATS - 1
BY Inputs DEF NextBeat

LEMMA ImageTypeStep == BridgeTypeOK /\ [BridgeNext]_bridgeVars => BridgeTypeOK'
<1> SUFFICES ASSUME BridgeTypeOK, [BridgeNext]_bridgeVars PROVE BridgeTypeOK'
  OBVIOUS
<1> USE Inputs
<1>1. CASE Connect
  BY <1>1, Emptied DEF Connect, Invalidate, BridgeTypeOK, Steps
<1>2. CASE KeepaliveSeen
  <2>1. /\ session' = [session EXCEPT !.beat = Unset] /\ step' = "down" /\ todo' = << >>
        /\ UNCHANGED <<server, slots, age, heartbeat, broken, mishaps, past>>
    BY <1>2 DEF KeepaliveSeen, Disconnect
  <2>2. /\ session' \in [written : SUBSET InputKeys, last : [OnChange -> BOOLEAN \cup {Unset}],
                         beat : 0 .. HEARTBEATS - 1 \cup {Unset}]
        /\ session'.written = session.written /\ session'.last = session.last
    BY <2>1 DEF BridgeTypeOK
  <2>3. QED
    BY <2>1, <2>2, Zeros DEF BridgeTypeOK, Steps
<1>3. CASE VerifyOwnHeartbeat
  <2>1. session' \in {session, EmptyCache} /\ step' = "outputs"
    BY <1>3 DEF VerifyOwnHeartbeat
  <2>2. past' = [past EXCEPT
            !.blind = @ /\ ~Reverted, !.early = @ /\ ~Reverted,
            !.quiet = {key \in StaleAsserts : Silent(key)}]
    BY <1>3 DEF VerifyOwnHeartbeat
  <2>3. past' \in [mine : SUBSET InputKeys, blind : BOOLEAN, early : BOOLEAN,
                   quiet : SUBSET StaleAsserts]
    BY <2>2 DEF BridgeTypeOK
  <2>4. UNCHANGED <<server, slots, age, todo, heartbeat, broken, mishaps>>
    BY <1>3 DEF VerifyOwnHeartbeat
  <2>5. QED
    BY <2>1, <2>3, <2>4, Emptied DEF BridgeTypeOK, Steps
<1>4. CASE OutputPath
  BY <1>4 DEF OutputPath, BridgeTypeOK, Steps
<1>5. CASE TakeInput
  <2> DEFINE key == Head(todo)
  <2>1. key \in InputKeys /\ Tail(todo) \in Seq(InputKeys)
    BY <1>5, HeadAndTail DEF TakeInput, BridgeTypeOK
  <2>2. CASE ToWrite(key)
    <3>1. ValueForWrite(key) \in BOOLEAN
      BY <2>1, <2>2, WhatIsWritten DEF ToWrite
    <3>2. server' = [server EXCEPT !.image[key] = ValueForWrite(key)]
          /\ past' = [past EXCEPT !.mine = @ \cup {key}]
      BY <1>5, <2>2 DEF TakeInput, WriteLands
    <3>3. session' = [session EXCEPT !.written = @ \cup {key},
              !.last = [k \in OnChange |-> IF k = key THEN ValueForWrite(k) ELSE @[k]]]
      BY <1>5, <2>2 DEF TakeInput
    <3> HIDE DEF key
    <3>4. session'.written = session.written \cup {key} /\ session'.beat = session.beat
          /\ session'.last = [k \in OnChange |-> IF k = key THEN ValueForWrite(key) ELSE session.last[k]]
      BY <3>3 DEF BridgeTypeOK
    <3>5. session' \in [written : SUBSET InputKeys, last : [OnChange -> BOOLEAN \cup {Unset}],
                        beat : 0 .. HEARTBEATS - 1 \cup {Unset}]
      BY <2>1, <3>1, <3>3 DEF BridgeTypeOK
    <3>6. session'.written \cap OnChange = {k \in OnChange : session'.last[k] # Unset}
      BY <2>1, <3>1, <3>4 DEF BridgeTypeOK
    <3>7. server' \in [image : [InputKeys -> BOOLEAN], beat : 0 .. HEARTBEATS - 1]
      BY <2>1, <3>1, <3>2 DEF BridgeTypeOK
    <3>8. past' \in [mine : SUBSET InputKeys, blind : BOOLEAN, early : BOOLEAN,
                     quiet : SUBSET StaleAsserts]
      BY <2>1, <3>2 DEF BridgeTypeOK
    <3>9. QED
      BY <1>5, <2>1, <3>5, <3>6, <3>7, <3>8 DEF TakeInput, BridgeTypeOK
  <2>3. CASE ~ToWrite(key)
    BY <1>5, <2>1, <2>3, SMTT(40) DEF TakeInput, BridgeTypeOK
  <2>4. QED
    BY <2>2, <2>3
<1>6. CASE InputsDone
  BY <1>6 DEF InputsDone, BridgeTypeOK, Steps
<1>7. CASE WithholdHeartbeat
  BY <1>7 DEF WithholdHeartbeat, BridgeTypeOK, Steps
<1>8. CASE WriteHeartbeat
  BY <1>8, NextBeatType DEF WriteHeartbeat, BridgeTypeOK, Steps
<1>9. CASE Sleep
  BY <1>9 DEF Sleep, BridgeTypeOK, Steps
<1>10. CASE \E key \in InputKeys, value \in BOOLEAN : Sample(key, value)
  <2>1. PICK key \in InputKeys, value \in BOOLEAN : Sample(key, value)
    BY <1>10
  <2>2. slots' \in [InputKeys -> BOOLEAN \cup {Unset}]
    BY <2>1 DEF Sample, BridgeTypeOK
  <2>3. age' \in [StaleAsserts -> 0 .. WINDOW + 1]
    BY <2>1, SMTT(40) DEF Sample, BridgeTypeOK
  <2>4. past' \in [mine : SUBSET InputKeys, blind : BOOLEAN, early : BOOLEAN,
                   quiet : SUBSET StaleAsserts]
    BY <2>1 DEF Sample, BridgeTypeOK
  <2>5. QED
    BY <2>1, <2>2, <2>3, <2>4 DEF Sample, BridgeTypeOK
<1>11. CASE SamplesAge
  BY <1>11, SMTT(40) DEF SamplesAge, BridgeTypeOK
<1>12. CASE RestartServer
  <2>1. past' \in [mine : SUBSET InputKeys, blind : BOOLEAN, early : BOOLEAN,
                   quiet : SUBSET StaleAsserts]
    BY <1>12 DEF RestartServer, BridgeTypeOK
  <2>2. server' \in [image : [InputKeys -> BOOLEAN], beat : 0 .. HEARTBEATS - 1]
    BY <1>12, Zeros DEF RestartServer
  <2>3. mishaps' \in 0 .. Mishaps
    BY <1>12 DEF RestartServer, Mishap, BridgeTypeOK
  <2>4. QED
    BY <1>12, <2>1, <2>2, <2>3, ZenonT(60) DEF RestartServer, BridgeTypeOK
<1>13. CASE KeepaliveFails
  BY <1>13 DEF KeepaliveFails, Mishap, BridgeTypeOK
<1>14. CASE SessionBreaks
  <2>1. /\ step' \in Steps /\ todo' \in Seq(InputKeys)
        /\ session' = [session EXCEPT !.beat = Unset]
        /\ mishaps' \in 0 .. Mishaps /\ UNCHANGED <<slots, age, broken>>
    BY <1>14 DEF SessionBreaks, Disconnect, Mishap, BridgeTypeOK, Steps
  <2>2. /\ server' \in [image : [InputKeys -> BOOLEAN], beat : 0 .. HEARTBEATS - 1]
        /\ past' \in [mine : SUBSET InputKeys, blind : BOOLEAN, early : BOOLEAN,
                      quiet : SUBSET StaleAsserts]
        /\ heartbeat' \in 0 .. HEARTBEATS - 1
    <3>1. CASE UNCHANGED <<server, heartbeat, past>>
      BY <3>1 DEF BridgeTypeOK
    <3>2. CASE /\ todo # << >> /\ ToWrite(Head(todo)) /\ WriteLands(Head(todo))
               /\ UNCHANGED heartbeat
      <4>1. Head(todo) \in InputKeys
        BY <3>2, HeadAndTail DEF BridgeTypeOK
      <4>2. ValueForWrite(Head(todo)) \in BOOLEAN
        BY <3>2, <4>1, WhatIsWritten DEF ToWrite
      <4>3. QED
        BY <3>2, <4>1, <4>2 DEF WriteLands, BridgeTypeOK
    <3>3. CASE /\ heartbeat' = NextBeat /\ UNCHANGED past
               /\ server' \in {server, [server EXCEPT !.beat = NextBeat]}
      BY <3>3, NextBeatType DEF BridgeTypeOK
    <3>4. QED
      BY <1>14, <3>1, <3>2, <3>3 DEF SessionBreaks
  <2>3. QED
    BY <2>1, <2>2 DEF BridgeTypeOK
<1>15. CASE Kill
  <2>1. past' \in [mine : SUBSET InputKeys, blind : BOOLEAN, early : BOOLEAN,
                   quiet : SUBSET StaleAsserts]
    BY <1>15 DEF Kill, Invalidate, BridgeTypeOK
  <2>2. mishaps' \in 0 .. Mishaps
    BY <1>15 DEF Kill, Mishap, BridgeTypeOK
  <2>3. QED
    BY <1>15, <2>1, <2>2, Emptied, Zeros DEF Kill, Invalidate, BridgeTypeOK, Steps
<1>16. CASE UNCHANGED bridgeVars
  BY <1>16 DEF bridgeVars, BridgeTypeOK
<1>17. QED
  BY <1>1, <1>2, <1>3, <1>4, <1>5, <1>6, <1>7, <1>8, <1>9, <1>10, <1>11, <1>12, <1>13, <1>14,
     <1>15, <1>16 DEF BridgeNext, Cycle

\* The bridge's state keeps its type.
THEOREM BridgeTypeCorrect == BridgeSpec => []BridgeTypeOK
<1>1. QED
  BY ImageTypeInit, ImageTypeStep, PTL DEF BridgeSpec

-----------------------------------------------------------------------------
(* The invariant is one. *)

LEMMA InvInit == BridgeInit => BridgeInv
<1> SUFFICES ASSUME BridgeInit PROVE BridgeInv
  OBVIOUS
<1>1. step = "down" /\ past.quiet = {}
  BY DEF BridgeInit
<1>2. QED
  BY <1>1, ImageTypeInit DEF BridgeInv, CacheInSync, AssertedStays, QuietIsSilent, QuietReadsTrue

\* The cache and the server: of the steps inside a session only a write and a
\* restart of the server touch either.
LEMMA SyncStep == BridgeInv /\ [BridgeNext]_bridgeVars => CacheInSync'
<1> SUFFICES ASSUME BridgeInv, [BridgeNext]_bridgeVars PROVE CacheInSync'
  OBVIOUS
<1> USE Inputs DEF BridgeInv
<1>1. CASE Connect
  <2>1. session'.written = {}
    BY <1>1 DEF Connect, Invalidate, EmptyCache
  <2>2. QED
    BY <2>1 DEF CacheInSync, InSync
<1>2. CASE step' = "down"
  BY <1>2 DEF CacheInSync
<1>3. CASE VerifyOwnHeartbeat
  <2>1. CASE Reverted
    <3>1. session'.written = {}
      BY <1>3, <2>1 DEF VerifyOwnHeartbeat, EmptyCache
    <3>2. QED
      BY <3>1 DEF CacheInSync, InSync
  <2>2. CASE ~Reverted
    <3>1. UNCHANGED <<session, server>> /\ past'.mine = past.mine
          /\ past'.blind = past.blind /\ past'.early = past.early /\ step = "verify"
      BY <1>3, <2>2 DEF VerifyOwnHeartbeat, BridgeTypeOK
    <3>2. QED
      BY <2>2, <3>1 DEF CacheInSync, InSync, Noticeable
  <2>3. QED
    BY <2>1, <2>2
<1>4. CASE /\ UNCHANGED <<server, session>> /\ past'.mine = past.mine
           /\ past'.blind = past.blind /\ past'.early = past.early
           /\ step = "down" => step' = "down"
           /\ step \in {"verify", "sleep"} => step' \in {"verify", "sleep"}
  BY <1>4 DEF CacheInSync, InSync, Noticeable, Reverted
<1>5. CASE TakeInput /\ ToWrite(Head(todo))
  <2> DEFINE key == Head(todo)
             value == ValueForWrite(key)
  <2>1. key \in InputKeys /\ step = "inputs" /\ step' = "inputs"
    BY <1>5, HeadAndTail DEF TakeInput, BridgeTypeOK
  <2>2. /\ session' = [session EXCEPT !.written = @ \cup {key},
              !.last = [k \in OnChange |-> IF k = key THEN ValueForWrite(k) ELSE @[k]]]
        /\ server' = [server EXCEPT !.image[key] = value]
        /\ past' = [past EXCEPT !.mine = @ \cup {key}]
    BY <1>5 DEF TakeInput, WriteLands
  <2> HIDE DEF key
  <2>3. /\ session'.written = session.written \cup {key}
        /\ past'.mine = past.mine \cup {key}
        /\ past'.blind = past.blind /\ past'.early = past.early
    BY <2>2 DEF BridgeTypeOK
  <2>4. \A k \in OnChange : session'.last[k] = IF k = key THEN value ELSE session.last[k]
    BY <2>2 DEF BridgeTypeOK
  <2>5. \A k \in InputKeys : server'.image[k] = IF k = key THEN value ELSE server.image[k]
    BY <2>1, <2>2 DEF BridgeTypeOK
  <2> HIDE DEF value
  <2>6. ~past.blind /\ ~past.early => InSync
    BY <2>1 DEF CacheInSync, Noticeable
  <2>7. QED
    BY <2>3, <2>4, <2>5, <2>6 DEF CacheInSync, InSync
<1>6. CASE WriteHeartbeat
  <2>1. /\ session'.written = session.written /\ session'.last = session.last
        /\ server'.image = server.image /\ UNCHANGED past /\ step = "heartbeat"
    BY <1>6 DEF WriteHeartbeat, BridgeTypeOK
  <2>2. QED
    BY <2>1 DEF CacheInSync, InSync, Noticeable
<1>7. CASE RestartServer
  <2>1. CASE session.written = {}
    BY <1>7, <2>1 DEF RestartServer, CacheInSync, InSync
  <2>2. CASE session.written # {}
    <3>1. /\ past'.blind = (past.blind \/ step \in {"outputs", "inputs", "heartbeat"}
                               \/ session.beat = 0)
          /\ past'.early = (past.early \/ (step \notin {"outputs", "inputs", "heartbeat"}
                               /\ session.beat = Unset))
          /\ UNCHANGED <<step, session>> /\ server'.beat = 0
      BY <1>7, <2>2 DEF RestartServer, BridgeTypeOK
    <3>2. ~past'.blind /\ ~past'.early /\ step' # "down" => Noticeable'
      BY <3>1 DEF Noticeable, Reverted, BridgeTypeOK, Steps
    <3>3. QED
      BY <3>2 DEF CacheInSync
  <2>3. QED
    BY <2>1, <2>2
<1>8. QED
  <2>1. CASE Cycle
    <3>1. TakeInput /\ ~ToWrite(Head(todo)) => UNCHANGED <<server, session, past, step>>
      BY DEF TakeInput
    <3>2. KeepaliveSeen => step' = "down"
      BY DEF KeepaliveSeen, Disconnect
    <3>3. OutputPath \/ InputsDone \/ WithholdHeartbeat \/ Sleep =>
            /\ UNCHANGED <<server, session, past>>
            /\ step \in {"outputs", "inputs", "heartbeat", "sleep"}
            /\ step = "sleep" => step' = "verify"
      BY DEF OutputPath, InputsDone, WithholdHeartbeat, Sleep
    <3>4. QED
      BY <1>1, <1>2, <1>3, <1>4, <1>5, <1>6, <2>1, <3>1, <3>2, <3>3 DEF Cycle
  <2>2. CASE \E key \in InputKeys, value \in BOOLEAN : Sample(key, value)
    <3>1. UNCHANGED <<server, session, step>> /\ past'.mine = past.mine
          /\ past'.blind = past.blind /\ past'.early = past.early
      BY <2>2 DEF Sample, BridgeTypeOK
    <3>2. QED
      BY <1>4, <3>1
  <2>3. CASE SamplesAge \/ KeepaliveFails \/ UNCHANGED bridgeVars
    BY <1>4, <2>3 DEF SamplesAge, KeepaliveFails, bridgeVars
  <2>4. CASE SessionBreaks \/ Kill
    BY <1>2, <2>4 DEF SessionBreaks, Disconnect, Kill
  <2>5. QED
    BY <1>7, <2>1, <2>2, <2>3, <2>4 DEF BridgeNext

\* The input path, seen from one key: its turn writes it, or leaves it.
LEMMA OneTurn ==
    ASSUME BridgeTypeOK, TakeInput, NEW k \in OnChange
    PROVE  /\ UNCHANGED <<slots, age, step>> /\ past'.quiet = past.quiet
           /\ step = "inputs" /\ todo # << >> /\ todo' = Tail(todo)
           /\ \/ /\ k = Head(todo) /\ ToWrite(k) /\ k \in session'.written
                 /\ session'.last[k] = ValueForWrite(k) /\ server'.image[k] = ValueForWrite(k)
              \/ /\ k = Head(todo) => ~ToWrite(k)
                 /\ k \in session'.written <=> k \in session.written
                 /\ session'.last[k] = session.last[k] /\ server'.image[k] = server.image[k]
<1> USE Inputs
<1>1. Head(todo) \in InputKeys
  BY HeadAndTail, SMTT(40) DEF TakeInput, BridgeTypeOK
<1>2. CASE ToWrite(Head(todo))
  <2> DEFINE key == Head(todo)
             value == ValueForWrite(key)
  <2>1. /\ session' = [session EXCEPT !.written = @ \cup {key},
              !.last = [j \in OnChange |-> IF j = key THEN ValueForWrite(j) ELSE @[j]]]
        /\ server' = [server EXCEPT !.image[key] = value]
        /\ past' = [past EXCEPT !.mine = @ \cup {key}]
    BY <1>2 DEF TakeInput, WriteLands
  <2> HIDE DEF key
  <2>2. /\ session'.written = session.written \cup {key}
        /\ session'.last[k] = IF k = key THEN value ELSE session.last[k]
        /\ past'.quiet = past.quiet
    BY <2>1 DEF BridgeTypeOK
  <2>3. server'.image[k] = IF k = key THEN value ELSE server.image[k]
    BY <1>1, <2>1 DEF BridgeTypeOK
  <2>4. QED
    BY <1>2, <2>2, <2>3 DEF TakeInput, key
<1>3. CASE ~ToWrite(Head(todo))
  BY <1>3 DEF TakeInput
<1>4. QED
  BY <1>2, <1>3

\* A silent key that is not written is in the cache as TRUE.
LEMMA NotWrittenIsCached ==
    ASSUME BridgeTypeOK, NEW k \in StaleAsserts, Silent(k), slots[k] # Unset, ~ToWrite(k)
    PROVE  k \in session.written /\ session.last[k] = TRUE
BY Inputs, WhatIsWritten DEF ToWrite

LEMMA AssertedStep == BridgeInv /\ [BridgeNext]_bridgeVars => AssertedStays'
<1> SUFFICES ASSUME BridgeInv, [BridgeNext]_bridgeVars, step' # "down",
                    NEW k \in StaleAsserts, k \in session'.written, session'.last[k] = TRUE
             PROVE  server'.image[k] = TRUE
  BY DEF AssertedStays
<1> USE Inputs DEF BridgeInv
<1>1. CASE Connect
  BY <1>1 DEF Connect, Invalidate, EmptyCache
<1>2. CASE VerifyOwnHeartbeat
  BY <1>2 DEF VerifyOwnHeartbeat, EmptyCache, AssertedStays
<1>3. CASE step # "down" /\ UNCHANGED <<server, session>>
  BY <1>3 DEF AssertedStays
<1>4. CASE TakeInput
  BY <1>4, OneTurn DEF AssertedStays
<1>5. CASE WriteHeartbeat
  <2>1. /\ session'.written = session.written /\ session'.last = session.last
        /\ server'.image = server.image /\ step = "heartbeat"
    BY <1>5 DEF WriteHeartbeat, BridgeTypeOK
  <2>2. QED
    BY <2>1 DEF AssertedStays
<1>6. CASE RestartServer
  BY <1>6 DEF RestartServer
<1>7. QED
  <2>1. OutputPath \/ InputsDone \/ WithholdHeartbeat \/ Sleep \/ KeepaliveFails =>
            step # "down" /\ UNCHANGED <<server, session>>
    BY DEF OutputPath, InputsDone, WithholdHeartbeat, Sleep, KeepaliveFails
  <2>2. ~KeepaliveSeen /\ ~SessionBreaks /\ ~Kill
    BY DEF KeepaliveSeen, SessionBreaks, Disconnect, Kill
  <2>3. (\E key \in InputKeys, value \in BOOLEAN : Sample(key, value)) \/ SamplesAge
            \/ UNCHANGED bridgeVars
        => UNCHANGED <<server, session, step>>
    BY DEF Sample, SamplesAge, bridgeVars
  <2>4. QED
    BY <1>1, <1>2, <1>3, <1>4, <1>5, <1>6, <2>1, <2>2, <2>3 DEF BridgeNext, Cycle

\* A quiet key is one of the rule, and stays silent or loses its sample with the
\* process.
LEMMA QuietStep == BridgeInv /\ [BridgeNext]_bridgeVars => QuietIsSilent'
<1> SUFFICES ASSUME BridgeInv, [BridgeNext]_bridgeVars, NEW k \in past'.quiet
             PROVE  Silent(k)' \/ slots'[k] = Unset
  BY DEF QuietIsSilent
<1> USE Inputs DEF BridgeInv
<1>1. CASE past'.quiet = past.quiet /\ UNCHANGED <<slots, age>>
  BY <1>1 DEF QuietIsSilent, Silent
<1>2. CASE VerifyOwnHeartbeat
  BY <1>2 DEF VerifyOwnHeartbeat, BridgeTypeOK, Silent
<1>3. CASE \E key \in InputKeys, value \in BOOLEAN : Sample(key, value)
  <2>1. PICK key \in InputKeys, value \in BOOLEAN : Sample(key, value)
    BY <1>3
  <2>2. past'.quiet = past.quiet \ {key}
    BY <2>1 DEF Sample, BridgeTypeOK
  <2>3. k \in StaleAsserts /\ k # key /\ k \in past.quiet
    BY <2>2 DEF BridgeTypeOK
  <2>4. slots'[k] = slots[k] /\ age'[k] = age[k]
    BY <2>1, <2>3 DEF Sample, BridgeTypeOK
  <2>5. QED
    BY <2>3, <2>4 DEF QuietIsSilent, Silent
<1>4. CASE SamplesAge
  <2>1. k \in StaleAsserts /\ k \in past.quiet /\ UNCHANGED slots
    BY <1>4 DEF SamplesAge, BridgeTypeOK
  <2>2. age[k] \in 0 .. WINDOW + 1 /\ age'[k] = IF age[k] <= WINDOW THEN age[k] + 1 ELSE age[k]
    BY <1>4, <2>1 DEF SamplesAge, BridgeTypeOK
  <2>3. QED
    BY <2>1, <2>2 DEF QuietIsSilent, Silent
<1>5. CASE Kill
  <2>1. k \in InputKeys
    BY <1>5 DEF Kill, Invalidate, BridgeTypeOK
  <2>2. QED
    BY <1>5, <2>1 DEF Kill
<1>6. CASE Connect \/ RestartServer \/ TakeInput \/ SessionBreaks
  BY <1>1, <1>6 DEF Connect, Invalidate, RestartServer, TakeInput, SessionBreaks, WriteLands,
                    BridgeTypeOK
<1>7. QED
  <2>1. KeepaliveSeen \/ OutputPath \/ InputsDone \/ WithholdHeartbeat \/ WriteHeartbeat \/ Sleep
            \/ KeepaliveFails \/ UNCHANGED bridgeVars => UNCHANGED <<slots, age, past>>
    BY DEF KeepaliveSeen, OutputPath, InputsDone, WithholdHeartbeat, WriteHeartbeat, Sleep,
           KeepaliveFails, bridgeVars
  <2>2. QED
    BY <1>1, <1>2, <1>3, <1>4, <1>5, <1>6, <2>1 DEF BridgeNext, Cycle

LEMMA ReadsTrueStep == BridgeInv /\ [BridgeNext]_bridgeVars => QuietReadsTrue'
<1> SUFFICES ASSUME BridgeInv, [BridgeNext]_bridgeVars,
                    step' \in {"inputs", "heartbeat", "sleep"},
                    NEW k \in past'.quiet, slots'[k] # Unset
             PROVE  StillToCome(k)' \/ server'.image[k] = TRUE
  BY DEF QuietReadsTrue
<1> USE Inputs DEF BridgeInv
<1>0. step' # "down" /\ step' # "verify" /\ step' # "outputs"
  OBVIOUS
<1>1. CASE OutputPath
  <2>1. k \in InputKeys /\ step' = "inputs" /\ todo' = Order
    BY <1>1 DEF OutputPath, BridgeTypeOK
  <2>2. QED
    BY <2>1 DEF StillToCome
<1>2. CASE TakeInput
  <2>1. past'.quiet = past.quiet
    BY <1>2 DEF TakeInput, WriteLands, BridgeTypeOK
  <2>2. k \in past.quiet /\ k \in StaleAsserts /\ k \in OnChange /\ slots[k] # Unset
    BY <1>2, <2>1 DEF TakeInput, BridgeTypeOK
  <2>3. Silent(k) /\ ValueForWrite(k) = TRUE
    BY <2>2, WhatIsWritten DEF QuietIsSilent
  <2>4. step = "inputs" /\ todo # << >> /\ todo \in Seq(InputKeys) /\ todo' = Tail(todo)
        /\ step' = "inputs"
    BY <1>2 DEF TakeInput, BridgeTypeOK
  <2>5. CASE k = Head(todo)
    <3>1. CASE ToWrite(k)
      BY <1>2, <2>2, <2>3, <2>5, <3>1, OneTurn
    <3>2. CASE ~ToWrite(k)
      <4>1. server.image[k] = TRUE
        BY <2>2, <2>3, <2>4, <3>2, NotWrittenIsCached DEF AssertedStays
      <4>2. QED
        BY <1>2, <2>2, <3>2, <4>1, OneTurn
    <3>3. QED
      BY <3>1, <3>2
  <2>6. CASE k # Head(todo)
    <3>1. server'.image[k] = server.image[k]
      BY <1>2, <2>2, <2>6, OneTurn
    <3>2. StillToCome(k) => StillToCome(k)'
      <4>1. (\E i \in 1 .. Len(todo) : todo[i] = k) =>
                \E i \in 1 .. Len(Tail(todo)) : Tail(todo)[i] = k
        BY ONLY <2>4, <2>6, HeadAndTail, Zenon
      <4>2. QED
        BY <2>4, <4>1 DEF StillToCome
    <3>3. QED
      BY <2>2, <2>4, <3>1, <3>2 DEF QuietReadsTrue
  <2>7. QED
    BY <2>5, <2>6
<1>3. CASE InputsDone
  BY <1>3 DEF InputsDone, QuietReadsTrue, StillToCome
<1>4. CASE WithholdHeartbeat \/ WriteHeartbeat
  <2>1. UNCHANGED <<slots, past>> /\ server'.image = server.image /\ step = "heartbeat"
    BY <1>4 DEF WithholdHeartbeat, WriteHeartbeat, BridgeTypeOK
  <2>2. QED
    BY <2>1 DEF QuietReadsTrue, StillToCome
<1>5. CASE \E key \in InputKeys, value \in BOOLEAN : Sample(key, value)
  <2>1. PICK key \in InputKeys, value \in BOOLEAN : Sample(key, value)
    BY <1>5
  <2>2. past'.quiet = past.quiet \ {key}
    BY <2>1 DEF Sample, BridgeTypeOK
  <2>3. k \in past.quiet /\ k # key /\ k \in InputKeys /\ UNCHANGED <<server, step, todo>>
    BY <2>1, <2>2 DEF Sample, BridgeTypeOK
  <2>4. slots'[k] = slots[k]
    BY <2>1, <2>3 DEF Sample, BridgeTypeOK
  <2>5. QED
    BY <2>3, <2>4 DEF QuietReadsTrue, StillToCome
<1>6. CASE RestartServer
  <2>1. k \in StaleAsserts
    BY <1>6 DEF RestartServer, BridgeTypeOK
  <2>2. QED
    BY <1>6, <2>1 DEF RestartServer
<1>7. CASE SamplesAge \/ KeepaliveFails \/ UNCHANGED bridgeVars
  BY <1>7 DEF SamplesAge, KeepaliveFails, bridgeVars, QuietReadsTrue, StillToCome
<1>8. QED
  <2>1. ~Connect /\ ~KeepaliveSeen /\ ~VerifyOwnHeartbeat /\ ~Sleep /\ ~SessionBreaks /\ ~Kill
    BY <1>0 DEF Connect, KeepaliveSeen, VerifyOwnHeartbeat, Sleep, SessionBreaks, Disconnect, Kill
  <2>2. QED
    BY <1>1, <1>2, <1>3, <1>4, <1>5, <1>6, <1>7, <2>1 DEF BridgeNext, Cycle

LEMMA InvStep == BridgeInv /\ [BridgeNext]_bridgeVars => BridgeInv'
BY ImageTypeStep, SyncStep, AssertedStep, QuietStep, ReadsTrueStep DEF BridgeInv

LEMMA Invariance == BridgeSpec => []BridgeInv
<1>1. QED
  BY InvInit, InvStep, PTL DEF BridgeSpec

-----------------------------------------------------------------------------
(* What follows from it. *)

\* W1: a key of the silence rule that was past its window when the cycle began
\* reads TRUE when the cycle ends (_value_for_write), whatever was restarted.
THEOREM SilenceIsAsserted == BridgeSpec => []SilenceAsserted
<1>1. BridgeInv => SilenceAsserted
  BY DEF BridgeInv, QuietReadsTrue, StillToCome, SilenceAsserted
<1>2. QED
  BY <1>1, Invariance, PTL

\* R3: a heartbeat is written only over an image this session wrote whole and
\* the cache speaks the truth of (_heartbeat_path), but for the restarts that
\* nothing shows.
THEOREM HeartbeatVouchesForImage == BridgeSpec => HeartbeatVouches
<1>1. ASSUME BridgeInv, WriteHeartbeat, ~past.blind, ~past.early
      PROVE  /\ past.mine = InputKeys
             /\ \A key \in OnChange : server.image[key] = session.last[key]
  <2>1. InSync /\ session.written = InputKeys
    BY <1>1 DEF BridgeInv, CacheInSync, Noticeable, WriteHeartbeat, Missing, BridgeTypeOK
  <2>2. QED
    BY <1>1, <2>1 DEF BridgeInv, InSync, InputKeys, BridgeTypeOK
<1>2. BridgeInv => [WriteHeartbeat /\ ~past.blind /\ ~past.early =>
                        /\ past.mine = InputKeys
                        /\ \A key \in OnChange :
                                server.image[key] = session.last[key]]_bridgeVars
  BY <1>1
<1>3. QED
  BY <1>2, Invariance, PTL DEF HeartbeatVouches

-----------------------------------------------------------------------------
(* Both parts in one state space. *)

\* Agent and nav, and the bridge's image, keep their types when they share a
\* state space and take turns that do not touch each other (MCLinks).
THEOREM LinksTypeCorrect == LinksSpec => []LinksTypeOK
<1>1. LinksInit => TypeInv /\ BridgeTypeOK
  BY TypeInit, ImageTypeInit DEF LinksInit
<1>2. TypeInv /\ BridgeTypeOK /\ [LinksNext]_<<part, vehicleVars, bridgeVars>> =>
          (TypeInv /\ BridgeTypeOK)'
  <2> SUFFICES ASSUME TypeInv, BridgeTypeOK, [LinksNext]_<<part, vehicleVars, bridgeVars>>
               PROVE  [VehicleNext]_vehicleVars /\ [BridgeNext]_bridgeVars
    BY TypeStep, ImageTypeStep
  <2>1. QED
    BY DEF LinksNext
<1>3. QED
  BY <1>1, <1>2, AgentTypes, PTL DEF LinksSpec, LinksTypeOK
=============================================================================
