------------------------------- MODULE Ledger -------------------------------
(***************************************************************************)
(* The floor's reservation ledger of src/m6/fleet/traffic.py, as a record  *)
(* and one operator per method.  The ledger is pure in the source (no      *)
(* clock, no wire), so a call is a function from a ledger to a ledger; the *)
(* modules that hold a ledger (Reservations, Floor) compose the calls in   *)
(* the order the code makes them.                                          *)
(*                                                                         *)
(*   owner     element -> who owns it, or None        (_owner)             *)
(*   held      vehicle -> its elements in travel order (_held)             *)
(*   waiting   vehicle -> the element it waits for    (_waiting)           *)
(*   standing  vehicle -> the node under the truck    (_standing)          *)
(*   yielded   the vehicles wait-die took floor from  (_yielded)           *)
(***************************************************************************)
EXTENDS Integers, Sequences, FiniteSets, Functions, FiniteSetsExt

CONSTANTS
    Vehicles,   \* every name the ledger knows: the trucks and the pins
    Nodes,      \* the nodes of the route graph
    Links,      \* the edges of the route graph, each a set of its two ends
    Serial,     \* the sort order of the names: an injection into Nat
    None        \* Python's None

ASSUME FloorAssumption ==
    /\ IsFiniteSet(Vehicles)
    /\ Links \subseteq {{a, b} : a, b \in Nodes}
    /\ Nodes \cap Links = {}
    /\ None \notin Vehicles \cup Nodes \cup Links
    /\ Serial \in [Vehicles -> Nat]
    /\ \A u, v \in Vehicles : Serial[u] = Serial[v] => u = v

Elements == Nodes \cup Links

\* edge(a, b): the floor between two nodes, the same whichever way it is driven.
Edge(a, b) == {a, b}

\* route_elements: node, edge, node, edge, ..., node in travel order.
RouteElements(points) ==
    [i \in 1 .. (2 * Len(points) - 1) |->
        IF i % 2 = 1 THEN points[(i + 1) \div 2]
                     ELSE Edge(points[i \div 2], points[i \div 2 + 1])]

LedgerType ==
    [owner    : [Elements -> Vehicles \cup {None}],
     held     : [Vehicles -> Seq(Elements)],
     waiting  : [Vehicles -> Elements \cup {None}],
     standing : [Vehicles -> Nodes \cup {None}],
     yielded  : SUBSET Vehicles]

EmptyLedger ==
    [owner    |-> [e \in Elements |-> None],
     held     |-> [v \in Vehicles |-> << >>],
     waiting  |-> [v \in Vehicles |-> None],
     standing |-> [v \in Vehicles |-> None],
     yielded  |-> {}]

OwnedBy(l, v) == {e \in Elements : l.owner[e] = v}

\* The two indexes of a ledger agree: a vehicle's list names exactly what the
\* vehicle owns, each element once.
Consistent(l) ==
    \A v \in Vehicles :
        /\ Range(l.held[v]) = OwnedBy(l, v)
        /\ IsInjective(l.held[v])

-----------------------------------------------------------------------------
(***************************************************************************)
(* hold(vehicle, elements): grant the longest prefix that is free or       *)
(* already this vehicle's and that ends on a node, and remember the first  *)
(* element somebody else owns.                                             *)
(***************************************************************************)
\* Mutant: floor of a vehicle that yielded counts as free.
FreeForIgnoresYielded(l, v, e) == l.owner[e] \in {None, v} \cup l.yielded

FreeFor(l, v, e) == l.owner[e] \in {None, v}

GrantLen(l, v, request) ==
    Max({n \in 0 .. Len(request) :
            /\ \A i \in 1 .. n : FreeFor(l, v, request[i])
            /\ n > 0 => request[n] \in Nodes})

Grant(l, v, request) == SubSeq(request, 1, GrantLen(l, v, request))

Blocker(l, v, request) ==
    LET taken == {i \in DOMAIN request : ~FreeFor(l, v, request[i])}
    IN  IF taken = {} THEN None ELSE request[Min(taken)]

\* What is left of a sequence, in order, without the members of S:
\* [e for e in held if e not in taken].
Without(s, S) ==
    LET keep    == {i \in DOMAIN s : s[i] \notin S}
        rank(i) == Cardinality({j \in keep : j <= i})
    IN  [n \in 1 .. Cardinality(keep) |->
            s[CHOOSE i \in keep : rank(i) = n]]

\* Mutant: what the vehicle already owned stays where it is in its list.
HoldUnseated(l, v, request) ==
    LET prefix == Grant(l, v, request)
    IN  [l EXCEPT
            !.waiting[v] = Blocker(l, v, request),
            !.owner = [e \in Elements |-> IF e \in Range(prefix) THEN v ELSE l.owner[e]],
            !.held[v] = @ \o Without(prefix, OwnedBy(l, v))]

Hold(l, v, request) ==
    LET prefix == Grant(l, v, request)
    IN  [l EXCEPT
            !.waiting[v] = Blocker(l, v, request),
            !.owner = [e \in Elements |-> IF e \in Range(prefix) THEN v ELSE l.owner[e]],
            !.held[v] = Without(@, Range(prefix)) \o prefix]

-----------------------------------------------------------------------------
\* The elements of S that v owns go back to nobody.
Freed(l, v, S) ==
    [e \in Elements |-> IF e \in S /\ l.owner[e] = v THEN None ELSE l.owner[e]]

\* Mutant: the node the truck reached is freed with what lies behind it.
ReleaseThroughNode(l, v, node) ==
    LET at == {i \in DOMAIN l.held[v] : l.held[v][i] = node}
    IN  IF at = {} THEN l
        ELSE LET cut == Min(at)
             IN  [l EXCEPT
                    !.owner = Freed(l, v, Range(SubSeq(l.held[v], 1, cut))),
                    !.held[v] = SubSeq(@, cut, Len(@))]

\* release_through(vehicle, node): everything up to the edge that arrives at
\* the node goes back; the node and what lies ahead of it stay.
ReleaseThrough(l, v, node) ==
    LET at == {i \in DOMAIN l.held[v] : l.held[v][i] = node}
    IN  IF at = {} THEN l
        ELSE LET cut == Min(at)
             IN  [l EXCEPT
                    !.owner = Freed(l, v, Range(SubSeq(l.held[v], 1, cut - 1))),
                    !.held[v] = SubSeq(@, cut, Len(@))]

\* Mutant: the wait is remembered.
ReleaseAllWaitsOn(l, v, keep) ==
    LET owner   == Freed(l, v, Range(l.held[v]))
        retaken == keep # None /\ owner[keep] = None
    IN  [l EXCEPT
            !.owner = IF retaken THEN [owner EXCEPT ![keep] = v] ELSE owner,
            !.held[v] = IF retaken THEN <<keep>> ELSE << >>]

\* release_all(vehicle, keep): everything goes back, the wait is forgotten,
\* and the node to keep is taken again when nobody owns it.
ReleaseAll(l, v, keep) ==
    LET owner   == Freed(l, v, Range(l.held[v]))
        retaken == keep # None /\ owner[keep] = None
    IN  [l EXCEPT
            !.owner = IF retaken THEN [owner EXCEPT ![keep] = v] ELSE owner,
            !.held[v] = IF retaken THEN <<keep>> ELSE << >>,
            !.waiting[v] = None]

SetStanding(l, v, node) == [l EXCEPT !.standing[v] = node]
ClearYield(l, v)        == [l EXCEPT !.yielded = @ \ {v}]
ClearWait(l, v)         == [l EXCEPT !.waiting[v] = None]

-----------------------------------------------------------------------------
(***************************************************************************)
(* The wait-for graph and wait-die.                                        *)
(***************************************************************************)
WaitFor(l) ==
    LET blocked == {v \in Vehicles : /\ l.waiting[v] # None
                                     /\ l.owner[l.waiting[v]] \notin {None, v}}
    IN  [v \in blocked |-> l.owner[l.waiting[v]]]

\* Where the walk along the wait-for edges from v is after i steps.
Walk(l, v) ==
    LET graph == WaitFor(l)
        next(u) == IF u \in DOMAIN graph THEN graph[u] ELSE u
        at[i \in 0 .. Cardinality(Vehicles)] == IF i = 0 THEN v ELSE next(at[i - 1])
    IN  at

OnCycle(l, v) ==
    /\ v \in DOMAIN WaitFor(l)
    /\ \E i \in 1 .. Cardinality(Vehicles) : Walk(l, v)[i] = v

\* Mutant: the tail of vehicles that leads into the cycle is returned with it.
FindCycleWithTail(l) ==
    LET met(v) == {u \in Range(Walk(l, v)) : OnCycle(l, u)}
        starts == {v \in DOMAIN WaitFor(l) : met(v) # {}}
    IN  IF starts = {} THEN {}
        ELSE Range(Walk(l, CHOOSE v \in starts : \A u \in starts : Serial[v] <= Serial[u]))

\* find_cycle: the members of the cycle that the first name in sort order
\* leads to, or nothing.
FindCycle(l) ==
    LET met(v) == {u \in Range(Walk(l, v)) : OnCycle(l, u)}
        starts == {v \in DOMAIN WaitFor(l) : met(v) # {}}
    IN  IF starts = {} THEN {}
        ELSE met(CHOOSE v \in starts : \A u \in starts : Serial[v] <= Serial[u])

\* Mutant: the earliest submit time instead of the latest.
LatestIsEarliest(ages, cycle) ==
    LET taskless == cycle \ DOMAIN ages
    IN  IF taskless # {} THEN taskless
        ELSE {u \in cycle : \A v \in cycle : ages[u] <= ages[v]}

\* The members of a cycle with the latest submit time; no task at all is the
\* latest time there is.  ages: vehicle -> submit time.
Latest(ages, cycle) ==
    LET taskless == cycle \ DOMAIN ages
    IN  IF taskless # {} THEN taskless
        ELSE {u \in cycle : \A v \in cycle : ages[v] <= ages[u]}

\* The sort order of the names settles a tie.
Youngest(ages, cycle) ==
    CHOOSE u \in Latest(ages, cycle) :
        \A v \in Latest(ages, cycle) : Serial[v] <= Serial[u]

\* Mutant: the loser keeps no ground.
YieldAll(l, loser) ==
    [ReleaseAll(l, loser, None) EXCEPT !.yielded = @ \cup {loser}]

\* The floor wait-die takes from the loser: all of it but the ground under it.
Yield(l, loser) ==
    [ReleaseAll(l, loser, l.standing[loser]) EXCEPT !.yielded = @ \cup {loser}]

\* resolve_deadlock(ages), where there is a cycle.
ResolveDeadlock(l, ages) == Yield(l, Youngest(ages, FindCycle(l)))
=============================================================================
