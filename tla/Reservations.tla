---------------------------- MODULE Reservations ----------------------------
(***************************************************************************)
(* The class Reservations of src/m6/fleet/traffic.py as a component: its   *)
(* methods called in any order by anybody, which is more than the floor's  *)
(* traffic loop ever does.  A request is the element list of a simple path *)
(* of the route graph, as every caller in floor.py builds it.              *)
(***************************************************************************)
EXTENDS Ledger

CONSTANTS
    Submitted,  \* vehicle -> submit time of its task, for those that have one
    MaxPath     \* bound: the longest path a request names, in nodes

ASSUME RequestAssumption ==
    /\ MaxPath \in Nat
    /\ DOMAIN Submitted \subseteq Vehicles
    /\ \A v \in DOMAIN Submitted : Submitted[v] \in Nat

VARIABLES
    ledger,
    granted     \* vehicle -> what its last hold returned: the base it was sent

vars == <<ledger, granted>>

\* The simple paths of the graph (dijkstra never repeats a node).
Paths ==
    {p \in UNION {[1 .. n -> Nodes] : n \in 1 .. MaxPath} :
        /\ IsInjective(p)
        /\ \A i \in 1 .. Len(p) - 1 : Edge(p[i], p[i + 1]) \in Links}

Requests == {RouteElements(p) : p \in Paths}

Init ==
    /\ ledger = EmptyLedger
    /\ granted = [v \in Vehicles |-> << >>]

CallHold(v, request) ==
    /\ ledger' = Hold(ledger, v, request)
    /\ granted' = [granted EXCEPT ![v] = Grant(ledger, v, request)]

CallReleaseThrough(v, node) ==
    /\ ledger' = ReleaseThrough(ledger, v, node)
    /\ UNCHANGED granted

CallReleaseAll(v, keep) ==
    /\ ledger' = ReleaseAll(ledger, v, keep)
    /\ granted' = [granted EXCEPT ![v] = ledger'.held[v]]

CallResolveDeadlock ==
    /\ FindCycle(ledger) # {}
    /\ ledger' = ResolveDeadlock(ledger, Submitted)
    /\ LET loser == Youngest(Submitted, FindCycle(ledger))
       IN  granted' = [granted EXCEPT ![loser] = ledger'.held[loser]]

CallSetStanding(v, node) ==
    /\ ledger' = SetStanding(ledger, v, node)
    /\ UNCHANGED granted

CallClearYield(v) ==
    /\ ledger' = ClearYield(ledger, v)
    /\ UNCHANGED granted

CallClearWait(v) ==
    /\ ledger' = ClearWait(ledger, v)
    /\ UNCHANGED granted

Next ==
    \/ CallResolveDeadlock
    \/ \E v \in Vehicles :
        \/ \E request \in Requests : CallHold(v, request)
        \/ \E node \in Nodes : CallReleaseThrough(v, node)
        \/ \E keep \in {None, ledger.standing[v]} : CallReleaseAll(v, keep)
        \/ \E node \in Nodes : CallSetStanding(v, node)
        \/ CallClearYield(v)
        \/ CallClearWait(v)

Spec == Init /\ [][Next]_vars

-----------------------------------------------------------------------------
TypeOK ==
    /\ ledger \in LedgerType
    /\ granted \in [Vehicles -> Seq(Elements)]

\* The two indexes of the ledger say the same thing: the list release_through
\* and release_all free from (_held) names exactly what the vehicle owns
\* (_owner), each element once.  A disagreement is floor nobody can ever give
\* back, or floor given back while a truck still counts on it.
IndexesAgree == Consistent(ledger)

\* Rule 2 of traffic.py: release_through frees by position, so whatever a
\* vehicle still owns of its last grant is the tail of its list, in the order
\* it drives it, and nothing of that grant is filed among the floor behind it.
\* Without the re-seat in hold the first state of a leg that leaves a spur
\* frees the junction the truck is about to drive onto (measured 2026-08-22).
GrantStaysAhead ==
    \A v \in Vehicles :
        LET held == ledger.held[v]
        IN  \E k \in 1 .. Len(granted[v]) + 1 :
                LET ahead == SubSeq(granted[v], k, Len(granted[v]))
                    split == Len(held) - Len(ahead)
                IN  /\ split >= 0
                    /\ SubSeq(held, split + 1, Len(held)) = ahead
                    /\ Range(SubSeq(held, 1, split)) \cap Range(granted[v]) = {}

\* Floor is never taken from its owner by somebody else's call: an element
\* passes through nobody before it has a new owner.
NeverTakenOver ==
    [][\A e \in Elements :
        ledger.owner[e] # None => ledger'.owner[e] \in {ledger.owner[e], None}]_vars

\* The ledger implements the abstract claims.
ClaimsOf == INSTANCE Claims WITH
    Claimants <- Vehicles, Floor <- Elements, Nobody <- None, claim <- ledger.owner

ImplementsClaims == ClaimsOf!Spec
=============================================================================
