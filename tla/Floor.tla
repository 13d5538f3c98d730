------------------------------- MODULE Floor --------------------------------
(***************************************************************************)
(* The traffic half of the fleet manager, src/m6/fleet/floor.py, with the  *)
(* task bookkeeping of fleet_manager.py it calls back into: one operator   *)
(* per method, from a manager's book to the book it leaves behind.         *)
(*                                                                         *)
(*   ledger    the reservations (Ledger)                                   *)
(*   queue     the tasks in queue order                                    *)
(*   task      task -> [state, by, order, leg]                             *)
(*             leg is the traffic record of the leg on the floor, or None: *)
(*             [path, released, update, pending, last]                     *)
(*   seen      truck -> what its last state said: [order, node, fin, fit]  *)
(*             order: the one it is executing, node: where it is, fin: the *)
(*             order whose station action it finished, fit: not stood down *)
(*   chase     truck -> the order a cancelOrder is chased for, or None     *)
(*   aside     truck -> its step-aside [node, order, seen], or None        *)
(*   shuffles  truck -> step-asides since it last arrived somewhere        *)
(*   sent      truck -> what this step hands to the broker for it          *)
(*                                                                         *)
(* The standing node floor.py keeps beside the ledger's is the same value  *)
(* whenever traffic is on; the ledger's stands for both.                   *)
(***************************************************************************)
EXTENDS Ledger, SequencesExt

CONSTANTS
    Tasks,      \* the transports
    From, To,   \* task -> station (a node)
    Submit,     \* task -> submit time, an injection
    Route,      \* node -> node -> the planner's path between them
    Metres,     \* node -> node -> how far that is to drive
    Near,       \* pairs of neighbours at most ASIDE_MAX_M apart
    AsideMax,   \* ASIDE_MAX
    Ids         \* order ids (uuids): more than can be in use at a time

\* The simple paths of the route graph, and the record of a leg on one.
Paths ==
    {p \in Seq(Nodes) : p # << >> /\ IsInjective(p)
                         /\ \A i \in 1 .. Len(p) - 1 : Edge(p[i], p[i + 1]) \in Links}

Extension == [update : Nat, released : Nat]
LegType ==
    [path : Paths, released : Nat, update : Nat, pending : Extension \cup {None}, last : Nodes]

ASSUME FloorConstants ==
    /\ IsFiniteSet(Nodes)
    /\ IsFiniteSet(Tasks) /\ From \in [Tasks -> Nodes] /\ To \in [Tasks -> Nodes]
    /\ Submit \in [Tasks -> Nat] /\ IsInjective(Submit)
    /\ \A a, b \in Nodes :
          Route[a][b] \in Paths /\ Route[a][b][1] = a /\ Last(Route[a][b]) = b
    /\ Metres \in [Nodes -> [Nodes -> Nat]]
    /\ AsideMax \in Nat
    /\ Ids \subseteq Nat
    /\ None \notin Nat \cup Tasks \cup Extension \cup LegType

\* Every name of the ledger is a truck here: no hulk is parked and no node is
\* closed in this model.
Trucks == Vehicles

Neighbours(node) == {n \in Nodes : Edge(node, n) \in Links /\ n # node}

InOrderOf(key, S) ==
    CHOOSE q \in [1 .. Cardinality(S) -> S] : \A i, j \in DOMAIN q : i < j => key[q[i]] < key[q[j]]

\* Positions of a path: where a node is on it, and what is left from there.
IndexOf(path, node) == Min({i \in DOMAIN path : path[i] = node} \cup {Len(path) + 1})
Rest(path, node)    == IF IndexOf(path, node) > Len(path) THEN path
                       ELSE SubSeq(path, IndexOf(path, node), Len(path))
NodeCount(elements) == (Len(elements) + 1) \div 2

-----------------------------------------------------------------------------
(* The manager's book. *)

\* _task_of: the task the vehicle is holding.
TaskOf(m, v) ==
    LET held == {t \in Tasks : m.task[t].by = v /\ m.task[t].state # "DONE"}
    IN  IF held = {} THEN None ELSE CHOOSE t \in held : TRUE

LegOf(m, v) == IF TaskOf(m, v) = None THEN None ELSE m.task[TaskOf(m, v)].leg

InFlight(m) == {t \in Tasks : m.task[t].leg # None /\ m.task[t].by # None
                              /\ m.task[t].state \in {"LEG1", "LEG2"}}

Ages(m) == [v \in {m.task[t].by : t \in InFlight(m)} |->
               Submit[CHOOSE t \in InFlight(m) : m.task[t].by = v]]

Stands(m, v)     == m.ledger.standing[v]
Send(m, v, msg)  == [m EXCEPT !.sent[v] = Append(@, msg)]

\* release: the floor goes back, the ground under the truck stays.
Release(m, v) ==
    [m EXCEPT !.ledger = ClearYield(ReleaseAll(@, v, Stands(m, v)), v)]

\* drop_traffic and _arrived.
DropTraffic(m, t) ==
    LET v    == m.task[t].by
        over == [m EXCEPT !.task[t].leg = None,
                          !.shuffles = IF v # None /\ m.task[t].state = "DONE"
                                       THEN [@ EXCEPT ![v] = 0] ELSE @]
    IN  IF v = None THEN over ELSE Release(over, v)

\* Mutant: the task is put at the head without being taken out of its place.
RequeueTwice(m, t) ==
    [DropTraffic(m, t) EXCEPT
        !.task[t] = [state |-> "QUEUED", by |-> None, order |-> None, leg |-> None],
        !.queue = <<t>> \o @]

\* _requeue and requeue_to_head.
Requeue(m, t) ==
    [DropTraffic(m, t) EXCEPT
        !.task[t] = [state |-> "QUEUED", by |-> None, order |-> None, leg |-> None],
        !.queue = <<t>> \o Without(@, {t})]

\* Mutant: cancelOrder goes out once.
AbandonOrderOnce(m, v, order) ==
    IF order = None THEN m ELSE Send(m, v, [kind |-> "cancel"])

\* _abandon_order: cancelOrder goes out and is chased.
AbandonOrder(m, v, order) ==
    IF order = None THEN m
    ELSE Send([m EXCEPT !.chase[v] = order], v, [kind |-> "cancel"])

-----------------------------------------------------------------------------
(* Reading a vehicle's state. *)

\* spur_entry: the only neighbour of a station at the end of a spur.
SpurEntry(node) ==
    IF Cardinality(Neighbours(node)) = 1 THEN CHOOSE n \in Neighbours(node) : TRUE
    ELSE None

\* _dwell_entry: the junction a truck keeps while it dwells in a spur.
DwellEntry(m, v) ==
    LET t == TaskOf(m, v)
    IN  IF t # None /\ m.task[t].state = "DWELL" /\ Stands(m, v) = From[t]
        THEN SpurEntry(From[t]) ELSE None

\* Mutant: the junction goes back with the rest of the way in.
ReleaseToNode(state, leg, node) == node

\* _release_to: at the end of leg 1 the spur's junction stays with the truck.
ReleaseTo(state, leg, node) ==
    LET entry == SpurEntry(node)
    IN  IF state = "LEG1" /\ node = Last(leg.path) /\ entry # None
              /\ IndexOf(leg.path, entry) < IndexOf(leg.path, node)
        THEN entry ELSE node

\* end_leg1
EndLeg1(m, t, v) ==
    LET entry == DwellEntry(m, v)
        over  == [m EXCEPT !.task[t].leg = None, !.shuffles[v] = 0]
    IN  IF entry = None \/ m.ledger.owner[entry] # v THEN Release(over, v)
        ELSE [over EXCEPT !.ledger = ClearYield(ReleaseThrough(@, v, entry), v)]

\* Mutant: a truck that is being moved holds the node it stands on.
HoldStandingOnly(m, v, node) ==
    LET entry == DwellEntry(m, v)
        want  == IF entry = None THEN <<node>> ELSE RouteElements(<<entry, node>>)
        freed == ReleaseAll(m.ledger, v, None)
    IN  IF m.ledger.held[v] = want THEN [m EXCEPT !.ledger = ClearWait(@, v)]
        ELSE [m EXCEPT !.ledger = ClearWait(Hold(freed, v, want), v)]

\* _hold_standing: what a vehicle with no leg of ours may hold.
HoldStanding(m, v, node) ==
    LET entry  == DwellEntry(m, v)
        moving == m.aside[v] # None /\ m.aside[v].node \in Neighbours(node)
        want   == IF moving THEN RouteElements(<<node, m.aside[v].node>>)
                  ELSE IF entry = None THEN <<node>>
                  ELSE RouteElements(<<entry, node>>)
        freed  == ReleaseAll(m.ledger, v, None)
        ours   == IF entry # None /\ freed.owner[entry] # None THEN <<node>> ELSE want
    IN  IF m.ledger.held[v] = want THEN [m EXCEPT !.ledger = ClearWait(@, v)]
        ELSE [m EXCEPT !.ledger = ClearWait(Hold(freed, v, ours), v)]

\* _read_update: a base grows when the state shows the update, and only then.
ReadUpdate(leg, update) ==
    IF leg.pending # None /\ update >= leg.pending.update
    THEN [leg EXCEPT !.update = update, !.released = leg.pending.released,
                     !.pending = None]
    ELSE IF update > leg.update THEN [leg EXCEPT !.update = update] ELSE leg

\* Mutant: a state of the order before is taken for one of this leg.
NoteAnyState(m, v, s) ==
    LET t     == TaskOf(m, v)
        leg   == LegOf(m, v)
        node  == IF leg = None THEN s.node ELSE IF s.last = None THEN leg.last ELSE s.last
        stood == [m EXCEPT !.ledger = SetStanding(@, v, node)]
    IN  IF leg = None THEN HoldStanding(stood, v, node)
        ELSE [stood EXCEPT
                !.ledger = ReleaseThrough(@, v, ReleaseTo(m.task[t].state, leg, node)),
                !.task[t].leg = ReadUpdate([leg EXCEPT !.last = node], s.update)]

\* note_state and _standing_from.  A state that predates the leg says where the
\* truck is and nothing else.
NoteState(m, v, s) ==
    LET t     == TaskOf(m, v)
        leg   == LegOf(m, v)
        stale == leg # None /\ s.order # m.task[t].order
        node  == IF leg = None THEN s.node
                 ELSE IF stale \/ s.last = None THEN leg.last ELSE s.last
        stood == [m EXCEPT !.ledger = SetStanding(@, v, node)]
    IN  IF stale THEN stood
        ELSE IF leg = None THEN HoldStanding(stood, v, node)
        ELSE [stood EXCEPT
                !.ledger = ReleaseThrough(@, v, ReleaseTo(m.task[t].state, leg, node)),
                !.task[t].leg = ReadUpdate([leg EXCEPT !.last = node], s.update)]

-----------------------------------------------------------------------------
(* Legs and their bases. *)

\* An order id nobody remembers any more.
FreshId(m, known) ==
    Min(Ids \ (known \cup {m.task[t].order : t \in Tasks} \cup {m.chase[v] : v \in Trucks}
               \cup {m.seen[v].order : v \in Trucks} \cup {m.seen[v].fin : v \in Trucks}
               \cup {m.aside[v].order : v \in {u \in Trucks : m.aside[u] # None}}
               \cup (UNION {{msg.order : msg \in {n \in Range(m.sent[v]) : n.kind # "cancel"}}
                               : v \in Trucks})))

\* leg_order and _publish_order: the whole leg is planned and held, what the
\* floor granted goes out as the base and the rest as horizon; a grant of
\* nothing is no order.  (start_xy and the standing node come out of the same
\* state, so hold_points are the planner's points and offset is 0.)
StartLeg(m, t, v, station, next, known) ==
    LET path     == Route[Stands(m, v)][station]
        request  == RouteElements(path)
        released == NodeCount(Grant(m.ledger, v, request))
        order    == FreshId(m, known)
        held     == [m EXCEPT !.ledger = Hold(@, v, request)]
    IN  IF released < 1 THEN Release(held, v)
        ELSE Send([held EXCEPT !.task[t] =
                      [state |-> next, by |-> v, order |-> order,
                       leg |-> [path |-> path, released |-> released, update |-> 0,
                                pending |-> None, last |-> Stands(m, v)]]],
                  v, [kind |-> "order", order |-> order, route |-> path, base |-> released,
                   action |-> TRUE])

\* Mutant: a second extension goes out while one is in the air.
RetryHoldAgain(m, t) ==
    LET leg      == m.task[t].leg
        v        == m.task[t].by
        rest     == Rest(leg.path, leg.last)
        gained   == NodeCount(Grant(m.ledger, v, RouteElements(rest)))
        released == Max({leg.released, Len(leg.path) - Len(rest) + gained})
        held     == [m EXCEPT !.ledger = Hold(@, v, RouteElements(rest))]
    IN  IF released <= leg.released THEN held
        ELSE Send([held EXCEPT
                     !.task[t].leg.pending = [update |-> leg.update + 1, released |-> released]],
                  v, [kind |-> "update", order |-> m.task[t].order,
                      update |-> leg.update + 1, base |-> released])

\* Mutant: the node the truck stands on is counted twice.
RetryHoldOneMore(m, t) ==
    LET leg      == m.task[t].leg
        v        == m.task[t].by
        rest     == Rest(leg.path, leg.last)
        gained   == NodeCount(Grant(m.ledger, v, RouteElements(rest)))
        released == Max({leg.released, Min({Len(leg.path), IndexOf(leg.path, leg.last) + gained})})
        held     == [m EXCEPT !.ledger = Hold(@, v, RouteElements(rest))]
    IN  IF leg.pending # None THEN m
        ELSE IF released <= leg.released THEN held
        ELSE Send([held EXCEPT
                     !.ledger = ClearYield(@, v),
                     !.task[t].leg.pending = [update |-> leg.update + 1, released |-> released]],
                  v, [kind |-> "update", order |-> m.task[t].order,
                      update |-> leg.update + 1, base |-> released])

\* Mutant: asking for the hold again is taken for having got it back.
RetryHoldForgetsYield(m, t) ==
    LET leg      == m.task[t].leg
        v        == m.task[t].by
        rest     == Rest(leg.path, leg.last)
        gained   == NodeCount(Grant(m.ledger, v, RouteElements(rest)))
        released == Max({leg.released, Len(leg.path) - Len(rest) + gained})
        held     == [m EXCEPT !.ledger = ClearYield(Hold(@, v, RouteElements(rest)), v)]
    IN  IF leg.pending # None THEN m
        ELSE IF released <= leg.released THEN held
        ELSE Send([held EXCEPT
                     !.task[t].leg.pending = [update |-> leg.update + 1, released |-> released]],
                  v, [kind |-> "update", order |-> m.task[t].order,
                      update |-> leg.update + 1, base |-> released])

\* retry_hold: the hold is asked for again from the truck forward, and a longer
\* base goes out as an update, one in the air at a time.
RetryHold(m, t) ==
    LET leg      == m.task[t].leg
        v        == m.task[t].by
        rest     == Rest(leg.path, leg.last)
        behind   == Len(leg.path) - Len(rest)
        gained   == NodeCount(Grant(m.ledger, v, RouteElements(rest)))
        released == Max({leg.released, behind + gained})
        held     == [m EXCEPT !.ledger = Hold(@, v, RouteElements(rest))]
    IN  IF leg.pending # None THEN m
        ELSE IF released <= leg.released THEN held
        ELSE Send([held EXCEPT
                     !.ledger = ClearYield(@, v),
                     !.task[t].leg.pending = [update |-> leg.update + 1, released |-> released]],
                  v, [kind |-> "update", order |-> m.task[t].order,
                      update |-> leg.update + 1, base |-> released])

-----------------------------------------------------------------------------
(* Deadlocks: wait-die between trucks that have stopped, and where that frees *)
(* nothing that helps, one truck is moved aside or its task is refused.       *)

\* _parked_at_base_end
ParkedAtBaseEnd(m, v) ==
    LET leg == LegOf(m, v)
    IN  leg = None \/ leg.last = leg.path[leg.released]

\* step_aside_target: floor nobody owns next to the truck, away from what the
\* others still have to drive, and not across a spur.  (The nearer of two
\* equally good nodes is not modelled: either is some node.)
StepAsideTarget(m, v, others) ==
    LET node    == Stands(m, v)
        legs    == {u \in others : LegOf(m, u) # None}
        theirs  == (UNION {Range(Rest(LegOf(m, u).path, LegOf(m, u).last)) : u \in legs})
                   \cup {Stands(m, u) : u \in others}
        open(n) == /\ FreeFor(m.ledger, v, n) /\ FreeFor(m.ledger, v, Edge(node, n))
                   /\ {node, n} \in Near
        junction(n) == SpurEntry(n) # None
        targets == IF node = None \/ m.aside[v] # None THEN {}
                   ELSE {n \in Neighbours(node) : open(n)}
        rank(n) == (IF n \in theirs THEN 2 ELSE 0) + (IF junction(n) THEN 1 ELSE 0)
    IN  IF targets = {} THEN None
        ELSE CHOOSE n \in targets : \A o \in targets : rank(n) <= rank(o)

\* _step_aside: the task goes back, the order is cancelled, the floor to move
\* onto is held; the move itself goes out when the truck has let go.
StepAside(m, v, target) ==
    LET t      == TaskOf(m, v)
        node   == Stands(m, v)
        gone   == IF t = None THEN m ELSE AbandonOrder(Requeue(m, t), v, m.task[t].order)
    IN  [gone EXCEPT
            !.ledger = ClearWait(Hold(@, v, RouteElements(<<node, target>>)), v),
            !.shuffles[v] = @ + 1,
            !.aside[v] = [node |-> target, order |-> None, seen |-> FALSE]]

\* Mutant: a deadlock that yielding does not break is left to itself.
CannotYieldLeaves(m, cycle, loser) == m

\* _cannot_yield and _unresolvable
CannotYield(m, cycle, loser) ==
    LET t      == TaskOf(m, loser)
        target == IF m.shuffles[loser] >= AsideMax THEN None
                  ELSE StepAsideTarget(m, loser, cycle \ {loser})
    IN  IF target # None THEN StepAside(m, loser, target)
        ELSE IF t = None THEN m
        ELSE AbandonOrder(Requeue(m, t), loser, m.task[t].order)

\* One turn of _resolve's loop: the book after it, and whether to go on.
\* still: the trucks measured not to have moved for STANDSTILL_S.
ResolveTurn(m, still) ==
    LET cycle   == FindCycle(m.ledger)
        loser   == Youngest(Ages(m), cycle)
        parked  == \A v \in cycle : ParkedAtBaseEnd(m, v)
        stopped == \A v \in cycle : ParkedAtBaseEnd(m, v) \/ v \in still
        yielded == [m EXCEPT !.ledger = Yield(@, loser)]
        helped  == /\ Len(yielded.ledger.held[loser]) < Len(m.ledger.held[loser])
                   /\ \A v \in cycle \ {loser} :
                         yielded.ledger.owner[m.ledger.waiting[v]] # loser
    IN  IF cycle = {} \/ ~stopped THEN [book |-> m, more |-> FALSE]
        ELSE IF ~parked THEN [book |-> CannotYield(m, cycle, loser), more |-> FALSE]
        ELSE IF ~helped THEN [book |-> CannotYield(yielded, cycle, loser), more |-> FALSE]
        ELSE [book |-> yielded, more |-> TRUE]

\* The loop, which asks at most once per vehicle and once more.
Resolve(m, still) ==
    FoldLeft(LAMBDA turn, i : IF turn.more THEN ResolveTurn(turn.book, still) ELSE turn,
             [book |-> m, more |-> TRUE],
             [i \in 1 .. Cardinality(Trucks) + 1 |-> i]).book

\* _end_aside: done, or given up, when the order is taken back as well.
EndAside(m, v, done) ==
    LET over == [m EXCEPT !.aside[v] = None]
    IN  Release(IF done THEN over ELSE AbandonOrder(over, v, m.aside[v].order), v)

\* Mutant: the move is written down and never ordered.
PumpAsideUnsent(m, v, late, known) ==
    IF m.aside[v] # None /\ v \in late THEN EndAside(m, v, FALSE) ELSE m

\* _pump_aside for one truck.  late: ASIDE_S has passed.
PumpAside(m, v, late, known) ==
    LET entry  == m.aside[v]
        order  == FreshId(m, known)
        moved  == entry.order # None /\ m.seen[v].order # entry.order
                  /\ (entry.seen \/ Stands(m, v) = entry.node)
        pumped ==
            IF entry.order = None /\ m.seen[v].order = None
            THEN Send([m EXCEPT !.aside[v].order = order], v,
                      [kind |-> "order", order |-> order, route |-> <<entry.node>>, base |-> 1,
                       action |-> FALSE])
            ELSE IF entry.order # None /\ m.seen[v].order = entry.order
            THEN [m EXCEPT !.aside[v].seen = TRUE]
            ELSE m
    IN  IF entry = None THEN m
        ELSE IF moved THEN EndAside(m, v, TRUE)
        ELSE IF v \in late THEN EndAside(pumped, v, FALSE)
        ELSE pumped

\* traffic_pass: the moves under way, the retries oldest task first, then the
\* deadlocks.
TrafficPass(m, still, late, known) ==
    LET pumped  == FoldLeft(LAMBDA b, v : PumpAside(b, v, late, known),
                            m, InOrderOf(Serial, Trucks))
        retried == FoldLeft(LAMBDA b, t : RetryHold(b, t),
                            pumped, InOrderOf(Submit, InFlight(pumped)))
    IN  Resolve(retried, still)
=============================================================================
