------------------------------- MODULE Fleet --------------------------------
(***************************************************************************)
(* The fleet manager (src/m6/fleet/fleet_manager.py, over Floor), the      *)
(* trucks it moves (src/m6/ipc/vda_agent.py and the motion below it) and   *)
(* the wire between them, qos 0: orders and cancels one way, states the    *)
(* other, each delivered late or, where Losses allows it, never.           *)
(*                                                                         *)
(*   truck[v]   node       the last graph node it reached                  *)
(*              order      the order its agent holds, or None              *)
(*              update     that order's orderUpdateId                      *)
(*              route      the path nav was given, base nodes of it        *)
(*              base       released, pos nodes of it reached               *)
(*              pos                                                        *)
(*              executing  the agent counts the order as being driven      *)
(*              stopping   a cancel nav has not confirmed yet              *)
(*              fin        the order whose station action is finished      *)
(*              refused    an order refused since the last state           *)
(***************************************************************************)
EXTENDS Floor

CONSTANTS
    Home,       \* truck -> the node it starts on
    Losses,     \* bound: the messages the wire may lose
    Backlog,    \* bound: messages under way to a truck when a drain starts
    Clocks,     \* the clocks that may run out on a truck held up
    Delays      \* bound: the times they do

ASSUME FleetConstants ==
    /\ Home \in Injection(Trucks, Nodes)
    /\ Losses \in Nat /\ Backlog \in Nat /\ Delays \in Nat
    /\ Clocks \subseteq {"STANDSTILL_S", "ASIDE_S", "ACTION_WAIT_S", "STALL_GIVE_UP_S"}

VARIABLES book, truck, wire, report, lost, delayed

vars == <<book, truck, wire, report, lost, delayed>>

Init ==
    /\ book = [ledger   |-> EmptyLedger,
               queue    |-> InOrderOf(Submit, Tasks),
               task     |-> [t \in Tasks |-> [state |-> "QUEUED", by |-> None,
                                              order |-> None, leg |-> None]],
               seen     |-> [v \in Trucks |-> [order |-> None, node |-> None,
                                               fin |-> None, fit |-> FALSE]],
               chase    |-> [v \in Trucks |-> None],
               aside    |-> [v \in Trucks |-> None],
               shuffles |-> [v \in Trucks |-> 0],
               sent     |-> [v \in Trucks |-> << >>]]
    /\ truck = [v \in Trucks |-> [node |-> Home[v], order |-> None, update |-> 0,
                                  route |-> << >>, base |-> 0, pos |-> 0,
                                  executing |-> FALSE, stopping |-> FALSE,
                                  fin |-> None, refused |-> None]]
    /\ wire = [v \in Trucks |-> << >>]
    /\ report = [v \in Trucks |-> None]
    /\ lost = 0
    /\ delayed = 0

\* Ids that trucks, orders under way and states under way still name.
KnownIds ==
    (UNION {{truck[v].order, truck[v].fin, truck[v].refused} : v \in Trucks})
    \cup (UNION {{msg.order : msg \in {n \in Range(wire[v]) : n.kind # "cancel"}} : v \in Trucks})
    \cup (UNION {{report[v].order, report[v].fin, report[v].refused} :
                    v \in {u \in Trucks : report[u] # None}})

\* The step's book, and what it sent on the wire.
Put(m) ==
    /\ book' = [m EXCEPT !.sent = [v \in Trucks |-> << >>]]
    /\ wire' = [v \in Trucks |-> wire[v] \o m.sent[v]]

-----------------------------------------------------------------------------
(* The manager reads one state. *)

\* idle_confirmed, for a vehicle whose link and mode never fail.
Idle(m, v) ==
    /\ m.seen[v].fit /\ m.seen[v].order = None
    /\ TaskOf(m, v) = None /\ m.aside[v] = None

\* Mutant: a cancel is not asked for again.
ChaseCancelOnce(m, v, retry) ==
    IF m.seen[v].order # m.chase[v] THEN [m EXCEPT !.chase[v] = None] ELSE m

\* _chase_cancel: the cancel landed, or it is asked for again (retry).
ChaseCancel(m, v, retry) ==
    IF m.chase[v] = None THEN m
    ELSE IF m.seen[v].order # m.chase[v] THEN [m EXCEPT !.chase[v] = None]
    ELSE IF retry THEN Send(m, v, [kind |-> "cancel"]) ELSE m

\* _check_rejection and extension_refused: an update refused is dropped and
\* asked for again, a leg refused goes back to the queue.
CheckRejection(m, v, s) ==
    LET t == TaskOf(m, v)
    IN  IF t = None \/ s.refused = None \/ s.refused # m.task[t].order THEN m
        ELSE IF m.task[t].leg # None /\ m.task[t].leg.pending # None
        THEN [m EXCEPT !.task[t].leg.pending = None]
        ELSE Requeue([m EXCEPT !.seen[v].fit = FALSE], t)

\* _check_arrival: nothing left to drive on the order we sent.  unreported: the
\* drop has not been reported for ACTION_WAIT_S.
CheckArrival(m, v, s, unreported) ==
    LET t == TaskOf(m, v)
    IN  IF t = None \/ ~s.over \/ s.order = None \/ s.order # m.task[t].order THEN m
        ELSE IF m.task[t].state = "LEG1"
        THEN EndLeg1([m EXCEPT !.task[t].state = "DWELL"], t, v)
        ELSE IF m.task[t].state = "LEG2" /\ s.fin = s.order
        THEN DropTraffic([m EXCEPT !.task[t].state = "DONE"], t)
        ELSE IF m.task[t].state = "LEG2" /\ unreported THEN Requeue(m, t)
        ELSE m

\* _on_state
OnState(m, v, s, retry, unreported) ==
    LET order  == IF s.over THEN None ELSE s.order
        noted  == [m EXCEPT !.seen[v] = [order |-> order, node |-> s.node, fin |-> s.fin,
                                         fit |-> @.fit \/ order = None]]
        chased == ChaseCancel(noted, v, retry)
    IN  CheckArrival(CheckRejection(NoteState(chased, v, s), v, s), v, s, unreported)

\* CANCEL_RETRY_S is more than a message takes either way, and CANCEL_RETRY_MAX
\* more than the messages lost: a cancel is sent again on a state that names
\* the order the truck still holds, after all that was sent has arrived.
MayRetry(v) == wire[v] = << >> /\ report[v].order = truck[v].order

ReadState(v, retry) ==
    /\ report[v] # None
    /\ retry => MayRetry(v)
    /\ \/ Put(OnState(book, v, report[v], retry, FALSE)) /\ UNCHANGED delayed
       \/ /\ "ACTION_WAIT_S" \in Clocks /\ delayed < Delays
          /\ delayed' = delayed + 1
          /\ Put(OnState(book, v, report[v], retry, TRUE))
    /\ report' = [report EXCEPT ![v] = None]
    /\ UNCHANGED <<truck, lost>>

-----------------------------------------------------------------------------
(* The manager's drain, after the inbox. *)

\* _expire_dwells: the pick is reported finished, so leg 2 goes out; oldest
\* first.  unreported: the trucks whose pick has not been for ACTION_WAIT_S.
ExpireDwells(m, unreported, known) ==
    FoldLeft(LAMBDA b, t :
                LET v == b.task[t].by
                IN  IF b.task[t].state # "DWELL" THEN b
                    ELSE IF b.seen[v].fin = b.task[t].order
                    THEN StartLeg(b, t, v, To[t], "LEG2", known)
                    ELSE IF v \in unreported THEN Requeue(b, t) ELSE b,
             m, InOrderOf(Submit, Tasks))

\* _stall_pass: a truck with a task, with no ledger wait, that has not moved
\* for STALL_GIVE_UP_S.
Stall(m, v) ==
    LET t == TaskOf(m, v)
    IN  IF t = None \/ m.ledger.waiting[v] # None THEN m
        ELSE AbandonOrder(Requeue(m, t), v, m.task[t].order)

\* _assign, next_assignment and nearest_idle: the first queued task goes to the
\* nearest idle truck, the lower serial on a tie.
Assign(m, known) ==
    LET queued  == {i \in DOMAIN m.queue : m.task[m.queue[i]].state = "QUEUED"}
        t       == m.queue[Min(queued)]
        far(v)  == Metres[m.seen[v].node][From[t]]
        idle    == {v \in Trucks : Idle(m, v)}
        chosen  == CHOOSE v \in idle : \A u \in idle \ {v} :
                      far(v) < far(u) \/ (far(v) = far(u) /\ Serial[v] < Serial[u])
    IN  IF queued = {} \/ idle = {} THEN m
        ELSE StartLeg(m, t, chosen, From[t], "LEG1", known)

\* The book drain leaves behind when a clock runs out on some trucks.
Drained(clock, trucks) ==
    LET out(c) == IF c = clock THEN trucks ELSE {}
        passed == TrafficPass(book, out("STANDSTILL_S"), out("ASIDE_S"), KnownIds)
        dwelt  == ExpireDwells(passed, out("ACTION_WAIT_S"), KnownIds)
        kept   == FoldLeft(LAMBDA b, v : Stall(b, v), dwelt,
                           InOrderOf(Serial, out("STALL_GIVE_UP_S")))
    IN  Assign(kept, KnownIds)

\* The wire keeps up with the manager.
KeptUp == \A v \in Trucks : Len(wire[v]) <= Backlog

Drain(clock, trucks) ==
    /\ KeptUp
    /\ Put(Drained(clock, trucks))
    /\ UNCHANGED <<truck, report, lost>>

\* The trucks a clock may run out on.  The clocks are longer than a message
\* takes, so nothing is under way to or from the truck, and its next leg does not
\* go out in this drain; the drain of a clock that runs out for nothing is the
\* plain one.
HeldUp(clock) ==
    LET one(T) == {{v} : v \in T}
        busy == {v \in Trucks : TaskOf(book, v) # None}
        dwelling == {v \in busy : book.task[TaskOf(book, v)].state = "DWELL"}
        leaving == {v \in dwelling : book.seen[v].fin = book.task[TaskOf(book, v)].order}
        held == CASE clock = "STANDSTILL_S"    -> {FindCycle(book.ledger)} \ {{}}
                  [] clock = "ASIDE_S"         -> one({v \in Trucks : book.aside[v] # None})
                  [] clock = "ACTION_WAIT_S"   -> one(dwelling)
                  [] clock = "STALL_GIVE_UP_S" -> one(busy \ leaving)
    IN  {S \in held : \A v \in S : wire[v] = << >> /\ report[v] = None}

ManagerDrains ==
    \/ Drain("none", {}) /\ UNCHANGED delayed
    \/ /\ delayed < Delays
       /\ delayed' = delayed + 1
       /\ \E clock \in Clocks : \E trucks \in HeldUp(clock) : Drain(clock, trucks)

-----------------------------------------------------------------------------
(* The trucks. *)

\* publish_state: whatever the truck is at that moment.
Publish(v) ==
    LET on == truck[v]
        onOrder == on.order # None
    IN  /\ report[v] = None
        /\ report' = [report EXCEPT ![v] =
               [order   |-> on.order,
                update  |-> IF onOrder THEN on.update ELSE 0,
                last    |-> IF onOrder /\ on.pos > 0 THEN on.route[on.pos] ELSE None,
                over    |-> ~onOrder \/ on.pos = Len(on.route),
                node    |-> on.node,
                fin     |-> on.fin,
                refused |-> on.refused]]
        /\ truck' = [truck EXCEPT ![v].refused = None]
        /\ UNCHANGED <<book, wire, lost, delayed>>

\* accept_order, _on_order and _extend.
TakeOrder(on, msg) ==
    IF on.executing THEN [on EXCEPT !.refused = msg.order]
    ELSE [on EXCEPT !.order = msg.order, !.update = 0, !.route = msg.route,
                    !.base = msg.base, !.executing = TRUE,
                    !.fin = IF msg.action THEN @ ELSE msg.order,
                    !.pos = IF msg.route[1] = on.node THEN 1 ELSE 0]

TakeUpdate(on, msg) ==
    IF on.order = msg.order /\ on.update + 1 = msg.update /\ on.executing /\ ~on.stopping
    THEN [on EXCEPT !.update = msg.update, !.base = msg.base]
    ELSE [on EXCEPT !.refused = msg.order]

\* _begin_cancel: the order is dropped at once, the stop is nav's to confirm.
TakeCancel(on) ==
    [on EXCEPT !.order = None, !.executing = FALSE, !.stopping = TRUE]

Deliver(v) ==
    /\ wire[v] # << >>
    /\ LET msg == Head(wire[v])
       IN  truck' = [truck EXCEPT ![v] = CASE msg.kind = "order"  -> TakeOrder(@, msg)
                                           [] msg.kind = "update" -> TakeUpdate(@, msg)
                                           [] msg.kind = "cancel" -> TakeCancel(@)]
    /\ wire' = [wire EXCEPT ![v] = Tail(@)]
    /\ UNCHANGED <<book, report, lost, delayed>>

\* nav drives to the next node of the base; a truck being stopped may still.
Drive(v) ==
    /\ truck[v].pos < truck[v].base
    /\ truck' = [truck EXCEPT ![v].pos = @ + 1, ![v].node = truck[v].route[truck[v].pos + 1]]
    /\ UNCHANGED <<book, wire, report, lost, delayed>>

\* _settle_arrival: every node released and reached, and nav names this order
\* (so that a cancel of an earlier one is moot).
Arrive(v) ==
    /\ truck[v].executing /\ truck[v].pos = Len(truck[v].route)
    /\ truck' = [truck EXCEPT ![v].executing = FALSE, ![v].stopping = FALSE]
    /\ UNCHANGED <<book, wire, report, lost, delayed>>

\* The fork cycle at the station is over (a step-aside order has no action).
Work(v) ==
    /\ truck[v].order # None /\ ~truck[v].executing
    /\ truck[v].fin # truck[v].order
    /\ truck' = [truck EXCEPT ![v].fin = truck[v].order]
    /\ UNCHANGED <<book, wire, report, lost, delayed>>

\* _pump_cancel: nav says it stopped, or that it drives another goal by now.
Stopped(v) ==
    /\ truck[v].stopping
    /\ truck' = [truck EXCEPT ![v] =
           IF @.executing THEN [@ EXCEPT !.stopping = FALSE]
           ELSE [@ EXCEPT !.stopping = FALSE, !.route = << >>, !.base = 0, !.pos = 0]]
    /\ UNCHANGED <<book, wire, report, lost, delayed>>

\* qos 0 loses a message.
Lose(v) ==
    /\ lost < Losses
    /\ lost' = lost + 1
    /\ \/ /\ wire[v] # << >> /\ wire' = [wire EXCEPT ![v] = Tail(@)]
          /\ UNCHANGED report
       \/ /\ report[v] # None /\ report' = [report EXCEPT ![v] = None]
          /\ UNCHANGED wire
    /\ UNCHANGED <<book, truck, delayed>>

-----------------------------------------------------------------------------
Next ==
    \/ ManagerDrains
    \/ \E v \in Trucks :
        \/ \E retry \in BOOLEAN : ReadState(v, retry)
        \/ Publish(v) \/ Deliver(v) \/ Drive(v) \/ Arrive(v)
        \/ Work(v) \/ Stopped(v) \/ Lose(v)

Spec == Init /\ [][Next]_vars

\* Only drain changes the book without taking a state.
Drains == book' # book /\ report' = report

\* A state is read while a cancel is chased and could be sent again.
Chases(v, retry) ==
    /\ report[v] # None /\ report'[v] = None /\ MayRetry(v)
    /\ book'.chase[v] # None /\ ReadState(v, retry)

\* Everybody keeps going: the manager drains and reads, states are sent, orders
\* are delivered, trucks drive, arrive, work and stop, and a cancel still to be
\* chased is not left at that for ever.
Fairness ==
    /\ []<>(~KeptUp \/ Drained("none", {}) = book) \/ []<><<Drains>>_vars
    /\ \A v \in Trucks :
        /\ []<>(report[v] = None)
        /\ []<><<Chases(v, FALSE)>>_vars => []<><<Chases(v, TRUE)>>_vars
        /\ WF_vars(Publish(v)) /\ WF_vars(Deliver(v))
        /\ WF_vars(Drive(v) \/ Arrive(v) \/ Work(v) \/ Stopped(v))

FairSpec == Spec /\ Fairness

-----------------------------------------------------------------------------
TypeOK ==
    /\ book.ledger \in LedgerType
    /\ Range(book.queue) = Tasks /\ IsInjective(book.queue)
    /\ book.task \in [Tasks -> [state : {"QUEUED", "LEG1", "DWELL", "LEG2", "DONE"},
                                by : Trucks \cup {None}, order : Ids \cup {None},
                                leg : LegType \cup {None}]]
    /\ book.seen \in [Trucks -> [order : Ids \cup {None}, node : Nodes \cup {None},
                                 fin : Ids \cup {None}, fit : BOOLEAN]]
    /\ book.chase \in [Trucks -> Ids \cup {None}]
    /\ \A v \in Trucks : book.sent[v] = << >> /\ book.shuffles[v] \in 0 .. AsideMax
    /\ \A v \in Trucks : truck[v].pos \in 0 .. truck[v].base
                         /\ truck[v].base <= Len(truck[v].route)

\* The floor of a path from its i-th node to its j-th.
FloorOf(path, i, j) == Range(RouteElements(SubSeq(path, i, j)))

\* What v may still drive under the order its task is on.
Drivable(v) ==
    IF TaskOf(book, v) = None \/ truck[v].order = None \/ truck[v].pos = 0
         \/ truck[v].order # book.task[TaskOf(book, v)].order THEN {}
    ELSE FloorOf(truck[v].route, truck[v].pos, truck[v].base)

\* _check_floor never has anything to say: the floor under a live base, and
\* under an extension in the air, is the truck's own in the ledger, from the
\* node the manager last saw it on.  A truck that yielded gave floor up on
\* purpose and is excused, as it is there.
LiveBaseBacked ==
    \A t \in InFlight(book) :
        LET leg == book.task[t].leg
            v   == book.task[t].by
            end == IF leg.pending = None THEN leg.released ELSE leg.pending.released
        IN  v \notin book.ledger.yielded =>
                FloorOf(leg.path, IndexOf(leg.path, leg.last), end) \subseteq OwnedBy(book.ledger, v)

\* The same of the truck itself, wherever it really is and whatever update of
\* the order it has really taken: late and stale states never let the ledger
\* free floor the truck may still drive.
DrivableIsOwned ==
    \A v \in Trucks : v \notin book.ledger.yielded => Drivable(v) \subseteq OwnedBy(book.ledger, v)

\* The fleet never asks two vehicles onto one piece of floor.
AskedOntoOnce ==
    \A u, v \in Trucks : u # v => Drivable(u) \cap Drivable(v) = {}

\* Manager and truck count the updates alike, with one in the air at a time: an
\* update that reaches the truck driving that order is the next one, and grows
\* its base.
UpdatesInStep ==
    \A v \in Trucks : wire[v] # << >> /\ Head(wire[v]).kind = "update" =>
        LET msg == Head(wire[v])
        IN  truck[v].order = msg.order =>
                /\ truck[v].executing
                /\ msg.update = truck[v].update + 1
                /\ msg.base > truck[v].base

\* The ruling on spurs: a truck that arrives in one by its junction, the only
\* way out, owns the junction without a gap until leg 2 takes it over.
WayOutKept ==
    [][\A t \in Tasks :
        LET v     == book.task[t].by
            entry == DwellEntry(book', v)
        IN  /\ book.task[t].state \in {"LEG1", "DWELL"}
            /\ book'.task[t].state = "DWELL" /\ book'.task[t].by = v
            /\ entry # None /\ book.ledger.owner[entry] = v
            => book'.ledger.owner[entry] = v]_vars

\* A truck parked at the end of its base and moved out of the way owns the node
\* it was promised until the move is over.  (One that was only measured to
\* stand still may roll on before the cancel reaches it, and loses the node.)
MoveKeepsItsFloor ==
    \A v \in Trucks : book.aside[v] # None => book.ledger.owner[book.aside[v].node] = v

\* A truck drives no order the fleet has taken back without being chased: the
\* cancel is on its way to it, or will be sent again.
Withdrawn(v) ==
    /\ truck[v].executing /\ truck[v].pos < Len(truck[v].route)
    /\ truck[v].order # IF book.aside[v] # None THEN book.aside[v].order
                       ELSE IF TaskOf(book, v) # None THEN book.task[TaskOf(book, v)].order
                       ELSE None

CancelChased ==
    \A v \in Trucks : Withdrawn(v) =>
        book.chase[v] = truck[v].order \/ \E msg \in Range(wire[v]) : msg.kind = "cancel"

\* The floor a truck at the end of its base needs next.
Ahead(v) ==
    LET leg == LegOf(book, v)
    IN  IF leg = None THEN {}
        ELSE IF leg.released = Len(leg.path) \/ leg.last # leg.path[leg.released]
                  \/ leg.pending # None THEN {}
        ELSE {Edge(leg.last, leg.path[leg.released + 1]), leg.path[leg.released + 1]}

\* Each owns floor the other is going to need.
Standoff(u, v) ==
    /\ Ahead(u) \cap OwnedBy(book.ledger, v) # {}
    /\ Ahead(v) \cap OwnedBy(book.ledger, u) # {}

\* Two trucks that stand in each other's way with a task each do not stand so
\* for ever, as long as the wire loses nothing: one yields, moves aside or loses
\* its task.
StandoffsEnd ==
    \A u, v \in Trucks : Serial[u] < Serial[v] =>
        []<>(~Standoff(u, v) \/ lost > 0)

\* An extension that does not arrive is asked for again, where the truck is
\* known to wait for floor (so that the stall watchdog lets it wait).
ExtensionAskedAgain ==
    \A v \in Trucks :
        LET inTheAir == LegOf(book, v) # None /\ LegOf(book, v).pending # None
        IN  (inTheAir /\ book.ledger.waiting[v] # None)
            ~> ~(inTheAir /\ book.ledger.waiting[v] # None)

\* Every cancel lands: a truck lets go of an order the fleet has taken back.
CancelsLand == \A v \in Trucks : []<>(book.chase[v] = None)

\* Every move out of the way comes to an end, so that the truck is assigned again,
\* as long as the wire loses nothing.
MovesEnd == \A v \in Trucks : []<>(book.aside[v] = None \/ lost > 0)
=============================================================================
