------------------------------ MODULE Vehicle -------------------------------
(***************************************************************************)
(* A truck's VDA agent (ipc/vda_agent.py with ipc/vda_orders.py), the part *)
(* of its navigation the agent talks to (ipc/nav_core.py) and the topics   *)
(* between them: routes, empty goals, nav's reports, odometry and the      *)
(* latched mode, each in order by itself and in no order with another.     *)
(* The fleet is the environment: it orders, extends and cancels, and its   *)
(* broker comes and goes.                                                  *)
(*                                                                         *)
(* EN-ROUTE stands for every state of nav that is under way (HOLD, AVOID,  *)
(* NUDGE, BLOCKED, SAFETY-STOP too), which the agent treats alike except   *)
(* for one warning.  Every order has a station action at its last node.    *)
(*                                                                         *)
(*   agent.order      the order it holds [id, update, path, base], or Nothing *)
(*   agent.reached    Progress: how many of its base nodes were passed     *)
(*   agent.executing  a route was asked for and nobody said it ended       *)
(*   agent.cancel     the stop it chases [target, action], or Nothing         *)
(*   agent.navState   nav's last report, as cached                         *)
(*   agent.navGoal                                                         *)
(*   agent.settled    NAV_SETTLE_S has passed since the last route         *)
(*   agent.fork       the station action of the order                      *)
(*   agent.routes     published, not yet taken by nav                      *)
(*   agent.goals      likewise: empty goals                                *)
(*   agent.finished   the orders whose cancel it reported FINISHED         *)
(*                                                                         *)
(* Four fields are history, which nothing in the code reads:               *)
(*   agent.behind     the orders with a route nav had not taken when it made *)
(*                    the report that is cached                            *)
(*   agent.aired      likewise, of the report under way                    *)
(*   agent.misread    the orders whose stop such a report confirmed        *)
(*   agent.rolling    the orders sent while a route was driven or under way *)
(***************************************************************************)
EXTENDS Integers, SequencesExt

CONSTANTS
    Line,       \* the floor: a line of nodes 1 .. Line
    Sendings,     \* bound: orders the fleet sends
    Cancels,    \* bound: cancelOrders it sends
    Upsets,     \* bound: mode changes, losses of the broker and deaths of nav
    Nothing

Nodes == 1 .. Line

\* What an order says: the nodes of its path, and how many of them are released.
Orders == [id : Nat, update : Nat, path : Seq(Nodes), base : Nat]

ASSUME VehicleConstants ==
    /\ Line \in Nat \ {0}
    /\ Sendings \in Nat /\ Cancels \in Nat /\ Upsets \in Nat
    /\ Nothing \notin Nat \cup Orders

VARIABLES
    agent, nav,
    place,      \* the node the truck stands on or has last passed
    inbox,      \* what paho's thread has put in the agent's queue
    report,     \* nav's report under way to the agent, or Nothing
    mode,       \* the operator's, latched
    broker,     \* the connection is up
    spent       \* what is spent of the bounds

vehicleVars == <<agent, nav, place, inbox, report, mode, broker, spent>>

GoalDepth == 1      \* bound: equal empty goals kept for nav; one more is sent when it is taken

\* The planned path to a station.
Straight(from, to) ==
    [i \in 1 .. (IF to >= from THEN to - from ELSE from - to) + 1 |->
        IF to >= from THEN from + i - 1 ELSE from - i + 1]

NoWork == [auto |-> FALSE, up |-> TRUE, state |-> "IDLE", goal |-> Nothing, route |-> << >>,
           note |-> ""]

\* Everybody has heard the latched mode.
VehicleInit ==
    /\ agent = [order |-> Nothing, reached |-> 0, executing |-> FALSE, cancel |-> Nothing,
                navState |-> "", navGoal |-> Nothing, auto |-> TRUE, settled |-> TRUE,
                fork |-> "NONE", routes |-> << >>, goals |-> 0, finished |-> {},
                behind |-> {}, aired |-> {}, misread |-> {}, rolling |-> {}]
    /\ nav = [NoWork EXCEPT !.auto = TRUE]
    /\ place = 1
    /\ inbox = << >> /\ report = Nothing /\ mode = TRUE /\ broker = TRUE
    /\ spent = [orders |-> 0, cancels |-> 0, upsets |-> 0]

-----------------------------------------------------------------------------
(* The agent's methods, from an agent to the agent they leave. *)

Base(order) == SubSeq(order.path, 1, order.base)

\* _send_route: the pose goes in front of the nodes, and is no node of its own here.
SendRoute(a, nodes) ==
    [a EXCEPT !.routes = Append(@, [label |-> a.order.id, nodes |-> nodes]),
              !.executing = TRUE, !.settled = FALSE,
              !.behind = @ \cup {a.order.id},
              !.aired = IF report = Nothing THEN @ ELSE @ \cup {a.order.id}]

Remaining(a) == SubSeq(Base(a.order), a.reached + 1, a.order.base)

\* Mutant: nav's word alone makes an arrival.
SettleArrivalOnNavsWord(a) ==
    IF /\ a.executing /\ a.order # Nothing /\ a.order.base = Len(a.order.path)
       /\ a.navState = "ARRIVED" /\ a.navGoal = a.order.id
    THEN [a EXCEPT !.executing = FALSE, !.fork = "RUNNING"]
    ELSE a

\* _settle_arrival: nav has driven what it was given, the truck has passed
\* everything released, and the fleet has released everything.
SettleArrival(a) ==
    IF /\ a.executing /\ a.order # Nothing /\ a.order.base = Len(a.order.path)
       /\ a.navState = "ARRIVED" /\ a.navGoal = a.order.id
       /\ a.reached = a.order.base
    THEN [a EXCEPT !.executing = FALSE, !.fork = "RUNNING"]
    ELSE a

\* _cancel_confirmed
CancelConfirmed(a) ==
    /\ a.navState # ""
    /\ \/ a.navState = "IDLE" /\ a.navGoal = Nothing
       \/ a.cancel.target # Nothing /\ a.navGoal # a.cancel.target

\* The stop is over: reported FINISHED when a cancelOrder asked for it.
Confirmed(a) ==
    [a EXCEPT !.cancel = Nothing,
              !.finished = IF a.cancel.action THEN @ \cup ({a.cancel.target} \ {Nothing}) ELSE @,
              !.misread = @ \cup ({a.cancel.target} \cap a.behind)]

\* Mutant: a route that runs is looked at before nav's word is.
PumpCancelHoldsFirst(a, late) ==
    IF a.cancel = Nothing \/ a.executing THEN a
    ELSE IF CancelConfirmed(a)
    THEN Confirmed(a)
    ELSE IF late THEN [a EXCEPT !.cancel = Nothing]
    ELSE [a EXCEPT !.goals = IF @ < GoalDepth THEN @ + 1 ELSE @]

\* _pump_cancel: confirm it, give up (late), or ask again.
PumpCancel(a, late) ==
    IF a.cancel = Nothing THEN a
    ELSE IF CancelConfirmed(a)
    THEN Confirmed(a)
    ELSE IF late THEN [a EXCEPT !.cancel = Nothing]
    ELSE IF a.executing THEN a
    ELSE [a EXCEPT !.goals = IF @ < GoalDepth THEN @ + 1 ELSE @]

\* Mutant: what was asked for counts as done.
BeginCancelAtOnce(a, action) ==
    [a EXCEPT !.fork = IF @ \in {"WAITING", "RUNNING"} THEN "FAILED" ELSE @,
              !.finished = IF action /\ a.order # Nothing THEN @ \cup {a.order.id} ELSE @,
              !.executing = FALSE, !.goals = IF @ < GoalDepth THEN @ + 1 ELSE @]

\* _begin_cancel
BeginCancel(a, action) ==
    LET swept == [a EXCEPT
            !.fork = IF @ \in {"WAITING", "RUNNING"} THEN "FAILED" ELSE @,
            !.cancel = [target |-> IF a.order # Nothing THEN a.order.id ELSE a.navGoal,
                        action |-> action],
            !.executing = FALSE]
    IN  PumpCancel(swept, FALSE)

\* _extend
Extend(a, msg) ==
    LET longer == [a EXCEPT !.order = msg]
    IN  IF a.cancel # Nothing THEN a
        ELSE IF Remaining(longer) = << >> THEN longer
        ELSE SendRoute(longer, Remaining(longer))

\* accept_order
Verdict(a, msg) ==
    LET same == a.order # Nothing /\ a.order.id = msg.id
    IN  IF same /\ msg.update = a.order.update THEN "ignore"
        ELSE IF ~a.auto THEN "reject"
        ELSE IF same /\ msg.update = a.order.update + 1 /\ a.executing THEN "extend"
        ELSE IF same \/ msg.update # 0 \/ a.executing THEN "reject"
        ELSE "accept"

\* Mutant: the count of the last order is kept.
OnOrderKeepsCount(a, msg) ==
    CASE Verdict(a, msg) = "extend" -> Extend(a, msg)
      [] Verdict(a, msg) = "accept" ->
            SendRoute([a EXCEPT !.order = msg, !.fork = "WAITING"], Base(msg))
      [] OTHER -> a

\* _on_order: what it refuses changes nothing here.
OnOrder(a, msg) ==
    CASE Verdict(a, msg) = "extend" -> Extend(a, msg)
      [] Verdict(a, msg) = "accept" ->
            SendRoute([a EXCEPT !.order = msg, !.reached = 0, !.fork = "WAITING"], Base(msg))
      [] OTHER -> a

\* _on_actions, for a cancelOrder.
OnCancel(a) == [BeginCancel(a, TRUE) EXCEPT !.order = Nothing, !.reached = 0]

\* Mutant: the drive is forgotten and nav is not told.
SupervisionLostUntold(a) == IF a.executing THEN [a EXCEPT !.executing = FALSE] ELSE a

\* _supervision_lost
SupervisionLost(a) == IF a.executing THEN BeginCancel(a, FALSE) ELSE a

\* _announce, with _resume.
Announce(a) ==
    IF a.order = Nothing \/ a.executing THEN a
    ELSE IF a.reached = a.order.base \/ ~a.auto THEN a
    ELSE [SendRoute(a, Remaining(a)) EXCEPT !.cancel = Nothing]

Handle(a, msg) ==
    CASE msg.kind = "order"     -> OnOrder(a, msg.order)
      [] msg.kind = "cancel"    -> OnCancel(a)
      [] msg.kind = "lost"      -> SupervisionLost(a)
      [] msg.kind = "connected" -> Announce(a)

\* A stop is given up after CANCEL_CONFIRM_S, fifty reports.  Only a nav that is not
\* there takes that long, or one that drives the next order when the stop is of no
\* order at all.
Overdue ==
    agent.cancel # Nothing /\ (nav.up => agent.executing /\ agent.cancel.target = Nothing)

\* drain: the whole inbox, then the cancel (late: its deadline is over), then the
\* station action (cycled: FORK_CYCLE_S has passed).
Drained(late, cycled) ==
    LET handled == FoldLeft(Handle, agent, inbox)
        pumped  == PumpCancel(handled, late /\ handled.cancel = agent.cancel)
    IN  IF cycled /\ pumped.fork = "RUNNING" THEN [pumped EXCEPT !.fork = "FINISHED"]
        ELSE pumped

\* cb_odom, with Progress.update: the furthest base node under the truck counts.
OdomHeard(a) ==
    LET at == {j \in a.reached + 1 .. a.order.base : a.order.path[j] = place}
    IN  IF at = {} THEN a
        ELSE SettleArrival([a EXCEPT !.reached = CHOOSE j \in at : \A k \in at : k <= j])

\* cb_nav
NavHeard(a, said) ==
    LET refused == /\ a.executing /\ said.state = "IDLE" /\ said.note # ""
                   /\ said.goal = Nothing \/ said.note = "mode left auto"
                   /\ a.settled
        cached  == [a EXCEPT !.navState = said.state, !.navGoal = said.goal,
                             !.behind = a.aired, !.aired = {}]
        settled == SettleArrival(cached)
    IN  IF settled # cached THEN settled
        ELSE IF refused THEN [cached EXCEPT !.executing = FALSE]
        ELSE cached

-----------------------------------------------------------------------------
(* Navigation. *)

\* _cancel
Cancelled(n, why) == [n EXCEPT !.state = "IDLE", !.goal = Nothing, !.route = << >>, !.note = why]

\* on_route
OnRoute(n, r) ==
    IF ~n.auto THEN [n EXCEPT !.note = "route refused"]
    ELSE [n EXCEPT !.state = "EN-ROUTE", !.goal = r.label, !.route = r.nodes, !.note = ""]

\* on_mode
OnMode(n, auto) ==
    LET heard == [n EXCEPT !.auto = auto]
    IN  IF ~auto /\ n.state # "IDLE" THEN Cancelled(heard, "mode left auto") ELSE heard

TakeRoute ==
    /\ nav.up /\ agent.routes # << >>
    /\ nav' = OnRoute(nav, Head(agent.routes))
    /\ agent' = [agent EXCEPT !.routes = Tail(@)]
    /\ UNCHANGED <<place, inbox, report, mode, broker, spent>>

TakeGoal ==
    /\ nav.up /\ agent.goals > 0
    /\ nav' = Cancelled(nav, "cancelled")
    /\ agent' = [agent EXCEPT !.goals = @ - 1]
    /\ UNCHANGED <<place, inbox, report, mode, broker, spent>>

\* step: arrived wherever the polyline ends, or on to its next node.
Step ==
    /\ nav.up /\ nav.state = "EN-ROUTE"
    /\ IF place = Last(nav.route)
       THEN nav' = [nav EXCEPT !.state = "ARRIVED"] /\ UNCHANGED place
       ELSE /\ place' = Head(nav.route)
            /\ nav' = [nav EXCEPT !.route = IF Len(@) = 1 THEN @ ELSE Tail(@)]
    /\ UNCHANGED <<agent, inbox, report, mode, broker, spent>>

\* What nav would say, the agent if it were said now, and whether it learns from it.
Said == [state |-> nav.state, goal |-> nav.goal, note |-> nav.note]
Told == [agent EXCEPT !.aired = {r.label : r \in Range(agent.routes)}]
HasNews == NavHeard(Told, Said) # [Told EXCEPT !.aired = {}]

\* tick, every STATE_EVERY-th time: what nav says is true as it leaves and may
\* be old when it is heard.  One with nothing new for the agent is left out.
Report ==
    /\ nav.up /\ report = Nothing /\ HasNews
    /\ report' = Said /\ agent' = Told
    /\ UNCHANGED <<nav, place, inbox, mode, broker, spent>>

-----------------------------------------------------------------------------
(* The agent's callbacks. *)

Agent(a) == agent' = a /\ UNCHANGED <<nav, place, mode, broker, spent>>

\* The drain has something to do.
Drainable == inbox # << >> \/ agent.fork = "RUNNING" \/ PumpCancel(agent, Overdue) # agent

Drain ==
    /\ Drainable
    /\ \E late, cycled \in BOOLEAN :
        /\ (late => Overdue) /\ (cycled => agent.fork = "RUNNING")
        /\ Agent(Drained(late, cycled))
    /\ inbox' = << >> /\ UNCHANGED report

Odom    == agent.executing /\ Agent(OdomHeard(agent)) /\ UNCHANGED <<inbox, report>>
HearNav == report # Nothing /\ Agent(NavHeard(agent, report)) /\ report' = Nothing /\ UNCHANGED inbox

\* NAV_SETTLE_S, three of nav's periods, is over: nothing from before the route
\* is still under way.  Only a route that runs asks for it.
Settle ==
    /\ ~agent.settled /\ agent.executing /\ report = Nothing /\ (nav.up => agent.routes = << >>)
    /\ Agent([agent EXCEPT !.settled = TRUE]) /\ UNCHANGED <<inbox, report>>

HearMode ==
    /\ agent.auto # mode
    /\ Agent([agent EXCEPT !.auto = mode]) /\ UNCHANGED <<inbox, report>>

NavHearsMode ==
    /\ nav.up /\ nav.auto # mode
    /\ nav' = OnMode(nav, mode)
    /\ UNCHANGED <<agent, place, inbox, report, mode, broker, spent>>

-----------------------------------------------------------------------------
(* What happens to the truck. *)

Spend(what, bound) == spent[what] < bound /\ spent' = [spent EXCEPT ![what] = @ + 1]

Receive(msg) ==
    /\ broker /\ inbox' = Append(inbox, msg)
    /\ UNCHANGED <<agent, nav, place, report, mode, broker>>

NoOrderInTheAir == \A i \in DOMAIN inbox : inbox[i].kind # "order"

\* An order from where the truck is, to one that is idle_confirmed and has no task:
\* in AUTOMATIC, with no node left to drive, its station action over and everything
\* it was sent handled.  Nobody asks whether it stands.
FleetOrders ==
    /\ agent.auto /\ ~agent.executing /\ agent.fork # "RUNNING" /\ inbox = << >>
    /\ agent.order # Nothing => agent.reached = Len(agent.order.path)
    /\ broker /\ Spend("orders", Sendings)
    /\ \E to \in Nodes :
        LET path == Straight(place, to)
        IN  \E base \in DOMAIN path :
            inbox' = << [kind |-> "order",
                         order |-> [id |-> spent.orders + 1, update |-> 0, path |-> path,
                                    base |-> base]] >>
    /\ agent' = [agent EXCEPT !.rolling =
                    IF nav.state = "EN-ROUTE" \/ agent.routes # << >>
                    THEN @ \cup {spent.orders + 1} ELSE @]
    /\ UNCHANGED <<nav, place, report, mode, broker>>

\* The base grows, one update in the air at a time; what the update says of the
\* nodes already passed is what the order said, as _base_kept demands.
FleetExtends ==
    /\ agent.order # Nothing /\ agent.order.base < Len(agent.order.path)
    /\ NoOrderInTheAir /\ UNCHANGED spent
    /\ Receive([kind |-> "order",
                order |-> [agent.order EXCEPT !.update = @ + 1, !.base = @ + 1]])

\* The fleet cancels an order it has sent.
FleetCancels ==
    /\ agent.order # Nothing \/ ~NoOrderInTheAir
    /\ Spend("cancels", Cancels)
    /\ Receive([kind |-> "cancel"])

\* paho's callbacks put the news in the same queue.
BrokerLost ==
    /\ broker /\ Spend("upsets", Upsets)
    /\ broker' = FALSE /\ inbox' = Append(inbox, [kind |-> "lost"])
    /\ UNCHANGED <<agent, nav, place, report, mode>>

BrokerBack ==
    /\ ~broker /\ broker' = TRUE /\ inbox' = Append(inbox, [kind |-> "connected"])
    /\ UNCHANGED <<agent, nav, place, report, mode, spent>>

SwitchMode ==
    /\ Spend("upsets", Upsets) /\ mode' = ~mode
    /\ UNCHANGED <<agent, nav, place, inbox, report, broker>>

\* Nav dies; it comes back knowing nothing, and what was on its way to it or was
\* sent to it meanwhile is lost: only the mode is latched.
NavDies ==
    /\ nav.up /\ Spend("upsets", Upsets)
    /\ nav' = [NoWork EXCEPT !.up = FALSE]
    /\ UNCHANGED <<agent, place, inbox, report, mode, broker>>

NavReturns ==
    /\ ~nav.up
    /\ nav' = NoWork
    /\ agent' = [agent EXCEPT !.routes = << >>, !.goals = 0]
    /\ UNCHANGED <<place, inbox, report, mode, broker, spent>>

VehicleNext ==
    \/ TakeRoute \/ TakeGoal \/ Step \/ Report
    \/ Drain \/ Odom \/ HearNav \/ Settle \/ HearMode \/ NavHearsMode
    \/ FleetOrders \/ FleetExtends \/ FleetCancels
    \/ BrokerLost \/ BrokerBack \/ SwitchMode \/ NavDies \/ NavReturns

VehicleSpec == VehicleInit /\ [][VehicleNext]_vehicleVars

\* The timers run, the topics deliver and nav comes back, written as what they bring
\* about (weak fairness of the actions is the same here and slow to check).  Nothing
\* says that the truck gets on: its scanners may hold it for ever.
Deliveries ==
    /\ []<>(~Drainable)
    /\ []<>(report = Nothing)
    /\ []<>(agent.routes = << >> /\ agent.goals = 0)
    /\ []<>nav.up

VehicleFairSpec == VehicleSpec /\ Deliveries /\ []<>(nav.up /\ HasNews => report # Nothing)

-----------------------------------------------------------------------------
VehicleTypeOK ==
    /\ agent.reached \in 0 .. Line /\ agent.goals \in 0 .. GoalDepth
    /\ agent.order # Nothing => agent.reached <= agent.order.base
    /\ agent.fork \in {"NONE", "WAITING", "RUNNING", "FINISHED", "FAILED"}
    /\ nav.state \in {"IDLE", "EN-ROUTE", "ARRIVED"} /\ place \in Nodes

\* The fork cycle runs at the station and nowhere else: an ARRIVED that belongs
\* to an earlier base, a report of an earlier drive, an extension or a resume that
\* comes in between never make an arrival of what is none, however cancels and
\* losses fall.  Excepted are the orders sent to a truck that was not standing.
WorkAtStation ==
    agent.fork = "RUNNING" /\ agent.order.id \notin agent.rolling =>
        place = Last(agent.order.path)

\* Nav does not drive o and is not about to.
NotDriven(o) ==
    /\ ~(nav.state = "EN-ROUTE" /\ nav.goal = o)
    /\ \A i \in DOMAIN agent.routes : agent.routes[i].label # o

\* A cancelOrder is reported FINISHED when nav does not drive the order and is not
\* about to, and stays so, whenever the cancel, a loss or a resume came and however
\* often it was asked.  Excepted is the stop that a report confirmed which nav made
\* before it took the order's last route (CancelMeansStopped).
FinishedMeansStopped == \A o \in agent.finished \ agent.misread : NotDriven(o)

\* What _cancel_confirmed says of itself: FINISHED only when nav has said that it is
\* not driving the order, which then holds whatever reports were under way.
CancelMeansStopped == \A o \in agent.finished : NotDriven(o)

\* Every stop that is chased is answered, also when the next order comes first or
\* nav dies in between, and one of an order by a nav that is alive before the deadline.
StopsAnswered == []<>(agent.cancel = Nothing)

\* A truck whose broker stays away comes to a stand, unless it is where its route
\* ends already.  Excepted are the orders whose stop was confirmed by a report older
\* than their last route (nobody tells nav, and it drives on), and those sent to a
\* truck that was not standing.
LossStops ==
    []<>(\/ broker \/ nav.goal \in agent.misread \cup agent.rolling
         \/ nav.state # "EN-ROUTE" \/ place = Last(nav.route))
=============================================================================
