------------------------------ MODULE Escalation ------------------------------
(***************************************************************************)
(* A truck in front of a body: the autopilot's way out of a stop           *)
(* (ipc/nav_core.py under ipc/nav_node.py), the one warning its agent      *)
(* sends of it (ipc/vda_agent.py) and the fleet's two ways to take the     *)
(* order back, that warning and the stall watchdog (fleet_manager.py,      *)
(* progress.py).  The floor is a line, positions are counted along the     *)
(* truck's heading.  A tick is a step of nav; by its end the agent has     *)
(* heard of it and the fleet of what the agent says, unless that is lost.  *)
(***************************************************************************)
EXTENDS Integers

CONSTANTS
    Track,              \* positions 0 .. Track
    PATIENCE, NUDGE_TIMEOUT, STALL_GIVE_UP,     \* HOLD_PATIENCE_S and so on, in ticks
    NUDGE_M, PROGRESS_M,                        \* in positions
    NUDGE_MAX,
    Missions,           \* bound: orders of the fleet
    Turns,              \* bound: changes of the world, the mode and the goal
    Drops,              \* bound: states the wire loses
    Never

ASSUME EscalationAssumption ==
    /\ {STALL_GIVE_UP, NUDGE_MAX, Missions, Turns, Drops} \subseteq Nat
    /\ {Track, PATIENCE, NUDGE_TIMEOUT, NUDGE_M} \subseteq Nat \ {0}
    /\ PROGRESS_M \in Nat /\ NUDGE_M < PROGRESS_M
    /\ Never \notin Int

VARIABLES
    core,       \* NavCore: [auto, state, goal, end, astern, stop, nudges, from, spun];
                \* stop and spun are the ages of _stop_since and _nudge_since
    world,      \* [at, ahead, behind, gap, dead, motor]
    driver,     \* the agent: [order, executing, navState]
    air,        \* the state on its way to the fleet, if any: [at, of, says]
    watch,      \* the fleet: [order, anchor, held]
    next,               \* who steps next in this tick
    missions, turns, drops,     \* what is spent of the bounds
    wedged      \* history, for the properties only: the steps in a row that a
                \* body stopped, with nowhere to go

escalationVars == <<core, world, driver, air, watch, next, missions, turns, drops, wedged>>

Positions == 0 .. Track
UnderWay  == {"EN-ROUTE", "HOLD", "AVOID", "NUDGE", "BLOCKED", "SAFETY-STOP"}
Elsewhere == Missions + 1       \* the label of a goal that is no order's

\* _clear_escalation
Cleared(n) == [n EXCEPT !.stop = Never, !.nudges = 0, !.from = Never, !.spun = Never]

\* _cancel
Dropped(n) == [Cleared(n) EXCEPT !.state = "IDLE", !.goal = 0, !.astern = FALSE]

EscalationInit ==
    /\ core = [auto |-> TRUE, state |-> "IDLE", goal |-> 0, end |-> 0, astern |-> FALSE,
               stop |-> Never, nudges |-> 0, from |-> Never, spun |-> Never]
    /\ world = [at |-> 1, ahead |-> Never, behind |-> Never, gap |-> FALSE, dead |-> {},
                motor |-> TRUE]
    /\ driver = [order |-> 0, executing |-> FALSE, navState |-> "IDLE"]
    /\ air = {}
    /\ watch = [order |-> 0, anchor |-> Never, held |-> 0]
    /\ next = "nav"
    /\ missions = 0 /\ turns = 0 /\ drops = 0 /\ wedged = 0

Aged(age, cap) == IF age = Never THEN Never ELSE IF age < cap THEN age + 1 ELSE age
Apart(a, b) == IF a < b THEN b - a ELSE a - b

-----------------------------------------------------------------------------
(* The step of nav. *)

\* The sector of travel is inside the hold band; a scan that has stopped is, too.
Stops(astern) ==
    \/ "scan" \in world.dead
    \/ ~astern /\ world.ahead # Never /\ world.at >= world.ahead
    \/ astern /\ world.behind # Never /\ world.at <= world.behind

\* Mutant: a nudge is measured in metres only.
NudgeOverByDistance(n) == Apart(world.at, n.from) >= NUDGE_M

NudgeOver(n) == Apart(world.at, n.from) >= NUDGE_M \/ n.spun >= NUDGE_TIMEOUT

\* _escalate: wait, then round the body, then back, then say so.
Escalated(n) ==
    LET s == [n EXCEPT !.stop = IF @ = Never THEN 0 ELSE @]
    IN  IF "scan" \in world.dead THEN [n EXCEPT !.state = "HOLD"]
        ELSE IF s.stop < PATIENCE THEN [s EXCEPT !.state = "HOLD"]
        ELSE IF s.from # Never THEN
            IF NudgeOver(s)
            THEN [s EXCEPT !.from = Never, !.spun = Never, !.stop = 0, !.state = "HOLD"]
            ELSE [s EXCEPT !.state = "NUDGE"]
        ELSE IF world.gap THEN [s EXCEPT !.state = "AVOID"]
        ELSE IF s.nudges < NUDGE_MAX
        THEN [s EXCEPT !.nudges = @ + 1, !.from = world.at, !.spun = 0, !.state = "NUDGE"]
        ELSE [s EXCEPT !.state = "BLOCKED"]

\* step
NavStepped(n) ==
    LET turned == [n EXCEPT !.astern = n.end < world.at]
    IN  IF n.state \notin UnderWay \/ "pose" \in world.dead THEN n
        ELSE IF world.at = n.end THEN [n EXCEPT !.state = "ARRIVED", !.astern = FALSE]
        ELSE IF ~world.motor THEN [n EXCEPT !.state = "SAFETY-STOP"]
        ELSE IF Stops(turned.astern) THEN Escalated(turned)
        ELSE [Cleared(turned) EXCEPT !.state = "EN-ROUTE"]

\* Where the truck may be by the next step: the plant may be slow, wedged or
\* refused further down.  A nudge goes astern whatever the route wants.
Reached(n) ==
    LET towards == IF n.astern THEN world.at - 1 ELSE world.at + 1
    IN  {world.at} \cup
        (Positions \cap
            IF "pose" \in world.dead THEN {}
            ELSE IF n.state \in {"EN-ROUTE", "AVOID"} THEN {towards}
            ELSE IF n.state = "NUDGE" THEN {world.at - 1} ELSE {})

\* A step that leaves the truck in front of a body, seen and with no way round.
Wedged(n) ==
    /\ n.state \in {"HOLD", "NUDGE", "BLOCKED"} /\ ~world.gap /\ world.motor
    /\ world.dead = {}

\* The most steps the way out takes: patience before each nudge and after the
\* last one.
WayOut == (NUDGE_MAX + 1) * PATIENCE + NUDGE_MAX * NUDGE_TIMEOUT

NavSteps ==
    /\ next = "nav" /\ next' = "agent"
    /\ LET n == NavStepped([core EXCEPT !.stop = Aged(@, PATIENCE), !.spun = Aged(@, NUDGE_TIMEOUT)])
       IN  /\ core' = n
           /\ \E at \in Reached(n) : world' = [world EXCEPT !.at = at]
           /\ wedged' = IF Wedged(n) THEN Aged(wedged, WayOut + 1) ELSE 0
    /\ UNCHANGED <<driver, air, watch, missions, turns, drops>>

-----------------------------------------------------------------------------
(* The agent hears nav, and says what it has heard. *)

\* cb_nav and publish_state: the edge into BLOCKED on its own order is said once;
\* an arrival as long as it is true.
AgentHears ==
    LET mine    == driver.order # 0 /\ core.goal = driver.order
        blocked == driver.executing /\ mine /\ core.state = "BLOCKED" /\ driver.navState # "BLOCKED"
        arrived == mine /\ core.state = "ARRIVED"
    IN  /\ next = "agent" /\ next' = "fleet"
        /\ driver' = [driver EXCEPT !.navState = core.state,
                                    !.executing = @ /\ ~arrived /\ core.state # "IDLE"]
        /\ air' = {[at |-> world.at, of |-> driver.order,
                    says |-> IF blocked THEN "path blocked"
                             ELSE IF arrived THEN "arrived" ELSE "nothing new"]}
        /\ UNCHANGED <<core, world, watch, missions, turns, drops, wedged>>

\* qos 0
Drop ==
    /\ air # {} /\ drops < Drops
    /\ air' = {} /\ drops' = drops + 1
    /\ UNCHANGED <<core, world, driver, watch, next, missions, turns, wedged>>

-----------------------------------------------------------------------------
(* The fleet. *)

\* Mutant: every move is progress.
NotedAnyMove(w, at) ==
    IF w.anchor = Never \/ at # w.anchor THEN [w EXCEPT !.anchor = at, !.held = 0] ELSE w

\* Progress.note
Noted(w, at) ==
    IF w.anchor = Never \/ Apart(at, w.anchor) >= PROGRESS_M
    THEN [w EXCEPT !.anchor = at, !.held = 0]
    ELSE w

Forgotten == [order |-> 0, anchor |-> Never, held |-> 0]

\* _check_blocked, then _check_arrival: a word about another order is none.
Read(w, msg) ==
    LET noted == Noted(w, msg.at)
    IN  IF w.order # 0 /\ msg.of = w.order /\ msg.says \in {"path blocked", "arrived"}
        THEN Forgotten ELSE noted

\* _stall_pass, for a truck the floor does not hold.
Stalled(w) == IF w.order = 0 \/ w.held >= STALL_GIVE_UP THEN Forgotten ELSE w

FleetDrains ==
    /\ next = "fleet" /\ next' = "nav"
    /\ LET older == [watch EXCEPT !.held = Aged(@, STALL_GIVE_UP)]
           heard == IF air = {} THEN older ELSE Read(older, CHOOSE msg \in air : TRUE)
       IN  watch' = Stalled(heard)
    /\ air' = {}
    /\ UNCHANGED <<core, world, driver, missions, turns, drops, wedged>>

\* The order goes out, the agent takes it and nav the route (on_route).
TakesOrder ==
    /\ watch.order = 0 /\ missions < Missions /\ core.auto
    /\ ~driver.executing /\ (driver.order = 0 \/ core.state = "ARRIVED")
    /\ missions' = missions + 1
    /\ \E end \in Positions \ {world.at} :
        core' = [Cleared(core) EXCEPT !.state = "EN-ROUTE", !.goal = missions', !.end = end,
                                      !.astern = FALSE]
    /\ driver' = [driver EXCEPT !.order = missions', !.executing = TRUE]
    /\ watch' = [watch EXCEPT !.order = missions']
    /\ wedged' = 0
    /\ UNCHANGED <<world, air, next, turns, drops>>

\* The chased cancel of an order that was taken back lands: an empty goal for nav.
CancelLands ==
    /\ driver.order # 0 /\ driver.order # watch.order
    /\ ~(core.state = "ARRIVED" /\ core.goal = driver.order)
    /\ core' = Dropped(core) /\ wedged' = 0
    /\ driver' = [driver EXCEPT !.order = 0, !.executing = FALSE]
    /\ UNCHANGED <<world, air, watch, next, missions, turns, drops>>

-----------------------------------------------------------------------------
(* What happens round the truck. *)

Happens == turns < Turns /\ turns' = turns + 1

\* on_goal: the operator sends the truck to a station.
OperatorGoal ==
    /\ Happens /\ core.auto
    /\ \E end \in Positions :
        core' = [core EXCEPT !.state = "EN-ROUTE", !.goal = Elsewhere, !.end = end,
                             !.astern = FALSE]
    /\ wedged' = 0
    /\ UNCHANGED <<world, driver, air, watch, next, missions, drops>>

\* on_mode
OnMode ==
    /\ Happens
    /\ core' = [IF core.auto /\ core.state # "IDLE" THEN Dropped(core) ELSE core
                    EXCEPT !.auto = ~@]
    /\ wedged' = 0
    /\ UNCHANGED <<world, driver, air, watch, next, missions, drops>>

\* A body comes or goes, at either end; free floor beside it does; a sensor stops
\* or speaks again; the safety chain stops the truck or lets it go.
WorldTurns ==
    /\ Happens
    /\ \/ \E p \in Positions \cup {Never} : world' = [world EXCEPT !.ahead = p]
       \/ \E p \in Positions \cup {Never} : world' = [world EXCEPT !.behind = p]
       \/ world' = [world EXCEPT !.gap = ~@]
       \/ \E dead \in SUBSET {"pose", "scan"} : world' = [world EXCEPT !.dead = dead]
       \/ world' = [world EXCEPT !.motor = ~@]
    /\ UNCHANGED <<core, driver, air, watch, next, missions, drops, wedged>>

Ticks == NavSteps \/ AgentHears \/ FleetDrains

EscalationNext ==
    \/ NavSteps \/ AgentHears \/ Drop \/ FleetDrains \/ TakesOrder \/ CancelLands
    \/ OperatorGoal \/ OnMode \/ WorldTurns

EscalationSpec ==
    EscalationInit /\ [][EscalationNext]_escalationVars /\ WF_escalationVars(Ticks)

-----------------------------------------------------------------------------
(* Properties. *)

Times(cap) == {Never} \cup 0 .. cap
Spots == Positions \cup {Never}

CoreType ==
    [auto : BOOLEAN, state : UnderWay \cup {"IDLE", "ARRIVED"}, goal : 0 .. Elsewhere,
     end : Positions, astern : BOOLEAN, stop : Times(PATIENCE), nudges : 0 .. NUDGE_MAX,
     from : Spots, spun : Times(NUDGE_TIMEOUT)]
WorldType ==
    [at : Positions, ahead : Spots, behind : Spots, gap : BOOLEAN,
     dead : SUBSET {"pose", "scan"}, motor : BOOLEAN]
StateType ==
    [at : Positions, of : 0 .. Missions, says : {"path blocked", "arrived", "nothing new"}]

\* Every part of the state keeps its type, and a nudge is one while it is timed
\* and measured, which it is only after the patience of its stop has run out.
EscalationTypeOK ==
    /\ core \in CoreType /\ world \in WorldType
    /\ core.from = Never <=> core.spun = Never
    /\ core.from # Never => core.stop = PATIENCE /\ core.nudges # 0
    /\ core.state = "NUDGE" => core.from # Never
    /\ driver \in [order : 0 .. Missions, executing : BOOLEAN,
                   navState : UnderWay \cup {"IDLE", "ARRIVED"}]
    /\ air \subseteq StateType
    /\ watch \in [order : 0 .. Missions, anchor : Spots, held : 0 .. STALL_GIVE_UP]
    /\ next \in {"nav", "agent", "fleet"}
    /\ missions \in 0 .. Missions /\ turns \in 0 .. Turns /\ drops \in 0 .. Drops
    /\ wedged \in 0 .. WayOut + 1

\* A truck a body has stopped, with no way round it, has tried everything and says
\* BLOCKED before long, also when it cannot execute the move it tries.
BlockedInTime == wedged > WayOut => core.state = "BLOCKED"

\* No order is under way for ever: a truck that does not get past a body loses it
\* by its own word or, if that is lost or never said, by the watchdog, however it
\* shuffles in front of it.
HeldTruckIsGivenUp == []<>(watch.order = 0)

\* What the test of a new goal and _clear_escalation say: a new goal starts with
\* its nudges unspent and its patience whole.
NewGoalStartsAnew ==
    [][OperatorGoal => core'.nudges = 0 /\ core'.stop = Never]_escalationVars
=============================================================================
