# Verification of the forklift cell and its fleet

This directory holds the TLA+ specification of the control software under `src/`.
Two generations of it run: the fleet of `src/m6/` (a fleet manager that reserves
floor for forklift trucks and sends them VDA 5050 orders over MQTT, the agent and
the autopilot on each truck, and the safety chain that stops it), and the cell of
one truck that m6 grew out of and whose parts are still used (a virtual PLC with a
safety and a standard program, the operator's HMI, the OPC UA bridge, and the
envelope gate above the truck's joint).

    tlc -config MCFleet_tee.cfg MCFleet       # model-check one configuration
    tlapm TrafficProofs.tla                   # check the proofs of one module

Contents: [the system](#the-system), [modules](#modules-and-the-code),
[runs](#runs), [bounds](#bounds), [fairness](#fairness), [proofs](#proofs),
[where code and documents disagree](#where-code-and-documents-disagree),
[what is not modelled](#what-is-not-modelled), [plan](#plan).

## The system

The fleet:

    fleet manager -- orders, cancels (MQTT, qos 0) --> agent --> nav --> mux --> gate --> contactor --> plant
      |  floor, ledger  <-- state ------------------ agent <-- nav          ^        ^
                                                                            |        |
    scanners --> field_eval --> sensor_link --> writer + F-PLC --> plc_link --+--------+
    encoders --> encoder_link ---^

The cell:

    page --HTTP--> HMI server --OPC UA--> standard program <--OPC UA--> bridge <--ROS--> truck's nodes
                                               ^                          |
    operator, field link, speed link --> stand-in writer --> F-program    | permit, ceiling, mode
                                                                          v
                                  smoother --> envelope gate --> converter --> joint

| Component | Source | State it keeps | Operations | Interacts through |
| --- | --- | --- | --- | --- |
| Reservation ledger | `m6/fleet/traffic.py` | owner of every node and edge, a list per vehicle in travel order, who waits for whom, who yielded, who stands where | hold, release_through, release_all, resolve_deadlock, set_standing, clear_yield, clear_wait | called by the floor |
| Floor | `m6/fleet/floor.py` | the traffic record of each leg (path, confirmed base, extension in the air), step-asides, idle clocks, closed nodes, hulks | leg_order, note_state, retry_hold, end_leg1, traffic_pass, _resolve, _step_aside, _pump_aside | called by the manager; writes orders |
| Fleet manager | `m6/fleet/fleet_manager.py`, `fleet_core.py`, `progress.py` | queue, tasks, last state of every vehicle, cancels being chased, refusals, progress anchors | drain at 10 Hz: read states, traffic pass, dwell, stall watchdog, assignment | MQTT, one inbox filled by a network thread |
| Order builder | `m6/fleet/order_builder.py` | none | orders with a released base and a horizon | called by the floor |
| VDA agent | `m6/ipc/vda_agent.py`, `vda_orders.py` | the order, its update, progress, actions, a cancel waiting for nav | order door, extension, instant actions, arrival, state | MQTT; ROS topics to nav |
| Navigation | `m6/ipc/nav_core.py`, `nav_node.py` and geometry | mission, escalation, pose | goal, route, mode, a 20 Hz step | ROS topics |
| Safety chain | `m6/ipc/field_eval.py`, `encoder_link.py`, `sensor_link.py`, `m6/windows/m6.py`, `virtual_fplc.py`, `m6/ipc/plc_link.py`, `cmd_mux.py`, `cmd_gate.py`, `agv/forklift/scripts/sto_contactor.py` | latched field verdicts, newest datagrams and their age, latches of the F-program, gate permissions, torque latch | one timer or callback each | ROS topics and UDP, nothing acknowledged |
| Stand-in writer and F-program | `m5/m5_ver1/virtual_plc/virtual_plc.py`, `f_program.py` | the safety image; two TCP links and their ages; a reset pulse; an offset into a command file; timers, demand latches, the reset's memories | commands, lines, writer cycle, scan | shared memory, TCP, a file |
| Standard program | `m5/m5_ver1/virtual_plc/standard_program.py` | link timers, fault latches, the mode in force, reset and teleop memories | one scan | OPC UA |
| HMI | `hmi/hmi_server.py`, `hmi/static/index.html` | controls and their arming, a session, deadman of the page | posts, write cycle, session loop | HTTP, OPC UA |
| Bridge | `bridge/amr_bridge/opcua_side.py`, `config.py`, `main.py`, `slots.py` | newest samples, write cache, heartbeat | one cycle; session open and loss | OPC UA, ROS |
| Envelope gate | `agv/forklift/scripts/envelope_gate.py`, `cmd_vel_to_tricycle.py`, `forklift_io.py` | last value and age of four elements, the ramp, the applied mode | callbacks and a timer | ROS topics |
| Windows, command line, work generator, tools, monitor, world | `m6/hmi/`, `m6/fleet/fleet_cli.py`, `work_generator.py`, `m6/tools/`, `viz/`, `m6/gazebo/`, `sim/` | displays and drivers of the above | | |

What is hard about it:

* *The wire.* Orders, extensions, cancels and states are qos 0: each may be lost,
  and a state may be read long after it was sent. The manager frees floor by what
  states say, so a stale state is a claim about floor that is no longer true.
* *Extensions.* A truck is told to drive a base, and the base grows while it
  drives. Manager and truck must agree on how far it may go, one update in the air
  at a time, while the ledger is freed behind it and taken ahead of it.
* *Deadlock.* Trucks in corridors and spurs wait for each other's floor. Wait-die
  breaks the cycles it can, by taking back floor that no truck has been told to
  drive. The others need somebody to step aside, or to lose his task.
* *Cancels.* A task goes back to the queue while a truck may still be driving its
  order; the manager has only a cancelOrder, which may be lost, and a state, which
  may be old, to find out.
* *A body in the way.* The autopilot tries to get round it, back off, or give up; each
  try has a clock and a distance, the word BLOCKED is sent once, and the fleet's
  watchdog has to see through a truck that shuffles.
* *Silence.* No message announces that a node died. Every consumer in the safety
  chain, in the programs of the PLC and in the gate watches a clock of its own, and
  the clocks add up along the chain.
* *Two topics.* Routes and empty goals, nav's reports and the odometry each travel on
  a topic of their own, in no order with each other. The agent acts on the last
  report it heard, which may be older than what it has just asked for. So it is
  with the four elements of the envelope.
* *Caches.* The bridge writes a level only when it changes, into a server that may
  forget it. It finds out by reading its own heartbeat back.
* *Restart, and buttons that are held.* A process that comes back must not enable
  what a demand has latched, and a reset or an enable held from before must not
  count as one pressed now.

What makes each component correct, and the property that says so:

| Component | Must hold | Property |
| --- | --- | --- |
| Ledger | the two indexes name the same floor | `IndexesAgree` |
| | what is left of a grant stays ahead of the truck | `GrantStaysAhead` |
| | floor changes hands only through nobody; the ledger is an exclusive claim | `ImplementsClaims`, `NeverTakenOver` |
| Wait-die | finds a cycle exactly when there is a deadlock, spares the oldest and the ground, and what is resolved stays resolved | `CycleFoundIffDeadlocked`, `YieldsSpare`, `TurnsSuffice` |
| Floor | every live base is backed by the ledger | `LiveBaseBacked` |
| | the way out of a spur stays the truck's through the dwell | `WayOutKept` |
| | a truck moved aside owns the floor it was promised | `MoveKeepsItsFloor` |
| | two trucks in each other's way do not stay so; a move ends | `StandoffsEnd`, `MovesEnd` |
| Manager and agent | what a truck may drive is its own | `DrivableIsOwned` |
| | both count the updates alike | `UpdatesInStep` |
| | no withdrawn order is driven un-chased, and every cancel lands | `CancelChased`, `CancelsLand` |
| Agent and nav | an arrival is one at the station, whatever was late; a cancel reported as finished has stopped the drive, but for the confirmation that is too old | `WorkAtStation`, `FinishedMeansStopped` |
| | every stop is answered; a truck whose broker stays away comes to a stand | `StopsAnswered`, `LossStops` |
| Nav, agent and watchdog | a truck that a body has stopped says so before long, and no order is under way for ever | `BlockedInTime`, `HeldTruckIsGivenUp` |
| Safety chain | a body in the field, and silence, stop the truck in time; no restart without a reset | `BodyStops`, `SilenceStops`, `NoRestartWithoutReset` |
| F-program | silence takes the torque off; a held press lets the demands go, and nothing else does | `SilenceStopsTorque`, `HeldPressClears`, `ClearedByAHeldPress` |
| HMI and standard program | nothing moves that was not asked for; one press clears once; silence ends motion | `MotionIsAskedFor`, `OnePressOneReset`, `SilenceStopsDrive` |
| Bridge | a moving heartbeat vouches for the image; a silent producer reads as the fault; a forgotten image comes back | `HeartbeatVouches`, `SilenceAsserted`, `ImageRecovers` |
| Envelope gate | the envelope bounds the truck on every arc; teleop is handed over at rest | `EnvelopeHolds`, `ReleasedAtRest` |

## Modules and the code

### The fleet

**`Ledger`** is `class Reservations`: one record with `owner`, `held`, `waiting`,
`yielded`, `standing`, and one operator per method, from a ledger to the ledger
the method leaves behind. It has no variables, so that the same operators serve
the modules below. `Consistent` says that owner and lists agree.

**`Reservations`** puts a ledger in a variable and calls every method, in any
order, with every argument the floor can pass: requests are the nodes and edges
of a path in the graph. `granted` remembers each vehicle's last grant.

**`Claims`** is the abstract specification: pieces of floor with at most one
claimant each, and calls that give back one's own or take what nobody has.
`Reservations` implements it with `claim <- ledger.owner`.

**`WaitDie`** starts from every wait-for graph the floor can be in when all trucks
have stopped, with every assignment of tasks and ages, and runs the loop of
`_resolve` on it.

**`Floor`** is `class Floor` with the bookkeeping of the manager it calls back
into, in the same style: a *book* (ledger, queue, tasks with their legs, last
states, chased cancels, step-asides, and what the step hands to the broker) and
one operator per method, named after it. `_resolve` is a loop over
`resolve_deadlock` here too, `traffic_pass` is the whole pass in its order.

**`Fleet`** composes a manager with trucks and the wire between them.

| Action | Code |
| --- | --- |
| `ReadState(v)` | one state taken from the inbox: `_on_state` with `note_state`, `_chase_cancel`, `_check_rejection`, `_check_arrival` |
| `Drain` | the rest of one 10 Hz `drain`: `traffic_pass`, `_expire_dwells`, `_stall_pass`, `_assign` |
| `Publish(v)` | the agent's `publish_state` |
| `Deliver(v)` | the agent takes the next message: an order (`accept_order`), an update (`_extend`) or a cancel (`_begin_cancel`) |
| `Drive(v)`, `Arrive(v)`, `Work(v)`, `Stopped(v)` | nav reaches the next node of the base; `_settle_arrival`; the station action ends; nav confirms that it stopped |
| `Lose(v)` | the wire loses a message |

A state is the truck's at the moment it is published and is read at any later
time. `_on_state` runs whole, as it does in the code, which is single-threaded:
the network thread only fills the inbox. The same is true of `Drain`. Clocks are
not counted: a drain chooses which of `STANDSTILL_S`, `ASIDE_S`, `ACTION_WAIT_S`
and `STALL_GIVE_UP_S` have run out for which truck, as long as that truck really
is held up and nothing of its own is on the wire (`HeldUp`). The stall clock is that of
every truck with a task, one in its dwell too, as in `_stall_pass`; only a truck whose next leg
goes out in this very drain is left out, since that order is on the wire before the give-up is.

**`Vehicle`** is a truck's agent with nav and the topics between them; the fleet is
its environment. `agent` and `nav` are records, and each method is an operator
from an agent (a nav) to the agent it leaves, named after it: `OnOrder`, `Extend`,
`BeginCancel`, `PumpCancel`, `CancelConfirmed`, `SettleArrival`, `SupervisionLost`,
`Announce`. The actions are the callbacks. Cancels, losses of the broker, changes of mode
and deaths of nav come at any moment, also before nav has taken or reported the last route.
Four fields of `agent` are history: `misread` are the orders whose stop was confirmed by a
report nav had made before it took the order's last route (`behind` and `aired` say which
routes a report is older than), `rolling` those that were sent while nav still drove something
or had a route under way. The code goes wrong in both cases (see
[below](#where-code-and-documents-disagree)), so `FinishedMeansStopped` excepts the first,
`WorkAtStation` the second, and `LossStops` both; nothing else is excepted. `StopsAnswered`
has no exception: a stop is answered by nav's word, or by `CANCEL_CONFIRM_S` when there is no
nav to answer, or none that is asked.

| Action | Code |
| --- | --- |
| `Drain` | the agent's `drain`: the whole inbox, `_pump_cancel`, the end of the station action |
| `Odom`, `HearNav`, `HearMode` | `cb_odom`, `cb_nav`, `cb_mode` |
| `Settle` | `NAV_SETTLE_S` has passed since the last route |
| `TakeRoute`, `TakeGoal`, `NavHearsMode`, `Step`, `Report` | `on_route`, the empty `on_goal`, `on_mode`, `step`, and the report every second tick |
| `FleetOrders`, `FleetExtends`, `FleetCancels` | the environment: an order to a truck that is `idle_confirmed` and has no task, an update, a cancel |
| `BrokerLost`, `BrokerBack`, `SwitchMode`, `NavDies`, `NavReturns` | what happens to the truck |

`executing` is the agent's belief, `nav.state` the truth, and `navState` what the
agent last heard of it; the properties are about the differences.

**`Escalation`** is what happens to an order when a body is in the way. The floor is a
line, a position is the truck's place along its heading, and a tick is one step of
nav; nav, agent and fleet take turns in it.

| Action | Code |
| --- | --- |
| `NavSteps` | `step` of `nav_core.py` with `_escalate`, and where the truck may have got to by the next |
| `AgentHears` | `cb_nav` and the state it publishes: the edge into BLOCKED is said once |
| `Drop` | the wire loses that state |
| `FleetDrains` | `Progress.note`, `_check_blocked`, `_check_arrival`, `_stall_pass` |
| `TakesOrder`, `CancelLands` | the next order as a route (`on_route`); the chased cancel as an empty goal (`_cancel`) |
| `OperatorGoal`, `OnMode` | `on_goal` with a station, `on_mode` |
| `WorldTurns` | bodies ahead and behind, free floor beside, dead sensors, the safety stop |

The plant may execute a move or not. A nudge goes astern whatever the route wants, as
in the code. `wedged` is history: the steps in a row in front of a body with no way
round.

**`SafetyChain`** is the truck's safety chain in steps of 50 ms. `cell` is a record
with the state of every node; each timer and callback is an operator on it. In a
`Tick` every process that is alive and whose timer is due takes its turn, in an
order fixed for the behaviour, and then everything is 50 ms older; ages stop
at the threshold that makes them stale. Between ticks a body moves, the operator
pushes a button or changes the mode, a process dies or comes back as its
`__init__` leaves it. Commands are always for full speed, so that the truck's own
caution (nav slows near a body) is no part of the argument. `inside` is history, for
each scanner on its own: for how long a body has been in its smallest field. Its `TypeOK`
says that terminal, latches and counters stay in their ranges; it is proved and no run
checks it.

### The cell

**`Timers`** is the on-delay timer of both programs, with its output `Q`. An age stops
one past its preset, so a timer has finitely many values.

**`SafetyProgram`** is one scan of `f_program.py`: each of its forty-nine networks is an
operator of the image and the statics before the scan, named after the coil it
sets. The source passes a network's coil to the next network in the same scan; here
the next operator calls it.

**`StandIn`** is the writer of `virtual_plc.py` around it.

| Action | Code |
| --- | --- |
| `Console(cmd)` | `command`, from the console thread |
| `AppendLine(cmd)`, `StandInCycle(late)` | a line in the command file; `cycle` with the lines it reads; a line appended between `tell` and the read is obeyed and read again |
| `FieldConnect`, `FieldSays`, `FieldCloses` | `field_up`, `field_line`, `field_down`; a dropped link's socket stays open |
| `SpeedConnect`, `SpeedSays`, `MotionSays`, `SpeedCloses` | the speed link |
| `WriterSilent` | a cycle that does not come |
| `SafetyScan` | one scan of the safety program |
| `ProcessStarts` | the process is started again, with the command file it finds |

A writer cycle and a scan alternate, as the two timed loops do in the middle; a
`WriterSilent` is a late one. `past` is history: how long a press was held, how
long the causes have been gone, how long the writer is silent.

**`DriveProgram`** is the control part of `standard_program.py` in the same style: link
supervision, plausibility and its latches, the mode arbiter, reset, teleop,
autonomous arming, motion enable.

**`Desk`** is that program with an operator. The page posts controls (`Click...`,
`PressReset`, `ReleaseReset`, `ReleaseAll`, `Touch` for a post that is repeated); the
HMI process keeps them with their arming (`Controls`), writes its requests
and then its heartbeat in two steps (`WritesRequests`, `WritesHeartbeat`), loses
and opens sessions (`SessionBreaks`, `FinalZeros`, `Connects`), dies and is started
again, `RECONNECT` scans later at the earliest; `PlantReads`, `VehicleTurns`, `SafetyTurns` are the other writers of the image
the program scans in `DriveScans`. `story` is history: which of the operator's acts
has had no effect yet, and what came before which.

**`Bridge`** is one session of `opcua_side.py` and the server it writes to, one action
per exchange with the server: read the own heartbeat back, read the outputs, one
input at a time (`TakeInput`), and the heartbeat last. `RestartServer`,
`KeepaliveFails`, `SessionBreaks` and `Kill` may come between any two. `past.blind`
and `past.early` mark the restarts that the read-back cannot show.

**`Envelope`** is the gate law of `envelope_gate.py` (`_step` on each command and on
the timer), the converter below it (`cmd_vel_to_tricycle.py`), the joint, and the bridge's
setpoint beside it. Speeds are small magnitudes; sign and arc pass through both the clamp
and the ramp. An arc stands for the steer angle it takes, by 1 / cos of the angle as a
whole number: the steered wheel rolls that much further than the truck. The converter
publishes that wheel speed and that angle (`JointSpeed`, `SteerOf`), the angle up to the
steer stop and the speed up to the wheel's limit, and holds the axis still in the creep
band. The joint may therefore turn faster than the ceiling, up to the wheel's limit, and
nothing in the gate prevents it; what the gate bounds, and `EnvelopeHolds` says, is the truck:
wheel speed over 1 / cos stays below a speed that is not allowed. `lag` is history: since when
the envelope has not allowed a speed.

### For the model checker

`MCFleet` has the floors and the planner, `MCSafetyChain` the orders and phases of the timers,
`MCDesk` the casts, `MCVehicle` is `Vehicle` as it stands. `MCLedger`, `MCLinks` and
`MCStops` hold several specifications with disjoint variables in one state space:
`kind` or `part` is chosen in the initial state and never changes, only that
specification takes steps, and what the others hold stays as it began. Each
part is therefore checked as if it were alone, and no interaction is claimed.

## Runs

| Run | Expect | What it asks |
| --- | --- | --- |
| `ledger` | pass | All methods of the ledger, any order, two trucks at a junction with a spur. `GrantStaysAhead` is the rule that was added after a truck freed the junction it was about to enter. Beside it every wait-for graph of four vehicles, and its resolution with every choice of who carries a task and how old: two cycles at once, and a tail that waits on a cycle without being in it. |
| `tee` | pass | Two trucks, two transports that cross, one spur, one message lost anywhere, states and orders late; fair. The way out of the spur, stand-offs, moves aside, updates in step, cancels. |
| `solo` | pass | One transport, one message lost, one give-up clock running out: what the truck may really drive, by its own idea of its order, is its own in the ledger. |
| `ring` | pass | Two trucks on a ring, the smallest floor where wait-die breaks a deadlock by a yield; one clock runs out. |
| `chain` | pass | The safety chain with one process dying at any moment, and two moves of a body, the operator or the mode, on the phases of the timers that leave the least time. |
| `links` | pass | Agent and nav, fair: two orders, one cancel at any moment, and one change of mode, loss of the broker or death of nav at any other. The bridge, fair: two restarts, breaks or kills. |
| `stops` | pass | The stand-in writer with the F-program under four casts; the gate with a smoother that wants full speed, ahead or on an arc beyond the steer stop; the autopilot in front of a body, fair. |
| `desk` | pass | Page, HMI process and standard program, five casts with one upset each. |
| `confirmed`, `promise`, `unchased`, `extension` | violation | see [below](#where-code-and-documents-disagree) |

`DrivableIsOwned` is stronger than `LiveBaseBacked`: the one speaks of the truck's
own order and position, the other of the manager's book. `AskedOntoOnce` is the
claim of `traffic.py` itself, without the excuse for trucks that yielded.
`ClearedByAHeldPress` and `HeldPressClears` are the two halves of SF-08, so that
neither can hold because resets never work.

## Bounds

* *Floors.* `TeeLinks` (a corridor with a spur off its middle), `RingLinks` and
  `LineLinks`, four nodes each. Two trucks that want to pass each other need a
  junction and a refuge, and four nodes give both, or take both away. Cycles of
  more than two are left to `WaitDie`, where they need no floor: five nodes, so
  that two disjoint cycles fit and so does a tail.
* *Transports.* Two, in opposite directions, so that each truck's leg 1 and leg 2
  crosses the other's. `solo` has one transport and an idle truck.
* *Ids* is larger than the number of orders that can be named at once; a fresh
  order takes an id nobody names, as a uuid would.
* *Backlog* bounds the messages under way to a truck when a drain starts: a
  10 Hz manager that floods a truck which never takes a message is not the subject.
* *Losses* is one. It stays below `CANCEL_RETRY_MAX`, so the give-up of a chase
  cannot happen.
* *Delays* and *Clocks*: how often, and which, of the long clocks run out.
* *AsideMax* is 1 of the code's `ASIDE_MAX`, so that the refusal behind it is reached.
* *Line*, *Sendings*, *Cancels*, *Upsets* of `Vehicle`: two nodes, so that an order has a
  base and a horizon; two orders, so that something of the first can be taken for
  the second's; one upset. *GoalDepth*: an empty goal under way is as
  good as two, since the agent sends another as soon as it is taken. A stop
  of an order is given up (`CANCEL_CONFIRM_S`, 5 s, fifty reports) only while nav is dead, one of
  no order also while nav drives the next order (`Overdue`). Cancels and losses come at any
  moment. A report that would tell the agent nothing is not sent (`HasNews`).
* *Bridge*: one cyclic input, one level, one level whose silence asserts; a heartbeat
  modulo 3, so that a restart's zero can be the value last written; two mishaps, so
  that the second meets the repair of the first; *WINDOW* 0, so that a sample is silence
  from the next tick on. The theorems have no such bound.
* *Timers.* In `StandIn`, `Desk`, `Envelope` and `Escalation` a time is a small number of
  cycles, zero or one where nothing else is told apart by it, and the order between
  two times of the code is kept where a property depends on it (`RESET_HOLD_MIN` below
  `RESET_HOLD_MAX`; `RECONNECT` at least two scans above `HMI_STALE_TIME`, as 1 s is above
  600 ms). All four modules are proved for every value.
* *Casts* of `StandIn`: an operator beside a field evaluation that may stall the writer,
  beside a speed source, a stalling writer with only a speed source, and a command
  file of one line with one restart. *Speeds* are a standstill and one above
  `SPEED_LIMIT_MAX` and above the discrepancy, so every network of the speed
  monitor fires. *Casts* of `Desk`: which upset can happen, which controls are
  used, whether there is a vehicle. All casts together, with all upsets, are too
  many states; each pair of things that share a latch or a memory is in one cast. A cast
  has one upset; the theorems of `DeskProofs` have no such bound.
* *Escalation*: four positions, a nudge of one, progress of two, one nudge, two
  orders, one turn of the world, one state lost. Two orders, so that the memory of one
  can be held against the other; one loss, so that the word BLOCKED is lost.
* *Moves*, *Faults* of the chain: two moves (a body comes and goes) and one process
  that dies, and may come back. *Reaction* is 18 ticks, 0.9 s: the least value for which
  `BodyStops` holds with one process dying at the worst moment and the timers at the worst
  phases, `field_eval` and the scanner a tick after the mux and the gate (`EyesLate`); with
  17 TLC shows a scanner that dies and is started again under a body. The README of m6 gives 0.45 s for the
  silence of the writer and 0.35 s for that of `plc_link`; `SilenceStops` holds the
  model to both.
* *Orders* of the turns within a tick: along the data and against it. The theorems of
  `ChainProofs` have every order, every phase and any number of moves and of scanners. The contactor
  never dies in the model: a dead one keeps its terminal, as a dead gate does,
  and nothing in the chain listens for either. `SilenceStops` excepts the gate.

## Fairness

`solo`, `ring`, `ledger`, `chain` and `desk` are safety runs: everything may stop at any
time. `FairSpec` of `Fleet` adds what the code's timers justify: the manager drains and
reads every state sent (10 Hz loop), agents publish (1 Hz and on change), the wire
delivers what it does not lose, trucks drive, arrive, work and stop. Two of these are
written out as `[]<>` formulas and not as WF, because ENABLED of an action that folds
over the whole book is beyond TLC. The chase of a cancel is retried: a chase that is
read without its clock for ever is read with it at some time. Nothing is assumed of
an operator, and no clock is assumed to run out.

In `Vehicle` the drains, the reports and the topics are fair and nav comes back; the
fairness is written out for the same reason, as what it brings about (`Deliveries`, `Drainable`).
Driving is not fair: a truck may be held up by its scanners for ever, so `LossStops`
cannot be had by the truck reaching the end of its route.

In `Bridge` the run loop goes on (`WF` of `Cycle`): it is a `while True` with a sleep
and retries. No producer is assumed to speak. In `Escalation` the three turns of a tick
go on (nav at 20 Hz, the agent on every report, the fleet's drain at 10 Hz). Nothing
is assumed of the plant: `HeldTruckIsGivenUp` holds also of a truck that cannot move.

No claim is made that every transport is delivered, and it is not true: a truck
without a task that stands in a spur somebody has to use is in the way until it
is given work.

## Proofs

All for every value of the constants that the modules' named assumptions allow.

| Theorem | Says |
| --- | --- |
| `TrafficProofs!TypeCorrect` | `Spec => []TypeOK` |
| `TrafficProofs!IndexesAlwaysAgree` | `Spec => []IndexesAgree` |
| `TrafficProofs!FloorNeverTakenOver` | `Spec => NeverTakenOver` |
| `TrafficProofs!LedgerImplementsClaims` | `Spec => ImplementsClaims`, the refinement |
| `TrafficProofs!GrantAlwaysAhead` | `Spec => []GrantStaysAhead` |
| `TrafficProofs!CyclesAreFound` | `WaitDieSpec => []CycleFoundIffDeadlocked` |
| `TrafficProofs!OldestAndGroundAreSpared` | `WaitDieSpec => []YieldsSpare` |
| `TrafficProofs!TurnsAlwaysSuffice` | `WaitDieSpec => []TurnsSuffice` |
| `FleetProofs!FleetTypeCorrect` | `UuidsNeverRunOut => (Spec => []TypeOK)` |
| `FleetProofs!BaseStaysBacked` | `UuidsNeverRunOut => (Spec => []LiveBaseBacked)` |
| `FleetProofs!UpdatesKeepStep` | `UuidsNeverRunOut => (Spec => []UpdatesInStep)` |
| `FleetProofs!LegsStayOwned` | `UuidsNeverRunOut => (Spec => []LegsAreOwned)` |
| `LinksProofs!VehicleTypeCorrect` | `VehicleSpec => []VehicleTypeOK` |
| `LinksProofs!WorkOnlyAtStation` | `VehicleSpec => []WorkAtStation` |
| `LinksProofs!FinishedIsStopped` | `VehicleSpec => []FinishedMeansStopped` |
| `LinksProofs!LinksTypeCorrect` | `LinksSpec => []LinksTypeOK`, agent and bridge in one state space |
| `LinksProofs!BridgeTypeCorrect` | `BridgeSpec => []BridgeTypeOK` |
| `LinksProofs!SilenceIsAsserted` | `BridgeSpec => []SilenceAsserted` |
| `LinksProofs!HeartbeatVouchesForImage` | `BridgeSpec => HeartbeatVouches` |
| `StopsProofs!SilenceTakesTorqueOff` | `StandInSpec => []SilenceStopsTorque` |
| `StopsProofs!AHeldPressClears` | `StandInSpec => []HeldPressClears` |
| `StopsProofs!OnlyAHeldPressClears` | `StandInSpec => ClearedByAHeldPress` |
| `StopsProofs!StandInTypeCorrect` | `StandInSpec => []StandInTypeOK` |
| `StopsProofs!StopsTypeCorrect` | `StopsSpec => []StopsTypeOK`, the three parts in one state space |
| `StopsProofs!EnvelopeTypeCorrect` | `EnvelopeSpec => []EnvelopeTypeOK` |
| `StopsProofs!EnvelopeIsABound` | `EnvelopeSpec => []EnvelopeHolds` |
| `StopsProofs!TeleopIsHandedOverAtRest` | `EnvelopeSpec => []ReleasedAtRest` |
| `StopsProofs!EscalationTypeCorrect` | `EscalationSpec => []EscalationTypeOK` |
| `StopsProofs!TheWayOutEnds` | `EscalationSpec => []BlockedInTime` |
| `DeskProofs!DeskTypeCorrect` | `DeskSpec => []DeskTypeOK` |
| `DeskProofs!SilenceAlwaysStopsDrive` | `DeskSpec => []SilenceStopsDrive` |
| `DeskProofs!MotionIsAlwaysAskedFor` | `DeskSpec => MotionIsAskedFor` |
| `DeskProofs!OnePressMakesOneReset` | `DeskSpec => OnePressOneReset` |
| `ChainProofs!ChainCounts` | `Faults <= 1 => (Spec => [](ChainTypeOK /\ ChainInv))`, the invariant behind the next four |
| `ChainProofs!ChainTypeCorrect` | `Faults <= 1 => (Spec => []TypeOK)` |
| `ChainProofs!BodyAlwaysStops` | `Faults <= 1 /\ Reaction >= 18 => (Spec => []BodyStops)` |
| `ChainProofs!SilenceAlwaysStops` | `Faults <= 1 /\ Reaction >= 16 => (Spec => []SilenceStops)` |
| `ChainProofs!ResetBeforeRestart` | `Faults <= 1 /\ Reaction >= 18 => (Spec => []NoRestartWithoutReset)` |

*Ledger* (over `LedgerProofs`, the lemmas about each method). Any graph, fleet, submit
times and bound on paths; vehicles are finite and not `None`, serials a total order,
links pairs of nodes. The inductive invariant `LedgerInv` is the type of the ledger
with `Consistent`. Types alone are not inductive enough: that `release_through` frees by
position what it takes out of the owner index needs the lists to be without
repetition and to name exactly the owned elements, and that `hold` keeps them so
needs the request to name each element once (`RequestsNameFloorOnce`: a path without
repeated nodes). The claims refinement and `NeverTakenOver` follow per call from what
each method does to `owner`. The cycle search is a least path over the wait-for
graph, and that a deadlock's loser is one of its vehicles is by a least
counterexample (`MinIsLeast`) in place of an induction. `GrantStaysAhead` is inductive
beside `LedgerInv` (`AheadInv`) and goes by positions: a list is what lies behind the
truck followed by the rest of its grant (`AheadFrom`). A hold takes the grant's
elements out of the list and puts the grant last (`GrantPutBehind`), a cut from the front leaves
that form wherever it falls (`CutStaysAhead`), and after `release_all` or wait-die
the list is its own grant (`AllAhead`).

*Wait-die.* Any vehicles and any wait-for graph they can make; the ages may be equal.
`find_cycle` walks as many steps as there are vehicles. That this is long enough is the
pigeonhole principle: a walk that has not left the graph by then has met a vehicle twice,
and what lies between the two is the cycle (`Stuck` sets contain the walk of each of
their members, so a deadlock is found if there is one). The invariant of the loop,
`PassInv`, says that everybody owns its ground, that whoever has yielded waits for nobody
any more, and that some set of two vehicles per turn is in no deadlock now or later
(`TwoPerTurn`): the loser, and the one that waited for it. `MCLedger` checks the same
three on the graphs of four vehicles.

*Fleet* (`FloorProofs`: one call of the manager; `FleetProofs`: its loops, the trucks' steps
and the theorems). Any graph and planner that gives simple paths of it, any finite set of
trucks and tasks, any clocks, delays and losses, any number of messages under way. The
hypothesis `UuidsNeverRunOut` says that a finite number of used order ids leaves one that
is not used; it is a hypothesis and not an assumption of `Floor` because the runs have a
finite set of ids, which is enough for them since ids that nobody names are used again.

The invariant `FleetInv` speaks of one truck at a time and of everything that names its
order at once: the leg in the manager's book, what is under way to the truck
(and what the present step has handed to the broker, so that it holds between two calls
of one drain), what the truck is doing, and the state it has sent and nobody has read.

* `Ordered`: an order under way is of the leg as it was assigned, and nobody knows its id.
* `Extended`: an update under way is the extension the leg has in the air.
* `Driven`: the truck on the order has the leg's path, and either the base the manager
  believes or the one of the extension; a refusal that is not read yet means that the
  extension is still pending and no second one is on its way.
* `Reported`: what a state says is between what the manager has read and where the truck is.
* `Backed`: the vehicle's list in the ledger ends along the leg's path, from the place
  where the manager last saw the truck to the end of the base or the extension, by
  position (`Seated`), unless the truck yielded. This is what makes the loss of floor
  by `release_through`, which cuts the list at a position, harmless.
* `WireOK`: at most one update of an order is under way, the truck's next, and no
  order is under way twice; `Settled`, `Shape`: a truck has one task or one move.

None of the four theorems' properties is inductive without the others: that an update
read late is the next one needs that a refusal is read before the next is sent, and that a
base is backed needs that the state that frees floor is not ahead of the truck. An operator
of `Floor` after another is shown to take a book that fits to one that does (the lemmas
`...Call` of `FloorProofs`), and to leave the other trucks alone (`OnlyFor`, `Handled`). The loops of
a drain are folds, and a fold is a `CHOOSE` of a recursive function: `FoldExists` gives
that function by a least counterexample, and `FoldStays` says that a fold of steps that stay
in a set stays in it.

`LegsAreOwned` is `DrivableIsOwned` of the trucks whose leg is on the floor. Beyond that
`DrivableIsOwned` is not inductive: `end_leg1` lets a truck have its floor again that yielded
the floor of an extension under way, so that what is owned and what the truck was told part. TLC
finds it to hold on `solo`. `CancelChased` and `AskedOntoOnce` are violated (see below), and
`MoveKeepsItsFloor` is kept from that only by the clocks its run has: no run catches the truck
that is measured as still and rolls on.

*Vehicle.* A line of any length, any number of orders, cancels and upsets; `Nothing` is
neither a number nor an order. The drain handles its inbox by a fold, and all parts of the
invariants are stated of an agent that has handled the first so many messages, so that the same
lemmas serve between two messages and between two drains. `TypeInv` holds always. For
the two safety theorems `OrderlyInv` adds that a new order in the inbox is the first thing
handled and unknown to everybody, and that one sent to a truck at rest finds nav
at the first node of its path without work (`NewFirst`); that of such an order, once nav drives
for the last node, no route under way falls short of it (`OnPath`); that the fork
runs with the whole path counted (`ForkWaits`); that a report of nav is true of every order but
those with a route it was made before (`Word`), and so an order reported FINISHED is driven
no longer unless such a report confirmed it (`Chased`, `Over`). Neither theorem has a hypothesis
on when cancels and losses come: what they except is in the history, and is what the code does.

*Bridge.* Any finite set of inputs, any heartbeat modulus above 1, any window, any
number of mishaps. `BridgeInv` adds to the type: what the cache says was written in
this session is at the server unless a restart stands that is marked or the next
read-back will show (`CacheInSync`); a key that asserts its silence reads TRUE once it was silent and written, and a
restarted server's start value for it is TRUE too (`AssertedStays`, which is why the
assumption on `StartValue` is needed); a key that is `quiet` is still past its window
(`QuietIsSilent`), and, once its turn in the cycle is over, reads TRUE (`QuietReadsTrue`).

*Stand-in.* Any times with `RESET_HOLD_MIN` at least one cycle, any sockets, speeds and
lines. `StandInInv` ties each history counter to the timer that covers it
(`TimersCover`), the length of a press and the reset's memories to the last scan (`MemoriesTrue`,
`ValidIsInside`); its core is that a press is armed only while the causes have been
gone since before it, in both directions (`ArmedIsGone`, `GoneIsArmed`). A
`RESET_HOLD_MIN` of zero is excluded: the rise of a press clears `ResetHoldValid` in its
own scan, and the minimum has to be later than that. The lines of the command file are
obeyed by a fold; that it leaves an image an image (`ObeyAllTypes`) goes by the least number of
lines after which it would not.

*Envelope.* Any window, ceiling, deceleration, top speed, steer stop, wheel limit and sets of inputs. In
`EnvelopeInv` the timer keeps its cadence (`Cadence`), a speed that is allowed has no lag
(`LagOfAllowed`), a ramp under way is at most what its lag leaves of the top speed
(`RampKeepsUp`), the last order on the wire is never above the gate's output, and the wheel never above that
times the arc commanded with it (`OrderIsOut`).

*Escalation.* Any track, patience, deadline and number of nudges, and any bounds.
`EscalationInv` is an account: `Left` are the steps that the nudges still unspent, the
one under way and the patience can take, and the steps spent in front of the
body plus the steps left are never more than the way out takes (`Closing`). BLOCKED
needs the account of `CoreOK`: patience run out, no nudge under way, none left.

*Desk.* Any times with `RECONNECT` two scans above `HMI_STALE_TIME`, any casts, any number of
upsets. What the program scans was in the image, what is in the image was in the
process, what is in the process was on the page; none of the properties is inductive,
because they speak of the last scan only. `DeskInv` says at each of the three places
that either the history has an act that is unspent or the program will not take
the request: for the reset (`ResetIsPress`), for the enable (`EnableIsClick`) and for
autonomous mode (`ModeIsSelect`), the last two with the act after the press that is
about to be taken. What the program will not take rests on `LostLatches` (a lost link
latches and rejects a held reset device) and on `QuietBetween`: while no session is
open nobody writes, the scans count it, and by the time a session may open the link
is lost and no edge is left over. `SilenceCounted` ties the timers to the silences
of the history.

*Safety chain.* Any scanners, distances, orders and phases of the timers, any number of
moves; one process that dies when it likes and comes back when it likes. Two hypotheses are
needed and cannot be weaker: with both `plc_link` and the gate dead nobody tells the
contactor anything, and 17 ticks are too few for `BodyStops` (see *Bounds*). The three properties are bounds in
ticks, so the invariant is an account of ticks: `ChainInv` bounds, for each device, how long a
body has been in its field (`y`) and a process quiet (`v`) by what each stage of the chain
still keeps while it lets the truck drive.

* `Eye`: a field that reads clear has been scanned clear, or its scans count towards three,
  or they stay away and its age counts.
* `Link`: what is on its way to the writer is no younger than what `field_eval` says, and
  without a fault the datagrams never stop.
* `Writer`, `Plc`: an enable needs every latch cleared, a verdict that says no holds its
  latch, and an enable that goes round is as old as the last answer heard.
* `Gate`, `Command`: the gate and the contactor have plc_link's enable or their own clock
  counts; and what is commanded comes from a source that speaks.

A bound depends on which process ever died (`C`) and which is dead now (`X`): a scanner that
died and came back leaves its fields with fewer ticks to spare for the rest of the behaviour. A tick
is a fold of `Turn` over the timers, so the account is stated for the middle of a tick, with
the set of the timers that have gone off: each turn hands it to the next, and ageing takes the full
set back to the empty one. `ChainInv` is not enough for `NoRestartWithoutReset`, which says what holds after the
body has gone: `OwedInv` adds that neither the writer's last answer, nor plc_link, nor the gate
enables the truck any more, and that the writer, if it runs, holds a latch. `MCSafetyChain` has the least instance on which the bound is tight.

Only model-checked: liveness under fairness (`StopsAnswered`, `LossStops`,
`ImageRecovers`, `HeldTruckIsGivenUp` and the four of `tee`); of `Fleet` `WayOutKept`,
`MoveKeepsItsFloor`, `CancelChased` and what `DrivableIsOwned` says beyond `LegsAreOwned`. What a recursive definition computes is an induction over
data; where a proof needs one (the walk of `find_cycle`, a fold) it goes by a least
counterexample in a set of naturals.

## Where code and documents disagree

Shown by a run:

* `promise` (`AskedOntoOnce`). `_parked_at_base_end` (`floor.py:1010`) compares the
  last node seen with the confirmed base and not with the extension in the air. On
  the ring a truck is sent an extension, wait-die then takes it for parked and
  frees the floor of that extension, and the other truck is sent onto it. The
  comment at `floor.py:1031` says the test makes this impossible. Both trucks
  still have scanners.
* `unchased` (`CancelChased`). The chase ends on the first state that does not
  show the order (`fleet_manager.py:438`), also on one sent before the truck took
  it. If the cancel is then lost the truck drives an order nobody owns. `solo` has the same
  property and holds, since its give-ups wait until no state of the truck is under way: it
  asks whether a give-up is chased at all.
* `extension` (`ExtensionAskedAgain`). An extension the wire loses keeps its
  pending mark, and `retry_hold` returns while it is set. The docstring at
  `fleet_manager.py:1029`, that an extension that does not go out costs nothing because the
  fleet asks again on the next pass, is about a publish that fails, of which it is true; of one
  that succeeds and is lost on the wire the code says nothing, and there it is not.
* `confirmed` (`CancelMeansStopped`). `_cancel_confirmed` (`vda_agent.py:735`) reads
  the cached report of nav, whatever its age. When a cancel follows an order before
  nav has reported the route, the report from before confirms the cancel at once:
  the cancelOrder is FINISHED, no empty goal is sent, and nav drives on. Its
  docstring says "True only when nav has SAID it is not driving our route". A loss
  of the broker in that window ends the same way: `_supervision_lost` calls `_begin_cancel`,
  the old report (IDLE) confirms the stop at once (`vda_agent.py:749`), no empty goal is sent, and
  nav takes the route and drives it unsupervised. That is `LossStops` without its
  exception, and the comment at `vda_agent.py:437` says the stop "still has to be SEEN". Nor does
  `WorkAtStation` hold without its own: a resumed order, its cancel and a second order that
  are drained together
  leave nav on the first route while the nodes of the second are counted; nav then takes
  the second route, which leads back, and its arrival at the wrong node starts the fork.

Stated in a module and violated there when added to the cfg of its run; kept out
of the runs, each as the last property of its module:

* `StandIn!PowerUpRejected`. Network 3 of `f_program.py` (line 217) sets `ResetSeenOpen`
  whenever the validated device is FALSE, and it is FALSE before the first heartbeat, so
  the memory is TRUE after the first scan and a device that is held from before power-up
  is not rejected by it. `plc/forklift-safety/SPEC.md` (sections of SF-08, lines 369,
  1055, 1223) has it as "seen open" by a valid writer. The rising edge that a press
  needs still comes only with the writer's first heartbeat.
* `StandIn!OneZoneSource`. When a field link goes stale `field_down` does not close its
  socket, so a second client may register while the first still speaks; SPEC.md line
  1491 says "One channel, one source at any moment".
* `Desk!ResetOfThisSession`. `zero()` (`hmi_server.py:654`) sets the controls to rest and
  does not disarm them, so a reset held while the session breaks is a new press in the
  next; `docs/interfaces/opcua-nodes.md` (P6, line 863) excludes it. The program asks for
  one low value in the new session, and the final zero is one.
* `Bridge!OnlyTwoResiduals`. A server that restarts between two cycles while the
  heartbeat is still withheld (R3) is never noticed, because the read-back has
  nothing to compare: `docs/interfaces/bridge-design.md` line 945 and
  `bridge/README.md` line 326 name two cases that remain, and this is a third.
* `Envelope!OnePathLive`. The bridge publishes the PLC's setpoint in every cycle, a zero
  outside teleop, beside the gate's commands; `opcua-nodes.md` line 1832 says "Exactly one
  may be live at any moment". The comment at `envelope_gate.py:145` relies on it.
* `Escalation!NewGoalStartsAnew`. `on_goal` (`nav_core.py:102`) does not clear the
  escalation, `on_route` does; the name of the test
  (`tests/test_nav_core_escalation.py:186`) speaks of a goal and its body uses a route.
  A goal given in front of a body starts with its nudges spent.

Seen while modelling, without a property: an empty goal and a route sent in one drain (a
cancel and the next order, or a loss and a return that a late drain finds together)
may be taken in the other order, and the new drive is cancelled; a nav that restarts
says IDLE without a note, which `cb_nav` does not take for a refusal, so the agent
goes on believing; after a loss of the broker at the end of a base nothing sets
`executing` again, so every extension is refused (`accept_order`); a second
cancelOrder leaves the first one's action RUNNING. A step-aside's target is owned by
the truck until it stands there (`floor.py:398`), except that a truck only measured as
still (`STANDSTILL_S`) may roll on and drop the promise, and the move is sent anyway;
`MoveKeepsItsFloor` therefore runs without that clock. The Acknowledge pulse is
restarted by each press (`windows/m6.py:479`), so quick presses hold it on and no edge
comes, against the comment above it. A contactor opened by the silence of the writer
closes when the writer is heard again, without a reset; its docstring speaks of the
reset as the only way. `speed_down` (`virtual_plc.py:327`) leaves `MotionPresent` as the
lost client left it. A writer that starts reads its command file from the beginning
(`virtual_plc.py:197`), and a line appended between the `tell` and the read (362 to 372)
is obeyed twice. An HMI process started again within `HMI_STALE_TIME` is not missed by the
program, which then sees one heartbeat go on: an enable held on the page since before acts
as a new one, and a reset let go before the connection counts as a press. `Starts` waits
for `RECONNECT` and leaves this out; with a shorter wait and two upsets TLC finds
`MotionIsAskedFor` and `OnePressOneReset` violated. A nudge goes astern without a look at the rear guard, also when the
truck was already reversing.

## What is not modelled

The map covers a small part of the repository's lines, and no amount of modelling would
bring it to a third: most of the 70 thousand lines are measuring and rehearsal scripts,
odometry and field-of-view checks, simulation scenarios, launch and recording tools,
displays, and the archive of milestones m1 to m5. They keep no state that another part
of the system acts on; the nodes that do are the ones above.

*Fleet.* The idle-floor clock, closed nodes and the re-planning round them, hulks, loss
and return of a truck as the manager sees them, loss of the manager's broker,
operating modes, submission after the start, the give-up of a chase; a truck that
refuses a leg for a reason of its own (`floor.py:757`). A restart of the agent. Agent and
fleet are composed in `Fleet` with the agent as the fleet sees it, agent and nav in
`Vehicle`; all three together only in `Escalation`, about one order at a time.

*Numbers.* Pure pursuit, speed bands, free sectors, shortest paths over
coordinates, the fork's limits and ramps are stateless floating-point code; a path is
a given sequence of nodes, a free sector a choice. The converter's angles are whole-number arcs;
how the steer axis and the wheel follow their commands, on two topics of their own, is not
modelled, so `EnvelopeHolds` is about what is commanded. JSON, topics, logging, the
command line, the window, recorders and tools keep no state of the system.

*Cell.* Of the bridge the ROS half, the type check on connecting and the configuration
parser, which refuse to start; of the HMI the display's polls, the monitor proxy and
evidence files; of the standard program the setpoints and mirrors; the conveyor of the
M3 cell (`demo_cell_program.py`); the evaluation nodes whose lines `StandIn` takes in any
order. The PLCSIM connection is replaced by `virtual_fplc.py`, as the code itself does
with `--virtual`.

*Atomicity.* One scan of a program reads its image at once in the model; the real loop
(`standard_loop`) reads it node by node while the HMI and the bridge write, so a scan may
mix two writes. The writer, its links and the F-program share one event loop and are
steps between two awaits; a console line comes from a thread of its own and is one step
too, although it may fall inside a scan. A click on the stop is allowed in the model whenever the
session is up, which is more than the page allows.

## Plan

1. *Done.* `Ledger`, `Reservations`, `Claims`, `WaitDie`, `Floor`, `Fleet`, `SafetyChain`,
   `Vehicle`; `Escalation`; the cell: `SafetyProgram`, `StandIn`, `DriveProgram`, `Desk`,
   `Bridge`, `Envelope`; theorems of `Ledger`, `Reservations`, `WaitDie`, `Floor`, `Fleet`,
   `Vehicle`, `Escalation`, `StandIn`, `Desk`, `Bridge`, `Envelope`, `SafetyChain`.
2. `Fleet` extended by connection loss and return, hulks, closures, the idle-floor clock
   (`floor.py:482`), broker loss and resending; a restart of the agent; the composition of
   agent, nav and fleet, in which a route is not lost for ever.
3. The scan that reads node by node, between `Desk` and `Bridge` as one system.
4. Liveness of the chain: a patient operator gets the drive back.
5. Theorems: `WayOutKept`.
