---------------------------- MODULE SafetyChain -----------------------------
(***************************************************************************)
(* What stops a truck: the scanners' fields (ipc/field_eval.py), the       *)
(* encoders (ipc/encoder_link.py) and the link that carries both           *)
(* (ipc/sensor_link.py) to the writer (windows/m6.py) and the F-PLC behind *)
(* it (windows/virtual_fplc.py); the link back (ipc/plc_link.py); the mux  *)
(* and the gate a command passes (ipc/cmd_mux.py, ipc/cmd_gate.py); and    *)
(* the contactor at the plant's terminals (sto_contactor.py).              *)
(*                                                                         *)
(* Time passes in ticks of 50 ms.  Within a tick each node whose timer is  *)
(* due takes its turn, in an order that a behaviour keeps (the timers'     *)
(* phases); what it publishes is received in its turn.  Distances are in   *)
(* decimetres, speeds in decimetres per second, ages in ticks and capped   *)
(* at the age that makes them stale.                                       *)
(***************************************************************************)
EXTENDS Integers, SequencesExt

CONSTANTS
    Devices,    \* the scanners
    Spots,      \* how far the nearest body may be from one
    Orders,     \* the orders of the nodes' turns in a tick
    Phases,     \* for the 10 Hz nodes, the ticks they are due on
    Moves,      \* bound: moves of bodies and of the operator
    Faults,     \* bound: processes that die
    Reaction,   \* how long a body may go unanswered
    None

Ticks(ms) == (ms + 49) \div 50

SCAN_STALE     == Ticks(500)
STATUS_STALE   == Ticks(250)
ENCODERS_STALE == Ticks(250)
ENC_STALE      == Ticks(300)
SENSOR_STALE   == Ticks(400)
LINK_STALE     == Ticks(280)
CMD_STALE      == Ticks(250)
ACK_PULSE      == Ticks(300)
N_SCAN         == 3
HYSTERESIS     == 2

Full  == 15     \* speed_max, and V_LIMIT_CLEAR
Creep == 3      \* V_LIMIT_VIOLATED, and the creep ceiling
Trip  == 30     \* ENC_STALE_B against ENC_STALE_A = 0

\* FIELDS: monitoring case -> protective and warning field.
FIELDS == [case \in 1 .. 3 |-> CASE case = 1 -> [pf |-> 10, wf |-> 25]
                                 [] case = 2 -> [pf |-> 22, wf |-> 37]
                                 [] case = 3 -> [pf |-> 45, wf |-> 60]]

Parts  == {"scanner", "encoder", "field_eval", "encoder_link", "sensor_link", "m6",
           "plc_link", "nav", "hmi", "cmd_mux", "cmd_gate"}
Slow   == {"scanner", "field_eval", "cmd_mux", "cmd_gate"}
\* sensor_link has no timer: it takes its turns with the nodes it hears.
Timers == Parts \ {"sensor_link", "encoder"}
Inputs == {"E-Stop", "speed"} \cup Devices

\* What a datagram carries to the writer, and what the writer sends back.
Datagrams == [pf : [Devices -> BOOLEAN], wf : [Devices -> BOOLEAN], speed : {0, Creep, Full}]
Answers   == [motor : BOOLEAN, case : 1 .. 3, limit : {Creep, Full}]

\* Each timer goes off once in a tick that it is due on.
ASSUME ChainConstants ==
    /\ Devices # {} /\ Devices \cap {"E-Stop", "speed"} = {}
    /\ Spots \subseteq Nat /\ Moves \in Nat /\ Faults \in Nat /\ Reaction \in Nat \ {0}
    /\ Orders \subseteq Seq(Timers)
    /\ \A o \in Orders :
          /\ \A p \in Timers : \E i \in DOMAIN o : o[i] = p
          /\ \A i, j \in DOMAIN o : o[i] = o[j] => i = j
    /\ Phases \subseteq [Slow -> 0 .. 1]
    /\ None \notin Nat \cup Datagrams \cup Answers

VARIABLES
    cell,       \* the nodes, a record each
    order, phase, odd,  \* who takes a turn in this tick, and when
    body,       \* device -> how far the nearest body is
    down,       \* the processes that are dead
    moves, faults,
    inside,     \* history: for how long each device has had a body in its field,
    silent,     \* a node has been quiet,
    owed        \* and whether a body has stopped the truck since the last reset

vars == <<cell, order, phase, odd, body, down, moves, faults, inside, silent, owed>>

Up(p) == p \notin down

-----------------------------------------------------------------------------
(* The nodes as their __init__ leaves them. *)

FAILSAFE == [motor |-> FALSE, case |-> 3, limit |-> Creep]

Fresh == [
    field_eval  |-> [raw |-> [d \in Devices |-> None], case |-> 3, heard |-> STATUS_STALE,
                     device |-> [d \in Devices |-> [pf |-> FALSE, wf |-> FALSE, pfc |-> 0,
                                                    wfc |-> 0, seen |-> SCAN_STALE]]],
    encoder_link |-> [shaft |-> None, heard |-> ENC_STALE],
    sensor_link |-> [pair |-> None, heard |-> ENCODERS_STALE, out |-> None],
    m6          |-> [pf |-> [d \in Devices |-> FALSE], wf |-> [d \in Devices |-> FALSE],
                     speed |-> Trip, heard |-> SENSOR_STALE, estop |-> TRUE, ack |-> 0,
                     latched |-> Inputs, prevAck |-> FALSE, out |-> None],
    plc_link    |-> [msg |-> FAILSAFE, heard |-> LINK_STALE],
    hmi         |-> [auto |-> FALSE],
    cmd_mux     |-> [auto |-> FALSE, heard |-> STATUS_STALE],
    cmd_gate    |-> [motor |-> FALSE, limit |-> Creep, heard |-> STATUS_STALE,
                     cmd |-> 0, cmdHeard |-> CMD_STALE],
    contactor   |-> [off |-> FALSE, terminal |-> 0]]

Init ==
    /\ \E auto \in BOOLEAN :
          cell = [Fresh EXCEPT !.hmi.auto = auto, !.cmd_mux.auto = auto]
    /\ order \in Orders /\ phase \in Phases /\ odd = 0
    /\ body \in [Devices -> {s \in Spots : \A t \in Spots : t <= s}]
    /\ down = {} /\ moves = 0 /\ faults = 0
    /\ inside = [d \in Devices |-> 0] /\ silent = 0 /\ owed = FALSE

-----------------------------------------------------------------------------
(* Fields and encoders, to the writer. *)

\* field_step: one scan against one threshold.
FieldStep(d, clear, cnt, th) ==
    LET raw == d > (IF clear THEN th ELSE th + HYSTERESIS)
        n   == IF raw # clear THEN cnt + 1 ELSE 0
    IN  IF n >= N_SCAN THEN [clear |-> raw, cnt |-> 0] ELSE [clear |-> clear, cnt |-> n]

\* Device.update and Device.go_violated.
Update(dev, d, fields) ==
    LET pf == FieldStep(d, dev.pf, dev.pfc, fields.pf)
        wf == FieldStep(d, dev.wf, dev.wfc, fields.wf)
    IN  [pf |-> pf.clear, pfc |-> pf.cnt, wf |-> wf.clear, wfc |-> wf.cnt, seen |-> 0]

GoViolated(dev) == [dev EXCEPT !.pf = FALSE, !.wf = FALSE, !.pfc = 0, !.wfc = 0]

\* tick: the devices' verdicts after the scans since the last one.
Evaluated(e) ==
    LET fields == FIELDS[IF e.heard >= STATUS_STALE THEN 3 ELSE e.case]
        next(d) == IF e.raw[d] # None THEN Update(e.device[d], e.raw[d], fields)
                   ELSE IF e.device[d].seen >= SCAN_STALE THEN GoViolated(e.device[d])
                   ELSE e.device[d]
    IN  [e EXCEPT !.device = [d \in Devices |-> next(d)], !.raw = [d \in Devices |-> None]]

\* cb_fields: one datagram per evaluation, all of it or nothing.
CbFields(c) ==
    LET link == c.sensor_link
        dev  == c.field_eval.device
    IN  IF ~Up("sensor_link") \/ link.pair = None \/ link.heard >= ENCODERS_STALE THEN c
        ELSE [c EXCEPT !.sensor_link.out =
                 [pf |-> [d \in Devices |-> dev[d].pf], wf |-> [d \in Devices |-> dev[d].wf],
                  speed |-> link.pair]]

FieldEvalTick(c) == CbFields([c EXCEPT !.field_eval = Evaluated(@)])

\* encoder_link's tick, and sensor_link's cb_encoders: a channel that went quiet
\* is reported absent.
EncoderTick(c) ==
    LET read == [c.encoder_link EXCEPT
                    !.shaft = IF Up("encoder") THEN c.contactor.terminal ELSE @,
                    !.heard = IF Up("encoder") THEN 0 ELSE @]
        pair == IF read.heard >= ENC_STALE THEN None ELSE read.shaft
    IN  [c EXCEPT !.encoder_link = read,
                  !.sensor_link = IF Up("sensor_link")
                                  THEN [@ EXCEPT !.pair = pair, !.heard = 0] ELSE @]

-----------------------------------------------------------------------------
(* The writer and the F-PLC. *)

\* _healthy, with _v_limit.
Limit(w) == IF \A d \in Devices : w.wf[d] THEN Full ELSE Creep

\* Mutant: the protective fields are read and not asked.
HealthyWithoutPf(w) ==
    Devices \cup {i \in {"E-Stop"} : w.estop}
            \cup {i \in {"speed"} : w.speed # Trip /\ w.speed <= Limit(w)}

Healthy(w) == {d \in Devices : w.pf[d]}
              \cup {i \in {"E-Stop"} : w.estop}
              \cup {i \in {"speed"} : w.speed # Trip /\ w.speed <= Limit(w)}

\* Mutant: an enable comes back with its input.
ScanUnlatched(w) ==
    [w EXCEPT !.latched = Inputs \ Healthy(w),
              !.prevAck = w.ack > 0]

\* _scan: a demand latches, the rising edge of Acknowledge clears what is healthy.
Scan(w) ==
    LET latched == w.latched \cup (Inputs \ Healthy(w))
        ack     == w.ack > 0
    IN  [w EXCEPT !.latched = IF ack /\ ~w.prevAck THEN latched \ Healthy(w) ELSE latched,
                  !.prevAck = ack]

\* Mutant: the last datagram is believed for ever.
InputtedHeld(w, data) ==
    IF data # None
    THEN [w EXCEPT !.pf = data.pf, !.wf = data.wf, !.speed = data.speed, !.heard = 0]
    ELSE w

\* control_loop: the newest datagram, or the trip values when it is too old.
Inputted(w, data) ==
    IF data # None
    THEN [w EXCEPT !.pf = data.pf, !.wf = data.wf, !.speed = data.speed, !.heard = 0]
    ELSE IF w.heard >= SENSOR_STALE
    THEN [w EXCEPT !.pf = [d \in Devices |-> FALSE], !.wf = [d \in Devices |-> FALSE],
                   !.speed = Trip]
    ELSE w

WriterCycle(c) ==
    LET w == Scan(Inputted(c.m6, c.sensor_link.out))
    IN  [c EXCEPT !.sensor_link.out = None,
                  !.m6 = [w EXCEPT !.out = [motor |-> w.latched = {}, case |-> 1,
                                            limit |-> Limit(w)]]]

-----------------------------------------------------------------------------
(* Back to the vehicle: the contactor, the gate and what passes it. *)

\* cb_torque_off_demand: the brake goes out with the change.
Demand(k, off) ==
    [k EXCEPT !.off = off, !.terminal = IF off /\ ~k.off THEN 0 ELSE @]

\* cb_traction_cmd
Traction(k, speed) == IF k.off THEN k ELSE [k EXCEPT !.terminal = speed]

\* tick of plc_link, which never goes quiet, and who hears it.
PlcLinkTick(c) ==
    LET data  == c.m6.out
        heard == IF data # None THEN 0 ELSE c.plc_link.heard
        msg   == IF heard >= LINK_STALE THEN FAILSAFE
                 ELSE IF data # None THEN data ELSE c.plc_link.msg
    IN  [c EXCEPT
            !.m6.out = None,
            !.plc_link = [msg |-> msg, heard |-> heard],
            !.field_eval = IF Up("field_eval") THEN [@ EXCEPT !.case = msg.case, !.heard = 0]
                           ELSE @,
            !.cmd_gate = IF Up("cmd_gate")
                         THEN [@ EXCEPT !.motor = msg.motor, !.limit = msg.limit, !.heard = 0]
                         ELSE @,
            !.contactor = Demand(@, ~msg.motor)]

\* Mutant: a command is obeyed however old it is.
GatePublishAnyAge(c) ==
    LET g       == c.cmd_gate
        enabled == g.motor /\ g.heard < STATUS_STALE
        limit   == IF g.limit < Full THEN g.limit ELSE Full
        speed   == IF ~enabled THEN 0 ELSE IF g.cmd > limit THEN limit ELSE g.cmd
    IN  [c EXCEPT !.contactor = Traction(@, speed)]

\* publish of the gate: the smaller permission, or zero.
GatePublish(c) ==
    LET g       == c.cmd_gate
        enabled == g.motor /\ g.heard < STATUS_STALE
        cmd     == IF g.cmdHeard >= CMD_STALE THEN 0 ELSE g.cmd
        limit   == IF g.limit < Full THEN g.limit ELSE Full
        speed   == IF ~enabled THEN 0 ELSE IF cmd > limit THEN limit ELSE cmd
    IN  [c EXCEPT !.contactor = Traction(@, speed)]

\* tick of the gate: it speaks when an input has gone quiet or says no.
GateTick(c) ==
    LET g == c.cmd_gate
    IN  IF ~g.motor \/ g.heard >= STATUS_STALE \/ g.cmdHeard >= CMD_STALE
        THEN GatePublish(c) ELSE c

\* cb_cmd
CbCmd(c, cmd) ==
    IF ~Up("cmd_gate") THEN c
    ELSE GatePublish([c EXCEPT !.cmd_gate.cmd = cmd, !.cmd_gate.cmdHeard = 0])

\* The mux: a source is forwarded on receipt while it is selected, and zeros
\* flow while the autopilot is selected and silent.
MuxPublish(c) ==
    CbCmd(c, IF c.cmd_mux.auto /\ c.cmd_mux.heard >= STATUS_STALE THEN 0 ELSE Full)

NavTick(c) ==
    LET heard == [c EXCEPT !.cmd_mux.heard = 0]
    IN  IF ~Up("cmd_mux") THEN c
        ELSE IF c.cmd_mux.auto THEN MuxPublish(heard) ELSE heard
HmiTick(c) == IF Up("cmd_mux") /\ ~c.cmd_mux.auto THEN MuxPublish(c) ELSE c
MuxTick(c) == IF c.cmd_mux.auto THEN MuxPublish(c) ELSE c

\* A scan of every device, straight to field_eval.
ScanTick(c) == IF Up("field_eval") THEN [c EXCEPT !.field_eval.raw = body] ELSE c

-----------------------------------------------------------------------------
(* Ticks, and what happens to the cell between them. *)

Due(p) == Up(p) /\ (p \in Slow => phase[p] = odd)

\* A node's timer goes off.
Turn(c, p) ==
    IF ~Due(p) THEN c
    ELSE CASE p = "scanner"      -> ScanTick(c)
           [] p = "field_eval"   -> FieldEvalTick(c)
           [] p = "encoder_link" -> EncoderTick(c)
           [] p = "m6"           -> WriterCycle(c)
           [] p = "plc_link"     -> PlcLinkTick(c)
           [] p = "nav"          -> NavTick(c)
           [] p = "hmi"          -> HmiTick(c)
           [] p = "cmd_mux"      -> MuxTick(c)
           [] p = "cmd_gate"     -> GateTick(c)

Older(age, stale) == IF age < stale THEN age + 1 ELSE stale

Unseen(dev) == [dev EXCEPT !.seen = Older(@, SCAN_STALE)]

Aged(c) ==
    LET eye  == [c.field_eval EXCEPT !.heard = Older(@, STATUS_STALE),
                                     !.device = [d \in Devices |-> Unseen(@[d])]]
        gate == [c.cmd_gate EXCEPT !.heard = Older(@, STATUS_STALE),
                                   !.cmdHeard = Older(@, CMD_STALE)]
        w    == [c.m6 EXCEPT !.heard = Older(@, SENSOR_STALE),
                             !.ack = IF @ > 0 THEN @ - 1 ELSE 0]
    IN  [c EXCEPT !.field_eval = eye, !.m6 = w, !.cmd_gate = gate,
                  !.plc_link.heard = Older(@, LINK_STALE),
                  !.encoder_link.heard = Older(@, ENC_STALE),
                  !.sensor_link.heard = Older(@, ENCODERS_STALE),
                  !.cmd_mux.heard = Older(@, STATUS_STALE)]

Supervision == {"scanner", "encoder", "field_eval", "encoder_link", "sensor_link", "m6",
                "plc_link"}

\* The smallest protective field, and a node the supervision needs.
Violated(d) == body[d] <= FIELDS[1].pf
Quiet       == \/ down \cap Supervision # {} \/ ~Up("cmd_mux")
            \/ (cell.cmd_mux.auto /\ ~Up("nav")) \/ (~cell.cmd_mux.auto /\ ~Up("hmi"))

Tick ==
    LET c == FoldLeft(Turn, cell, order)
    IN  /\ cell' = Aged(c)
        /\ odd' = 1 - odd
        /\ inside' = [d \in Devices |-> IF Violated(d) THEN Older(inside[d], Reaction) ELSE 0]
        /\ silent' = IF Quiet THEN Older(silent, Reaction) ELSE 0
        \* A reset that clears the last latch ends what the body left behind.
        /\ owed' = ((owed \/ \E d \in Devices : inside'[d] = Reaction)
                    /\ ~(cell.m6.ack > 0 /\ cell.m6.latched # {} /\ c.m6.latched = {}))
        /\ UNCHANGED <<order, phase, body, down, moves, faults>>

\* Events fall between two ticks, every 100 ms.
Event(c) == odd = 0 /\ cell' = c /\ UNCHANGED <<order, phase, odd, inside, silent, owed>>
Move(c)  == moves < Moves /\ moves' = moves + 1 /\ Event(c) /\ UNCHANGED <<down, faults>>

BodyMoves ==
    /\ \E d \in Devices, s \in Spots : body[d] # s /\ body' = [body EXCEPT ![d] = s]
    /\ Move(cell)

\* push, release and reset on the panel (the panel goes with its process).
EStop == Up("m6") /\ Move([cell EXCEPT !.m6.estop = ~@]) /\ UNCHANGED body

Reset ==
    /\ Up("m6") /\ cell.m6.ack # ACK_PULSE
    /\ Event([cell EXCEPT !.m6.ack = ACK_PULSE])
    /\ UNCHANGED <<body, down, moves, faults>>

\* set_mode of the window, to cb_mode: the operator takes over or hands back.
ModeSet(c, auto) ==
    [c EXCEPT !.hmi.auto = auto, !.cmd_mux.auto = IF Up("cmd_mux") THEN auto ELSE @]
SetMode == Up("hmi") /\ Move(ModeSet(cell, ~cell.hmi.auto)) /\ UNCHANGED body

Die(p) ==
    /\ Up(p) /\ faults < Faults
    /\ faults' = faults + 1 /\ down' = down \cup {p}
    /\ Event(cell) /\ UNCHANGED <<body, moves>>

\* A process comes back as it started, with an empty socket; a mux hears the
\* latched mode, from a window that is there, and a window latches its default.
Started(p) ==
    CASE p = "hmi" -> ModeSet(cell, FALSE)
      [] p = "cmd_mux" -> [cell EXCEPT !.cmd_mux =
                              [Fresh.cmd_mux EXCEPT !.auto = Up("hmi") /\ cell.hmi.auto]]
      [] p = "m6" -> [cell EXCEPT !.m6 = Fresh.m6, !.sensor_link.out = None]
      [] p = "plc_link" -> [cell EXCEPT !.plc_link = Fresh.plc_link, !.m6.out = None]
      [] p \in {"field_eval", "encoder_link", "sensor_link", "cmd_gate"}
            -> [cell EXCEPT ![p] = Fresh[p]]
      [] OTHER -> cell

Restart(p) ==
    /\ ~Up(p) /\ down' = down \ {p}
    /\ Event(Started(p))
    /\ UNCHANGED <<body, moves, faults>>

Next ==
    \/ Tick \/ BodyMoves \/ EStop \/ Reset \/ SetMode
    \/ \E p \in Parts : Die(p) \/ Restart(p)

Spec == Init /\ [][Next]_vars

-----------------------------------------------------------------------------
\* The terminal, the latches and the counters stay in their ranges.
TypeOK ==
    /\ cell.contactor.terminal \in {0, Creep, Full}
    /\ cell.m6.latched \subseteq Inputs /\ cell.m6.ack \in 0 .. ACK_PULSE
    /\ \A d \in Devices : cell.field_eval.device[d].pfc \in 0 .. N_SCAN - 1
    /\ down \subseteq Parts

\* A body that stays in the smallest protective field stops the truck, whichever
\* one process has died and whenever it did.
BodyStops ==
    \A d \in Devices : inside[d] = Reaction /\ Violated(d) => cell.contactor.terminal = 0

\* How long the silence of a node may go unanswered (README_m6.md:1123-1124).
Budget(p) == CASE p = "m6"       -> Ticks(450)
               [] p = "plc_link" -> Ticks(350)
               [] OTHER          -> Reaction

\* So does the silence of anything that supervises the truck, or commands it.
SilenceStops ==
    \A p \in down : silent >= Budget(p) /\ Quiet /\ Up("cmd_gate")
                   => cell.contactor.terminal = 0

\* Once a body has stopped it, the truck stays stopped until the F-PLC was reset,
\* whatever process dies and comes back meanwhile.
NoRestartWithoutReset == owed => cell.contactor.terminal = 0
=============================================================================
