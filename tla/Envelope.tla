------------------------------- MODULE Envelope -------------------------------
(***************************************************************************)
(* The last hops to the truck's traction joint: the envelope gate          *)
(* (src/agv/forklift/scripts/envelope_gate.py), the converter below it     *)
(* (cmd_vel_to_tricycle.py), the joint interface (forklift_io.py), and     *)
(* beside them the bridge, which publishes what the PLC says.  A tick is   *)
(* one period of the gate's timer.  Speeds are magnitudes: neither the     *)
(* clamp nor the ramp touches the sign or the arc.                         *)
(*                                                                         *)
(* An arc is the steer angle it takes, by how much further the steered     *)
(* wheel then rolls than the truck: 1 / cos(angle), a whole number here, 1 *)
(* straight ahead.  The wheel's speed and the truck's differ by it.        *)
(***************************************************************************)
EXTENDS Naturals, Sequences

CONSTANTS
    Smoothed,               \* what the smoother sends: [v, arc]
    Ceilings,               \* what the PLC publishes, also beyond the window
    ModesHeard,             \* and the modes, also one that is none
    Setpoints,              \* the PLC's own traction setpoints in teleop
    STALE_WINDOW, COMMAND_TIMEOUT,          \* in ticks
    CEILING_MAX, STOP_DECEL, ZERO_SPEED, CREEP_SPEED, SPEED_MAX, STEP_MAX,
    STEER_STOP,             \* the arc at the mechanical stop of the steer axis
    TRACTION_MAX            \* of the wheel

MODE_NONE == 0
MODE_TELEOP == 1
MODE_AUTONOMOUS == 2
Modes == {MODE_NONE, MODE_TELEOP, MODE_AUTONOMOUS, 3}      \* 3: not a mode
Twists == [v : 0 .. SPEED_MAX, arc : Nat \ {0}]
Still == [v |-> 0, arc |-> 1]

ASSUME EnvelopeAssumption ==
    /\ Smoothed \subseteq Twists /\ Ceilings \subseteq Nat /\ ModesHeard \subseteq Modes
    /\ Setpoints \subseteq 0 .. TRACTION_MAX
    /\ {STALE_WINDOW, COMMAND_TIMEOUT, CEILING_MAX, ZERO_SPEED, CREEP_SPEED, SPEED_MAX,
        TRACTION_MAX} \subseteq Nat
    /\ {STOP_DECEL, STEP_MAX, STEER_STOP} \subseteq Nat \ {0}

VARIABLES
    said,       \* the last value of each element the gate has heard
    ages,       \* and its age; past the window stands for never, too
    cmd,        \* the last command of the smoother: [twist, age]
    gate,       \* [state, out, applied, zeroPublished, since]
    due,        \* the timer of this tick has still to fire
    wire,       \* gated commands on their way to the joint
    joint,      \* what the traction joint was told last, the wheel's speed, and by whom
    steer,      \* what the converter told the steer joint last
    lag         \* history, for the properties only: per speed, the ticks since
                \* the envelope last allowed it

envelopeVars == <<said, ages, cmd, gate, due, wire, joint, steer, lag>>

Elements == {"enable", "ceiling", "permit", "mode"}
Said == [enable : BOOLEAN, ceiling : Ceilings \cup {0}, permit : BOOLEAN, mode : Modes]
States == {"passing", "stopping", "hold zero", "silent"}

LAG_MAX == SPEED_MAX + 1

EnvelopeInit ==
    /\ said = [enable |-> FALSE, ceiling |-> 0, permit |-> FALSE, mode |-> MODE_NONE]
    /\ ages = [e \in Elements |-> STALE_WINDOW + 1]
    /\ cmd = [twist |-> Still, age |-> COMMAND_TIMEOUT + 1]
    /\ gate = [state |-> "hold zero", out |-> Still, applied |-> MODE_NONE,
               zeroPublished |-> FALSE, since |-> 1]
    /\ due = TRUE
    /\ wire = << >>
    /\ joint = [v |-> 0, by |-> "none"] /\ steer = 1
    /\ lag = [v \in 1 .. SPEED_MAX |-> LAG_MAX]

-----------------------------------------------------------------------------
(* The arithmetic.                                                          *)

\* A clamp to zero takes the arc along; nothing at all is nothing to clamp.
ClampToCeiling(twist, ceiling) ==
    IF twist.v <= ceiling THEN twist
    ELSE [v |-> ceiling, arc |-> IF ceiling > 0 THEN twist.arc ELSE 1]

\* Mutant: the ramp runs past zero.
RampTowardsZeroPast(twist, dt) == [twist EXCEPT !.v = @ - STOP_DECEL * dt]

RampTowardsZero(twist, dt) ==
    IF twist.v <= ZERO_SPEED + STOP_DECEL * dt THEN
        IF twist.v <= ZERO_SPEED \/ dt > 0 THEN Still ELSE twist
    ELSE [twist EXCEPT !.v = @ - STOP_DECEL * dt]

AtMost(n, cap) == IF n <= cap THEN n ELSE cap

\* twist_to_tricycle: the angle ends at its stop, and the wheel has as much further
\* to roll as that takes.
SteerOf(twist) == AtMost(twist.arc, STEER_STOP)

\* cb_cmd_vel of the converter: under the creep deadband traction is zero.
JointSpeed(twist) ==
    IF twist.v < CREEP_SPEED THEN 0 ELSE AtMost(twist.v * SteerOf(twist), TRACTION_MAX)

-----------------------------------------------------------------------------
(* The gate law.                                                            *)

OnTime(e) == ages[e] <= STALE_WINDOW

\* Mutant: the age of the ceiling is not looked at.
EnvelopeFreshLess == \A e \in Elements \ {"ceiling"} : OnTime(e)

EnvelopeFresh == \A e \in Elements : OnTime(e)
CeilingValid == said.ceiling <= CEILING_MAX

Permissive ==
    /\ EnvelopeFresh
    /\ said.mode = MODE_AUTONOMOUS /\ said.enable /\ said.permit
    /\ CeilingValid

\* Mutant: the release does not wait for the zero.
ReleaseAtOnce == OnTime("mode") /\ said.mode = MODE_TELEOP

\* The release waits for a zero that has gone out.
Release == OnTime("mode") /\ said.mode = MODE_TELEOP /\ gate.zeroPublished

\* The output and the state _step comes to, for a command of this age.
Stepped(twist, cmdAge) ==
    LET ramped == RampTowardsZero(gate.out, gate.since)
    IN  IF Permissive /\ cmdAge <= COMMAND_TIMEOUT
        THEN [out |-> ClampToCeiling(twist, said.ceiling), state |-> "passing"]
        ELSE [out |-> ramped,
              state |-> IF ramped # Still THEN "stopping"
                        ELSE IF Release THEN "silent" ELSE "hold zero"]

\* mode/applied follows what the gate has adopted, not what it was asked.
Applied(state) ==
    IF state = "silent" THEN MODE_TELEOP
    ELSE IF OnTime("mode") /\ said.mode = MODE_AUTONOMOUS THEN MODE_AUTONOMOUS
    ELSE IF state = "stopping" THEN gate.applied
    ELSE MODE_NONE

\* _step and _publish: silence is the release, everything else is published.
Step(twist, cmdAge) ==
    LET next == Stepped(twist, cmdAge)
        silent == next.state = "silent"
    IN  /\ gate' = [state |-> next.state, out |-> next.out, applied |-> Applied(next.state),
                    zeroPublished |-> IF silent THEN gate.zeroPublished ELSE next.out = Still,
                    since |-> 0]
        /\ wire' = IF silent THEN wire ELSE Append(wire, next.out)

-----------------------------------------------------------------------------
(* The callbacks.                                                           *)

\* What the PLC last said, all of it on time, allows this speed.
Allowed(v) ==
    /\ \A e \in Elements : ages[e] <= STALE_WINDOW
    /\ said.mode = MODE_AUTONOMOUS /\ said.enable /\ said.permit
    /\ v <= said.ceiling /\ said.ceiling <= CEILING_MAX
Aging(n, cap) == IF n < cap THEN n + 1 ELSE n

\* The bridge republishes one element, as the PLC has it.  Bound: once a tick.
Hear(e, value) ==
    /\ ages[e] > 0
    /\ said' = [said EXCEPT ![e] = value]
    /\ ages' = [ages EXCEPT ![e] = 0]
    /\ lag' = [v \in 1 .. SPEED_MAX |-> IF Allowed(v)' THEN 0 ELSE lag[v]]
    /\ UNCHANGED <<cmd, gate, due, wire, joint, steer>>

HearEnvelope ==
    \/ \E e \in {"enable", "permit"}, value \in BOOLEAN : Hear(e, value)
    \/ \E value \in Ceilings : Hear("ceiling", value)
    \/ \E value \in ModesHeard : Hear("mode", value)

\* Bound: one command of the smoother a tick.
HearCommand(twist) ==
    /\ cmd.age > 0
    /\ cmd' = [twist |-> twist, age |-> 0]
    /\ Step(twist, 0)
    /\ UNCHANGED <<said, ages, due, joint, steer, lag>>

\* The timer leaves a command alone that was published in its own period.
TimerFires ==
    /\ due
    /\ due' = FALSE
    /\ IF gate.state = "passing" /\ gate.since = 0
       THEN UNCHANGED <<gate, wire>>
       ELSE Step(cmd.twist, cmd.age)
    /\ UNCHANGED <<said, ages, cmd, joint, steer, lag>>

\* Under the deadband the steer axis is held where it is.
Deliver ==
    /\ wire # << >>
    /\ joint' = [v |-> JointSpeed(Head(wire)), by |-> "gate"]
    /\ steer' = IF Head(wire).v < CREEP_SPEED THEN steer ELSE SteerOf(Head(wire))
    /\ wire' = Tail(wire)
    /\ UNCHANGED <<said, ages, cmd, gate, due, lag>>

\* The bridge publishes the PLC's setpoint in every mode; outside teleop the
\* PLC forms zero.
Setpoint(v) ==
    /\ v # 0 => said.mode = MODE_TELEOP
    /\ joint' = [v |-> v, by |-> "plc"]
    /\ UNCHANGED <<said, ages, cmd, gate, due, wire, steer, lag>>

\* One period passes; what was sent in the last one has arrived.
Period ==
    /\ ~due /\ wire = << >>
    /\ due' = TRUE
    /\ ages' = [e \in Elements |-> Aging(ages[e], STALE_WINDOW + 1)]
    /\ cmd' = [cmd EXCEPT !.age = Aging(@, COMMAND_TIMEOUT + 1)]
    /\ gate' = [gate EXCEPT !.since = Aging(@, STEP_MAX)]
    /\ lag' = [v \in 1 .. SPEED_MAX |-> IF Allowed(v) THEN 0 ELSE Aging(lag[v], LAG_MAX)]
    /\ UNCHANGED <<said, wire, joint, steer>>

EnvelopeNext ==
    \/ HearEnvelope \/ \E twist \in Smoothed : HearCommand(twist)
    \/ TimerFires \/ Deliver \/ Period
    \/ \E v \in Setpoints \cup {0} : Setpoint(v)

EnvelopeSpec == EnvelopeInit /\ [][EnvelopeNext]_envelopeVars

-----------------------------------------------------------------------------
(* Properties.                                                              *)

\* What the autonomous chain will have told the joint when the wire is empty.
LastOrder ==
    IF wire # << >> THEN JointSpeed(wire[Len(wire)])
    ELSE IF joint.by = "gate" THEN joint.v ELSE 0

\* Every part of the state stays in its range, and between two steps the state
\* and the output of the gate agree about standing still.
EnvelopeTypeOK ==
    /\ said \in Said /\ ages \in [Elements -> 0 .. STALE_WINDOW + 1]
    /\ cmd \in [twist : Twists, age : 0 .. COMMAND_TIMEOUT + 1]
    /\ gate \in [state : States, out : Twists, applied : Modes, zeroPublished : BOOLEAN,
                 since : 0 .. STEP_MAX]
    /\ due \in BOOLEAN /\ wire \in Seq(Twists)
    /\ joint \in [v : 0 .. TRACTION_MAX, by : {"none", "gate", "plc"}]
    /\ steer \in 1 .. STEER_STOP
    /\ lag \in [1 .. SPEED_MAX -> 0 .. LAG_MAX]
    /\ gate.state \in {"hold zero", "silent"} => gate.out = Still
    /\ gate.state = "stopping" => gate.out # Still

\* The envelope bounds the truck: once it has not allowed a speed, on time and in
\* every element, for as long as the ramp takes, the wheel speed and the steer angle
\* the autonomous chain commands are those of a truck below that speed, whatever the
\* smoother goes on sending.  The wheel itself is bounded as far as the arc leaves it.
EnvelopeHolds ==
    (~due /\ wire = << >> /\ joint.by = "gate") =>
        \A v \in 1 .. SPEED_MAX : lag[v] > SPEED_MAX => joint.v < v * steer

\* While the gate reports Teleop it has let go of the joint at rest: the last
\* thing it sent, or still has on its way, is a standstill.
ReleasedAtRest == gate.applied = MODE_TELEOP => LastOrder = 0

\* What opcua-nodes.md says of the two command paths: exactly one is live.
OnePathLive ==
    [][gate.state = "passing" => ~\E v \in Setpoints \cup {0} : Setpoint(v)]_envelopeVars
==============================================================================
