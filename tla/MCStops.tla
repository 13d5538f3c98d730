------------------------------ MODULE MCStops -------------------------------
(* Three things that stop the forklift of the cell, each by itself: the      *)
(* stand-in writer with its safety program, the envelope gate above the      *)
(* traction joint, and the autopilot in front of a body.                     *)
EXTENDS StandIn, Envelope, Escalation

CONSTANT c1

\* The operator beside a field evaluation, beside a speed source, and with a
\* command file and a process that is started again; and a writer that stalls
\* while the speed source is all there is.
Type(names) == {c \in Commands : c.name \in names}
Held  == {"reset_press", "reset_release"}
Close == {"estop_close", "zone_close"}
FourCasts ==
    {[clients |-> {"field", "stalls"}, commands |-> Type(Close \cup Held \cup {"zone_open"})],
     [clients |-> {"speed"}, commands |-> Type(Held \cup {"estop_close"})],
     [clients |-> {"speed", "stalls"}, commands |-> Type({"zone_close"})],
     [clients |-> {"file", "stalls"}, commands |-> Type({"estop_close", "estop_open", "reset_pulse"})]}

\* Full ahead, the same on an arc that is tighter than the steer stop, and a turn
\* on the spot.
AheadOrTurn == {[v |-> SPEED_MAX, arc |-> 1], [v |-> SPEED_MAX, arc |-> STEER_STOP + 1],
                [v |-> 0, arc |-> STEER_STOP + 1]}

VARIABLE part

StopsInit ==
    /\ StandInInit /\ EnvelopeInit /\ EscalationInit
    /\ part \in {"stand-in", "gate", "mission"}
    /\ part # "stand-in" => cast = CHOOSE some \in FourCasts : TRUE

StopsNext ==
    \/ part = "stand-in" /\ StandInNext /\ UNCHANGED <<part, envelopeVars, escalationVars>>
    \/ part = "gate" /\ EnvelopeNext /\ UNCHANGED <<part, standInVars, escalationVars>>
    \/ part = "mission" /\ EscalationNext /\ UNCHANGED <<part, standInVars, envelopeVars>>

StopsSpec ==
    /\ StopsInit
    /\ [][StopsNext]_<<part, standInVars, envelopeVars, escalationVars>>
    /\ WF_escalationVars(part = "mission" /\ Ticks)

\* The stand-in's state, the gate's and the autopilot's keep their types (see
\* StandIn, Envelope, Escalation).
StopsTypeOK == StandInTypeOK /\ EnvelopeTypeOK /\ EscalationTypeOK
=============================================================================
