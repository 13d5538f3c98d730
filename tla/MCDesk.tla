------------------------------- MODULE MCDesk -------------------------------
(* Five casts, each with one upset: what the trouble is, what the operator   *)
(* has at hand, and whether a vehicle is there to take the autonomous mode.  *)
EXTENDS Desk

\* What the bridge may come to write: all is well, a body in the stop zone, two
\* channels at once that cannot be believed, and a truck that still moves.
Well == [Beat |-> FALSE, height |-> "valid", speed |-> "still", distance |-> "valid",
         stopZone |-> FALSE]
WhatIsRead ==
    {Well, [Well EXCEPT !.stopZone = TRUE], [Well EXCEPT !.speed = "moving"],
     [Well EXCEPT !.height = "invalid", !.distance = "invalid"]}

Cast(troubles, tools, modes, vehicle) ==
    [troubles |-> troubles, tools |-> tools, modes |-> modes, vehicle |-> vehicle]

FiveCasts ==
    {Cast({"page", "session"}, {"enable", "reset"}, {MODE_TELEOP}, FALSE),
     Cast({"plant"}, {"enable", "reset"}, {MODE_TELEOP}, FALSE),
     Cast({"plant", "vehicle", "bridge", "safety"}, {"reset"}, {MODE_AUTONOMOUS}, TRUE),
     Cast({}, {"enable", "stop"}, Modes, TRUE),
     Cast({"process", "plc", "slow"}, {"reset", "stop"}, {}, FALSE)}
=============================================================================
