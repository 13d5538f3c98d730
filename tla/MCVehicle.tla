----------------------------- MODULE MCVehicle ------------------------------
(* Two nodes are enough for every order: one node is its base and the other  *)
(* its horizon, or both are its base, and an extension falls in between.     *)
EXTENDS Vehicle
=============================================================================
