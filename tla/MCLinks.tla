------------------------------- MODULE MCLinks ------------------------------
(* Two parts that share no state, each by itself: a truck's agent with its   *)
(* nav, and the image a cell's bridge keeps (an analogue input, a panel      *)
(* contact, a warning field).  Two nodes are enough for every order: one is  *)
(* its base and the other its horizon, or both are its base, and an          *)
(* extension falls in between.                                               *)
EXTENDS Vehicle, Bridge

CellCyclic       == {"range"}
CellOnChange     == {"stop", "warning"}
CellStaleAsserts == {"warning"}
CellOrder        == <<"range", "stop", "warning">>
CellStart        == [key \in {"range", "stop", "warning"} |-> key = "warning"]

VARIABLE part

LinksNext ==
    \/ part = "agent" /\ VehicleNext /\ UNCHANGED <<part, bridgeVars>>
    \/ part = "bridge" /\ BridgeNext /\ UNCHANGED <<part, vehicleVars>>

LinksInit == part \in {"agent", "bridge"} /\ VehicleInit /\ BridgeInit

LinksSpec ==
    /\ LinksInit /\ [][LinksNext]_<<part, vehicleVars, bridgeVars>>
    /\ Deliveries /\ []<>(part = "agent" /\ nav.up /\ HasNews => report # Nothing)
    /\ WF_bridgeVars(part = "bridge" /\ Cycle)

\* The agent's state and the bridge's keep their types (see Vehicle and Bridge).
LinksTypeOK == VehicleTypeOK /\ BridgeTypeOK
=============================================================================
