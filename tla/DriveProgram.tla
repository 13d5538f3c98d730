---------------------------- MODULE DriveProgram ----------------------------
(***************************************************************************)
(* The scan of src/m5/m5_ver1/virtual_plc/standard_program.py, up to what  *)
(* it permits: link verdicts, plausibility, latches, the mode arbiter, the *)
(* monitored reset, teleop and the autonomous envelope.  The caps and the  *)
(* setpoints computed from these are left out.  Times are in scans.        *)
(***************************************************************************)
EXTENDS Integers, FiniteSets, Timers

CONSTANTS
    HEARTBEAT_STALE_TIME, HMI_STALE_TIME, VEHICLE_STALE_TIME,
    PLANT_FAULT_DELAY, LIDAR_FAULT_DELAY, REQUEST_FAULT_DELAY,
    MODE_DISAGREE_DELAY, STANDSTILL_TIME

ASSUME DriveTimesAssumption ==
    \A time \in {HEARTBEAT_STALE_TIME, HMI_STALE_TIME, VEHICLE_STALE_TIME,
                 PLANT_FAULT_DELAY, LIDAR_FAULT_DELAY, REQUEST_FAULT_DELAY,
                 MODE_DISAGREE_DELAY, STANDSTILL_TIME} : time \in Nat

MODE_NONE       == 0
MODE_TELEOP     == 1
MODE_AUTONOMOUS == 2
Modes == {MODE_NONE, MODE_TELEOP, MODE_AUTONOMOUS}

-----------------------------------------------------------------------------
(* The image is three records.  A heartbeat is read only for whether it     *)
(* moved since the last scan, so Beat says that.  A measured value is the   *)
(* interval it falls into: "invalid" is outside the plausible range.        *)

\* What the bridge writes: Forklift/Input, Warning and the M3 heartbeat.
PlantImage ==
    [Beat : BOOLEAN, height : {"invalid", "valid"}, speed : {"invalid", "still", "moving"},
     distance : {"invalid", "valid"}, stopZone : BOOLEAN]
\* What the bridge forwards from the vehicle.
VehicleImage == [Beat : BOOLEAN, mode : Int]
\* What the HMI writes; plausible is said of the three analogue requests.
HmiImage ==
    [Beat : BOOLEAN, plausible : BOOLEAN, teleop : BOOLEAN, reset : BOOLEAN,
     mode : Int, stop : BOOLEAN]

BootPlant   == [Beat |-> FALSE, height |-> "valid", speed |-> "still",
                distance |-> "invalid", stopZone |-> TRUE]
BootVehicle == [Beat |-> FALSE, mode |-> MODE_NONE]
BootHmi     == [Beat |-> FALSE, plausible |-> TRUE, teleop |-> FALSE, reset |-> FALSE,
                mode |-> MODE_NONE, stop |-> TRUE]

Latches == {"ObstacleStop", "HmiLinkLost", "BridgeLinkLost", "PlantInputFault",
            "RequestFault", "ProcessStop", "ModeDisagree"}

BootDrive ==
    [BridgeSeenAlive |-> FALSE, HeartbeatStaleTimer |-> 0,
     HmiSeenAlive |-> FALSE, HmiStaleTimer |-> 0,
     VehicleSeenAlive |-> FALSE, VehicleStaleTimer |-> 0,
     PlantInvalidTimer |-> 0, LidarInvalidTimer |-> 0, RequestInvalidTimer |-> 0,
     ModeDisagreeTimer |-> 0, StandstillTimer |-> 0,
     latches |-> {"ProcessStop"},
     DriveModeInForce |-> MODE_NONE, LastModeRequest |-> MODE_NONE, AutonomousArmed |-> FALSE,
     TeleopEnableEdgeMemory |-> TRUE, ResetEdgeMemory |-> TRUE, ResetDeviceFault |-> TRUE,
     TeleopActive |-> FALSE, MotionEnable |-> FALSE]

DriveType ==
    [BridgeSeenAlive : BOOLEAN, HeartbeatStaleTimer : Nat,
     HmiSeenAlive : BOOLEAN, HmiStaleTimer : Nat,
     VehicleSeenAlive : BOOLEAN, VehicleStaleTimer : Nat,
     PlantInvalidTimer : Nat, LidarInvalidTimer : Nat, RequestInvalidTimer : Nat,
     ModeDisagreeTimer : Nat, StandstillTimer : Nat,
     latches : SUBSET Latches,
     DriveModeInForce : Modes, LastModeRequest : Int, AutonomousArmed : BOOLEAN,
     TeleopEnableEdgeMemory : BOOLEAN, ResetEdgeMemory : BOOLEAN, ResetDeviceFault : BOOLEAN,
     TeleopActive : BOOLEAN, MotionEnable : BOOLEAN]

-----------------------------------------------------------------------------
\* Part 1.  A link is up once its heartbeat has moved and while it moves.
BridgeStale(in, st) == Ton(st.HeartbeatStaleTimer, ~in.plant.Beat, HEARTBEAT_STALE_TIME)
BridgeLinkOk(in, st) ==
    /\ st.BridgeSeenAlive \/ in.plant.Beat
    /\ ~Q(BridgeStale(in, st), HEARTBEAT_STALE_TIME)
HmiStale(in, st) == Ton(st.HmiStaleTimer, ~in.hmi.Beat, HMI_STALE_TIME)
\* Mutant: once alive, alive.
HmiLinkOkOnceSeen(in, st) == st.HmiSeenAlive \/ in.hmi.Beat
HmiLinkOk(in, st) ==
    /\ st.HmiSeenAlive \/ in.hmi.Beat
    /\ ~Q(HmiStale(in, st), HMI_STALE_TIME)

\* Part 2.  Values are plausible only over a link that is up.
HeightValid(in, st)   == BridgeLinkOk(in, st) /\ in.plant.height # "invalid"
SpeedValid(in, st)    == BridgeLinkOk(in, st) /\ in.plant.speed # "invalid"
PlantInputsValid(in, st) == HeightValid(in, st) /\ SpeedValid(in, st)
DistanceValid(in, st) == BridgeLinkOk(in, st) /\ in.plant.distance = "valid"
RequestsValid(in, st) == HmiLinkOk(in, st) /\ in.hmi.plausible
ModeRequestValid(in, st) == HmiLinkOk(in, st) /\ in.hmi.mode \in Modes

PlantInvalid(in, st) ==
    Ton(st.PlantInvalidTimer, BridgeLinkOk(in, st) /\ ~PlantInputsValid(in, st), PLANT_FAULT_DELAY)
LidarInvalid(in, st) ==
    Ton(st.LidarInvalidTimer, BridgeLinkOk(in, st) /\ ~DistanceValid(in, st), LIDAR_FAULT_DELAY)
RequestInvalid(in, st) ==
    Ton(st.RequestInvalidTimer, HmiLinkOk(in, st) /\ ~RequestsValid(in, st), REQUEST_FAULT_DELAY)

VehicleStale(in, st) == Ton(st.VehicleStaleTimer, ~in.vehicle.Beat, VEHICLE_STALE_TIME)
VehicleAlive(in, st) ==
    /\ BridgeLinkOk(in, st)
    /\ st.VehicleSeenAlive \/ in.vehicle.Beat
    /\ ~Q(VehicleStale(in, st), VEHICLE_STALE_TIME)
ModeDisagree(in, st) ==
    Ton(st.ModeDisagreeTimer,
        VehicleAlive(in, st) /\ in.vehicle.mode # st.DriveModeInForce,
        MODE_DISAGREE_DELAY)
Standstill(in, st) ==
    Ton(st.StandstillTimer, SpeedValid(in, st) /\ in.plant.speed = "still", STANDSTILL_TIME)

\* Parts 1 to 3b: the latches as the reset finds them.
Latched(in, st) ==
    st.latches
      \cup (IF HmiLinkOk(in, st) THEN {} ELSE {"HmiLinkLost"})
      \cup (IF BridgeLinkOk(in, st) THEN {} ELSE {"BridgeLinkLost"})
      \cup (IF Q(PlantInvalid(in, st), PLANT_FAULT_DELAY) THEN {"PlantInputFault"} ELSE {})
      \cup (IF Q(RequestInvalid(in, st), REQUEST_FAULT_DELAY) THEN {"RequestFault"} ELSE {})
      \cup (IF Q(ModeDisagree(in, st), MODE_DISAGREE_DELAY) THEN {"ModeDisagree"} ELSE {})
      \cup (IF /\ BridgeLinkOk(in, st)
               /\ in.plant.stopZone \/ Q(LidarInvalid(in, st), LIDAR_FAULT_DELAY)
            THEN {"ObstacleStop"} ELSE {})
      \cup (IF HmiLinkOk(in, st) /\ in.hmi.stop THEN {"ProcessStop"} ELSE {})

\* Part 4.
WorldOk(in, st) ==
    /\ BridgeLinkOk(in, st) /\ HmiLinkOk(in, st)
    /\ ~in.plant.stopZone
    /\ PlantInputsValid(in, st) /\ DistanceValid(in, st) /\ RequestsValid(in, st)
    /\ ~in.hmi.stop
    /\ ~Q(ModeDisagree(in, st), MODE_DISAGREE_DELAY)
LatchPending(in, st)     == Latched(in, st) # {}
MotionPermissive(in, st) == WorldOk(in, st) /\ ~LatchPending(in, st) /\ in.safetyClear

\* Part 5a.  Leaving a mode needs no permission; entering one needs a changed
\* request, at standstill, with the permissive standing.
ModeEntered(in, st) ==
    /\ ModeRequestValid(in, st)
    /\ in.hmi.mode # st.LastModeRequest
    /\ Q(Standstill(in, st), STANDSTILL_TIME) /\ MotionPermissive(in, st)
    /\ \/ in.hmi.mode = MODE_TELEOP
       \/ in.hmi.mode = MODE_AUTONOMOUS /\ VehicleAlive(in, st)
DriveModeInForce(in, st) ==
    IF ModeRequestValid(in, st) /\ in.hmi.mode = st.DriveModeInForce THEN st.DriveModeInForce
    ELSE IF ModeEntered(in, st) THEN in.hmi.mode
    ELSE MODE_NONE
\* Mutant: only the permissive disarms.
AutonomousArmedInAnyMode(in, st) ==
    /\ st.AutonomousArmed \/ DriveModeInForce(in, st) = MODE_AUTONOMOUS
    /\ MotionPermissive(in, st) /\ VehicleAlive(in, st)
AutonomousArmed(in, st) ==
    /\ \/ st.AutonomousArmed
       \/ st.DriveModeInForce # MODE_AUTONOMOUS
    /\ DriveModeInForce(in, st) = MODE_AUTONOMOUS
    /\ MotionPermissive(in, st) /\ VehicleAlive(in, st)

\* Part 5.  The reset acts on an edge of a device that has been seen low in
\* this link session; it clears the latches and energizes nothing.
ResetDeviceFault(in, st) ==
    ~HmiLinkOk(in, st) \/ (st.ResetDeviceFault /\ in.hmi.reset)
\* Mutant: a held device is an edge in every scan.
ResetAcceptedOnLevel(in, st) ==
    /\ in.hmi.reset /\ ~ResetDeviceFault(in, st)
    /\ LatchPending(in, st) /\ WorldOk(in, st)
ResetAccepted(in, st) ==
    /\ in.hmi.reset /\ ~st.ResetEdgeMemory
    /\ ~ResetDeviceFault(in, st)
    /\ LatchPending(in, st) /\ WorldOk(in, st)
TeleopRise(in, st) ==
    HmiLinkOk(in, st) /\ in.hmi.teleop /\ ~st.TeleopEnableEdgeMemory
\* Mutant: the level of the enable is enough.
TeleopActiveOnLevel(in, st) ==
    /\ MotionPermissive(in, st) /\ in.hmi.teleop
    /\ DriveModeInForce(in, st) = MODE_TELEOP
TeleopActive(in, st) ==
    /\ st.TeleopActive \/ (TeleopRise(in, st) /\ ~LatchPending(in, st))
    /\ MotionPermissive(in, st) /\ in.hmi.teleop
    /\ DriveModeInForce(in, st) = MODE_TELEOP

\* Part 8.
MotionEnable(in, st) ==
    /\ DriveModeInForce(in, st) = MODE_AUTONOMOUS /\ AutonomousArmed(in, st)
    /\ MotionPermissive(in, st) /\ VehicleAlive(in, st)

DriveScan(in, st) ==
    [BridgeSeenAlive |-> st.BridgeSeenAlive \/ in.plant.Beat,
     HeartbeatStaleTimer |-> BridgeStale(in, st),
     HmiSeenAlive |-> st.HmiSeenAlive \/ in.hmi.Beat,
     HmiStaleTimer |-> HmiStale(in, st),
     VehicleSeenAlive |-> st.VehicleSeenAlive \/ in.vehicle.Beat,
     VehicleStaleTimer |-> VehicleStale(in, st),
     PlantInvalidTimer |-> PlantInvalid(in, st),
     LidarInvalidTimer |-> LidarInvalid(in, st),
     RequestInvalidTimer |-> RequestInvalid(in, st),
     ModeDisagreeTimer |-> ModeDisagree(in, st),
     StandstillTimer |-> Standstill(in, st),
     latches |-> IF ResetAccepted(in, st) THEN {} ELSE Latched(in, st),
     DriveModeInForce |-> DriveModeInForce(in, st),
     LastModeRequest |-> in.hmi.mode,
     AutonomousArmed |-> AutonomousArmed(in, st),
     TeleopEnableEdgeMemory |-> in.hmi.teleop,
     ResetEdgeMemory |-> in.hmi.reset,
     ResetDeviceFault |-> ResetDeviceFault(in, st),
     TeleopActive |-> TeleopActive(in, st),
     MotionEnable |-> MotionEnable(in, st)]

=============================================================================
