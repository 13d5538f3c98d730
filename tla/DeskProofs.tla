----------------------------- MODULE DeskProofs -----------------------------
(***************************************************************************)
(* Theorems about Desk: what the program does for the operator, for every  *)
(* time constant, every cast and any number of upsets.  Read backwards     *)
(* from the scan that clears the latches or starts a motion: what the      *)
(* image has, the process has had; what the process has, the page has had; *)
(* and at each of the three places the history has an act that is unspent, *)
(* or the program is latched and will not take it.                         *)
(***************************************************************************)
EXTENDS Desk, TLAPS

-----------------------------------------------------------------------------
(* Types. *)

\* A silence is counted to one past its limit.
StoryType ==
    [click : BOOLEAN, select : BOOLEAN, afterPress : SUBSET {"click", "select"},
     press : BOOLEAN, ofSession : BOOLEAN,
     hmiSilent : 0 .. HMI_STALE_TIME + 1, bridgeSilent : 0 .. HEARTBEAT_STALE_TIME + 1]

HmiType ==
    [up : BOOLEAN, session : {"none", "up", "over"}, phase : {"idle", "written"},
     waited : 0 .. RECONNECT, teleop : BOOLEAN, reset : BOOLEAN, tap : BOOLEAN,
     teleopArmed : BOOLEAN, resetArmed : BOOLEAN,
     stop : BOOLEAN, mode : Modes, pageStale : BOOLEAN]
DbType ==
    [plant : PlantImage, vehicle : VehicleImage, hmi : HmiImage,
     safetyClear : BOOLEAN, bridgeUp : BOOLEAN, vehicleUp : BOOLEAN]
PageType == [teleop : BOOLEAN, reset : BOOLEAN, frozen : BOOLEAN]

DeskTypes ==
    /\ page \in PageType /\ hmi \in HmiType /\ db \in DbType /\ drive \in DriveType
    /\ cast \in Casts /\ story \in StoryType
    /\ hmi.phase = "written" => hmi.session = "up"
    /\ drive.AutonomousArmed => drive.DriveModeInForce = MODE_AUTONOMOUS
    /\ ~hmi.up => hmi.session = "none"

LEMMA Bounds ==
    /\ HMI_STALE_TIME \in Nat /\ HEARTBEAT_STALE_TIME \in Nat /\ RECONNECT \in Nat
    /\ HMI_STALE_TIME + 2 <= RECONNECT
    /\ \A c \in Casts : c.modes \subseteq Modes
    /\ Plants \subseteq PlantImage
BY DriveTimesAssumption, DeskAssumption

LEMMA TypesAreTypeOK == DeskTypes => DeskTypeOK
BY DEF DeskTypes, DeskTypeOK, PageType, HmiType, DbType

LEMMA TonType == ASSUME NEW calls \in Nat, NEW input, NEW pt \in Nat
                 PROVE  Ton(calls, input, pt) \in Nat
BY DEF Ton

\* Controls.apply() and the rests keep the type of the controls.
LEMMA ControlsType ==
    ASSUME NEW h \in HmiType, NEW p \in PageType
    PROVE  /\ Applied(h, p) \in HmiType /\ Rest(h) \in HmiType /\ PageLost(h) \in HmiType
           /\ Rest(h).up = h.up /\ Rest(h).session = h.session
           /\ PageLost(h).up = h.up /\ PageLost(h).session = h.session
<1> DEFINE tArmed == h.teleopArmed \/ ~p.teleop
           rArmed == h.resetArmed \/ ~p.reset
           tap    == h.tap \/ (p.reset /\ h.resetArmed)
<1>1. /\ tArmed \in BOOLEAN /\ rArmed \in BOOLEAN /\ tap \in BOOLEAN
      /\ p.teleop \in BOOLEAN /\ p.reset \in BOOLEAN
  BY DEF PageType
<1>2. Applied(h, p) = [h EXCEPT !.teleop = p.teleop, !.reset = p.reset,
                                !.teleopArmed = tArmed, !.resetArmed = rArmed, !.tap = tap]
  BY DEF Applied
<1> HIDE DEF tArmed, rArmed, tap
<1>3. Applied(h, p) \in HmiType
  BY <1>1, <1>2 DEF HmiType
<1>4. Rest(h) \in HmiType /\ Rest(h).up = h.up /\ Rest(h).session = h.session
  BY DEF HmiType, Rest
<1>5. /\ PageLost(h) \in HmiType
      /\ PageLost(h).up = h.up /\ PageLost(h).session = h.session
  BY <1>4 DEF HmiType, PageLost
<1>6. QED
  BY <1>3, <1>4, <1>5

LEMMA CarriedType ==
    ASSUME NEW image \in HmiImage, NEW h \in HmiType
    PROVE  Carried(image, h) \in HmiImage
<1>1. Modes \subseteq Int
  BY DEF Modes, MODE_NONE, MODE_TELEOP, MODE_AUTONOMOUS
<1>2. CarriedReset(h) \in BOOLEAN /\ (h.teleop /\ h.teleopArmed) \in BOOLEAN
  BY DEF CarriedReset, HmiType
<1>3. QED
  BY <1>1, <1>2, ZenonT(60) DEF HmiImage, HmiType, Carried

\* A scan keeps the type of the statics.
LEMMA ScanType ==
    ASSUME NEW in, in.hmi \in HmiImage, NEW st \in DriveType
    PROVE  /\ DriveScan(in, st) \in DriveType
           /\ DriveScan(in, st).AutonomousArmed =>
                DriveScan(in, st).DriveModeInForce = MODE_AUTONOMOUS
<1>1. \A t \in {HEARTBEAT_STALE_TIME, HMI_STALE_TIME, VEHICLE_STALE_TIME,
                PLANT_FAULT_DELAY, LIDAR_FAULT_DELAY, REQUEST_FAULT_DELAY,
                MODE_DISAGREE_DELAY, STANDSTILL_TIME} : t \in Nat
  BY DriveTimesAssumption
<1>2. /\ st.HeartbeatStaleTimer \in Nat /\ st.HmiStaleTimer \in Nat
      /\ st.VehicleStaleTimer \in Nat /\ st.PlantInvalidTimer \in Nat
      /\ st.LidarInvalidTimer \in Nat /\ st.RequestInvalidTimer \in Nat
      /\ st.ModeDisagreeTimer \in Nat /\ st.StandstillTimer \in Nat
      /\ st.latches \in SUBSET Latches /\ st.DriveModeInForce \in Modes
  BY DEF DriveType
<1>3. /\ BridgeStale(in, st) \in Nat /\ HmiStale(in, st) \in Nat /\ VehicleStale(in, st) \in Nat
      /\ PlantInvalid(in, st) \in Nat /\ LidarInvalid(in, st) \in Nat
      /\ RequestInvalid(in, st) \in Nat /\ ModeDisagree(in, st) \in Nat
      /\ Standstill(in, st) \in Nat
  BY <1>1, <1>2, TonType DEF BridgeStale, HmiStale, VehicleStale, PlantInvalid,
     LidarInvalid, RequestInvalid, ModeDisagree, Standstill
<1>4. Latched(in, st) \in SUBSET Latches
  BY <1>2 DEF Latched, Latches
<1>5. DriveModeInForce(in, st) \in Modes
  BY <1>2 DEF DriveModeInForce, ModeEntered, Modes
<1>6. in.hmi.mode \in Int /\ in.hmi.teleop \in BOOLEAN /\ in.hmi.reset \in BOOLEAN
  BY DEF HmiImage
<1>7. /\ (st.BridgeSeenAlive \/ in.plant.Beat) \in BOOLEAN
      /\ (st.HmiSeenAlive \/ in.hmi.Beat) \in BOOLEAN
      /\ (st.VehicleSeenAlive \/ in.vehicle.Beat) \in BOOLEAN
      /\ AutonomousArmed(in, st) \in BOOLEAN /\ ResetDeviceFault(in, st) \in BOOLEAN
      /\ TeleopActive(in, st) \in BOOLEAN /\ MotionEnable(in, st) \in BOOLEAN
  BY DEF AutonomousArmed, ResetDeviceFault, TeleopActive, MotionEnable
<1>8. (IF ResetAccepted(in, st) THEN {} ELSE Latched(in, st)) \in SUBSET Latches
  BY <1>4
<1>9. DriveScan(in, st) \in DriveType
  BY <1>3, <1>5, <1>6, <1>7, <1>8 DEF DriveScan, DriveType
<1>10. DriveScan(in, st).AutonomousArmed = AutonomousArmed(in, st)
       /\ DriveScan(in, st).DriveModeInForce = DriveModeInForce(in, st)
  BY DEF DriveScan
<1>11. AutonomousArmed(in, st) => DriveModeInForce(in, st) = MODE_AUTONOMOUS
  BY DEF AutonomousArmed
<1>12. QED
  BY <1>9, <1>10, <1>11

LEMMA CountType == ASSUME NEW cap \in Nat, NEW n \in 0 .. cap, NEW holds
                   PROVE  Count(n, holds, cap) \in 0 .. cap
BY DEF Count

LEMMA FreshType == FreshHmi \in HmiType /\ WorkingHmi \in HmiType
<1>1. 0 \in Modes /\ RECONNECT \in 0 .. RECONNECT
  BY Bounds DEF Modes, MODE_NONE
<1>2. FreshHmi \in HmiType
  BY <1>1 DEF FreshHmi, HmiType, MODE_NONE
<1>3. QED
  BY <1>2 DEF WorkingHmi, HmiType

\* A post leaves everything typed.
LEMMA PostType ==
    ASSUME DeskTypes, NEW p \in PageType, NEW h \in HmiType, Post(p, h),
           h.up = hmi.up, h.session = hmi.session, h.phase = hmi.phase,
           story' \in StoryType
    PROVE  DeskTypes'
<1>1. /\ hmi' \in HmiType /\ hmi'.up = hmi.up /\ hmi'.session = hmi.session
      /\ hmi'.phase = hmi.phase
  <2>1. Applied(h, p) \in HmiType
    BY ControlsType
  <2>2. Applied(h, p).up = h.up /\ Applied(h, p).session = h.session
        /\ Applied(h, p).phase = h.phase
    BY DEF Applied, HmiType
  <2>3. QED
    BY <2>1, <2>2 DEF DeskTypes, Post
<1>2. QED
  BY <1>1 DEF DeskTypes, Post

LEMMA DeskInitTypes == DeskInit => DeskTypes
<1> SUFFICES ASSUME DeskInit PROVE DeskTypes
  OBVIOUS
<1>1. page \in PageType
  BY DEF DeskInit, PageType
<1>2. hmi \in HmiType /\ hmi.phase = "idle" /\ hmi.up
  BY FreshType DEF DeskInit, WorkingHmi, FreshHmi
<1>3. cast \in Casts /\ cast.vehicle \in BOOLEAN
  BY DeskAssumption DEF DeskInit
<1>4. db \in DbType
  <2>1. MODE_NONE \in Int
    BY DEF MODE_NONE
  <2>2. QED
    BY <1>3, <2>1 DEF DeskInit, WorkingDb, DbType, PlantImage, VehicleImage, HmiImage,
       BootPlant, BootVehicle, BootHmi
<1>5. drive \in DriveType /\ ~drive.AutonomousArmed
  <2>1. MODE_NONE \in Int /\ MODE_NONE \in Modes /\ VEHICLE_STALE_TIME + 1 \in Nat
        /\ STANDSTILL_TIME + 1 \in Nat
    BY DriveTimesAssumption DEF MODE_NONE, Modes
  <2>2. BootDrive \in DriveType /\ ~BootDrive.AutonomousArmed
    BY <2>1 DEF BootDrive, DriveType, Latches
  <2>3. drive = WorkingDrive(cast.vehicle)
    BY DEF DeskInit
  <2>4. QED
    BY <1>3, <2>1, <2>2, <2>3, ZenonT(60) DEF WorkingDrive, BootDrive, DriveType, Latches
<1>6. story \in StoryType
  BY Bounds DEF DeskInit, BootStory, StoryType
<1>7. QED
  BY <1>1, <1>2, <1>3, <1>4, <1>5, <1>6 DEF DeskTypes

LEMMA DeskStepTypes == DeskTypes /\ [DeskNext]_deskVars => DeskTypes'
<1> SUFFICES ASSUME DeskTypes, [DeskNext]_deskVars PROVE DeskTypes'
  OBVIOUS
<1>1. /\ page \in PageType /\ hmi \in HmiType /\ db \in DbType /\ drive \in DriveType
      /\ cast \in Casts /\ story \in StoryType
      /\ hmi.phase = "written" => hmi.session = "up"
      /\ drive.AutonomousArmed => drive.DriveModeInForce = MODE_AUTONOMOUS
      /\ ~hmi.up => hmi.session = "none"
  BY DEF DeskTypes
<1>2. CASE ClickEnable
  <2> DEFINE p == [page EXCEPT !.teleop = ~@]
  <2>1. p \in PageType /\ Post(p, hmi)
    BY <1>1, <1>2 DEF PageType, ClickEnable
  <2>2. story' \in StoryType
    BY <1>1, <1>2 DEF ClickEnable, StoryType
  <2>3. QED
    BY <1>1, <2>1, <2>2, PostType
<1>3. CASE PressReset
  <2> DEFINE p == [page EXCEPT !.reset = TRUE]
  <2>1. p \in PageType /\ Post(p, hmi)
    BY <1>1, <1>3 DEF PageType, PressReset
  <2>2. story' \in StoryType
    BY <1>1, <1>3 DEF PressReset, StoryType
  <2>3. QED
    BY <1>1, <2>1, <2>2, PostType
<1>4. CASE ReleaseReset
  <2> DEFINE p == [page EXCEPT !.reset = FALSE]
  <2>1. p \in PageType /\ Post(p, hmi) /\ story' = story
    BY <1>1, <1>4 DEF PageType, ReleaseReset
  <2>2. QED
    BY <1>1, <2>1, PostType
<1>5. CASE Touch
  BY <1>1, <1>5, PostType DEF Touch
<1>6. CASE ReleaseAll
  <2> DEFINE p == [page EXCEPT !.teleop = FALSE, !.reset = FALSE]
  <2>1. p \in PageType /\ Post(p, hmi) /\ story' = story
    BY <1>1, <1>6 DEF PageType, ReleaseAll
  <2>2. QED
    BY <1>1, <2>1, PostType
<1>7. CASE ClickStop
  <2> DEFINE h == [hmi EXCEPT !.stop = ~@]
  <2>1. /\ h \in HmiType /\ Post(page, h) /\ story' = story
        /\ h.up = hmi.up /\ h.session = hmi.session /\ h.phase = hmi.phase
    BY <1>1, <1>7 DEF HmiType, ClickStop
  <2>2. QED
    BY <1>1, <2>1, PostType
<1>8. ASSUME NEW mode \in cast.modes, ClickMode(mode) PROVE DeskTypes'
  <2> DEFINE h == [hmi EXCEPT !.mode = mode]
  <2>1. mode \in Modes
    BY <1>1, Bounds
  <2>2. /\ h \in HmiType /\ Post(page, h)
        /\ h.up = hmi.up /\ h.session = hmi.session /\ h.phase = hmi.phase
    BY <1>1, <1>8, <2>1 DEF HmiType, ClickMode
  <2>3. story' \in StoryType
    BY <1>1, <1>8 DEF ClickMode, StoryType
  <2>4. QED
    BY <1>1, <2>2, <2>3, PostType
<1>9. CASE Freezes \/ Thaws
  <2>1. page' \in PageType /\ UNCHANGED <<hmi, db, drive, cast, story>>
    BY <1>1, <1>9 DEF Freezes, Thaws, PageType
  <2>2. QED
    BY <1>1, <2>1 DEF DeskTypes
<1>10. ASSUME NEW quiet \in BOOLEAN, WritesRequests(quiet) PROVE DeskTypes'
  <2> DEFINE taken == IF quiet /\ ~hmi.pageStale THEN PageLost(hmi) ELSE hmi
             tap   == taken.tap /\ ~CarriedReset(taken)
  <2>1. taken \in HmiType /\ taken.session = hmi.session /\ taken.up = hmi.up
    BY <1>1, ControlsType
  <2>2. /\ hmi' = [taken EXCEPT !.phase = "written", !.pageStale = quiet, !.tap = tap]
        /\ db' = [db EXCEPT !.hmi = Carried(@, taken)]
        /\ hmi.session = "up" /\ UNCHANGED <<page, drive, cast, story>>
    BY <1>10 DEF WritesRequests
  <2>3. tap \in BOOLEAN
    OBVIOUS
  <2> HIDE DEF taken, tap
  <2>4. hmi' \in HmiType /\ hmi'.session = "up" /\ hmi'.up = hmi.up
    BY <2>1, <2>2, <2>3 DEF HmiType
  <2>5. db' \in DbType
    BY <1>1, <2>1, <2>2, CarriedType DEF DbType
  <2>6. QED
    BY <1>1, <2>2, <2>4, <2>5 DEF DeskTypes
<1>11. CASE WritesHeartbeat
  <2>1. /\ hmi' \in HmiType /\ hmi'.phase = "idle" /\ hmi'.up = hmi.up
        /\ hmi'.session = hmi.session /\ UNCHANGED <<page, drive, cast, story>>
    BY <1>1, <1>11 DEF WritesHeartbeat, HmiType
  <2>2. db' \in DbType
    BY <1>1, <1>11 DEF WritesHeartbeat, DbType, HmiImage
  <2>3. QED
    BY <1>1, <2>1, <2>2 DEF DeskTypes
<1>12. ASSUME NEW session \in {"none", "over"}, NEW landed \in BOOLEAN,
              FinalZeros(session, landed)
       PROVE  DeskTypes'
  <2>1. Rest(hmi) \in HmiType /\ Rest(hmi).up = hmi.up /\ 0 \in 0 .. RECONNECT
    BY <1>1, ControlsType, Bounds
  <2>2. /\ hmi' \in HmiType /\ hmi'.phase = "idle" /\ hmi'.up = hmi.up /\ hmi.session = "up"
        /\ UNCHANGED <<page, drive, cast, story>>
    BY <2>1, <1>12 DEF FinalZeros, HmiType
  <2>3. hmi.up
    BY <1>1, <2>2
  <2>4. db' \in DbType
    BY <1>1, <1>12, <2>1, CarriedType DEF FinalZeros, DbType
  <2>5. QED
    BY <1>1, <2>2, <2>3, <2>4 DEF DeskTypes
<1>13. CASE Connects
  <2>1. /\ hmi' \in HmiType /\ hmi'.session = "up" /\ hmi'.up = hmi.up /\ hmi.up
        /\ UNCHANGED <<page, db, drive, cast>>
    BY <1>1, <1>13 DEF Connects, HmiType
  <2>2. story' \in StoryType
    BY <1>1, <1>13 DEF Connects, StoryType, PageType
  <2>3. QED
    BY <1>1, <2>1, <2>2 DEF DeskTypes
<1>14. CASE Dies
  <2>1. /\ hmi' = [FreshHmi EXCEPT !.up = FALSE, !.waited = 0]
        /\ UNCHANGED <<page, db, drive, cast, story>>
    BY <1>14 DEF Dies
  <2>2. hmi' \in HmiType /\ hmi'.phase = "idle" /\ hmi'.session = "none"
    <3>1. 0 \in 0 .. RECONNECT /\ FreshHmi \in HmiType
      BY FreshType, Bounds
    <3>2. FreshHmi.phase = "idle" /\ FreshHmi.session = "none"
      BY DEF FreshHmi
    <3>3. QED
      BY <2>1, <3>1, <3>2 DEF HmiType
  <2>3. QED
    BY <1>1, <2>1, <2>2 DEF DeskTypes
<1>15. CASE Starts
  <2>1. hmi' = FreshHmi /\ UNCHANGED <<page, db, drive, cast, story>>
    BY <1>15 DEF Starts
  <2>2. hmi' \in HmiType /\ hmi'.phase = "idle" /\ hmi'.session = "none"
    BY <2>1, FreshType DEF FreshHmi
  <2>3. QED
    BY <1>1, <2>1, <2>2 DEF DeskTypes
<1>16. ASSUME db' \in DbType, UNCHANGED <<page, hmi, drive, cast, story>> PROVE DeskTypes'
  BY <1>1, <1>16 DEF DeskTypes
<1>17. ASSUME NEW p \in Plants, PlantReads(p) PROVE DeskTypes'
  BY <1>1, <1>16, <1>17, Bounds DEF PlantReads, DbType
<1>18. CASE BridgeTurns \/ VehicleTurns \/ SafetyTurns
  BY <1>1, <1>16, <1>18 DEF BridgeTurns, VehicleTurns, SafetyTurns, DbType
<1>19. CASE VehicleApplies
  <2>1. drive.DriveModeInForce \in Int
    BY <1>1 DEF DriveType, Modes, MODE_NONE, MODE_TELEOP, MODE_AUTONOMOUS
  <2>2. QED
    BY <1>1, <1>16, <1>19, <2>1 DEF VehicleApplies, DbType, VehicleImage
<1>20. CASE DriveScans
  <2>1. /\ drive' = DriveScan(Input, drive) /\ db' = [db EXCEPT !.hmi.Beat = FALSE]
        /\ hmi' = [hmi EXCEPT !.waited =
                        IF hmi.session = "up" \/ @ >= RECONNECT THEN @ ELSE @ + 1]
        /\ story' = Told /\ UNCHANGED <<page, cast>>
    BY <1>20 DEF DriveScans
  <2>2. Input.hmi = db.hmi /\ db.hmi \in HmiImage
    BY <1>1 DEF Input, DbType
  <2>3. /\ drive' \in DriveType
        /\ drive'.AutonomousArmed => drive'.DriveModeInForce = MODE_AUTONOMOUS
    BY <1>1, <2>1, <2>2, ScanType
  <2>4. /\ hmi' \in HmiType /\ hmi'.up = hmi.up /\ hmi'.session = hmi.session
        /\ hmi'.phase = hmi.phase
    <3> DEFINE waited == IF hmi.session = "up" \/ hmi.waited >= RECONNECT
                         THEN hmi.waited ELSE hmi.waited + 1
    <3>1. hmi.waited \in 0 .. RECONNECT
      BY <1>1 DEF HmiType
    <3>2. waited \in 0 .. RECONNECT
      BY <3>1, Bounds
    <3>3. hmi' = [hmi EXCEPT !.waited = waited]
      BY <2>1
    <3> HIDE DEF waited
    <3>4. QED
      BY <1>1, <3>2, <3>3 DEF HmiType
  <2>5. db' \in DbType
    BY <1>1, <2>1 DEF DbType, HmiImage
  <2>6. story' \in StoryType
    <3>1. /\ Count(story.hmiSilent, ~db.hmi.Beat, HMI_STALE_TIME + 1) \in 0 .. HMI_STALE_TIME + 1
          /\ Count(story.bridgeSilent, ~db.bridgeUp, HEARTBEAT_STALE_TIME + 1)
                \in 0 .. HEARTBEAT_STALE_TIME + 1
      <4>1. HMI_STALE_TIME + 1 \in Nat /\ HEARTBEAT_STALE_TIME + 1 \in Nat
            /\ story.hmiSilent \in 0 .. HMI_STALE_TIME + 1
            /\ story.bridgeSilent \in 0 .. HEARTBEAT_STALE_TIME + 1
        BY <1>1, Bounds DEF StoryType
      <4>2. QED
        BY <4>1, CountType
    <3>2. /\ story'.click \in BOOLEAN /\ story'.select \in BOOLEAN /\ story'.press \in BOOLEAN
          /\ story'.hmiSilent = Count(story.hmiSilent, ~db.hmi.Beat, HMI_STALE_TIME + 1)
          /\ story'.bridgeSilent =
                Count(story.bridgeSilent, ~db.bridgeUp, HEARTBEAT_STALE_TIME + 1)
          /\ story' = [story EXCEPT !.click = story'.click, !.select = story'.select,
                          !.press = story'.press, !.hmiSilent = story'.hmiSilent,
                          !.bridgeSilent = story'.bridgeSilent]
      BY <1>1, <2>1 DEF Told, StoryType
    <3>3. QED
      BY <1>1, <3>1, <3>2, ZenonT(60) DEF StoryType
  <2>7. QED
    BY <1>1, <2>1, <2>3, <2>4, <2>5, <2>6 DEF DeskTypes
<1>21. CASE PlcStarts
  <2>1. db' \in DbType
    <3>1. MODE_NONE \in Int
      BY DEF MODE_NONE
    <3>2. QED
      BY <1>1, <1>21, <3>1, ZenonT(60) DEF PlcStarts, DbType, PlantImage, VehicleImage, HmiImage,
         BootPlant, BootVehicle, BootHmi
  <2>2. drive' \in DriveType /\ ~drive'.AutonomousArmed
    <3>1. MODE_NONE \in Int /\ MODE_NONE \in Modes
      BY DEF MODE_NONE, Modes
    <3>2. QED
      BY <1>21, <3>1 DEF PlcStarts, BootDrive, DriveType, Latches
  <2>3. /\ hmi' \in HmiType /\ hmi'.session # "up" /\ hmi'.phase = "idle"
        /\ hmi'.up = hmi.up /\ (~hmi.up => hmi'.session = "none")
    <3>1. Rest(hmi) \in HmiType /\ Rest(hmi).up = hmi.up /\ 0 \in 0 .. RECONNECT
      BY <1>1, ControlsType, Bounds
    <3>2. QED
      BY <1>1, <1>21, <3>1 DEF PlcStarts, HmiType
  <2>4. UNCHANGED <<page, cast, story>>
    BY <1>21 DEF PlcStarts
  <2>5. QED
    BY <1>1, <2>1, <2>2, <2>3, <2>4 DEF DeskTypes
<1>22. CASE UNCHANGED deskVars
  BY <1>1, <1>22 DEF DeskTypes, deskVars
<1>23. QED
  BY <1>2, <1>3, <1>4, <1>5, <1>6, <1>7, <1>8, <1>9, <1>10, <1>11, <1>12, <1>13, <1>14,
     <1>15, <1>17, <1>18, <1>19, <1>20, <1>21, <1>22
  DEF DeskNext, SessionBreaks, FaultEnds

-----------------------------------------------------------------------------
(* The invariant. *)

\* A link is lost once its heartbeat has stood too long, and until it moves.
LinkLost   == drive.HmiStaleTimer > HMI_STALE_TIME \/ ~drive.HmiSeenAlive
BridgeLost == drive.HeartbeatStaleTimer > HEARTBEAT_STALE_TIME \/ ~drive.BridgeSeenAlive
LostLatches == LinkLost => drive.latches # {} /\ drive.ResetDeviceFault

\* Between two sessions nobody writes the requests, and the scans count it: once
\* a session may be opened again the link is lost, and what was written before
\* has no edge left.
Up == hmi.session = "up"
QuietBetween ==
    ~Up /\ hmi.waited >= 1 =>
        /\ ~db.hmi.Beat
        /\ LinkLost \/ drive.HmiStaleTimer >= hmi.waited - 1
        /\ db.hmi.reset => drive.ResetEdgeMemory
        /\ db.hmi.teleop => drive.TeleopEnableEdgeMemory
        /\ db.hmi.mode = drive.LastModeRequest

\* What the process holds of a control the page holds too, and a control that
\* the page holds and an armed process does not has had no post since the last
\* rest.
PageAhead ==
    /\ hmi.reset => page.reset
    /\ hmi.teleop => page.teleop
    /\ ~hmi.resetArmed => ~hmi.tap
    /\ ~hmi.up => ~hmi.teleop /\ ~hmi.reset /\ ~hmi.tap
    /\ page.reset /\ hmi.resetArmed /\ ~hmi.reset => ~hmi.tap
    /\ page.teleop /\ hmi.teleopArmed /\ ~hmi.teleop => ~hmi.reset /\ ~hmi.tap

\* Wherever a reset is on its way to an edge, there is a press that has cleared
\* nothing, or the program rejects the device: at the image, in the process, on
\* the page.
Rising == db.hmi.reset /\ ~drive.ResetEdgeMemory
RisingIsPress == Rising => story.press \/ drive.ResetDeviceFault
CarriedIsPress ==
    Up /\ CarriedReset(hmi) /\ ~db.hmi.reset =>
        story.press \/ (LinkLost /\ ~db.hmi.Beat /\ hmi.phase = "idle")
HeldIsPress ==
    Up /\ page.reset /\ hmi.resetArmed =>
        /\ story.press \/ db.hmi.reset
        /\ ~hmi.reset => story.press /\ ~Rising
ResetIsPress == RisingIsPress /\ CarriedIsPress /\ HeldIsPress

\* The same of the enable: a click that has started nothing, or a latch; and
\* where a reset is about to clear the latches, a click made after its press.
Accepting == Rising /\ ~drive.ResetDeviceFault
EnableIsClick ==
    /\ db.hmi.teleop /\ ~drive.TeleopEnableEdgeMemory => story.click \/ drive.latches # {}
    /\ Up /\ hmi.teleop /\ hmi.teleopArmed /\ ~db.hmi.teleop =>
        /\ story.click \/ drive.latches # {}
        /\ Accepting => story.click /\ "click" \in story.afterPress
    /\ Up /\ page.teleop /\ hmi.teleopArmed /\ ~hmi.teleop => drive.latches # {} /\ ~Rising

\* And of the autonomous mode.
ModeIsSelect ==
    /\ drive.MotionEnable <=> drive.AutonomousArmed
    /\ db.hmi.mode = MODE_AUTONOMOUS /\ drive.LastModeRequest # MODE_AUTONOMOUS =>
            story.select \/ drive.latches # {}
    /\ Up /\ hmi.mode = MODE_AUTONOMOUS /\ db.hmi.mode # MODE_AUTONOMOUS =>
        /\ story.select \/ drive.latches # {}
        /\ Accepting => story.select /\ "select" \in story.afterPress

\* The timers of the links cover the silences that the history counts.
SilenceCounted ==
    /\ story.hmiSilent <= drive.HmiStaleTimer \/ ~drive.HmiSeenAlive
    /\ story.bridgeSilent <= drive.HeartbeatStaleTimer \/ ~drive.BridgeSeenAlive
    /\ drive.TeleopActive \/ drive.MotionEnable => ~LinkLost /\ ~BridgeLost

DeskParts ==
    /\ LostLatches /\ QuietBetween /\ PageAhead
    /\ ResetIsPress /\ EnableIsClick /\ ModeIsSelect /\ SilenceCounted
DeskInv == DeskTypes /\ DeskParts

LEMMA DeskInitInv == DeskInit => DeskInv
<1> SUFFICES ASSUME DeskInit PROVE DeskParts
  BY DeskInitTypes DEF DeskInv
<1>1. /\ ~page.teleop /\ ~page.reset
      /\ ~hmi.teleop /\ ~hmi.reset /\ ~hmi.tap /\ hmi.resetArmed /\ hmi.teleopArmed
      /\ hmi.up /\ hmi.session = "up" /\ hmi.mode = MODE_NONE
  BY DEF DeskInit, WorkingHmi, FreshHmi
<1>2. ~db.hmi.teleop /\ ~db.hmi.reset /\ db.hmi.mode = MODE_NONE
  BY DEF DeskInit, WorkingDb, BootHmi
<1>3. /\ drive.HmiStaleTimer = 0 /\ drive.HmiSeenAlive
      /\ drive.HeartbeatStaleTimer = 0 /\ drive.BridgeSeenAlive
      /\ ~drive.TeleopActive /\ ~drive.MotionEnable /\ ~drive.AutonomousArmed
  BY DEF DeskInit, WorkingDrive, BootDrive
<1>4. story.hmiSilent = 0 /\ story.bridgeSilent = 0
  BY DEF DeskInit, BootStory
<1>5. MODE_NONE # MODE_AUTONOMOUS
  BY DEF MODE_NONE, MODE_AUTONOMOUS
<1>6. LostLatches /\ QuietBetween /\ PageAhead
  BY <1>1, <1>3, Bounds DEF LostLatches, LinkLost, QuietBetween, Up, PageAhead
<1>7. ResetIsPress
  BY <1>1, <1>2 DEF ResetIsPress, RisingIsPress, Rising, CarriedIsPress, CarriedReset, HeldIsPress
<1>8. EnableIsClick /\ ModeIsSelect
  BY <1>1, <1>2, <1>3, <1>5 DEF EnableIsClick, ModeIsSelect
<1>9. SilenceCounted
  BY <1>3, <1>4 DEF SilenceCounted
<1>10. QED
  BY <1>6, <1>7, <1>8, <1>9 DEF DeskParts

-----------------------------------------------------------------------------
(* The steps of the page. *)

\* What a post does to the controls.
LEMMA PostParts ==
    ASSUME DeskTypes, NEW p \in PageType, NEW stop, NEW mode,
           Post(p, [hmi EXCEPT !.stop = stop, !.mode = mode])
    PROVE  /\ page' = p /\ UNCHANGED <<db, drive>>
           /\ hmi'.up = hmi.up /\ hmi'.session = hmi.session /\ hmi'.phase = hmi.phase
           /\ hmi'.waited = hmi.waited
           /\ ~hmi.up => hmi' = hmi
           /\ hmi.up =>
                /\ hmi'.mode = mode
                /\ hmi'.teleop = p.teleop /\ hmi'.reset = p.reset
                /\ hmi'.teleopArmed <=> hmi.teleopArmed \/ ~p.teleop
                /\ hmi'.resetArmed <=> hmi.resetArmed \/ ~p.reset
                /\ hmi'.tap <=> hmi.tap \/ (p.reset /\ hmi.resetArmed)
<1>1. hmi \in HmiType
  BY DEF DeskTypes
<1>2. CASE hmi.up
  <2>1. hmi' = Applied([hmi EXCEPT !.stop = stop, !.mode = mode], p)
    BY <1>2 DEF Post
  <2> DEFINE h      == [hmi EXCEPT !.stop = stop, !.mode = mode]
             tArmed == h.teleopArmed \/ ~p.teleop
             rArmed == h.resetArmed \/ ~p.reset
             tap    == h.tap \/ (p.reset /\ h.resetArmed)
  <2>2. /\ h.up = hmi.up /\ h.session = hmi.session /\ h.phase = hmi.phase
        /\ h.waited = hmi.waited /\ h.mode = mode /\ h.tap = hmi.tap
        /\ h.teleopArmed = hmi.teleopArmed /\ h.resetArmed = hmi.resetArmed
        /\ DOMAIN h = DOMAIN hmi
    BY <1>1 DEF HmiType
  <2>3. hmi' = [h EXCEPT !.teleop = p.teleop, !.reset = p.reset,
                         !.teleopArmed = tArmed, !.resetArmed = rArmed, !.tap = tap]
    BY <2>1 DEF Applied
  <2>4. /\ tArmed <=> hmi.teleopArmed \/ ~p.teleop
        /\ rArmed <=> hmi.resetArmed \/ ~p.reset
        /\ tap <=> hmi.tap \/ (p.reset /\ hmi.resetArmed)
    BY <2>2
  <2> HIDE DEF h, tArmed, rArmed, tap
  <2>5. /\ hmi'.up = h.up /\ hmi'.session = h.session /\ hmi'.phase = h.phase
        /\ hmi'.waited = h.waited /\ hmi'.mode = h.mode
        /\ hmi'.teleop = p.teleop /\ hmi'.reset = p.reset
        /\ hmi'.teleopArmed = tArmed /\ hmi'.resetArmed = rArmed /\ hmi'.tap = tap
    BY <1>1, <2>2, <2>3 DEF HmiType
  <2>6. QED
    BY <1>2, <2>2, <2>4, <2>5 DEF Post
<1>3. CASE ~hmi.up
  BY <1>3 DEF Post
<1>4. QED
  BY <1>2, <1>3

\* A post whose news the history tells: a rise of the enable, of the reset or
\* of the autonomous mode is a click, a press or a selection.
LEMMA PostKeeps ==
    ASSUME DeskInv, NEW p \in PageType, NEW stop, NEW mode,
           Post(p, [hmi EXCEPT !.stop = stop, !.mode = mode]),
           story'.hmiSilent = story.hmiSilent, story'.bridgeSilent = story.bridgeSilent,
           story.click => story'.click, story.select => story'.select,
           story.press => story'.press /\ story.afterPress \subseteq story'.afterPress,
           p.teleop => page.teleop \/ (story'.click /\ "click" \in story'.afterPress),
           p.reset => page.reset \/ story'.press,
           mode = MODE_AUTONOMOUS =>
                hmi.mode = mode \/ (story'.select /\ "select" \in story'.afterPress)
    PROVE  DeskParts'
<1>1. DeskTypes /\ hmi \in HmiType /\ page \in PageType /\ drive \in DriveType
  BY DEF DeskInv, DeskTypes
<1>2. /\ page' = p /\ UNCHANGED <<db, drive>>
      /\ hmi'.up = hmi.up /\ hmi'.session = hmi.session /\ hmi'.phase = hmi.phase
      /\ hmi'.waited = hmi.waited
      /\ ~hmi.up => hmi' = hmi
      /\ hmi.up =>
            /\ hmi'.mode = mode
            /\ hmi'.teleop = p.teleop /\ hmi'.reset = p.reset
            /\ hmi'.teleopArmed <=> hmi.teleopArmed \/ ~p.teleop
            /\ hmi'.resetArmed <=> hmi.resetArmed \/ ~p.reset
            /\ hmi'.tap <=> hmi.tap \/ (p.reset /\ hmi.resetArmed)
  BY <1>1, PostParts
<1>3. Up => hmi.up
  BY <1>1 DEF DeskTypes, Up
<1>4. Up' = Up /\ LinkLost' = LinkLost /\ BridgeLost' = BridgeLost /\ Rising' = Rising /\ Accepting' = Accepting
  BY <1>2 DEF Up, LinkLost, BridgeLost, Rising, Accepting
<1>5. LostLatches' /\ QuietBetween' /\ SilenceCounted'
  BY <1>2, <1>4 DEF DeskInv, DeskParts, LostLatches, QuietBetween, SilenceCounted
<1>6. PageAhead'
  BY <1>2 DEF DeskInv, DeskParts, PageAhead
<1>7. RisingIsPress'
  BY <1>2, <1>4 DEF DeskInv, DeskParts, ResetIsPress, RisingIsPress
<1>8. HeldIsPress'
  BY <1>2, <1>3, <1>4 DEF DeskInv, DeskParts, ResetIsPress, HeldIsPress
<1>9. CarriedIsPress'
  BY <1>2, <1>3, <1>4
  DEF DeskInv, DeskParts, ResetIsPress, CarriedIsPress, HeldIsPress, CarriedReset, PageAhead
<1>10. EnableIsClick'
  BY <1>2, <1>3, <1>4
  DEF DeskInv, DeskParts, ResetIsPress, RisingIsPress, EnableIsClick, Accepting, PageAhead
<1>11. ModeIsSelect'
  BY <1>2, <1>3, <1>4
  DEF DeskInv, DeskParts, ResetIsPress, RisingIsPress, ModeIsSelect, Accepting
<1>12. QED
  BY <1>5, <1>6, <1>7, <1>8, <1>9, <1>10, <1>11 DEF DeskParts, ResetIsPress

LEMMA PageStepKeeps ==
    ASSUME DeskInv,
           \/ ClickEnable \/ PressReset \/ ReleaseReset \/ Touch \/ ReleaseAll \/ ClickStop
           \/ \E mode \in cast.modes : ClickMode(mode)
    PROVE  DeskParts'
<1>1. hmi \in HmiType /\ page \in PageType /\ story \in StoryType
  BY DEF DeskInv, DeskTypes
<1>2. /\ hmi = [hmi EXCEPT !.stop = hmi.stop, !.mode = hmi.mode]
      /\ \A stop : [hmi EXCEPT !.stop = stop] = [hmi EXCEPT !.stop = stop, !.mode = hmi.mode]
      /\ \A mode : [hmi EXCEPT !.mode = mode] = [hmi EXCEPT !.stop = hmi.stop, !.mode = mode]
  BY <1>1 DEF HmiType
<1>3. CASE ClickEnable
  <2> DEFINE p == [page EXCEPT !.teleop = ~@]
  <2>1. p \in PageType /\ Post(p, hmi) /\ p.reset = page.reset /\ p.teleop = ~page.teleop
    BY <1>1, <1>3 DEF PageType, ClickEnable
  <2>2. /\ story'.hmiSilent = story.hmiSilent /\ story'.bridgeSilent = story.bridgeSilent
        /\ story'.press = story.press /\ story'.select = story.select
        /\ story.click => story'.click
        /\ story.afterPress \subseteq story'.afterPress
        /\ ~page.teleop => story'.click /\ "click" \in story'.afterPress
    BY <1>1, <1>3 DEF ClickEnable, StoryType
  <2> HIDE DEF p
  <2>3. Post(p, [hmi EXCEPT !.stop = hmi.stop, !.mode = hmi.mode])
    BY <1>2, <2>1
  <2>4. QED
    BY <2>1, <2>2, <2>3, PostKeeps
<1>4. CASE PressReset
  <2> DEFINE p == [page EXCEPT !.reset = TRUE]
  <2>1. p \in PageType /\ Post(p, hmi) /\ p.teleop = page.teleop
    BY <1>1, <1>4 DEF PageType, PressReset
  <2>2. /\ story'.hmiSilent = story.hmiSilent /\ story'.bridgeSilent = story.bridgeSilent
        /\ story'.click = story.click /\ story'.select = story.select
        /\ story'.press /\ (story.press => story'.afterPress = story.afterPress)
    BY <1>1, <1>4 DEF PressReset, StoryType
  <2> HIDE DEF p
  <2>3. Post(p, [hmi EXCEPT !.stop = hmi.stop, !.mode = hmi.mode])
    BY <1>2, <2>1
  <2>4. QED
    BY <2>1, <2>2, <2>3, PostKeeps
<1>5. CASE ReleaseReset \/ ReleaseAll \/ Touch
  <2>1. PICK p \in PageType : /\ Post(p, hmi) /\ story' = story
                              /\ p.teleop => page.teleop
                              /\ p.reset => page.reset
    <3> DEFINE released == [page EXCEPT !.reset = FALSE]
               rest     == [page EXCEPT !.teleop = FALSE, !.reset = FALSE]
    <3>1. /\ released \in PageType /\ released.teleop = page.teleop /\ ~released.reset
          /\ rest \in PageType /\ ~rest.teleop /\ ~rest.reset
      BY <1>1 DEF PageType
    <3>2. /\ ReleaseReset => Post(released, hmi) /\ story' = story
          /\ ReleaseAll => Post(rest, hmi) /\ story' = story
          /\ Touch => Post(page, hmi) /\ story' = story
      BY DEF ReleaseReset, ReleaseAll, Touch
    <3> HIDE DEF released, rest
    <3>3. QED
      BY <1>1, <1>5, <3>1, <3>2
  <2>2. Post(p, [hmi EXCEPT !.stop = hmi.stop, !.mode = hmi.mode])
    BY <1>2, <2>1
  <2>3. QED
    BY <2>1, <2>2, PostKeeps
<1>6. CASE ClickStop
  <2>1. Post(page, [hmi EXCEPT !.stop = ~hmi.stop, !.mode = hmi.mode]) /\ story' = story
    BY <1>2, <1>6 DEF ClickStop
  <2>2. QED
    BY <1>1, <2>1, PostKeeps
<1>7. ASSUME NEW mode \in cast.modes, ClickMode(mode) PROVE DeskParts'
  <2>1. Post(page, [hmi EXCEPT !.stop = hmi.stop, !.mode = mode])
    BY <1>2, <1>7 DEF ClickMode
  <2>2. MODE_NONE # MODE_AUTONOMOUS
    BY DEF MODE_NONE, MODE_AUTONOMOUS
  <2>3. /\ story'.hmiSilent = story.hmiSilent /\ story'.bridgeSilent = story.bridgeSilent
        /\ story'.click = story.click /\ story'.press = story.press
        /\ story.select => story'.select
        /\ story.afterPress \subseteq story'.afterPress
        /\ mode = MODE_AUTONOMOUS => story'.select /\ "select" \in story'.afterPress
    BY <1>1, <1>7, <2>2 DEF ClickMode, StoryType
  <2>4. QED
    BY <1>1, <2>1, <2>3, PostKeeps
<1>8. QED
  BY <1>3, <1>4, <1>5, <1>6, <1>7

\* Nothing that the invariant speaks of but the session's own state.
LEMMA UntouchedKeeps ==
    ASSUME DeskInv, page'.teleop = page.teleop, page'.reset = page.reset,
           UNCHANGED <<hmi, drive, story>>, db'.hmi = db.hmi
    PROVE  DeskParts'
<1>1. Up' = Up /\ LinkLost' = LinkLost /\ BridgeLost' = BridgeLost
      /\ Rising' = Rising /\ Accepting' = Accepting
  BY DEF Up, LinkLost, BridgeLost, Rising, Accepting
<1>2. LostLatches' /\ QuietBetween' /\ PageAhead' /\ SilenceCounted'
  BY <1>1 DEF DeskInv, DeskParts, LostLatches, QuietBetween, PageAhead, SilenceCounted
<1>3. ResetIsPress'
  BY <1>1 DEF DeskInv, DeskParts, ResetIsPress, RisingIsPress, CarriedIsPress, HeldIsPress, CarriedReset
<1>4. EnableIsClick' /\ ModeIsSelect'
  BY <1>1 DEF DeskInv, DeskParts, EnableIsClick, ModeIsSelect
<1>5. QED
  BY <1>2, <1>3, <1>4 DEF DeskParts

LEMMA OthersKeep ==
    ASSUME DeskInv,
           \/ Freezes \/ Thaws \/ BridgeTurns \/ VehicleTurns \/ VehicleApplies \/ SafetyTurns
           \/ \E p \in Plants : PlantReads(p)
           \/ UNCHANGED deskVars
    PROVE  DeskParts'
<1>1. page \in PageType /\ db \in DbType
  BY DEF DeskInv, DeskTypes
<1>2. CASE Freezes \/ Thaws \/ UNCHANGED deskVars
  BY <1>1, <1>2, UntouchedKeeps DEF Freezes, Thaws, PageType, deskVars
<1>3. CASE \/ BridgeTurns \/ VehicleTurns \/ VehicleApplies \/ SafetyTurns
           \/ \E p \in Plants : PlantReads(p)
  <2>1. db'.hmi = db.hmi
    BY <1>1, <1>3 DEF BridgeTurns, VehicleTurns, VehicleApplies, SafetyTurns, PlantReads, DbType
  <2>2. UNCHANGED <<page, hmi, drive, story>>
    BY <1>3 DEF BridgeTurns, VehicleTurns, VehicleApplies, SafetyTurns, PlantReads
  <2>3. QED
    BY <2>1, <2>2, UntouchedKeeps
<1>4. QED
  BY <1>2, <1>3

-----------------------------------------------------------------------------
(* The steps of the HMI process. *)

LEMMA WriteKeeps ==
    ASSUME DeskInv, NEW quiet \in BOOLEAN, WritesRequests(quiet) PROVE DeskParts'
<1> DEFINE taken == IF quiet /\ ~hmi.pageStale THEN PageLost(hmi) ELSE hmi
           tap   == taken.tap /\ ~CarriedReset(taken)
<1>1. hmi \in HmiType /\ page \in PageType /\ db \in DbType /\ db.hmi \in HmiImage
  BY DEF DeskInv, DeskTypes, DbType
<1>2. /\ hmi' = [taken EXCEPT !.phase = "written", !.pageStale = quiet, !.tap = tap]
      /\ db' = [db EXCEPT !.hmi = Carried(@, taken)]
      /\ hmi.session = "up" /\ UNCHANGED <<page, drive, cast, story>>
  BY DEF WritesRequests
<1>3. taken \in HmiType /\ taken.session = hmi.session /\ taken.up = hmi.up
  BY <1>1, ControlsType
\* A page that is lost takes its controls with it, and disarms them.
<1>4. /\ taken.mode = hmi.mode
      /\ \/ taken = hmi
         \/ /\ ~taken.teleop /\ ~taken.reset /\ ~taken.tap
            /\ ~taken.teleopArmed /\ ~taken.resetArmed
  BY <1>1 DEF PageLost, Rest, HmiType
<1>5. db'.hmi = Carried(db.hmi, taken)
  BY <1>1, <1>2 DEF DbType
<1>6. /\ db'.hmi.teleop <=> taken.teleop /\ taken.teleopArmed
      /\ db'.hmi.reset <=> CarriedReset(taken)
      /\ db'.hmi.mode = taken.mode
  BY <1>1, <1>5 DEF Carried, HmiImage
<1>7. tap \in BOOLEAN /\ (tap <=> taken.tap /\ ~CarriedReset(taken))
  OBVIOUS
<1> HIDE DEF taken, tap
<1>8. /\ hmi'.session = "up" /\ hmi'.phase = "written" /\ hmi'.up = hmi.up
      /\ hmi'.teleop = taken.teleop /\ hmi'.reset = taken.reset /\ hmi'.tap = tap
      /\ hmi'.teleopArmed = taken.teleopArmed /\ hmi'.resetArmed = taken.resetArmed
      /\ hmi'.mode = taken.mode
  BY <1>2, <1>3 DEF HmiType
<1>9. Up /\ Up' /\ LinkLost' = LinkLost /\ BridgeLost' = BridgeLost /\ hmi.up
  BY <1>2, <1>8 DEF Up, LinkLost, BridgeLost, DeskInv, DeskTypes
<1>10. LostLatches' /\ QuietBetween' /\ SilenceCounted'
  BY <1>2, <1>9 DEF DeskInv, DeskParts, LostLatches, QuietBetween, SilenceCounted
<1>11. PageAhead'
  BY <1>2, <1>4, <1>7, <1>8, <1>9 DEF DeskInv, DeskParts, PageAhead
\* What is carried is no more than what the process held.
<1>12. CarriedReset(taken) => CarriedReset(hmi)
  BY <1>4 DEF CarriedReset
<1>13. RisingIsPress'
  BY <1>2, <1>6, <1>9, <1>12
  DEF DeskInv, DeskParts, ResetIsPress, RisingIsPress, CarriedIsPress, Rising, LostLatches
<1>14. CarriedIsPress'
  BY <1>6, <1>7, <1>8 DEF CarriedIsPress, CarriedReset
<1>15. HeldIsPress'
  BY <1>2, <1>4, <1>6, <1>8, <1>9
  DEF DeskInv, DeskParts, ResetIsPress, HeldIsPress, CarriedReset, Rising, PageAhead
<1>16. EnableIsClick'
  BY <1>2, <1>4, <1>6, <1>8, <1>9
  DEF DeskInv, DeskParts, EnableIsClick, CarriedReset, Rising, Accepting, PageAhead
<1>17. ModeIsSelect'
  BY <1>2, <1>4, <1>6, <1>8, <1>9 DEF DeskInv, DeskParts, ModeIsSelect, Accepting
<1>18. QED
  BY <1>10, <1>11, <1>13, <1>14, <1>15, <1>16, <1>17 DEF DeskParts, ResetIsPress

LEMMA HeartbeatKeeps ==
    ASSUME DeskInv, WritesHeartbeat PROVE DeskParts'
<1>1. hmi \in HmiType /\ db \in DbType /\ db.hmi \in HmiImage
  BY DEF DeskInv, DeskTypes, DbType
<1>2. /\ hmi' = [hmi EXCEPT !.phase = "idle"] /\ db' = [db EXCEPT !.hmi.Beat = TRUE]
      /\ hmi.session = "up" /\ hmi.phase = "written" /\ UNCHANGED <<page, drive, story>>
  BY DEF WritesHeartbeat
<1>3. /\ hmi'.session = hmi.session /\ hmi'.up = hmi.up /\ hmi'.mode = hmi.mode
      /\ hmi'.teleop = hmi.teleop /\ hmi'.reset = hmi.reset /\ hmi'.tap = hmi.tap
      /\ hmi'.teleopArmed = hmi.teleopArmed /\ hmi'.resetArmed = hmi.resetArmed
  BY <1>1, <1>2 DEF HmiType
<1>4. /\ db'.hmi.teleop = db.hmi.teleop /\ db'.hmi.reset = db.hmi.reset
      /\ db'.hmi.mode = db.hmi.mode
  BY <1>1, <1>2 DEF DbType, HmiImage
<1>5. Up /\ Up' /\ LinkLost' = LinkLost /\ BridgeLost' = BridgeLost
      /\ Rising' = Rising /\ Accepting' = Accepting
  BY <1>2, <1>3, <1>4 DEF Up, LinkLost, BridgeLost, Rising, Accepting
<1>6. LostLatches' /\ QuietBetween' /\ PageAhead' /\ SilenceCounted'
  BY <1>2, <1>3, <1>5 DEF DeskInv, DeskParts, LostLatches, QuietBetween, PageAhead, SilenceCounted
<1>7. ResetIsPress'
  BY <1>2, <1>3, <1>4, <1>5
  DEF DeskInv, DeskParts, ResetIsPress, RisingIsPress, CarriedIsPress, HeldIsPress, CarriedReset
<1>8. EnableIsClick' /\ ModeIsSelect'
  BY <1>2, <1>3, <1>4, <1>5 DEF DeskInv, DeskParts, EnableIsClick, ModeIsSelect
<1>9. QED
  BY <1>6, <1>7, <1>8 DEF DeskParts

\* A session that is over asks nothing of the pipeline but that the page be
\* ahead of the process, and that no edge be left that was not there.
LEMMA NoSessionKeeps ==
    ASSUME DeskInv, UNCHANGED drive, ~Up',
           QuietBetween', PageAhead',
           db'.hmi.reset => db.hmi.reset,
           db'.hmi.teleop => db.hmi.teleop \/ drive.TeleopEnableEdgeMemory
                                \/ story'.click \/ drive.latches # {},
           db'.hmi.mode = MODE_AUTONOMOUS =>
                db.hmi.mode = MODE_AUTONOMOUS \/ story.select \/ drive.latches # {},
           story' = story
    PROVE  DeskParts'
<1>1. LinkLost' = LinkLost /\ BridgeLost' = BridgeLost /\ (Rising' => Rising)
  BY DEF LinkLost, BridgeLost, Rising
<1>2. LostLatches' /\ SilenceCounted'
  BY <1>1 DEF DeskInv, DeskParts, LostLatches, SilenceCounted
<1>3. ResetIsPress'
  BY <1>1 DEF DeskInv, DeskParts, ResetIsPress, RisingIsPress, CarriedIsPress, HeldIsPress
<1>4. EnableIsClick' /\ ModeIsSelect'
  BY <1>1 DEF DeskInv, DeskParts, EnableIsClick, ModeIsSelect
<1>5. QED
  BY <1>2, <1>3, <1>4 DEF DeskParts

LEMMA FinalZerosKeep ==
    ASSUME DeskInv, NEW session \in {"none", "over"}, NEW landed \in BOOLEAN,
           FinalZeros(session, landed)
    PROVE  DeskParts'
<1>1. hmi \in HmiType /\ db \in DbType /\ db.hmi \in HmiImage
  BY DEF DeskInv, DeskTypes, DbType
<1>2. /\ hmi' = [Rest(hmi) EXCEPT !.session = session, !.phase = "idle", !.waited = 0]
      /\ db' = IF landed THEN [db EXCEPT !.hmi = Carried(@, Rest(hmi))] ELSE db
      /\ hmi.session = "up" /\ UNCHANGED <<page, drive, story>>
  BY DEF FinalZeros
<1>3. Up /\ hmi.up
  BY <1>2 DEF Up, DeskInv, DeskTypes
<1>4. /\ ~hmi'.teleop /\ ~hmi'.reset /\ ~hmi'.tap
      /\ hmi'.session = session /\ hmi'.waited = 0
  BY <1>1, <1>2 DEF Rest, HmiType
<1>5. ~Up' /\ QuietBetween' /\ PageAhead'
  BY <1>4 DEF Up, QuietBetween, PageAhead
<1>6. \/ db' = db
      \/ ~db'.hmi.teleop /\ ~db'.hmi.reset /\ db'.hmi.mode = hmi.mode
  <2>1. CASE landed
    <3>1. db'.hmi = Carried(db.hmi, Rest(hmi))
      BY <1>1, <1>2, <2>1 DEF DbType
    <3>2. ~Rest(hmi).teleop /\ ~CarriedReset(Rest(hmi)) /\ Rest(hmi).mode = hmi.mode
      BY <1>1 DEF Rest, CarriedReset, HmiType
    <3>3. QED
      BY <1>1, <3>1, <3>2 DEF Carried, HmiImage
  <2>2. QED
    BY <1>2, <2>1
<1>7. db'.hmi.mode = MODE_AUTONOMOUS =>
            db.hmi.mode = MODE_AUTONOMOUS \/ story.select \/ drive.latches # {}
  BY <1>3, <1>6 DEF DeskInv, DeskParts, ModeIsSelect
<1>8. QED
  BY <1>2, <1>5, <1>6, <1>7, NoSessionKeeps

LEMMA DiesKeeps ==
    ASSUME DeskInv, Dies PROVE DeskParts'
<1>1. /\ hmi' = [FreshHmi EXCEPT !.up = FALSE, !.waited = 0]
      /\ UNCHANGED <<page, db, drive, story>>
  BY DEF Dies
<1>2. /\ ~hmi'.teleop /\ ~hmi'.reset /\ ~hmi'.tap
      /\ hmi'.session = "none" /\ hmi'.waited = 0
  BY <1>1 DEF FreshHmi
<1>3. ~Up' /\ QuietBetween' /\ PageAhead'
  BY <1>2 DEF Up, QuietBetween, PageAhead
<1>4. QED
  BY <1>1, <1>3, NoSessionKeeps

LEMMA StartsKeeps ==
    ASSUME DeskInv, Starts PROVE DeskParts'
<1>1. /\ hmi' = FreshHmi /\ ~hmi.up /\ hmi.waited >= RECONNECT
      /\ UNCHANGED <<page, db, drive, story>>
  BY DEF Starts
<1>2. /\ ~hmi'.teleop /\ ~hmi'.reset /\ ~hmi'.tap /\ hmi'.resetArmed /\ hmi'.up
      /\ hmi'.session = "none" /\ hmi'.waited = RECONNECT
  BY <1>1 DEF FreshHmi
<1>3. ~Up /\ hmi.waited = RECONNECT
  <2>1. hmi.session = "none" /\ hmi.waited \in 0 .. RECONNECT
    BY <1>1 DEF DeskInv, DeskTypes, HmiType
  <2>2. QED
    BY <1>1, <2>1, Bounds DEF Up
<1>4. LinkLost' = LinkLost /\ ~Up'
  BY <1>1, <1>2 DEF LinkLost, Up
<1>5. QuietBetween' /\ PageAhead'
  BY <1>1, <1>2, <1>3, <1>4 DEF DeskInv, DeskParts, QuietBetween, PageAhead
<1>6. QED
  BY <1>1, <1>4, <1>5, NoSessionKeeps

LEMMA ConnectsKeeps ==
    ASSUME DeskInv, Connects PROVE DeskParts'
<1>1. hmi \in HmiType /\ story \in StoryType /\ drive \in DriveType
  BY DEF DeskInv, DeskTypes
<1>2. /\ hmi.up /\ hmi.session = "none" /\ hmi.waited >= RECONNECT
      /\ hmi' = [hmi EXCEPT !.session = "up"]
      /\ story' = [story EXCEPT !.press = @ \/ page.reset, !.ofSession = FALSE]
      /\ UNCHANGED <<page, db, drive>>
  BY DEF Connects
<1>3. /\ hmi'.session = "up" /\ hmi'.up = hmi.up /\ hmi'.mode = hmi.mode
      /\ hmi'.phase = hmi.phase
      /\ hmi'.teleop = hmi.teleop /\ hmi'.reset = hmi.reset /\ hmi'.tap = hmi.tap
      /\ hmi'.teleopArmed = hmi.teleopArmed /\ hmi'.resetArmed = hmi.resetArmed
  BY <1>1, <1>2 DEF HmiType
<1>4. /\ story'.press <=> story.press \/ page.reset
      /\ story'.hmiSilent = story.hmiSilent /\ story'.bridgeSilent = story.bridgeSilent
      /\ story'.click = story.click /\ story'.select = story.select
      /\ story'.afterPress = story.afterPress
  BY <1>1, <1>2 DEF StoryType
<1>5. ~Up /\ Up' /\ LinkLost' = LinkLost /\ BridgeLost' = BridgeLost /\ Rising' = Rising
  BY <1>2, <1>3 DEF Up, LinkLost, BridgeLost, Rising
\* A session that may be opened follows a silence that has lost the link.
<1>6. /\ LinkLost /\ ~db.hmi.Beat /\ hmi.phase = "idle" /\ ~Rising
      /\ db.hmi.teleop => drive.TeleopEnableEdgeMemory
      /\ db.hmi.mode = drive.LastModeRequest
  <2>1. hmi.waited \in 0 .. RECONNECT /\ drive.HmiStaleTimer \in Nat
    BY <1>1 DEF HmiType, DriveType
  <2>2. hmi.waited >= 1 /\ (drive.HmiStaleTimer >= hmi.waited - 1 => LinkLost)
    BY <1>2, <2>1, Bounds DEF LinkLost
  <2>3. hmi.phase \in {"idle", "written"} /\ (hmi.phase = "written" => hmi.session = "up")
    BY <1>1 DEF HmiType, DeskInv, DeskTypes
  <2>4. QED
    BY <1>2, <1>5, <2>2, <2>3 DEF DeskInv, DeskParts, QuietBetween, Rising
<1>7. drive.latches # {} /\ drive.ResetDeviceFault
  BY <1>6 DEF DeskInv, DeskParts, LostLatches
<1>8. LostLatches' /\ QuietBetween' /\ PageAhead' /\ SilenceCounted'
  BY <1>2, <1>3, <1>4, <1>5 DEF DeskInv, DeskParts, LostLatches, QuietBetween, PageAhead, SilenceCounted
<1>9. ResetIsPress'
  BY <1>2, <1>3, <1>4, <1>5, <1>6
  DEF ResetIsPress, RisingIsPress, CarriedIsPress, HeldIsPress
<1>10. EnableIsClick' /\ ModeIsSelect'
  BY <1>2, <1>3, <1>4, <1>5, <1>6, <1>7
  DEF DeskInv, DeskParts, EnableIsClick, ModeIsSelect, Accepting
<1>11. QED
  BY <1>8, <1>9, <1>10 DEF DeskParts

-----------------------------------------------------------------------------
(* The steps of the program. *)

LEMMA PlcStartsKeeps ==
    ASSUME DeskInv, PlcStarts PROVE DeskParts'
<1>1. hmi \in HmiType /\ db \in DbType
  BY DEF DeskInv, DeskTypes
<1>2. /\ db' = [db EXCEPT !.plant = BootPlant, !.vehicle = BootVehicle, !.hmi = BootHmi,
                         !.safetyClear = FALSE]
      /\ drive' = BootDrive
      /\ hmi' = IF hmi.session # "up" THEN hmi
                ELSE [Rest(hmi) EXCEPT !.session = "none", !.phase = "idle", !.waited = 0]
      /\ UNCHANGED <<page, story>>
  BY DEF PlcStarts
<1>3. /\ ~db'.hmi.Beat /\ ~db'.hmi.teleop /\ ~db'.hmi.reset /\ db'.hmi.mode = MODE_NONE
  BY <1>1, <1>2 DEF DbType, BootHmi
<1>4. /\ drive'.latches # {} /\ drive'.ResetDeviceFault /\ drive'.LastModeRequest = MODE_NONE
      /\ ~drive'.HmiSeenAlive /\ ~drive'.BridgeSeenAlive
      /\ ~drive'.TeleopActive /\ ~drive'.MotionEnable /\ ~drive'.AutonomousArmed
  BY <1>2 DEF BootDrive
<1>5. hmi'.session # "up" /\ LinkLost' /\ ~Up' /\ ~Rising'
  BY <1>1, <1>2, <1>3, <1>4 DEF Up, Rest, HmiType, LinkLost, Rising
<1>6. PageAhead'
  <2>1. CASE hmi.session = "up"
    <3>1. ~hmi'.teleop /\ ~hmi'.reset /\ ~hmi'.tap
      BY <1>1, <1>2, <2>1 DEF Rest, HmiType
    <3>2. QED
      BY <3>1 DEF PageAhead
  <2>2. CASE hmi.session # "up"
    BY <1>2, <2>2 DEF DeskInv, DeskParts, PageAhead
  <2>3. QED
    BY <2>1, <2>2
<1>7. LostLatches' /\ QuietBetween' /\ SilenceCounted'
  BY <1>3, <1>4, <1>5 DEF LostLatches, QuietBetween, SilenceCounted
<1>8. ResetIsPress' /\ EnableIsClick' /\ ModeIsSelect'
  <2>1. MODE_NONE # MODE_AUTONOMOUS
    BY DEF MODE_NONE, MODE_AUTONOMOUS
  <2>2. QED
    BY <1>3, <1>4, <1>5, <2>1
    DEF ResetIsPress, RisingIsPress, CarriedIsPress, HeldIsPress, EnableIsClick, ModeIsSelect
<1>9. QED
  BY <1>6, <1>7, <1>8 DEF DeskParts

\* What the invariant needs of a scan, and no more.
LEMMA ScanParts ==
    ASSUME DeskTypes, DriveScans
    PROVE  /\ UNCHANGED page
           /\ db'.hmi.teleop = db.hmi.teleop /\ db'.hmi.reset = db.hmi.reset
           /\ db'.hmi.mode = db.hmi.mode /\ ~db'.hmi.Beat
           /\ hmi'.session = hmi.session /\ hmi'.up = hmi.up /\ hmi'.mode = hmi.mode
           /\ hmi'.phase = hmi.phase
           /\ hmi'.teleop = hmi.teleop /\ hmi'.reset = hmi.reset /\ hmi'.tap = hmi.tap
           /\ hmi'.teleopArmed = hmi.teleopArmed /\ hmi'.resetArmed = hmi.resetArmed
           /\ hmi'.waited = IF hmi.session = "up" \/ hmi.waited >= RECONNECT
                            THEN hmi.waited ELSE hmi.waited + 1
<1>1. hmi \in HmiType /\ db \in DbType /\ db.hmi \in HmiImage
  BY DEF DeskTypes, DbType
<1>2. /\ db' = [db EXCEPT !.hmi.Beat = FALSE]
      /\ hmi' = [hmi EXCEPT !.waited =
                    IF hmi.session = "up" \/ @ >= RECONNECT THEN @ ELSE @ + 1]
      /\ UNCHANGED page
  BY DEF DriveScans
<1> DEFINE waited == IF hmi.session = "up" \/ hmi.waited >= RECONNECT
                     THEN hmi.waited ELSE hmi.waited + 1
<1>3. hmi' = [hmi EXCEPT !.waited = waited]
  BY <1>2
<1> HIDE DEF waited
<1>4. /\ hmi'.session = hmi.session /\ hmi'.up = hmi.up /\ hmi'.mode = hmi.mode
      /\ hmi'.phase = hmi.phase
      /\ hmi'.teleop = hmi.teleop /\ hmi'.reset = hmi.reset /\ hmi'.tap = hmi.tap
      /\ hmi'.teleopArmed = hmi.teleopArmed /\ hmi'.resetArmed = hmi.resetArmed
      /\ hmi'.waited = waited
  BY <1>1, <1>3 DEF HmiType
<1>5. /\ db'.hmi.teleop = db.hmi.teleop /\ db'.hmi.reset = db.hmi.reset
      /\ db'.hmi.mode = db.hmi.mode /\ ~db'.hmi.Beat
  BY <1>1, <1>2 DEF DbType, HmiImage
<1>6. QED
  BY <1>2, <1>4, <1>5 DEF waited

\* The statics after a scan, each as the formula it is.
LEMMA ScanStatics ==
    ASSUME DeskTypes, DriveScans
    PROVE  /\ drive'.HmiSeenAlive <=> drive.HmiSeenAlive \/ db.hmi.Beat
           /\ drive'.HmiStaleTimer = Ton(drive.HmiStaleTimer, ~db.hmi.Beat, HMI_STALE_TIME)
           /\ drive'.BridgeSeenAlive <=> drive.BridgeSeenAlive \/ db.bridgeUp
           /\ drive'.HeartbeatStaleTimer =
                Ton(drive.HeartbeatStaleTimer, ~db.bridgeUp, HEARTBEAT_STALE_TIME)
           /\ drive'.latches = IF ResetAccepted(Input, drive) THEN {} ELSE Latched(Input, drive)
           /\ drive'.ResetEdgeMemory = db.hmi.reset
           /\ drive'.TeleopEnableEdgeMemory = db.hmi.teleop
           /\ drive'.LastModeRequest = db.hmi.mode
           /\ drive'.ResetDeviceFault <=> ResetDeviceFault(Input, drive)
           /\ drive'.TeleopActive <=> TeleopActive(Input, drive)
           /\ drive'.MotionEnable <=> MotionEnable(Input, drive)
           /\ drive'.AutonomousArmed <=> AutonomousArmed(Input, drive)
           /\ Input.hmi = db.hmi
           /\ HmiLinkOk(Input, drive) <=> ~LinkLost'
           /\ BridgeLinkOk(Input, drive) <=> ~BridgeLost'
<1>1. drive' = DriveScan(Input, drive)
  BY DEF DriveScans
<1>2. /\ drive'.HmiSeenAlive = (drive.HmiSeenAlive \/ Input.hmi.Beat)
      /\ drive'.HmiStaleTimer = HmiStale(Input, drive)
      /\ drive'.BridgeSeenAlive = (drive.BridgeSeenAlive \/ Input.plant.Beat)
      /\ drive'.HeartbeatStaleTimer = BridgeStale(Input, drive)
      /\ drive'.latches = IF ResetAccepted(Input, drive) THEN {} ELSE Latched(Input, drive)
      /\ drive'.ResetEdgeMemory = Input.hmi.reset
      /\ drive'.TeleopEnableEdgeMemory = Input.hmi.teleop
      /\ drive'.LastModeRequest = Input.hmi.mode
      /\ drive'.ResetDeviceFault = ResetDeviceFault(Input, drive)
      /\ drive'.TeleopActive = TeleopActive(Input, drive)
      /\ drive'.MotionEnable = MotionEnable(Input, drive)
      /\ drive'.AutonomousArmed = AutonomousArmed(Input, drive)
  BY <1>1 DEF DriveScan
<1>3. Input.hmi = db.hmi
  BY DEF Input
<1>4. HmiLinkOk(Input, drive) <=> ~LinkLost'
  BY <1>2 DEF HmiLinkOk, LinkLost, Q
<1>5. BridgeLinkOk(Input, drive) <=> ~BridgeLost'
  BY <1>2 DEF BridgeLinkOk, BridgeLost, Q
<1>6. HmiStale(Input, drive) = Ton(drive.HmiStaleTimer, ~db.hmi.Beat, HMI_STALE_TIME)
  BY <1>3 DEF HmiStale
<1>7. Input.plant.Beat = db.bridgeUp
  BY DEF Input, DeskTypes, DbType, PlantImage
<1>8. BridgeStale(Input, drive) =
        Ton(drive.HeartbeatStaleTimer, ~db.bridgeUp, HEARTBEAT_STALE_TIME)
  BY <1>7 DEF BridgeStale
<1>9. QED
  BY <1>2, <1>3, <1>4, <1>5, <1>6, <1>7, <1>8

\* When the program lets its latches go, and when it starts a motion.
LEMMA ScanActs ==
    ASSUME DeskTypes, DriveScans, drive.MotionEnable <=> drive.AutonomousArmed
    PROVE  /\ ResetAccepted(Input, drive) => Accepting /\ ~LinkLost' /\ ~drive'.TeleopActive
                                                /\ ~drive'.MotionEnable
           /\ ~ResetAccepted(Input, drive) => drive.latches \subseteq drive'.latches
           /\ LinkLost' => drive'.latches # {} /\ drive'.ResetDeviceFault
           /\ drive'.TeleopActive =>
                \/ drive.TeleopActive
                \/ db.hmi.teleop /\ ~drive.TeleopEnableEdgeMemory /\ drive.latches = {}
           /\ drive'.MotionEnable =>
                \/ drive.MotionEnable
                \/ /\ db.hmi.mode = MODE_AUTONOMOUS
                   /\ drive.LastModeRequest # MODE_AUTONOMOUS /\ drive.latches = {}
           /\ drive'.TeleopActive \/ drive'.MotionEnable => ~LinkLost' /\ ~BridgeLost'
           /\ drive'.MotionEnable <=> drive'.AutonomousArmed
<1>1. drive.latches \subseteq Latched(Input, drive)
  BY DEF Latched
<1>2. MotionPermissive(Input, drive) =>
        /\ ~ResetAccepted(Input, drive) /\ drive.latches = {}
        /\ HmiLinkOk(Input, drive) /\ BridgeLinkOk(Input, drive)
  BY <1>1 DEF MotionPermissive, LatchPending, ResetAccepted, WorldOk
<1>3. TeleopActive(Input, drive) \/ MotionEnable(Input, drive) => MotionPermissive(Input, drive)
  BY DEF TeleopActive, MotionEnable
<1>4. ResetAccepted(Input, drive) => Accepting /\ HmiLinkOk(Input, drive)
  <2>1. Input.hmi = db.hmi
    BY ScanStatics
  <2>2. QED
    BY <2>1 DEF ResetAccepted, ResetDeviceFault, Accepting, Rising, WorldOk
<1>5. ~HmiLinkOk(Input, drive) =>
        "HmiLinkLost" \in Latched(Input, drive) /\ ResetDeviceFault(Input, drive)
  BY DEF Latched, ResetDeviceFault
<1>6. TeleopActive(Input, drive) =>
        drive.TeleopActive \/ (db.hmi.teleop /\ ~drive.TeleopEnableEdgeMemory)
  <2>1. Input.hmi = db.hmi
    BY ScanStatics
  <2>2. QED
    BY <2>1 DEF TeleopActive, TeleopRise
<1>7. MotionEnable(Input, drive) <=> AutonomousArmed(Input, drive)
  BY DEF MotionEnable, AutonomousArmed
<1>8. AutonomousArmed(Input, drive) =>
        \/ drive.AutonomousArmed
        \/ db.hmi.mode = MODE_AUTONOMOUS /\ drive.LastModeRequest # MODE_AUTONOMOUS
  <2>1. Input.hmi = db.hmi /\ MODE_NONE # MODE_AUTONOMOUS
    BY ScanStatics DEF MODE_NONE, MODE_AUTONOMOUS
  <2>2. QED
    BY <2>1 DEF AutonomousArmed, DriveModeInForce, ModeEntered
<1>9. QED
  BY <1>1, <1>2, <1>3, <1>4, <1>5, <1>6, <1>7, <1>8, ScanStatics

\* What the history makes of a scan.
LEMMA ScanStory ==
    ASSUME DeskTypes, DriveScans
    PROVE  /\ story'.afterPress = story.afterPress
           /\ story'.click <=>
                /\ story.click
                /\ ~ResetAccepted(Input, drive) \/ "click" \in story.afterPress
                /\ drive.TeleopActive \/ ~drive'.TeleopActive
                /\ page.teleop \/ hmi.teleop \/ db.hmi.teleop
           /\ story'.select <=>
                /\ story.select
                /\ ~ResetAccepted(Input, drive) \/ "select" \in story.afterPress
                /\ drive.MotionEnable \/ ~drive'.MotionEnable
                /\ {hmi.mode, db.hmi.mode} # {MODE_NONE}
           /\ story'.press <=>
                /\ story.press /\ ~ResetAccepted(Input, drive)
                /\ page.reset \/ hmi.reset \/ hmi.tap \/ db.hmi.reset
           /\ story'.hmiSilent = Count(story.hmiSilent, ~db.hmi.Beat, HMI_STALE_TIME + 1)
           /\ story'.bridgeSilent =
                Count(story.bridgeSilent, ~db.bridgeUp, HEARTBEAT_STALE_TIME + 1)
<1>1. story' = Told /\ story \in StoryType
  BY DEF DriveScans, DeskTypes
<1> DEFINE stale  == IF ResetAccepted(Input, drive)
                     THEN {"click", "select"} \ story.afterPress ELSE {}
           click  == /\ story.click /\ "click" \notin stale
                     /\ drive.TeleopActive \/ ~drive'.TeleopActive
                     /\ page.teleop \/ hmi.teleop \/ db.hmi.teleop
           select == /\ story.select /\ "select" \notin stale
                     /\ drive.MotionEnable \/ ~drive'.MotionEnable
                     /\ {hmi.mode, db.hmi.mode} # {MODE_NONE}
           press  == /\ story.press /\ ~ResetAccepted(Input, drive)
                     /\ page.reset \/ hmi.reset \/ hmi.tap \/ db.hmi.reset
           silent == Count(story.hmiSilent, ~db.hmi.Beat, HMI_STALE_TIME + 1)
           bridge == Count(story.bridgeSilent, ~db.bridgeUp, HEARTBEAT_STALE_TIME + 1)
<1>2. story' = [story EXCEPT !.click = click, !.select = select, !.press = press,
                             !.hmiSilent = silent, !.bridgeSilent = bridge]
  BY <1>1 DEF Told
<1>3. /\ "click" \notin stale <=> ~ResetAccepted(Input, drive) \/ "click" \in story.afterPress
      /\ "select" \notin stale <=> ~ResetAccepted(Input, drive) \/ "select" \in story.afterPress
  OBVIOUS
<1> HIDE DEF click, select, press, silent, bridge
<1>4. /\ story'.afterPress = story.afterPress
      /\ story'.click = click /\ story'.select = select /\ story'.press = press
      /\ story'.hmiSilent = silent /\ story'.bridgeSilent = bridge
  BY <1>1, <1>2 DEF StoryType
<1> HIDE DEF stale
<1>5. QED
  BY <1>3, <1>4 DEF click, select, press, silent, bridge

LEMMA DriveScanKeeps ==
    ASSUME DeskInv, DriveScans PROVE DeskParts'
<1>1. DeskTypes /\ (drive.MotionEnable <=> drive.AutonomousArmed)
  BY DEF DeskInv, DeskParts, ModeIsSelect
<1>2. /\ UNCHANGED page
      /\ db'.hmi.teleop = db.hmi.teleop /\ db'.hmi.reset = db.hmi.reset
      /\ db'.hmi.mode = db.hmi.mode /\ ~db'.hmi.Beat
      /\ hmi'.session = hmi.session /\ hmi'.up = hmi.up /\ hmi'.mode = hmi.mode
      /\ hmi'.phase = hmi.phase
      /\ hmi'.teleop = hmi.teleop /\ hmi'.reset = hmi.reset /\ hmi'.tap = hmi.tap
      /\ hmi'.teleopArmed = hmi.teleopArmed /\ hmi'.resetArmed = hmi.resetArmed
  BY <1>1, ScanParts
<1>3. /\ drive'.ResetEdgeMemory = db.hmi.reset
      /\ drive'.TeleopEnableEdgeMemory = db.hmi.teleop
      /\ drive'.LastModeRequest = db.hmi.mode
  BY <1>1, ScanStatics
<1>4. Up' = Up /\ ~Rising' /\ ~Accepting'
  BY <1>2, <1>3 DEF Up, Rising, Accepting
<1>5. LostLatches'
  BY <1>1, ScanActs DEF LostLatches
<1>6. PageAhead'
  BY <1>2 DEF DeskInv, DeskParts, PageAhead
<1>7. LinkLost /\ ~db.hmi.Beat => LinkLost'
  <2>1. drive.HmiStaleTimer \in Nat
    BY <1>1 DEF DeskTypes, DriveType
  <2>2. /\ drive'.HmiSeenAlive <=> drive.HmiSeenAlive \/ db.hmi.Beat
        /\ drive'.HmiStaleTimer = Ton(drive.HmiStaleTimer, ~db.hmi.Beat, HMI_STALE_TIME)
    BY <1>1, ScanStatics
  <2>3. QED
    BY <2>1, <2>2, Bounds DEF LinkLost, Ton
<1>8. QuietBetween'
  <2>1. SUFFICES ASSUME ~Up, hmi'.waited >= 1
                 PROVE  LinkLost' \/ drive'.HmiStaleTimer >= hmi'.waited - 1
    BY <1>2, <1>3, <1>4 DEF QuietBetween
  <2>2. /\ hmi'.waited = IF hmi.waited >= RECONNECT THEN hmi.waited ELSE hmi.waited + 1
        /\ hmi.waited \in 0 .. RECONNECT
    BY <1>1, <2>1, ScanParts DEF Up, DeskTypes, HmiType
  <2>3. /\ drive'.HmiStaleTimer = Ton(drive.HmiStaleTimer, ~db.hmi.Beat, HMI_STALE_TIME)
        /\ drive.HmiStaleTimer \in Nat
    BY <1>1, ScanStatics DEF DeskTypes, DriveType
  <2>4. CASE hmi.waited = 0
    BY <2>2, <2>3, <2>4, Bounds DEF Ton
  <2>5. CASE hmi.waited >= 1
    <3>1. ~db.hmi.Beat /\ (LinkLost \/ drive.HmiStaleTimer >= hmi.waited - 1)
      BY <2>1, <2>5 DEF DeskInv, DeskParts, QuietBetween
    <3>2. CASE LinkLost
      BY <1>7, <3>1, <3>2
    <3>3. CASE ~LinkLost
      <4>1. drive.HmiStaleTimer >= hmi.waited - 1 /\ drive.HmiStaleTimer <= HMI_STALE_TIME
        BY <2>3, <3>1, <3>3, Bounds DEF LinkLost
      <4>2. drive'.HmiStaleTimer = drive.HmiStaleTimer + 1
        BY <2>3, <3>1, <4>1, Bounds DEF Ton
      <4>3. QED
        BY <2>2, <2>3, <4>1, <4>2, Bounds
    <3>4. QED
      BY <3>2, <3>3
  <2>6. QED
    BY <2>2, <2>4, <2>5
<1>9. SilenceCounted'
  <2>1. /\ story.hmiSilent \in 0 .. HMI_STALE_TIME + 1
        /\ story.bridgeSilent \in 0 .. HEARTBEAT_STALE_TIME + 1
        /\ drive.HmiStaleTimer \in Nat /\ drive.HeartbeatStaleTimer \in Nat
    BY <1>1 DEF DeskTypes, StoryType, DriveType
  <2>2. story'.hmiSilent <= drive'.HmiStaleTimer \/ ~drive'.HmiSeenAlive
    <3>1. /\ story'.hmiSilent = Count(story.hmiSilent, ~db.hmi.Beat, HMI_STALE_TIME + 1)
          /\ drive'.HmiStaleTimer = Ton(drive.HmiStaleTimer, ~db.hmi.Beat, HMI_STALE_TIME)
          /\ drive'.HmiSeenAlive <=> drive.HmiSeenAlive \/ db.hmi.Beat
          /\ story.hmiSilent <= drive.HmiStaleTimer \/ ~drive.HmiSeenAlive
      BY <1>1, ScanStatics, ScanStory DEF DeskInv, DeskParts, SilenceCounted
    <3>2. QED
      BY <2>1, <3>1, Bounds DEF Count, Ton
  <2>3. story'.bridgeSilent <= drive'.HeartbeatStaleTimer \/ ~drive'.BridgeSeenAlive
    <3>1. /\ story'.bridgeSilent =
                Count(story.bridgeSilent, ~db.bridgeUp, HEARTBEAT_STALE_TIME + 1)
          /\ drive'.HeartbeatStaleTimer =
                Ton(drive.HeartbeatStaleTimer, ~db.bridgeUp, HEARTBEAT_STALE_TIME)
          /\ drive'.BridgeSeenAlive <=> drive.BridgeSeenAlive \/ db.bridgeUp
          /\ story.bridgeSilent <= drive.HeartbeatStaleTimer \/ ~drive.BridgeSeenAlive
      BY <1>1, ScanStatics, ScanStory DEF DeskInv, DeskParts, SilenceCounted
    <3>2. QED
      BY <2>1, <3>1, Bounds DEF Count, Ton
  <2>4. QED
    BY <1>1, <2>2, <2>3, ScanActs DEF SilenceCounted
\* A press is spent by the reset it makes, when the image holds the device.
<1>10. story'.press <=>
            /\ story.press /\ ~ResetAccepted(Input, drive)
            /\ page.reset \/ hmi.reset \/ hmi.tap \/ db.hmi.reset
  BY <1>1, ScanStory
<1>11. ResetAccepted(Input, drive) => Accepting
  BY <1>1, ScanActs
<1>12. RisingIsPress'
  BY <1>4 DEF RisingIsPress
<1>13. CarriedIsPress'
  BY <1>2, <1>4, <1>7, <1>10, <1>11
  DEF DeskInv, DeskParts, ResetIsPress, CarriedIsPress, CarriedReset, Accepting, Rising
<1>14. HeldIsPress'
  BY <1>2, <1>4, <1>10, <1>11
  DEF DeskInv, DeskParts, ResetIsPress, HeldIsPress, Accepting, Rising
\* A latch is let go, and a click or a selection spent, by a scan that accepts
\* or that starts the motion; the image has the control then.
<1>15. EnableIsClick'
  <2>1. story'.click <=>
            /\ story.click
            /\ ~ResetAccepted(Input, drive) \/ "click" \in story.afterPress
            /\ drive.TeleopActive \/ ~drive'.TeleopActive
            /\ page.teleop \/ hmi.teleop \/ db.hmi.teleop
    BY <1>1, ScanStory
  <2>2. /\ ~ResetAccepted(Input, drive) => drive.latches \subseteq drive'.latches
        /\ drive'.TeleopActive /\ ~drive.TeleopActive => db.hmi.teleop
    BY <1>1, ScanActs
  <2>3. QED
    BY <1>2, <1>3, <1>4, <1>11, <2>1, <2>2
    DEF DeskInv, DeskParts, EnableIsClick, Accepting
<1>16. ModeIsSelect'
  <2>1. story'.select <=>
            /\ story.select
            /\ ~ResetAccepted(Input, drive) \/ "select" \in story.afterPress
            /\ drive.MotionEnable \/ ~drive'.MotionEnable
            /\ {hmi.mode, db.hmi.mode} # {MODE_NONE}
    BY <1>1, ScanStory
  <2>2. /\ ~ResetAccepted(Input, drive) => drive.latches \subseteq drive'.latches
        /\ drive'.MotionEnable /\ ~drive.MotionEnable => db.hmi.mode = MODE_AUTONOMOUS
        /\ drive'.MotionEnable <=> drive'.AutonomousArmed
    BY <1>1, ScanActs
  <2>3. hmi.mode = MODE_AUTONOMOUS => {hmi.mode, db.hmi.mode} # {MODE_NONE}
    BY DEF MODE_NONE, MODE_AUTONOMOUS
  <2>4. QED
    BY <1>2, <1>3, <1>4, <1>11, <2>1, <2>2, <2>3
    DEF DeskInv, DeskParts, ModeIsSelect
<1>17. QED
  BY <1>5, <1>6, <1>8, <1>9, <1>12, <1>13, <1>14, <1>15, <1>16 DEF DeskParts, ResetIsPress

-----------------------------------------------------------------------------
(* The theorems. *)

LEMMA DeskStepInv == DeskInv /\ [DeskNext]_deskVars => DeskInv'
<1> SUFFICES ASSUME DeskInv, [DeskNext]_deskVars PROVE DeskInv'
  OBVIOUS
<1>1. DeskTypes'
  BY DeskStepTypes DEF DeskInv
<1>2. DeskParts'
  BY PageStepKeeps, OthersKeep, WriteKeeps, HeartbeatKeeps, FinalZerosKeep, DiesKeeps,
     StartsKeeps, ConnectsKeeps, PlcStartsKeeps, DriveScanKeeps
  DEF DeskNext, SessionBreaks, FaultEnds
<1>3. QED
  BY <1>1, <1>2 DEF DeskInv

LEMMA DeskAlwaysInv == DeskSpec => []DeskInv
BY DeskInitInv, DeskStepInv, PTL DEF DeskSpec

\* Every part of the desk keeps its type, and the program is armed for
\* autonomous motion in the autonomous mode only.
THEOREM DeskTypeCorrect == DeskSpec => []DeskTypeOK
<1>1. DeskInv => DeskTypeOK
  BY TypesAreTypeOK DEF DeskInv
<1>2. QED
  BY <1>1, DeskAlwaysInv, PTL

\* The two dead men hold for every time constant and through every upset: no
\* motion once the HMI or the bridge has been silent for longer than its limit.
THEOREM SilenceAlwaysStopsDrive == DeskSpec => []SilenceStopsDrive
<1>1. DeskInv => SilenceStopsDrive
  <2> SUFFICES ASSUME DeskInv PROVE SilenceStopsDrive
    OBVIOUS
  <2>1. /\ story.hmiSilent \in 0 .. HMI_STALE_TIME + 1
        /\ story.bridgeSilent \in 0 .. HEARTBEAT_STALE_TIME + 1
        /\ drive.HmiStaleTimer \in Nat /\ drive.HeartbeatStaleTimer \in Nat
    BY DEF DeskInv, DeskTypes, StoryType, DriveType
  <2>2. SilenceCounted
    BY SMTT(40) DEF DeskInv, DeskParts
  <2>3. QED
    BY <2>1, <2>2, Bounds DEF SilenceStopsDrive, SilenceCounted, LinkLost, BridgeLost
<1>2. QED
  BY <1>1, DeskAlwaysInv, PTL

\* The statics are the program's own: only a scan and a start write them.
LEMMA DriveIsOfTheProgram ==
    [DeskNext]_deskVars => DriveScans \/ PlcStarts \/ UNCHANGED drive
BY DEF DeskNext, deskVars, ClickEnable, PressReset, ReleaseReset, Touch, ReleaseAll, ClickStop,
   ClickMode, Post, Freezes, Thaws, WritesRequests, WritesHeartbeat, SessionBreaks, FaultEnds,
   FinalZeros, Connects, Dies, Starts, PlantReads, BridgeTurns, VehicleTurns, VehicleApplies,
   SafetyTurns

\* Whatever latched, froze, broke or came back, and however often: teleop becomes
\* active only for a click, and autonomous motion only for a selection, that has
\* started nothing yet and that came after the press that cleared the last latch.
THEOREM MotionIsAlwaysAskedFor == DeskSpec => MotionIsAskedFor
<1> DEFINE asked == /\ drive'.TeleopActive => drive.TeleopActive \/ story.click
                    /\ drive'.MotionEnable => drive.MotionEnable \/ story.select
<1>1. DeskInv /\ [DeskNext]_deskVars => [asked]_<<drive, story>>
  <2> SUFFICES ASSUME DeskInv, [DeskNext]_deskVars PROVE asked
    OBVIOUS
  <2>1. CASE DriveScans
    BY <2>1, ScanActs DEF DeskInv, DeskParts, EnableIsClick, ModeIsSelect
  <2>2. CASE PlcStarts
    BY <2>2 DEF PlcStarts, BootDrive
  <2>3. CASE UNCHANGED drive
    BY <2>3
  <2>4. QED
    BY <2>1, <2>2, <2>3, DriveIsOfTheProgram
<1>2. QED
  BY <1>1, DeskAlwaysInv, PTL DEF DeskSpec, MotionIsAskedFor

\* One press of the reset clears the latches once, for every time constant and
\* through any number of lost pages, broken sessions and restarts.
THEOREM OnePressMakesOneReset == DeskSpec => OnePressOneReset
<1> DEFINE pressed == drive'.latches = {} => drive.latches = {} \/ story.press
<1>1. DeskInv /\ [DeskNext]_deskVars => [pressed]_<<drive, story>>
  <2> SUFFICES ASSUME DeskInv, [DeskNext]_deskVars PROVE pressed
    OBVIOUS
  <2>1. CASE DriveScans
    <3>1. /\ ResetAccepted(Input, drive) => Accepting
          /\ ~ResetAccepted(Input, drive) => drive.latches \subseteq drive'.latches
      BY <2>1, ScanActs DEF DeskInv, DeskParts, ModeIsSelect
    <3>2. Accepting => story.press
      BY DEF DeskInv, DeskParts, ResetIsPress, RisingIsPress, Accepting
    <3>3. QED
      BY <3>1, <3>2
  <2>2. CASE PlcStarts
    BY <2>2 DEF PlcStarts, BootDrive
  <2>3. CASE UNCHANGED drive
    BY <2>3
  <2>4. QED
    BY <2>1, <2>2, <2>3, DriveIsOfTheProgram
<1>2. QED
  BY <1>1, DeskAlwaysInv, PTL DEF DeskSpec, OnePressOneReset
=============================================================================
