-------------------------------- MODULE Desk --------------------------------
(***************************************************************************)
(* The operator's page (src/hmi/static/index.html), the HMI process behind *)
(* it (src/hmi/hmi_server.py) and the standard program that reads what it  *)
(* writes.  The page posts at any time, the HMI writes its requests and    *)
(* then its heartbeat, and the program scans in between; a budget of       *)
(* upsets lets the page freeze, the session break, the processes die, and  *)
(* the plant, the vehicle and the safety program have their say.           *)
(***************************************************************************)
EXTENDS DriveProgram

CONSTANTS
    Upsets,         \* bound: how many upsets a behaviour has
    Casts,          \* who is about: [troubles, tools, modes, vehicle]
    Plants,         \* what the bridge may come to write
    RECONNECT       \* scans before a broken session, or a process that died, is back

\* What may be upset, and what the operator uses.
Kinds == {"slow", "page", "session", "process", "plc", "bridge", "vehicle", "safety", "plant"}
Tools == {"enable", "reset", "stop"}

ASSUME DeskAssumption ==
    /\ Upsets \in Nat /\ RECONNECT \in Nat
    /\ HMI_STALE_TIME + 2 <= RECONNECT
    /\ \A c \in Casts : /\ c.troubles \subseteq Kinds /\ c.tools \subseteq Tools
                        /\ c.modes \subseteq Modes /\ c.vehicle \in BOOLEAN
    /\ Plants \subseteq PlantImage

VARIABLES
    page,       \* the controls as the page holds them
    hmi,        \* the HMI process: its Controls, and its session
    db,         \* the image the program scans, and who is alive to write it
    drive,      \* the statics of the program
    cast,       \* who is about, chosen once
    upsets,     \* how many upsets are left
    story       \* history, for the properties only

deskVars == <<page, hmi, db, drive, cast, upsets, story>>

\* A process that has just been started: armed, with the stop engaged.
\* waited: scans since the last session ended, up to RECONNECT.
FreshHmi ==
    [up |-> TRUE, session |-> "none", phase |-> "idle", waited |-> RECONNECT,
     teleop |-> FALSE, reset |-> FALSE, tap |-> FALSE,
     teleopArmed |-> TRUE, resetArmed |-> TRUE,
     stop |-> TRUE, mode |-> MODE_NONE, pageStale |-> FALSE]

\* Everything up and at rest: connected, the stop released, the latches
\* cleared, no mode selected.
WorkingHmi == [FreshHmi EXCEPT !.session = "up", !.stop = FALSE]
WorkingDb(vehicle) ==
    [plant |-> [BootPlant EXCEPT !.distance = "valid", !.stopZone = FALSE],
     vehicle |-> BootVehicle, hmi |-> [BootHmi EXCEPT !.stop = FALSE],
     safetyClear |-> TRUE, bridgeUp |-> TRUE, vehicleUp |-> vehicle]
WorkingDrive(vehicle) ==
    [BootDrive EXCEPT
        !.BridgeSeenAlive = TRUE, !.HmiSeenAlive = TRUE, !.VehicleSeenAlive = vehicle,
        !.VehicleStaleTimer = IF vehicle THEN 0 ELSE VEHICLE_STALE_TIME + 1,
        !.StandstillTimer = STANDSTILL_TIME + 1, !.latches = {},
        !.TeleopEnableEdgeMemory = FALSE, !.ResetEdgeMemory = FALSE, !.ResetDeviceFault = FALSE]

\* click and select: an enable and a mode selection that have started nothing
\* yet; afterPress: those of them that came after the last press of the reset;
\* press: a press that has cleared nothing yet; ofSession: the last press began
\* in a session that no other has followed.
BootStory == [click |-> FALSE, select |-> FALSE, afterPress |-> {}, press |-> FALSE,
              ofSession |-> FALSE, hmiSilent |-> 0, bridgeSilent |-> 0]

DeskInit ==
    /\ cast \in Casts
    /\ upsets = Upsets
    /\ page = [teleop |-> FALSE, reset |-> FALSE, frozen |-> FALSE]
    /\ hmi = WorkingHmi
    /\ db = WorkingDb(cast.vehicle)
    /\ drive = WorkingDrive(cast.vehicle)
    /\ story = BootStory

Upset(kind) ==
    /\ kind \in cast.troubles /\ upsets > 0
    /\ upsets' = upsets - 1

-----------------------------------------------------------------------------
(* The page.  A post carries the five requests as the page holds them; a    *)
(* standing control travels with the click that moved it, and no other.     *)

\* Controls.apply().
Applied(h, p) ==
    [h EXCEPT !.teleop = p.teleop, !.reset = p.reset,
              !.teleopArmed = @ \/ ~p.teleop,
              !.resetArmed = @ \/ ~p.reset,
              !.tap = @ \/ (p.reset /\ h.resetArmed)]

Post(p, h) ==
    /\ ~page.frozen
    /\ page' = p
    /\ hmi' = IF hmi.up THEN Applied(h, p) ELSE hmi
    /\ UNCHANGED <<db, drive, cast, upsets>>

ClickEnable ==
    /\ "enable" \in cast.tools
    /\ Post([page EXCEPT !.teleop = ~@], hmi)
    /\ story' = IF page.teleop THEN story
                ELSE [story EXCEPT !.click = TRUE, !.afterPress = @ \cup {"click"}]

PressReset ==
    /\ "reset" \in cast.tools /\ ~page.reset
    /\ Post([page EXCEPT !.reset = TRUE], hmi)
    /\ story' = [story EXCEPT
                    !.press = TRUE, !.afterPress = IF story.press THEN @ ELSE {},
                    !.ofSession = (hmi.session = "up")]

ReleaseReset ==
    /\ page.reset
    /\ Post([page EXCEPT !.reset = FALSE], hmi)
    /\ UNCHANGED story

\* The stick, the fork, the retry of a post that failed.
Touch == Post(page, hmi) /\ UNCHANGED story

\* The page loses the focus.
ReleaseAll ==
    /\ Post([page EXCEPT !.teleop = FALSE, !.reset = FALSE], hmi)
    /\ UNCHANGED story

\* The button is dead while the session is not up, and its target is computed
\* from the published state.
ClickStop ==
    /\ "stop" \in cast.tools /\ hmi.session = "up"
    /\ Post(page, [hmi EXCEPT !.stop = ~@])
    /\ UNCHANGED story

ClickMode(mode) ==
    /\ Post(page, [hmi EXCEPT !.mode = mode])
    /\ story' = IF mode = MODE_NONE THEN story
                ELSE [story EXCEPT !.select = TRUE, !.afterPress = @ \cup {"select"}]

Freezes ==
    /\ ~page.frozen /\ Upset("page")
    /\ page' = [page EXCEPT !.frozen = TRUE]
    /\ UNCHANGED <<hmi, db, drive, cast, story>>

Thaws ==
    /\ page.frozen
    /\ page' = [page EXCEPT !.frozen = FALSE]
    /\ UNCHANGED <<hmi, db, drive, cast, upsets, story>>

-----------------------------------------------------------------------------
(* The HMI process.                                                         *)

\* Controls._to_rest(), take_cycle_values() and snapshot().
Rest(h) == [h EXCEPT !.teleop = FALSE, !.reset = FALSE, !.tap = FALSE]
PageLost(h) == [Rest(h) EXCEPT !.teleopArmed = FALSE, !.resetArmed = FALSE]
CarriedReset(h) == h.resetArmed /\ (h.reset \/ h.tap)
Carried(image, h) ==
    [image EXCEPT !.teleop = h.teleop /\ h.teleopArmed, !.reset = CarriedReset(h),
                  !.mode = h.mode, !.stop = h.stop]

\* One cycle writes the requests and then the heartbeat.  A page that is frozen
\* may have been quiet for long enough by now (quiet).
WritesRequests(quiet) ==
    LET lost  == quiet /\ ~hmi.pageStale
        taken == IF lost THEN PageLost(hmi) ELSE hmi
    IN  /\ hmi.session = "up" /\ hmi.phase = "idle"
        /\ quiet => page.frozen
        /\ hmi.pageStale /\ page.frozen => quiet
        /\ db' = [db EXCEPT !.hmi = Carried(@, taken)]
        /\ hmi' = [taken EXCEPT !.phase = "written", !.pageStale = quiet,
                                !.tap = @ /\ ~CarriedReset(taken)]
        /\ UNCHANGED <<page, drive, cast, upsets, story>>

WritesHeartbeat ==
    /\ hmi.session = "up" /\ hmi.phase = "written"
    /\ db' = [db EXCEPT !.hmi.Beat = TRUE]
    /\ hmi' = [hmi EXCEPT !.phase = "idle"]
    /\ UNCHANGED <<page, drive, cast, upsets, story>>

\* The deadman, and one attempt to write what is left of the controls.
FinalZeros(session, landed) ==
    /\ hmi.session = "up"
    /\ hmi' = [Rest(hmi) EXCEPT !.session = session, !.phase = "idle", !.waited = 0]
    /\ db' = IF landed THEN [db EXCEPT !.hmi = Carried(@, Rest(hmi))] ELSE db
    /\ UNCHANGED <<page, drive, cast, story>>

SessionBreaks(landed) == Upset("session") /\ FinalZeros("none", landed)

\* A write cycle below its floor is a fault: no session any more, by itself.
FaultEnds(landed) == Upset("process") /\ FinalZeros("over", landed)

Connects ==
    /\ hmi.up /\ hmi.session = "none" /\ hmi.waited >= RECONNECT
    /\ hmi' = [hmi EXCEPT !.session = "up"]
    /\ story' = [story EXCEPT !.press = @ \/ page.reset, !.ofSession = FALSE]
    /\ UNCHANGED <<page, db, drive, cast, upsets>>

\* No farewell value, by a clean stop or a crash.
Dies ==
    /\ hmi.up /\ Upset("process")
    /\ hmi' = [FreshHmi EXCEPT !.up = FALSE, !.waited = 0]
    /\ UNCHANGED <<page, db, drive, cast, story>>

\* A process started again.  That it takes as long as a reconnection does is
\* assumed of whoever starts it: one that is back within HMI_STALE_TIME is not
\* missed by the program, and the controls it finds on the page are new to it.
Starts ==
    /\ ~hmi.up /\ hmi.waited >= RECONNECT
    /\ hmi' = FreshHmi
    /\ UNCHANGED <<page, db, drive, cast, upsets, story>>

-----------------------------------------------------------------------------
(* The other writers of the image.  What goes wrong is an upset; what goes  *)
(* right again is none.                                                     *)
Healthy(p) == ~p.stopZone /\ p.height = "valid" /\ p.speed = "still" /\ p.distance = "valid"

PlantReads(p) ==
    /\ db.bridgeUp /\ p # db.plant
    /\ IF Healthy(p) THEN UNCHANGED upsets ELSE Upset("plant")
    /\ db' = [db EXCEPT !.plant = p]
    /\ UNCHANGED <<page, hmi, drive, cast, story>>

BridgeTurns ==
    /\ IF db.bridgeUp THEN Upset("bridge") ELSE UNCHANGED upsets
    /\ db' = [db EXCEPT !.bridgeUp = ~@]
    /\ UNCHANGED <<page, hmi, drive, cast, story>>

VehicleTurns ==
    /\ IF db.vehicleUp THEN Upset("vehicle") ELSE UNCHANGED upsets
    /\ db' = [db EXCEPT !.vehicleUp = ~@]
    /\ UNCHANGED <<page, hmi, drive, cast, story>>

\* The vehicle applies the mode it is told, in its own time.
VehicleApplies ==
    /\ db.bridgeUp /\ db.vehicleUp
    /\ db' = [db EXCEPT !.vehicle.mode = drive.DriveModeInForce]
    /\ UNCHANGED <<page, hmi, drive, cast, upsets, story>>

SafetyTurns ==
    /\ IF db.safetyClear THEN Upset("safety") ELSE UNCHANGED upsets
    /\ db' = [db EXCEPT !.safetyClear = ~@]
    /\ UNCHANGED <<page, hmi, drive, cast, story>>

-----------------------------------------------------------------------------
(* The program.                                                             *)
Input ==
    [plant |-> [db.plant EXCEPT !.Beat = db.bridgeUp],
     vehicle |-> [db.vehicle EXCEPT !.Beat = db.bridgeUp /\ db.vehicleUp],
     hmi |-> db.hmi, safetyClear |-> db.safetyClear]

Count(n, holds, cap) == IF ~holds THEN 0 ELSE IF n < cap THEN n + 1 ELSE n

\* An act is spent once it has had its effect, or once it is withdrawn and no
\* writer holds it any more.
Told ==
    LET stale == IF ResetAccepted(Input, drive) THEN {"click", "select"} \ story.afterPress
                 ELSE {}
    IN  [story EXCEPT
            !.click = /\ @ /\ "click" \notin stale
                      /\ drive.TeleopActive \/ ~drive'.TeleopActive
                      /\ page.teleop \/ hmi.teleop \/ db.hmi.teleop,
            !.select = /\ @ /\ "select" \notin stale
                       /\ drive.MotionEnable \/ ~drive'.MotionEnable
                       /\ {hmi.mode, db.hmi.mode} # {MODE_NONE},
            !.press = /\ @ /\ ~ResetAccepted(Input, drive)
                      /\ page.reset \/ hmi.reset \/ hmi.tap \/ db.hmi.reset,
            !.hmiSilent = Count(@, ~db.hmi.Beat, HMI_STALE_TIME + 1),
            !.bridgeSilent = Count(@, ~db.bridgeUp, HEARTBEAT_STALE_TIME + 1)]

\* A session that is up keeps its heartbeat moving, but for an upset.
InTime ==
    \/ hmi.session # "up"
    \/ Q(drive.HmiStaleTimer, HMI_STALE_TIME)
    \/ ~Q(HmiStale(Input, drive), HMI_STALE_TIME)

DriveScans ==
    /\ IF InTime THEN UNCHANGED upsets ELSE Upset("slow")
    /\ drive' = DriveScan(Input, drive)
    /\ db' = [db EXCEPT !.hmi.Beat = FALSE]
    /\ hmi' = [hmi EXCEPT !.waited = IF hmi.session = "up" \/ @ >= RECONNECT THEN @ ELSE @ + 1]
    /\ story' = Told
    /\ UNCHANGED <<page, cast>>

\* The virtual PLC is started again; every session to it is broken.
PlcStarts ==
    /\ Upset("plc")
    /\ db' = [db EXCEPT !.plant = BootPlant, !.vehicle = BootVehicle, !.hmi = BootHmi,
                         !.safetyClear = FALSE]
    /\ drive' = BootDrive
    /\ hmi' = IF hmi.session # "up" THEN hmi
              ELSE [Rest(hmi) EXCEPT !.session = "none", !.phase = "idle", !.waited = 0]
    /\ UNCHANGED <<page, cast, story>>

DeskNext ==
    \/ ClickEnable \/ PressReset \/ ReleaseReset \/ Touch \/ ReleaseAll \/ ClickStop
    \/ \E mode \in cast.modes : ClickMode(mode)
    \/ Freezes \/ Thaws
    \/ \E quiet \in BOOLEAN : WritesRequests(quiet)
    \/ WritesHeartbeat
    \/ \E landed \in BOOLEAN : SessionBreaks(landed) \/ FaultEnds(landed)
    \/ Connects \/ Dies \/ Starts
    \/ \E p \in Plants : PlantReads(p)
    \/ BridgeTurns \/ VehicleTurns \/ VehicleApplies \/ SafetyTurns
    \/ DriveScans \/ PlcStarts

DeskSpec == DeskInit /\ [][DeskNext]_deskVars

-----------------------------------------------------------------------------
\* Every part of the desk keeps its type; a write cycle that has begun belongs to
\* a session that is up, and the program is armed for autonomous motion in the
\* autonomous mode only.
DeskTypeOK ==
    /\ page \in [teleop : BOOLEAN, reset : BOOLEAN, frozen : BOOLEAN]
    /\ hmi \in [up : BOOLEAN, session : {"none", "up", "over"}, phase : {"idle", "written"},
                waited : 0 .. RECONNECT, teleop : BOOLEAN, reset : BOOLEAN, tap : BOOLEAN,
                teleopArmed : BOOLEAN, resetArmed : BOOLEAN,
                stop : BOOLEAN, mode : Modes, pageStale : BOOLEAN]
    /\ db \in [plant : PlantImage, vehicle : VehicleImage, hmi : HmiImage,
               safetyClear : BOOLEAN, bridgeUp : BOOLEAN, vehicleUp : BOOLEAN]
    /\ drive \in DriveType
    /\ hmi.phase = "written" => hmi.session = "up"
    /\ drive.AutonomousArmed => drive.DriveModeInForce = MODE_AUTONOMOUS

\* Nothing moves that was not asked to: whatever latched, froze, broke or came
\* back, teleop becomes active only for a click on the enable, and autonomous
\* motion only for a selection of a mode, that has started nothing yet and was
\* made after the press of the reset that cleared the last latch.
MotionIsAskedFor ==
    [][/\ drive'.TeleopActive => drive.TeleopActive \/ story.click
       /\ drive'.MotionEnable => drive.MotionEnable \/ story.select]_<<drive, story>>

\* One press of the reset clears the latches once, for all the posts, retries
\* and write cycles that carry it, and also when the page freezes under the
\* hand that holds it.  A press that is held while the session breaks or the
\* HMI is started again counts as another in the next session.
OnePressOneReset ==
    [][drive'.latches = {} => drive.latches = {} \/ story.press]_<<drive, story>>

\* The two dead men: no motion once the HMI or the bridge has been silent.
SilenceStopsDrive ==
    story.hmiSilent > HMI_STALE_TIME \/ story.bridgeSilent > HEARTBEAT_STALE_TIME
    => ~drive.TeleopActive /\ ~drive.MotionEnable

\* P6 covers link-up: a reset that has been held since before the session was
\* opened clears nothing in it.
ResetOfThisSession ==
    [][drive'.latches = {} => drive.latches = {} \/ story.ofSession]_<<drive, story>>
=============================================================================
