---------------------------- MODULE SafetyProgram ----------------------------
(***************************************************************************)
(* The scan of src/m5/m5_ver1/virtual_plc/f_program.py: forty-nine         *)
(* networks from the stand-in image to the demand latches, the monitored   *)
(* reset and the two stages of the stop.  Times are counted in F-cycles.   *)
(***************************************************************************)
EXTENDS Integers, Timers

CONSTANTS
    STANDIN_STALE_MAX, RESET_HOLD_MIN, RESET_HOLD_MAX,
    SPEED_STALE_MAX, SPEED_DISCREPANCY_TIME, SHAFT_DOUBT_TIME,
    SPEED_LIMIT_ONSET_MAX, SPEED_OVERLIMIT_TIME, SS1_TIME_MAX

ASSUME SafetyTimesAssumption ==
    /\ \A time \in {STANDIN_STALE_MAX, RESET_HOLD_MIN, RESET_HOLD_MAX,
                    SPEED_STALE_MAX, SPEED_DISCREPANCY_TIME, SHAFT_DOUBT_TIME,
                    SPEED_LIMIT_ONSET_MAX, SPEED_OVERLIMIT_TIME, SS1_TIME_MAX} :
            time \in Nat
    /\ RESET_HOLD_MIN # 0

\* Speeds in mm/s, as in the source.
SPEED_DISCREPANCY_MAX == 31
SPEED_PLAUSIBLE_MAX   == 4000
SPEED_LIMIT_MAX       == 300
SPEED_STANDSTILL_MAX  == 15

Magnitude(speed) == IF speed < 0 THEN -speed ELSE speed

-----------------------------------------------------------------------------
(* The image.  A counter of the stand-in (StandInHeartbeat, SpeedSeqA and   *)
(* SpeedSeqB) is read only for whether it moved since the last scan, so     *)
(* the image says that: Beat, FreshA and FreshB; the memories of the last   *)
(* values, copied at the end of the scan, are the resetting of the three.   *)
BootImage ==
    [EStopCircuitClosed |-> FALSE, ZoneDeviceCircuitClosed |-> FALSE,
     ResetButtonPressed |-> FALSE, Beat |-> FALSE,
     SpeedReadingA |-> 0, SpeedReadingB |-> 0, FreshA |-> FALSE, FreshB |-> FALSE,
     MotionPresent |-> TRUE, WarningFieldClear |-> FALSE]

BootMonitor ==
    [SpeedChainSeen |-> FALSE, SpeedAStaleTimer |-> 0, SpeedBStaleTimer |-> 0,
     SpeedDiscrepancyTimer |-> 0, ShaftDoubtTimer |-> 0,
     SpeedLimitOnsetTimer |-> 0, SpeedOverLimitTimer |-> 0]

BootReset ==
    [ResetSeenOpen |-> FALSE, ResetPressArmed |-> FALSE,
     ResetHoldMinTimer |-> 0, ResetHoldMaxTimer |-> 0,
     ResetHoldValid |-> FALSE, SafetyResetFault |-> FALSE, ResetMemory |-> FALSE]

BootStatics ==
    [HeartbeatSeen |-> FALSE, StandInStaleTimer |-> 0,
     monitor |-> BootMonitor, reset |-> BootReset,
     EStopDemand |-> FALSE, ZoneStopDemand |-> FALSE,
     SpeedMonitorDemand |-> FALSE, Ss1Timer |-> 0, TorqueOffDemand |-> FALSE]

ImageType ==
    [EStopCircuitClosed : BOOLEAN, ZoneDeviceCircuitClosed : BOOLEAN,
     ResetButtonPressed : BOOLEAN, Beat : BOOLEAN,
     SpeedReadingA : Int, SpeedReadingB : Int, FreshA : BOOLEAN, FreshB : BOOLEAN,
     MotionPresent : BOOLEAN, WarningFieldClear : BOOLEAN]

MonitorType ==
    [SpeedChainSeen : BOOLEAN, SpeedAStaleTimer : Nat, SpeedBStaleTimer : Nat,
     SpeedDiscrepancyTimer : Nat, ShaftDoubtTimer : Nat,
     SpeedLimitOnsetTimer : Nat, SpeedOverLimitTimer : Nat]

ResetType ==
    [ResetSeenOpen : BOOLEAN, ResetPressArmed : BOOLEAN,
     ResetHoldMinTimer : Nat, ResetHoldMaxTimer : Nat,
     ResetHoldValid : BOOLEAN, SafetyResetFault : BOOLEAN, ResetMemory : BOOLEAN]

StaticsType ==
    [HeartbeatSeen : BOOLEAN, StandInStaleTimer : Nat,
     monitor : MonitorType, reset : ResetType,
     EStopDemand : BOOLEAN, ZoneStopDemand : BOOLEAN,
     SpeedMonitorDemand : BOOLEAN, Ss1Timer : Nat, TorqueOffDemand : BOOLEAN]

Scanned(img) == [img EXCEPT !.Beat = FALSE, !.FreshA = FALSE, !.FreshB = FALSE]

-----------------------------------------------------------------------------
\* V1-V4: alive is seen at least once and not silent now.
HeartbeatSeen(img, st) == st.HeartbeatSeen \/ img.Beat
StandInStale(img, st)  == Ton(st.StandInStaleTimer, ~img.Beat, STANDIN_STALE_MAX)
StandInValid(img, st)  ==
    HeartbeatSeen(img, st) /\ ~Q(StandInStale(img, st), STANDIN_STALE_MAX)

\* V5-V7: a dead writer reads as open, open and unpressed.
EStopClosedValid(img, st) == img.EStopCircuitClosed /\ StandInValid(img, st)

\* Mutant: what a dead writer has left in the image is believed.
ZoneClosedValidUngated(img, st) == img.ZoneDeviceCircuitClosed

ZoneClosedValid(img, st) == img.ZoneDeviceCircuitClosed /\ StandInValid(img, st)
ResetValid(img, st) == img.ResetButtonPressed /\ StandInValid(img, st)

\* SL1-SL20 on one image: which channel can be believed, and what they say.
ChainSeen(img, mon) == mon.SpeedChainSeen \/ img.FreshA \/ img.FreshB
StaleA(img, mon) == Ton(mon.SpeedAStaleTimer, ~img.FreshA, SPEED_STALE_MAX)
StaleB(img, mon) == Ton(mon.SpeedBStaleTimer, ~img.FreshB, SPEED_STALE_MAX)
ChannelValid(reading, stale, img, st) ==
    /\ StandInValid(img, st) /\ ChainSeen(img, st.monitor)
    /\ ~Q(stale, SPEED_STALE_MAX)
    /\ Magnitude(reading) < SPEED_PLAUSIBLE_MAX
SpeedAValid(img, st) == ChannelValid(img.SpeedReadingA, StaleA(img, st.monitor), img, st)
SpeedBValid(img, st) == ChannelValid(img.SpeedReadingB, StaleB(img, st.monitor), img, st)
BothValid(img, st) == SpeedAValid(img, st) /\ SpeedBValid(img, st)

SpeedStaleNow(img, st) == ChainSeen(img, st.monitor) /\ ~BothValid(img, st)
SpeedDiscrepantNow(img, st) ==
    /\ BothValid(img, st)
    /\ Magnitude(img.SpeedReadingA - img.SpeedReadingB) > SPEED_DISCREPANCY_MAX
SpeedNearZero(img, st) ==
    /\ BothValid(img, st)
    /\ Magnitude(img.SpeedReadingA) < SPEED_STANDSTILL_MAX
    /\ Magnitude(img.SpeedReadingB) < SPEED_STANDSTILL_MAX
\* The one channel whose fail direction is TRUE.
MotionPresentValid(img, st) == img.MotionPresent \/ ~StandInValid(img, st)
ShaftDoubtNow(img, st) == SpeedNearZero(img, st) /\ MotionPresentValid(img, st)
WarningFieldClearValid(img, st) == img.WarningFieldClear /\ StandInValid(img, st)
LimitOnset(img, st) ==
    Ton(st.monitor.SpeedLimitOnsetTimer, ~WarningFieldClearValid(img, st), SPEED_LIMIT_ONSET_MAX)
SpeedOverLimitNow(img, st) ==
    /\ Q(LimitOnset(img, st), SPEED_LIMIT_ONSET_MAX)
    /\ \/ SpeedAValid(img, st) /\ Magnitude(img.SpeedReadingA) > SPEED_LIMIT_MAX
       \/ SpeedBValid(img, st) /\ Magnitude(img.SpeedReadingB) > SPEED_LIMIT_MAX

Monitor(img, st) ==
    LET mon == st.monitor
    IN  [SpeedChainSeen |-> ChainSeen(img, mon),
         SpeedAStaleTimer |-> StaleA(img, mon),
         SpeedBStaleTimer |-> StaleB(img, mon),
         SpeedDiscrepancyTimer |-> Ton(mon.SpeedDiscrepancyTimer,
                                       SpeedDiscrepantNow(img, st), SPEED_DISCREPANCY_TIME),
         ShaftDoubtTimer |-> Ton(mon.ShaftDoubtTimer, ShaftDoubtNow(img, st), SHAFT_DOUBT_TIME),
         SpeedLimitOnsetTimer |-> LimitOnset(img, st),
         SpeedOverLimitTimer |-> Ton(mon.SpeedOverLimitTimer,
                                     SpeedOverLimitNow(img, st), SPEED_OVERLIMIT_TIME)]

\* The live world only: no latch in here, or a reset could never fire.
SpeedCauseGone(img, st) ==
    ~ \/ SpeedStaleNow(img, st)
      \/ SpeedDiscrepantNow(img, st)
      \/ ShaftDoubtNow(img, st)
      \/ SpeedOverLimitNow(img, st)

CauseGone(img, st) ==
    EStopClosedValid(img, st) /\ ZoneClosedValid(img, st) /\ SpeedCauseGone(img, st)

-----------------------------------------------------------------------------
\* Core networks 2 to 9, from the validated device and the live world.
ResetRise(img, st) == ResetValid(img, st) /\ ~st.reset.ResetMemory
ResetSeenOpen(img, st) == st.reset.ResetSeenOpen \/ ~ResetValid(img, st)

ResetPressArmed(img, st) ==
    /\ ResetValid(img, st) /\ CauseGone(img, st)
    /\ \/ st.reset.ResetPressArmed
       \/ ResetRise(img, st) /\ ResetSeenOpen(img, st)

HoldMin(img, st) ==
    Ton(st.reset.ResetHoldMinTimer, ResetPressArmed(img, st), RESET_HOLD_MIN)
HoldMax(img, st) ==
    Ton(st.reset.ResetHoldMaxTimer, ResetValid(img, st), RESET_HOLD_MAX)

\* Mutant: the validity of the hold is not kept into the release.
ResetHoldValidUnlatched(img, st) ==
    /\ ~ResetRise(img, st) /\ ~Q(HoldMax(img, st), RESET_HOLD_MAX) /\ CauseGone(img, st)
    /\ Q(HoldMin(img, st), RESET_HOLD_MIN)

\* Mutant: a press may be as long as it likes.
ResetHoldValidUnbounded(img, st) ==
    /\ ~ResetRise(img, st) /\ CauseGone(img, st)
    /\ (st.reset.ResetHoldValid \/ Q(HoldMin(img, st), RESET_HOLD_MIN))

ResetHoldValid(img, st) ==
    /\ ~ResetRise(img, st) /\ ~Q(HoldMax(img, st), RESET_HOLD_MAX) /\ CauseGone(img, st)
    /\ (st.reset.ResetHoldValid \/ Q(HoldMin(img, st), RESET_HOLD_MIN))

SafetyResetFault(img, st) ==
    /\ ResetValid(img, st)
    /\ \/ st.reset.SafetyResetFault
       \/ Q(HoldMax(img, st), RESET_HOLD_MAX)
       \/ ~ResetSeenOpen(img, st)

ResetNetworks(img, st) ==
    [ResetSeenOpen |-> ResetSeenOpen(img, st),
     ResetPressArmed |-> ResetPressArmed(img, st),
     ResetHoldMinTimer |-> HoldMin(img, st),
     ResetHoldMaxTimer |-> HoldMax(img, st),
     ResetHoldValid |-> ResetHoldValid(img, st),
     SafetyResetFault |-> SafetyResetFault(img, st),
     ResetMemory |-> ResetValid(img, st)]

\* N10: one cycle, on the release of an armed and validly held press.
ResetPulse(img, st) ==
    /\ ~ResetValid(img, st) /\ st.reset.ResetMemory
    /\ ResetHoldValid(img, st) /\ CauseGone(img, st)

\* The three latches are set-dominant: a cause in the cycle of the pulse wins.
Latch(demand, cause, img, st) == cause \/ (demand /\ ~ResetPulse(img, st))
EStopDemand(img, st)    == Latch(st.EStopDemand, ~EStopClosedValid(img, st), img, st)
ZoneStopDemand(img, st) == Latch(st.ZoneStopDemand, ~ZoneClosedValid(img, st), img, st)
SpeedMonitorDemand(img, st) ==
    LET mon == Monitor(img, st)
    IN  Latch(st.SpeedMonitorDemand,
              \/ SpeedStaleNow(img, st)
              \/ Q(mon.SpeedDiscrepancyTimer, SPEED_DISCREPANCY_TIME)
              \/ Q(mon.ShaftDoubtTimer, SHAFT_DOUBT_TIME)
              \/ Q(mon.SpeedOverLimitTimer, SPEED_OVERLIMIT_TIME),
              img, st)

\* Q1-Q4: torque goes off at standstill or when the time is up, and comes
\* back with the end of the demand only.
Ss1Demand(img, st) == ZoneStopDemand(img, st) \/ SpeedMonitorDemand(img, st)
Ss1(img, st) == Ton(st.Ss1Timer, Ss1Demand(img, st), SS1_TIME_MAX)
VehicleStandstillNow(img, st) == SpeedNearZero(img, st) /\ ~MotionPresentValid(img, st)
TorqueOffDemand(img, st) ==
    /\ Ss1Demand(img, st)
    /\ \/ st.TorqueOffDemand
       \/ VehicleStandstillNow(img, st)
       \/ Q(Ss1(img, st), SS1_TIME_MAX)

FScan(img, st) ==
    [HeartbeatSeen |-> HeartbeatSeen(img, st),
     StandInStaleTimer |-> StandInStale(img, st),
     monitor |-> Monitor(img, st),
     reset |-> ResetNetworks(img, st),
     EStopDemand |-> EStopDemand(img, st),
     ZoneStopDemand |-> ZoneStopDemand(img, st),
     SpeedMonitorDemand |-> SpeedMonitorDemand(img, st),
     Ss1Timer |-> Ss1(img, st),
     TorqueOffDemand |-> TorqueOffDemand(img, st)]

SafetyResetRequired(st) == st.EStopDemand \/ st.ZoneStopDemand \/ st.SpeedMonitorDemand
=============================================================================
