---------------------------- MODULE StopsProofs -----------------------------
(***************************************************************************)
(* Theorems about the three parts of MCStops, each for every value of its  *)
(* constants: StandIn, Envelope and Escalation.                            *)
(***************************************************************************)
EXTENDS MCStops, NaturalsInduction, WellFoundedInduction, TLAPS

-----------------------------------------------------------------------------
(***************************************************************************)
(* Theorems about StandIn: the monitored reset and the silence of the      *)
(* writer, for every window of the reset, every delay, every set of        *)
(* clients, readings and lines, and any number of starts.  What the lines  *)
(* of a command file make of the image is a fold over them; nothing here   *)
(* needs to know it, for the memories of the program follow what a scan    *)
(* finds in the image, whoever put it there.                               *)
(***************************************************************************)

(* The invariant. *)

\* The history is a record of counters; what a fold may have left in it is
\* the voice.
PastType ==
    past \in [pressed : Nat, released : Nat, gone : Nat, silent : Nat, open : Nat,
              seenOpen : BOOLEAN, voice : {past.voice}]
FileType == file \in [lines : {file.lines}, read : {file.read}, starts : Nat]

\* The memories of the reset networks and the scans they stand for: since when
\* the device has been held, and since when every cause has been gone.
Press == st.reset.ResetHoldMaxTimer
MemoriesTrue ==
    /\ Press = past.pressed
    /\ st.reset.ResetMemory <=> past.pressed > 0
    /\ st.reset.ResetSeenOpen
    /\ st.reset.ResetHoldMinTimer \in Nat
\* A press is armed only over causes that were gone from its rise on, and
\* the minimum time runs with it.
ArmedIsGone ==
    /\ st.reset.ResetPressArmed => past.pressed > 0 /\ past.gone >= past.pressed
    /\ st.reset.ResetHoldMinTimer > 0 => st.reset.ResetPressArmed
    /\ st.reset.ResetHoldMinTimer <= past.pressed \/ past.pressed > RESET_HOLD_MAX
GoneIsArmed ==
    past.pressed > 0 /\ past.pressed <= RESET_HOLD_MAX /\ past.gone >= past.pressed =>
        /\ st.reset.ResetPressArmed
        /\ \/ st.reset.ResetHoldMinTimer >= past.pressed
           \/ st.reset.ResetHoldMinTimer > RESET_HOLD_MIN
\* A hold is valid, while it lasts, exactly inside the window.
InsideWindow ==
    /\ past.pressed > RESET_HOLD_MIN /\ past.pressed <= RESET_HOLD_MAX
    /\ past.gone >= past.pressed
ValidIsInside ==
    /\ st.reset.ResetHoldValid /\ past.pressed > 0 => InsideWindow
    /\ InsideWindow => st.reset.ResetHoldValid

\* The two timers run at least as long as the silence and the open circuit.
TimersCover ==
    /\ st.StandInStaleTimer \in Nat /\ past.silent <= st.StandInStaleTimer
    /\ st.Ss1Timer \in Nat /\ past.open <= st.Ss1Timer

StandInInv ==
    /\ PastType /\ FileType
    /\ MemoriesTrue /\ ArmedIsGone /\ GoneIsArmed /\ ValidIsInside /\ TimersCover
    /\ HeldPressClears /\ SilenceStopsTorque

-----------------------------------------------------------------------------
(* The program, one scan. *)

LEMMA StandInTimes ==
    /\ STANDIN_STALE_MAX \in Nat /\ RESET_HOLD_MIN \in Nat /\ RESET_HOLD_MIN > 0
    /\ RESET_HOLD_MAX \in Nat /\ SPEED_DISCREPANCY_TIME \in Nat /\ SHAFT_DOUBT_TIME \in Nat
    /\ SPEED_OVERLIMIT_TIME \in Nat /\ SS1_TIME_MAX \in Nat
BY SafetyTimesAssumption

LEMMA TonType == ASSUME NEW calls \in Nat, NEW input, NEW pt \in Nat
                 PROVE  Ton(calls, input, pt) \in Nat
BY DEF Ton

LEMMA CountType == ASSUME NEW n \in Nat, NEW holds, NEW cap \in Nat
                   PROVE  Count(n, holds, cap) \in Nat
BY DEF Count

\* What the history calls the causes is what the program calls them.
LEMMA GoneIsCauseGone == AllGone <=> CauseGone(img, st)
BY DEF AllGone, CauseGone, SpeedCauseGone

\* The parts of a scan that the invariant speaks of.
LEMMA ScanParts ==
    ASSUME PastType, SafetyScan
    PROVE  /\ st'.reset = ResetNetworks(img, st)
           /\ st'.StandInStaleTimer = StandInStale(img, st) /\ st'.Ss1Timer = Ss1(img, st)
           /\ st'.EStopDemand = EStopDemand(img, st)
           /\ st'.ZoneStopDemand = ZoneStopDemand(img, st)
           /\ st'.SpeedMonitorDemand = SpeedMonitorDemand(img, st)
           /\ st'.TorqueOffDemand = TorqueOffDemand(img, st)
           /\ past'.pressed = Count(past.pressed, ResetValid(img, st), RESET_HOLD_MAX + 1)
           /\ past'.released = IF ResetValid(img, st) THEN 0 ELSE past.pressed
           /\ past'.gone = Count(past.gone, AllGone, RESET_HOLD_MAX + 2)
           /\ past'.silent = Count(past.silent, ~img.Beat, STANDIN_STALE_MAX + 1)
           /\ past'.open = Count(past.open, ~ZoneClosedValid(img, st), SS1_TIME_MAX + 1)
           /\ UNCHANGED file
<1>1. st' = FScan(img, st) /\ past' = Remember /\ UNCHANGED file
  BY DEF SafetyScan
<1>2. QED
  BY <1>1 DEF FScan, Remember, PastType

\* The same for the reset networks, each as the formula it is.
LEMMA ResetParts ==
    ASSUME PastType, SafetyScan
    PROVE  /\ st'.reset.ResetMemory <=> ResetValid(img, st)
           /\ st'.reset.ResetSeenOpen <=> ResetSeenOpen(img, st)
           /\ st'.reset.ResetPressArmed <=> ResetPressArmed(img, st)
           /\ st'.reset.ResetHoldValid <=> ResetHoldValid(img, st)
           /\ st'.reset.ResetHoldMinTimer = HoldMin(img, st)
           /\ st'.reset.ResetHoldMaxTimer = HoldMax(img, st)
BY ScanParts DEF ResetNetworks

LEMMA ScanKeepsType ==
    ASSUME PastType, FileType, SafetyScan PROVE PastType' /\ FileType'
<1>1. past' = Remember /\ UNCHANGED file
  BY DEF SafetyScan
<1>2. /\ Count(past.pressed, ResetValid(img, st), RESET_HOLD_MAX + 1) \in Nat
      /\ Count(past.gone, AllGone, RESET_HOLD_MAX + 2) \in Nat
      /\ Count(past.silent, ~img.Beat, STANDIN_STALE_MAX + 1) \in Nat
      /\ Count(past.open, ~ZoneClosedValid(img, st), SS1_TIME_MAX + 1) \in Nat
  BY StandInTimes, CountType DEF PastType
<1>3. past'.voice = past.voice
  BY <1>1 DEF Remember, PastType
<1>4. PastType'
  <2> DEFINE pressed == Count(past.pressed, ResetValid(img, st), RESET_HOLD_MAX + 1)
             gone    == Count(past.gone, AllGone, RESET_HOLD_MAX + 2)
             silent  == Count(past.silent, ~img.Beat, STANDIN_STALE_MAX + 1)
             open    == Count(past.open, ~ZoneClosedValid(img, st), SS1_TIME_MAX + 1)
             released == IF ResetValid(img, st) THEN 0 ELSE past.pressed
             seen    == StandInValid(img, st) /\ ~img.ResetButtonPressed
  <2>1. past' = [past EXCEPT !.pressed = pressed, !.released = released, !.gone = gone,
                             !.silent = silent, !.open = open, !.seenOpen = @ \/ seen]
    BY <1>1 DEF Remember
  <2>2. pressed \in Nat /\ gone \in Nat /\ silent \in Nat /\ open \in Nat /\ released \in Nat
    BY <1>2 DEF PastType
  <2> HIDE DEF pressed, gone, silent, open, released, seen
  <2>3. QED
    BY <2>1, <2>2, <1>3 DEF PastType
<1>5. QED
  BY <1>1, <1>4 DEF FileType

LEMMA ScanKeepsMemories ==
    ASSUME StandInInv, SafetyScan
    PROVE  MemoriesTrue' /\ ArmedIsGone' /\ GoneIsArmed'
<1> DEFINE valid == ResetValid(img, st)
           armed == ResetPressArmed(img, st)
           gone  == CauseGone(img, st)
<1>1. /\ past.pressed \in Nat /\ past.gone \in Nat /\ st.reset.ResetHoldMinTimer \in Nat
      /\ past'.pressed = IF ~valid THEN 0
                         ELSE IF past.pressed < RESET_HOLD_MAX + 1 THEN past.pressed + 1
                         ELSE past.pressed
      /\ past'.gone = IF ~gone THEN 0
                      ELSE IF past.gone < RESET_HOLD_MAX + 2 THEN past.gone + 1 ELSE past.gone
  BY ScanParts, GoneIsCauseGone DEF StandInInv, PastType, MemoriesTrue, Count
<1>2. /\ Press' = IF ~valid THEN 0
                  ELSE IF past.pressed > RESET_HOLD_MAX THEN past.pressed ELSE past.pressed + 1
      /\ st'.reset.ResetHoldMinTimer =
            IF ~armed THEN 0
            ELSE IF st.reset.ResetHoldMinTimer > RESET_HOLD_MIN THEN st.reset.ResetHoldMinTimer
            ELSE st.reset.ResetHoldMinTimer + 1
  BY ResetParts DEF StandInInv, Press, MemoriesTrue, HoldMax, HoldMin, Ton
<1>3. /\ st'.reset.ResetMemory <=> valid
      /\ st'.reset.ResetSeenOpen
      /\ st'.reset.ResetPressArmed <=> armed
      /\ armed <=> valid /\ gone /\ (st.reset.ResetPressArmed \/ past.pressed = 0)
  BY ResetParts, <1>1 DEF StandInInv, MemoriesTrue, ArmedIsGone, ResetSeenOpen, ResetPressArmed, ResetRise
<1> HIDE DEF valid, armed, gone
<1>4. MemoriesTrue'
  BY <1>1, <1>2, <1>3, StandInTimes DEF MemoriesTrue, Press
<1>5. ArmedIsGone'
  BY <1>1, <1>2, <1>3, StandInTimes DEF StandInInv, ArmedIsGone
<1>6. GoneIsArmed'
  BY <1>1, <1>2, <1>3, StandInTimes DEF StandInInv, GoneIsArmed
<1>7. QED
  BY <1>4, <1>5, <1>6

LEMMA ScanKeepsHold ==
    ASSUME StandInInv, SafetyScan, MemoriesTrue', ArmedIsGone', GoneIsArmed'
    PROVE  ValidIsInside'
<1> DEFINE valid == ResetValid(img, st)
           gone  == CauseGone(img, st)
           long  == st'.reset.ResetHoldMinTimer > RESET_HOLD_MIN
<1>1. /\ past.pressed \in Nat /\ past.gone \in Nat /\ past'.pressed \in Nat /\ past'.gone \in Nat
      /\ past'.pressed = IF ~valid THEN 0
                         ELSE IF past.pressed < RESET_HOLD_MAX + 1 THEN past.pressed + 1
                         ELSE past.pressed
      /\ past'.gone = IF ~gone THEN 0
                      ELSE IF past.gone < RESET_HOLD_MAX + 2 THEN past.gone + 1 ELSE past.gone
  BY ScanParts, ScanKeepsType, GoneIsCauseGone DEF StandInInv, PastType, Count
<1>2. st'.reset.ResetHoldValid <=>
        /\ past.pressed > 0 \/ ~valid
        /\ ~(st'.reset.ResetHoldMaxTimer > RESET_HOLD_MAX)
        /\ gone /\ (st.reset.ResetHoldValid \/ long)
  <2>1. /\ st'.reset.ResetHoldValid <=> ResetHoldValid(img, st)
        /\ st'.reset.ResetHoldMinTimer = HoldMin(img, st)
        /\ st'.reset.ResetHoldMaxTimer = HoldMax(img, st)
    BY ResetParts DEF StandInInv
  <2>2. st.reset.ResetMemory <=> past.pressed > 0
    BY DEF StandInInv, MemoriesTrue
  <2>3. QED
    BY <1>1, <2>1, <2>2 DEF ResetHoldValid, ResetRise, Q
<1>3. /\ st'.reset.ResetHoldMaxTimer = past'.pressed
      /\ st'.reset.ResetHoldMinTimer \in Nat
  BY DEF MemoriesTrue, Press
<1> HIDE DEF valid, gone
<1>4. ASSUME st'.reset.ResetHoldValid, past'.pressed > 0 PROVE InsideWindow'
  <2>1. valid /\ gone /\ past.pressed > 0 /\ past'.pressed <= RESET_HOLD_MAX
    BY <1>1, <1>2, <1>3, <1>4, StandInTimes
  <2>2. past'.pressed = past.pressed + 1 /\ past'.gone > 0
    BY <1>1, <2>1, StandInTimes
  <2>3. CASE long
    BY <1>1, <1>3, <2>1, <2>3, StandInTimes DEF ArmedIsGone, InsideWindow
  <2>4. CASE st.reset.ResetHoldValid
    <3>1. past.pressed > RESET_HOLD_MIN /\ past.gone >= past.pressed
      BY <2>1, <2>4 DEF StandInInv, ValidIsInside, InsideWindow
    <3>2. QED
      BY <1>1, <2>1, <2>2, <3>1, StandInTimes DEF InsideWindow
  <2>5. QED
    BY <1>2, <1>4, <2>3, <2>4
<1>5. ASSUME InsideWindow' PROVE st'.reset.ResetHoldValid
  <2>1. /\ past'.pressed > RESET_HOLD_MIN /\ past'.pressed <= RESET_HOLD_MAX
        /\ past'.gone >= past'.pressed
    BY <1>5 DEF InsideWindow
  <2>2. valid /\ gone /\ past.pressed > 0
    BY <1>1, <2>1, StandInTimes
  <2>3. long
    BY <1>1, <1>3, <2>1, StandInTimes DEF GoneIsArmed
  <2>4. QED
    BY <1>1, <1>2, <1>3, <2>1, <2>2, <2>3, StandInTimes
<1>6. QED
  BY <1>4, <1>5 DEF ValidIsInside

\* The release of a press inside the window is the pulse, and nothing else is.
LEMMA PulseIsRelease ==
    ASSUME StandInInv
    PROVE  ResetPulse(img, st) <=>
                ~ResetValid(img, st) /\ InsideWindow /\ CauseGone(img, st)
<1>1. st.reset.ResetMemory <=> past.pressed > 0
  BY DEF StandInInv, MemoriesTrue
<1>2. past.pressed > 0 => (st.reset.ResetHoldValid <=> InsideWindow)
  BY DEF StandInInv, ValidIsInside
<1>3. InsideWindow => past.pressed > 0
  BY StandInTimes DEF InsideWindow, StandInInv, PastType
<1>4. ~ResetValid(img, st) => ~Q(HoldMax(img, st), RESET_HOLD_MAX) /\ ~ResetPressArmed(img, st)
                              /\ ~Q(HoldMin(img, st), RESET_HOLD_MIN)
  BY StandInTimes DEF Q, HoldMax, HoldMin, Ton, ResetPressArmed
<1>5. QED
  BY <1>1, <1>2, <1>3, <1>4 DEF ResetPulse, ResetHoldValid, ResetRise

LEMMA ScanKeepsClearing == ASSUME StandInInv, SafetyScan PROVE HeldPressClears'
<1> SUFFICES ASSUME past'.released > RESET_HOLD_MIN, past'.released <= RESET_HOLD_MAX,
                    past'.gone > past'.released
             PROVE  ~SafetyResetRequired(st')
  BY DEF HeldPressClears
<1>1. past.pressed \in Nat /\ past.gone \in Nat
  BY DEF StandInInv, PastType
<1>2. ~ResetValid(img, st) /\ past'.released = past.pressed
  BY ScanParts, StandInTimes DEF StandInInv
<1>3. CauseGone(img, st) /\ past.gone >= past.pressed
  BY ScanParts, GoneIsCauseGone, <1>1, <1>2, StandInTimes DEF StandInInv, Count
<1>4. ResetPulse(img, st)
  BY <1>2, <1>3, PulseIsRelease DEF InsideWindow
<1>5. ~EStopDemand(img, st) /\ ~ZoneStopDemand(img, st)
  BY <1>3, <1>4 DEF EStopDemand, ZoneStopDemand, Latch, CauseGone
<1>6. ~SpeedMonitorDemand(img, st)
  <2>1. ~SpeedStaleNow(img, st) /\ ~SpeedDiscrepantNow(img, st) /\ ~ShaftDoubtNow(img, st)
        /\ ~SpeedOverLimitNow(img, st)
    BY <1>3 DEF CauseGone, SpeedCauseGone
  <2>2. /\ Monitor(img, st).SpeedDiscrepancyTimer = 0 /\ Monitor(img, st).ShaftDoubtTimer = 0
        /\ Monitor(img, st).SpeedOverLimitTimer = 0
    BY <2>1 DEF Monitor, Ton
  <2>3. QED
    BY <1>4, <2>1, <2>2, StandInTimes DEF SpeedMonitorDemand, Latch, Q
<1>7. QED
  BY <1>5, <1>6, ScanParts DEF SafetyResetRequired, StandInInv

LEMMA ScanKeepsSilence ==
    ASSUME StandInInv, SafetyScan PROVE TimersCover' /\ SilenceStopsTorque'
<1>1. /\ past.silent \in Nat /\ past.open \in Nat
      /\ st.StandInStaleTimer \in Nat /\ past.silent <= st.StandInStaleTimer
      /\ st.Ss1Timer \in Nat /\ past.open <= st.Ss1Timer
  BY DEF StandInInv, PastType, TimersCover
<1>2. CASE TRUE
  <2> DEFINE mute == ~img.Beat
             off  == ~ZoneClosedValid(img, st)
             stop == Ss1Demand(img, st)
  <2>1. /\ past'.silent = Count(past.silent, mute, STANDIN_STALE_MAX + 1)
        /\ past'.open = Count(past.open, off, SS1_TIME_MAX + 1)
        /\ st'.StandInStaleTimer = Ton(st.StandInStaleTimer, mute, STANDIN_STALE_MAX)
        /\ st'.Ss1Timer = Ton(st.Ss1Timer, stop, SS1_TIME_MAX)
    BY ScanParts DEF StandInInv, StandInStale, Ss1
  <2>2. off => stop
    BY DEF Ss1Demand, ZoneStopDemand, Latch
  <2>3. st'.StandInStaleTimer > STANDIN_STALE_MAX => ~StandInValid(img, st)
    BY ScanParts DEF StandInInv, StandInValid, Q
  <2>4. ~StandInValid(img, st) => st'.EStopDemand /\ st'.ZoneStopDemand
    BY ScanParts DEF StandInInv, EStopDemand, ZoneStopDemand, Latch, EStopClosedValid, ZoneClosedValid
  <2>5. st'.Ss1Timer > SS1_TIME_MAX /\ stop => st'.TorqueOffDemand
    BY ScanParts DEF StandInInv, TorqueOffDemand, Q
  <2> HIDE DEF mute, off, stop
  <2>6. TimersCover'
    BY <1>1, <2>1, <2>2, StandInTimes DEF TimersCover, Count, Ton
  <2>7. past'.silent > STANDIN_STALE_MAX => st'.StandInStaleTimer > STANDIN_STALE_MAX
    BY <1>1, <2>1, StandInTimes DEF Count, Ton
  <2>8. past'.open > SS1_TIME_MAX => st'.Ss1Timer > SS1_TIME_MAX /\ stop
    BY <1>1, <2>1, <2>2, StandInTimes DEF Count, Ton
  <2>9. QED
    BY <2>3, <2>4, <2>5, <2>6, <2>7, <2>8 DEF SilenceStopsTorque
<1>3. QED
  BY <1>2

LEMMA ScanStep == StandInInv /\ SafetyScan => StandInInv'
<1> SUFFICES ASSUME StandInInv, SafetyScan PROVE StandInInv'
  OBVIOUS
<1>1. PastType /\ FileType
  BY DEF StandInInv
<1>2. QED
  BY <1>1, ScanKeepsType, ScanKeepsMemories, ScanKeepsHold, ScanKeepsClearing, ScanKeepsSilence
     DEF StandInInv

-----------------------------------------------------------------------------
(* A start. *)

\* The first scan of a boot finds every circuit open and nobody at the device.
LEMMA BootScan ==
    LET first == FScan(BootImage, BootStatics)
    IN  /\ ~first.reset.ResetMemory /\ first.reset.ResetSeenOpen
        /\ ~first.reset.ResetPressArmed /\ ~first.reset.ResetHoldValid
        /\ first.reset.ResetHoldMinTimer = 0 /\ first.reset.ResetHoldMaxTimer = 0
        /\ first.StandInStaleTimer \in Nat /\ first.Ss1Timer \in Nat
<1> DEFINE first == FScan(BootImage, BootStatics)
<1>1. /\ first.reset = ResetNetworks(BootImage, BootStatics)
      /\ first.StandInStaleTimer = StandInStale(BootImage, BootStatics)
      /\ first.Ss1Timer = Ss1(BootImage, BootStatics)
  BY DEF FScan
<1>2. ~ResetValid(BootImage, BootStatics) /\ ~CauseGone(BootImage, BootStatics)
  BY DEF ResetValid, CauseGone, EStopClosedValid, BootImage
<1>3. /\ first.StandInStaleTimer \in Nat /\ first.Ss1Timer \in Nat
  BY <1>1, StandInTimes, TonType DEF StandInStale, Ss1, BootStatics
<1>4. ~ResetPressArmed(BootImage, BootStatics) /\ ~ResetHoldValid(BootImage, BootStatics)
      /\ ResetSeenOpen(BootImage, BootStatics)
      /\ HoldMin(BootImage, BootStatics) = 0 /\ HoldMax(BootImage, BootStatics) = 0
  BY <1>2 DEF ResetPressArmed, ResetHoldValid, ResetSeenOpen, HoldMin, HoldMax, Ton
<1>5. QED
  BY <1>1, <1>2, <1>3, <1>4 DEF ResetNetworks

LEMMA BootInv ==
    Boot(img, st, link, pulse, turn, past) /\ FileType => StandInInv
<1> SUFFICES ASSUME Boot(img, st, link, pulse, turn, past), FileType PROVE StandInInv
  OBVIOUS
<1>1. st = FScan(BootImage, BootStatics) /\ past = BootPast
  BY DEF Boot
<1>2. /\ past.pressed = 0 /\ past.released = 0 /\ past.gone = 0 /\ past.silent = 0
      /\ past.open = 0 /\ PastType
  BY <1>1 DEF BootPast, PastType
<1>3. MemoriesTrue /\ ArmedIsGone /\ GoneIsArmed /\ ValidIsInside
  BY <1>1, <1>2, BootScan, StandInTimes
     DEF MemoriesTrue, Press, ArmedIsGone, GoneIsArmed, ValidIsInside, InsideWindow
<1>4. TimersCover /\ HeldPressClears /\ SilenceStopsTorque
  BY <1>1, <1>2, BootScan, StandInTimes DEF TimersCover, HeldPressClears, SilenceStopsTorque
<1>5. QED
  BY <1>2, <1>3, <1>4 DEF StandInInv

LEMMA StandInStarts == StandInInit => StandInInv
<1> SUFFICES ASSUME StandInInit PROVE StandInInv
  OBVIOUS
<1>1. FileType
  BY StandInAssumption DEF StandInInit, FileType
<1>2. QED
  BY <1>1, BootInv DEF StandInInit

\* So it is after a start that comes later.
LEMMA BootAgain == Boot(img', st', link', pulse', turn', past') /\ FileType' => StandInInv'
<1>1. (Boot(img, st, link, pulse, turn, past) /\ FileType)' => StandInInv'
  BY BootInv, PTL
<1>2. Boot(img', st', link', pulse', turn', past') =>
            Boot(img, st, link, pulse, turn, past)'
  BY DEF Boot
<1>3. QED
  BY <1>1, <1>2

-----------------------------------------------------------------------------
(* Everything else. *)

\* Only a scan and a start change the statics and the counters.
LEMMA OutsideStep ==
    ASSUME StandInInv, UNCHANGED st, NEW voice,
           past' = [past EXCEPT !.voice = voice] \/ UNCHANGED past, FileType'
    PROVE  StandInInv'
<1>1. /\ past'.pressed = past.pressed /\ past'.released = past.released
      /\ past'.gone = past.gone /\ past'.silent = past.silent /\ past'.open = past.open
      /\ PastType'
  BY DEF StandInInv, PastType
<1>2. MemoriesTrue' /\ ArmedIsGone' /\ GoneIsArmed' /\ ValidIsInside'
  BY <1>1 DEF StandInInv, MemoriesTrue, Press, ArmedIsGone, GoneIsArmed, ValidIsInside,
              InsideWindow
<1>3. TimersCover' /\ HeldPressClears' /\ SilenceStopsTorque'
  BY <1>1, SMTT(40) DEF StandInInv, TimersCover, HeldPressClears, SilenceStopsTorque
<1>4. QED
  BY <1>1, <1>2, <1>3 DEF StandInInv

\* The steps that leave the history alone but for its voice.
Outside ==
    /\ UNCHANGED st
    /\ \/ UNCHANGED past
       \/ \E voice : past' = [past EXCEPT !.voice = voice]
    /\ \/ UNCHANGED file
       \/ \E lines : file' = [file EXCEPT !.lines = lines]
       \/ \E lines, read : file' = [file EXCEPT !.read = read, !.lines = lines]

LEMMA WhatStepsDo ==
    [StandInNext]_standInVars => SafetyScan \/ ProcessStarts \/ Outside
<1> SUFFICES ASSUME [StandInNext]_standInVars, ~SafetyScan, ~ProcessStarts PROVE Outside
  OBVIOUS
<1> USE DEF Outside
<1>1. ASSUME NEW what, Console(what) PROVE Outside
  BY <1>1 DEF Console, Settle
<1>2. ASSUME NEW what, AppendLine(what) PROVE Outside
  BY <1>2 DEF AppendLine
<1>3. ASSUME NEW c, FieldConnect(c) PROVE Outside
  BY <1>3 DEF FieldConnect
<1>4. ASSUME NEW c, FieldCloses(c) PROVE Outside
  BY <1>4 DEF FieldCloses
<1>5. ASSUME NEW c, NEW line, FieldSays(c, line) PROVE Outside
  BY <1>5 DEF FieldSays
<1>6. ASSUME NEW late, StandInCycle(late) PROVE Outside
  BY <1>6 DEF StandInCycle, Settle
<1>7. CASE SpeedConnect \/ SpeedCloses \/ WriterSilent \/ UNCHANGED standInVars
  BY <1>7 DEF SpeedConnect, SpeedCloses, WriterSilent, standInVars
<1>8. ASSUME NEW channel, NEW reading, SpeedSays(channel, reading) PROVE Outside
  BY <1>8 DEF SpeedSays
<1>9. ASSUME NEW present, MotionSays(present) PROVE Outside
  BY <1>9 DEF MotionSays
<1>10. QED
  BY <1>1, <1>2, <1>3, <1>4, <1>5, <1>6, <1>7, <1>8, <1>9 DEF StandInNext

LEMMA OutsideFile == FileType /\ Outside => FileType' /\ file'.starts = file.starts
BY DEF Outside, FileType

LEMMA StandInGoesOn == StandInInv /\ [StandInNext]_standInVars => StandInInv'
<1> SUFFICES ASSUME StandInInv, [StandInNext]_standInVars PROVE StandInInv'
  OBVIOUS
<1>1. CASE SafetyScan
  BY <1>1, ScanStep
<1>2. CASE ProcessStarts
  <2>1. Boot(img', st', link', pulse', turn', past')
    BY <1>2 DEF ProcessStarts
  <2>2. file' = [file EXCEPT !.read = 0, !.starts = @ - 1] /\ file.starts > 0
    BY <1>2 DEF ProcessStarts
  <2>3. FileType'
    <3>1. file.starts \in Nat /\ file.starts - 1 \in Nat
      BY <2>2 DEF StandInInv, FileType
    <3> DEFINE left == file.starts - 1
    <3>2. file' = [file EXCEPT !.read = 0, !.starts = left] /\ left \in Nat
      BY <2>2, <3>1
    <3> HIDE DEF left
    <3>3. QED
      BY <3>2 DEF StandInInv, FileType
  <2>4. QED
    BY <2>1, <2>3, BootAgain
<1>3. CASE Outside
  <2>1. FileType'
    BY <1>3, OutsideFile DEF StandInInv
  <2>2. PICK voice : past' = [past EXCEPT !.voice = voice] \/ UNCHANGED past
    BY <1>3 DEF Outside
  <2>3. UNCHANGED st
    BY <1>3 DEF Outside
  <2>4. QED
    BY <2>1, <2>2, <2>3, OutsideStep
<1>4. QED
  BY <1>1, <1>2, <1>3, WhatStepsDo

LEMMA StandInAlways == StandInSpec => []StandInInv
<1>1. QED
  BY StandInStarts, StandInGoesOn, PTL DEF StandInSpec

-----------------------------------------------------------------------------
(* What follows from it. *)

\* A silent writer reads as both circuits open, and an open zone circuit takes
\* the torque off in the time of SS1 (f_program.py, V1-V6, N11-N14, Q1-Q4).
THEOREM SilenceTakesTorqueOff == StandInSpec => []SilenceStopsTorque
<1>1. StandInInv => SilenceStopsTorque
  BY DEF StandInInv
<1>2. QED
  BY <1>1, StandInAlways, PTL

\* A press inside the window, with every cause gone for as long, clears every
\* demand with its release (N2-N10).
THEOREM AHeldPressClears == StandInSpec => []HeldPressClears
<1>1. StandInInv => HeldPressClears
  BY DEF StandInInv
<1>2. QED
  BY <1>1, StandInAlways, PTL

\* SF-08: and nothing else ever lets a demand go.
THEOREM OnlyAHeldPressClears == StandInSpec => ClearedByAHeldPress
<1> DEFINE LetGo == ~(Demands(st) \subseteq Demands(st')) /\ file'.starts = file.starts
           Window == /\ past.pressed > RESET_HOLD_MIN
                     /\ past.pressed <= RESET_HOLD_MAX
                     /\ past'.pressed = 0
                     /\ past'.gone > past.pressed
<1>1. ASSUME StandInInv, [StandInNext]_standInVars, LetGo PROVE Window
  <2>1. CASE SafetyScan
    <3>1. ResetPulse(img, st)
      <4>1. PICK d \in {"EStopDemand", "ZoneStopDemand", "SpeedMonitorDemand"} : st[d] /\ ~st'[d]
        BY <1>1 DEF Demands
      <4>2. QED
        BY <1>1, <2>1, <4>1, ScanParts
           DEF StandInInv, EStopDemand, ZoneStopDemand, SpeedMonitorDemand, Latch
    <3>2. ~ResetValid(img, st) /\ InsideWindow /\ CauseGone(img, st)
      BY <1>1, <3>1, PulseIsRelease
    <3>3. /\ past.pressed \in Nat /\ past.gone \in Nat
          /\ past'.pressed = 0
          /\ past'.gone = IF past.gone < RESET_HOLD_MAX + 2 THEN past.gone + 1 ELSE past.gone
      BY <1>1, <2>1, <3>2, ScanParts, GoneIsCauseGone DEF StandInInv, PastType, Count
    <3>4. QED
      BY <3>2, <3>3, StandInTimes DEF InsideWindow
  <2>2. CASE ProcessStarts
    BY <1>1, <2>2 DEF StandInInv, FileType, ProcessStarts
  <2>3. CASE Outside
    BY <1>1, <2>3 DEF Outside, Demands
  <2>4. QED
    BY <1>1, <2>1, <2>2, <2>3, WhatStepsDo
<1>2. StandInInv /\ [StandInNext]_standInVars => [LetGo => Window]_<<st, past, file>>
  BY <1>1
<1>3. QED
  BY <1>2, StandInAlways, PTL DEF StandInSpec, ClearedByAHeldPress

-----------------------------------------------------------------------------
(***************************************************************************)
(* The types of the stand-in.  What a command file leaves in the image is  *)
(* a fold over its lines, and a fold of steps that stay in a set stays in  *)
(* it.                                                                     *)
(***************************************************************************)

\* A set of naturals that is not empty has a least element.
LEMMA LeastNatural ==
    ASSUME NEW S \in SUBSET Nat, NEW x \in S
    PROVE  \E m \in S : \A y \in S : m <= y
<1> DEFINE less == {pair \in Nat \X Nat : pair[1] < pair[2]}
<1>1. \E m \in S : \A y \in S : ~ (<<y, m>> \in less)
  <2>1. IsWellFoundedOn(less, Nat)
    BY NatLessThanWellFounded DEF OpToRel
  <2> HIDE DEF less
  <2>2. QED
    BY <2>1, WFMin
<1>2. ASSUME NEW m \in S, NEW y \in S, ~(<<y, m>> \in less)
      PROVE  m <= y
  <2>1. m \in Nat /\ y \in Nat
    OBVIOUS
  <2>2. ~(y < m)
    BY <1>2, <2>1
  <2>3. QED
    BY <2>1, <2>2
<1>3. QED
  BY <1>1, <1>2

\* What ObeyAll(now, q) says of every set of the first n lines.
Folding(f, now, q, n) ==
    f = [s \in SUBSET (1 .. n) |->
            IF s = {} THEN now ELSE Obey(f[s \ {Max(s)}], q[Max(s)])]

\* There is such a function, for every number of lines.
LEMMA FoldExists ==
    ASSUME NEW now, NEW q, NEW n \in Nat
    PROVE  \E f : Folding(f, now, q, n)
<1> DEFINE bad == {m \in Nat : ~ \E f : Folding(f, now, q, m)}
<1>1. SUFFICES ASSUME n \in bad PROVE FALSE
  OBVIOUS
<1>2. PICK m \in bad : \A k \in bad : m <= k
  <2> HIDE DEF bad
  <2>1. bad \in SUBSET Nat
    BY DEF bad
  <2>2. QED
    BY <1>1, <2>1, LeastNatural
<1>3. m \in Nat /\ ~ \E f : Folding(f, now, q, m)
  BY <1>2
<1>4. CASE m = 0
  <2>1. 1 .. 0 = {}
    OBVIOUS
  <2>2. Folding([s \in SUBSET {} |-> now], now, q, 0)
    BY <2>1 DEF Folding
  <2>3. QED
    BY <1>3, <1>4, <2>2
<1>5. CASE m # 0
  <2>1. m - 1 \in Nat /\ ~(m <= m - 1)
    BY <1>3, <1>5
  <2>2. m - 1 \notin bad
    BY <1>2, <2>1
  <2>3. PICK f : Folding(f, now, q, m - 1)
    BY <2>1, <2>2
  <2> DEFINE g == [s \in SUBSET (1 .. m) |->
                      IF m \in s THEN Obey(f[s \ {m}], q[m]) ELSE f[s]]
  <2>4. ASSUME NEW s \in SUBSET (1 .. m)
        PROVE  g[s] = IF s = {} THEN now ELSE Obey(g[s \ {Max(s)}], q[Max(s)])
    <3>1. s \ {m} \in SUBSET (1 .. m - 1)
      BY <1>3
    <3>2. CASE m \in s
      <4>1. \A x \in s : x \in Int /\ m >= x
        BY <1>3
      <4>2. Max(s) = m
        <5>1. \A x \in s : (\A y \in s : x >= y) => x = m
          BY <3>2, <4>1, <1>3
        <5>2. QED
          BY <3>2, <4>1, <5>1 DEF Max
      <4>3. g[s \ {m}] = f[s \ {m}]
        BY <3>1
      <4>4. QED
        BY <3>2, <4>2, <4>3
    <3>3. CASE m \notin s
      <4>1. s \in SUBSET (1 .. m - 1) /\ s \ {Max(s)} \in SUBSET (1 .. m - 1)
        BY <3>1, <3>3
      <4>2. f[s] = IF s = {} THEN now ELSE Obey(f[s \ {Max(s)}], q[Max(s)])
        BY <2>3, <4>1 DEF Folding
      <4>3. g[s] = f[s] /\ g[s \ {Max(s)}] = f[s \ {Max(s)}]
        BY <3>3, <4>1
      <4>4. QED
        BY <4>2, <4>3
    <3>4. QED
      BY <3>2, <3>3
  <2>5. g = [s \in SUBSET (1 .. m) |-> g[s]]
    OBVIOUS
  <2> HIDE DEF g
  <2>6. Folding(g, now, q, m)
    BY <2>4, <2>5 DEF Folding
  <2>7. QED
    BY <1>3, <2>6
<1>6. QED
  BY <1>4, <1>5

\* What a line acts on: the image, the pulse, the client and the zone's source.
Desks == [img : ImageType, pulse : Nat, field : Conns \cup {NoConn},
          voice : Conns \cup {NoConn}]

\* A line leaves an image an image (command).
LEMMA ObeyTypes ==
    ASSUME NEW now \in Desks, NEW typed \in Commands
    PROVE  Obey(now, typed) \in Desks
<1>1. now.img \in ImageType /\ now.pulse \in Nat
  BY DEF Desks
<1>2. typed.name # "reset_pulse" \/ typed.width \in Nat
  BY StandInAssumption DEF Commands
<1>3. CASE typed.name \in {"estop_open", "estop_close"}
  <2> DEFINE level == typed.name = "estop_close"
  <2>1. Obey(now, typed) = [now EXCEPT !.img.EStopCircuitClosed = level]
    BY <1>3 DEF Obey
  <2>2. level \in BOOLEAN
    OBVIOUS
  <2> HIDE DEF level
  <2>3. [now.img EXCEPT !.EStopCircuitClosed = level] \in ImageType
    BY <1>1, <2>2 DEF ImageType
  <2>4. QED
    BY <2>1, <2>3 DEF Desks
<1>4. CASE typed.name \in {"zone_open", "zone_close"}
  <2> DEFINE level == typed.name = "zone_close"
  <2>1. Obey(now, typed) = IF now.field # NoConn THEN now
                         ELSE [now EXCEPT !.img.ZoneDeviceCircuitClosed = level, !.voice = NoConn]
    BY <1>4 DEF Obey
  <2>2. level \in BOOLEAN
    OBVIOUS
  <2> HIDE DEF level
  <2>3. [now.img EXCEPT !.ZoneDeviceCircuitClosed = level] \in ImageType
    BY <1>1, <2>2 DEF ImageType
  <2>4. QED
    BY <2>1, <2>3 DEF Desks
<1>5. CASE typed.name \in {"reset_press", "reset_release"}
  <2> DEFINE level == typed.name = "reset_press"
  <2>1. Obey(now, typed) = [now EXCEPT !.img.ResetButtonPressed = level, !.pulse = 0]
    BY <1>5 DEF Obey
  <2>2. level \in BOOLEAN
    OBVIOUS
  <2> HIDE DEF level
  <2> DEFINE held == [now.img EXCEPT !.ResetButtonPressed = level]
  <2>3. held \in ImageType
    BY <1>1, <2>2 DEF ImageType
  <2> DEFINE half == [now EXCEPT !.img = held]
  <2>4. Obey(now, typed) = [half EXCEPT !.pulse = 0]
    BY <2>1 DEF Desks
  <2> HIDE DEF held
  <2>5. half \in Desks
    BY <2>3 DEF Desks
  <2> HIDE DEF half
  <2>6. QED
    BY <2>4, <2>5 DEF Desks
<1>6. CASE typed.name = "reset_pulse"
  <2>1. Obey(now, typed) = IF now.img.ResetButtonPressed THEN now
                         ELSE [now EXCEPT !.img.ResetButtonPressed = TRUE, !.pulse = typed.width]
    BY <1>6 DEF Obey
  <2>2. [now.img EXCEPT !.ResetButtonPressed = TRUE] \in ImageType
    BY <1>1 DEF ImageType
  <2>3. QED
    BY <1>2, <1>6, <2>1, <2>2 DEF Desks
<1>7. QED
  BY <1>3, <1>4, <1>5, <1>6 DEF Commands

\* So do all the lines of a command file, one after the other.
LEMMA ObeyAllTypes ==
    ASSUME NEW now \in Desks, NEW q \in Seq(Commands)
    PROVE  ObeyAll(now, q) \in Desks
<1> DEFINE n == Len(q)
<1>1. n \in Nat /\ DOMAIN q = 1 .. n /\ \A i \in 1 .. n : q[i] \in Commands
  OBVIOUS
<1> HIDE DEF n
<1>2. ObeyAll(now, q) = (CHOOSE f : Folding(f, now, q, n))[1 .. n]
  BY <1>1 DEF ObeyAll, FoldLeft, MapThenFoldSet, Folding
<1>3. PICK f : f = (CHOOSE g : Folding(g, now, q, n)) /\ Folding(f, now, q, n)
  BY <1>1, FoldExists
<1> DEFINE bad == {k \in Nat : k <= n /\ f[1 .. k] \notin Desks}
<1>4. SUFFICES ASSUME f[1 .. n] \notin Desks PROVE FALSE
  BY <1>2, <1>3
<1>5. PICK k \in bad : \A j \in bad : k <= j
  <2>1. n \in bad /\ bad \in SUBSET Nat
    BY <1>1, <1>4
  <2> HIDE DEF bad
  <2>2. QED
    BY <2>1, LeastNatural
<1>6. k \in Nat /\ k <= n /\ f[1 .. k] \notin Desks /\ 1 .. k \in SUBSET (1 .. n)
  BY <1>1, <1>5
<1>7. f[1 .. k] = IF 1 .. k = {} THEN now
                  ELSE Obey(f[(1 .. k) \ {Max(1 .. k)}], q[Max(1 .. k)])
  BY <1>3, <1>6 DEF Folding
<1>8. k # 0
  <2>1. 1 .. 0 = {}
    OBVIOUS
  <2>2. QED
    BY <1>6, <1>7, <2>1
<1>9. Max(1 .. k) = k /\ (1 .. k) \ {k} = 1 .. k - 1 /\ 1 .. k # {}
  <2>1. k \in 1 .. k /\ \A x \in 1 .. k : x \in Int /\ k >= x
    BY <1>6, <1>8
  <2>2. \A x \in 1 .. k : (\A y \in 1 .. k : x >= y) => x = k
    BY <1>6, <2>1
  <2>3. Max(1 .. k) = k
    BY <2>1, <2>2 DEF Max
  <2>4. (1 .. k) \ {k} = 1 .. k - 1
    BY <1>6, <1>8
  <2>5. QED
    BY <2>1, <2>3, <2>4
<1>10. k - 1 \notin bad /\ k - 1 \in Nat /\ k - 1 <= n
  BY <1>1, <1>5, <1>6, <1>8
<1>11. f[1 .. k - 1] \in Desks
  BY <1>10
<1>12. k \in 1 .. n /\ f[1 .. k] = Obey(f[1 .. k - 1], q[k])
  <2> HIDE DEF bad
  <2>1. k \in 1 .. n
    BY <1>1, <1>6, <1>8
  <2>2. f[1 .. k] = Obey(f[(1 .. k) \ {Max(1 .. k)}], q[Max(1 .. k)])
    BY <1>7, <1>9, Zenon
  <2>3. QED
    BY <1>9, <2>1, <2>2, Zenon
<1>13. Obey(f[1 .. k - 1], q[k]) \in Desks
  BY <1>1, <1>11, <1>12, ObeyTypes
<1>14. QED
  BY <1>6, <1>12, <1>13

\* A scan leaves timers and flags (the forty-nine networks of f_program.py).
LEMMA ScanTypes ==
    ASSUME NEW i \in ImageType, NEW s \in StaticsType
    PROVE  FScan(i, s) \in StaticsType
<1>1. /\ SPEED_STALE_MAX \in Nat /\ SPEED_LIMIT_ONSET_MAX \in Nat
  BY SafetyTimesAssumption
<1>2. s.monitor \in MonitorType /\ s.reset \in ResetType
  BY DEF StaticsType
<1>3. Monitor(i, s) \in MonitorType
  <2>1. ChainSeen(i, s.monitor) \in BOOLEAN
    BY DEF ChainSeen
  <2>2. StaleA(i, s.monitor) \in Nat /\ StaleB(i, s.monitor) \in Nat
    BY <1>1, <1>2, TonType DEF StaleA, StaleB, MonitorType
  <2>3. /\ Ton(s.monitor.SpeedDiscrepancyTimer, SpeedDiscrepantNow(i, s), SPEED_DISCREPANCY_TIME) \in Nat
        /\ Ton(s.monitor.ShaftDoubtTimer, ShaftDoubtNow(i, s), SHAFT_DOUBT_TIME) \in Nat
        /\ Ton(s.monitor.SpeedOverLimitTimer, SpeedOverLimitNow(i, s), SPEED_OVERLIMIT_TIME) \in Nat
    BY <1>2, StandInTimes, TonType DEF MonitorType
  <2>4. LimitOnset(i, s) \in Nat
    BY <1>1, <1>2, TonType DEF LimitOnset, MonitorType
  <2>5. QED
    BY <2>1, <2>2, <2>3, <2>4 DEF Monitor, MonitorType
<1>4. ResetNetworks(i, s) \in ResetType
  <2>1. HoldMin(i, s) \in Nat /\ HoldMax(i, s) \in Nat
    BY <1>2, StandInTimes, TonType DEF HoldMin, HoldMax, ResetType
  <2>2. /\ ResetSeenOpen(i, s) \in BOOLEAN /\ ResetPressArmed(i, s) \in BOOLEAN
        /\ ResetHoldValid(i, s) \in BOOLEAN /\ SafetyResetFault(i, s) \in BOOLEAN
        /\ ResetValid(i, s) \in BOOLEAN
    BY DEF ResetSeenOpen, ResetPressArmed, ResetHoldValid, SafetyResetFault, ResetValid
  <2>3. QED
    BY <2>1, <2>2 DEF ResetNetworks, ResetType
<1>5. StandInStale(i, s) \in Nat /\ Ss1(i, s) \in Nat
  BY StandInTimes, TonType DEF StandInStale, Ss1, StaticsType
<1>6. /\ HeartbeatSeen(i, s) \in BOOLEAN /\ EStopDemand(i, s) \in BOOLEAN
      /\ ZoneStopDemand(i, s) \in BOOLEAN /\ SpeedMonitorDemand(i, s) \in BOOLEAN
      /\ TorqueOffDemand(i, s) \in BOOLEAN
  BY DEF HeartbeatSeen, EStopDemand, ZoneStopDemand, SpeedMonitorDemand, TorqueOffDemand, Latch
<1>7. QED
  BY <1>3, <1>4, <1>5, <1>6 DEF FScan, StaticsType

\* What is kept of the file and of the source besides.
StandInTypes ==
    /\ StandInTypeOK
    /\ cast \in Casts
    /\ file \in [lines : Seq(Commands), read : Nat, starts : Nat]
    /\ past.voice \in Conns \cup {NoConn}

\* A start, of the process or of its image.
LEMMA BootTypes ==
    Boot(img, st, link, pulse, turn, past) =>
        /\ img \in ImageType /\ st \in StaticsType
        /\ link \in [field : Conns \cup {NoConn}, readers : SUBSET Conns, fieldAge : Nat,
                     speed : BOOLEAN, motAge : Nat]
        /\ link.field \in link.readers \cup {NoConn}
        /\ pulse \in Nat /\ turn \in {"writer", "scan"}
        /\ past.voice \in Conns \cup {NoConn}
<1>1. BootImage \in ImageType
  BY DEF BootImage, ImageType
<1>2. BootStatics \in StaticsType
  <2>1. BootMonitor \in MonitorType
    BY DEF BootMonitor, MonitorType
  <2>2. BootReset \in ResetType
    BY DEF BootReset, ResetType
  <2>3. QED
    BY <2>1, <2>2 DEF BootStatics, StaticsType
<1>3. FScan(BootImage, BootStatics) \in StaticsType
  BY <1>1, <1>2, ScanTypes
<1>4. QED
  BY <1>1, <1>3 DEF Boot, BootLink, BootPast

\* The first state.
LEMMA TypesStart == StandInInit => StandInTypes
<1> SUFFICES ASSUME StandInInit PROVE StandInTypes
  OBVIOUS
<1>1. cast \in Casts /\ Boot(img, st, link, pulse, turn, past)
      /\ file = [lines |-> << >>, read |-> 0, starts |-> Starts]
  BY DEF StandInInit
<1>2. << >> \in Seq(Commands) /\ Len(<< >>) = 0 /\ Starts \in Nat
  BY StandInAssumption
<1>3. QED
  BY <1>1, <1>2, BootTypes DEF StandInTypes, StandInTypeOK

\* One line at the console, or one appended to the file.
LEMMA ConsoleTypes ==
    ASSUME StandInInv, StandInTypes, NEW typed \in cast.commands,
           Console(typed) \/ AppendLine(typed)
    PROVE  StandInTypes'
<1>1. typed \in Commands
  BY CastsAssumption DEF StandInTypes
<1>2. CASE Console(typed)
  <2> DEFINE old == [img |-> img, pulse |-> pulse, field |-> link.field, voice |-> past.voice]
             now == Obey(old, typed)
  <2>1. old \in Desks
    BY DEF StandInTypes, StandInTypeOK, Desks
  <2>2. now \in Desks
    BY <1>1, <2>1, ObeyTypes
  <2>3. /\ img' = now.img /\ pulse' = now.pulse /\ past' = [past EXCEPT !.voice = now.voice]
        /\ UNCHANGED <<cast, st, link, file, turn>>
    BY <1>2 DEF Console, Settle
  <2> HIDE DEF now
  <2>4. now.img \in ImageType /\ now.pulse \in Nat /\ now.voice \in Conns \cup {NoConn}
    BY <2>2 DEF Desks
  <2>5. past'.voice = now.voice
    BY <2>3 DEF StandInInv, PastType
  <2>6. QED
    BY <2>3, <2>4, <2>5 DEF StandInTypes, StandInTypeOK
<1>3. CASE AppendLine(typed)
  <2>1. /\ file' = [file EXCEPT !.lines = Append(file.lines, typed)]
        /\ UNCHANGED <<cast, img, st, link, pulse, turn, past>>
    BY <1>3 DEF AppendLine
  <2> DEFINE longer == Append(file.lines, typed)
  <2>2. /\ file.lines \in Seq(Commands) /\ file.read \in 0 .. Len(file.lines)
        /\ longer \in Seq(Commands) /\ Len(longer) = Len(file.lines) + 1
    BY <1>1 DEF StandInTypes, StandInTypeOK
  <2> HIDE DEF longer
  <2>3. /\ file' \in [lines : Seq(Commands), read : Nat, starts : Nat]
        /\ file'.lines = longer /\ file'.read = file.read
    BY <2>1, <2>2 DEF StandInTypes, longer
  <2>4. file'.read \in 0 .. Len(file'.lines)
    BY <2>2, <2>3
  <2>5. QED
    BY <2>1, <2>2, <2>3, <2>4 DEF StandInTypes, StandInTypeOK
<1>4. QED
  BY <1>2, <1>3

\* A dropped or closed link leaves the image an image (field_down).
LEMMA FieldDownTypes ==
    ASSUME NEW i \in ImageType PROVE FieldDown(i) \in ImageType
BY DEF FieldDown, ImageType

\* A field link that comes, speaks or goes.
LEMMA FieldTypes ==
    ASSUME StandInInv, StandInTypes, NEW c \in Conns,
           \/ FieldConnect(c) \/ FieldCloses(c)
           \/ \E line \in {"ZONE_0", "ZONE_1", "WARN_0", "WARN_1", "PING"} : FieldSays(c, line)
    PROVE  StandInTypes'
<1>0. /\ img \in ImageType /\ FieldDown(img) \in ImageType
      /\ link \in [field : Conns \cup {NoConn}, readers : SUBSET Conns, fieldAge : Nat,
                   speed : BOOLEAN, motAge : Nat]
      /\ link.field \in link.readers \cup {NoConn}
  BY FieldDownTypes DEF StandInTypes, StandInTypeOK
<1>1. ASSUME NEW voice, past' = [past EXCEPT !.voice = voice] PROVE past'.voice = voice
  BY <1>1 DEF StandInInv, PastType
<1>2. CASE FieldConnect(c)
  <2>1. /\ link' = [link EXCEPT !.field = c, !.readers = link.readers \cup {c}, !.fieldAge = 0]
        /\ img' = [img EXCEPT !.ZoneDeviceCircuitClosed = FALSE, !.WarningFieldClear = FALSE]
        /\ past'.voice = c /\ UNCHANGED <<cast, st, pulse, file, turn>>
    BY <1>1, <1>2 DEF FieldConnect
  <2>2. img' \in ImageType
    BY <1>0, <2>1 DEF ImageType
  <2>3. QED
    BY <1>0, <2>1, <2>2 DEF StandInTypes, StandInTypeOK
<1>3. CASE FieldCloses(c)
  <2>1. /\ link' = [link EXCEPT !.field = NoConn, !.readers = link.readers \ {c}]
        /\ img' = FieldDown(img)
        /\ past'.voice \in {past.voice, NoConn} /\ UNCHANGED <<cast, st, pulse, file, turn>>
    BY <1>1, <1>3 DEF FieldCloses
  <2>2. QED
    BY <1>0, <2>1 DEF StandInTypes, StandInTypeOK
<1>4. ASSUME NEW line \in {"ZONE_0", "ZONE_1", "WARN_0", "WARN_1", "PING"}, FieldSays(c, line)
      PROVE  StandInTypes'
  <2>1. /\ link' = [link EXCEPT !.fieldAge = 0]
        /\ past'.voice \in {past.voice, c} /\ UNCHANGED <<cast, st, pulse, file, turn>>
    BY <1>1, <1>4 DEF FieldSays
  <2>2. img' \in ImageType
    <3> DEFINE zone == line = "ZONE_1"
               warn == line = "WARN_1"
    <3>1. \/ img' = [img EXCEPT !.ZoneDeviceCircuitClosed = zone]
          \/ img' = [img EXCEPT !.WarningFieldClear = warn]
          \/ img' = img
      BY <1>4 DEF FieldSays
    <3>2. zone \in BOOLEAN /\ warn \in BOOLEAN
      OBVIOUS
    <3> HIDE DEF zone, warn
    <3>3. QED
      BY <1>0, <3>1, <3>2 DEF ImageType
  <2>3. QED
    BY <1>0, <2>1, <2>2 DEF StandInTypes, StandInTypeOK
<1>5. QED
  BY <1>2, <1>3, <1>4

\* A reading replaces one of the channels (speed_line).
LEMMA ReadingTypes ==
    ASSUME StandInTypes, NEW channel \in {"A", "B"}, NEW reading \in Speeds,
           SpeedSays(channel, reading)
    PROVE  StandInTypes'
<1>1. reading \in Int
  BY StandInAssumption
<1>2. UNCHANGED <<cast, st, link, pulse, file, turn, past>>
  BY DEF SpeedSays
<1>3. img \in ImageType
  BY DEF StandInTypes, StandInTypeOK
<1>4. CASE channel = "A"
  <2>1. img' = [img EXCEPT !.SpeedReadingA = reading, !.FreshA = TRUE]
    BY <1>4 DEF SpeedSays
  <2>2. img' \in ImageType
    BY <1>1, <1>3, <2>1 DEF ImageType
  <2>3. QED
    BY <1>2, <2>2 DEF StandInTypes, StandInTypeOK
<1>5. CASE channel # "A"
  <2>1. img' = [img EXCEPT !.SpeedReadingB = reading, !.FreshB = TRUE]
    BY <1>5 DEF SpeedSays
  <2>2. img' \in ImageType
    BY <1>1, <1>3, <2>1 DEF ImageType
  <2>3. QED
    BY <1>2, <2>2 DEF StandInTypes, StandInTypeOK
<1>6. QED
  BY <1>4, <1>5

\* A speed link that comes, speaks or goes.
LEMMA SpeedTypes ==
    ASSUME StandInTypes,
           \/ SpeedConnect \/ SpeedCloses
           \/ \E channel \in {"A", "B"}, reading \in Speeds : SpeedSays(channel, reading)
           \/ \E present \in BOOLEAN : MotionSays(present)
    PROVE  StandInTypes'
<1>0. /\ img \in ImageType
      /\ link \in [field : Conns \cup {NoConn}, readers : SUBSET Conns, fieldAge : Nat,
                   speed : BOOLEAN, motAge : Nat]
      /\ link.field \in link.readers \cup {NoConn}
  BY DEF StandInTypes, StandInTypeOK
<1>1. CASE SpeedConnect
  BY <1>0, <1>1 DEF SpeedConnect, StandInTypes, StandInTypeOK
<1>2. CASE SpeedCloses
  BY <1>0, <1>2 DEF SpeedCloses, StandInTypes, StandInTypeOK
<1>3. ASSUME NEW channel \in {"A", "B"}, NEW reading \in Speeds, SpeedSays(channel, reading)
      PROVE  StandInTypes'
  BY <1>3, ReadingTypes
<1>4. ASSUME NEW present \in BOOLEAN, MotionSays(present) PROVE StandInTypes'
  <2>1. /\ img' = [img EXCEPT !.MotionPresent = present]
        /\ link' = [link EXCEPT !.motAge = 0]
        /\ UNCHANGED <<cast, st, pulse, file, turn, past>>
    BY <1>4 DEF MotionSays
  <2>2. img' \in ImageType
    BY <1>0, <2>1 DEF ImageType
  <2>3. QED
    BY <1>0, <2>1, <2>2 DEF StandInTypes, StandInTypeOK
<1>5. QED
  BY <1>1, <1>2, <1>3, <1>4

\* The ages of the two links.
LEMMA AgedTypes ==
    ASSUME StandInTypes
    PROVE  /\ AgedLinks \in [field : Conns \cup {NoConn}, readers : SUBSET Conns, fieldAge : Nat,
                             speed : BOOLEAN, motAge : Nat]
           /\ AgedLinks.field = link.field /\ AgedLinks.readers = link.readers
<1>1. link \in [field : Conns \cup {NoConn}, readers : SUBSET Conns, fieldAge : Nat,
                speed : BOOLEAN, motAge : Nat]
  BY DEF StandInTypes, StandInTypeOK
<1> DEFINE field == IF link.field = NoConn THEN 0 ELSE Ton(link.fieldAge, TRUE, FIELD_LINK_STALE_MAX)
           mot   == IF link.speed THEN Ton(link.motAge, TRUE, MOTION_SILENCE_MAX) ELSE 0
<1>2. field \in Nat /\ mot \in Nat
  BY <1>1, StandInAssumption, TonType
<1>3. AgedLinks = [link EXCEPT !.fieldAge = field, !.motAge = mot]
  BY DEF AgedLinks
<1> HIDE DEF field, mot
<1>4. QED
  BY <1>1, <1>2, <1>3

\* A cycle of the writer, with the lines it reads (cycle).
LEMMA CycleTypes ==
    ASSUME StandInInv, StandInTypes, NEW late \in Seq(Commands), StandInCycle(late)
    PROVE  StandInTypes'
<1> DEFINE fieldAge == AgedLinks.fieldAge
           motAge   == AgedLinks.motAge
           dropped  == link.field # NoConn /\ fieldAge > FIELD_LINK_STALE_MAX
           base     == IF dropped THEN FieldDown(img) ELSE img
           held     == base.ResetButtonPressed /\ ~(pulse = 1)
           motion   == base.MotionPresent \/ (link.speed /\ motAge > MOTION_SILENCE_MAX)
           image    == [base EXCEPT !.Beat = TRUE, !.ResetButtonPressed = held,
                                    !.MotionPresent = motion]
           field == IF dropped THEN NoConn ELSE link.field
           left  == IF pulse = 0 THEN 0 ELSE pulse - 1
           voice == IF dropped THEN NoConn ELSE past.voice
           now == [img |-> image, field |-> field, pulse |-> left, voice |-> voice]
           unread == SubSeq(file.lines, file.read + 1, Len(file.lines))
           after == ObeyAll(now, unread \o late)
           longer == file.lines \o late
<1>1. /\ turn' = "scan" /\ UNCHANGED <<cast, st>>
      /\ link' = [AgedLinks EXCEPT !.field = field]
      /\ img' = after.img /\ pulse' = after.pulse /\ past' = [past EXCEPT !.voice = after.voice]
      /\ file' = [file EXCEPT !.read = Len(file.lines), !.lines = longer]
  BY DEF StandInCycle, Settle
<1>2. base \in ImageType
  BY FieldDownTypes DEF StandInTypes, StandInTypeOK
<1>3. image \in ImageType
  <2>1. held \in BOOLEAN /\ motion \in BOOLEAN
    BY <1>2 DEF ImageType
  <2> HIDE DEF base, held, motion
  <2>2. QED
    BY <1>2, <2>1 DEF ImageType
<1>4. field \in Conns \cup {NoConn} /\ left \in Nat /\ voice \in Conns \cup {NoConn}
      /\ field \in link.readers \cup {NoConn}
  BY DEF StandInTypes, StandInTypeOK
<1>5. now \in Desks
  <2> HIDE DEF image, field, left, voice
  <2>1. QED
    BY <1>3, <1>4 DEF Desks
<1>6. /\ file.lines \in Seq(Commands) /\ Len(file.lines) \in Nat
      /\ unread \o late \in Seq(Commands) /\ longer \in Seq(Commands)
      /\ Len(longer) = Len(file.lines) + Len(late) /\ Len(late) \in Nat
  <2>1. file.lines \in Seq(Commands) /\ file.read \in Nat
    BY DEF StandInTypes, StandInTypeOK
  <2>2. unread \in Seq(Commands)
    <3>1. \A k \in file.read + 1 .. Len(file.lines) : file.lines[k] \in Commands
      BY <2>1
    <3>2. QED
      BY <2>1, <3>1
  <2>3. QED
    BY <2>1, <2>2
<1> HIDE DEF now, unread, longer
<1>7. after \in Desks
  BY <1>5, <1>6, ObeyAllTypes
<1> HIDE DEF after, field
<1>8. /\ after.img \in ImageType /\ after.pulse \in Nat /\ after.voice \in Conns \cup {NoConn}
  BY <1>7 DEF Desks
<1>9. past'.voice = after.voice
  BY <1>1 DEF StandInInv, PastType
<1>10. /\ file' \in [lines : Seq(Commands), read : Nat, starts : Nat]
       /\ file'.read \in 0 .. Len(file'.lines)
  <2>1. /\ file' \in [lines : Seq(Commands), read : Nat, starts : Nat]
        /\ file'.lines = longer /\ file'.read = Len(file.lines)
    BY <1>1, <1>6 DEF StandInTypes
  <2>2. QED
    BY <1>6, <2>1
<1>11. /\ link' \in [field : Conns \cup {NoConn}, readers : SUBSET Conns, fieldAge : Nat,
                     speed : BOOLEAN, motAge : Nat]
       /\ link'.field \in link'.readers \cup {NoConn}
  BY <1>1, <1>4, AgedTypes
<1>12. QED
  BY <1>1, <1>8, <1>9, <1>10, <1>11 DEF StandInTypes, StandInTypeOK

\* A scan, and the end of what it read.
LEMMA ScanStepTypes ==
    ASSUME StandInInv, StandInTypes, SafetyScan
    PROVE  StandInTypes'
<1>1. /\ turn' = "writer" /\ st' = FScan(img, st) /\ past' = Remember
      /\ img' = [img EXCEPT !.Beat = FALSE, !.FreshA = FALSE, !.FreshB = FALSE]
      /\ UNCHANGED <<cast, link, pulse, file>>
  BY DEF SafetyScan, Scanned
<1>2. past'.voice = past.voice
  BY <1>1 DEF Remember, StandInInv, PastType
<1>3. img' \in ImageType
  BY <1>1 DEF StandInTypes, StandInTypeOK, ImageType
<1>4. st' \in StaticsType
  BY <1>1, ScanTypes DEF StandInTypes, StandInTypeOK
<1>5. QED
  BY <1>1, <1>2, <1>3, <1>4 DEF StandInTypes, StandInTypeOK

\* A start: the command file is still there, and unread.
LEMMA StartTypes ==
    ASSUME StandInTypes, ProcessStarts
    PROVE  StandInTypes'
<1>1. /\ Boot(img', st', link', pulse', turn', past')
      /\ file' = [file EXCEPT !.read = 0, !.starts = @ - 1] /\ file.starts > 0
      /\ cast' = cast
  BY DEF ProcessStarts
<1>2. /\ img' \in ImageType /\ st' \in StaticsType
      /\ link' \in [field : Conns \cup {NoConn}, readers : SUBSET Conns, fieldAge : Nat,
                    speed : BOOLEAN, motAge : Nat]
      /\ link'.field \in link'.readers \cup {NoConn}
      /\ pulse' \in Nat /\ turn' \in {"writer", "scan"}
      /\ past'.voice \in Conns \cup {NoConn}
  <2>1. Boot(img', st', link', pulse', turn', past') => Boot(img, st, link, pulse, turn, past)'
    BY DEF Boot
  <2>2. Boot(img, st, link, pulse, turn, past)' =>
            (/\ img \in ImageType /\ st \in StaticsType
             /\ link \in [field : Conns \cup {NoConn}, readers : SUBSET Conns, fieldAge : Nat,
                          speed : BOOLEAN, motAge : Nat]
             /\ link.field \in link.readers \cup {NoConn}
             /\ pulse \in Nat /\ turn \in {"writer", "scan"}
             /\ past.voice \in Conns \cup {NoConn})'
    BY BootTypes, PTL
  <2>3. QED
    BY <1>1, <2>1, <2>2
<1>3. /\ file' \in [lines : Seq(Commands), read : Nat, starts : Nat]
      /\ file'.lines \in Seq(Commands) /\ file'.read \in 0 .. Len(file'.lines)
  <2> DEFINE left == file.starts - 1
  <2>1. file.starts \in Nat /\ left \in Nat /\ file' = [file EXCEPT !.read = 0, !.starts = left]
    BY <1>1 DEF StandInTypes
  <2> HIDE DEF left
  <2>2. /\ file' \in [lines : Seq(Commands), read : Nat, starts : Nat]
        /\ file'.lines = file.lines /\ file'.read = 0
    BY <2>1 DEF StandInTypes
  <2>3. QED
    BY <2>2 DEF StandInTypes
<1>4. QED
  BY <1>1, <1>2, <1>3 DEF StandInTypes, StandInTypeOK

\* Every step.
LEMMA TypesGoOn ==
    ASSUME StandInInv, StandInTypes, [StandInNext]_standInVars
    PROVE  StandInTypes'
<1>1. CASE UNCHANGED standInVars
  BY <1>1 DEF standInVars, StandInTypes, StandInTypeOK
<1>2. ASSUME NEW typed \in cast.commands, StandInCycle(<<typed>>) PROVE StandInTypes'
  <2>1. <<typed>> \in Seq(Commands)
    BY CastsAssumption DEF StandInTypes
  <2>2. QED
    BY <1>2, <2>1, CycleTypes
<1>3. CASE StandInCycle(<< >>)
  <2>1. << >> \in Seq(Commands)
    OBVIOUS
  <2>2. QED
    BY <1>3, <2>1, CycleTypes
<1>4. CASE WriterSilent
  <2>1. /\ turn' = "scan" /\ link' = AgedLinks
        /\ pulse' = IF pulse > 1 THEN pulse - 1 ELSE pulse
        /\ UNCHANGED <<cast, img, st, file, past>>
    BY <1>4 DEF WriterSilent
  <2>2. QED
    BY <2>1, AgedTypes DEF StandInTypes, StandInTypeOK
<1>5. QED
  BY <1>1, <1>2, <1>3, <1>4, ConsoleTypes, FieldTypes, SpeedTypes, ScanStepTypes, StartTypes
     DEF StandInNext

\* Every state.
LEMMA TypesAlways == StandInSpec => [](StandInInv /\ StandInTypes)
<1>1. StandInInv /\ StandInTypes /\ [StandInNext]_standInVars => (StandInInv /\ StandInTypes)'
  BY StandInGoesOn, TypesGoOn
<1>2. QED
  BY StandInStarts, TypesStart, <1>1, PTL DEF StandInSpec

\* Image, statics, links and command file keep their types, whatever is typed, left in
\* the file or sent, and however often the process is started again.
THEOREM StandInTypeCorrect == StandInSpec => []StandInTypeOK
<1>1. StandInTypes => StandInTypeOK
  BY DEF StandInTypes
<1>2. QED
  BY <1>1, TypesAlways, PTL

-----------------------------------------------------------------------------
(***************************************************************************)
(* Theorems about Envelope, for every window, ceiling, deceleration,       *)
(* deadband and top speed, and whatever the smoother and the PLC say.      *)
(***************************************************************************)

(* The invariant. *)

\* The timer fires in every period, so that the gate never ramps over more
\* than one of them.
Cadence == gate.since \in {0, 1} /\ (~due => gate.since = 0)

\* What the envelope allows now it has not stopped allowing.
LagOfAllowed == \A v \in 1 .. SPEED_MAX : Allowed(v) => lag[v] = 0

\* A speed the gate still puts out was allowed as many periods ago, at most, as
\* the ramp has taken off it.
RampKeepsUp ==
    \A v \in 1 .. SPEED_MAX :
        v <= gate.out.v => lag[v] + gate.out.v <= SPEED_MAX + gate.since

\* What the converter was told last, or will have been, is what the gate has put out,
\* and the wheel was told no more than its arc makes of that.
OrderIsOut ==
    /\ wire # << >> => /\ wire[Len(wire)].v <= gate.out.v
                       /\ gate.zeroPublished => wire[Len(wire)].v = 0
    /\ wire = << >> /\ joint.by = "gate" => joint.v <= gate.out.v * steer
    /\ gate.zeroPublished => LastOrder = 0
    /\ gate.applied = MODE_TELEOP => gate.state = "silent"
    /\ gate.state = "silent" => gate.zeroPublished

EnvelopeInv ==
    EnvelopeTypeOK /\ Cadence /\ LagOfAllowed /\ RampKeepsUp /\ OrderIsOut

-----------------------------------------------------------------------------
(* The arithmetic. *)

LEMMA EnvelopeBounds ==
    /\ STALE_WINDOW \in Nat /\ COMMAND_TIMEOUT \in Nat /\ CEILING_MAX \in Nat
    /\ ZERO_SPEED \in Nat /\ CREEP_SPEED \in Nat /\ SPEED_MAX \in Nat
    /\ STOP_DECEL \in Nat /\ STOP_DECEL > 0 /\ STEP_MAX \in Nat /\ STEP_MAX > 0
    /\ STEER_STOP \in Nat /\ STEER_STOP > 0 /\ TRACTION_MAX \in Nat
BY EnvelopeAssumption

LEMMA EnvelopeInputs ==
    /\ Smoothed \subseteq Twists /\ ModesHeard \subseteq Modes
    /\ \A v \in Setpoints : v \in 0 .. TRACTION_MAX
BY EnvelopeAssumption

LEMMA CeilingsAreNat == \A ceiling \in Ceilings \cup {0} : ceiling \in Nat
BY EnvelopeAssumption

LEMMA StillIsATwist == Still \in Twists /\ Still.v = 0
BY EnvelopeBounds DEF Still, Twists

LEMMA Clamped ==
    ASSUME NEW twist \in Twists, NEW ceiling \in Nat
    PROVE  /\ ClampToCeiling(twist, ceiling) \in Twists
           /\ ClampToCeiling(twist, ceiling).v <= ceiling
           /\ ClampToCeiling(twist, ceiling).v <= twist.v
<1>1. twist.v \in 0 .. SPEED_MAX /\ twist.arc \in Nat \ {0}
  BY DEF Twists
<1>2. CASE twist.v <= ceiling
  BY <1>1, <1>2 DEF ClampToCeiling
<1>3. CASE ~(twist.v <= ceiling)
  <2> DEFINE arc == IF ceiling > 0 THEN twist.arc ELSE 1
  <2>1. ClampToCeiling(twist, ceiling) = [v |-> ceiling, arc |-> arc]
    BY <1>3 DEF ClampToCeiling
  <2>2. ceiling \in 0 .. SPEED_MAX /\ arc \in Nat \ {0}
    BY <1>1, <1>3, EnvelopeBounds
  <2> HIDE DEF arc
  <2>3. QED
    BY <1>1, <1>3, <2>1, <2>2 DEF Twists
<1>4. QED
  BY <1>2, <1>3

\* Over one period the ramp takes off the deceleration or all there is, over
\* none it takes off nothing but what counts as zero.
LEMMA Ramped ==
    ASSUME NEW twist \in Twists, NEW dt \in {0, 1}
    PROVE  /\ RampTowardsZero(twist, dt) \in Twists
           /\ RampTowardsZero(twist, dt).v <= twist.v
           /\ \/ RampTowardsZero(twist, dt) = Still
              \/ RampTowardsZero(twist, dt).v <= twist.v - dt
<1>1. twist.v \in 0 .. SPEED_MAX /\ twist.arc \in Nat \ {0}
  BY DEF Twists
<1>2. STOP_DECEL * dt = IF dt = 0 THEN 0 ELSE STOP_DECEL
  BY EnvelopeBounds
<1> DEFINE step == STOP_DECEL * dt
<1>3. step \in Nat /\ step >= dt
  BY <1>2, EnvelopeBounds
<1>4. RampTowardsZero(twist, dt) =
        IF twist.v <= ZERO_SPEED + step THEN
            IF twist.v <= ZERO_SPEED \/ dt > 0 THEN Still ELSE twist
        ELSE [twist EXCEPT !.v = @ - step]
  BY DEF RampTowardsZero
<1> HIDE DEF step
<1>5. CASE twist.v <= ZERO_SPEED + step /\ (twist.v <= ZERO_SPEED \/ dt > 0)
  BY <1>1, <1>4, <1>5, StillIsATwist
<1>6. CASE twist.v <= ZERO_SPEED + step /\ ~(twist.v <= ZERO_SPEED \/ dt > 0)
  BY <1>1, <1>4, <1>6, EnvelopeBounds
<1>7. CASE ~(twist.v <= ZERO_SPEED + step)
  <2>1. twist.v - step \in 0 .. SPEED_MAX /\ twist.v - step <= twist.v - dt
    BY <1>1, <1>3, <1>7, EnvelopeBounds
  <2>2. RampTowardsZero(twist, dt) = [twist EXCEPT !.v = twist.v - step]
    BY <1>4, <1>7
  <2>3. QED
    BY <1>1, <1>3, <2>1, <2>2 DEF Twists
<1>8. QED
  BY <1>5, <1>6, <1>7

\* The parts of the state the arithmetic is about.
LEMMA Ranges ==
    ASSUME EnvelopeTypeOK
    PROVE  /\ gate.out \in Twists /\ gate.out.v \in Nat /\ gate.out.v <= SPEED_MAX
           /\ said.ceiling \in Nat
           /\ \A e \in Elements : ages[e] \in Nat /\ ages[e] <= STALE_WINDOW + 1
           /\ cmd.twist \in Twists /\ cmd.age \in Nat /\ cmd.age <= COMMAND_TIMEOUT + 1
           /\ joint.v \in Nat /\ steer \in Nat /\ steer > 0
           /\ \A v \in 1 .. SPEED_MAX : lag[v] \in Nat /\ lag[v] <= LAG_MAX
<1>1. /\ gate.out \in Twists /\ cmd.twist \in Twists /\ cmd.age \in 0 .. COMMAND_TIMEOUT + 1
      /\ joint.v \in 0 .. TRACTION_MAX /\ steer \in 1 .. STEER_STOP
  BY DEF EnvelopeTypeOK
<1>2. gate.out.v \in 0 .. SPEED_MAX
  BY <1>1 DEF Twists
<1>3. \A e \in Elements : ages[e] \in 0 .. STALE_WINDOW + 1
  BY DEF EnvelopeTypeOK
<1>4. \A v \in 1 .. SPEED_MAX : lag[v] \in 0 .. LAG_MAX
  BY DEF EnvelopeTypeOK
<1>5. said.ceiling \in Ceilings \cup {0}
  BY DEF EnvelopeTypeOK, Said
<1>6. STALE_WINDOW + 1 \in Nat /\ COMMAND_TIMEOUT + 1 \in Nat /\ LAG_MAX \in Nat
  BY EnvelopeBounds DEF LAG_MAX
<1>7. QED
  BY <1>1, <1>2, <1>3, <1>4, <1>5, <1>6, EnvelopeBounds, CeilingsAreNat

-----------------------------------------------------------------------------
(* One step of the gate law. *)

LEMMA StepParts ==
    ASSUME EnvelopeTypeOK, Cadence, NEW twist \in Twists, NEW cmdAge, Step(twist, cmdAge)
    PROVE  /\ gate' \in [state : States, out : Twists, applied : Modes,
                         zeroPublished : BOOLEAN, since : 0 .. STEP_MAX]
           /\ gate'.since = 0
           /\ gate'.state \in {"hold zero", "silent"} => gate'.out = Still
           /\ gate'.state = "stopping" => gate'.out # Still
           /\ gate'.applied = MODE_TELEOP =>
                gate'.state = "silent" \/ (gate.applied = MODE_TELEOP /\ gate'.state = "stopping")
           /\ \/ /\ gate'.state = "silent" /\ gate'.out = Still
                 /\ gate.zeroPublished /\ gate'.zeroPublished = gate.zeroPublished
                 /\ UNCHANGED wire
              \/ /\ gate'.state # "silent" /\ wire' = Append(wire, gate'.out)
                 /\ gate'.zeroPublished <=> gate'.out = Still
           /\ \/ Permissive /\ gate'.out.v <= said.ceiling
              \/ gate'.out = RampTowardsZero(gate.out, gate.since)
           /\ gate'.state = "stopping" => gate'.out = RampTowardsZero(gate.out, gate.since)
<1> DEFINE outcome == Stepped(twist, cmdAge)
           ramped == RampTowardsZero(gate.out, gate.since)
           lets == Permissive /\ cmdAge <= COMMAND_TIMEOUT
<1>1. gate.out \in Twists /\ gate.since \in {0, 1} /\ gate.applied \in Modes
      /\ gate.zeroPublished \in BOOLEAN /\ said.ceiling \in Nat
  <2>1. said.ceiling \in Nat
    <3>1. said \in [enable : BOOLEAN, ceiling : Ceilings \cup {0}, permit : BOOLEAN, mode : Modes]
      BY DEF EnvelopeTypeOK, Said
    <3>2. said.ceiling \in Ceilings \cup {0}
      BY <3>1
    <3>3. QED
      BY <3>2, CeilingsAreNat
  <2>2. QED
    BY <2>1 DEF EnvelopeTypeOK, Cadence
<1>2. ramped \in Twists
  BY <1>1, Ramped
<1>3. /\ outcome.out \in Twists /\ outcome.state \in States
      /\ outcome.state \in {"hold zero", "silent"} => outcome.out = Still
      /\ outcome.state = "stopping" => outcome.out # Still /\ outcome.out = ramped
      /\ outcome.state = "silent" => gate.zeroPublished
      /\ \/ Permissive /\ outcome.out.v <= said.ceiling
         \/ outcome.out = ramped
  <2>1. CASE lets
    <3>1. outcome = [out |-> ClampToCeiling(twist, said.ceiling), state |-> "passing"]
      BY <2>1 DEF Stepped
    <3>2. QED
      BY <1>1, <2>1, <3>1, Clamped DEF States
  <2>2. CASE ~lets
    <3>1. outcome = [out |-> ramped,
                  state |-> IF ramped # Still THEN "stopping"
                            ELSE IF Release THEN "silent" ELSE "hold zero"]
      BY <2>2 DEF Stepped
    <3> HIDE DEF outcome, ramped
    <3>2. QED
      BY <1>2, <3>1 DEF States, Release
  <2>3. QED
    BY <2>1, <2>2
<1>4. /\ gate' = [state |-> outcome.state, out |-> outcome.out, applied |-> Applied(outcome.state),
                  zeroPublished |-> IF outcome.state = "silent" THEN gate.zeroPublished
                                    ELSE outcome.out = Still,
                  since |-> 0]
      /\ wire' = IF outcome.state = "silent" THEN wire ELSE Append(wire, outcome.out)
  BY DEF Step
<1> HIDE DEF outcome, ramped
<1>5. /\ Applied(outcome.state) \in Modes
      /\ Applied(outcome.state) = MODE_TELEOP =>
            outcome.state = "silent" \/ (gate.applied = MODE_TELEOP /\ outcome.state = "stopping")
  <2>1. Applied(outcome.state) = IF outcome.state = "silent" THEN MODE_TELEOP
            ELSE IF OnTime("mode") /\ said.mode = MODE_AUTONOMOUS THEN MODE_AUTONOMOUS
            ELSE IF outcome.state = "stopping" THEN gate.applied ELSE MODE_NONE
    BY DEF Applied
  <2>2. MODE_NONE \in Modes /\ MODE_TELEOP \in Modes /\ MODE_AUTONOMOUS \in Modes
        /\ MODE_TELEOP # MODE_AUTONOMOUS /\ MODE_TELEOP # MODE_NONE
    BY DEF Modes, MODE_TELEOP, MODE_AUTONOMOUS, MODE_NONE
  <2>3. QED
    BY <1>1, <2>1, <2>2
<1>6. gate' \in [state : States, out : Twists, applied : Modes,
                 zeroPublished : BOOLEAN, since : 0 .. STEP_MAX]
  <2>1. (IF outcome.state = "silent" THEN gate.zeroPublished ELSE outcome.out = Still) \in BOOLEAN
    <3>1. (outcome.out = Still) \in BOOLEAN
      OBVIOUS
    <3>2. QED
      BY <1>1, <3>1, Zenon
  <2>2. 0 \in 0 .. STEP_MAX
    BY EnvelopeBounds
  <2>3. QED
    <3> DEFINE zero == IF outcome.state = "silent" THEN gate.zeroPublished ELSE outcome.out = Still
    <3>1. gate' = [state |-> outcome.state, out |-> outcome.out, applied |-> Applied(outcome.state),
                   zeroPublished |-> zero, since |-> 0]
      BY <1>4
    <3>2. zero \in BOOLEAN
      BY <2>1
    <3> HIDE DEF zero
    <3>3. QED
      BY <1>3, <1>5, <2>2, <3>1, <3>2
<1>7. QED
  BY <1>3, <1>4, <1>5, <1>6 DEF ramped

\* More of a truck is more of its wheel.
LEMMA Rolls ==
    ASSUME NEW a \in Nat, NEW b \in Nat, NEW k \in Nat, k > 0
    PROVE  /\ a * k \in Nat /\ (a <= b => a * k <= b * k) /\ (a < b => a * k < b * k)
<1>1. a * k \in Nat /\ b * k \in Nat
  OBVIOUS
<1>2. ASSUME a <= b PROVE a * k <= b * k
  <2>1. b - a \in Nat /\ b = a + (b - a)
    BY <1>2
  <2>2. b * k = a * k + (b - a) * k /\ (b - a) * k \in Nat
    BY <2>1
  <2>3. QED
    BY <1>1, <2>2
<1>3. ASSUME a < b PROVE a * k < b * k
  <2>1. (b - a) - 1 \in Nat /\ b = a + 1 + ((b - a) - 1)
    BY <1>3
  <2>2. b * k = a * k + k + ((b - a) - 1) * k /\ ((b - a) - 1) * k \in Nat
    BY <2>1
  <2>3. QED
    BY <1>1, <2>2
<1>4. QED
  BY <1>1, <1>2, <1>3

\* What the converter makes of a twist: a steer angle, and no more wheel than it takes.
LEMMA Converted ==
    ASSUME NEW twist \in Twists
    PROVE  /\ SteerOf(twist) \in 1 .. STEER_STOP
           /\ JointSpeed(twist) \in 0 .. TRACTION_MAX
           /\ twist.v < CREEP_SPEED => JointSpeed(twist) = 0
           /\ JointSpeed(twist) <= twist.v * SteerOf(twist)
<1>1. twist.v \in Nat /\ twist.arc \in Nat /\ twist.arc > 0
  BY EnvelopeBounds DEF Twists
<1>2. SteerOf(twist) \in 1 .. STEER_STOP /\ SteerOf(twist) \in Nat /\ SteerOf(twist) > 0
  BY <1>1, EnvelopeBounds DEF SteerOf, AtMost
<1>3. twist.v * SteerOf(twist) \in Nat
  BY <1>1, <1>2, Rolls
<1> DEFINE wheel == twist.v * SteerOf(twist)
<1>4. JointSpeed(twist) = IF twist.v < CREEP_SPEED THEN 0 ELSE AtMost(wheel, TRACTION_MAX)
  BY DEF JointSpeed
<1>5. wheel \in Nat
  BY <1>3
<1> HIDE DEF wheel
<1>6. /\ JointSpeed(twist) \in 0 .. TRACTION_MAX /\ JointSpeed(twist) <= wheel
      /\ twist.v < CREEP_SPEED => JointSpeed(twist) = 0
  BY <1>4, <1>5, EnvelopeBounds DEF AtMost
<1>7. QED
  BY <1>2, <1>6 DEF wheel

\* At rest the ramp stays at rest, and the converter with it.
LEMMA AtRest == /\ \A dt \in {0, 1} : RampTowardsZero(Still, dt) = Still
                /\ JointSpeed(Still) = 0
<1>1. ASSUME NEW dt \in {0, 1} PROVE RampTowardsZero(Still, dt) = Still
  <2>1. STOP_DECEL * dt \in Nat
    BY EnvelopeBounds
  <2>2. Still.v <= ZERO_SPEED /\ Still.v <= ZERO_SPEED + STOP_DECEL * dt
    BY <2>1, StillIsATwist, EnvelopeBounds
  <2>3. QED
    BY <2>2 DEF RampTowardsZero
<1>2. JointSpeed(Still) = 0
  <2>1. 0 * SteerOf(Still) = 0 /\ JointSpeed(Still) \in 0 .. TRACTION_MAX
        /\ JointSpeed(Still) <= 0 * SteerOf(Still)
    <3>1. SteerOf(Still) \in 1 .. STEER_STOP
      BY StillIsATwist, Converted
    <3>2. SteerOf(Still) \in Nat
      BY <3>1, EnvelopeBounds
    <3>3. QED
      BY <3>2, StillIsATwist, Converted
  <2>2. QED
    BY <2>1, EnvelopeBounds
<1>3. QED
  BY <1>1, <1>2

LEMMA GateStep ==
    ASSUME EnvelopeInv, NEW twist \in Twists, NEW cmdAge, Step(twist, cmdAge),
           UNCHANGED <<said, ages, joint, steer, lag>>
    PROVE  /\ gate' \in [state : States, out : Twists, applied : Modes,
                         zeroPublished : BOOLEAN, since : 0 .. STEP_MAX]
           /\ gate'.state \in {"hold zero", "silent"} => gate'.out = Still
           /\ gate'.state = "stopping" => gate'.out # Still
           /\ wire' \in Seq(Twists)
           /\ Cadence' /\ LagOfAllowed' /\ RampKeepsUp' /\ OrderIsOut'
<1>1. EnvelopeTypeOK /\ Cadence
  BY DEF EnvelopeInv
<1> DEFINE ramped == RampTowardsZero(gate.out, gate.since)
<1>2. /\ gate.out \in Twists /\ gate'.out \in Twists /\ gate'.since = 0
      /\ gate.out.v \in 0 .. SPEED_MAX /\ gate'.out.v \in 0 .. SPEED_MAX
      /\ gate.since \in {0, 1} /\ wire \in Seq(Twists)
      /\ lag \in [1 .. SPEED_MAX -> 0 .. LAG_MAX]
  <2>1. gate' \in [state : States, out : Twists, applied : Modes, zeroPublished : BOOLEAN,
                   since : 0 .. STEP_MAX] /\ gate'.since = 0
    BY <1>1, StepParts
  <2>2. gate.out \in Twists /\ gate'.out \in Twists
    BY <1>1, <2>1, Ranges
  <2>3. gate.out.v \in 0 .. SPEED_MAX /\ gate'.out.v \in 0 .. SPEED_MAX
    BY <2>2 DEF Twists
  <2>4. QED
    BY <1>1, <2>1, <2>2, <2>3 DEF EnvelopeTypeOK, Cadence
<1>3. wire' \in Seq(Twists)
  <2>1. wire' = wire \/ wire' = Append(wire, gate'.out)
    BY <1>1, StepParts
  <2>2. wire \in Seq(Twists) /\ gate'.out \in Twists
    BY <1>2
  <2>3. QED
    BY <2>1, <2>2
<1> HIDE DEF ramped
<1>4. Cadence'
  BY <1>2 DEF Cadence
<1>5. LagOfAllowed'
  BY DEF EnvelopeInv, LagOfAllowed, Allowed
<1>6. RampKeepsUp'
  <2> SUFFICES ASSUME NEW v \in 1 .. SPEED_MAX, v <= gate'.out.v
               PROVE  lag[v] + gate'.out.v <= SPEED_MAX
    BY <1>2, EnvelopeBounds DEF RampKeepsUp
  <2>1. lag[v] \in Nat
    BY <1>1, Ranges
  <2>2. CASE Permissive /\ gate'.out.v <= said.ceiling
    <3>1. v <= said.ceiling
      <4>1. said.ceiling \in Nat
        BY <1>1, Ranges
      <4>2. QED
        BY <1>2, <2>2, <4>1, EnvelopeBounds
    <3>2. Allowed(v)
      BY <2>2, <3>1 DEF Permissive, EnvelopeFresh, OnTime, CeilingValid, Allowed
    <3>3. lag[v] = 0
      BY <3>2 DEF EnvelopeInv, LagOfAllowed
    <3>4. QED
      BY <1>2, <3>3, EnvelopeBounds
  <2>3. CASE gate'.out = ramped
    <3>1. ramped = Still \/ ramped.v <= gate.out.v - gate.since
      BY <1>2, Ramped DEF ramped
    <3>2. gate'.out.v \in Nat /\ gate.out.v \in Nat /\ v \in Nat /\ v > 0 /\ v <= gate'.out.v
      BY <1>2, EnvelopeBounds
    <3>3. gate'.out.v <= gate.out.v - gate.since
      BY <2>3, <3>1, <3>2, StillIsATwist
    <3>4. v <= gate.out.v
      BY <1>2, <3>2, <3>3
    <3>5. lag[v] + gate.out.v <= SPEED_MAX + gate.since
      BY <3>4 DEF EnvelopeInv, RampKeepsUp
    <3>6. gate.since \in Nat /\ SPEED_MAX \in Nat
      BY <1>2, EnvelopeBounds
    <3>7. QED
      BY <2>1, <3>2, <3>3, <3>5, <3>6
  <2>4. QED
    BY <1>1, <2>2, <2>3, StepParts DEF ramped
<1>7. OrderIsOut'
  <2>1. gate'.applied = MODE_TELEOP => gate'.state = "silent"
    <3>1. ~(gate.applied = MODE_TELEOP /\ gate'.state = "stopping")
      <4> SUFFICES ASSUME gate.applied = MODE_TELEOP, gate'.state = "stopping" PROVE FALSE
        OBVIOUS
      <4>1. gate.out = Still
        BY DEF EnvelopeInv, OrderIsOut, EnvelopeTypeOK
      <4>2. gate'.out = RampTowardsZero(gate.out, gate.since) /\ gate'.out # Still
        BY <1>1, StepParts
      <4>3. QED
        BY <1>2, <4>1, <4>2, AtRest
    <3>2. QED
      BY <1>1, <3>1, StepParts
  <2>2. CASE gate'.state = "silent"
    <3>1. /\ gate'.out = Still /\ gate.zeroPublished /\ gate'.zeroPublished
          /\ UNCHANGED wire
      BY <1>1, <2>2, StepParts
    <3>2. LastOrder = 0 /\ LastOrder' = 0
      BY <3>1 DEF EnvelopeInv, OrderIsOut, LastOrder
    <3>3. wire' = << >> /\ joint'.by = "gate" => joint'.v = 0
      BY <3>1, <3>2 DEF LastOrder
    <3>4. gate'.out.v * steer' \in Nat
      <4>1. steer' = steer /\ steer \in Nat /\ steer > 0
        BY <1>1, Ranges
      <4>2. gate'.out.v \in Nat
        BY <1>2, EnvelopeBounds
      <4>3. QED
        BY <4>1, <4>2, Rolls
    <3>5. wire' # << >> => wire'[Len(wire')].v <= gate'.out.v /\ wire'[Len(wire')].v = 0
      BY <3>1, StillIsATwist DEF EnvelopeInv, OrderIsOut
    <3>6. wire' = << >> /\ joint'.by = "gate" => joint'.v <= gate'.out.v * steer'
      BY <3>3, <3>4
    <3>7. QED
      BY <2>1, <2>2, <3>1, <3>2, <3>5, <3>6 DEF OrderIsOut
  <2>3. CASE gate'.state # "silent"
    <3>1. wire' = Append(wire, gate'.out) /\ (gate'.zeroPublished => gate'.out = Still)
      BY <1>1, <2>3, StepParts
    <3>2. wire' # << >> /\ wire'[Len(wire')] = gate'.out
      BY <1>2, <3>1
    <3>3. LastOrder' = JointSpeed(gate'.out)
      BY <3>2 DEF LastOrder, JointSpeed, SteerOf, AtMost
    <3>4. gate'.out.v <= gate'.out.v
      BY <1>2, EnvelopeBounds
    <3>5. QED
      BY <2>1, <2>3, <3>1, <3>2, <3>3, <3>4, AtRest, StillIsATwist DEF OrderIsOut
  <2>4. QED
    BY <2>2, <2>3
<1>8. QED
  BY <1>1, <1>3, <1>4, <1>5, <1>6, <1>7, StepParts

-----------------------------------------------------------------------------
(* The invariant is one. *)

LEMMA EnvelopeStarts == EnvelopeInit => EnvelopeInv
<1> SUFFICES ASSUME EnvelopeInit PROVE EnvelopeInv
  OBVIOUS
<1>1. EnvelopeTypeOK
  <2>1. said \in Said
    BY DEF EnvelopeInit, Said, Modes, MODE_NONE
  <2>2. ages \in [Elements -> 0 .. STALE_WINDOW + 1]
    <3>1. STALE_WINDOW + 1 \in 0 .. STALE_WINDOW + 1
      BY EnvelopeBounds
    <3>2. QED
      BY <3>1 DEF EnvelopeInit
  <2>3. cmd \in [twist : Twists, age : 0 .. COMMAND_TIMEOUT + 1]
    <3>1. COMMAND_TIMEOUT + 1 \in 0 .. COMMAND_TIMEOUT + 1
      BY EnvelopeBounds
    <3>2. QED
      BY <3>1, StillIsATwist DEF EnvelopeInit
  <2>4. gate \in [state : States, out : Twists, applied : Modes, zeroPublished : BOOLEAN,
                  since : 0 .. STEP_MAX]
    <3>1. 1 \in 0 .. STEP_MAX
      BY EnvelopeBounds
    <3>2. QED
      BY <3>1, StillIsATwist DEF EnvelopeInit, States, Modes, MODE_NONE
  <2>5. joint \in [v : 0 .. TRACTION_MAX, by : {"none", "gate", "plc"}]
        /\ steer \in 1 .. STEER_STOP
    <3>1. 0 \in 0 .. TRACTION_MAX /\ 1 \in 1 .. STEER_STOP
      BY EnvelopeBounds
    <3>2. QED
      BY <3>1 DEF EnvelopeInit
  <2>6. lag \in [1 .. SPEED_MAX -> 0 .. LAG_MAX]
    <3>1. LAG_MAX \in 0 .. LAG_MAX
      BY EnvelopeBounds DEF LAG_MAX
    <3>2. QED
      BY <3>1 DEF EnvelopeInit
  <2>7. due \in BOOLEAN /\ wire \in Seq(Twists) /\ gate.state = "hold zero" /\ gate.out = Still
    <3>1. due \in BOOLEAN
      BY DEF EnvelopeInit
    <3>2. wire \in Seq(Twists)
      <4>1. wire = << >>
        BY DEF EnvelopeInit
      <4>2. QED
        BY <4>1
    <3>3. gate.state = "hold zero" /\ gate.out = Still
      BY DEF EnvelopeInit
    <3>4. QED
      BY <3>1, <3>2, <3>3
  <2>8. QED
    BY <2>1, <2>2, <2>3, <2>4, <2>5, <2>6, <2>7 DEF EnvelopeTypeOK
<1>2. Cadence
  BY DEF Cadence, EnvelopeInit
<1>3. LagOfAllowed
  BY DEF LagOfAllowed, Allowed, EnvelopeInit, MODE_NONE, MODE_AUTONOMOUS
<1>4. RampKeepsUp
  <2>1. gate.out.v = 0
    BY StillIsATwist DEF EnvelopeInit
  <2>2. \A v \in 1 .. SPEED_MAX : ~(v <= 0)
    BY EnvelopeBounds
  <2>3. QED
    BY <2>1, <2>2 DEF RampKeepsUp
<1>5. OrderIsOut
  <2>1. wire = << >> /\ joint.by = "none" /\ gate.out = Still
        /\ gate.applied # MODE_TELEOP /\ gate.state # "silent"
    <3>1. wire = << >> /\ joint.by = "none"
      BY DEF EnvelopeInit
    <3>2. gate.out = Still /\ gate.state = "hold zero"
      BY DEF EnvelopeInit
    <3>3. gate.applied # MODE_TELEOP
      <4>1. gate.applied = MODE_NONE
        BY DEF EnvelopeInit
      <4>2. QED
        BY <4>1 DEF MODE_TELEOP, MODE_NONE
    <3>4. QED
      BY <3>1, <3>2, <3>3
  <2>2. LastOrder = 0
    BY <2>1 DEF LastOrder
  <2>3. QED
    BY <2>1, <2>2, StillIsATwist DEF OrderIsOut
<1>6. QED
  BY <1>1, <1>2, <1>3, <1>4, <1>5 DEF EnvelopeInv

\* Hearing an element touches neither the gate nor its orders.
LEMMA HearStep ==
    ASSUME EnvelopeInv, NEW e \in Elements, NEW value, Hear(e, value),
           said' \in Said
    PROVE  EnvelopeInv'
<1>1. EnvelopeTypeOK'
  <2>1. ages' \in [Elements -> 0 .. STALE_WINDOW + 1]
    <3>1. 0 \in 0 .. STALE_WINDOW + 1
      BY EnvelopeBounds
    <3>2. QED
      BY <3>1 DEF EnvelopeInv, EnvelopeTypeOK, Hear
  <2>2. lag' \in [1 .. SPEED_MAX -> 0 .. LAG_MAX]
    <3>1. 0 \in 0 .. LAG_MAX
      BY EnvelopeBounds DEF LAG_MAX
    <3>2. QED
      BY <3>1 DEF EnvelopeInv, EnvelopeTypeOK, Hear
  <2>3. QED
    BY <2>1, <2>2 DEF EnvelopeInv, EnvelopeTypeOK, Hear
<1>2. \A v \in 1 .. SPEED_MAX : lag'[v] = IF Allowed(v)' THEN 0 ELSE lag[v]
  BY DEF Hear
<1>3. LagOfAllowed'
  BY <1>2 DEF LagOfAllowed
<1>4. RampKeepsUp'
  <2>1. \A v \in 1 .. SPEED_MAX : lag[v] \in Nat /\ lag'[v] \in Nat /\ lag'[v] <= lag[v]
    <3>1. \A v \in 1 .. SPEED_MAX : lag[v] \in Nat
      BY Ranges DEF EnvelopeInv
    <3>2. QED
      BY <1>2, <3>1
  <2>2. gate.out.v \in Nat /\ SPEED_MAX + gate.since \in Nat /\ UNCHANGED gate
    <3>1. gate.since \in {0, 1} /\ UNCHANGED gate
      BY DEF EnvelopeInv, Cadence, Hear
    <3>2. QED
      BY <3>1, Ranges, EnvelopeBounds DEF EnvelopeInv
  <2>3. ASSUME NEW v \in 1 .. SPEED_MAX, v <= gate.out.v
        PROVE  lag'[v] + gate.out.v <= SPEED_MAX + gate.since
    <3>1. lag[v] + gate.out.v <= SPEED_MAX + gate.since
      BY <2>3 DEF EnvelopeInv, RampKeepsUp
    <3>2. QED
      BY <2>1, <2>2, <3>1
  <2>4. QED
    BY <2>2, <2>3 DEF RampKeepsUp
<1>5. Cadence' /\ OrderIsOut'
  BY DEF EnvelopeInv, Cadence, OrderIsOut, LastOrder, Hear
<1>6. QED
  BY <1>1, <1>3, <1>4, <1>5 DEF EnvelopeInv

LEMMA EnvelopeGoesOn == EnvelopeInv /\ [EnvelopeNext]_envelopeVars => EnvelopeInv'
<1> SUFFICES ASSUME EnvelopeInv, [EnvelopeNext]_envelopeVars PROVE EnvelopeInv'
  OBVIOUS
<1>1. CASE HearEnvelope
  <2>1. said \in [enable : BOOLEAN, ceiling : Ceilings \cup {0}, permit : BOOLEAN, mode : Modes]
    BY DEF EnvelopeInv, EnvelopeTypeOK, Said
  <2>2. ASSUME NEW e \in {"enable", "permit"}, NEW value \in BOOLEAN, Hear(e, value)
        PROVE  EnvelopeInv'
    <3>1. said' = [said EXCEPT ![e] = value] /\ e \in Elements
      BY <2>2 DEF Hear, Elements
    <3>2. said' \in Said
      BY <2>1, <3>1, <2>2 DEF Said
    <3>3. QED
      BY <2>2, <3>1, <3>2, HearStep
  <2>3. ASSUME NEW value \in Ceilings, Hear("ceiling", value) PROVE EnvelopeInv'
    <3>1. said' = [said EXCEPT !.ceiling = value] /\ "ceiling" \in Elements
      BY <2>3 DEF Hear, Elements
    <3>2. said' \in Said
      BY <2>1, <3>1 DEF Said
    <3>3. QED
      BY <2>3, <3>1, <3>2, HearStep
  <2>4. ASSUME NEW value \in ModesHeard, Hear("mode", value) PROVE EnvelopeInv'
    <3>1. said' = [said EXCEPT !.mode = value] /\ "mode" \in Elements /\ value \in Modes
      BY <2>4, EnvelopeInputs DEF Hear, Elements
    <3>2. said' \in Said
      BY <2>1, <3>1 DEF Said
    <3>3. QED
      BY <2>4, <3>1, <3>2, HearStep
  <2>5. QED
    BY <1>1, <2>2, <2>3, <2>4 DEF HearEnvelope
<1>2. ASSUME NEW twist \in Smoothed, HearCommand(twist) PROVE EnvelopeInv'
  <2>1. twist \in Twists /\ Step(twist, 0) /\ UNCHANGED <<said, ages, due, joint, steer, lag>>
        /\ cmd' = [twist |-> twist, age |-> 0]
    BY <1>2, EnvelopeInputs DEF HearCommand
  <2>2. cmd' \in [twist : Twists, age : 0 .. COMMAND_TIMEOUT + 1]
    BY <2>1, EnvelopeBounds
  <2>3. QED
    BY <2>1, <2>2, GateStep DEF EnvelopeInv, EnvelopeTypeOK
<1>3. CASE TimerFires
  <2>1. due' = FALSE /\ UNCHANGED <<said, ages, cmd, joint, steer, lag>> /\ cmd.twist \in Twists
    BY <1>3 DEF TimerFires, EnvelopeInv, EnvelopeTypeOK
  <2>2. CASE gate.state = "passing" /\ gate.since = 0
    <3>1. UNCHANGED <<gate, wire>>
      BY <1>3, <2>2 DEF TimerFires
    <3>2. QED
      BY <2>1, <2>2, <3>1
         DEF EnvelopeInv, EnvelopeTypeOK, Cadence, LagOfAllowed, Allowed, RampKeepsUp, OrderIsOut,
             LastOrder
  <2>3. CASE Step(cmd.twist, cmd.age)
    BY <2>1, <2>3, GateStep DEF EnvelopeInv, EnvelopeTypeOK
  <2>4. QED
    BY <1>3, <2>2, <2>3 DEF TimerFires
<1>4. CASE Deliver
  <2>1. /\ wire # << >> /\ wire \in Seq(Twists) /\ wire' = Tail(wire)
        /\ joint' = [v |-> JointSpeed(Head(wire)), by |-> "gate"]
        /\ steer' = IF Head(wire).v < CREEP_SPEED THEN steer ELSE SteerOf(Head(wire))
        /\ UNCHANGED <<said, ages, cmd, gate, due, lag>>
    BY <1>4 DEF Deliver, EnvelopeInv, EnvelopeTypeOK
  <2>2. Head(wire) \in Twists /\ Tail(wire) \in Seq(Twists) /\ Head(wire) = wire[1]
        /\ Len(wire) \in Nat /\ Len(wire) > 0 /\ Len(Tail(wire)) = Len(wire) - 1
        /\ \A i \in 1 .. Len(wire) - 1 : Tail(wire)[i] = wire[i + 1]
    BY <2>1
  <2>3. joint' \in [v : 0 .. TRACTION_MAX, by : {"none", "gate", "plc"}]
        /\ steer' \in 1 .. STEER_STOP
    BY <2>1, <2>2, Converted DEF EnvelopeInv, EnvelopeTypeOK
  <2>4. LastOrder' = LastOrder
    <3>1. CASE Len(wire) = 1
      <4>1. wire' = << >>
        BY <2>1, <2>2, <3>1
      <4>2. QED
        BY <2>1, <2>2, <3>1, <4>1 DEF LastOrder
    <3>2. CASE Len(wire) # 1
      <4>1. wire' # << >> /\ wire'[Len(wire')] = wire[Len(wire)]
        <5>1. Len(wire) - 1 \in 1 .. Len(wire) - 1
          BY <2>2, <3>2
        <5>2. Tail(wire)[Len(wire) - 1] = wire[Len(wire)]
          BY <2>2, <5>1
        <5>3. Tail(wire) # << >>
          BY <2>2, <3>2
        <5>4. QED
          BY <2>1, <2>2, <5>2, <5>3
      <4>2. QED
        BY <2>1, <4>1 DEF LastOrder, JointSpeed, SteerOf, AtMost
    <3>3. QED
      BY <3>1, <3>2
  <2>5. wire' # << >> => /\ wire'[Len(wire')].v <= gate'.out.v
                         /\ gate'.zeroPublished => wire'[Len(wire')].v = 0
    <3>1. ASSUME wire' # << >> PROVE wire'[Len(wire')] = wire[Len(wire)]
      <4> DEFINE n == Len(wire)
      <4>1. n \in Nat /\ n - 1 \in 1 .. n - 1 /\ n - 1 + 1 = n
        BY <2>1, <2>2, <3>1
      <4>2. Tail(wire)[n - 1] = wire[n]
        BY <2>2, <4>1
      <4>3. QED
        BY <2>1, <2>2, <4>2
    <3>2. QED
      BY <2>1, <3>1 DEF EnvelopeInv, OrderIsOut
  <2>6. wire' = << >> => joint'.v <= gate'.out.v * steer'
    <3> SUFFICES ASSUME wire' = << >> PROVE joint'.v <= gate'.out.v * steer'
      OBVIOUS
    <3> DEFINE last == Head(wire)
    <3>1. wire[Len(wire)] = last /\ last \in Twists
      BY <2>1, <2>2
    <3>2. last.v <= gate.out.v
      BY <2>1, <3>1 DEF EnvelopeInv, OrderIsOut
    <3>3. gate' = gate /\ joint'.v = JointSpeed(last)
          /\ steer' = IF last.v < CREEP_SPEED THEN steer ELSE SteerOf(last)
      BY <2>1
    <3> HIDE DEF last
    <3>4. steer' \in Nat /\ steer' > 0 /\ gate.out.v \in Nat /\ last.v \in Nat
      BY <2>3, <3>1, Ranges, EnvelopeBounds DEF EnvelopeInv, Twists
    <3>5. gate.out.v * steer' \in Nat /\ last.v * steer' <= gate.out.v * steer'
          /\ last.v * steer' \in Nat
      BY <3>2, <3>4, Rolls
    <3>6. CASE last.v < CREEP_SPEED
      BY <3>1, <3>3, <3>5, <3>6, Converted
    <3>7. CASE ~(last.v < CREEP_SPEED)
      <4>1. JointSpeed(last) <= last.v * steer' /\ JointSpeed(last) \in Nat
        BY <3>1, <3>3, <3>7, Converted, EnvelopeBounds
      <4>2. QED
        BY <3>3, <3>5, <4>1
    <3>8. QED
      BY <3>6, <3>7
  <2>7. QED
    BY <2>1, <2>2, <2>3, <2>4, <2>5, <2>6
       DEF EnvelopeInv, EnvelopeTypeOK, Cadence, LagOfAllowed, Allowed, RampKeepsUp, OrderIsOut
<1>5. ASSUME NEW v \in Setpoints \cup {0}, Setpoint(v) PROVE EnvelopeInv'
  <2>1. joint' = [v |-> v, by |-> "plc"] /\ UNCHANGED <<said, ages, cmd, gate, due, wire, steer, lag>>
    BY <1>5 DEF Setpoint
  <2>2. v \in 0 .. TRACTION_MAX
    BY EnvelopeBounds, EnvelopeInputs
  <2>3. LastOrder' = LastOrder \/ LastOrder' = 0
    BY <2>1 DEF LastOrder, JointSpeed, SteerOf, AtMost
  <2>4. gate.out.v \in Nat
    BY Ranges DEF EnvelopeInv
  <2>5. OrderIsOut'
    BY <2>1, <2>3, <2>4 DEF EnvelopeInv, OrderIsOut
  <2>6. QED
    BY <2>1, <2>2, <2>5
       DEF EnvelopeInv, EnvelopeTypeOK, Cadence, LagOfAllowed, Allowed, RampKeepsUp
<1>6. CASE Period
  <2>1. /\ ~due /\ due' = TRUE /\ UNCHANGED <<said, wire, joint, steer>>
        /\ ages' = [e \in Elements |-> Aging(ages[e], STALE_WINDOW + 1)]
        /\ cmd' = [cmd EXCEPT !.age = Aging(@, COMMAND_TIMEOUT + 1)]
        /\ gate' = [gate EXCEPT !.since = Aging(@, STEP_MAX)]
        /\ lag' = [v \in 1 .. SPEED_MAX |-> IF Allowed(v) THEN 0 ELSE Aging(lag[v], LAG_MAX)]
    BY <1>6 DEF Period
  <2>2. gate.since = 0 /\ Aging(gate.since, STEP_MAX) = 1
    BY <2>1, EnvelopeBounds DEF EnvelopeInv, Cadence, Aging
  <2>3. /\ gate'.since = 1 /\ gate'.out = gate.out /\ gate'.state = gate.state
        /\ gate'.applied = gate.applied /\ gate'.zeroPublished = gate.zeroPublished
        /\ gate' \in [state : States, out : Twists, applied : Modes, zeroPublished : BOOLEAN,
                      since : 0 .. STEP_MAX]
    <3>1. gate \in [state : States, out : Twists, applied : Modes, zeroPublished : BOOLEAN,
                    since : 0 .. STEP_MAX]
      BY DEF EnvelopeInv, EnvelopeTypeOK
    <3>2. gate' = [gate EXCEPT !.since = 1] /\ 1 \in 0 .. STEP_MAX
      BY <2>1, <2>2, EnvelopeBounds
    <3>3. QED
      BY <3>1, <3>2
  <2>4. ages' \in [Elements -> 0 .. STALE_WINDOW + 1]
        /\ \A e \in Elements : ages'[e] <= STALE_WINDOW => ages[e] <= STALE_WINDOW
    <3>1. \A e \in Elements : ages[e] \in Nat /\ ages[e] <= STALE_WINDOW + 1
      BY Ranges DEF EnvelopeInv
    <3>2. ASSUME NEW e \in Elements
          PROVE  /\ Aging(ages[e], STALE_WINDOW + 1) \in 0 .. STALE_WINDOW + 1
                 /\ ages[e] <= Aging(ages[e], STALE_WINDOW + 1)
      BY <3>1, EnvelopeBounds DEF Aging
    <3>3. ASSUME NEW e \in Elements, ages'[e] <= STALE_WINDOW PROVE ages[e] <= STALE_WINDOW
      <4>1. ages'[e] = Aging(ages[e], STALE_WINDOW + 1)
        BY <2>1
      <4>2. ages'[e] \in Nat /\ ages[e] <= ages'[e]
        BY <3>2, <4>1, EnvelopeBounds
      <4>3. QED
        BY <3>1, <3>3, <4>2, EnvelopeBounds
    <3>4. QED
      BY <2>1, <3>2, <3>3
  <2>5. \A v \in 1 .. SPEED_MAX :
            /\ lag[v] \in Nat /\ lag'[v] \in 0 .. LAG_MAX
            /\ lag'[v] \in Nat /\ lag'[v] <= lag[v] + 1
            /\ Allowed(v) => lag'[v] = 0
    <3>1. LAG_MAX \in Nat /\ \A v \in 1 .. SPEED_MAX : lag[v] \in Nat /\ lag[v] <= LAG_MAX
      BY Ranges, EnvelopeBounds DEF EnvelopeInv, LAG_MAX
    <3>2. \A v \in 1 .. SPEED_MAX :
            lag'[v] = IF Allowed(v) THEN 0 ELSE Aging(lag[v], LAG_MAX)
      BY <2>1
    <3>3. \A v \in 1 .. SPEED_MAX :
            Aging(lag[v], LAG_MAX) \in 0 .. LAG_MAX /\ Aging(lag[v], LAG_MAX) <= lag[v] + 1
      BY <3>1 DEF Aging
    <3>4. QED
      BY <3>1, <3>2, <3>3
  <2>6. EnvelopeTypeOK'
    <3>1. cmd' \in [twist : Twists, age : 0 .. COMMAND_TIMEOUT + 1]
      <4>1. Aging(cmd.age, COMMAND_TIMEOUT + 1) \in 0 .. COMMAND_TIMEOUT + 1
        BY Ranges, EnvelopeBounds DEF EnvelopeInv, Aging
      <4>2. QED
        BY <2>1, <4>1 DEF EnvelopeInv, EnvelopeTypeOK
    <3>2. lag' \in [1 .. SPEED_MAX -> 0 .. LAG_MAX]
      BY <2>1, <2>5
    <3>3. QED
      BY <2>1, <2>3, <2>4, <3>1, <3>2 DEF EnvelopeInv, EnvelopeTypeOK
  <2>7. Cadence' /\ OrderIsOut'
    <3>1. LastOrder' = LastOrder
      BY <2>1 DEF LastOrder, JointSpeed, SteerOf, AtMost
    <3>2. QED
      BY <2>1, <2>3, <3>1 DEF EnvelopeInv, Cadence, OrderIsOut
  <2>8. LagOfAllowed'
    <3>1. \A v \in 1 .. SPEED_MAX : Allowed(v)' => Allowed(v)
      BY <2>1, <2>4 DEF Allowed
    <3>2. QED
      BY <2>5, <3>1 DEF LagOfAllowed
  <2>9. RampKeepsUp'
    <3>1. gate.out.v \in Nat /\ SPEED_MAX \in Nat
      BY Ranges, EnvelopeBounds DEF EnvelopeInv
    <3>2. ASSUME NEW v \in 1 .. SPEED_MAX, v <= gate.out.v
          PROVE  lag'[v] + gate.out.v <= SPEED_MAX + 1
      <4>1. lag[v] + gate.out.v <= SPEED_MAX
        BY <2>2, <3>1, <3>2 DEF EnvelopeInv, RampKeepsUp
      <4>2. QED
        BY <2>5, <3>1, <4>1
    <3>3. QED
      BY <2>3, <3>2 DEF RampKeepsUp
  <2>10. QED
    BY <2>6, <2>7, <2>8, <2>9 DEF EnvelopeInv
<1>7. CASE UNCHANGED envelopeVars
  BY <1>7 DEF envelopeVars, EnvelopeInv, EnvelopeTypeOK, Cadence, LagOfAllowed, Allowed,
              RampKeepsUp, OrderIsOut, LastOrder, JointSpeed, SteerOf, AtMost
<1>8. QED
  BY <1>1, <1>2, <1>3, <1>4, <1>5, <1>6, <1>7 DEF EnvelopeNext

LEMMA EnvelopeAlways == EnvelopeSpec => []EnvelopeInv
<1>1. QED
  BY EnvelopeStarts, EnvelopeGoesOn, PTL DEF EnvelopeSpec

-----------------------------------------------------------------------------
(* What follows from it. *)

\* The gate's state keeps its type, and it stands still exactly when it says so.
THEOREM EnvelopeTypeCorrect == EnvelopeSpec => []EnvelopeTypeOK
<1>1. EnvelopeInv => EnvelopeTypeOK
  BY DEF EnvelopeInv
<1>2. QED
  BY <1>1, EnvelopeAlways, PTL

\* A speed the envelope has not allowed for as long as the ramp from full speed takes
\* is not the truck's by what the converter tells its joints, on any arc
\* (envelope_gate.py, _step and ramp_towards_zero; cmd_vel_to_tricycle.py).
THEOREM EnvelopeIsABound == EnvelopeSpec => []EnvelopeHolds
<1>1. EnvelopeInv => EnvelopeHolds
  <2> SUFFICES ASSUME EnvelopeInv, ~due, wire = << >>, joint.by = "gate",
                      NEW v \in 1 .. SPEED_MAX, lag[v] > SPEED_MAX
               PROVE  joint.v < v * steer
    BY DEF EnvelopeHolds
  <2>1. gate.since = 0 /\ joint.v <= gate.out.v * steer
    BY DEF EnvelopeInv, Cadence, OrderIsOut
  <2>2. joint.v \in Nat /\ steer \in Nat /\ steer > 0 /\ gate.out.v \in Nat /\ lag[v] \in Nat /\ v \in Nat
    BY Ranges, EnvelopeBounds DEF EnvelopeInv
  <2>3. ~(v <= gate.out.v)
    <3>1. v <= gate.out.v => lag[v] + gate.out.v <= SPEED_MAX + gate.since
      BY DEF EnvelopeInv, RampKeepsUp
    <3>2. QED
      BY <2>1, <2>2, <3>1, EnvelopeBounds
  <2>4. gate.out.v * steer < v * steer /\ gate.out.v * steer \in Nat /\ v * steer \in Nat
    BY <2>2, <2>3, Rolls
  <2>5. QED
    BY <2>1, <2>2, <2>4
<1>2. QED
  BY <1>1, EnvelopeAlways, PTL

\* The gate reports Teleop with its last order at rest only (release, _applied).
THEOREM TeleopIsHandedOverAtRest == EnvelopeSpec => []ReleasedAtRest
<1>1. EnvelopeInv => ReleasedAtRest
  BY DEF EnvelopeInv, OrderIsOut, ReleasedAtRest
<1>2. QED
  BY <1>1, EnvelopeAlways, PTL

-----------------------------------------------------------------------------
(***************************************************************************)
(* Theorems about Escalation: the way out of a stop ends in time, for      *)
(* every patience, deadline and number of nudges, on a line of any length  *)
(* and whatever happens round the truck.                                   *)
(***************************************************************************)

(* The invariant. *)

\* What is true of a mission's core between two steps, and of one whose clocks
\* have run on since.
CoreOK(n) ==
    /\ n \in CoreType
    /\ n.from = Never <=> n.spun = Never
    /\ n.from # Never => n.stop = PATIENCE /\ n.nudges # 0
    /\ n.state = "NUDGE" => n.from # Never
    /\ n.state = "BLOCKED" => n.stop = PATIENCE /\ n.from = Never /\ n.nudges = NUDGE_MAX

\* What the nudges still unspent will take, with the patience after each.
Cost(k) == (NUDGE_MAX - k) * (PATIENCE + NUDGE_TIMEOUT)

\* The steps it takes at most before a step says BLOCKED: counted after a step,
\* and before the next one, when the clocks have run on.
Left(n) ==
    Cost(n.nudges) + IF n.state = "NUDGE" THEN PATIENCE + NUDGE_TIMEOUT - 1 - n.spun
                                          ELSE PATIENCE - 1 - n.stop
Due(n) ==
    Cost(n.nudges) + IF n.from # Never THEN PATIENCE + NUDGE_TIMEOUT - n.spun
                     ELSE IF n.stop = Never THEN PATIENCE ELSE PATIENCE - n.stop

\* A step that stops leaves either time for another or the word.
Stopped(n) ==
    /\ n.state \in {"HOLD", "NUDGE", "BLOCKED"}
    /\ n.state = "HOLD" => n.from = Never /\ n.stop \in 0 .. PATIENCE - 1
    /\ n.state = "NUDGE" => n.spun \in 0 .. NUDGE_TIMEOUT - 1

\* The steps spent in front of the body and the steps left are never more than
\* the way out takes.
Closing ==
    wedged > 0 => Stopped(core) /\ (core.state # "BLOCKED" => wedged + Left(core) <= WayOut)

EscalationInv == EscalationTypeOK /\ CoreOK(core) /\ Closing

-----------------------------------------------------------------------------
(* The arithmetic of the way out. *)

LEMMA EscalationBounds ==
    /\ Track \in Nat /\ Track > 0 /\ PATIENCE \in Nat /\ PATIENCE > 0
    /\ NUDGE_TIMEOUT \in Nat /\ NUDGE_TIMEOUT > 0 /\ NUDGE_M \in Nat /\ PROGRESS_M \in Nat
    /\ STALL_GIVE_UP \in Nat /\ NUDGE_MAX \in Nat /\ Missions \in Nat /\ Turns \in Nat
    /\ Drops \in Nat /\ Never \notin Int
BY EscalationAssumption

\* A nudge costs its deadline and the patience after it.
LEMMA Costs ==
    /\ \A k \in 0 .. NUDGE_MAX : Cost(k) \in Nat /\ Cost(k) <= Cost(0)
    /\ \A k \in 0 .. NUDGE_MAX - 1 : Cost(k) = Cost(k + 1) + PATIENCE + NUDGE_TIMEOUT
    /\ WayOut = PATIENCE + Cost(0) /\ WayOut \in Nat
<1> DEFINE r == PATIENCE + NUDGE_TIMEOUT
<1>1. r \in Nat /\ NUDGE_MAX \in Nat
  BY EscalationBounds
<1>2. ASSUME NEW k \in 0 .. NUDGE_MAX PROVE Cost(k) \in Nat /\ Cost(k) <= Cost(0)
  <2>1. k * r \in Nat /\ (NUDGE_MAX - k) * r \in Nat
    BY <1>1, <1>2
  <2>2. NUDGE_MAX * r = (NUDGE_MAX - k) * r + k * r
    BY <1>1, <1>2
  <2>3. QED
    BY <1>1, <2>1, <2>2 DEF Cost
<1>3. ASSUME NEW k \in 0 .. NUDGE_MAX - 1
      PROVE  Cost(k) = Cost(k + 1) + PATIENCE + NUDGE_TIMEOUT
  <2>1. (NUDGE_MAX - k) * r = (NUDGE_MAX - (k + 1)) * r + r
    BY <1>1, <1>3
  <2>2. QED
    BY <1>1, <2>1, EscalationBounds DEF Cost
<1>4. WayOut = PATIENCE + Cost(0)
  BY EscalationBounds DEF WayOut, Cost
<1>5. QED
  BY <1>1, <1>2, <1>3, <1>4, EscalationBounds

\* The way out takes as long as it may before the first step, too.
LEMMA DueIsBounded ==
    ASSUME NEW n, CoreOK(n)
    PROVE  Due(n) \in Int /\ Due(n) <= WayOut
<1>1. /\ n.nudges \in 0 .. NUDGE_MAX /\ n.stop \in Times(PATIENCE)
      /\ n.from # Never => n.spun \in 0 .. NUDGE_TIMEOUT /\ n.nudges # 0
  BY DEF CoreOK, CoreType, Times
<1>2. CASE n.from # Never
  <2>1. n.nudges - 1 \in 0 .. NUDGE_MAX - 1 /\ (n.nudges - 1) + 1 = n.nudges
    BY <1>1, <1>2, EscalationBounds
  <2>2. /\ Cost(n.nudges - 1) = Cost(n.nudges) + PATIENCE + NUDGE_TIMEOUT
        /\ Cost(n.nudges - 1) <= Cost(0) /\ Cost(n.nudges - 1) \in Nat /\ Cost(n.nudges) \in Nat
    BY <1>1, <2>1, Costs, EscalationBounds
  <2>3. QED
    BY <1>1, <1>2, <2>2, Costs, EscalationBounds DEF Due
<1>3. CASE n.from = Never
  <2>1. Cost(n.nudges) \in Nat /\ Cost(n.nudges) <= Cost(0) /\ Cost(0) \in Nat
    BY <1>1, Costs, EscalationBounds
  <2>2. n.stop # Never => n.stop \in 0 .. PATIENCE
    BY <1>1 DEF Times
  <2>3. QED
    BY <1>3, <2>1, <2>2, Costs, EscalationBounds DEF Due
<1>4. QED
  BY <1>2, <1>3

-----------------------------------------------------------------------------
(* One step of nav. *)

\* Every answer of the escalation keeps the core sound; where there is floor to
\* be seen and none of it free, it spends a step of those that are left.
LEMMA OneAnswer ==
    ASSUME world \in WorldType, NEW n, CoreOK(n)
    PROVE  /\ CoreOK(Escalated(n))
           /\ world.dead = {} /\ ~world.gap =>
                /\ Stopped(Escalated(n))
                /\ Escalated(n).state # "BLOCKED" => Left(Escalated(n)) + 1 <= Due(n)
                /\ n.state = "BLOCKED" => Escalated(n).state = "BLOCKED"
<1> DEFINE e == Escalated(n)
           s == [n EXCEPT !.stop = IF n.stop = Never THEN 0 ELSE n.stop]
<1>1. /\ n \in CoreType /\ n.nudges \in 0 .. NUDGE_MAX /\ n.stop \in Times(PATIENCE)
      /\ n.from \in Spots /\ n.spun \in Times(NUDGE_TIMEOUT)
  BY DEF CoreOK, CoreType
<1>2. /\ s \in CoreType /\ s.stop \in 0 .. PATIENCE
      /\ s.stop = (IF n.stop = Never THEN 0 ELSE n.stop)
      /\ s.nudges = n.nudges /\ s.from = n.from /\ s.spun = n.spun /\ s.state = n.state
  BY <1>1, EscalationBounds DEF CoreType, Times
<1>3. /\ n.from = Never <=> n.spun = Never
      /\ n.from # Never => n.stop = PATIENCE /\ n.nudges # 0 /\ n.spun \in 0 .. NUDGE_TIMEOUT
      /\ n.state = "NUDGE" => n.from # Never
      /\ n.state = "BLOCKED" => n.stop = PATIENCE /\ n.from = Never /\ n.nudges = NUDGE_MAX
  BY <1>1 DEF CoreOK, Times
<1>4. CASE "scan" \in world.dead
  <2>1. e = [n EXCEPT !.state = "HOLD"]
    BY <1>4 DEF Escalated
  <2>2. e \in CoreType
    BY <1>1, <2>1 DEF CoreType, UnderWay
  <2>3. QED
    BY <1>1, <1>3, <1>4, <2>1, <2>2 DEF CoreOK, CoreType
<1>5. CASE "scan" \notin world.dead /\ s.stop < PATIENCE
  <2>1. e = [s EXCEPT !.state = "HOLD"]
    BY <1>5 DEF Escalated
  <2>2. /\ e \in CoreType /\ e.state = "HOLD" /\ e.stop = s.stop /\ e.from = n.from
        /\ e.spun = n.spun /\ e.nudges = n.nudges
    BY <1>2, <2>1 DEF CoreType, UnderWay
  <2>3. n.from = Never /\ n.state # "BLOCKED" /\ PATIENCE # Never
    BY <1>2, <1>3, <1>5, EscalationBounds
  <2>4. CoreOK(e)
    BY <1>3, <2>2, <2>3 DEF CoreOK
  <2>5. Stopped(e)
    BY <1>2, <1>5, <2>2, <2>3, EscalationBounds DEF Stopped
  <2>6. Left(e) + 1 <= Due(n)
    <3>1. Cost(n.nudges) \in Nat
      BY <1>1, Costs
    <3>2. Left(e) = Cost(n.nudges) + (PATIENCE - 1 - s.stop)
      BY <2>2 DEF Left
    <3>3. Due(n) = Cost(n.nudges) + (PATIENCE - s.stop)
      BY <1>2, <2>3, EscalationBounds DEF Due
    <3>4. QED
      BY <1>2, <3>1, <3>2, <3>3, EscalationBounds
  <2>7. QED
    BY <2>2, <2>3, <2>4, <2>5, <2>6
<1>6. CASE "scan" \notin world.dead /\ ~(s.stop < PATIENCE) /\ n.from # Never /\ NudgeOver(s)
  <2>1. e = [s EXCEPT !.from = Never, !.spun = Never, !.stop = 0, !.state = "HOLD"]
    BY <1>2, <1>6 DEF Escalated
  <2>9. 0 \in Times(PATIENCE) /\ Never \in Times(NUDGE_TIMEOUT) /\ Never \in Spots
    BY EscalationBounds DEF Times, Spots
  <2>2. /\ e \in CoreType /\ e.state = "HOLD" /\ e.stop = 0 /\ e.from = Never
        /\ e.spun = Never /\ e.nudges = n.nudges
    BY <1>2, <2>1, <2>9, ZenonT(60) DEF CoreType, UnderWay
  <2>3. CoreOK(e)
    BY <2>2 DEF CoreOK
  <2>4. Stopped(e)
    BY <2>2, EscalationBounds DEF Stopped
  <2>5. Left(e) + 1 <= Due(n)
    <3>1. Cost(n.nudges) \in Nat
      BY <1>1, Costs
    <3>2. Left(e) = Cost(n.nudges) + (PATIENCE - 1)
      BY <2>2, EscalationBounds DEF Left
    <3>3. Due(n) = Cost(n.nudges) + (PATIENCE + NUDGE_TIMEOUT - n.spun)
      BY <1>6 DEF Due
    <3>4. QED
      BY <1>3, <1>6, <3>1, <3>2, <3>3, EscalationBounds
  <2>6. QED
    BY <1>3, <1>6, <2>3, <2>4, <2>5
<1>7. CASE "scan" \notin world.dead /\ ~(s.stop < PATIENCE) /\ n.from # Never /\ ~NudgeOver(s)
  <2>1. e = [s EXCEPT !.state = "NUDGE"]
    BY <1>2, <1>7 DEF Escalated
  <2>2. /\ e \in CoreType /\ e.state = "NUDGE" /\ e.stop = s.stop /\ e.from = n.from
        /\ e.spun = n.spun /\ e.nudges = n.nudges
    BY <1>2, <2>1 DEF CoreType, UnderWay
  <2>3. s.stop = PATIENCE
    BY <1>2, <1>3, <1>7, EscalationBounds
  <2>4. CoreOK(e)
    BY <1>3, <1>7, <2>2, <2>3 DEF CoreOK
  <2>5. n.spun \in 0 .. NUDGE_TIMEOUT - 1
    BY <1>2, <1>3, <1>7, EscalationBounds DEF NudgeOver
  <2>6. Stopped(e)
    BY <2>2, <2>5 DEF Stopped
  <2>7. Left(e) + 1 <= Due(n)
    <3>1. Cost(n.nudges) \in Nat
      BY <1>1, Costs
    <3>2. Left(e) = Cost(n.nudges) + (PATIENCE + NUDGE_TIMEOUT - 1 - n.spun)
      BY <2>2 DEF Left
    <3>3. Due(n) = Cost(n.nudges) + (PATIENCE + NUDGE_TIMEOUT - n.spun)
      BY <1>7 DEF Due
    <3>4. QED
      BY <2>5, <3>1, <3>2, <3>3, EscalationBounds
  <2>8. QED
    BY <1>3, <1>7, <2>4, <2>6, <2>7
<1>8. CASE "scan" \notin world.dead /\ ~(s.stop < PATIENCE) /\ n.from = Never /\ world.gap
  <2>1. e = [s EXCEPT !.state = "AVOID"]
    BY <1>2, <1>8 DEF Escalated
  <2>2. /\ e \in CoreType /\ e.state = "AVOID" /\ e.from = n.from /\ e.spun = n.spun
    BY <1>2, <2>1 DEF CoreType, UnderWay
  <2>3. QED
    BY <1>3, <1>8, <2>2 DEF CoreOK
<1>9. CASE /\ "scan" \notin world.dead /\ ~(s.stop < PATIENCE) /\ n.from = Never
           /\ ~world.gap /\ n.nudges < NUDGE_MAX
  <2>1. e = [s EXCEPT !.nudges = s.nudges + 1, !.from = world.at, !.spun = 0, !.state = "NUDGE"]
    BY <1>2, <1>9 DEF Escalated
  <2>2. world.at \in Positions /\ n.nudges + 1 \in 0 .. NUDGE_MAX /\ 0 \in Times(NUDGE_TIMEOUT)
    BY <1>1, <1>9, EscalationBounds DEF WorldType, Times
  <2>3. /\ e \in CoreType /\ e.state = "NUDGE" /\ e.stop = s.stop /\ e.from = world.at
        /\ e.spun = 0 /\ e.nudges = n.nudges + 1
    BY <1>2, <2>1, <2>2, ZenonT(60) DEF CoreType, UnderWay, Spots
  <2>4. s.stop = PATIENCE /\ world.at # Never /\ Never # 0 /\ n.nudges + 1 # 0
    BY <1>1, <1>2, <1>9, <2>2, EscalationBounds DEF Positions
  <2>5. CoreOK(e)
    BY <2>3, <2>4 DEF CoreOK
  <2>6. Stopped(e)
    BY <2>3, EscalationBounds DEF Stopped
  <2>7. Left(e) + 1 <= Due(n)
    <3>1. /\ n.nudges \in 0 .. NUDGE_MAX - 1 /\ Cost(n.nudges) \in Nat /\ Cost(n.nudges + 1) \in Nat
      BY <1>1, <1>9, <2>2, Costs, EscalationBounds
    <3>2. Cost(n.nudges) = Cost(n.nudges + 1) + PATIENCE + NUDGE_TIMEOUT
      BY <3>1, Costs
    <3>3. Left(e) = Cost(n.nudges + 1) + (PATIENCE + NUDGE_TIMEOUT - 1)
      BY <2>3, EscalationBounds DEF Left
    <3>4. n.stop = PATIENCE /\ Due(n) = Cost(n.nudges) + (PATIENCE - PATIENCE)
      BY <1>2, <1>9, <2>4, EscalationBounds DEF Due
    <3>5. QED
      BY <3>1, <3>2, <3>3, <3>4, EscalationBounds
  <2>8. QED
    BY <1>3, <1>9, <2>5, <2>6, <2>7, EscalationBounds
<1>10. CASE /\ "scan" \notin world.dead /\ ~(s.stop < PATIENCE) /\ n.from = Never
            /\ ~world.gap /\ ~(n.nudges < NUDGE_MAX)
  <2>1. e = [s EXCEPT !.state = "BLOCKED"]
    BY <1>2, <1>10 DEF Escalated
  <2>2. /\ e \in CoreType /\ e.state = "BLOCKED" /\ e.stop = s.stop /\ e.from = n.from
        /\ e.spun = n.spun /\ e.nudges = n.nudges
    BY <1>2, <2>1 DEF CoreType, UnderWay
  <2>3. s.stop = PATIENCE /\ n.nudges = NUDGE_MAX
    BY <1>1, <1>2, <1>10, EscalationBounds
  <2>4. CoreOK(e)
    BY <1>3, <1>10, <2>2, <2>3 DEF CoreOK
  <2>5. QED
    BY <2>2, <2>4 DEF Stopped
<1>11. QED
  BY <1>4, <1>5, <1>6, <1>7, <1>8, <1>9, <1>10

\* Between two steps the clocks run on, and that takes nothing from what is left.
Later(n) == [n EXCEPT !.stop = Aged(@, PATIENCE), !.spun = Aged(@, NUDGE_TIMEOUT)]

LEMMA ClocksRun ==
    ASSUME NEW n, CoreOK(n)
    PROVE  /\ CoreOK(Later(n)) /\ Later(n).state = n.state
           /\ Stopped(n) => Left(n) \in Int
           /\ Stopped(n) /\ n.state # "BLOCKED" => Due(Later(n)) <= Left(n)
<1> DEFINE l == Later(n)
<1>1. /\ n \in CoreType /\ n.stop \in Times(PATIENCE) /\ n.spun \in Times(NUDGE_TIMEOUT)
      /\ n.nudges \in 0 .. NUDGE_MAX
  BY DEF CoreOK, CoreType
<1>2. ASSUME NEW cap \in Nat, NEW age \in Times(cap)
      PROVE  Aged(age, cap) \in Times(cap) /\ (age = cap => Aged(age, cap) = cap)
             /\ (age = Never <=> Aged(age, cap) = Never)
             /\ (age \in 0 .. cap - 1 => Aged(age, cap) = age + 1)
  BY <1>2, EscalationBounds DEF Aged, Times
<1>3. /\ l \in CoreType /\ l.state = n.state /\ l.nudges = n.nudges /\ l.from = n.from
      /\ l.stop = Aged(n.stop, PATIENCE) /\ l.spun = Aged(n.spun, NUDGE_TIMEOUT)
  <2>1. Aged(n.stop, PATIENCE) \in Times(PATIENCE) /\ Aged(n.spun, NUDGE_TIMEOUT) \in Times(NUDGE_TIMEOUT)
    BY <1>1, <1>2, EscalationBounds
  <2>2. QED
    BY <1>1, <2>1 DEF CoreType, Later
<1>4. CoreOK(l)
  BY <1>1, <1>2, <1>3, EscalationBounds DEF CoreOK
<1>5. Stopped(n) => Left(n) \in Int
  <2>1. Cost(n.nudges) \in Nat
    BY <1>1, Costs
  <2>2. Stopped(n) /\ n.state = "BLOCKED" => n.stop = PATIENCE
    BY DEF CoreOK
  <2>3. QED
    BY <2>1, <2>2, EscalationBounds DEF Stopped, Left
<1>6. ASSUME Stopped(n), n.state # "BLOCKED" PROVE Due(l) <= Left(n)
  <2>1. Cost(n.nudges) \in Nat
    BY <1>1, Costs
  <2>2. CASE n.state = "HOLD"
    <3>1. n.stop \in 0 .. PATIENCE - 1 /\ l.from = Never /\ l.stop = n.stop + 1
      BY <1>1, <1>2, <1>3, <1>6, <2>2, EscalationBounds DEF Stopped
    <3>2. Due(l) = Cost(n.nudges) + (PATIENCE - (n.stop + 1))
      BY <1>3, <3>1, EscalationBounds DEF Due
    <3>3. Left(n) = Cost(n.nudges) + (PATIENCE - 1 - n.stop)
      BY <2>2 DEF Left
    <3>4. QED
      BY <2>1, <3>1, <3>2, <3>3, EscalationBounds
  <2>3. CASE n.state = "NUDGE"
    <3>1. n.spun \in 0 .. NUDGE_TIMEOUT - 1 /\ l.from # Never /\ l.spun = n.spun + 1
      BY <1>1, <1>2, <1>3, <1>6, <2>3, EscalationBounds DEF Stopped, CoreOK
    <3>2. Due(l) = Cost(n.nudges) + (PATIENCE + NUDGE_TIMEOUT - (n.spun + 1))
      BY <1>3, <3>1 DEF Due
    <3>3. Left(n) = Cost(n.nudges) + (PATIENCE + NUDGE_TIMEOUT - 1 - n.spun)
      BY <2>3 DEF Left
    <3>4. QED
      BY <2>1, <3>1, <3>2, <3>3, EscalationBounds
  <2>4. QED
    BY <1>6, <2>2, <2>3 DEF Stopped
<1>7. QED
  BY <1>3, <1>4, <1>5, <1>6

\* A core whose stop is forgotten is sound in any state that needs no stop.
LEMMA ClearedOK ==
    ASSUME NEW n \in CoreType
    PROVE  /\ Cleared(n) \in CoreType
           /\ Cleared(n).from = Never /\ Cleared(n).spun = Never /\ Cleared(n).state = n.state
<1>1. Never \in Times(PATIENCE) /\ Never \in Times(NUDGE_TIMEOUT) /\ Never \in Spots /\ 0 \in 0 .. NUDGE_MAX
  BY EscalationBounds DEF Times, Spots
<1>2. QED
  BY <1>1 DEF CoreType, Cleared

LEMMA OneStep ==
    ASSUME world \in WorldType, NEW n, CoreOK(n)
    PROVE  /\ CoreOK(NavStepped(n))
           /\ Wedged(NavStepped(n)) =>
                /\ Stopped(NavStepped(n))
                /\ NavStepped(n).state # "BLOCKED" => Left(NavStepped(n)) + 1 <= Due(n)
                /\ n.state = "BLOCKED" => NavStepped(n).state = "BLOCKED"
<1> DEFINE e == NavStepped(n)
           turned == [n EXCEPT !.astern = n.end < world.at]
<1>1. n \in CoreType /\ (n.end < world.at) \in BOOLEAN
  BY DEF CoreOK
<1>2. /\ turned \in CoreType /\ turned.state = n.state /\ turned.stop = n.stop
      /\ turned.nudges = n.nudges /\ turned.from = n.from /\ turned.spun = n.spun
  BY <1>1 DEF CoreType
<1>3. CoreOK(turned) /\ Due(turned) = Due(n)
  BY <1>2 DEF CoreOK, Due
<1>4. CASE n.state \notin UnderWay \/ "pose" \in world.dead
  <2>1. e = n
    BY <1>4 DEF NavStepped
  <2>2. ~Wedged(e)
    BY <1>4, <2>1 DEF Wedged, UnderWay
  <2>3. QED
    BY <2>1, <2>2
<1>5. CASE ~(n.state \notin UnderWay \/ "pose" \in world.dead) /\ world.at = n.end
  <2>1. e = [n EXCEPT !.state = "ARRIVED", !.astern = FALSE]
    BY <1>5 DEF NavStepped
  <2>2. /\ e \in CoreType /\ e.state = "ARRIVED" /\ e.stop = n.stop
        /\ e.nudges = n.nudges /\ e.from = n.from /\ e.spun = n.spun
    BY <1>1, <2>1 DEF CoreType
  <2>3. QED
    BY <2>2 DEF CoreOK, Wedged
<1>6. CASE /\ ~(n.state \notin UnderWay \/ "pose" \in world.dead) /\ ~(world.at = n.end)
           /\ ~world.motor
  <2>1. e = [n EXCEPT !.state = "SAFETY-STOP"]
    BY <1>6 DEF NavStepped
  <2>2. /\ e \in CoreType /\ e.state = "SAFETY-STOP" /\ e.stop = n.stop
        /\ e.nudges = n.nudges /\ e.from = n.from /\ e.spun = n.spun
    BY <1>1, <2>1 DEF CoreType, UnderWay
  <2>3. QED
    BY <2>2 DEF CoreOK, Wedged
<1>7. CASE /\ ~(n.state \notin UnderWay \/ "pose" \in world.dead) /\ ~(world.at = n.end)
           /\ world.motor /\ Stops(turned.astern)
  <2>1. e = Escalated(turned)
    BY <1>7 DEF NavStepped
  <2>2. Wedged(e) => world.dead = {} /\ ~world.gap
    BY DEF Wedged
  <2> HIDE DEF turned
  <2>3. QED
    BY <1>2, <1>3, <2>1, <2>2, OneAnswer
<1>8. CASE /\ ~(n.state \notin UnderWay \/ "pose" \in world.dead) /\ ~(world.at = n.end)
           /\ world.motor /\ ~Stops(turned.astern)
  <2>1. e = [Cleared(turned) EXCEPT !.state = "EN-ROUTE"]
    BY <1>8 DEF NavStepped
  <2>2. /\ e \in CoreType /\ e.state = "EN-ROUTE" /\ e.from = Never /\ e.spun = Never
    <3>1. Cleared(turned) \in CoreType /\ Cleared(turned).from = Never /\ Cleared(turned).spun = Never
      BY <1>2, ClearedOK
    <3> HIDE DEF turned
    <3>2. QED
      BY <2>1, <3>1 DEF CoreType, UnderWay
  <2>3. QED
    BY <2>2 DEF CoreOK, Wedged
<1>9. QED
  BY <1>4, <1>5, <1>6, <1>7, <1>8

-----------------------------------------------------------------------------
(* The invariance. *)

LEMMA EscalationStarts == EscalationInit => EscalationInv
<1> SUFFICES ASSUME EscalationInit PROVE EscalationInv
  OBVIOUS
<1>1. /\ 0 \in Positions /\ 1 \in Positions /\ Never \in Spots /\ 0 \in 0 .. Elsewhere
      /\ Never \in Times(PATIENCE) /\ Never \in Times(NUDGE_TIMEOUT)
      /\ 0 \in 0 .. NUDGE_MAX /\ 0 \in 0 .. Missions /\ 0 \in 0 .. STALL_GIVE_UP
  BY EscalationBounds DEF Positions, Spots, Times, Elsewhere
<1>2. core \in CoreType /\ core.from = Never /\ core.spun = Never /\ core.state = "IDLE"
  BY <1>1 DEF EscalationInit, CoreType
<1>3. /\ world \in WorldType /\ air \subseteq StateType /\ next \in {"nav", "agent", "fleet"}
  BY <1>1 DEF EscalationInit, WorldType, StateType
<1>4. /\ driver \in [order : 0 .. Missions, executing : BOOLEAN,
                     navState : UnderWay \cup {"IDLE", "ARRIVED"}]
      /\ watch \in [order : 0 .. Missions, anchor : Spots, held : 0 .. STALL_GIVE_UP]
  BY <1>1 DEF EscalationInit
<1>5. /\ missions \in 0 .. Missions /\ turns \in 0 .. Turns /\ drops \in 0 .. Drops
      /\ wedged \in 0 .. WayOut + 1 /\ wedged = 0
  BY EscalationBounds, Costs DEF EscalationInit
<1>6. QED
  BY <1>2, <1>3, <1>4, <1>5 DEF EscalationInv, EscalationTypeOK, CoreOK, Closing

\* A step of nav keeps the account of the way out.
LEMMA NavKeeps == EscalationInv /\ NavSteps => EscalationInv'
<1> SUFFICES ASSUME EscalationInv, NavSteps PROVE EscalationInv'
  OBVIOUS
<1> DEFINE l == Later(core)
           e == NavStepped(l)
<1>1. /\ core' = e /\ wedged' = (IF Wedged(e) THEN Aged(wedged, WayOut + 1) ELSE 0)
      /\ \E at \in Reached(e) : world' = [world EXCEPT !.at = at]
      /\ next' = "agent" /\ UNCHANGED <<driver, air, watch, missions, turns, drops>>
  BY DEF NavSteps, Later
<1>2. world \in WorldType /\ CoreOK(core) /\ wedged \in 0 .. WayOut + 1
  BY DEF EscalationInv, EscalationTypeOK
<1>3. /\ CoreOK(l) /\ l.state = core.state
      /\ Stopped(core) => Left(core) \in Int
      /\ Stopped(core) /\ core.state # "BLOCKED" => Due(l) <= Left(core)
  BY <1>2, ClocksRun
<1>4. Due(l) \in Int /\ Due(l) <= WayOut
  BY <1>3, DueIsBounded
<1>5. /\ CoreOK(e)
      /\ Wedged(e) =>
            /\ Stopped(e)
            /\ e.state # "BLOCKED" => Left(e) + 1 <= Due(l)
            /\ l.state = "BLOCKED" => e.state = "BLOCKED"
  BY <1>2, <1>3, OneStep
<1>6. Stopped(e) => Left(e) \in Int
  BY <1>5, ClocksRun
<1> HIDE DEF l, e
<1>7. wedged' \in 0 .. WayOut + 1 /\ wedged' <= wedged + 1
  BY <1>1, <1>2, Costs, EscalationBounds DEF Aged
<1>8. Closing'
  <2> SUFFICES ASSUME wedged' > 0 PROVE Stopped(e) /\ (e.state # "BLOCKED" => wedged' + Left(e) <= WayOut)
    BY <1>1 DEF Closing
  <2>1. Wedged(e)
    BY <1>1
  <2>2. ASSUME e.state # "BLOCKED" PROVE wedged' + Left(e) <= WayOut
    <3>1. Stopped(e) /\ Left(e) \in Int /\ Left(e) + 1 <= Due(l)
      BY <1>5, <1>6, <2>1, <2>2
    <3>2. CASE wedged = 0
      BY <1>4, <1>7, <3>1, <3>2, Costs
    <3>3. CASE wedged > 0
      <4>1. Stopped(core) /\ core.state # "BLOCKED" /\ wedged + Left(core) <= WayOut
        BY <1>3, <1>5, <2>1, <2>2, <3>3 DEF EscalationInv, Closing
      <4>2. Left(core) \in Int /\ Due(l) <= Left(core)
        BY <1>3, <4>1
      <4>3. QED
        BY <1>2, <1>4, <1>7, <3>1, <4>1, <4>2, Costs
    <3>4. QED
      BY <1>2, <3>2, <3>3, Costs
  <2>3. QED
    BY <1>5, <2>1, <2>2
<1>9. CoreOK(core)'
  BY <1>1, <1>5 DEF CoreOK
<1>10. world' \in WorldType
  <2>1. PICK at \in Reached(e) : world' = [world EXCEPT !.at = at]
    BY <1>1
  <2>2. at \in Positions
    BY <1>2, <2>1 DEF Reached, WorldType
  <2>3. QED
    BY <1>2, <2>1, <2>2 DEF WorldType
<1>11. EscalationTypeOK'
  BY <1>1, <1>7, <1>9, <1>10 DEF EscalationInv, EscalationTypeOK, CoreOK
<1>12. QED
  BY <1>8, <1>9, <1>11 DEF EscalationInv

\* The other steps leave the core as it is, or start an account of their own.
LEMMA AccountKept ==
    EscalationInv /\ core' = core /\ wedged' = wedged => CoreOK(core)' /\ Closing'
BY DEF EscalationInv, CoreOK, Closing, Stopped, Left, Cost

LEMMA AccountOpened ==
    CoreOK(core') /\ wedged' = 0 => CoreOK(core)' /\ Closing'
BY DEF CoreOK, Closing

LEMMA OtherTypes ==
    ASSUME EscalationTypeOK, CoreOK(core)', world' \in WorldType,
           driver' \in [order : 0 .. Missions, executing : BOOLEAN,
                        navState : UnderWay \cup {"IDLE", "ARRIVED"}],
           air' \subseteq StateType,
           watch' \in [order : 0 .. Missions, anchor : Spots, held : 0 .. STALL_GIVE_UP],
           next' \in {"nav", "agent", "fleet"}, missions' \in 0 .. Missions,
           turns' \in 0 .. Turns, drops' \in 0 .. Drops, wedged' \in {0, wedged}
    PROVE  EscalationTypeOK'
<1>1. wedged' \in 0 .. WayOut + 1
  BY Costs DEF EscalationTypeOK
<1>2. QED
  BY <1>1 DEF EscalationTypeOK, CoreOK

\* What the fleet makes of a position keeps its type.
LEMMA WatchTypes ==
    LET WatchType == [order : 0 .. Missions, anchor : Spots, held : 0 .. STALL_GIVE_UP]
    IN  \A w \in WatchType :
            /\ Forgotten \in WatchType /\ Stalled(w) \in WatchType
            /\ [w EXCEPT !.held = Aged(@, STALL_GIVE_UP)] \in WatchType
            /\ \A msg \in StateType : Read(w, msg) \in WatchType
<1> DEFINE WatchType == [order : 0 .. Missions, anchor : Spots, held : 0 .. STALL_GIVE_UP]
<1> SUFFICES ASSUME NEW w \in WatchType
             PROVE  /\ Forgotten \in WatchType /\ Stalled(w) \in WatchType
                    /\ [w EXCEPT !.held = Aged(@, STALL_GIVE_UP)] \in WatchType
                    /\ \A msg \in StateType : Read(w, msg) \in WatchType
  OBVIOUS
<1>1. 0 \in 0 .. Missions /\ Never \in Spots /\ 0 \in 0 .. STALL_GIVE_UP
  BY EscalationBounds DEF Spots
<1>2. Forgotten \in WatchType
  BY <1>1 DEF Forgotten
<1>3. [w EXCEPT !.held = Aged(@, STALL_GIVE_UP)] \in WatchType
  <2>1. Aged(w.held, STALL_GIVE_UP) \in 0 .. STALL_GIVE_UP
    BY EscalationBounds DEF Aged
  <2>2. QED
    BY <2>1
<1>4. ASSUME NEW msg \in StateType PROVE Read(w, msg) \in WatchType
  <2>1. msg.at \in Spots
    BY DEF StateType, Spots
  <2>2. Noted(w, msg.at) \in WatchType
    BY <1>1, <2>1 DEF Noted
  <2>3. QED
    BY <1>2, <2>2 DEF Read
<1>5. QED
  BY <1>2, <1>3, <1>4 DEF Stalled

LEMMA EscalationGoesOn == EscalationInv /\ [EscalationNext]_escalationVars => EscalationInv'
<1> SUFFICES ASSUME EscalationInv, [EscalationNext]_escalationVars PROVE EscalationInv'
  OBVIOUS
<1> DEFINE DriverType == [order : 0 .. Missions, executing : BOOLEAN,
                          navState : UnderWay \cup {"IDLE", "ARRIVED"}]
           WatchType == [order : 0 .. Missions, anchor : Spots, held : 0 .. STALL_GIVE_UP]
<1>1. /\ EscalationTypeOK /\ CoreOK(core) /\ core \in CoreType /\ world \in WorldType
      /\ driver \in DriverType /\ air \subseteq StateType /\ watch \in WatchType
      /\ next \in {"nav", "agent", "fleet"} /\ missions \in 0 .. Missions
      /\ turns \in 0 .. Turns /\ drops \in 0 .. Drops
  BY DEF EscalationInv, EscalationTypeOK
<1>2. CASE NavSteps
  BY <1>2, NavKeeps
<1>3. CASE AgentHears
  <2>1. /\ core' = core /\ wedged' = wedged /\ world' = world /\ watch' = watch
        /\ next' = "fleet" /\ missions' = missions /\ turns' = turns /\ drops' = drops
    BY <1>3 DEF AgentHears
  <2>2. CoreOK(core)' /\ Closing'
    BY <2>1, AccountKept
  <2>3. core.state \in UnderWay \cup {"IDLE", "ARRIVED"} /\ world.at \in Positions
        /\ driver.order \in 0 .. Missions
    BY <1>1 DEF CoreType, WorldType
  <2>4. driver' \in DriverType
    BY <1>1, <1>3, <2>3 DEF AgentHears
  <2>5. air' \subseteq StateType
    <3>1. PICK word \in {"path blocked", "arrived", "nothing new"} :
              air' = {[at |-> world.at, of |-> driver.order, says |-> word]}
      BY <1>3 DEF AgentHears
    <3>2. [at |-> world.at, of |-> driver.order, says |-> word] \in StateType
      BY <2>3, <3>1 DEF StateType
    <3>3. QED
      BY <3>1, <3>2
  <2>6. EscalationTypeOK'
    BY <1>1, <2>1, <2>2, <2>4, <2>5, OtherTypes
  <2>7. QED
    BY <2>2, <2>6 DEF EscalationInv
<1>4. CASE Drop
  <2>1. /\ core' = core /\ wedged' = wedged /\ world' = world /\ watch' = watch
        /\ driver' = driver /\ next' = next /\ missions' = missions /\ turns' = turns
        /\ air' = {} /\ drops' \in 0 .. Drops
    BY <1>1, <1>4, EscalationBounds DEF Drop
  <2>2. CoreOK(core)' /\ Closing'
    BY <2>1, AccountKept
  <2>3. EscalationTypeOK'
    BY <1>1, <2>1, <2>2, OtherTypes
  <2>4. QED
    BY <2>2, <2>3 DEF EscalationInv
<1>5. CASE FleetDrains
  <2>1. /\ core' = core /\ wedged' = wedged /\ world' = world /\ driver' = driver
        /\ next' = "nav" /\ missions' = missions /\ turns' = turns /\ drops' = drops /\ air' = {}
    BY <1>5 DEF FleetDrains
  <2>2. CoreOK(core)' /\ Closing'
    BY <2>1, AccountKept
  <2>3. watch' \in WatchType
    <3> DEFINE older == [watch EXCEPT !.held = Aged(@, STALL_GIVE_UP)]
               heard == IF air = {} THEN older ELSE Read(older, CHOOSE msg \in air : TRUE)
    <3>1. watch' = Stalled(heard)
      BY <1>5 DEF FleetDrains
    <3>2. older \in WatchType
      BY <1>1, WatchTypes
    <3>3. air # {} => (CHOOSE msg \in air : TRUE) \in StateType
      BY <1>1
    <3> HIDE DEF older
    <3>4. heard \in WatchType
      BY <3>2, <3>3, WatchTypes
    <3> HIDE DEF heard
    <3>5. QED
      BY <3>1, <3>4, WatchTypes
  <2>4. EscalationTypeOK'
    BY <1>1, <2>1, <2>2, <2>3, OtherTypes
  <2>5. QED
    BY <2>2, <2>4 DEF EscalationInv
<1>6. CASE TakesOrder
  <2>1. /\ world' = world /\ air' = air /\ next' = next /\ turns' = turns /\ drops' = drops
        /\ missions' = missions + 1 /\ missions < Missions /\ wedged' = 0
        /\ driver' = [driver EXCEPT !.order = missions', !.executing = TRUE]
        /\ watch' = [watch EXCEPT !.order = missions']
    BY <1>6 DEF TakesOrder
  <2>2. missions' \in 0 .. Missions /\ missions' \in 0 .. Elsewhere
    BY <1>1, <2>1, EscalationBounds DEF Elsewhere
  <2>3. PICK end \in Positions :
            core' = [Cleared(core) EXCEPT !.state = "EN-ROUTE", !.goal = missions', !.end = end,
                                          !.astern = FALSE]
    BY <1>6 DEF TakesOrder
  <2>4. core' \in CoreType /\ core'.state = "EN-ROUTE" /\ core'.from = Never /\ core'.spun = Never
    <3>1. Cleared(core) \in CoreType /\ Cleared(core).from = Never /\ Cleared(core).spun = Never
      BY <1>1, ClearedOK
    <3>2. QED
      BY <2>2, <2>3, <3>1 DEF CoreType, UnderWay
  <2>5. CoreOK(core')
    BY <2>4 DEF CoreOK
  <2>6. CoreOK(core)' /\ Closing'
    BY <2>1, <2>5, AccountOpened
  <2>7. driver' \in DriverType /\ watch' \in WatchType
    BY <1>1, <2>1, <2>2
  <2>8. EscalationTypeOK'
    BY <1>1, <2>1, <2>2, <2>6, <2>7, OtherTypes
  <2>9. QED
    BY <2>6, <2>8 DEF EscalationInv
<1>7. ASSUME NEW n \in CoreType PROVE CoreOK(Dropped(n)) /\ CoreOK([Dropped(n) EXCEPT !.auto = ~@])
  <2>1. Cleared(n) \in CoreType /\ Cleared(n).from = Never /\ Cleared(n).spun = Never
    BY ClearedOK
  <2>2. Dropped(n) \in CoreType /\ Dropped(n).from = Never /\ Dropped(n).spun = Never
        /\ Dropped(n).state = "IDLE"
    <3> DEFINE c == Cleared(n)
    <3>1. c \in CoreType /\ c.from = Never /\ c.spun = Never
      BY <2>1
    <3>2. 0 \in 0 .. Elsewhere
      BY EscalationBounds DEF Elsewhere
    <3>3. Dropped(n) = [c EXCEPT !.state = "IDLE", !.goal = 0, !.astern = FALSE]
      BY DEF Dropped
    <3> HIDE DEF c
    <3>4. QED
      BY <3>1, <3>2, <3>3, ZenonT(60) DEF CoreType
  <2>3. [Dropped(n) EXCEPT !.auto = ~@] \in CoreType
        /\ [Dropped(n) EXCEPT !.auto = ~@].from = Never
        /\ [Dropped(n) EXCEPT !.auto = ~@].spun = Never
        /\ [Dropped(n) EXCEPT !.auto = ~@].state = "IDLE"
    <3> DEFINE d == Dropped(n)
    <3>1. d \in CoreType /\ d.from = Never /\ d.spun = Never /\ d.state = "IDLE"
      BY <2>2
    <3> HIDE DEF d
    <3>2. /\ [d EXCEPT !.auto = ~@] \in CoreType /\ [d EXCEPT !.auto = ~@].from = Never
          /\ [d EXCEPT !.auto = ~@].spun = Never /\ [d EXCEPT !.auto = ~@].state = "IDLE"
      BY <3>1 DEF CoreType
    <3>3. QED
      BY <3>2 DEF d
  <2>4. QED
    BY <2>2, <2>3 DEF CoreOK
<1>8. CASE CancelLands
  <2>1. /\ world' = world /\ air' = air /\ next' = next /\ turns' = turns /\ drops' = drops
        /\ missions' = missions /\ watch' = watch /\ wedged' = 0 /\ core' = Dropped(core)
        /\ driver' = [driver EXCEPT !.order = 0, !.executing = FALSE]
    BY <1>8 DEF CancelLands
  <2>2. CoreOK(core)' /\ Closing'
    BY <1>1, <1>7, <2>1, AccountOpened
  <2>3. driver' \in DriverType
    <3>1. 0 \in 0 .. Missions
      BY EscalationBounds
    <3>2. QED
      BY <1>1, <2>1, <3>1
  <2>4. EscalationTypeOK'
    BY <1>1, <2>1, <2>2, <2>3, OtherTypes
  <2>5. QED
    BY <2>2, <2>4 DEF EscalationInv
<1>9. CASE OperatorGoal
  <2>1. /\ world' = world /\ driver' = driver /\ air' = air /\ watch' = watch /\ next' = next
        /\ missions' = missions /\ drops' = drops /\ wedged' = 0
        /\ turns' = turns + 1 /\ turns < Turns
    BY <1>9 DEF OperatorGoal, Happens
  <2>2. PICK end \in Positions :
            core' = [core EXCEPT !.state = "EN-ROUTE", !.goal = Elsewhere, !.end = end,
                                 !.astern = FALSE]
    BY <1>9 DEF OperatorGoal
  <2>3. /\ core' \in CoreType /\ core'.state = "EN-ROUTE" /\ core'.from = core.from
        /\ core'.spun = core.spun /\ core'.stop = core.stop /\ core'.nudges = core.nudges
    <3>1. Elsewhere \in 0 .. Elsewhere
      BY EscalationBounds DEF Elsewhere
    <3>2. QED
      BY <1>1, <2>2, <3>1 DEF CoreType, UnderWay
  <2>4. CoreOK(core')
    BY <1>1, <2>3 DEF CoreOK
  <2>5. CoreOK(core)' /\ Closing'
    BY <2>1, <2>4, AccountOpened
  <2>6. EscalationTypeOK'
    BY <1>1, <2>1, <2>5, EscalationBounds, OtherTypes
  <2>7. QED
    BY <2>5, <2>6 DEF EscalationInv
<1>10. CASE OnMode
  <2>1. /\ world' = world /\ driver' = driver /\ air' = air /\ watch' = watch /\ next' = next
        /\ missions' = missions /\ drops' = drops /\ wedged' = 0
        /\ turns' = turns + 1 /\ turns < Turns
    BY <1>10 DEF OnMode, Happens
  <2>2. CoreOK(core')
    <3>1. CASE core.auto /\ core.state # "IDLE"
      <4>1. core' = [Dropped(core) EXCEPT !.auto = ~@]
        BY <1>10, <3>1 DEF OnMode
      <4>2. QED
        BY <1>1, <1>7, <4>1
    <3>2. CASE ~(core.auto /\ core.state # "IDLE")
      <4>1. core' = [core EXCEPT !.auto = ~core.auto]
        BY <1>10, <3>2 DEF OnMode
      <4>2. QED
        BY <1>1, <4>1 DEF CoreOK, CoreType
    <3>3. QED
      BY <3>1, <3>2
  <2>3. CoreOK(core)' /\ Closing'
    BY <2>1, <2>2, AccountOpened
  <2>4. EscalationTypeOK'
    BY <1>1, <2>1, <2>3, EscalationBounds, OtherTypes
  <2>5. QED
    BY <2>3, <2>4 DEF EscalationInv
<1>11. CASE WorldTurns
  <2>1. /\ core' = core /\ driver' = driver /\ air' = air /\ watch' = watch /\ next' = next
        /\ missions' = missions /\ drops' = drops /\ wedged' = wedged
        /\ turns' = turns + 1 /\ turns < Turns
    BY <1>11 DEF WorldTurns, Happens
  <2>2. CoreOK(core)' /\ Closing'
    BY <2>1, AccountKept
  <2>3. world' \in WorldType
    <3>1. CASE \E p \in Spots : world' = [world EXCEPT !.ahead = p]
      BY <1>1, <3>1 DEF WorldType
    <3>2. CASE \E p \in Spots : world' = [world EXCEPT !.behind = p]
      BY <1>1, <3>2 DEF WorldType
    <3>3. CASE world' = [world EXCEPT !.gap = ~@]
      BY <1>1, <3>3 DEF WorldType
    <3>4. CASE \E dead \in SUBSET {"pose", "scan"} : world' = [world EXCEPT !.dead = dead]
      BY <1>1, <3>4 DEF WorldType
    <3>5. CASE world' = [world EXCEPT !.motor = ~@]
      BY <1>1, <3>5 DEF WorldType
    <3>6. QED
      BY <1>11, <3>1, <3>2, <3>3, <3>4, <3>5 DEF WorldTurns, Spots
  <2>4. EscalationTypeOK'
    BY <1>1, <2>1, <2>2, <2>3, EscalationBounds, OtherTypes
  <2>5. QED
    BY <2>2, <2>4 DEF EscalationInv
<1>12. CASE UNCHANGED escalationVars
  BY <1>12 DEF EscalationInv, EscalationTypeOK, CoreOK, Closing, Stopped, Left, Cost, escalationVars
<1>13. QED
  BY <1>2, <1>3, <1>4, <1>5, <1>6, <1>8, <1>9, <1>10, <1>11, <1>12 DEF EscalationNext

LEMMA EscalationAlways == EscalationSpec => []EscalationInv
<1>1. EscalationInit => EscalationInv
  BY EscalationStarts
<1>2. EscalationInv /\ [EscalationNext]_escalationVars => EscalationInv'
  BY EscalationGoesOn
<1>3. QED
  BY <1>1, <1>2, PTL DEF EscalationSpec

-----------------------------------------------------------------------------
(* Theorems. *)

\* Mission, world, agent and fleet keep their types, and a nudge that is timed
\* is measured and counted.
THEOREM EscalationTypeCorrect == EscalationSpec => []EscalationTypeOK
<1>1. EscalationInv => EscalationTypeOK
  BY DEF EscalationInv
<1>2. QED
  BY <1>1, EscalationAlways, PTL

\* A truck that a body has stopped with no way round it says BLOCKED after at most
\* (NUDGE_MAX + 1) patiences and NUDGE_MAX deadlines, whether it can move or not.
THEOREM TheWayOutEnds == EscalationSpec => []BlockedInTime
<1>1. EscalationInv => BlockedInTime
  <2> SUFFICES ASSUME EscalationInv, wedged > WayOut PROVE core.state = "BLOCKED"
    BY DEF BlockedInTime
  <2>1. wedged > 0 /\ wedged \in Nat
    BY Costs DEF EscalationInv, EscalationTypeOK
  <2>2. Stopped(core) /\ (core.state # "BLOCKED" => wedged + Left(core) <= WayOut)
    BY <2>1 DEF EscalationInv, Closing
  <2>3. ASSUME core.state # "BLOCKED" PROVE Left(core) \in Nat
    <3>1. Cost(core.nudges) \in Nat
      BY Costs DEF EscalationInv, CoreOK, CoreType
    <3>2. QED
      BY <2>2, <2>3, <3>1, EscalationBounds DEF Stopped, Left
  <2>4. QED
    BY <2>1, <2>2, <2>3, Costs
<1>2. QED
  BY <1>1, EscalationAlways, PTL

-----------------------------------------------------------------------------
\* The three of them keep their types in the state space they share, where each takes
\* its steps and leaves the others alone (MCStops).
THEOREM StopsTypeCorrect == StopsSpec => []StopsTypeOK
<1> DEFINE Inv == StandInInv /\ StandInTypes /\ EnvelopeInv /\ EscalationInv
           Steps == [StopsNext]_<<part, standInVars, envelopeVars, escalationVars>>
<1>1. StopsInit => Inv
  BY StandInStarts, TypesStart, EnvelopeStarts, EscalationStarts DEF StopsInit
<1>2. Inv /\ Steps => Inv'
  <2>1. Steps => [StandInNext]_standInVars /\ [EnvelopeNext]_envelopeVars
                    /\ [EscalationNext]_escalationVars
    BY DEF StopsNext
  <2>2. QED
    BY <2>1, StandInGoesOn, TypesGoOn, EnvelopeGoesOn, EscalationGoesOn
<1>3. Inv => StopsTypeOK
  BY DEF StandInTypes, EnvelopeInv, EscalationInv, StopsTypeOK
<1>4. QED
  BY <1>1, <1>2, <1>3, PTL DEF StopsSpec
=============================================================================
