------------------------------- MODULE StandIn -------------------------------
(***************************************************************************)
(* The stand-in writer of src/m5/m5_ver1/virtual_plc/virtual_plc.py and    *)
(* the safety program that reads what it writes: an operator at a console  *)
(* or through a command file, one field-evaluation link, one speed link,   *)
(* and the two cycles.  A writer cycle and a scan alternate; everything    *)
(* else comes in between, in any order.                                    *)
(***************************************************************************)
EXTENDS SafetyProgram, SequencesExt

CONSTANTS
    Casts,                  \* who is about: [clients, commands]
    Conns,                  \* the sockets a field evaluation may open
    NoConn,                   \* not a socket
    Speeds,                 \* the readings a speed source sends, in mm/s
    Pulses,                 \* the widths of a reset pulse, in writer cycles
    FIELD_LINK_STALE_MAX, MOTION_SILENCE_MAX,   \* in writer cycles
    Lines,                  \* bound: the lines of the command file
    Starts                  \* bound: how often the process is started again

ASSUME StandInAssumption ==
    /\ NoConn \notin Conns
    /\ Speeds \subseteq Int
    /\ Pulses \subseteq Nat \ {0}
    /\ \A bound \in {FIELD_LINK_STALE_MAX, MOTION_SILENCE_MAX, Lines, Starts} : bound \in Nat

VARIABLES
    cast,       \* the clients of this behaviour, and whether the writer stalls
    img,        \* SafetyInputStandIn
    st,         \* the statics of the safety program
    link,       \* the two links, as WriterRole knows them and as they are
    pulse,      \* writer cycles until a reset pulse ends; 0: no pulse
    file,       \* the command file: its lines, how many are read, starts left
    turn,       \* whose cycle comes next
    past        \* history, for the properties only

standInVars == <<cast, img, st, link, pulse, file, turn, past>>

\* The lines an operator may type, or leave in the file.
Commands ==
    [name : {"estop_open", "estop_close", "zone_open", "zone_close",
             "reset_press", "reset_release"}, width : {0}]
        \cup [name : {"reset_pulse"}, width : Pulses]

ASSUME CastsAssumption ==
    \A c \in Casts : /\ c.clients \subseteq {"field", "speed", "file", "stalls"}
                     /\ c.commands \subseteq Commands

\* field is the one client the writer knows of (field_client); the handler of
\* every connection goes on reading lines until the connection itself ends.
BootLink == [field |-> NoConn, readers |-> {}, fieldAge |-> 0,
             speed |-> FALSE, motAge |-> 0]

\* What the properties look back on, counted in scans up to a cap.
BootPast == [pressed |-> 0, released |-> 0, gone |-> 0, silent |-> 0, open |-> 0,
             seenOpen |-> FALSE, voice |-> NoConn]
Count(n, holds, cap) == IF ~holds THEN 0 ELSE IF n < cap THEN n + 1 ELSE n

\* What SPEC calls the cause: a circuit that is not validly closed, or the live
\* world of the speed monitor, and none of the latches.
AllGone ==
    /\ EStopClosedValid(img, st) /\ ZoneClosedValid(img, st)
    /\ ~SpeedStaleNow(img, st) /\ ~SpeedDiscrepantNow(img, st)
    /\ ~ShaftDoubtNow(img, st) /\ ~SpeedOverLimitNow(img, st)

Remember ==
    [past EXCEPT
        !.pressed = Count(@, ResetValid(img, st), RESET_HOLD_MAX + 1),
        !.released = IF ResetValid(img, st) THEN 0 ELSE past.pressed,
        !.gone = Count(@, AllGone, RESET_HOLD_MAX + 2),
        !.silent = Count(@, ~img.Beat, STANDIN_STALE_MAX + 1),
        !.open = Count(@, ~ZoneClosedValid(img, st), SS1_TIME_MAX + 1),
        !.seenOpen = @ \/ (StandInValid(img, st) /\ ~img.ResetButtonPressed)]

\* The first scan runs before the first writer cycle.
Boot(img0, st0, link0, pulse0, turn0, past0) ==
    /\ img0 = BootImage
    /\ st0 = FScan(BootImage, BootStatics)
    /\ link0 = BootLink
    /\ pulse0 = 0
    /\ turn0 = "writer"
    /\ past0 = BootPast

StandInInit ==
    /\ cast \in Casts
    /\ Boot(img, st, link, pulse, turn, past)
    /\ file = [lines |-> << >>, read |-> 0, starts |-> Starts]

-----------------------------------------------------------------------------
\* command(): the image, the pulse and the source of the zone channel after
\* one line.  A zone command is refused while a link owns the channel, a pulse
\* while the device is held.
Obey(now, cmd) ==
    CASE cmd.name \in {"estop_open", "estop_close"} ->
            [now EXCEPT !.img.EStopCircuitClosed = (cmd.name = "estop_close")]
      [] cmd.name \in {"zone_open", "zone_close"} ->
            IF now.field # NoConn THEN now
            ELSE [now EXCEPT !.img.ZoneDeviceCircuitClosed = (cmd.name = "zone_close"),
                             !.voice = NoConn]
      [] cmd.name \in {"reset_press", "reset_release"} ->
            [now EXCEPT !.img.ResetButtonPressed = (cmd.name = "reset_press"), !.pulse = 0]
      [] cmd.name = "reset_pulse" ->
            IF now.img.ResetButtonPressed THEN now
            ELSE [now EXCEPT !.img.ResetButtonPressed = TRUE, !.pulse = cmd.width]

ObeyAll(now, cmds) == FoldLeft(Obey, now, cmds)

Settle(now) ==
    /\ img' = now.img
    /\ pulse' = now.pulse
    /\ past' = [past EXCEPT !.voice = now.voice]

Console(cmd) ==
    /\ Settle(Obey([img |-> img, pulse |-> pulse, field |-> link.field, voice |-> past.voice], cmd))
    /\ UNCHANGED <<cast, st, link, file, turn>>

AppendLine(cmd) ==
    /\ "file" \in cast.clients /\ Len(file.lines) < Lines
    /\ file' = [file EXCEPT !.lines = Append(@, cmd)]
    /\ UNCHANGED <<cast, img, st, link, pulse, turn, past>>

-----------------------------------------------------------------------------
(* The field link.                                                          *)

\* A second client is turned away; the first one takes the zone channel over.
FieldConnect(c) ==
    /\ "field" \in cast.clients
    /\ link.field = NoConn
    /\ c \notin link.readers
    /\ link' = [link EXCEPT !.field = c, !.readers = @ \cup {c}, !.fieldAge = 0]
    /\ img' = [img EXCEPT !.ZoneDeviceCircuitClosed = FALSE, !.WarningFieldClear = FALSE]
    /\ past' = [past EXCEPT !.voice = c]
    /\ UNCHANGED <<cast, st, pulse, file, turn>>

\* field_line, of any connection whose handler still reads.
FieldSays(c, line) ==
    /\ c \in link.readers
    /\ link' = [link EXCEPT !.fieldAge = 0]
    /\ img' = CASE line \in {"ZONE_0", "ZONE_1"} ->
                    [img EXCEPT !.ZoneDeviceCircuitClosed = (line = "ZONE_1")]
                [] line \in {"WARN_0", "WARN_1"} ->
                    [img EXCEPT !.WarningFieldClear = (line = "WARN_1")]
                [] line = "PING" -> img
    /\ past' = IF line \in {"ZONE_0", "ZONE_1"} THEN [past EXCEPT !.voice = c] ELSE past
    /\ UNCHANGED <<cast, st, pulse, file, turn>>

\* field_down, which does nothing when the writer knows of no client.
FieldDown(image) ==
    IF link.field = NoConn THEN image
    ELSE [image EXCEPT !.ZoneDeviceCircuitClosed = FALSE, !.WarningFieldClear = FALSE]

FieldCloses(c) ==
    /\ c \in link.readers
    /\ link' = [link EXCEPT !.field = NoConn, !.readers = @ \ {c}]
    /\ img' = FieldDown(img)
    /\ past' = IF link.field = NoConn THEN past ELSE [past EXCEPT !.voice = NoConn]
    /\ UNCHANGED <<cast, st, pulse, file, turn>>

-----------------------------------------------------------------------------
(* The speed link.                                                          *)

SpeedConnect ==
    /\ "speed" \in cast.clients /\ ~link.speed
    /\ link' = [link EXCEPT !.speed = TRUE, !.motAge = 0]
    /\ UNCHANGED <<cast, img, st, pulse, file, turn, past>>

SpeedSays(channel, reading) ==
    /\ link.speed
    /\ img' = IF channel = "A"
              THEN [img EXCEPT !.SpeedReadingA = reading, !.FreshA = TRUE]
              ELSE [img EXCEPT !.SpeedReadingB = reading, !.FreshB = TRUE]
    /\ UNCHANGED <<cast, st, link, pulse, file, turn, past>>

MotionSays(present) ==
    /\ link.speed
    /\ img' = [img EXCEPT !.MotionPresent = present]
    /\ link' = [link EXCEPT !.motAge = 0]
    /\ UNCHANGED <<cast, st, pulse, file, turn, past>>

\* speed_down forgets the client and leaves the image as it is.
SpeedCloses ==
    /\ link.speed
    /\ link' = [link EXCEPT !.speed = FALSE]
    /\ UNCHANGED <<cast, img, st, pulse, file, turn, past>>

-----------------------------------------------------------------------------
(* The cycles.                                                              *)
AgedLinks == [link EXCEPT
            !.fieldAge = IF link.field = NoConn THEN 0 ELSE Ton(@, TRUE, FIELD_LINK_STALE_MAX),
            !.motAge = IF link.speed THEN Ton(@, TRUE, MOTION_SILENCE_MAX) ELSE 0]

\* cycle(): heartbeat, end of a pulse, the stale field link, the silent motion
\* channel, and last the lines of the command file.  A line that is appended
\* between the measuring of the file and its reading (late) is read, and read
\* again in the next cycle.
StandInCycle(late) ==
    LET fieldAge == AgedLinks.fieldAge
        motAge   == AgedLinks.motAge
        dropped  == link.field # NoConn /\ fieldAge > FIELD_LINK_STALE_MAX
        released == pulse = 1
        image ==
            [(IF dropped THEN FieldDown(img) ELSE img) EXCEPT
                !.Beat = TRUE,
                !.ResetButtonPressed = @ /\ ~released,
                !.MotionPresent = @ \/ (link.speed /\ motAge > MOTION_SILENCE_MAX)]
        field == IF dropped THEN NoConn ELSE link.field
        now == [img |-> image, field |-> field,
                pulse |-> IF pulse = 0 THEN 0 ELSE pulse - 1,
                voice |-> IF dropped THEN NoConn ELSE past.voice]
        unread == SubSeq(file.lines, file.read + 1, Len(file.lines))
    IN  /\ turn = "writer"
        /\ turn' = "scan"
        /\ link' = [AgedLinks EXCEPT !.field = field]
        /\ late # << >> => "file" \in cast.clients /\ unread # << >>
        /\ Len(file.lines) + Len(late) <= Lines
        /\ Settle(ObeyAll(now, unread \o late))
        /\ file' = [file EXCEPT !.read = Len(file.lines), !.lines = @ \o late]
        /\ UNCHANGED <<cast, st>>

\* A writer cycle that does not come: time passes for the links and the pulse.
WriterSilent ==
    /\ "stalls" \in cast.clients
    /\ turn = "writer"
    /\ turn' = "scan"
    /\ link' = AgedLinks
    /\ pulse' = IF pulse > 1 THEN pulse - 1 ELSE pulse
    /\ UNCHANGED <<cast, img, st, file, past>>

SafetyScan ==
    /\ turn = "scan"
    /\ turn' = "writer"
    /\ st' = FScan(img, st)
    /\ img' = Scanned(img)
    /\ past' = Remember
    /\ UNCHANGED <<cast, link, pulse, file>>

\* The process is started again; the command file is still there.
ProcessStarts ==
    /\ "file" \in cast.clients /\ file.starts > 0
    /\ Boot(img', st', link', pulse', turn', past')
    /\ file' = [file EXCEPT !.read = 0, !.starts = @ - 1]
    /\ UNCHANGED cast

StandInNext ==
    \/ \E cmd \in cast.commands : Console(cmd) \/ AppendLine(cmd)
    \/ \E c \in Conns :
        \/ FieldConnect(c)
        \/ FieldCloses(c)
        \/ \E line \in {"ZONE_0", "ZONE_1", "WARN_0", "WARN_1", "PING"} : FieldSays(c, line)
    \/ SpeedConnect
    \/ \E channel \in {"A", "B"}, reading \in Speeds : SpeedSays(channel, reading)
    \/ \E present \in BOOLEAN : MotionSays(present)
    \/ SpeedCloses
    \/ StandInCycle(<< >>)
    \/ \E cmd \in cast.commands : StandInCycle(<<cmd>>)
    \/ WriterSilent
    \/ SafetyScan
    \/ ProcessStarts

StandInSpec == StandInInit /\ [][StandInNext]_standInVars

-----------------------------------------------------------------------------
\* The registered client is one whose handler still reads.
StandInTypeOK ==
    /\ img \in ImageType
    /\ st \in StaticsType
    /\ link \in [field : Conns \cup {NoConn}, readers : SUBSET Conns, fieldAge : Nat,
                 speed : BOOLEAN, motAge : Nat]
    /\ link.field \in link.readers \cup {NoConn}
    /\ pulse \in Nat
    /\ file.lines \in Seq(Commands) /\ file.read \in 0 .. Len(file.lines)
    /\ turn \in {"writer", "scan"}

Demands(s) == {d \in {"EStopDemand", "ZoneStopDemand", "SpeedMonitorDemand"} :
                  s[d]}

\* SF-08: a demand is let go by the release of the reset device, after a press
\* that was held longer than the minimum and no longer than the maximum, with
\* every cause gone from before it was pressed until it was released; whatever
\* the circuits, the writer and the speed channels did in between.
ClearedByAHeldPress ==
    [][~(Demands(st) \subseteq Demands(st')) /\ file'.starts = file.starts =>
            /\ past.pressed > RESET_HOLD_MIN
            /\ past.pressed <= RESET_HOLD_MAX
            /\ past'.pressed = 0
            /\ past'.gone > past.pressed]_<<st, past, file>>

\* And the other way round, so that nothing has to be restarted: a press that
\* was held that long, with the causes gone that long, clears every demand with
\* its release, also when it is the speed monitor that has latched.
HeldPressClears ==
    /\ past.released > RESET_HOLD_MIN
    /\ past.released <= RESET_HOLD_MAX
    /\ past.gone > past.released
    => ~SafetyResetRequired(st)

\* A writer that falls silent reads as both circuits open once it has been
\* silent too long, and a zone circuit that is not validly closed takes the
\* torque off within the time of SS1, whatever is connected, frozen or pressed.
SilenceStopsTorque ==
    /\ past.silent > STANDIN_STALE_MAX => st.EStopDemand /\ st.ZoneStopDemand
    /\ past.open > SS1_TIME_MAX => st.TorqueOffDemand

\* The power-up rejection: a demand is let go only after the device has been
\* read unpressed by a scan that could believe the writer.
PowerUpRejected ==
    [][~(Demands(st) \subseteq Demands(st')) /\ file'.starts = file.starts =>
            past.seenOpen]_<<st, past, file>>

\* One channel, one source: a closed zone circuit was closed by the field link
\* that is up now, or by the operator while none is.
OneZoneSource ==
    img.ZoneDeviceCircuitClosed => past.voice = link.field
=============================================================================
