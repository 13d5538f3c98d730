SPECIFICATION StopsSpec
CONSTANTS
    NoConn = NoConn
    c1 = c1
    Casts <- FourCasts
    Conns = {c1}
    Speeds = {0, 400}
    Pulses = {2}
    STANDIN_STALE_MAX = 1
    RESET_HOLD_MIN = 1
    RESET_HOLD_MAX = 2
    SPEED_STALE_MAX = 0
    SPEED_DISCREPANCY_TIME = 0
    SHAFT_DOUBT_TIME = 0
    SPEED_LIMIT_ONSET_MAX = 0
    SPEED_OVERLIMIT_TIME = 0
    SS1_TIME_MAX = 1
    FIELD_LINK_STALE_MAX = 1
    MOTION_SILENCE_MAX = 0
    Lines = 1
    Starts = 1
    Smoothed <- AheadOrTurn
    Ceilings = {1, 3}
    Setpoints = {1}
    ModesHeard = {1, 2}
    STALE_WINDOW = 1
    COMMAND_TIMEOUT = 0
    CEILING_MAX = 2
    STOP_DECEL = 1
    ZERO_SPEED = 0
    CREEP_SPEED = 1
    SPEED_MAX = 2
    STEP_MAX = 1
    STEER_STOP = 2
    TRACTION_MAX = 3
    Never = Never
    Track = 3
    PATIENCE = 1
    NUDGE_TIMEOUT = 1
    STALL_GIVE_UP = 6
    NUDGE_M = 1
    PROGRESS_M = 2
    NUDGE_MAX = 1
    Missions = 2
    Turns = 1
    Drops = 1
INVARIANTS StopsTypeOK SilenceStopsTorque HeldPressClears
           EnvelopeHolds ReleasedAtRest BlockedInTime
PROPERTIES ClearedByAHeldPress HeldTruckIsGivenUp
