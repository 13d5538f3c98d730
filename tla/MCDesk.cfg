SPECIFICATION DeskSpec
CONSTANTS
    Upsets = 1
    Casts <- FiveCasts
    Plants <- WhatIsRead
    RECONNECT = 2
    HEARTBEAT_STALE_TIME = 0
    HMI_STALE_TIME = 0
    VEHICLE_STALE_TIME = 0
    PLANT_FAULT_DELAY = 0
    LIDAR_FAULT_DELAY = 0
    REQUEST_FAULT_DELAY = 0
    MODE_DISAGREE_DELAY = 0
    STANDSTILL_TIME = 0
INVARIANTS DeskTypeOK SilenceStopsDrive
PROPERTIES MotionIsAskedFor OnePressOneReset
