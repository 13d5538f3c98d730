SPECIFICATION VehicleSpec
CONSTANTS
    Nothing = Nothing
    Line = 3
    Sendings = 2
    Cancels = 1
    Upsets = 0
INVARIANTS CancelMeansStopped
CHECK_DEADLOCK FALSE
