SPECIFICATION Spec
CONSTANTS
    None = None
    back = back
    Devices = {back}
    Spots = {5, 70}
    Orders <- BothOrders
    Phases <- EyesLate
    Moves = 2
    Faults = 1
    Reaction = 18
INVARIANTS BodyStops SilenceStops NoRestartWithoutReset
CHECK_DEADLOCK FALSE
