SPECIFICATION LinksSpec
CONSTANTS
    Nothing = Nothing
    Line = 2
    Sendings = 2
    Cancels = 1
    Upsets = 1
    Cyclic <- CellCyclic
    OnChange <- CellOnChange
    StaleAsserts <- CellStaleAsserts
    Order <- CellOrder
    StartValue <- CellStart
    Unset = Unset
    HEARTBEATS = 3
    WINDOW = 0
    Mishaps = 2
INVARIANTS LinksTypeOK WorkAtStation FinishedMeansStopped SilenceAsserted
PROPERTIES StopsAnswered LossStops HeartbeatVouches ImageRecovers
\* The bounds run out.
CHECK_DEADLOCK FALSE
