SPECIFICATION Spec
CONSTANTS
    f1 = f1  f2 = f2  t1 = t1  t2 = t2
    a = a  b = b  c = c  d = d
    None = None
    Vehicles = {f1, f2}
    Nodes = {a, b, c, d}
    Links <- RingLinks
    Near <- RingLinks
    Home <- RingHome
    From <- RingFrom
    To <- RingTo
    Route <- RingRoute
    Metres <- RingMetres
    Serial <- TwoSerial
    Tasks = {t1, t2}
    Submit <- TwoSubmit
    AsideMax = 1
    Ids = {1, 2, 3, 4, 5, 6, 7, 8, 9, 10, 11, 12, 13, 14}
    Losses = 0
    Backlog = 0
    Delays = 1
    Clocks = {"STANDSTILL_S", "ASIDE_S"}
INVARIANT LiveBaseBacked
CHECK_DEADLOCK FALSE
