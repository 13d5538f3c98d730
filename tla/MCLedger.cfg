SPECIFICATION LedgerSpec
CONSTANTS
    f1 = f1  f2 = f2  f3 = f3  f4 = f4
    a = a  b = b  c = c  d = d  e = e
    None = None
    Vehicles = {f1, f2, f3, f4}
    Nodes = {a, b, c, d, e}
    Links <- SpurLinks
    Serial <- FourSerial
    Submitted <- SpurSubmitted
    MaxPath = 3
    Ground <- FourGround
    Times = {1, 2}
INVARIANTS IndexesAgree GrantStaysAhead
           CycleFoundIffDeadlocked YieldsSpare TurnsSuffice
PROPERTIES ImplementsClaims
\* Resolving ends when no cycle is left.
CHECK_DEADLOCK FALSE
