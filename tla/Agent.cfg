SPECIFICATION Spec
CONSTANTS
    p1 = p1
    p2 = p2
    Pods = {p1, p2}
    Settings <- AllSettings
INVARIANTS TypeOK StopsClean
PROPERTIES Starts Recovers SignalEnds
