\* Goroutines wake up on any thread; every call may fail.
SPECIFICATION Spec
CONSTANTS
    Pods = {p1, p2}
    Threads = {t1, t2}
    MaxCalls = 2
    Faults = {"named", "veth", "master", "route"}
INVARIANTS TypeOK OthersAtRoot PodsWired StrayOnlyIfUpset
PROPERTY Returns
CHECK_DEADLOCK FALSE
