SPECIFICATION Spec
CONSTANTS
    Settings <- PodSettings
    Handlers = {1, 2, 3}
    MaxRequests = 4
    MaxVMs = 4
    Faults = {"store", "side", "boot", "stop", "delete", "task"}
INVARIANTS TypeOK OneVM StatusTrue WaiterSafe
PROPERTIES ExitShows SidesEnd
CHECK_DEADLOCK FALSE
