\* Two pods, either manager, VMs are added, no kernel call fails.
SPECIFICATION ManagersSpec
CONSTANTS
    Pods = {p1, p2}
    Handlers = {h1}
    FirstFree = 4
    IPsPerPod = 4
    SubnetSize = 15
    Nobody = Nobody
    Exhausted = Exhausted
    Idle = Idle
    MaxCalls = 2
    Faults = {}
SYMMETRY Symmetry
INVARIANT LocalhostForAll
