\* Two handlers deploy two pods at the same time; no kernel call fails.
SPECIFICATION Spec
CONSTANTS
    Pods = {p1, p2}
    Handlers = {h1, h2}
    FirstFree = 2
    IPsPerPod = 2
    SubnetSize = 8
    Nobody = Nobody
    Exhausted = Exhausted
    Idle = Idle
    MaxCalls = 2
    Faults = {}
SYMMETRY Symmetry
INVARIANT BridgesProgrammed
