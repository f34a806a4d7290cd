\* Two handlers at a time, on different pods; of the kernel calls only the
\* last may fail.
SPECIFICATION RaceSpec
CONSTANTS
    Pods = {p1, p2, p3}
    Handlers = {h1, h2}
    FirstFree = 2
    IPsPerPod = 2
    SubnetSize = 8
    Nobody = Nobody
    Exhausted = Exhausted
    Idle = Idle
    MaxCalls = 3
    Faults = {"attach"}
SYMMETRY RaceSymmetry
INVARIANTS MeshDespiteRaces RoutesMatchBridges SharedOnlyByOverlap
