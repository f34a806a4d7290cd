\* Either manager, one handler at a time, two pods with room for three
\* workloads each; pods are deployed, deployed again until the addresses are
\* used up, deleted, left over from a crash, VMs are added, and every kernel
\* call but the last may fail.
SPECIFICATION ManagersSpec
CONSTANTS
    Pods = {p1, p2}
    Handlers = {h1}
    FirstFree = 4
    IPsPerPod = 4
    SubnetSize = 15
    Nobody = Nobody
    Exhausted = Exhausted
    Idle = Idle
    MaxCalls = 4
    Faults = {"bridge", "veth", "localhost", "load", "tap", "lookup"}
SYMMETRY Symmetry
INVARIANTS TypeOK MeshComplete DeliveredOnce LocalhostReachesAll LocalhostRoundTrip SplitCoversWorkloads WorkloadAddressesUnique
