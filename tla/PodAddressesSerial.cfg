\* One caller, blocks of 4 in a subnet that has room for three of them, and
\* FreePodIP in use.
SPECIFICATION Spec
CONSTANTS
    Pods = {p1, p2, p3}
    Callers = {c1}
    FirstFree = 4
    IPsPerPod = 4
    SubnetSize = 15
    Dedicated = 2
    FreePodIPCalled = TRUE
    Nobody = Nobody
    Exhausted = Exhausted
    Idle = Idle
INVARIANTS TypeOK GrantsDisjoint TableMatchesGrants
PROPERTY ImplementsPool
