\* Requests for a pod, one at a time; every call may fail, and the agent be
\* restarted at any point.
SPECIFICATION Spec
CONSTANTS
    Pods = {p1, p2}
    SystemPods = {p2}
    Handlers = {h1}
    Containers = 3
    VMs = {2}
    Overlap = FALSE
    Faults = {"network", "image", "backend", "create", "start", "delete", "crash"}
    Nobody = Nobody
INVARIANTS
    TypeOK
    RunningCanBeDeleted
    NetworkOutlivesWorkloads
    DeletedPodsGone
PROPERTY
    RegisteredRunOn
