SPECIFICATION Spec
CONSTANTS
    Pods = {p1}
    SystemPods = {}
    Handlers = {h1}
    Containers = 1
    VMs = {}
    Overlap = FALSE
    Faults = {}
    Nobody = Nobody
INVARIANT
    UpdateReplaces
