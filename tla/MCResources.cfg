CONSTANTS
    VMs = {v1, v2}
    Names = {n1, n2}
    FirstHost = 1
    LastHost = 1
    NoIP = NoIP
    NoVM = NoVM
    MaxVMs = 2
    MaxFaults = 1
    MaxRestarts = 1
SPECIFICATION BoundedSpec
SYMMETRY Symmetry
INVARIANTS TypeOK NothingLeftBehind CreatedIsReady
CHECK_DEADLOCK FALSE
