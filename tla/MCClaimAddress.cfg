CONSTANTS
    VMs = {v1, v2}
    Names = {n1, n2}
    FirstHost = 1
    LastHost = 1
    NoIP = NoIP
    NoVM = NoVM
    MaxVMs = 2
    MaxFaults = 0
    MaxRestarts = 0
SPECIFICATION Spec
SYMMETRY Symmetry
INVARIANT UniqueAddresses
CHECK_DEADLOCK FALSE
