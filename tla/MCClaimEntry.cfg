CONSTANTS
    VMs = {v1}
    Names = {n1}
    FirstHost = 1
    LastHost = 1
    NoIP = NoIP
    NoVM = NoVM
    MaxVMs = 2
    MaxFaults = 0
    MaxRestarts = 0
SPECIFICATION Spec
SYMMETRY Symmetry
INVARIANT EntryEndsWithVM
CHECK_DEADLOCK FALSE
