CONSTANTS
    Handlers = {h1, h2}
    None = None
    MaxPid = 1
    MaxFaults = 0
    MaxRestarts = 0
    SlowOps = FALSE
SPECIFICATION Spec
SYMMETRY Symmetry
INVARIANT DeleteLeavesNoRuntime
CHECK_DEADLOCK FALSE
