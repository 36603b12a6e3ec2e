CONSTANTS
    Handlers = {h1, h2}
    None = None
    MaxPid = 3
    MaxFaults = 0
    MaxRestarts = 0
    SlowOps = FALSE
SPECIFICATION Spec
SYMMETRY Symmetry
INVARIANT RestoreFindsNoRuntime
CHECK_DEADLOCK FALSE
