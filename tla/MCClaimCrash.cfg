CONSTANTS
    Handlers = {h1}
    None = None
    MaxPid = 1
    MaxFaults = 0
    MaxRestarts = 0
    SlowOps = FALSE
SPECIFICATION Spec
INVARIANT CrashIsRecorded
CHECK_DEADLOCK FALSE
