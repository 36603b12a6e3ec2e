CONSTANTS
    Handlers = {h1, h2}
    None = None
    MaxPid = 1
    MaxFaults = 0
    MaxRestarts = 1
    SlowOps = FALSE
SPECIFICATION FairSpec
PROPERTIES LockRecovers TransitionalEnds
CHECK_DEADLOCK FALSE
