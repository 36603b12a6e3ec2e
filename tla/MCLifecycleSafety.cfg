CONSTANTS
    Handlers = {h1, h2}
    None = None
    MaxPid = 2
    MaxFaults = 2
    MaxRestarts = 1
    SlowOps = FALSE
SPECIFICATION Spec
CONSTRAINT AllProcessesOrFaults
SYMMETRY Symmetry
INVARIANTS TypeOK LockExclusion TransitionalOwned EveryProcessWatched
PROPERTIES NoResurrection LoadAllOrNothing
CHECK_DEADLOCK FALSE
