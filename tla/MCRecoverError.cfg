SPECIFICATION Spec
CONSTANTS
    Parts = {"failed recovery"}
    MaxWrites = 2
    Logs = {1}
    Manifests = {1, 2}
    Chunk = 1
    MaxAppends = 2
    MaxFaults = 1
    MaxStops = 1
    MaxFiles = 3
CHECK_DEADLOCK FALSE
INVARIANT
    NothingPromisedIsLost
