SPECIFICATION Spec
CONSTANTS
    Parts = {"crashed log", "damaged log", "failed append", "log from offset", "recover", "create", "repair", "failing repair", "disk", "current", "manifests", "named"}
    MaxWrites = 2
    Logs = {1}
    Manifests = {1, 2}
    Chunk = 1
    MaxAppends = 2
    MaxFaults = 1
    MaxStops = 1
    MaxFiles = 3
CHECK_DEADLOCK FALSE
INVARIANTS
    LogReadsBack
    NothingPromisedIsLost
    RecoveryIsSound
    RepairKeepsEverything
    FilesSurvive
