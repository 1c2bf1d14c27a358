SPECIFICATION FairSpec
CONSTANTS
    Parts = {"db", "list", "queue", "bench"}
    DBThreads = {"t1", "t2", "t3"}
    DBOps = {"syncput", "flush", "manual"}
    DBErrors = {"log", "sync", "newlog", "table", "compact"}
    BatchSize <- OneIsLarge
    SmallWrite = 1
    MaxBatch = 3
    WriteBuffer = 0
    ManualParts = 1
    MaxDeep = 1
    kL0_CompactionTrigger = 1
    kL0_SlowdownWritesTrigger = 1
    kL0_StopWritesTrigger = 2
    Keys = {1, 2}
    kMaxHeight = 2
    Processes = {"a", "b", "c"}
    Destroyers = {"b"}
    MaxLockFiles = 2
    PerProcess <- TwoThreadsInOne
    Databases = {"a", "b"}
    MaxCalls = 4
    MapThreads = {1, 2, 3, 4}
    Limit = 2
    Openers = {1}
    MaxOpens = 3
    MaxLines = 1
    Small = 4
    Large = 8
    Header = 2
    Messages <- ShortMessages
    IntBits = 4
    OptionSizes = {1, 3, 7}
    MinOption = 2
    MaxOption = 5
PROPERTIES
    CallsReturn
    SearchesAndBenchmarksEnd
CHECK_DEADLOCK FALSE
