SPECIFICATION MemorySpec
CONSTANTS
    Parts = {"arena", "status", "cache", "table cache", "c binding", "pointer fields"}
    kBlockSize = 8
    Align = 2
    Sizes = {1, 2, 3, 9}
    MaxAddress = 26
    MaxPieces = 4
    Objects = {1, 2, 3}
    Codes = {1, 2}
    Messages = {0, 1}
    States = {11, 12, 13, 14}
    MaxHandles = 4
    MaxOpened = 5
    Iterators = {i1}
    Snapshots = {s1}
    Errors = {e1, e2}
    MaxFields = 3
SYMMETRY ErrorSymmetry
CHECK_DEADLOCK FALSE
INVARIANTS
    ArenaIsSound
    StatusIsSound
    NothingDeadIsUsed
    NothingIsLost
