SPECIFICATION BytesSpec
CONSTANTS
    Parts = {"messages", "sizes", "edits", "batches", "checksums", "names", "scalars", "struct"}
    MaxSent = 2
    MaxReceived = 2
    MaxTokens = 4
    MaxScalar = 4
    Bits = 2
    W32 = 5
    W64 = 7
    Fixed32 = 1
    Fixed64 = 2
    Numbers = {6, 127}
    Keys <- EditKeys
    Names <- EditNames
    Levels = {0, 2}
    kNumLevels = 3
    MaxCalls = 2
    MaxBytes = 4
    UserKeys <- BatchKeys
    Values <- BatchValues
    Batches = {b1, b2}
    MaxUpdates = 3
    MaxInserts = 2
    MaxSequence = 7
    N = 2
    Poly = 130
    kMaskDelta = 162
    Rotate = 3
    MaxStream = 5
    MaxDamaged = 4
SYMMETRY BatchSymmetry
CHECK_DEADLOCK FALSE
INVARIANTS
    DecodingRestores
    
PROPERTY
    MessagesArrive
