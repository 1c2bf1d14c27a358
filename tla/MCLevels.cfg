SPECIFICATION Spec
CONSTANTS
    Parts = {"moves", "seeks", "snapshots", "scans", "rest", "refs"}
    Readers = {r1, r2}
    MaxFiles = 4
    NumLevels = 3
    MaxVersions = 5
SYMMETRY ReaderSymmetry
CHECK_DEADLOCK FALSE
INVARIANTS
    ReadsAreCorrect
    ScansAreCorrect
    LevelsAreSound
    NeededFilesAreOnDisk
