SPECIFICATION LevelsSpec
CONSTANTS
    Keys = {1, 2}
    NumLevels = 4
    MaxMemCompactLevel = 2
    L0Trigger = 2
    LevelLimit = 1
    FileLimit = 1
    OverlapLimit = 2
    ExpandLimit = 6
    BufferLimit = 0
    Batches <- SmallBatches
    MaxSequence = 4
    MaxSnapshots = 1
    MaxManual = 0
INVARIANTS
    ReadsLatest
