SPECIFICATION PartsSpec
CONSTANTS
    Nodes = {1, 2, 3}
    MaxHeight = 2
    Readers = {r1}
    Writer = w
    Group = 8
    WordBytes = 2
    LongBytes = 4
    Cases <- PbCases
    BlockSize = 5
    HeaderSize = 2
    Sizes = {0, 2, 4}
    Offsets = {0, 7}
    MaxRecords = 2
    MaxFails = 1
    MaxCorrupt = 1
    MaxReopens = 1
    UserKeys = {1}
    Writes = 3
    MaxFile = 3
    MaxNumber = 5
    MaxCrashes = 2
    MaxFaults = 1
    Keys = {1, 2}
    NumLevels = 4
    MaxMemCompactLevel = 1
    L0Trigger = 2
    LevelLimit = 2
    FileLimit = 2
    OverlapLimit = 2
    ExpandLimit = 6
    BufferLimit = 0
    Batches <- SmallBatches
    MaxSequence = 5
    MaxSnapshots = 1
    MaxManual = 0
INVARIANTS
    SearchFinds
    SnapshotReads
    LevelsSorted
    RangesMovedDown
    IteratorFollowsList
    NoSilentGap
    FreedWhenUnreachable
    BlockIterFollowsList
    TableGetFinds
    RepairKeeps
    RecordsReadBack
    BlocksOwnedOnce
    CrashLosesOnlyTheTail
    NoRecordAfterOffsetMissed
    OnlyWholeRecords
    DamageStaysInItsBlock
    DecodesWhatWasSent
    EncodesAsSized
CHECK_DEADLOCK FALSE
