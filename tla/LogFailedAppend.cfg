SPECIFICATION LogSpec
CONSTANTS
    BlockSize = 6
    HeaderSize = 2
    Sizes = {0, 1, 2}
    Offsets = {0}
    MaxRecords = 3
    MaxFails = 1
    MaxCorrupt = 0
    MaxReopens = 0
INVARIANTS
    SyncedRecordSurvives
