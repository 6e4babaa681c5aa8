SPECIFICATION DBSpec
CONSTANTS
    Writers = {1, 2}
    BufferLimit = 0
    CompactionTrigger = 2
    StopTrigger = 3
    MaxOps = 3
    MaxCrashes = 1
    MaxFaults = 1
    Machines = {TRUE, FALSE}
    Syncs = {TRUE, FALSE}
    Files = {f1, f2, f3}
    MmapLimit = 1
    FdLimit = 1
    MaxItems = 3
    Processes = {1, 2}
    Lockers = {1, 2, 3, 4}
    ProcessOf <- Of
INVARIANTS
    OneProcessAtATime
CHECK_DEADLOCK FALSE
