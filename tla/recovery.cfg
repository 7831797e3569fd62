\* Crashes and restarts with a WAL; the newest SSTs in tiers.
SPECIFICATION RecoverySpec
CONSTANTS
    v1 = v1
    Tombstone = Tombstone
    NoEntry = NoEntry
    NoThread = NoThread
    Nil = Nil
    Keys <- MCKeys
    Values <- MCValues
    Batches <- MCBatches
    MaxTs = 2
    Writers = {w1}
    Readers = {}
    Forcers = {}
    FlushThread = ft
    TargetSstSize = 3
    NumMemtableLimit = 1
    FlushToL0 = FALSE
    MaxLevels = 1
    MaxFaults = 1
    BlockEntries = 2
    BufferedRecords = 1
    MaxCrashes = 2
INVARIANTS
    RecoveryTypeOK
    DirectoryCanBeOpened
    AckedIsRead
CHECK_DEADLOCK FALSE
