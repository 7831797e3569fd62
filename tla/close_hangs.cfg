\* The writer and close, as in the tests: put, then close.
SPECIFICATION CloseSpec
CONSTANTS
    k1 = k1
    v1 = v1
    Tombstone = Tombstone
    NoEntry = NoEntry
    NoThread = NoThread
    Nil = Nil
    Keys <- MCKeys
    Values <- MCValues
    Batches <- MCBatches
    MaxTs = 1
    Writers = {w1}
    Readers = {}
    Forcers = {cl}
    Closer = cl
    FlushThread = ft
    TargetSstSize = 2
    NumMemtableLimit = 1
    FlushToL0 = TRUE
    MaxLevels = 1
    MaxFaults = 0
PROPERTIES
    CloseReturns
CHECK_DEADLOCK FALSE
