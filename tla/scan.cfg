\* A transaction over every arrangement of two batches in the layers.
SPECIFICATION TxnSpec
CONSTANTS
    v1 = v1
    Tombstone = Tombstone
    NoEntry = NoEntry
    Nil = Nil
    Keys <- MCKeys
    Values <- MCValues
    MaxTs = 3
    BlockEntries = 2
    KeyHash <- MCKeyHash
    HashBits = 4
    FilterBits = 5
    FilterProbes = 2
    Histories <- MCHistories
    Placements <- MCPlacements
    FailedAttempt <- MCFailedAttempt
    LevelEntries = 3
    Ranges <- MCRanges
    Incoming <- MCIncoming
    MaxCalls = 2
INVARIANTS
    TxnTypeOK
    GetReadsSnapshot
    ScanReadsSnapshot
CHECK_DEADLOCK FALSE
