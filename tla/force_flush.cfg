\* One writer, force_flush racing the flush thread, two I/O failures, SSTs
\* flushed to a tier of their own; under the fairness of FairSpec.
SPECIFICATION FairSpec
CONSTANTS
    k1 = k1
    k2 = k2
    v1 = v1
    Tombstone = Tombstone
    NoEntry = NoEntry
    NoThread = NoThread
    Nil = Nil
    Keys <- MCOneKey
    Values <- MCValues
    Batches <- MCPutOrDelete
    MaxTs = 1
    Writers = {w1}
    Readers = {}
    Forcers = {f1}
    FlushThread = ft
    TargetSstSize = 1
    NumMemtableLimit = 1
    FlushToL0 = FALSE
    MaxLevels = 1
    MaxFaults = 2
INVARIANTS
    FlushedContentIsFinal
PROPERTIES
    ImplementsKvStore
    OldestIsFlushed
    WritesReturn
CHECK_DEADLOCK FALSE
