\* The delay thread: two batches, an output channel of one.
CONSTANTS
    s1 = s1
    NoSig = NoSig
    Signatures <- OneSignature
    Batches <- OneBatch
    TTL = 2
    Delay = 1
    IdleTick = 1
    Capacity = 1
    MaxBatches = 2
    MaxTime = 3
SPECIFICATION FairSpec
INVARIANTS
    FilterIndexSound
    OnlyRecentFiltersDiscard
PROPERTIES
    ImplementsDelayLine
    DueBatchForwarded
    ExitStopsThread
    FilterExpires
CHECK_DEADLOCK FALSE
