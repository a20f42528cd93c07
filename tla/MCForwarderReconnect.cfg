\* A validator reconnects between a failed send and drop_connections.
CONSTANTS
    v1 = v1
    v2 = v2
    Validators <- MCValidators
    LiveCounts <- MCLiveCounts
    QueueCapacity = 1
    BatchSize = 2
    MaxBatches = 1
    MaxStreams = 2
SPECIFICATION Spec
CHECK_DEADLOCK FALSE
INVARIANTS
    OnlyDeadStreamsDropped
