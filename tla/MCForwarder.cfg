\* The forwarder: subscriptions, what a stream receives, and progress of the event loop.
CONSTANTS
    v1 = v1
    v2 = v2
    Validators <- MCValidators
    LiveCounts <- MCLiveCounts
    QueueCapacity = 1
    BatchSize = 2
    MaxBatches = 2
    MaxStreams = 3
SPECIFICATION FairSpec
INVARIANTS
    SubscriptionsSound
    ContiguousStream
CHECK_DEADLOCK FALSE
PROPERTIES
    SlotFreed
    DisconnectRaisesExit
