\* Two calls of one peer, with and without an upstream stream.
CONSTANTS
    p1 = p1
    MaxCalls = 2
    Peers <- MCPeers
    Capacity = 1
    MaxItems = 1
    MaxBundles = 1
SPECIFICATION FairSpec
CHECK_DEADLOCK FALSE
INVARIANTS
    ConnectionsBounded
    OwnItemsAhead
    EndsByExitOrClient
PROPERTIES
    LeavingStopsTasks
    ExitEndsStreams
