\* Bundle readers and progress of the mirror.
CONSTANTS
    v1 = v1
    NoValidator = NoValidator
    Validators <- MCValidators
    BackoffInitial = 1
    BackoffMax = 3
    Capacity = 1
    MaxConnections = 2
    MaxBundles = 1
    MaxStreams = 1
    MaxFrames = 2
SPECIFICATION FairSpec
CHECK_DEADLOCK FALSE
INVARIANTS
    AtMostOneLateFrame
PROPERTIES
    ExitEndsMirror
    Reconnects
    ValidatorReported
