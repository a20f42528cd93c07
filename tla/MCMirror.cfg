\* Safety of the mirror.
CONSTANTS
    v1 = v1
    NoValidator = NoValidator
    Validators <- MCValidators
    BackoffInitial = 1
    BackoffMax = 20
    Capacity = 1
    MaxConnections = 3
    MaxBundles = 3
    MaxStreams = 0
    MaxFrames = 2
SPECIFICATION Spec
CHECK_DEADLOCK FALSE
INVARIANTS
    SlotIsServed
    MirroredInOrderOnce
