\* The queue of challenges: three addresses, a capacity of one.
CONSTANTS
    h1 = h1
    h2 = h2
    ip1 = ip1
    ip2 = ip2
    ip3 = ip3
    v1 = v1
    v2 = v2
    Handlers <- MCHandlers
    Ips <- ThreeIps
    Pubkeys <- OneValidator
    Signatures <- NoSignatures
    Capacity = 1
    ChallengeTTL = 1
    AccessTTL = 1
    RefreshTTL = 2
    SweepInterval = 1
    TicksPerSecond = 2
    MaxTime = 2
    MaxChallenges = 3
SPECIFICATION Spec
CHECK_DEADLOCK FALSE
SYMMETRY Symmetry
INVARIANTS
    CapacityUpToConcurrency
PROPERTIES
    SweepRemovesAllExpired
