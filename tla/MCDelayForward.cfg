\* A block engine lane.
CONSTANTS
    s1 = s1
    NoSig = NoSig
    Signatures <- MCSignatures
    Responses <- MCResponses
    TTL = 1
    Delay = 1
    Capacity = 1
    MaxResponses = 3
    MaxTime = 2
SPECIFICATION FairSpec
CHECK_DEADLOCK FALSE
PROPERTIES
    ImplementsDelayLine
    DueResponseSent
    LaneEnds
