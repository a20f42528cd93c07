\* Challenges and tokens of one address.
CONSTANTS
    h1 = h1
    h2 = h2
    ip1 = ip1
    ip2 = ip2
    ip3 = ip3
    v1 = v1
    v2 = v2
    Handlers <- MCHandlers
    Ips <- OneIp
    Pubkeys <- TwoValidators
    Signatures <- MCSignatures
    Capacity = 1
    ChallengeTTL = 1
    AccessTTL = 1
    RefreshTTL = 1
    SweepInterval = 1
    TicksPerSecond = 2
    MaxTime = 1
    MaxChallenges = 2
SPECIFICATION FairSpec
CHECK_DEADLOCK FALSE
INVARIANTS
    ReplacesOnlyExpiredOrConcurrent
    TokensNameTheirSigner
    RemovesWhatItUsed
PROPERTIES
    EveryCallAnswered
    ExpiredChallengeRemoved
