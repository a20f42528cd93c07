\* Two refreshes of the stakes and the slot subscription beside them.
CONSTANTS
    n1 = n1
    Nodes <- MCNodes
    NoNode = NoNode
    Stakes = {1, 2}
    RefreshAfter = 4
    RefreshDuration = 2
    SlotTimeout = 1
    Nap = 1
    MaxCall = 1
    MaxAccounts = 1
    MaxTime = 11
SPECIFICATION Spec
CHECK_DEADLOCK FALSE
INVARIANTS
    StakesOfLastAccount
    StakesFresh
    SlotsWatched
    StopInTime
