\* Starts, ends and restarts of the process.
CONSTANTS
    Absent = Absent
    Torn = Torn
    MaxKeys = 2
    MaxStarts = 2
SPECIFICATION FairSpec
CHECK_DEADLOCK FALSE
INVARIANTS
    KeysSound
PROPERTIES
    MainEndsLast
    ExitEndsWorkers
    StopsWhenAsked
    FailedStageRaisesExit
