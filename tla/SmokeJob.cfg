\* The two bounds differ, so that n tells which poll gave up.
CONSTANTS
    CleanupAttempts = 3
    CorrelationAttempts = 2
    Faults = {"kill"}
SPECIFICATION FairSpec
INVARIANTS PassIsEarned LeftRunningExplained
PROPERTIES KeepsContract
CHECK_DEADLOCK FALSE
