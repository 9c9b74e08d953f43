\* The two bounds differ, so that n tells which poll gave up.
CONSTANTS
    PollAttempts = 2
    CleanupAttempts = 3
    Faults = {"kill", "interrupt", "overlap"}
SPECIFICATION FairSpec
INVARIANTS PassIsEarned LeftRunningExplained SparesEarlierTests
PROPERTIES KeepsContract
CHECK_DEADLOCK FALSE
