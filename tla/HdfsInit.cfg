\* Every start may fail more than once, in different places.
CONSTANTS
    MaxAttempts = 2
    MaxFaults = 6
SPECIFICATION FairSpec
INVARIANTS WorkersFindHdfsReady NothingLost
PROPERTY StartsEventually
CHECK_DEADLOCK FALSE
