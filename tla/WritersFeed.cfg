SPECIFICATION FairSpec
CONSTANTS
    BatchSize = 2
    KMaxQueueSize = 2
    NeedSync = FALSE
    Configurations <- MCSound
    Runs = 2
    MaxEvents = 3
INVARIANTS TypeOK FewStale NumberCovers FreshAnswer FileComplete BranchesHold
PROPERTIES ShowsStream Drains
CHECK_DEADLOCK FALSE
