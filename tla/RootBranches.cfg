SPECIFICATION Spec
CONSTANTS
    BatchSize = 2
    KMaxQueueSize = 2
    NeedSync = FALSE
    Configurations <- MCUnsound
    Runs = 1
    MaxEvents = 3
INVARIANT BranchesHold
CHECK_DEADLOCK FALSE
