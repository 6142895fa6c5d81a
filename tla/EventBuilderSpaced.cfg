CONSTANTS
    NWorkers = 2
    Kind <- TwoSampling
    MaxTriggers = 3
    BufferDepth = 1
    MaxQueueSize = 2
    BatchSize = 2
    KMaxQueueSize = 2
    Spaced = TRUE
SPECIFICATION FairSpec
INVARIANT Synchronized
PROPERTY RunFinishes
CHECK_DEADLOCK FALSE
