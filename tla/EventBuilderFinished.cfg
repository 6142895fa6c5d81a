CONSTANTS
    NWorkers = 1
    Kind <- OneBuffering
    MaxTriggers = 3
    BufferDepth = 2
    MaxQueueSize = 2
    BatchSize = 1
    KMaxQueueSize = 2
    Spaced = TRUE
SPECIFICATION Spec
INVARIANT FinishedMeansSent
CHECK_DEADLOCK FALSE
