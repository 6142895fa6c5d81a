CONSTANTS
    NWorkers = 2
    Kind <- TwoSampling
    MaxTriggers = 3
    BufferDepth = 1
    MaxQueueSize = 2
    KMaxQueueSize = 1
    MaxRuns = 2
    QuietStart = TRUE
    Spaced = TRUE
SPECIFICATION FairSpec
INVARIANT Synchronized
PROPERTY EndsRun
CHECK_DEADLOCK FALSE
