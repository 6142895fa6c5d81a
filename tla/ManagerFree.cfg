CONSTANTS
    NWorkers = 2
    Kind <- BankedAndSampling
    MaxTriggers = 2
    BufferDepth = 1
    MaxQueueSize = 2
    KMaxQueueSize = 0
    MaxRuns = 2
    QuietStart = TRUE
    Spaced = FALSE
SPECIFICATION Spec
INVARIANTS TypeOK QueueBounded CompleteBundles InOrder
CHECK_DEADLOCK FALSE
