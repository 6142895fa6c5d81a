CONSTANTS
    NWorkers = 2
    Kind <- TwoBuffering
    MaxTriggers = 3
    BufferDepth = 2
    MaxQueueSize = 2
    BatchSize = 1
    KMaxQueueSize = 1
    Spaced = FALSE
SPECIFICATION Spec
INVARIANTS TypeOK CompleteBundles QueueBounded
PROPERTY DeliversStream
CHECK_DEADLOCK FALSE
