CONSTANTS
    NWorkers = 1
    Kind <- OneBanked
    Wfd <- BothFirst
    MaxTriggers = 4
    BufferDepth = 1
    MaxQueueSize = 2
    NRounds = 2
    KMaxQueueSize = 1
    MaxRuns = 1
    MaxStarts = 2
    Paced = TRUE
    Steady = TRUE
    Raised = {}
SPECIFICATION Spec
INVARIANTS EventsProper
CHECK_DEADLOCK FALSE
