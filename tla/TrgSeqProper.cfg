CONSTANTS
    NWorkers = 2
    Kind <- BankedAndSampling
    Wfd <- InTurn
    MaxTriggers = 4
    BufferDepth = 1
    MaxQueueSize = 2
    NRounds = 2
    KMaxQueueSize = 1
    MaxRuns = 1
    MaxStarts = 2
    Paced = TRUE
    Steady = TRUE
    Raised = {}
SPECIFICATION FairSpec
INVARIANTS TypeOK EventsUnspoilt SequencesAsked
PROPERTIES ComesToRest
CHECK_DEADLOCK FALSE
