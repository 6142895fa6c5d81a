SPECIFICATION FairSpec
CONSTANTS
    Thread <- MCThread
    Class <- MCClass
    MaxCount = 1
    Nobody = "nobody"
    Digitizer = "digitizer"
    NumCh = 2
    MaxPoll = 1
    MaxEvents = 2
    MaxFaults = 2
    Faulty = {"acq", "arm", "address", "start", "trace", "reset"}
INVARIANTS
    TypeOK
    OwnAnswer
    BadEventsLogged
PROPERTY
    ReadOut
