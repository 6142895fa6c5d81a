SPECIFICATION Spec
CONSTANTS
    c1 = c1
    c2 = c2
    Client <- MCClient
    HighWaterMark = 2
    MaxFaults = 1
INVARIANTS
    TypeOK
    InStep
PROPERTY
    AllWereReady
SYMMETRY MCSymmetry
