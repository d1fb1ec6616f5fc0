CONSTANTS
    Backends <- MCBackends
    Unit = 2
    Steps <- MCSteps
    Nominal = 1
    RingCap = 3
    Quantum = 2
    MaxBlock = 2
    MaxGap = 1
    MaxSource = 6
    MaxPort = 2
SPECIFICATION Spec
\* leave one of the three names
INVARIANTS FreshIsPlayed StartsLive NoFreedClosure
CHECK_DEADLOCK FALSE
