CONSTANTS
    Decim = 2
    Chunk = 2
    RawCap = 8
    DecimCap = 2
    DrainCap = 3
    TailMax = 1
    N = 2
    Hop = 1
    Pending = 1
    RowCaps <- MCRowCaps
    MaxSample = 8
SPECIFICATION Spec
INVARIANT NoSplice
CHECK_DEADLOCK FALSE
