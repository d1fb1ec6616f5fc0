CONSTANTS
    Decim = 2
    Chunk = 2
    RawCap = 4
    DecimCap = 2
    DrainCap = 3
    TailMax = 2
    N = 2
    Hop = 1
    Pending = 1
    RowCaps <- MCRowCaps
    MaxSample = 8
SPECIFICATION Spec
INVARIANTS GapsAreLosses
PROPERTY RefinesWindow
CHECK_DEADLOCK FALSE
