SPECIFICATION FairSpec
CONSTANTS
    RingCap = 4
    DrainCap = 2
    ChanCap = 1
    PlayRingCap = 2
    FileLen = 4
    MaxSample = 5
    MaxOps = 3
PROPERTY
    PlayedToTheEnd
