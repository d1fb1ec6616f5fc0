SPECIFICATION Spec
CONSTANTS
    Factors = {1, 2}
    Taps = {2, 3}
    Aheads = {1, 2}
    Dits = {2, 3}
    CoherentLen = 3
    MinBlock = 2
    MaxBlock = 4
    MaxIn = 7
    MaxChange = 2
INVARIANTS
    EvenlyDecimated
    FilterIsStreaming
    GainLandsOnItsSample
    IntegratorKeepsOrder
CHECK_DEADLOCK FALSE
