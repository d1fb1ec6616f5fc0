CONSTANTS
    Drivers <- MCDrivers
    RingCap = 2
    FifoCap = 2
    Block = 2
    MaxSample = 5
    MaxStarts = 2
    MaxLate = 1
SPECIFICATION ReceiverSpec

PROPERTY StopAlwaysReturns
CHECK_DEADLOCK FALSE
