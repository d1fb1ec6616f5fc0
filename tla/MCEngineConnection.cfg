SPECIFICATION Spec
CONSTANTS
    kiwi = kiwi
    local = local
    c1 = c1
    None = None
    Dest <- MCDest
    KiwiDest <- MCKiwiDest
    Center <- MCCenter
    Ops = {"connect", "cancel", "tune", "control", "record", "stop_record",
           "play", "stop_play", "quit"}
    MaxSent = 4
    MaxAttempt = 2
INVARIANTS
    ExclusiveSource
    WantedIsPursued
    StateIsBacked
    BusyDelayHonoured
PROPERTIES
    RefinesLifecycle
