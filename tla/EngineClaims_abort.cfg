SPECIFICATION FairSpec
CONSTANTS
    kiwi = kiwi
    local = local
    c1 = c1
    None = None
    Dest <- MCDest
    KiwiDest <- MCKiwiDest
    Center <- MCCenter
    Ops = {"connect", "cancel"}
    MaxSent = 3
    MaxAttempt = 3
INVARIANT
    AbortHeard
