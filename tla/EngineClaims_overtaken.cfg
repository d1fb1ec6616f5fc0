SPECIFICATION FairSpec
CONSTANTS
    kiwi = kiwi
    local = local
    c1 = c1
    None = None
    Dest <- MCDest
    KiwiDest <- MCKiwiDest
    Center <- MCCenter
    Ops = {"connect"}
    MaxSent = 2
    MaxAttempt = 3
INVARIANT
    ConnMatchesRequest
