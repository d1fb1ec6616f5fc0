SPECIFICATION FairSpec
CONSTANTS
    kiwi = kiwi
    local = local
    c1 = c1
    None = None
    Dest <- MCDest
    KiwiDest <- MCKiwiDest
    Center <- MCCenter
    Ops = {"connect"}
    MaxSent = 1
    MaxAttempt = 3
\* leave one of the two names
PROPERTY
    OneChargePerFailure
    BackoffKept
