SPECIFICATION FairSpec
CONSTANTS
    kiwi = kiwi
    local = local
    c1 = c1
    None = None
    Dest <- MCDest
    KiwiDest <- MCKiwiDest
    Center <- MCCenter
    Ops = {"connect", "cancel", "play", "quit"}
    MaxSent = 3
    MaxAttempt = 2
PROPERTIES
    CancelWins
    NeverGivesUp
    QuitEndsThread
