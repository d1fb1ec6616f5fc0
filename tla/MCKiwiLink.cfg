SPECIFICATION FairSpec
CONSTANTS
    Transports = {"native", "web"}
    MaxAsk = 2
    MaxSay = 2
    MaxOpen = 2
INVARIANTS
    LastSettingWins
    NothingIgnored
    NoFreedCallback
PROPERTIES
    RefusalIsRemembered
    BrokenIsReplaced
    StopEnds
