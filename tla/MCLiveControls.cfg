SPECIFICATION Spec
CONSTANTS
    Kinds <- MCKinds
    MaxEdit = 2
    MaxConnect = 2
    MaxFail = 1
INVARIANTS
    ControlsFollow
    TuneStays
CHECK_DEADLOCK FALSE
