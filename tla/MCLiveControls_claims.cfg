SPECIFICATION Spec
CONSTANTS
    Kinds <- MCKinds
    MaxEdit = 2
    MaxConnect = 2
    MaxFail = 1
\* leave one of the three names
INVARIANTS
    GainApplies
    AirspyAgcFollows
    KiwiAgcFollows
CHECK_DEADLOCK FALSE
