SPECIFICATION FairSpec
CONSTANTS
    w1 = w1
    w2 = w2
    Words <- MCWords
    MaxGen <- MCMaxGen
INVARIANTS
    NoDataRace
PROPERTIES
    RefinesRegister
    Delivered
