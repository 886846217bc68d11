SPECIFICATION Spec
CONSTANTS
    NULL = NULL
    t1 = t1
    t2 = t2
    Threads <- TwoThreads
    DestInputs <- MCDests
    LevelInputs <- MCLevels
INVARIANT TypeOK
PROPERTY OneSettingExplains
