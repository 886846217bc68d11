SPECIFICATION Spec
CONSTANTS
    NULL = NULL
    s1 = s1
    s2 = s2
    v1 = v1
    v2 = v2
    Sockets <- TwoSockets
    MaxSockets = 2
    LabelNames <- OneName
    LabelValues <- OneValue
    Configs <- TwoVariables
    MaxStat = 1
    Contract <- Quiet
INVARIANTS
    TypeOK
    EverySocketReported
    FreshValues
    LabelsWhole
    NeverUndefined
