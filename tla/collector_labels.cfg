SPECIFICATION Spec
CONSTANTS
    NULL = NULL
    s1 = s1
    s2 = s2
    v1 = v1
    v2 = v2
    Sockets <- OneSocket
    MaxSockets = 0
    LabelNames <- TwoNames
    LabelValues <- TwoValues
    Configs <- OneVariable
    MaxStat = 0
    Contract <- NoContract
PROPERTY ImplementsLabels
