SPECIFICATION SystemSpec
CONSTANTS
    NULL = NULL
    Main = Main
    w1 = w1
    w2 = w2
    s1 = s1
    s2 = s2
    AnyIp = "0.0.0.0"
    LocalIps <- MCIps
    IpValues <- MCIps
    NameValues <- MCNames
    Threads <- OnlyMain
    Workers <- OneWorker
    Configs <- MCConfigs
    ForeignAddresses <- MCForeign
    MaxStarts = 1
    Programs <- ListenerOnly
    Sockets <- TwoSockets
    MaxSockets = 1
    LabelNames <- MCLabelNames
    LabelValues <- MCLabelValues
    MaxStat = 0
    Contract <- NoContract
CHECK_DEADLOCK FALSE
INVARIANT NeverRaced
