SPECIFICATION FairSystemSpec
CONSTANTS
    NULL = NULL
    Main = Main
    w1 = w1
    w2 = w2
    s1 = s1
    s2 = s2
    AnyIp = "0.0.0.0"
    LocalIps <- MCIps
    IpValues <- MCIps
    NameValues <- MCNames
    Threads <- OnlyMain
    Workers <- TwoWorkers
    Configs <- MCConfigs
    ForeignAddresses <- MCForeign
    MaxStarts = 1
    Programs <- BothSamples
    Sockets <- TwoSockets
    MaxSockets = 1
    LabelNames <- MCLabelNames
    LabelValues <- MCLabelValues
    MaxStat = 1
    Contract <- QuietOnly
CHECK_DEADLOCK FALSE
INVARIANTS OtherwiseDefined AnswersTellWhatWasAsked
PROPERTIES SampleEnds ImplementsApi
