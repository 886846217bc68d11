SPECIFICATION Spec
CONSTANTS
    NULL = NULL
    t1 = t1
    t2 = t2
    w1 = w1
    AnyIp = "0.0.0.0"
    LocalIps <- MCLocalIps
    IpValues <- MCIps
    NameValues <- MCNames
    Threads <- OneThread
    Workers <- NoWorker
    Configs <- DefaultOnly
    ForeignAddresses <- NoAddress
    Contract <- Sequenced
    MaxStarts = 2
CHECK_DEADLOCK FALSE
PROPERTIES
    DeinitClears
