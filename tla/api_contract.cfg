SPECIFICATION FairSpec
CONSTANTS
    NULL = NULL
    t1 = t1
    t2 = t2
    w1 = w1
    AnyIp = "0.0.0.0"
    LocalIps <- MCLocalIps
    IpValues <- MCIps
    NameValues <- MCNames
    Threads <- TwoThreads
    Workers <- OneWorker
    Configs <- OneIpOnly
    ForeignAddresses <- OneAddress
    Contract <- Careful
    MaxStarts = 2
CHECK_DEADLOCK TRUE
INVARIANTS
    OtherwiseDefined
    NoForgottenServer
PROPERTIES
    AvailablePortChosen
    LockReleased
    StoppedIsTakenDown
