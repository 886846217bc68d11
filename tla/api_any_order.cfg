SPECIFICATION Spec
CONSTANTS
    NULL = NULL
    t1 = t1
    t2 = t2
    w1 = w1
    AnyIp = "0.0.0.0"
    LocalIps <- MCLocalIps
    IpValues <- MCIps
    NameValues <- MCNames
    Threads <- TwoThreads
    Workers <- OneWorker
    Configs <- DefaultOrFile
    ForeignAddresses <- NoAddress
    Contract <- NoContract
    MaxStarts = 2
CHECK_DEADLOCK FALSE
INVARIANTS
    TypeOK
    UniqueNames
    CallsKeepTheirExporter
    ListedExportersWork
PROPERTIES
    OnlyStopRemoves
    ImplementsRegistry
