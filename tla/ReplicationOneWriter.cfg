SPECIFICATION FairSpec
CONSTANTS
    a = a
    b = b
    Server = {a, b}
    Key = {k1, k2}
    Value = {v1}
    None = None
    Torn = Torn
    Writes <- OneWriter
    BatchSize = 2
    MaxCalls = 3
    MaxDiskFault = 1
    MaxNetFault = 1
INVARIANTS
    TypeOK
    LoggedOnce
    CatchesUp
PROPERTIES
    EventuallyConsistent
    EventuallyLogged
CHECK_DEADLOCK FALSE
