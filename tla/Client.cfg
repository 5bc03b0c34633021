CONSTANTS
    Services <- AllServices
    Lists <- Grown
    Interval = 3
    Period = 3
    Timeout = 1
    Ttl = 12
    Tolerated = 1
    MaxRetries = 2
    Indexes = 4
SPECIFICATION FairSpec
INVARIANTS ClientInv TokenOutlives
PROPERTIES BuildEnds ListCatchesUp EveryServerTried
CHECK_DEADLOCK FALSE
