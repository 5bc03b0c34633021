CONSTANTS
    Services <- OneHttp
    Lists <- Grown
    Interval = 3
    Period = 3
    Timeout = 1
    Ttl = 12
    Tolerated = 1
    MaxRetries = 2
    Indexes = 4
SPECIFICATION Spec
INVARIANT ScheduledContinuously
CHECK_DEADLOCK FALSE
