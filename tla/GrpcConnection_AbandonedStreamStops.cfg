CONSTANTS
    MaxRetries = 1
    ProbeAttempts = 1
    MaxFaults = 1
SPECIFICATION FairSpec
PROPERTY AbandonedStreamStops
CHECK_DEADLOCK FALSE
