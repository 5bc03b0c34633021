\* One fault, a budget of one, two probe attempts.
CONSTANTS
    MaxRetries = 1
    ProbeAttempts = 2
    MaxFaults = 1
SPECIFICATION GapsSpec
INVARIANTS
    TypeOK
    HealthOnlyWhenConnected
    RetryBudget
PROPERTIES
    SessionRefined
    RequestCompletes
    PushChannelRestored
    ProbeStopsAfterDrop
\* Once dropped, the client may stop.
CHECK_DEADLOCK FALSE
