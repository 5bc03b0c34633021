\* One fault, a budget of one, two probe attempts.
CONSTANTS
    MaxRetries = 1
    ProbeAttempts = 2
    MaxFaults = 1
SPECIFICATION GapsSpec
PROPERTY NeverDeaf
\* Once dropped, the client may stop.
CHECK_DEADLOCK FALSE
