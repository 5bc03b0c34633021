CONSTANTS
    Keys <- TwoKeys
    TmpOf <- SharedTmp
    MaxRetries = 3
    MaxChanges = 3
    MaxTasks = 2
    MaxFaults = 1
    MaxCrashes = 1
SPECIFICATION Spec
INVARIANT FilesGenuine
\* The process may stay down, and the map unchanged.
CHECK_DEADLOCK FALSE
