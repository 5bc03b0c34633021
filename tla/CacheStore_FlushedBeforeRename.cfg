CONSTANTS
    Keys <- OneKey
    TmpOf <- OneTmp
    MaxRetries = 3
    MaxChanges = 2
    MaxTasks = 2
    MaxFaults = 1
    MaxCrashes = 0
SPECIFICATION Spec
INVARIANT FlushedBeforeRename
CHECK_DEADLOCK FALSE
