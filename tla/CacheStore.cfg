CONSTANTS
    Keys <- OneKey
    TmpOf <- OneTmp
    MaxRetries = 3
    MaxChanges = 3
    MaxTasks = 2
    MaxFaults = 1
    MaxCrashes = 1
SPECIFICATION FairSpec
INVARIANT
    StoreTypeOK
    FilesGenuine
PROPERTIES
    StoreRefined
    DiskCatchesUp
\* The process may stay down, and the map unchanged.
CHECK_DEADLOCK FALSE
