CONSTANTS
    Listeners <- OneListener
    Md5s <- TwoContents
    Cap = 1
    MaxChanges = 3
    MaxLosses = 1
    Loaded = FALSE
    Missing = FALSE
    Overlapping = FALSE
    Unordered = FALSE
SPECIFICATION FairSpec
PROPERTY
    ListenersConverge
CHECK_DEADLOCK FALSE
