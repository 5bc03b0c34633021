CONSTANTS
    Listeners <- OneListener
    Md5s <- TwoContents
    Cap = 1
    MaxChanges = 1
    MaxLosses = 0
    Loaded = FALSE
    Missing = TRUE
    Overlapping = FALSE
    Unordered = FALSE
SPECIFICATION FairSpec
PROPERTY ListenersConverge
CHECK_DEADLOCK FALSE
