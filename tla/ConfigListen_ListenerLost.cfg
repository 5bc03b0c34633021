CONSTANTS
    Listeners <- TwoListeners
    Md5s <- TwoContents
    Cap = 1
    MaxChanges = 1
    MaxLosses = 0
    Loaded = FALSE
    Missing = FALSE
    Overlapping = TRUE
    Unordered = FALSE
SPECIFICATION Spec
INVARIANT NoListenerLost
CHECK_DEADLOCK FALSE
