CONSTANTS
    Listeners <- OneListener
    Md5s <- TwoContents
    Cap = 1
    MaxChanges = 1
    MaxLosses = 0
    Loaded = TRUE
    Missing = FALSE
    Overlapping = FALSE
    Unordered = FALSE
SPECIFICATION Spec
INVARIANT DeliveredFiltered
CHECK_DEADLOCK FALSE
