CONSTANTS
    Listeners <- TwoListeners
    Md5s <- TwoContents
    Cap = 1
    MaxChanges = 1
    MaxLosses = 1
    Loaded = FALSE
    Missing = TRUE
    Overlapping = FALSE
    Unordered = FALSE
SPECIFICATION FairSpec
INVARIANTS
    ConfigTypeOK
    ToldIsSent
    NoListenerLost
PROPERTY
    CacheConverges
\* Callers may stop calling.
CHECK_DEADLOCK FALSE
