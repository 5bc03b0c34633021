CONSTANTS
    Listeners = {l1}
    Hosts <- Recovered
    NoHosts = NoHosts
    Settings <- BothSettings
    Grain = 3
    ChannelSize = 1
    MaxFailed = 1
    MaxUpdaters = 2
    MaxFaults = 1
    PromptListeners = TRUE
SPECIFICATION FairSpec
INVARIANTS
    NamingInv
PROPERTIES
    CacheNeverGoesBack
    CacheFollowsServer
    ListenersInformed
    OneUpdater
\* A client that nobody subscribes with may be idle.
CHECK_DEADLOCK FALSE
