CONSTANTS
    Listeners = {l1, l2}
    Hosts <- Recovered
    NoHosts = NoHosts
    Settings <- Plain
    Grain = 3
    ChannelSize = 1
    MaxFailed = 1
    MaxUpdaters = 1
    MaxFaults = 0
    PromptListeners = TRUE
SPECIFICATION FairSpec
PROPERTY CacheFollowsServer
CHECK_DEADLOCK FALSE
