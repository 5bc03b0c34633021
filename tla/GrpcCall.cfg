CONSTANTS
    Requests = {r1}
    Stream = Stream
    Asks <- FiveAsks
    OutSize = 2
    MaxLost = 2
SPECIFICATION FairSpec
INVARIANTS CallInv SentAtMostOnce
PROPERTIES CallsComplete EveryAskAnswered
CHECK_DEADLOCK FALSE
