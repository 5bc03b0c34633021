CONSTANTS
    c1 = c1
    c2 = c2
    Clients = {c1, c2}
    Algorithms = {"none", "AES"}
    Filters <- TwoFilters
    Listening = {c1}
    Preloaded = {}
    Kinds <- BothKinds
    MaxMarks = 2
    MaxLost = 1
SPECIFICATION FairSpec
INVARIANT ReadsArePlain
CHECK_DEADLOCK FALSE
