CONSTANTS
    c1 = c1
    c2 = c2
    Clients = {c1, c2}
    Algorithms = {"none", "AES"}
    Filters <- OneFilter
    Listening = {c1}
    Preloaded = {}
    Kinds <- BothKinds
    MaxMarks = 2
    MaxLost = 1
SPECIFICATION FairSpec
INVARIANTS PublishInv ReadsArePlain
PROPERTIES NoUpdateLost CasSucceeds
CHECK_DEADLOCK FALSE
