CONSTANTS
    Keys <- OneService
    Redo = redo
    MaxSessions = 3
    MaxTasks = 2
    PromptTasks = TRUE
    Zombies = FALSE
    Rejections <- OneService
SPECIFICATION FairRedoSpec
INVARIANTS
    RedoTypeOK
    DisconnectNamesTheDead
    RoundWithinMap
    NoRedoAfterLeaving
PROPERTIES
    CallsReturn
    WantedIsRegistered
\* Callers may stop calling.
CHECK_DEADLOCK FALSE
