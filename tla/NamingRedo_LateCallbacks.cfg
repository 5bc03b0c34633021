CONSTANTS
    Keys <- OneService
    Redo = redo
    MaxSessions = 2
    MaxTasks = 1
    PromptTasks = FALSE
    Zombies = FALSE
    Rejections = {}
SPECIFICATION FairRedoSpec
PROPERTY WantedIsRegistered
CHECK_DEADLOCK FALSE
