CONSTANTS
    Keys <- OneService
    Redo = redo
    MaxSessions = 2
    MaxTasks = 1
    PromptTasks = TRUE
    Zombies = FALSE
    Rejections = {redo}
SPECIFICATION FairRedoSpec
PROPERTY WantedIsRegistered
CHECK_DEADLOCK FALSE
