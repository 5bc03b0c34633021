CONSTANTS
    Keys <- OneService
    Redo = redo
    MaxSessions = 2
    MaxTasks = 1
    PromptTasks = TRUE
    Zombies = FALSE
    Rejections = {}
SPECIFICATION RedoSpec
INVARIANT LeavingLasts
CHECK_DEADLOCK FALSE
