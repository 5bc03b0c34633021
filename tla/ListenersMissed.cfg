CONSTANT MaxSessions = 2
SPECIFICATION FairSpec
PROPERTY ConnectionAnnounced
CHECK_DEADLOCK FALSE
