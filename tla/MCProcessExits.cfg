SPECIFICATION FairSocketSpec
CONSTANTS
    SigPipeKills = TRUE
    MaxMessages = 3
    MaxConnections = 2
CHECK_DEADLOCK FALSE
PROPERTIES
    ProcessExits
