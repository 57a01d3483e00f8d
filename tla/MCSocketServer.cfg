SPECIFICATION FairSocketSpec
CONSTANTS
    SigPipeKills = TRUE
    MaxMessages = 3
    MaxConnections = 2
CHECK_DEADLOCK FALSE
INVARIANTS
    SocketTypeOK
    PolledInOrder
PROPERTIES
    ImplementsMailbox
    ConstructorEnds
    StoredIsPolled
    StopsOnceUILeft
