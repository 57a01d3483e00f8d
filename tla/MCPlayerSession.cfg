SPECIFICATION FairSessionSpec
CONSTANTS
    MaxKeys = 2
    MaxRuns = 2
    MaxFeed = 1
INVARIANTS
    SessionTypeOK
    UnhurriedAnswerMeetsItsPetition
PROPERTIES
    ScreenCatchesUp
    KeyIsAnswered
CHECK_DEADLOCK FALSE
