SPECIFICATION FairFramingSpec
CONSTANTS
    GameScripts <- MCGameScripts
    KeyScripts <- MCKeyScripts
CHECK_DEADLOCK FALSE
INVARIANTS
    FramingTypeOK
    ScreenShowsGame
    KeysAreUnderstood
    PolledIsOneKey
    EndsOnlyWhenClosed
PROPERTIES
    SentIsDelivered
