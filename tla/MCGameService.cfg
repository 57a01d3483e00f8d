SPECIFICATION FairSpec
CONSTANTS
    BuildingTypes <- MCBuildingTypes
    BuildTicks <- MCBuildTicks
    BuildCost <- MCBuildCost
    Effects <- MCEffects
    InitValue <- MCInitValue
    InitDelta <- MCInitDelta
    MaxPetitionId = 4
    MaxResourceValue = 180
    MaxCO2 = 140
    InitGoal = 150
CHECK_DEADLOCK FALSE
INVARIANTS
    GameTypeOK
    EffectsAppliedOnce
    GoalAhead
    NeverSavesLostGame
PROPERTIES
    CommittedOnlyByAccept
    MilestoneNeverEases
    AcceptedIsBuilt
    UnmendedCityIsLost
    PetitionSpec
