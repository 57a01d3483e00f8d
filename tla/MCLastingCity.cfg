SPECIFICATION FairPersistSpec
CONSTANTS
    BuildingTypes <- MCBuildingTypes
    BuildTicks <- MCBuildTicks
    BuildCost <- MCBuildCost
    Effects <- MCEffects
    InitValue <- MCInitValue
    InitDelta <- MCInitDelta
    MaxPetitionId = 3
    MaxResourceValue = 10
    MaxCO2 = 10
    InitGoal = 2
    MaxRestarts = 1
CHECK_DEADLOCK FALSE
PROPERTIES
    QueuedIsBuilt
