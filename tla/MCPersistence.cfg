SPECIFICATION HistorySpec
CONSTANTS
    BuildingTypes <- MCBuildingTypes
    BuildTicks <- MCBuildTicks
    BuildCost <- MCBuildCost
    Effects <- MCEffects
    InitValue <- MCInitValue
    InitDelta <- MCInitDelta
    MaxPetitionId = 2
    MaxResourceValue = 150
    MaxCO2 = 140
    InitGoal = 110
    MaxRestarts = 2
CHECK_DEADLOCK FALSE
INVARIANTS
    PersistTypeOK
    NeverResumesLostGame
    NextIdIsFresh
    CompletedSaveIsExact
PROPERTIES
    RestoreInvertsSave
    ResumesTheLastSave
