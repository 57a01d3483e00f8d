SPECIFICATION PetitionSpec
CONSTANTS
    BuildingTypes <- MCBuildingTypes
    BuildTicks <- MCBuildTicks
    MaxPetitionId = 4
INVARIANTS
    PetitionTypeOK
    NextIdIsFresh
    IdsNameOnePetition
    OneOwner
    NothingStuck
PROPERTIES
    LeavesOnlyWhenComplete
