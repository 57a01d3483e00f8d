------------------------- MODULE MCPetitionManager -------------------------
(* Two building types with different construction times, every complete     *)
(* save of petitions with ids up to MaxPetitionId as a starting point.      *)
EXTENDS PetitionManager

MCBuildingTypes == {"PLANT", "PARK"}
MCBuildTicks == [PLANT |-> 3, PARK |-> 2]
=============================================================================
