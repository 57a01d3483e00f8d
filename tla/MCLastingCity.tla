--------------------------- MODULE MCLastingCity ---------------------------
(***************************************************************************)
(* A city in which nothing is used up, so that a game goes on for as long  *)
(* as the process does, with room for two petitions under construction.    *)
(***************************************************************************)
EXTENDS Persistence

MCBuildingTypes == {"PARK"}
MCBuildTicks == [PARK |-> 3]
MCBuildCost == [PARK |-> 5]
MCEffects == [PARK |-> [WATER |-> 0, ENERGY |-> 0, MONEY |-> 0, POPULATION |-> 0, CO2 |-> -5]]
MCInitValue ==
    [WATER |-> 1, ENERGY |-> 1, MONEY |-> 5, POPULATION |-> 1, CO2 |-> 1]
MCInitDelta ==
    [WATER |-> 0, ENERGY |-> 0, MONEY |-> 0, POPULATION |-> 0, CO2 |-> 0]
=============================================================================
