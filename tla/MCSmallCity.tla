--------------------------- MODULE MCSmallCity ---------------------------
(***************************************************************************)
(* A city that lasts a few ticks, with a milestone in the first one, so    *)
(* that it can be saved before and after a milestone and a construction.   *)
(***************************************************************************)
EXTENDS Integers

MCBuildingTypes == {"PARK"}
MCBuildTicks == [PARK |-> 2]
MCBuildCost == [PARK |-> 5]
MCEffects == [PARK |-> [WATER |-> 0, ENERGY |-> 0, MONEY |-> 0, POPULATION |-> 0, CO2 |-> -5]]
MCInitValue ==
    [WATER |-> 35, ENERGY |-> 60, MONEY |-> 20, POPULATION |-> 100, CO2 |-> 20]
MCInitDelta ==
    [WATER |-> -10, ENERGY |-> -10, MONEY |-> 0, POPULATION |-> 10, CO2 |-> 10]
=============================================================================
