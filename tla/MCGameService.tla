--------------------------- MODULE MCGameService ---------------------------
(***************************************************************************)
(* A small city: ten ticks or so until a resource runs out, or none at all *)
(* once it has a PLANT and a PARK; prices around the money at hand, and a  *)
(* milestone in the fifth tick, when up to three buildings stand and two   *)
(* of them may have been completed in the same tick.                       *)
(***************************************************************************)
EXTENDS GameService

MCBuildingTypes == {"PLANT", "PARK"}
MCBuildTicks == [PLANT |-> 3, PARK |-> 2]
MCBuildCost == [PLANT |-> 30, PARK |-> 5]
MCEffects ==
    [PLANT |-> [WATER |-> 0, ENERGY |-> 25, MONEY |-> -2, POPULATION |-> 0, CO2 |-> 20],
     PARK  |-> [WATER |-> 21, ENERGY |-> 0, MONEY |-> 0, POPULATION |-> 0, CO2 |-> -35]]
MCInitValue ==
    [WATER |-> 70, ENERGY |-> 60, MONEY |-> 20, POPULATION |-> 100, CO2 |-> 20]
MCInitDelta ==
    [WATER |-> -10, ENERGY |-> -10, MONEY |-> 10, POPULATION |-> 10, CO2 |-> 10]
=============================================================================
