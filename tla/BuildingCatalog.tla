--------------------------- MODULE BuildingCatalog ---------------------------
(***************************************************************************)
(* domain/buildings: the cost, the construction time and the effects on    *)
(* the deltas of the twelve building types, with the game's own numbers.   *)
(***************************************************************************)
EXTENDS Integers, ResourceType

NoEffect == [r \in ResourceTypes |-> 0]

PowerPlant ==
    [cost |-> 900, ticks |-> 7, effects |-> [NoEffect EXCEPT !["ENERGY"] = 100, !["CO2"] = 150]]

WaterTreatmentPlant ==
    [cost |-> 250, ticks |-> 4,
     effects |-> [NoEffect EXCEPT !["WATER"] = 36500, !["ENERGY"] = -1825000, !["CO2"] = 100]]

SolarPanelFarm ==
    [cost |-> 10, ticks |-> 3,
     effects |-> [NoEffect EXCEPT !["ENERGY"] = 850, !["CO2"] = -38, !["WATER"] = -200]]

RooftopSolar ==
    [cost |-> 21, ticks |-> 2,
     effects |-> [NoEffect EXCEPT !["ENERGY"] = 750, !["CO2"] = -454, !["WATER"] = -2]]

PublicTransportUpgrade ==
    [cost |-> 150000, ticks |-> 6, effects |-> [NoEffect EXCEPT !["CO2"] = -1500]]

WindTurbineFarm ==
    [cost |-> 210, ticks |-> 5, effects |-> [NoEffect EXCEPT !["ENERGY"] = 460000, !["CO2"] = -140]]

HydroelectricPlant ==
    [cost |-> 25, ticks |-> 7, effects |-> [NoEffect EXCEPT !["ENERGY"] = 4000, !["CO2"] = -190]]

UrbanGreening ==
    [cost |-> 1, ticks |-> 2, effects |-> [NoEffect EXCEPT !["CO2"] = -45]]

WaterSavingInfrastructure ==
    [cost |-> 5000, ticks |-> 5, effects |-> [NoEffect EXCEPT !["WATER"] = 150000]]

IndustrialZone ==
    [cost |-> 35000, ticks |-> 6,
     effects |-> [NoEffect EXCEPT !["MONEY"] = 6600, !["CO2"] = 100000]]

AirportExpansion ==
    [cost |-> 5000, ticks |-> 5,
     effects |-> [NoEffect EXCEPT !["MONEY"] = 1000, !["CO2"] = 20000,
                                  !["ENERGY"] = -30000, !["WATER"] = -80000]]

RoadImprovement ==
    [cost |-> 500, ticks |-> 4, effects |-> [NoEffect EXCEPT !["MONEY"] = 100, !["CO2"] = 5200]]

(* createBuilding *)
Catalog ==
    [POWER_PLANT                 |-> PowerPlant,
     WATER_TREATMENT_PLANT       |-> WaterTreatmentPlant,
     SOLAR_PANEL_FARM            |-> SolarPanelFarm,
     SOLAR_PANEL_ROOFTOPS        |-> RooftopSolar,
     PUBLIC_TRANSPORT_UPGRADE    |-> PublicTransportUpgrade,
     WIND_TURBINE_FARM           |-> WindTurbineFarm,
     HYDROELECTRIC_PLANT         |-> HydroelectricPlant,
     URBAN_GREENING              |-> UrbanGreening,
     WATER_SAVING_INFRASTRUCTURE |-> WaterSavingInfrastructure,
     INDUSTRIAL_ZONE             |-> IndustrialZone,
     AIRPORT_EXPANSION           |-> AirportExpansion,
     ROAD_IMPROVEMENT            |-> RoadImprovement]

(* generatePetition's buildingPool: every type the factory can create. *)
BuildingPool == DOMAIN Catalog
=============================================================================
