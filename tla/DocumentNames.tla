---------------------------- MODULE DocumentNames ----------------------------
(***************************************************************************)
(* The strings MongoGameRepository stores for the types of resources and   *)
(* buildings, and how it reads them: it also accepts the enumerator's own  *)
(* name, and throws on any other string, which makes the load fail.  What  *)
(* it accepts for a string is a set here, empty where it throws.           *)
(***************************************************************************)
EXTENDS BuildingCatalog

(* toString(ResourceType) *)
ResourceTypeString ==
    [WATER |-> "RESOURCE_TYPE_WATER", ENERGY |-> "RESOURCE_TYPE_ENERGY",
     MONEY |-> "RESOURCE_TYPE_MONEY", POPULATION |-> "RESOURCE_TYPE_POPULATION",
     CO2 |-> "RESOURCE_TYPE_CO2"]

(* toString(BuildingType).  A city counts the unspecified type, too. *)
BuildingTypeString ==
    [BUILDING_UNSPECIFIED        |-> "BUILDING_TYPE_UNSPECIFIED",
     POWER_PLANT                 |-> "BUILDING_TYPE_POWER_PLANT",
     WATER_TREATMENT_PLANT       |-> "BUILDING_TYPE_WATER_TREATMENT_PLANT",
     SOLAR_PANEL_FARM            |-> "BUILDING_TYPE_SOLAR_PANEL_FARM",
     SOLAR_PANEL_ROOFTOPS        |-> "BUILDING_TYPE_SOLAR_PANEL_ROOFTOPS",
     PUBLIC_TRANSPORT_UPGRADE    |-> "BUILDING_TYPE_PUBLIC_TRANSPORT_UPGRADE",
     WIND_TURBINE_FARM           |-> "BUILDING_TYPE_WIND_TURBINE_FARM",
     HYDROELECTRIC_PLANT         |-> "BUILDING_TYPE_HYDROELECTRIC_PLANT",
     URBAN_GREENING              |-> "BUILDING_TYPE_URBAN_GREENING",
     WATER_SAVING_INFRASTRUCTURE |-> "BUILDING_TYPE_WATER_SAVING_INFRASTRUCTURE",
     INDUSTRIAL_ZONE             |-> "BUILDING_TYPE_INDUSTRIAL_ZONE",
     AIRPORT_EXPANSION           |-> "BUILDING_TYPE_AIRPORT_EXPANSION",
     ROAD_IMPROVEMENT            |-> "BUILDING_TYPE_ROAD_IMPROVEMENT"]

CityTypes == BuildingPool \union {"BUILDING_UNSPECIFIED"}

ResourceTypeFromString(s) == {r \in ResourceTypes : s \in {ResourceTypeString[r], r}}

BuildingTypeFromString(s) == {b \in CityTypes : s \in {BuildingTypeString[b], b}}
=============================================================================
