---------------------------- MODULE ResourceType ----------------------------
(* domain/ResourceType.hpp: the resources of a city; RESOURCE_UNSPECIFIED,  *)
(* which every function skips or rejects, is left out.                      *)
ResourceTypes == {"WATER", "ENERGY", "MONEY", "POPULATION", "CO2"}
=============================================================================
