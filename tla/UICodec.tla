------------------------------- MODULE UICodec -------------------------------
(***************************************************************************)
(* eco_city_tmp_ui.py: the UI's own decoder and encoder of the messages,   *)
(* and what render shows of a state.  Numbers that are never negative are  *)
(* read without a sign.                                                    *)
(***************************************************************************)
EXTENDS WireFormat, SequencesExt

(* The dataclasses' defaults. *)
UIResourceEffect == [resource_type |-> 0, delta_value |-> 0]
UIBuilding == [type |-> 0, build_cost |-> 0, ticks_to_complete |-> 0, effects |-> << >>]
UIPetition == [id |-> 0, building |-> << >>]
UIGameState == [building_counts |-> << >>, resources |-> << >>, current_petition |-> << >>]

SetEffectField(e, field) ==
    CASE field.tag = Tag(1, VARINT) -> [e EXCEPT !.resource_type = Int32Of(field.value)]
      [] field.tag = Tag(2, VARINT) -> [e EXCEPT !.delta_value = Int32Of(field.value)]
      [] OTHER -> e

ParseEffect(bytes) == FoldLeft(SetEffectField, UIResourceEffect, Fields(bytes))

SetBuildingField(b, field) ==
    CASE field.tag = Tag(1, VARINT) -> [b EXCEPT !.type = Int32Of(field.value)]
      [] field.tag = Tag(2, VARINT) -> [b EXCEPT !.build_cost = Int32Of(field.value)]
      [] field.tag = Tag(3, VARINT) -> [b EXCEPT !.ticks_to_complete = Int32Of(field.value)]
      [] field.tag = Tag(4, LEN) -> [b EXCEPT !.effects = Append(@, ParseEffect(field.value))]
      [] OTHER -> b

ParseBuilding(bytes) == FoldLeft(SetBuildingField, UIBuilding, Fields(bytes))

SetPetitionField(p, field) ==
    CASE field.tag = Tag(1, VARINT) -> [p EXCEPT !.id = Int32Of(field.value)]
      [] field.tag = Tag(2, LEN) -> [p EXCEPT !.building = <<ParseBuilding(field.value)>>]
      [] OTHER -> p

ParsePetition(bytes) == FoldLeft(SetPetitionField, UIPetition, Fields(bytes))

(* The key and the value of a map's entry. *)
EntryPart(bytes, number) ==
    FoldLeft(LAMBDA part, field : IF field.tag \div 8 = number THEN Int32Of(field.value) ELSE part,
             0, Fields(bytes))

WithEntry(map, bytes) ==
    LET key == EntryPart(bytes, 1)
    IN  [k \in DOMAIN map \union {key} |-> IF k = key THEN EntryPart(bytes, 2) ELSE map[k]]

SetGameStateField(g, field) ==
    CASE field.tag = Tag(1, LEN) -> [g EXCEPT !.building_counts = WithEntry(@, field.value)]
      [] field.tag = Tag(5, LEN) -> [g EXCEPT !.resources = WithEntry(@, field.value)]
      [] field.tag = Tag(4, LEN) -> [g EXCEPT !.current_petition = <<ParsePetition(field.value)>>]
      [] OTHER -> g

ParseGameState(bytes) == FoldLeft(SetGameStateField, UIGameState, Fields(bytes))

-----------------------------------------------------------------------------
EncodeField(number, wire, bytes) == Varint(Tag(number, wire)) \o bytes
EncodeBool(number, b) == EncodeField(number, VARINT, Varint(IF b THEN 1 ELSE 0))
EncodeBytes(number, bytes) == EncodeField(number, LEN, Varint(Len(bytes)) \o bytes)

(* Mutation: "if accept" for "if accept is not None". *)
EncodeAcceptOnly(accept, save) ==
    (IF accept = "yes" THEN EncodeBytes(1, EncodeBool(1, TRUE) \o EncodeBool(2, TRUE)) ELSE << >>)
    \o (IF save THEN EncodeBool(2, TRUE) ELSE << >>)

(* Mutation: the two fields of PetitionResponse are swapped. *)
EncodeSwapped(accept, save) ==
    (IF accept = "None" THEN << >>
     ELSE EncodeBytes(1, EncodeBool(1, accept = "yes") \o EncodeBool(2, TRUE)))
    \o (IF save THEN EncodeBool(2, TRUE) ELSE << >>)

(* accept is "yes", "no" or None; False is written out. *)
EncodeUIAction(accept, save) ==
    (IF accept = "None" THEN << >>
     ELSE EncodeBytes(1, EncodeBool(1, TRUE) \o EncodeBool(2, accept = "yes")))
    \o (IF save THEN EncodeBool(2, TRUE) ELSE << >>)

(* main: what the keys a, r and s send. *)
EncodeKey(key) ==
    CASE key = "a" -> EncodeUIAction("yes", FALSE)
      [] key = "r" -> EncodeUIAction("no", FALSE)
      [] key = "s" -> EncodeUIAction("None", TRUE)

-----------------------------------------------------------------------------
(* RESOURCE_NAMES and BUILDING_NAMES, each name spelled as the enumerator it *)
(* stands for.                                                               *)
ResourceName == <<"WATER", "ENERGY", "MONEY", "POPULATION", "CO2">>

BuildingName ==
    <<"POWER_PLANT", "WATER_TREATMENT_PLANT", "SOLAR_PANEL_FARM", "SOLAR_PANEL_ROOFTOPS",
      "PUBLIC_TRANSPORT_UPGRADE", "WIND_TURBINE_FARM", "HYDROELECTRIC_PLANT", "URBAN_GREENING",
      "WATER_SAVING_INFRASTRUCTURE", "INDUSTRIAL_ZONE", "AIRPORT_EXPANSION", "ROAD_IMPROVEMENT">>

NameOf(names, n) == IF n \in DOMAIN names THEN names[n] ELSE "Unspecified"

(* A panel: the named amounts of a map, as a set since the layout is left out. *)
Panel(names, map) == {<<NameOf(names, n), map[n]>> : n \in DOMAIN map}

EffectLines(effects) ==
    {<<NameOf(ResourceName, effects[i].resource_type), effects[i].delta_value>> :
        i \in DOMAIN effects}

(* "if pet and pet.building": otherwise no petition is shown. *)
PetitionPanel(petition) ==
    IF petition = << >> THEN << >>
    ELSE [i \in DOMAIN petition[1].building |->
            LET b == petition[1].building[i]
            IN  [id |-> petition[1].id, build |-> NameOf(BuildingName, b.type),
                 cost |-> b.build_cost, ticks |-> b.ticks_to_complete,
                 effects |-> EffectLines(b.effects)]]

Screen(state) ==
    [resources |-> Panel(ResourceName, state.resources),
     buildings |-> Panel(BuildingName, state.building_counts),
     petition |-> PetitionPanel(state.current_petition)]
=============================================================================
