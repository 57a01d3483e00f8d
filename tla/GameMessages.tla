----------------------------- MODULE GameMessages -----------------------------
(***************************************************************************)
(* The engine's messages, as api_types.pb.h and api_types.pb.cc implement  *)
(* api_types.proto, what GameService::buildGameState puts into them, and   *)
(* what readPlayerInput reads from them.  A submessage that may be absent  *)
(* is a sequence of at most one; a map field is a function on its keys.    *)
(* Unknown fields, arenas and cached sizes are left out.                   *)
(***************************************************************************)
EXTENDS WireFormat, SequencesExt, BuildingCatalog

Optional(message) == {s \in Seq(message) : Len(s) <= 1}

(* The accessors' types. *)
ResourceEffectMessage == [resource_type : Int32, delta_value : Int32]

BuildingMessage ==
    [type : Int32, build_cost : Int32, ticks_to_complete : Int32,
     effects : Seq(ResourceEffectMessage)]

PetitionMessage == [id : Int32, building : Optional(BuildingMessage)]

IsMap(m) == \A k \in DOMAIN m : k \in Int32 /\ m[k] \in Int32

IsGameState(g) ==
    /\ DOMAIN g = {"building_counts", "current_petition", "resources"}
    /\ IsMap(g.building_counts) /\ IsMap(g.resources)
    /\ g.current_petition \in Optional(PetitionMessage)

PetitionResponse == [responded : BOOLEAN, accepted : BOOLEAN]

UIActionMessage == [petition_response : Optional(PetitionResponse), save_game : BOOLEAN]

(* The constructors. *)
NewResourceEffect == [resource_type |-> 0, delta_value |-> 0]
NewBuilding == [type |-> 0, build_cost |-> 0, ticks_to_complete |-> 0, effects |-> << >>]
NewPetition == [id |-> 0, building |-> << >>]
NewPetitionResponse == [responded |-> FALSE, accepted |-> FALSE]
NewUIAction == [petition_response |-> << >>, save_game |-> FALSE]

(* mutable_...: the submessage, created if it is absent. *)
Mutable(submessage, new) == IF submessage = << >> THEN new ELSE submessage[1]

-----------------------------------------------------------------------------
(* ByteSizeLong: what each message takes on the wire.  A field with its      *)
(* default value takes nothing, the entry of a map has both its fields.      *)

(* Mutation: a negative number is counted as its 32 bits. *)
VarintFieldSizeUnsigned(v) == IF v = 0 THEN 0 ELSE 1 + (IF v < 0 THEN 5 ELSE VarintSize(v))

VarintFieldSize(v) == IF v = 0 THEN 0 ELSE 1 + VarintSize(v)
MessageFieldSize(size) == 1 + VarintSize(size) + size
EntrySize(key, value) == 1 + VarintSize(key) + 1 + VarintSize(value)

Total(sizes) == FoldLeft(LAMBDA total, size : total + size, 0, sizes)

ResourceEffectSize(e) == VarintFieldSize(e.resource_type) + VarintFieldSize(e.delta_value)

BuildingSize(b) ==
    VarintFieldSize(b.type) + VarintFieldSize(b.build_cost) + VarintFieldSize(b.ticks_to_complete)
    + Total([i \in DOMAIN b.effects |-> MessageFieldSize(ResourceEffectSize(b.effects[i]))])

PetitionSize(p) ==
    VarintFieldSize(p.id)
    + Total([i \in DOMAIN p.building |-> MessageFieldSize(BuildingSize(p.building[i]))])

(* A hash map is written in an order of its own: keys is that order. *)
MapSize(map, keys) ==
    Total([i \in DOMAIN keys |-> MessageFieldSize(EntrySize(keys[i], map[keys[i]]))])

GameStateSize(g, countKeys, resourceKeys) ==
    MapSize(g.building_counts, countKeys) + MapSize(g.resources, resourceKeys)
    + Total([i \in DOMAIN g.current_petition |->
               MessageFieldSize(PetitionSize(g.current_petition[i]))])

-----------------------------------------------------------------------------
(* _InternalSerialize, of the messages the engine sends.  The length of a    *)
(* submessage is its ByteSizeLong.                                           *)
VarintField(number, v) ==
    IF v = 0 THEN << >> ELSE Varint(Tag(number, VARINT)) \o Varint(v)

MessageField(number, size, bytes) == Varint(Tag(number, LEN)) \o Varint(size) \o bytes

MapField(number, map, keys) ==
    FlattenSeq([i \in DOMAIN keys |->
        MessageField(number, EntrySize(keys[i], map[keys[i]]),
            Varint(Tag(1, VARINT)) \o Varint(keys[i])
            \o Varint(Tag(2, VARINT)) \o Varint(map[keys[i]]))])

SerializeResourceEffect(e) == VarintField(1, e.resource_type) \o VarintField(2, e.delta_value)

SerializeBuilding(b) ==
    VarintField(1, b.type) \o VarintField(2, b.build_cost) \o VarintField(3, b.ticks_to_complete)
    \o FlattenSeq([i \in DOMAIN b.effects |->
            MessageField(4, ResourceEffectSize(b.effects[i]), SerializeResourceEffect(b.effects[i]))])

SerializePetition(p) ==
    VarintField(1, p.id)
    \o FlattenSeq([i \in DOMAIN p.building |->
            MessageField(2, BuildingSize(p.building[i]), SerializeBuilding(p.building[i]))])

SerializeGameState(g, countKeys, resourceKeys) ==
    MapField(1, g.building_counts, countKeys)
    \o FlattenSeq([i \in DOMAIN g.current_petition |->
            MessageField(4, PetitionSize(g.current_petition[i]),
                         SerializePetition(g.current_petition[i]))])
    \o MapField(5, g.resources, resourceKeys)

-----------------------------------------------------------------------------
(* _InternalParse and ParseFromString of the messages the engine reads.  A   *)
(* field met twice is merged into what is there.                             *)
BoolOf(varint) == Int32Of(varint) # 0

SetPetitionResponseField(r, field) ==
    CASE field.tag = Tag(1, VARINT) -> [r EXCEPT !.responded = BoolOf(field.value)]
      [] field.tag = Tag(2, VARINT) -> [r EXCEPT !.accepted = BoolOf(field.value)]
      [] OTHER -> r

ParsePetitionResponse(r, bytes) == FoldLeft(SetPetitionResponseField, r, Fields(bytes))

SetUIActionField(a, field) ==
    CASE field.tag = Tag(1, LEN) ->
           [a EXCEPT !.petition_response =
               <<ParsePetitionResponse(Mutable(@, NewPetitionResponse), field.value)>>]
      [] field.tag = Tag(2, VARINT) -> [a EXCEPT !.save_game = BoolOf(field.value)]
      [] OTHER -> a

ParseUIAction(a, bytes) == FoldLeft(SetUIActionField, a, Fields(bytes))

ParsesAsUIAction(bytes) ==
    /\ WellFormed(bytes)
    /\ \A i \in DOMAIN Fields(bytes) :
         Fields(bytes)[i].tag = Tag(1, LEN) => WellFormed(Fields(bytes)[i].value)

(* MergeImpl: a field of from that has its default value changes nothing. *)
MergePetitionResponse(to, from) ==
    [responded |-> from.responded \/ to.responded, accepted |-> from.accepted \/ to.accepted]

MergeUIAction(to, from) ==
    [petition_response |->
         IF from.petition_response = << >> THEN to.petition_response
         ELSE <<MergePetitionResponse(Mutable(to.petition_response, NewPetitionResponse),
                                      from.petition_response[1])>>,
     save_game |-> from.save_game \/ to.save_game]

ClearUIAction(a) == [a EXCEPT !.petition_response = << >>, !.save_game = FALSE]

(* Mutation: CopyFrom does not clear what it copies to. *)
MergeForCopy(to, from) == MergeUIAction(to, from)

(* CopyFrom, which operator= and with it pendingAction = action call. *)
CopyUIAction(to, from) == MergeUIAction(ClearUIAction(to), from)

-----------------------------------------------------------------------------
(* The numbers of the enumerators, in domain/ as in api_types.proto. *)
BuildingEnum ==
    <<"POWER_PLANT", "WATER_TREATMENT_PLANT", "SOLAR_PANEL_FARM", "SOLAR_PANEL_ROOFTOPS",
      "PUBLIC_TRANSPORT_UPGRADE", "WIND_TURBINE_FARM", "HYDROELECTRIC_PLANT", "URBAN_GREENING",
      "WATER_SAVING_INFRASTRUCTURE", "INDUSTRIAL_ZONE", "AIRPORT_EXPANSION", "ROAD_IMPROVEMENT">>

ResourceEnum == <<"WATER", "ENERGY", "MONEY", "POPULATION", "CO2">>

NumberIn(enum, name) == CHOOSE n \in DOMAIN enum : enum[n] = name

(* A building's vector of effects lists the resources it has an effect on. *)
EffectMessages(effects) ==
    FlattenSeq([n \in DOMAIN ResourceEnum |->
        IF effects[ResourceEnum[n]] = 0 THEN << >>
        ELSE <<[resource_type |-> n, delta_value |-> effects[ResourceEnum[n]]]>>])

OfferMessage(petition) ==
    [id |-> petition.id,
     building |-> <<[type |-> NumberIn(BuildingEnum, petition.type),
                     build_cost |-> Catalog[petition.type].cost,
                     ticks_to_complete |-> petition.ticks,
                     effects |-> EffectMessages(Catalog[petition.type].effects)]>>]

(* What is sent of a game [buildings, offer, value]; the city also counts    *)
(* buildings of the unspecified type, which there are none of.               *)
BuildGameState(game) ==
    [building_counts |->
         [n \in {0} \union {NumberIn(BuildingEnum, t) : t \in DOMAIN game.buildings} |->
             IF n = 0 THEN 0 ELSE game.buildings[BuildingEnum[n]]],
     current_petition |-> [i \in DOMAIN game.offer |-> OfferMessage(game.offer[i])],
     resources |->
         [n \in {NumberIn(ResourceEnum, r) : r \in DOMAIN game.value} |->
             game.value[ResourceEnum[n]]]]

(* What readPlayerInput makes of an action. *)
ActionRead(a) ==
    [response |->
         CASE a.petition_response = << >> -> "none"
           [] OTHER -> CASE ~a.petition_response[1].responded -> "none"
                         [] a.petition_response[1].accepted -> "accept"
                         [] OTHER -> "reject",
     save |-> a.save_game]
=============================================================================
