--------------------------- MODULE ResourceManager ---------------------------
(***************************************************************************)
(* services/ResourceManager and domain/Resource: the current value and the *)
(* change per tick of each of the five resources.                          *)
(***************************************************************************)
EXTENDS Integers, ResourceType

CONSTANTS
    MaxResourceValue,   \* MAX_RESOURCE_VALUE
    InitValue,          \* the constructor's amounts
    InitDelta           \* the constructor's changes per tick

ASSUME MaxResourceValueAssumption == MaxResourceValue \in Nat
ASSUME InitResourcesAssumption ==
    /\ InitValue \in [ResourceTypes -> 0 .. MaxResourceValue]
    /\ InitDelta \in [ResourceTypes -> Int]

VARIABLES value, delta

resourceVars == <<value, delta>>

ResourceInit == value = InitValue /\ delta = InitDelta

(* Mutation: no lower clamp. *)
ClampAbove(v) == IF v > MaxResourceValue THEN MaxResourceValue ELSE v

(* Both forms of changeCurrentValue end with this clamp. *)
Clamp(v) == IF v < 0 THEN 0 ELSE IF v > MaxResourceValue THEN MaxResourceValue ELSE v

(* tick: every resource moves by its delta. *)
Ticked == [r \in ResourceTypes |-> Clamp(value[r] + delta[r])]

(* applyEffect: a building's effects change the deltas, never the values.    *)
(* An effect list is a function; a resource it does not mention has effect 0. *)
ApplyEffect(effects) == delta' = [r \in ResourceTypes |-> delta[r] + effects[r]]

CanAfford(amount) == value["MONEY"] >= amount

ResourceTypeOK ==
    /\ value \in [ResourceTypes -> 0 .. MaxResourceValue]
    /\ delta \in [ResourceTypes -> Int]
=============================================================================
