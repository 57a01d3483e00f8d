--------------------------- MODULE PetitionManager ---------------------------
(***************************************************************************)
(* services/PetitionManager: the petition on offer, the petitions under    *)
(* construction, and the counter petition ids come from.  A petition wraps *)
(* one building and counts its remaining ticks down (domain/Petition,      *)
(* domain/Building).                                                       *)
(*                                                                         *)
(* The vector of raw pointers is a set of records; the field "ref" is the  *)
(* identity the pointer gives a petition in the code, so that two          *)
(* petitions with equal contents stay two.  The order of the vector is     *)
(* abstracted: nothing but the order of database inserts depends on it.    *)
(***************************************************************************)
EXTENDS Integers

CONSTANTS
    BuildingTypes,      \* the building pool petitions are drawn from
    BuildTicks,         \* construction time of each type
    MaxPetitionId       \* bound of the model: no petition past this id

ASSUME BuildTicksAssumption == BuildTicks \in [BuildingTypes -> Nat \ {0}]
ASSUME MaxPetitionIdAssumption == MaxPetitionId \in Nat \ {0}

VARIABLES
    currentPetition,
    underConstruction,          \* underConstructionPetitions
    completedConstructions,     \* what tick() returned and its caller has not yet applied
    nextPetitionId,
    lastRef,                    \* the last Petition object constructed
    phase                       \* "restore" until main.cpp has loaded the save, then "run"

petitionVars == <<currentPetition, underConstruction, completedConstructions,
                  nextPetitionId, lastRef, phase>>

Petition == [ref : Nat, id : Nat, type : BuildingTypes, ticks : Nat]

NewPetition(ref, id, b, ticks) == [ref |-> ref, id |-> id, type |-> b, ticks |-> ticks]

-----------------------------------------------------------------------------
(* generatePetition: a random building type, the next id, full construction  *)
(* time.                                                                     *)
GeneratePetition(b) ==
    /\ currentPetition' = NewPetition(lastRef + 1, nextPetitionId, b, BuildTicks[b])
    /\ nextPetitionId' = nextPetitionId + 1
    /\ lastRef' = lastRef + 1

(* Mutation: the accepted petition is queued but stays on offer. *)
AcceptWithoutGenerating(b) ==
    /\ nextPetitionId <= MaxPetitionId
    /\ underConstruction' = underConstruction \union {currentPetition}
    /\ UNCHANGED <<currentPetition, nextPetitionId, lastRef>>

(* acceptPetition: the offer moves under construction, a new one replaces it. *)
AcceptPetition(b) ==
    /\ nextPetitionId <= MaxPetitionId
    /\ underConstruction' = underConstruction \union {currentPetition}
    /\ GeneratePetition(b)

(* rejectPetition: the offer is deleted, a new one replaces it. *)
RejectPetition(b) ==
    /\ nextPetitionId <= MaxPetitionId
    /\ underConstruction' = underConstruction
    /\ GeneratePetition(b)

(* Mutation: a tick counts twice and nothing stops the count at 0. *)
BuildTickTwice(p) == [p EXCEPT !.ticks = @ - 2]

(* Building::buildTick on a petition; a count that is already 0 stays there. *)
BuildTick(p) == IF p.ticks <= 0 THEN p ELSE [p EXCEPT !.ticks = @ - 1]

(* Mutation: completion is noticed one tick late. *)
CompletesLate(p) == p.ticks = 0

(* buildTick returns the (never empty) effects only when it reaches 0. *)
Completes(p) == p.ticks = 1

(* Mutation: of several petitions that complete together one is reported. *)
BuildTickReportsOne ==
    LET done == {p \in underConstruction : Completes(p)}
    IN  /\ completedConstructions' = IF done = {} THEN {} ELSE {CHOOSE p \in done : TRUE}
        /\ underConstruction' = {BuildTick(p) : p \in underConstruction \ done}
        /\ UNCHANGED <<currentPetition, nextPetitionId, lastRef>>

(* Mutation: of several petitions that complete together one is taken out. *)
BuildTickTakesOne ==
    LET done == {p \in underConstruction : Completes(p)}
        out  == IF done = {} THEN {} ELSE {CHOOSE p \in done : TRUE}
    IN  /\ completedConstructions' = out
        /\ underConstruction' = {BuildTick(p) : p \in underConstruction \ out}
        /\ UNCHANGED <<currentPetition, nextPetitionId, lastRef>>

(* tick: every petition under construction advances; those that complete     *)
(* leave the vector and are handed to the caller.                            *)
BuildTickAll ==
    /\ completedConstructions' = {p \in underConstruction : Completes(p)}
    /\ underConstruction' = {BuildTick(p) : p \in {q \in underConstruction : ~Completes(q)}}
    /\ UNCHANGED <<currentPetition, nextPetitionId, lastRef>>

(* The caller's loop over the returned vector consumes one construction.     *)
TakeCompleted(p) ==
    /\ completedConstructions' = completedConstructions \ {p}
    /\ UNCHANGED <<currentPetition, underConstruction, nextPetitionId, lastRef>>

-----------------------------------------------------------------------------
(* Mutation: ">" for ">=". *)
IdPastOffByOne(i) == IF i > nextPetitionId THEN i + 1 ELSE nextPetitionId

(* Ids handed out after a restore lie past every restored id. *)
IdPast(i) == IF i >= nextPetitionId THEN i + 1 ELSE nextPetitionId

RestoreUnderConstruction(i, b, ticks) ==
    /\ underConstruction' = underConstruction \union {NewPetition(lastRef + 1, i, b, ticks)}
    /\ nextPetitionId' = IdPast(i)
    /\ lastRef' = lastRef + 1
    /\ UNCHANGED <<currentPetition, completedConstructions>>

(* Mutation: restoring the offer does not advance the counter. *)
RestoreCurrentKeepsCounter(i, b, ticks) ==
    /\ currentPetition' = NewPetition(lastRef + 1, i, b, ticks)
    /\ lastRef' = lastRef + 1
    /\ UNCHANGED <<underConstruction, completedConstructions, nextPetitionId>>

RestoreCurrentPetition(i, b, ticks) ==
    /\ currentPetition' = NewPetition(lastRef + 1, i, b, ticks)
    /\ nextPetitionId' = IdPast(i)
    /\ lastRef' = lastRef + 1
    /\ UNCHANGED <<underConstruction, completedConstructions>>

-----------------------------------------------------------------------------
(* The constructor: the first petition, id 1. *)
Construct ==
    /\ \E b \in BuildingTypes : currentPetition = NewPetition(1, 1, b, BuildTicks[b])
    /\ underConstruction = {}
    /\ completedConstructions = {}
    /\ nextPetitionId = 2
    /\ lastRef = 1

(* The two ways the program leaves its startup: without a save the           *)
(* constructed state is used as it is, with one it is restored first.        *)
PetitionInit == Construct /\ phase \in {"restore", "run"}

(* The calls the rest of the program makes.  A complete save holds petitions *)
(* of one earlier run: distinct ids, the offer's id past all of them, and    *)
(* at least one tick left for each.  main.cpp restores them in this order.   *)
IdsUsed == {p.id : p \in underConstruction}

RestoreOneUnderConstruction ==
    /\ phase = "restore"
    /\ \E i \in (1 .. MaxPetitionId - 1) \ IdsUsed, b \in BuildingTypes :
         \E ticks \in 1 .. BuildTicks[b] : RestoreUnderConstruction(i, b, ticks)
    /\ UNCHANGED phase

FinishRestore ==
    /\ phase = "restore"
    /\ \E i \in 1 .. MaxPetitionId, b \in BuildingTypes :
         /\ \A j \in IdsUsed : j < i
         /\ RestoreCurrentPetition(i, b, BuildTicks[b])
    /\ phase' = "run"

Accept ==
    /\ phase = "run" /\ completedConstructions = {}
    /\ \E b \in BuildingTypes : AcceptPetition(b)
    /\ UNCHANGED <<completedConstructions, phase>>

Reject ==
    /\ phase = "run" /\ completedConstructions = {}
    /\ \E b \in BuildingTypes : RejectPetition(b)
    /\ UNCHANGED <<completedConstructions, phase>>

Tick ==
    /\ phase = "run" /\ completedConstructions = {}
    /\ BuildTickAll
    /\ UNCHANGED phase

ApplyOne ==
    /\ phase = "run"
    /\ \E p \in completedConstructions : TakeCompleted(p)
    /\ UNCHANGED phase

PetitionNext ==
    \/ RestoreOneUnderConstruction
    \/ FinishRestore
    \/ Accept
    \/ Reject
    \/ Tick
    \/ ApplyOne

PetitionSpec == PetitionInit /\ [][PetitionNext]_petitionVars

-----------------------------------------------------------------------------
PetitionTypeOK ==
    /\ currentPetition \in Petition
    /\ underConstruction \subseteq Petition
    /\ completedConstructions \subseteq Petition
    /\ nextPetitionId \in Nat
    /\ lastRef \in Nat
    /\ phase \in {"restore", "run"}

InService == underConstruction \union completedConstructions

(* No id is ever reused: every petition that exists has an id below the one  *)
(* the next petition will get.  PetitionManager.cpp:133-134 promises it for  *)
(* restored petitions, whatever ids and order the database returns them in.  *)
NextIdIsFresh ==
    \A p \in InService \union {currentPetition} : p.id < nextPetitionId

(* While the game runs an id names one petition: the offer is newer than     *)
(* everything accepted, and no two accepted petitions share an id.           *)
IdsNameOnePetition ==
    phase = "run" =>
        /\ \A p \in InService : p.id < currentPetition.id
        /\ \A p, q \in InService : p.id = q.id => p = q

(* Each Petition object has one owner: the offer is not also under           *)
(* construction, and a completed petition (deleted by tick) is no longer     *)
(* queued.  The destructor deletes the offer and the queue, so a shared      *)
(* object would be deleted twice.                                            *)
OneOwner ==
    /\ \A p \in InService : p.ref # currentPetition.ref
    /\ \A p, q \in InService : p.ref = q.ref => p = q
    /\ underConstruction \intersect completedConstructions = {}

(* Nothing under construction is stuck: buildTick never reports a petition   *)
(* whose count is already 0, so one that got there unreported would stay in  *)
(* the queue for ever.                                                       *)
NothingStuck == \A p \in underConstruction : p.ticks >= 1

(* Only the completion of its count takes a petition out of the queue, and   *)
(* its caller gets it in that very step: none is dropped, none is delivered  *)
(* early.                                                                    *)
LeavesOnlyWhenComplete ==
    [][\A p \in underConstruction :
         \/ \E q \in underConstruction' : q.ref = p.ref /\ q.ticks \in {p.ticks, p.ticks - 1}
         \/ p.ticks = 1 /\ p \in completedConstructions']_petitionVars
=============================================================================
