----------------------------- MODULE GameService -----------------------------
(***************************************************************************)
(* services/GameService: the game loop of the engine thread, over the      *)
(* PetitionManager, the ResourceManager and the City it owns, and the      *)
(* one-slot mailbox in which the SocketServer's listener thread leaves the *)
(* player's action (SocketServer::pendingAction).                          *)
(*                                                                         *)
(* One tick() is the sequence of steps that pc names:                      *)
(*   poll  -> readPlayerInput takes the pending action and answers the     *)
(*            petition on offer;                                           *)
(*   save  -> the repository is called, if the action asked for it;        *)
(*   build -> PetitionManager::tick;                                       *)
(*   apply -> the loop over the completed constructions, then the          *)
(*            resources' tick, population scaling and the game-over check. *)
(* The listener may store an action between any two of them.  main.cpp     *)
(* calls tick() until it returns true; pc is then "over".                  *)
(***************************************************************************)
EXTENDS PetitionManager, ResourceManager, PopulationScaling, FiniteSets, FiniteSetsExt

CONSTANTS
    BuildCost,          \* price of each building type
    Effects,            \* its effect on every resource's delta
    MaxCO2,             \* MAX_CO2
    InitGoal            \* initial nextPopulationGoal

ASSUME BuildingAssumption ==
    /\ IsFiniteSet(BuildingTypes)
    /\ BuildCost \in [BuildingTypes -> Nat]
    /\ Effects \in [BuildingTypes -> [ResourceTypes -> Int]]
ASSUME LimitsAssumption == MaxCO2 \in Nat /\ InitGoal \in Nat
(* No building changes the population, which starts below the first goal and *)
(* grows by at most a fifth of it in a tick.                                 *)
ASSUME PopulationAssumption ==
    /\ \A b \in BuildingTypes : Effects[b]["POPULATION"] = 0
    /\ InitValue["POPULATION"] < InitGoal
    /\ 5 * InitDelta["POPULATION"] <= InitGoal
(* The constructor's resources are those of a game that can be played. *)
ASSUME StartAssumption ==
    /\ \A r \in ResourceTypes : InitValue[r] > 0
    /\ InitValue["CO2"] < MaxCO2

VARIABLES
    pc,
    buildings,              \* City: how many of each type stand
    nextPopulationGoal,
    pendingAction           \* the mailbox

gameVars == <<pc, buildings, nextPopulationGoal, pendingAction>>
vars == <<petitionVars, resourceVars, gameVars>>

(* What UIAction can ask for: an answer to the petition on offer, a save, or *)
(* both in one message.                                                      *)
UIAction == [response : {"none", "accept", "reject"}, save : BOOLEAN]
NoAction == [response |-> "nothing", save |-> FALSE]

(* Mutation: a resource has to fall below 0, where the clamp stops it. *)
GameOverBelowZero(v) ==
    \/ \E r \in ResourceTypes \ {"CO2"} : v[r] < 0
    \/ v["CO2"] >= MaxCO2

(* checkGameOver: a resource other than CO2 is used up, or there is too much CO2. *)
GameOver(v) ==
    \/ \E r \in ResourceTypes \ {"CO2"} : v[r] <= 0
    \/ v["CO2"] >= MaxCO2

-----------------------------------------------------------------------------
Init ==
    /\ Construct /\ phase = "run"
    /\ ResourceInit
    /\ pc = "poll"
    /\ buildings = [b \in BuildingTypes |-> 0]
    /\ nextPopulationGoal = InitGoal
    /\ pendingAction = NoAction

(* Listener thread: a parsed message replaces whatever the slot holds.  The  *)
(* player stops answering once MaxPetitionId petitions have been offered,    *)
(* which bounds the model.                                                   *)
ReceiveAction ==
    /\ pc # "over"
    /\ nextPetitionId <= MaxPetitionId
    /\ pendingAction' \in UIAction
    /\ UNCHANGED <<petitionVars, resourceVars, pc, buildings, nextPopulationGoal>>

-----------------------------------------------------------------------------
(* readPlayerInput.  pollAction empties the slot. *)
PollNothing ==
    /\ pc = "poll" /\ pendingAction = NoAction
    /\ pc' = "build"
    /\ UNCHANGED <<petitionVars, resourceVars, buildings, nextPopulationGoal, pendingAction>>

PollAction(response) ==
    /\ pc = "poll" /\ pendingAction # NoAction
    /\ pendingAction.response = response
    /\ pendingAction' = NoAction

AfterResponse == IF pendingAction.save THEN "save" ELSE "build"

NoResponse ==
    /\ PollAction("none")
    /\ pc' = AfterResponse
    /\ UNCHANGED <<petitionVars, resourceVars, buildings, nextPopulationGoal>>

AcceptCurrent ==
    /\ PollAction("accept")
    /\ CanAfford(BuildCost[currentPetition.type])
    /\ Accept
    /\ pc' = AfterResponse
    /\ UNCHANGED <<resourceVars, buildings, nextPopulationGoal>>

(* InsufficientResourcesException: the offer stays, and the rest of          *)
(* readPlayerInput, the save included, is skipped.                           *)
AcceptTooExpensive ==
    /\ PollAction("accept")
    /\ ~CanAfford(BuildCost[currentPetition.type])
    /\ pc' = "build"
    /\ UNCHANGED <<petitionVars, resourceVars, buildings, nextPopulationGoal>>

RejectCurrent ==
    /\ PollAction("reject")
    /\ Reject
    /\ pc' = AfterResponse
    /\ UNCHANGED <<resourceVars, buildings, nextPopulationGoal>>

(* The repository returns or throws PersistenceException, which is caught;   *)
(* either way the engine's own state is as before.                           *)
SaveGame ==
    /\ pc = "save"
    /\ pc' = "build"
    /\ UNCHANGED <<petitionVars, resourceVars, buildings, nextPopulationGoal, pendingAction>>

-----------------------------------------------------------------------------
(* The rest of tick(). *)
BuildPetitions ==
    /\ pc = "build"
    /\ Tick
    /\ pc' = "apply"
    /\ UNCHANGED <<resourceVars, buildings, nextPopulationGoal, pendingAction>>

(* Mutation: the loop over the completed constructions ends after one. *)
ApplyOnlyOne ==
    /\ pc = "apply"
    /\ \E p \in completedConstructions :
         /\ completedConstructions' = {}
         /\ ApplyEffect(Effects[p.type])
         /\ buildings' = [buildings EXCEPT ![p.type] = @ + 1]
    /\ UNCHANGED <<currentPetition, underConstruction, nextPetitionId, lastRef>>
    /\ UNCHANGED <<value, phase, pc, nextPopulationGoal, pendingAction>>

(* Mutation: of what completes in one tick, the first one's effects are      *)
(* applied in every turn of the loop.                                        *)
ApplyFirstAgain ==
    /\ pc = "apply"
    /\ \E p \in completedConstructions, first \in completedConstructions :
         /\ \A q \in completedConstructions : first.ref <= q.ref /\ q.ref <= p.ref
         /\ TakeCompleted(p)
         /\ ApplyEffect(Effects[first.type])
         /\ buildings' = [buildings EXCEPT ![p.type] = @ + 1]
    /\ UNCHANGED <<value, phase, pc, nextPopulationGoal, pendingAction>>

(* One turn of the loop over the completed constructions. *)
ApplyCompleted ==
    /\ pc = "apply"
    /\ \E p \in completedConstructions :
         /\ TakeCompleted(p)
         /\ ApplyEffect(Effects[p.type])
         /\ buildings' = [buildings EXCEPT ![p.type] = @ + 1]
    /\ UNCHANGED <<value, phase, pc, nextPopulationGoal, pendingAction>>

(* handlePopulationScaling sees the values the resources just took. *)
ScaledDeltas == [r \in ResourceTypes |-> ScaledDelta(r, delta[r])]

(* Mutation: the milestone is taken only when it has been passed. *)
ScalePastGoal(population) ==
    IF population <= nextPopulationGoal
    THEN UNCHANGED <<nextPopulationGoal, delta>>
    ELSE /\ nextPopulationGoal' = NextGoal(nextPopulationGoal)
         /\ delta' = ScaledDeltas

ScaleAtGoal(population) ==
    IF population < nextPopulationGoal
    THEN UNCHANGED <<nextPopulationGoal, delta>>
    ELSE /\ nextPopulationGoal' = NextGoal(nextPopulationGoal)
         /\ delta' = ScaledDeltas

(* Mutation: checkGameOver runs before the resources' tick. *)
FinishTickChecksFirst ==
    /\ pc = "apply" /\ completedConstructions = {}
    /\ value' = Ticked
    /\ ScaleAtGoal(Ticked["POPULATION"])
    /\ pc' = IF GameOver(value) THEN "over" ELSE "poll"
    /\ UNCHANGED <<petitionVars, buildings, pendingAction>>

FinishTick ==
    /\ pc = "apply" /\ completedConstructions = {}
    /\ value' = Ticked
    /\ ScaleAtGoal(Ticked["POPULATION"])
    /\ pc' = IF GameOver(Ticked) THEN "over" ELSE "poll"
    /\ UNCHANGED <<petitionVars, buildings, pendingAction>>

-----------------------------------------------------------------------------
TickStep ==
    \/ PollNothing
    \/ NoResponse
    \/ AcceptCurrent
    \/ AcceptTooExpensive
    \/ RejectCurrent
    \/ BuildPetitions
    \/ ApplyCompleted
    \/ FinishTick

Engine == TickStep \/ SaveGame

Next == Engine \/ ReceiveAction

Spec == Init /\ [][Next]_vars

(* main.cpp calls tick() for ever; the player is under no obligation. *)
FairSpec == Spec /\ WF_vars(Engine)

-----------------------------------------------------------------------------
GameTypeOK ==
    /\ PetitionTypeOK
    /\ ResourceTypeOK
    /\ pc \in {"poll", "save", "build", "apply", "over"}
    /\ buildings \in [BuildingTypes -> Nat]
    /\ nextPopulationGoal \in Nat
    /\ pendingAction \in UIAction \union {NoAction}

(* A building's effects reach the deltas exactly once, in the tick in which  *)
(* it joins the city: until the first milestone rescales them, the deltas    *)
(* are the initial ones plus the effects of the buildings that stand,        *)
(* however many completed together and whatever was answered meanwhile.      *)
CityEffect(r) == [b \in BuildingTypes |-> buildings[b] * Effects[b][r]]

EffectsAppliedOnce ==
    nextPopulationGoal = InitGoal =>
        \A r \in ResourceTypes :
            delta[r] = InitDelta[r] + SumFunctionOnSet(CityEffect(r), BuildingTypes)

OfType(petitions, b) == {p \in petitions : p.type = b}

(* What the city has taken on, built or not. *)
Committed(b) ==
    buildings[b] + Cardinality(OfType(underConstruction, b))
                 + Cardinality(OfType(completedConstructions, b))

(* The city takes on a building only by the player's accepting the petition  *)
(* on offer, one at a time; a building once taken on is never lost between   *)
(* the queue, the completed list and the city, and never counted twice.      *)
CommittedOnlyByAccept ==
    [][\A b \in BuildingTypes :
         Committed(b)' = Committed(b) +
             (IF /\ pc = "poll" /\ pc' # "poll" /\ pendingAction.response = "accept"
                 /\ currentPetition.type = b /\ CanAfford(BuildCost[b])
              THEN 1 ELSE 0)]_vars

(* In a game played from its start the next milestone lies ahead of the      *)
(* population between ticks: one scaling per tick keeps up with any growth.  *)
(* (In a resumed game the goal may lag: ResumesWithItsGoal in SaveHistory.)  *)
GoalAhead == pc \in {"poll", "save", "build", "apply"} => value["POPULATION"] < nextPopulationGoal

(* Whatever the repository is asked to store is a game that can go on: the   *)
(* check at the end of every tick comes before the save at the start of the  *)
(* next one, so loading a save never resumes a lost game.                    *)
NeverSavesLostGame == pc = "save" => ~GameOver(value)

(* A milestone never makes the city's own consumption or emissions easier:   *)
(* rounding included, water and energy never drain slower and emissions      *)
(* never grow slower after it than before.                                   *)
MilestoneNeverEases ==
    [][nextPopulationGoal' # nextPopulationGoal =>
         /\ delta'["WATER"] <= delta["WATER"]
         /\ delta'["ENERGY"] <= delta["ENERGY"]
         /\ delta'["CO2"] >= delta["CO2"]]_vars

(* Every accepted petition is built while the game lasts.  Construction      *)
(* needs no player and cannot be starved by one who keeps sending actions.   *)
AcceptedIsBuilt ==
    \A i \in 1 .. MaxPetitionId :
        (\E p \in underConstruction : p.id = i)
            ~> (pc = "over" \/ ~\E p \in InService : p.id = i)

(* A city that uses up more of a resource than it gets, or emits more CO2    *)
(* than it takes up, and never mends that, is lost.  Values stop at 0 and at *)
(* the maximum, so that checkGameOver has to notice one that has arrived     *)
(* there and moves no more.                                                  *)
UnmendedCityIsLost ==
    /\ \A r \in ResourceTypes \ {"CO2"} : <>[](delta[r] < 0) => <>(pc = "over")
    /\ <>[](delta["CO2"] > 0) => <>(pc = "over")
=============================================================================
