-------------------------- MODULE GameServiceProofs --------------------------
(***************************************************************************)
(* Proofs about PetitionManager and GameService, for every catalogue of    *)
(* buildings, every limit and every start that satisfy the assumptions of  *)
(* the modules they are about.                                             *)
(*                                                                         *)
(* PetitionManager first.  Its properties are not inductive one by one:    *)
(* that ids stay distinct needs the counter to be ahead of all of them,    *)
(* also while a save is being restored, when the offer still is the        *)
(* constructor's; that objects have one owner needs the allocation count   *)
(* to be ahead of every object.                                            *)
(*                                                                         *)
(* The game's inductive invariant adds to the petitions' (PetitionInv)     *)
(* that the population's delta never changes, which is what keeps the      *)
(* growth of one tick below the distance between two milestones, and that  *)
(* the game is alive in every step of a tick, not only where it is saved.  *)
(***************************************************************************)
EXTENDS GameService, FoldProofs

InServiceIdsDistinct == \A p, q \in InService : p.id = q.id => p = q

OfferIsNewest == phase = "run" => \A p \in InService : p.id < currentPetition.id

RefsAllocated == \A p \in InService \union {currentPetition} : p.ref <= lastRef

NothingCompletedInRestore == phase = "restore" => completedConstructions = {}

OfferUnbuilt == currentPetition.ticks >= 1

(* The inductive invariant. *)
PetitionInv ==
    /\ PetitionTypeOK
    /\ NextIdIsFresh
    /\ InServiceIdsDistinct
    /\ OfferIsNewest
    /\ RefsAllocated
    /\ OneOwner
    /\ NothingStuck
    /\ NothingCompletedInRestore
    /\ OfferUnbuilt

-----------------------------------------------------------------------------
(* A petition keeps its identity when it is ticked, and one that is not      *)
(* completing keeps at least one tick.                                       *)
LEMMA BuildTickKeepsIdentity ==
    ASSUME NEW p \in Petition, p.ticks >= 1, ~Completes(p)
    PROVE  /\ BuildTick(p) \in Petition
           /\ BuildTick(p).id = p.id
           /\ BuildTick(p).ref = p.ref
           /\ BuildTick(p).type = p.type
           /\ BuildTick(p).ticks = p.ticks - 1
           /\ BuildTick(p).ticks >= 1
BY DEF Petition, BuildTick, Completes

LEMMA NewPetitionType ==
    ASSUME NEW ref \in Nat, NEW id \in Nat, NEW b \in BuildingTypes, NEW ticks \in Nat
    PROVE  /\ NewPetition(ref, id, b, ticks) \in Petition
           /\ NewPetition(ref, id, b, ticks).ref = ref
           /\ NewPetition(ref, id, b, ticks).id = id
           /\ NewPetition(ref, id, b, ticks).ticks = ticks
BY DEF NewPetition, Petition

LEMMA PetitionInitInv == PetitionInit => PetitionInv
<1> SUFFICES ASSUME PetitionInit PROVE PetitionInv
  OBVIOUS
<1>1. PICK b \in BuildingTypes : currentPetition = NewPetition(1, 1, b, BuildTicks[b])
  BY DEF PetitionInit, Construct
<1>2. BuildTicks[b] \in Nat /\ BuildTicks[b] >= 1
  BY BuildTicksAssumption
<1>3. /\ currentPetition \in Petition
      /\ currentPetition.ticks >= 1
      /\ currentPetition.ref = 1
      /\ currentPetition.id = 1
  BY <1>1, <1>2, NewPetitionType
<1>4. /\ underConstruction = {} /\ completedConstructions = {}
      /\ nextPetitionId = 2 /\ lastRef = 1 /\ phase \in {"restore", "run"}
  BY DEF PetitionInit, Construct
<1> QED
  BY <1>3, <1>4 DEF PetitionInv, PetitionTypeOK, NextIdIsFresh, InServiceIdsDistinct,
     OfferIsNewest, RefsAllocated, OneOwner, NothingStuck, NothingCompletedInRestore,
     OfferUnbuilt, InService

-----------------------------------------------------------------------------
(* accept and reject: the new offer takes the next id and a new object. *)
LEMMA GenerateInv ==
    ASSUME PetitionInv, phase = "run", completedConstructions = {},
           NEW b \in BuildingTypes,
           underConstruction' \in {underConstruction, underConstruction \union {currentPetition}},
           GeneratePetition(b),
           UNCHANGED <<completedConstructions, phase>>
    PROVE  PetitionInv'
<1> USE DEF PetitionInv
<1>1. /\ BuildTicks[b] \in Nat /\ BuildTicks[b] >= 1
      /\ lastRef + 1 \in Nat /\ nextPetitionId \in Nat
  BY BuildTicksAssumption DEF PetitionTypeOK
<1>2. /\ currentPetition' \in Petition
      /\ currentPetition'.ref = lastRef + 1
      /\ currentPetition'.id = nextPetitionId
      /\ currentPetition'.ticks >= 1
  BY <1>1, NewPetitionType DEF GeneratePetition
<1>3. nextPetitionId' = nextPetitionId + 1 /\ lastRef' = lastRef + 1
  BY DEF GeneratePetition
<1>4. completedConstructions' = {} /\ phase' = "run"
  OBVIOUS
<1>5. InService' \subseteq underConstruction \union {currentPetition}
  BY <1>4 DEF InService
<1>6. \A p \in InService' : /\ p \in Petition
                            /\ p.id < nextPetitionId
                            /\ p.ref <= lastRef
                            /\ p.ticks >= 1
  BY <1>5 DEF PetitionTypeOK, NextIdIsFresh, RefsAllocated, NothingStuck, OfferUnbuilt, InService
<1>7. PetitionTypeOK'
  BY <1>1, <1>2, <1>3, <1>4, <1>6 DEF PetitionTypeOK, InService
<1>8. NextIdIsFresh'
  BY <1>1, <1>2, <1>3, <1>6 DEF NextIdIsFresh, Petition
<1>9. InServiceIdsDistinct'
  <2> SUFFICES ASSUME NEW p \in underConstruction \union {currentPetition},
                      NEW q \in underConstruction \union {currentPetition},
                      p.id = q.id
               PROVE  p = q
    BY <1>5 DEF InServiceIdsDistinct
  <2>1. \A r \in underConstruction : r.id < currentPetition.id /\ r.id \in Nat
    BY DEF OfferIsNewest, InService, PetitionTypeOK, Petition
  <2>2. currentPetition.id \in Nat
    BY DEF PetitionTypeOK, Petition
  <2> QED
    BY <2>1, <2>2 DEF InServiceIdsDistinct, InService
<1>10. OfferIsNewest'
  BY <1>2, <1>6 DEF OfferIsNewest
<1>11. RefsAllocated'
  BY <1>1, <1>2, <1>3, <1>6 DEF RefsAllocated, Petition, PetitionTypeOK
<1>12. OneOwner'
  <2>1. \A p \in InService' : p.ref # currentPetition'.ref
    BY <1>1, <1>2, <1>6 DEF Petition, PetitionTypeOK
  <2>2. \A p, q \in underConstruction \union {currentPetition} : p.ref = q.ref => p = q
    BY DEF OneOwner, InService
  <2> QED
    BY <2>1, <2>2, <1>4, <1>5 DEF OneOwner
<1>13. NothingStuck'
  BY <1>6 DEF NothingStuck, InService
<1>14. NothingCompletedInRestore'
  BY <1>4 DEF NothingCompletedInRestore
<1>15. OfferUnbuilt'
  BY <1>2 DEF OfferUnbuilt
<1> QED
  BY <1>7, <1>8, <1>9, <1>10, <1>11, <1>12, <1>13, <1>14, <1>15

LEMMA TickInv ==
    ASSUME PetitionInv, Tick
    PROVE  PetitionInv'
<1> USE DEF PetitionInv
<1> DEFINE Rest == {q \in underConstruction : ~Completes(q)}
<1>1. /\ completedConstructions = {}
      /\ completedConstructions' = {p \in underConstruction : Completes(p)}
      /\ underConstruction' = {BuildTick(p) : p \in Rest}
      /\ currentPetition' = currentPetition
      /\ nextPetitionId' = nextPetitionId
      /\ lastRef' = lastRef
      /\ phase = "run" /\ phase' = "run"
  BY DEF Tick, BuildTickAll
<1>2. \A p \in Rest : /\ BuildTick(p) \in Petition
                      /\ BuildTick(p).id = p.id
                      /\ BuildTick(p).ref = p.ref
                      /\ BuildTick(p).ticks >= 1
  BY BuildTickKeepsIdentity DEF PetitionTypeOK, NothingStuck
<1>3. \A s \in InService' :
        \E p \in underConstruction :
            /\ s.id = p.id
            /\ s.ref = p.ref
            /\ s \in Petition
            /\ s = IF Completes(p) THEN p ELSE BuildTick(p)
  BY <1>1, <1>2 DEF InService, PetitionTypeOK
<1>4. InService = underConstruction
  BY <1>1 DEF InService
<1>5. PetitionTypeOK'
  BY <1>1, <1>2 DEF PetitionTypeOK
<1>6. NextIdIsFresh'
  BY <1>1, <1>3, <1>4 DEF NextIdIsFresh
<1>7. InServiceIdsDistinct'
  BY <1>3, <1>4 DEF InServiceIdsDistinct
<1>8. OfferIsNewest'
  BY <1>1, <1>3, <1>4 DEF OfferIsNewest
<1>9. RefsAllocated'
  BY <1>1, <1>3, <1>4 DEF RefsAllocated
<1>10. OneOwner'
  <2>1. \A p \in InService' : p.ref # currentPetition'.ref
    BY <1>1, <1>3, <1>4 DEF OneOwner
  <2>2. \A p, q \in InService' : p.ref = q.ref => p = q
    BY <1>3, <1>4 DEF OneOwner
  <2>3. underConstruction' \intersect completedConstructions' = {}
    <3> SUFFICES ASSUME NEW p \in underConstruction, Completes(p),
                        NEW q \in Rest, p = BuildTick(q)
                 PROVE  FALSE
      BY <1>1
    <3>1. p.ref = q.ref
      BY <1>2
    <3>2. p = q
      BY <3>1, <1>4 DEF OneOwner
    <3> QED
      BY <3>2
  <2> QED
    BY <2>1, <2>2, <2>3 DEF OneOwner
<1>11. NothingStuck'
  BY <1>1, <1>2 DEF NothingStuck
<1>12. NothingCompletedInRestore'
  BY <1>1 DEF NothingCompletedInRestore
<1>13. OfferUnbuilt'
  BY <1>1 DEF OfferUnbuilt
<1> QED
  BY <1>5, <1>6, <1>7, <1>8, <1>9, <1>10, <1>11, <1>12, <1>13

LEMMA TakeCompletedInv ==
    ASSUME PetitionInv, phase = "run",
           NEW p \in completedConstructions, TakeCompleted(p), UNCHANGED phase
    PROVE  PetitionInv'
<1>1. /\ completedConstructions' \subseteq completedConstructions
      /\ InService' \subseteq InService
      /\ UNCHANGED <<currentPetition, underConstruction, nextPetitionId, lastRef, phase>>
  BY DEF TakeCompleted, InService
<1> QED
  BY <1>1 DEF PetitionInv, PetitionTypeOK, NextIdIsFresh, InServiceIdsDistinct, OfferIsNewest,
     RefsAllocated, OneOwner, NothingStuck, NothingCompletedInRestore, OfferUnbuilt

-----------------------------------------------------------------------------
(* A restored petition: an id no other in the queue has, and a new object. *)
LEMMA RestoreUnderConstructionInv ==
    ASSUME PetitionInv, phase = "restore",
           NEW i \in Nat, i \notin IdsUsed,
           NEW b \in BuildingTypes, NEW ticks \in Nat, ticks >= 1,
           RestoreUnderConstruction(i, b, ticks), UNCHANGED phase
    PROVE  PetitionInv'
<1> USE DEF PetitionInv
<1> DEFINE r == NewPetition(lastRef + 1, i, b, ticks)
<1>1. /\ lastRef \in Nat /\ nextPetitionId \in Nat
      /\ completedConstructions = {} /\ completedConstructions' = {}
      /\ underConstruction' = underConstruction \union {r}
      /\ lastRef' = lastRef + 1
      /\ currentPetition' = currentPetition
      /\ phase' = "restore"
  BY DEF RestoreUnderConstruction, PetitionTypeOK, NothingCompletedInRestore
<1>2. r \in Petition /\ r.ref = lastRef + 1 /\ r.id = i /\ r.ticks = ticks
  BY <1>1, NewPetitionType
<1>3. nextPetitionId' \in Nat /\ nextPetitionId' >= nextPetitionId /\ i < nextPetitionId'
  BY <1>1 DEF RestoreUnderConstruction, IdPast
<1> HIDE DEF r
<1>4. InService = underConstruction /\ InService' = underConstruction \union {r}
  BY <1>1 DEF InService
<1>5. \A p \in underConstruction \union {currentPetition} :
        p \in Petition /\ p.id < nextPetitionId /\ p.ref <= lastRef
  BY <1>4 DEF PetitionTypeOK, NextIdIsFresh, RefsAllocated
<1>6. \A p \in underConstruction : p.id # i
  BY DEF IdsUsed
<1>7. PetitionTypeOK'
  BY <1>1, <1>2, <1>3 DEF PetitionTypeOK
<1>8. NextIdIsFresh'
  BY <1>1, <1>2, <1>3, <1>4, <1>5 DEF NextIdIsFresh, Petition
<1>9. InServiceIdsDistinct'
  BY <1>2, <1>4, <1>6 DEF InServiceIdsDistinct
<1>10. OfferIsNewest'
  BY <1>1 DEF OfferIsNewest
<1>11. RefsAllocated'
  BY <1>1, <1>2, <1>4, <1>5 DEF RefsAllocated, Petition
<1>12. OneOwner'
  BY <1>1, <1>2, <1>4, <1>5 DEF OneOwner, Petition
<1>13. NothingStuck'
  BY <1>1, <1>2 DEF NothingStuck
<1>14. NothingCompletedInRestore' /\ OfferUnbuilt'
  BY <1>1 DEF NothingCompletedInRestore, OfferUnbuilt
<1> QED
  BY <1>7, <1>8, <1>9, <1>10, <1>11, <1>12, <1>13, <1>14

LEMMA RestoreCurrentPetitionInv ==
    ASSUME PetitionInv, phase = "restore",
           NEW i \in Nat, \A j \in IdsUsed : j < i,
           NEW b \in BuildingTypes, NEW ticks \in Nat, ticks >= 1,
           RestoreCurrentPetition(i, b, ticks), phase' = "run"
    PROVE  PetitionInv'
<1> USE DEF PetitionInv
<1>1. /\ lastRef \in Nat /\ nextPetitionId \in Nat
      /\ completedConstructions = {} /\ completedConstructions' = {}
      /\ underConstruction' = underConstruction
      /\ lastRef' = lastRef + 1
  BY DEF RestoreCurrentPetition, PetitionTypeOK, NothingCompletedInRestore
<1>2. /\ currentPetition' \in Petition
      /\ currentPetition'.ref = lastRef + 1
      /\ currentPetition'.id = i
      /\ currentPetition'.ticks = ticks
  BY <1>1, NewPetitionType DEF RestoreCurrentPetition
<1>3. nextPetitionId' \in Nat /\ nextPetitionId' >= nextPetitionId /\ i < nextPetitionId'
  BY <1>1 DEF RestoreCurrentPetition, IdPast
<1>4. InService = underConstruction /\ InService' = underConstruction
  BY <1>1 DEF InService
<1>5. \A p \in underConstruction :
        p \in Petition /\ p.id < nextPetitionId /\ p.ref <= lastRef /\ p.id < i
  BY <1>4 DEF PetitionTypeOK, NextIdIsFresh, RefsAllocated, IdsUsed
<1>6. PetitionTypeOK'
  BY <1>1, <1>2, <1>3 DEF PetitionTypeOK
<1>7. NextIdIsFresh'
  BY <1>1, <1>2, <1>3, <1>4, <1>5 DEF NextIdIsFresh, Petition
<1>8. InServiceIdsDistinct' /\ OfferIsNewest'
  BY <1>2, <1>4, <1>5 DEF InServiceIdsDistinct, OfferIsNewest
<1>9. RefsAllocated'
  BY <1>1, <1>2, <1>4, <1>5 DEF RefsAllocated, Petition
<1>10. OneOwner'
  BY <1>1, <1>2, <1>4, <1>5 DEF OneOwner, Petition
<1>11. NothingStuck' /\ NothingCompletedInRestore' /\ OfferUnbuilt'
  BY <1>1, <1>2 DEF NothingStuck, NothingCompletedInRestore, OfferUnbuilt
<1> QED
  BY <1>6, <1>7, <1>8, <1>9, <1>10, <1>11

-----------------------------------------------------------------------------
LEMMA PetitionNextInv == PetitionInv /\ [PetitionNext]_petitionVars => PetitionInv'
<1> SUFFICES ASSUME PetitionInv, [PetitionNext]_petitionVars
             PROVE  PetitionInv'
  OBVIOUS
<1>1. CASE RestoreOneUnderConstruction
  <2>1. PICK i \in (1 .. MaxPetitionId - 1) \ IdsUsed, b \in BuildingTypes :
          \E ticks \in 1 .. BuildTicks[b] : RestoreUnderConstruction(i, b, ticks)
    BY <1>1 DEF RestoreOneUnderConstruction
  <2>2. PICK ticks \in 1 .. BuildTicks[b] : RestoreUnderConstruction(i, b, ticks)
    BY <2>1
  <2>3. i \in Nat /\ i \notin IdsUsed /\ ticks \in Nat /\ ticks >= 1
    BY MaxPetitionIdAssumption, BuildTicksAssumption
  <2> QED
    BY <1>1, <2>2, <2>3, RestoreUnderConstructionInv DEF RestoreOneUnderConstruction
<1>2. CASE FinishRestore
  <2>1. PICK i \in 1 .. MaxPetitionId, b \in BuildingTypes :
          /\ \A j \in IdsUsed : j < i
          /\ RestoreCurrentPetition(i, b, BuildTicks[b])
    BY <1>2 DEF FinishRestore
  <2>2. i \in Nat /\ BuildTicks[b] \in Nat /\ BuildTicks[b] >= 1
    BY MaxPetitionIdAssumption, BuildTicksAssumption
  <2> QED
    BY <1>2, <2>1, <2>2, RestoreCurrentPetitionInv DEF FinishRestore
<1>3. CASE Accept
  BY <1>3, GenerateInv DEF Accept, AcceptPetition
<1>4. CASE Reject
  BY <1>4, GenerateInv DEF Reject, RejectPetition
<1>5. CASE Tick
  BY <1>5, TickInv
<1>6. CASE ApplyOne
  BY <1>6, TakeCompletedInv DEF ApplyOne
<1>7. CASE UNCHANGED petitionVars
  BY <1>7 DEF petitionVars, PetitionInv, PetitionTypeOK, NextIdIsFresh, InServiceIdsDistinct,
     OfferIsNewest, RefsAllocated, OneOwner, NothingStuck, NothingCompletedInRestore,
     OfferUnbuilt, InService
<1> QED
  BY <1>1, <1>2, <1>3, <1>4, <1>5, <1>6, <1>7 DEF PetitionNext

(* In every reachable state the inductive invariant holds.                   *)
THEOREM PetitionInvariant == PetitionSpec => []PetitionInv
<1>1. PetitionInit => PetitionInv
  BY PetitionInitInv
<1>2. PetitionInv /\ [PetitionNext]_petitionVars => PetitionInv'
  BY PetitionNextInv
<1> QED
  BY <1>1, <1>2, PTL DEF PetitionSpec

(* PetitionManager::nextPetitionId is past every id in use, restored ones    *)
(* included (PetitionManager.cpp:133-134).                                   *)
THEOREM IdsAreFresh == PetitionSpec => []NextIdIsFresh
<1>1. PetitionInv => NextIdIsFresh
  BY DEF PetitionInv
<1> QED
  BY <1>1, PetitionInvariant, PTL

(* While the game runs an id names one petition, though petitions are        *)
(* accepted, completed and restored in between.                              *)
THEOREM IdsAreUnique == PetitionSpec => []IdsNameOnePetition
<1>1. PetitionInv => IdsNameOnePetition
  BY DEF PetitionInv, IdsNameOnePetition, InServiceIdsDistinct, OfferIsNewest
<1> QED
  BY <1>1, PetitionInvariant, PTL

(* No Petition object is owned twice by the manager, so that nothing is      *)
(* deleted twice.                                                            *)
THEOREM PetitionsOwnedOnce == PetitionSpec => []OneOwner
<1>1. PetitionInv => OneOwner
  BY DEF PetitionInv
<1> QED
  BY <1>1, PetitionInvariant, PTL

(* Nothing in the queue is out of buildTick's reach. *)
THEOREM NoPetitionIsStuck == PetitionSpec => []NothingStuck
<1>1. PetitionInv => NothingStuck
  BY DEF PetitionInv
<1> QED
  BY <1>1, PetitionInvariant, PTL

(* PetitionManager's state keeps its types. *)
THEOREM PetitionTypeCorrect == PetitionSpec => []PetitionTypeOK
<1>1. PetitionInv => PetitionTypeOK
  BY DEF PetitionInv
<1> QED
  BY <1>1, PetitionInvariant, PTL

(* A petition leaves the queue only when its count is complete, and then     *)
(* reaches the caller of tick in the same step.                              *)
THEOREM PetitionsLeaveComplete == PetitionSpec => LeavesOnlyWhenComplete
<1> DEFINE Kept(p) ==
      \/ \E q \in underConstruction' : q.ref = p.ref /\ q.ticks \in {p.ticks, p.ticks - 1}
      \/ p.ticks = 1 /\ p \in completedConstructions'
<1>1. PetitionInv /\ [PetitionNext]_petitionVars => [\A p \in underConstruction : Kept(p)]_petitionVars
  <2> SUFFICES ASSUME PetitionInv, PetitionNext, NEW p \in underConstruction
               PROVE  Kept(p)
    OBVIOUS
  <2>1. CASE Tick
    <3>1. p \in Petition /\ p.ticks >= 1
      BY DEF PetitionInv, PetitionTypeOK, NothingStuck
    <3>2. CASE Completes(p)
      BY <2>1, <3>2 DEF Tick, BuildTickAll, Completes
    <3>3. CASE ~Completes(p)
      <4>1. BuildTick(p) \in underConstruction'
        BY <2>1, <3>3 DEF Tick, BuildTickAll
      <4> QED
        BY <3>1, <3>3, <4>1, BuildTickKeepsIdentity
    <3> QED
      BY <3>2, <3>3
  <2>2. CASE ~Tick
    <3>1. p \in underConstruction'
      BY <2>2 DEF PetitionNext, RestoreOneUnderConstruction, RestoreUnderConstruction,
         FinishRestore, RestoreCurrentPetition, Accept, AcceptPetition, Reject, RejectPetition,
         ApplyOne, TakeCompleted
    <3> QED
      BY <3>1
  <2> QED
    BY <2>1, <2>2
<1> QED
  BY <1>1, PetitionInvariant, PTL DEF PetitionSpec, LeavesOnlyWhenComplete

-----------------------------------------------------------------------------
(* The arithmetic of a milestone. *)
LEMMA NineTenthsBounds ==
    ASSUME NEW d \in Int
    PROVE  /\ NineTenths(d) \in Int
           /\ d >= 0 => NineTenths(d) <= d
           /\ d <= 0 => NineTenths(d) <= 0
<1>1. LosesOne((9 * Abs(d)) \div 10) \in BOOLEAN
  BY DEF LosesOne
<1> QED
  BY <1>1 DEF NineTenths, WithSign, Abs

LEMMA RaisedBounds ==
    ASSUME NEW d \in Int
    PROVE  /\ Raised(d) \in Int
           /\ d >= 0 => Raised(d) >= d
           /\ d <= 0 => Raised(d) <= d
BY DEF Raised, WithSign, Abs

(* Rounding included, scaling never slows the drain of water or energy and   *)
(* never slows the growth of CO2, for every delta.                           *)
LEMMA ScalingNeverEases ==
    ASSUME NEW d \in Int
    PROVE  /\ \A r \in ResourceTypes : ScaledDelta(r, d) \in Int
           /\ ScaledDelta("WATER", d) <= d
           /\ ScaledDelta("ENERGY", d) <= d
           /\ ScaledDelta("CO2", d) >= d
           /\ ScaledDelta("POPULATION", d) = d
BY NineTenthsBounds, RaisedBounds DEF ScaledDelta, ResourceTypes

LEMMA TickedType ==
    ASSUME ResourceTypeOK
    PROVE  Ticked \in [ResourceTypes -> 0 .. MaxResourceValue]
BY MaxResourceValueAssumption DEF ResourceTypeOK, Ticked, Clamp

-----------------------------------------------------------------------------
PopulationDeltaFixed == delta["POPULATION"] = InitDelta["POPULATION"]

GoalsGrow == nextPopulationGoal >= InitGoal

AliveDuringTick == pc # "over" => ~GameOver(value)

(* The inductive invariant. *)
GameInv ==
    /\ PetitionInv
    /\ phase = "run"
    /\ GameTypeOK
    /\ PopulationDeltaFixed
    /\ GoalsGrow
    /\ GoalAhead
    /\ AliveDuringTick

LEMMA GameInitInv == Init => GameInv
<1> SUFFICES ASSUME Init PROVE GameInv
  OBVIOUS
<1>1. PetitionInv /\ PetitionTypeOK /\ phase = "run"
  BY PetitionInitInv DEF Init, PetitionInit, PetitionInv
<1>2. ResourceTypeOK /\ PopulationDeltaFixed
  BY InitResourcesAssumption DEF Init, ResourceInit, ResourceTypeOK, PopulationDeltaFixed
<1>3. GameTypeOK
  BY <1>1, <1>2, LimitsAssumption DEF Init, GameTypeOK, NoAction
<1>4. AliveDuringTick
  BY StartAssumption, InitResourcesAssumption, LimitsAssumption
  DEF Init, ResourceInit, AliveDuringTick, GameOver, ResourceTypes
<1>5. GoalAhead /\ GoalsGrow
  BY PopulationAssumption, LimitsAssumption DEF Init, ResourceInit, GoalAhead, GoalsGrow
<1> QED
  BY <1>1, <1>2, <1>3, <1>4, <1>5 DEF GameInv

(* The game loop uses its PetitionManager as the component's specification   *)
(* says: each of its steps is a step of the component or leaves it alone.    *)
LEMMA GameStepIsPetitionStep ==
    phase = "run" /\ [Next]_vars => [PetitionNext]_petitionVars
<1> SUFFICES ASSUME phase = "run", [Next]_vars PROVE [PetitionNext]_petitionVars
  OBVIOUS
<1>1. CASE ReceiveAction
  BY <1>1 DEF ReceiveAction
<1>2. CASE PollNothing \/ NoResponse \/ AcceptTooExpensive \/ SaveGame \/ FinishTick
  BY <1>2 DEF PollNothing, NoResponse, AcceptTooExpensive, SaveGame, FinishTick
<1>3. CASE AcceptCurrent
  BY <1>3 DEF AcceptCurrent, PetitionNext
<1>4. CASE RejectCurrent
  BY <1>4 DEF RejectCurrent, PetitionNext
<1>5. CASE BuildPetitions
  BY <1>5 DEF BuildPetitions, PetitionNext
<1>6. CASE ApplyCompleted
  BY <1>6 DEF ApplyCompleted, ApplyOne, PetitionNext
<1>7. CASE UNCHANGED vars
  BY <1>7 DEF vars
<1> QED
  BY <1>1, <1>2, <1>3, <1>4, <1>5, <1>6, <1>7 DEF Next, Engine, TickStep

-----------------------------------------------------------------------------
(* The steps that touch neither resources nor milestones. *)
LEMMA QuietStepInv ==
    ASSUME GameInv, PetitionInv', phase' = "run",
           UNCHANGED <<value, delta, buildings, nextPopulationGoal>>,
           pc # "over" \/ pc' = "over",
           pc' \in {"poll", "save", "build", "apply", "over"},
           pendingAction' \in UIAction \union {NoAction}
    PROVE  GameInv'
<1>1. GameTypeOK' /\ PopulationDeltaFixed' /\ GoalsGrow'
  BY DEF GameInv, GameTypeOK, ResourceTypeOK, PetitionInv, PopulationDeltaFixed, GoalsGrow
<1>2. GoalAhead'
  BY DEF GameInv, GoalAhead, GameTypeOK
<1>3. AliveDuringTick'
  BY DEF GameInv, AliveDuringTick, GameOver
<1> QED
  BY <1>1, <1>2, <1>3 DEF GameInv

LEMMA ApplyCompletedInv ==
    ASSUME GameInv, PetitionInv', ApplyCompleted
    PROVE  GameInv'
<1>1. PICK p \in completedConstructions :
        /\ delta' = [r \in ResourceTypes |-> delta[r] + Effects[p.type][r]]
        /\ buildings' = [buildings EXCEPT ![p.type] = @ + 1]
  BY DEF ApplyCompleted, ApplyEffect
<1>2. UNCHANGED <<value, phase, pc, nextPopulationGoal, pendingAction>>
  BY DEF ApplyCompleted
<1>3. p.type \in BuildingTypes
  BY DEF GameInv, PetitionInv, PetitionTypeOK, Petition
<1>4. delta' \in [ResourceTypes -> Int]
  <2>1. Effects[p.type] \in [ResourceTypes -> Int]
    BY <1>3, BuildingAssumption
  <2>2. delta \in [ResourceTypes -> Int]
    BY DEF GameInv, GameTypeOK, ResourceTypeOK
  <2>3. \A r \in ResourceTypes : delta[r] + Effects[p.type][r] \in Int
    BY <2>1, <2>2
  <2> QED
    BY <1>1, <2>3
<1>5. buildings' \in [BuildingTypes -> Nat]
  BY <1>1, <1>3 DEF GameInv, GameTypeOK
<1>6. GameTypeOK'
  BY <1>2, <1>4, <1>5 DEF GameInv, GameTypeOK, ResourceTypeOK, PetitionInv
<1>7. PopulationDeltaFixed'
  BY <1>1, <1>3, PopulationAssumption, InitResourcesAssumption
  DEF GameInv, PopulationDeltaFixed, ResourceTypes
<1>8. GoalsGrow' /\ GoalAhead' /\ AliveDuringTick'
  BY <1>2 DEF GameInv, GoalsGrow, GoalAhead, AliveDuringTick, GameOver
<1> QED
  BY <1>2, <1>6, <1>7, <1>8 DEF GameInv

(* One milestone per tick is enough: the goal moves on by at least a fifth   *)
(* of the initial one, the population by at most that much.                  *)
LEMMA FinishTickInv ==
    ASSUME GameInv, PetitionInv', FinishTick
    PROVE  GameInv'
<1> DEFINE population == Ticked["POPULATION"]
<1>1. /\ value' = Ticked
      /\ ScaleAtGoal(population)
      /\ pc = "apply"
      /\ pc' = IF GameOver(Ticked) THEN "over" ELSE "poll"
      /\ UNCHANGED <<phase, buildings, pendingAction>>
  BY DEF FinishTick, petitionVars
<1>2. Ticked \in [ResourceTypes -> 0 .. MaxResourceValue]
  BY TickedType DEF GameInv, GameTypeOK
<1>3. nextPopulationGoal \in Nat /\ nextPopulationGoal >= InitGoal /\ InitGoal \in Nat
  BY LimitsAssumption DEF GameInv, GameTypeOK, GoalsGrow
<1>4. delta \in [ResourceTypes -> Int]
  BY DEF GameInv, GameTypeOK, ResourceTypeOK
<1>5. delta' \in [ResourceTypes -> Int]
  BY <1>1, <1>4, ScalingNeverEases DEF ScaleAtGoal, ScaledDeltas
<1>6. nextPopulationGoal' \in Nat /\ nextPopulationGoal' >= nextPopulationGoal
  BY <1>1, <1>3 DEF ScaleAtGoal, NextGoal
<1>7. GameTypeOK'
  BY <1>1, <1>2, <1>5, <1>6 DEF GameInv, GameTypeOK, ResourceTypeOK, PetitionInv
<1>8. PopulationDeltaFixed'
  <2>1. "POPULATION" \in ResourceTypes /\ delta["POPULATION"] \in Int
    BY <1>4 DEF ResourceTypes
  <2> QED
    BY <1>1, <2>1, ScalingNeverEases DEF ScaleAtGoal, ScaledDeltas, GameInv, PopulationDeltaFixed
<1>9. GoalsGrow'
  BY <1>3, <1>6 DEF GoalsGrow
<1>10. GoalAhead'
  <2>1. /\ value["POPULATION"] \in Nat /\ value["POPULATION"] < nextPopulationGoal
        /\ InitDelta["POPULATION"] \in Int
        /\ 5 * InitDelta["POPULATION"] <= InitGoal
        /\ delta["POPULATION"] = InitDelta["POPULATION"]
    BY <1>1, <1>4, PopulationAssumption
    DEF GameInv, GameTypeOK, ResourceTypeOK, GoalAhead, PopulationDeltaFixed, ResourceTypes
  <2>2. population = Clamp(value["POPULATION"] + delta["POPULATION"])
    BY DEF Ticked, ResourceTypes
  <2>3. population \in Nat
    BY <1>2 DEF ResourceTypes
  <2>4. population = 0 \/ population <= value["POPULATION"] + InitDelta["POPULATION"]
    BY <2>1, <2>2, MaxResourceValueAssumption DEF Clamp
  <2>5. CASE population < nextPopulationGoal
    BY <1>1, <2>5 DEF ScaleAtGoal, GoalAhead
  <2>6. CASE ~(population < nextPopulationGoal)
    <3>1. nextPopulationGoal' = (6 * nextPopulationGoal) \div 5
      BY <1>1, <2>6 DEF ScaleAtGoal, NextGoal
    <3>2. population < nextPopulationGoal'
      BY <1>3, <2>1, <2>3, <2>4, <2>6, <3>1
    <3> QED
      BY <1>1, <3>2 DEF GoalAhead
  <2> QED
    BY <2>5, <2>6
<1>11. AliveDuringTick'
  <2>1. value' = Ticked /\ (pc' # "over" => ~GameOver(Ticked))
    BY <1>1
  <2> QED
    BY <2>1 DEF AliveDuringTick, GameOver
<1> QED
  BY <1>1, <1>7, <1>8, <1>9, <1>10, <1>11 DEF GameInv

LEMMA GameNextInv == GameInv /\ [Next]_vars => GameInv'
<1> SUFFICES ASSUME GameInv, [Next]_vars PROVE GameInv'
  OBVIOUS
<1>1. PetitionInv'
  BY GameStepIsPetitionStep, PetitionNextInv DEF GameInv
<1>2. phase = "run"
  BY DEF GameInv
<1>3. pendingAction \in UIAction \union {NoAction}
  BY DEF GameInv, GameTypeOK
<1>4. CASE ReceiveAction
  BY <1>1, <1>2, <1>4, QuietStepInv
  DEF ReceiveAction, petitionVars, resourceVars, GameInv, GameTypeOK
<1>5. CASE PollNothing
  BY <1>1, <1>2, <1>3, <1>5, QuietStepInv DEF PollNothing, petitionVars, resourceVars
<1>6. CASE NoResponse
  BY <1>1, <1>2, <1>6, QuietStepInv
  DEF NoResponse, PollAction, AfterResponse, petitionVars, resourceVars
<1>7. CASE AcceptCurrent
  BY <1>1, <1>2, <1>7, QuietStepInv
  DEF AcceptCurrent, PollAction, AfterResponse, Accept, resourceVars
<1>8. CASE AcceptTooExpensive
  BY <1>1, <1>2, <1>8, QuietStepInv
  DEF AcceptTooExpensive, PollAction, petitionVars, resourceVars
<1>9. CASE RejectCurrent
  BY <1>1, <1>2, <1>9, QuietStepInv
  DEF RejectCurrent, PollAction, AfterResponse, Reject, resourceVars
<1>10. CASE SaveGame
  BY <1>1, <1>2, <1>3, <1>10, QuietStepInv DEF SaveGame, petitionVars, resourceVars
<1>11. CASE BuildPetitions
  BY <1>1, <1>2, <1>3, <1>11, QuietStepInv DEF BuildPetitions, Tick, resourceVars
<1>12. CASE ApplyCompleted
  BY <1>1, <1>12, ApplyCompletedInv
<1>13. CASE FinishTick
  BY <1>1, <1>13, FinishTickInv
<1>14. CASE UNCHANGED vars
  <2>1. UNCHANGED <<phase, value, delta, buildings, nextPopulationGoal, pc, pendingAction>>
    BY <1>14 DEF vars, petitionVars, resourceVars, gameVars
  <2> QED
    BY <1>1, <1>2, <1>3, <2>1, QuietStepInv DEF GameInv, GameTypeOK
<1> QED
  BY <1>4, <1>5, <1>6, <1>7, <1>8, <1>9, <1>10, <1>11, <1>12, <1>13, <1>14 DEF Next, Engine, TickStep

(* In every reachable state of a game the inductive invariant holds. *)
THEOREM GameInvariant == Spec => []GameInv
<1>1. Init => GameInv
  BY GameInitInv
<1>2. GameInv /\ [Next]_vars => GameInv'
  BY GameNextInv
<1> QED
  BY <1>1, <1>2, PTL DEF Spec

(* The state of the game loop keeps its types. *)
THEOREM GameTypeCorrect == Spec => []GameTypeOK
<1>1. GameInv => GameTypeOK
  BY DEF GameInv
<1> QED
  BY <1>1, GameInvariant, PTL

(* Between ticks the next milestone lies ahead of the population, though     *)
(* handlePopulationScaling raises the goal at most once in a tick.           *)
THEOREM MilestonesKeepUp == Spec => []GoalAhead
<1>1. GameInv => GoalAhead
  BY DEF GameInv
<1> QED
  BY <1>1, GameInvariant, PTL

(* What the repository is asked to store is never a lost game. *)
THEOREM SavesAreAlive == Spec => []NeverSavesLostGame
<1>1. GameInv => NeverSavesLostGame
  BY DEF GameInv, AliveDuringTick, NeverSavesLostGame
<1> QED
  BY <1>1, GameInvariant, PTL

(* A milestone never slows the city's consumption or its emissions. *)
THEOREM MilestonesNeverEase == Spec => MilestoneNeverEases
<1>1. GameInv /\ [Next]_vars =>
        [nextPopulationGoal' # nextPopulationGoal =>
           /\ delta'["WATER"] <= delta["WATER"]
           /\ delta'["ENERGY"] <= delta["ENERGY"]
           /\ delta'["CO2"] >= delta["CO2"]]_vars
  <2> SUFFICES ASSUME GameInv, Next, nextPopulationGoal' # nextPopulationGoal
               PROVE  /\ delta'["WATER"] <= delta["WATER"]
                      /\ delta'["ENERGY"] <= delta["ENERGY"]
                      /\ delta'["CO2"] >= delta["CO2"]
    OBVIOUS
  <2>1. FinishTick
    BY DEF Next, Engine, TickStep, ReceiveAction, PollNothing, NoResponse, AcceptCurrent,
       AcceptTooExpensive, RejectCurrent, SaveGame, BuildPetitions, ApplyCompleted
  <2>2. delta' = ScaledDeltas
    BY <2>1 DEF FinishTick, ScaleAtGoal
  <2>3. delta["WATER"] \in Int /\ delta["ENERGY"] \in Int /\ delta["CO2"] \in Int
    BY DEF GameInv, GameTypeOK, ResourceTypeOK, ResourceTypes
  <2> QED
    BY <2>2, <2>3, ScalingNeverEases DEF ScaledDeltas, ResourceTypes
<1> QED
  BY <1>1, GameInvariant, PTL DEF Spec, MilestoneNeverEases

(* The game loop implements its PetitionManager: everything proved of the    *)
(* component holds of the petitions of a running game.                       *)
THEOREM GameImplementsPetitions == Spec => PetitionSpec
<1>1. Init => PetitionInit
  BY DEF Init, PetitionInit
<1>2. GameInv /\ [Next]_vars => [PetitionNext]_petitionVars
  BY GameStepIsPetitionStep DEF GameInv
<1> QED
  BY <1>1, <1>2, GameInvariant, PTL DEF Spec, PetitionSpec

-----------------------------------------------------------------------------
(* The sums of the effects. *)
LEMMA CityEffectType ==
    ASSUME GameTypeOK, NEW r \in ResourceTypes
    PROVE  CityEffect(r) \in [BuildingTypes -> Int]
<1>1. \A b \in BuildingTypes : buildings[b] \in Nat /\ Effects[b][r] \in Int
  BY BuildingAssumption DEF GameTypeOK
<1> QED
  BY <1>1 DEF CityEffect

(* A building that joins the city brings its effects into the deltas and     *)
(* into the sum over the city alike.                                         *)
LEMMA ApplyKeepsEffects ==
    ASSUME GameInv, EffectsAppliedOnce, ApplyCompleted
    PROVE  EffectsAppliedOnce'
<1>1. PICK p \in completedConstructions :
        /\ delta' = [r \in ResourceTypes |-> delta[r] + Effects[p.type][r]]
        /\ buildings' = [buildings EXCEPT ![p.type] = @ + 1]
        /\ UNCHANGED nextPopulationGoal
  BY DEF ApplyCompleted, ApplyEffect
<1>2. p.type \in BuildingTypes
  BY DEF GameInv, PetitionInv, PetitionTypeOK, Petition
<1>3. SUFFICES ASSUME NEW r \in ResourceTypes, nextPopulationGoal = InitGoal
               PROVE  delta'[r] = InitDelta[r] + SumFunctionOnSet(CityEffect(r)', BuildingTypes)
  BY <1>1 DEF EffectsAppliedOnce
<1> DEFINE effect == Effects[p.type][r]
<1>4. effect \in Int /\ delta[r] \in Int /\ InitDelta[r] \in Int
  BY <1>2, BuildingAssumption, InitResourcesAssumption DEF GameInv, GameTypeOK, ResourceTypeOK
<1>5. CityEffect(r) \in [BuildingTypes -> Int]
  BY CityEffectType DEF GameInv
<1>6. \A b \in BuildingTypes : buildings[b] \in Nat /\ Effects[b][r] \in Int
  BY BuildingAssumption DEF GameInv, GameTypeOK
<1>7. /\ \A b \in BuildingTypes \ {p.type} : CityEffect(r)'[b] = CityEffect(r)[b]
      /\ CityEffect(r)'[p.type] = CityEffect(r)[p.type] + effect
  <2>1. buildings'[p.type] = buildings[p.type] + 1
    BY <1>1, <1>2 DEF GameInv, GameTypeOK
  <2>2. \A b \in BuildingTypes \ {p.type} : buildings'[b] = buildings[b]
    BY <1>1 DEF GameInv, GameTypeOK
  <2>3. (buildings[p.type] + 1) * effect = buildings[p.type] * effect + effect
    <3>1. \A m \in Nat, e \in Int : (m + 1) * e = m * e + e
      OBVIOUS
    <3> QED
      BY <1>2, <1>4, <1>6, <3>1
  <2> QED
    BY <1>2, <2>1, <2>2, <2>3 DEF CityEffect
<1>8. CityEffect(r)' \in [BuildingTypes -> Int]
  <2>1. \A b \in BuildingTypes : CityEffect(r)'[b] \in Int
    BY <1>2, <1>4, <1>5, <1>7
  <2> QED
    BY <2>1 DEF CityEffect
<1>9. SumFunctionOnSet(CityEffect(r)', BuildingTypes)
        = SumFunctionOnSet(CityEffect(r), BuildingTypes) + effect
  BY <1>2, <1>4, <1>5, <1>7, <1>8, SumWithOneChanged, BuildingAssumption
<1>10. SumFunctionOnSet(CityEffect(r), BuildingTypes) \in Int
  BY <1>5, SumType, BuildingAssumption
<1>11. delta[r] = InitDelta[r] + SumFunctionOnSet(CityEffect(r), BuildingTypes)
  BY <1>3 DEF EffectsAppliedOnce
<1>12. delta'[r] = delta[r] + effect
  BY <1>1
<1> HIDE DEF effect
<1> QED
  BY <1>4, <1>9, <1>10, <1>11, <1>12

(* A milestone that rescales the deltas leaves the first goal for good: it   *)
(* is only reached when the goal is large enough to grow by a fifth.         *)
LEMMA FinishKeepsEffects ==
    ASSUME GameInv, EffectsAppliedOnce, FinishTick
    PROVE  EffectsAppliedOnce'
<1> DEFINE population == Ticked["POPULATION"]
<1>1. ScaleAtGoal(population) /\ buildings' = buildings
  BY DEF FinishTick
<1>2. CASE population < nextPopulationGoal
  BY <1>1, <1>2 DEF ScaleAtGoal, EffectsAppliedOnce, CityEffect
<1>3. CASE ~(population < nextPopulationGoal)
  <2>1. nextPopulationGoal' = (6 * nextPopulationGoal) \div 5
    BY <1>1, <1>3 DEF ScaleAtGoal, NextGoal
  <2>2. nextPopulationGoal \in Nat /\ nextPopulationGoal >= InitGoal /\ InitGoal \in Nat
    BY LimitsAssumption DEF GameInv, GameTypeOK, GoalsGrow
  <2>3. population \in Nat
    BY TickedType DEF GameInv, GameTypeOK, ResourceTypes
  <2>4. /\ value["POPULATION"] \in Nat /\ value["POPULATION"] < nextPopulationGoal
        /\ InitDelta["POPULATION"] \in Int
        /\ 5 * InitDelta["POPULATION"] <= InitGoal
        /\ population = Clamp(value["POPULATION"] + InitDelta["POPULATION"])
    BY PopulationAssumption, InitResourcesAssumption
    DEF FinishTick, GameInv, GameTypeOK, ResourceTypeOK, GoalAhead, PopulationDeltaFixed,
        ResourceTypes, Ticked
  <2>5. population = 0 \/ population <= value["POPULATION"] + InitDelta["POPULATION"]
    BY <2>4, MaxResourceValueAssumption DEF Clamp
  <2> HIDE DEF population
  <2>6. nextPopulationGoal > 0
    BY <2>2, <2>4
  <2>7. InitDelta["POPULATION"] >= 1
    BY <1>3, <2>2, <2>3, <2>4, <2>5, <2>6
  <2>8. nextPopulationGoal >= 5
    BY <2>2, <2>4, <2>7
  <2>9. nextPopulationGoal' # InitGoal
    BY <2>1, <2>2, <2>8
  <2> QED
    BY <2>9 DEF EffectsAppliedOnce
<1> QED
  BY <1>2, <1>3

(* However many constructions complete in a tick and whatever is answered in *)
(* the meantime, every building that stands has had its effects exactly once.*)
THEOREM EffectsReachDeltasOnce == Spec => []EffectsAppliedOnce
<1>1. Init => EffectsAppliedOnce
  <2> SUFFICES ASSUME Init, NEW r \in ResourceTypes
               PROVE  delta[r] = InitDelta[r] + SumFunctionOnSet(CityEffect(r), BuildingTypes)
    BY DEF EffectsAppliedOnce
  <2>1. \A b \in BuildingTypes : Effects[b][r] \in Int
    BY BuildingAssumption
  <2>2. \A b \in BuildingTypes : CityEffect(r)[b] = 0
    <3>1. \A e \in Int : 0 * e = 0
      OBVIOUS
    <3> QED
      BY <2>1, <3>1 DEF Init, CityEffect
  <2>3. SumFunctionOnSet(CityEffect(r), BuildingTypes) = 0
    <3>1. CityEffect(r) \in [BuildingTypes -> Int]
      BY <2>2 DEF CityEffect
    <3> QED
      BY <2>2, <3>1, SumOfZeros, BuildingAssumption
  <2> QED
    BY <2>3, InitResourcesAssumption DEF Init, ResourceInit
<1>2. GameInv /\ EffectsAppliedOnce /\ [Next]_vars => EffectsAppliedOnce'
  <2> SUFFICES ASSUME GameInv, EffectsAppliedOnce, [Next]_vars PROVE EffectsAppliedOnce'
    OBVIOUS
  <2>1. CASE UNCHANGED <<delta, buildings, nextPopulationGoal>>
    BY <2>1 DEF EffectsAppliedOnce, CityEffect
  <2>2. CASE ApplyCompleted
    BY <2>2, ApplyKeepsEffects
  <2>3. CASE FinishTick
    BY <2>3, FinishKeepsEffects
  <2> QED
    BY <2>1, <2>2, <2>3
    DEF Next, Engine, TickStep, ReceiveAction, PollNothing, NoResponse, AcceptCurrent,
        AcceptTooExpensive, RejectCurrent, SaveGame, BuildPetitions, vars, resourceVars, gameVars
<1> QED
  BY <1>1, <1>2, GameInvariant, PTL DEF Spec

-----------------------------------------------------------------------------
(* Counting petitions of a type. *)
QueuesFinite == IsFiniteSet(underConstruction) /\ IsFiniteSet(completedConstructions)

LEMMA OfTypeFinite ==
    ASSUME NEW S, IsFiniteSet(S), NEW b
    PROVE  IsFiniteSet(OfType(S, b)) /\ Cardinality(OfType(S, b)) \in Nat
BY FS_Subset, FS_CardinalityType DEF OfType

LEMMA OfTypeAdd ==
    ASSUME NEW S, IsFiniteSet(S), NEW q, q \notin S, NEW b
    PROVE  Cardinality(OfType(S \union {q}, b)) =
             Cardinality(OfType(S, b)) + (IF q.type = b THEN 1 ELSE 0)
<1>1. IsFiniteSet(OfType(S, b)) /\ Cardinality(OfType(S, b)) \in Nat /\ q \notin OfType(S, b)
  BY OfTypeFinite DEF OfType
<1>2. OfType(S \union {q}, b) = IF q.type = b THEN OfType(S, b) \union {q} ELSE OfType(S, b)
  BY DEF OfType
<1>3. CASE q.type = b
  BY <1>1, <1>2, <1>3, FS_AddElement
<1>4. CASE q.type # b
  BY <1>1, <1>2, <1>4
<1> QED
  BY <1>3, <1>4

(* tick neither drops nor duplicates: what was under construction still is,  *)
(* or is in the list the caller gets, and BuildTick keeps two apart.         *)
LEMMA TickKeepsCount ==
    ASSUME PetitionInv, QueuesFinite, Tick
    PROVE  /\ QueuesFinite'
           /\ \A b : Cardinality(OfType(underConstruction, b)) =
                       Cardinality(OfType(underConstruction', b))
                       + Cardinality(OfType(completedConstructions', b))
<1> DEFINE U == underConstruction
           done == {p \in U : Completes(p)}
           rest == {p \in U : ~Completes(p)}
           ticked == {BuildTick(p) : p \in rest}
<1>1. underConstruction' = ticked /\ completedConstructions' = done
  BY DEF Tick, BuildTickAll
<1>2. \A p \in rest : /\ BuildTick(p).ref = p.ref
                      /\ BuildTick(p).type = p.type
  BY BuildTickKeepsIdentity DEF PetitionInv, PetitionTypeOK, NothingStuck
<1>3. \A p, q \in rest : BuildTick(p) = BuildTick(q) => p = q
  BY <1>2 DEF PetitionInv, OneOwner, InService
<1>4. IsFiniteSet(U) /\ IsFiniteSet(done) /\ IsFiniteSet(rest)
  BY FS_Subset DEF QueuesFinite
<1>5. ASSUME NEW R \in SUBSET rest
      PROVE  LET T == {BuildTick(p) : p \in R}
             IN  IsFiniteSet(T) /\ Cardinality(T) = Cardinality(R)
  <2> DEFINE T == {BuildTick(p) : p \in R}
             f == [p \in R |-> BuildTick(p)]
  <2>1. f \in Bijection(R, T)
    BY <1>3 DEF Bijection, Injection, Surjection, IsInjective
  <2>2. IsFiniteSet(R) /\ ExistsBijection(R, T)
    BY <1>4, <2>1, FS_Subset DEF ExistsBijection
  <2> HIDE DEF T
  <2>3. IsFiniteSet(T) /\ Cardinality(T) = Cardinality(R)
    BY <2>2, FS_Bijection
  <2> QED
    BY <2>3 DEF T
<1>6. QueuesFinite'
  BY <1>1, <1>4, <1>5 DEF QueuesFinite
<1>7. ASSUME NEW b
      PROVE  Cardinality(OfType(U, b)) = Cardinality(OfType(ticked, b)) + Cardinality(OfType(done, b))
  <2>1. OfType(ticked, b) = {BuildTick(p) : p \in OfType(rest, b)}
    BY <1>2 DEF OfType
  <2>2. OfType(rest, b) \in SUBSET rest
    BY DEF OfType
  <2>3. Cardinality(OfType(ticked, b)) = Cardinality(OfType(rest, b))
    BY <1>5, <2>1, <2>2
  <2>4. /\ OfType(U, b) = OfType(rest, b) \union OfType(done, b)
        /\ OfType(rest, b) \intersect OfType(done, b) = {}
    BY DEF OfType
  <2>5. /\ IsFiniteSet(OfType(rest, b)) /\ Cardinality(OfType(rest, b)) \in Nat
        /\ IsFiniteSet(OfType(done, b)) /\ Cardinality(OfType(done, b)) \in Nat
    BY <1>4, OfTypeFinite
  <2> HIDE DEF U, rest, done, ticked
  <2> QED
    BY <2>3, <2>4, <2>5, FS_Union, FS_EmptySet
<1> QED
  BY <1>1, <1>6, <1>7

(* Both lists are finite: they begin empty and grow by one petition a time. *)
LEMMA QueuesStayFinite == PetitionInv /\ QueuesFinite /\ [PetitionNext]_petitionVars => QueuesFinite'
<1> SUFFICES ASSUME PetitionInv, QueuesFinite, [PetitionNext]_petitionVars PROVE QueuesFinite'
  OBVIOUS
<1>1. CASE Tick
  BY <1>1, TickKeepsCount
<1>2. CASE Accept
  BY <1>2, FS_AddElement DEF Accept, AcceptPetition, QueuesFinite
<1>3. CASE ApplyOne
  BY <1>3, FS_RemoveElement DEF ApplyOne, TakeCompleted, QueuesFinite
<1>4. CASE RestoreOneUnderConstruction
  BY <1>4, FS_AddElement DEF RestoreOneUnderConstruction, RestoreUnderConstruction, QueuesFinite
<1>5. CASE FinishRestore \/ Reject \/ UNCHANGED petitionVars
  BY <1>5 DEF FinishRestore, RestoreCurrentPetition, Reject, RejectPetition, petitionVars, QueuesFinite
<1> QED
  BY <1>1, <1>2, <1>3, <1>4, <1>5 DEF PetitionNext

(* The accepted petition is an object of its own, so it counts. *)
LEMMA AcceptCommits ==
    ASSUME GameInv, QueuesFinite, AcceptCurrent, NEW b \in BuildingTypes
    PROVE  Committed(b)' = Committed(b) + (IF currentPetition.type = b THEN 1 ELSE 0)
<1>1. /\ underConstruction' = underConstruction \union {currentPetition}
      /\ UNCHANGED <<completedConstructions, buildings>>
  BY DEF AcceptCurrent, Accept, AcceptPetition
<1>2. currentPetition \notin underConstruction
  BY DEF GameInv, PetitionInv, OneOwner, InService
<1>3. Cardinality(OfType(underConstruction', b)) =
        Cardinality(OfType(underConstruction, b)) + (IF currentPetition.type = b THEN 1 ELSE 0)
  BY <1>1, <1>2, OfTypeAdd DEF QueuesFinite
<1>4. /\ buildings[b] \in Nat
      /\ Cardinality(OfType(underConstruction, b)) \in Nat
      /\ Cardinality(OfType(completedConstructions, b)) \in Nat
  BY OfTypeFinite DEF GameInv, GameTypeOK, QueuesFinite
<1>5. Cardinality(OfType(completedConstructions', b)) = Cardinality(OfType(completedConstructions, b))
  BY <1>1
<1>6. buildings'[b] = buildings[b]
  BY <1>1
<1> QED
  BY <1>3, <1>4, <1>5, <1>6 DEF Committed

(* A construction that joins the city leaves the list of the completed. *)
LEMMA ApplyKeepsCommitted ==
    ASSUME GameInv, QueuesFinite, ApplyCompleted, NEW b \in BuildingTypes
    PROVE  Committed(b)' = Committed(b)
<1>1. PICK p \in completedConstructions :
        /\ completedConstructions' = completedConstructions \ {p}
        /\ underConstruction' = underConstruction
        /\ buildings' = [buildings EXCEPT ![p.type] = @ + 1]
  BY DEF ApplyCompleted, TakeCompleted
<1> DEFINE rest == completedConstructions \ {p}
<1>2. Cardinality(OfType(completedConstructions, b)) =
        Cardinality(OfType(rest, b)) + (IF p.type = b THEN 1 ELSE 0)
  <2>1. completedConstructions = rest \union {p} /\ p \notin rest /\ IsFiniteSet(rest)
    BY FS_RemoveElement DEF QueuesFinite
  <2> HIDE DEF rest
  <2> QED BY <2>1, OfTypeAdd
<1>3. buildings'[b] = buildings[b] + (IF p.type = b THEN 1 ELSE 0)
  BY <1>1 DEF GameInv, GameTypeOK
<1>4. /\ buildings[b] \in Nat
      /\ Cardinality(OfType(underConstruction, b)) \in Nat
      /\ Cardinality(OfType(rest, b)) \in Nat
  BY FS_RemoveElement, OfTypeFinite DEF GameInv, GameTypeOK, QueuesFinite
<1>5. Cardinality(OfType(completedConstructions', b)) = Cardinality(OfType(rest, b))
  BY <1>1
<1>6. Cardinality(OfType(underConstruction', b)) = Cardinality(OfType(underConstruction, b))
  BY <1>1
<1> HIDE DEF rest
<1> QED
  BY <1>2, <1>3, <1>4, <1>5, <1>6 DEF Committed

(* The city takes on buildings only by accepted petitions, one at a time,    *)
(* and loses none of them between the queue, the completed list and the city.*)
THEOREM CommittedByAcceptOnly == Spec => CommittedOnlyByAccept
<1> DEFINE Accepts(b) == /\ pc = "poll" /\ pc' # "poll" /\ pendingAction.response = "accept"
                         /\ currentPetition.type = b /\ CanAfford(BuildCost[b])
<1>1. Init => QueuesFinite
  BY FS_EmptySet DEF Init, Construct, QueuesFinite
<1>2. GameInv /\ QueuesFinite /\ [Next]_vars => QueuesFinite'
  BY GameStepIsPetitionStep, QueuesStayFinite DEF GameInv
<1>3. ASSUME GameInv, QueuesFinite, Next, NEW b \in BuildingTypes
      PROVE  Committed(b)' = Committed(b) + (IF Accepts(b) THEN 1 ELSE 0)
  <2>1. CASE AcceptCurrent
    <3>1. Accepts(b) <=> currentPetition.type = b
      BY <2>1 DEF AcceptCurrent, PollAction, AfterResponse
    <3> HIDE DEF Accepts
    <3> QED BY <1>3, <2>1, <3>1, AcceptCommits
  <2>2. Committed(b) \in Int
    BY <1>3, OfTypeFinite DEF GameInv, GameTypeOK, QueuesFinite, Committed
  <2>3. CASE ~AcceptCurrent
    <3>1. Committed(b)' = Committed(b)
      <4>1. CASE ApplyCompleted
        BY <1>3, <4>1, ApplyKeepsCommitted
      <4>2. CASE BuildPetitions
        <5>1. Tick /\ UNCHANGED buildings /\ completedConstructions = {}
          BY <4>2 DEF BuildPetitions, Tick
        <5>2. Cardinality(OfType(completedConstructions, b)) = 0
          <6>1. OfType(completedConstructions, b) = {}
            BY <5>1 DEF OfType
          <6> QED BY <6>1, FS_EmptySet
        <5>3. QueuesFinite' /\ Cardinality(OfType(underConstruction, b)) =
                Cardinality(OfType(underConstruction', b))
                + Cardinality(OfType(completedConstructions', b))
          BY <1>3, <5>1, TickKeepsCount DEF GameInv
        <5>4. /\ Cardinality(OfType(underConstruction', b)) \in Nat
              /\ Cardinality(OfType(completedConstructions', b)) \in Nat
              /\ buildings[b] \in Nat
          BY <1>3, <5>3, OfTypeFinite DEF GameInv, GameTypeOK, QueuesFinite
        <5> QED
          BY <5>1, <5>2, <5>3, <5>4 DEF Committed
      <4>3. CASE ~ApplyCompleted /\ ~BuildPetitions
        BY <1>3, <2>3, <4>3
        DEF Next, Engine, TickStep, ReceiveAction, PollNothing, NoResponse,
            AcceptTooExpensive, RejectCurrent, Reject, RejectPetition, SaveGame, FinishTick,
            petitionVars, Committed
      <4> QED
        BY <4>1, <4>2, <4>3
    <3>2. ~Accepts(b)
      <4>1. SUFFICES ASSUME Accepts(b) PROVE AcceptCurrent
        BY <2>3
      <4>2. pendingAction # NoAction
        BY <4>1 DEF NoAction
      <4> QED
        BY <1>3, <4>1, <4>2
        DEF Next, Engine, TickStep, ReceiveAction, PollNothing, NoResponse, AcceptTooExpensive,
            RejectCurrent, SaveGame, BuildPetitions, ApplyCompleted, FinishTick, PollAction,
            CanAfford
    <3> HIDE DEF Accepts
    <3> QED BY <2>2, <3>1, <3>2
  <2> HIDE DEF Accepts
  <2> QED BY <2>1, <2>3
<1>4. GameInv /\ QueuesFinite /\ [Next]_vars =>
        [\A b \in BuildingTypes :
           Committed(b)' = Committed(b) + (IF Accepts(b) THEN 1 ELSE 0)]_vars
  <2> HIDE DEF Accepts
  <2> QED BY <1>3
<1> QED
  BY <1>1, <1>2, <1>4, GameInvariant, PTL DEF Spec, CommittedOnlyByAccept
=============================================================================
