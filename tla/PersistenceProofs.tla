-------------------------- MODULE PersistenceProofs --------------------------
(***************************************************************************)
(* Proofs about Persistence and SaveHistory, for every catalogue, every    *)
(* start that satisfies the assumptions, and any number of crashes,        *)
(* failures and restarts.                                                  *)
(*                                                                         *)
(* The inductive invariant says what the database is at any time, since a  *)
(* crash may leave it as it is: documents of the right types, one for each *)
(* thing, of resources with which a game can go on.  It says how much of   *)
(* the present state a save has already written, and how much of the       *)
(* database a restore has already taken over.                              *)
(***************************************************************************)
EXTENDS SaveHistory, DocumentNames, GameServiceProofs

ResourceDocument == [type : ResourceTypes, amount : 0 .. MaxResourceValue, change : Int]
CountDocument == [type : BuildingTypes, count : Nat]
StoredPetition == [oid : Nat, id : Nat, type : BuildingTypes, ticks : Nat]

Database ==
    [games            : SUBSET {"local_game"},
     resources        : SUBSET ResourceDocument,
     active_petitions : SUBSET StoredPetition,
     petition_counts  : SUBSET CountDocument,
     current_petition : SUBSET StoredPetition]

OnePerType(documents) == \A d, e \in documents : d.type = e.type => d = e

(* What restoreGame needs of a database, whoever left it. *)
DatabaseOK ==
    /\ db \in Database
    /\ OnePerType(db.resources) /\ OnePerType(db.petition_counts)
    /\ \A d, e \in db.current_petition : d = e
    /\ \A d \in db.resources : IF d.type = "CO2" THEN d.amount < MaxCO2 ELSE d.amount > 0

(* What a save has written so far. *)
SaveProgress ==
    /\ writing # 0 => Saving
    /\ writing >= 1 => db.games = Documents.games
    /\ writing = 2 => db.resources \subseteq Documents.resources
    /\ writing > 2 => db.resources = Documents.resources
    /\ writing = 3 => db.active_petitions \subseteq Documents.active_petitions
    /\ writing > 3 => db.active_petitions = Documents.active_petitions
    /\ writing = 4 => db.petition_counts \subseteq Documents.petition_counts
    /\ writing > 4 => db.petition_counts = Documents.petition_counts
    /\ writing = 5 => db.current_petition \subseteq Documents.current_petition

(* A petition or its document without the identity of either. *)
Core(p) == [id |-> p.id, type |-> p.type, ticks |-> p.ticks]

Cores(petitions) == {Core(p) : p \in petitions}

(* What a restore has taken over so far. *)
RestoreProgress ==
    /\ toRestore \subseteq StoredPetition
    /\ pc \in {"restore", "restorePetitions"} => db.games # {}
    /\ pc \in {"load", "restore"} =>
         /\ underConstruction = {}
         /\ \A b \in BuildingTypes : buildings[b] = 0
    /\ pc = "restorePetitions" =>
         /\ \A d \in db.resources : value[d.type] = d.amount /\ delta[d.type] = d.change
         /\ \A d \in db.petition_counts : buildings[d.type] = d.count
         /\ Cores(db.active_petitions) = Cores(underConstruction) \union Cores(toRestore)

PersistInv ==
    /\ PersistTypeOK
    /\ DatabaseOK
    /\ AliveDuringTick
    /\ NextIdIsFresh
    /\ SaveProgress
    /\ RestoreProgress

-----------------------------------------------------------------------------
(* Databases. *)
LEMMA DatabaseDomain ==
    ASSUME NEW d \in Database
    PROVE  DOMAIN d = DOMAIN EmptyDatabase
<1>1. DOMAIN EmptyDatabase = {Collections[k] : k \in 1 .. 5}
  BY DEF EmptyDatabase
<1>2. /\ Collections[1] = "games" /\ Collections[2] = "resources"
      /\ Collections[3] = "active_petitions" /\ Collections[4] = "petition_counts"
      /\ Collections[5] = "current_petition"
  BY DEF Collections
<1>3. \A k \in 1 .. 5 : k \in {1, 2, 3, 4, 5}
  OBVIOUS
<1>4. DOMAIN EmptyDatabase =
        {"games", "resources", "active_petitions", "petition_counts", "current_petition"}
  BY <1>1, <1>2, <1>3
<1> QED
  BY <1>4 DEF Database

LEMMA EmptyDatabaseType ==
    /\ EmptyDatabase \in Database
    /\ EmptyDatabase.games = {} /\ EmptyDatabase.resources = {}
    /\ EmptyDatabase.active_petitions = {} /\ EmptyDatabase.petition_counts = {}
    /\ EmptyDatabase.current_petition = {}
<1>1. EmptyDatabase = [games |-> {}, resources |-> {}, active_petitions |-> {},
                       petition_counts |-> {}, current_petition |-> {}]
  BY DEF EmptyDatabase, Collections
<1> QED
  BY <1>1 DEF Database

LEMMA DocumentsType ==
    ASSUME PersistTypeOK
    PROVE  /\ Documents \in Database
           /\ OnePerType(Documents.resources) /\ OnePerType(Documents.petition_counts)
           /\ Documents.current_petition = {PetitionDocument(currentPetition)}
<1>1. Documents.resources \subseteq ResourceDocument
  BY DEF Documents, PersistTypeOK, ResourceTypeOK, ResourceDocument
<1>2. \A p \in Petition : PetitionDocument(p) \in StoredPetition
  BY DEF PetitionDocument, StoredPetition, Petition
<1>3. Documents.petition_counts \subseteq CountDocument
  BY DEF Documents, PersistTypeOK, CountDocument
<1>4. /\ Documents.active_petitions \subseteq StoredPetition
      /\ Documents.current_petition \subseteq StoredPetition
  BY <1>2 DEF Documents, PersistTypeOK, PetitionTypeOK
<1>5. Documents \in Database
  BY <1>1, <1>3, <1>4 DEF Documents, Database
<1>6. OnePerType(Documents.resources) /\ OnePerType(Documents.petition_counts)
  BY DEF OnePerType, Documents
<1> QED
  BY <1>5, <1>6 DEF Documents

-----------------------------------------------------------------------------
(* What the petitions' operations preserve, whatever was restored: less than *)
(* PetitionInv, since a database may hold equal ids and finished petitions.  *)
PetitionsOK == PetitionTypeOK /\ NextIdIsFresh

LEMMA GenerateKeepsOK ==
    ASSUME PetitionsOK, NEW b \in BuildingTypes, GeneratePetition(b),
           underConstruction' \in {underConstruction, underConstruction \union {currentPetition}},
           UNCHANGED <<completedConstructions, phase>>
    PROVE  PetitionsOK'
<1>1. BuildTicks[b] \in Nat /\ lastRef + 1 \in Nat /\ nextPetitionId \in Nat
  BY BuildTicksAssumption DEF PetitionsOK, PetitionTypeOK
<1>2. currentPetition' \in Petition /\ currentPetition'.id = nextPetitionId
  BY <1>1, NewPetitionType DEF GeneratePetition
<1>3. nextPetitionId' = nextPetitionId + 1 /\ lastRef' = lastRef + 1
  BY DEF GeneratePetition
<1>4. \A p \in InService' : p \in Petition /\ p.id < nextPetitionId
  BY DEF PetitionsOK, PetitionTypeOK, NextIdIsFresh, InService
<1>5. PetitionTypeOK'
  BY <1>1, <1>2, <1>3, <1>4 DEF PetitionsOK, PetitionTypeOK, InService
<1>6. NextIdIsFresh'
  BY <1>1, <1>2, <1>3, <1>4 DEF NextIdIsFresh, Petition
<1> QED
  BY <1>5, <1>6 DEF PetitionsOK

LEMMA TickKeepsOK ==
    ASSUME PetitionsOK, Tick
    PROVE  PetitionsOK'
<1>1. \A p \in Petition : BuildTick(p) \in Petition /\ BuildTick(p).id = p.id
  BY DEF BuildTick, Petition
<1>2. /\ underConstruction' =
           {BuildTick(p) : p \in {q \in underConstruction : ~Completes(q)}}
      /\ completedConstructions' \subseteq underConstruction
      /\ UNCHANGED <<currentPetition, nextPetitionId, lastRef, phase>>
  BY DEF Tick, BuildTickAll
<1>3. \A p \in underConstruction' : p \in Petition /\ p.id < nextPetitionId
  BY <1>1, <1>2 DEF PetitionsOK, PetitionTypeOK, NextIdIsFresh, InService
<1>4. PetitionTypeOK'
  BY <1>2, <1>3 DEF PetitionsOK, PetitionTypeOK
<1>5. NextIdIsFresh'
  BY <1>2, <1>3 DEF PetitionsOK, NextIdIsFresh, InService
<1> QED
  BY <1>4, <1>5 DEF PetitionsOK

(* Restoring a petition, under construction or as the offer. *)
LEMMA RestoreKeepsOK ==
    ASSUME PetitionsOK, NEW d \in StoredPetition,
           \/ RestoreUnderConstruction(d.id, d.type, d.ticks)
           \/ RestoreCurrentPetition(d.id, d.type, d.ticks),
           phase' \in {"restore", "run"}
    PROVE  PetitionsOK'
<1> DEFINE r == NewPetition(lastRef + 1, d.id, d.type, d.ticks)
<1>1. /\ lastRef + 1 \in Nat /\ nextPetitionId \in Nat
      /\ d.id \in Nat /\ d.type \in BuildingTypes /\ d.ticks \in Nat
  BY DEF PetitionsOK, PetitionTypeOK, StoredPetition
<1>2. r \in Petition /\ r.id = d.id
  BY <1>1, NewPetitionType
<1>3. /\ nextPetitionId' = IdPast(d.id) /\ lastRef' = lastRef + 1
      /\ currentPetition' \in {currentPetition, r}
      /\ underConstruction' \in {underConstruction, underConstruction \union {r}}
      /\ UNCHANGED completedConstructions
  BY DEF RestoreUnderConstruction, RestoreCurrentPetition
<1>4. /\ IdPast(d.id) \in Nat /\ d.id < IdPast(d.id) /\ nextPetitionId <= IdPast(d.id)
  BY <1>1 DEF IdPast
<1>5. \A p \in InService' \union {currentPetition'} :
        p = r \/ p \in InService \union {currentPetition}
  BY <1>3 DEF InService
<1>6. \A p \in InService \union {currentPetition} :
        p \in Petition /\ p.id \in Nat /\ p.id < nextPetitionId
  BY DEF PetitionsOK, PetitionTypeOK, NextIdIsFresh, InService, Petition
<1>7. PetitionTypeOK'
  BY <1>1, <1>2, <1>3, <1>4, <1>5, <1>6 DEF PetitionTypeOK, InService
<1>8. NextIdIsFresh'
  BY <1>1, <1>2, <1>3, <1>4, <1>5, <1>6 DEF NextIdIsFresh
<1> QED
  BY <1>7, <1>8 DEF PetitionsOK

-----------------------------------------------------------------------------
(* Steps that leave the database as it is and no save unfinished, while      *)
(* nothing is being restored.                                                *)
LEMMA QuietDatabaseInv ==
    ASSUME PersistInv, PersistTypeOK', AliveDuringTick', NextIdIsFresh',
           UNCHANGED db, writing' = 0, UNCHANGED toRestore,
           pc' \notin {"load", "restore", "restorePetitions"}
    PROVE  PersistInv'
<1>1. DatabaseOK'
  BY DEF PersistInv, DatabaseOK
<1>2. SaveProgress'
  BY DEF SaveProgress
<1>3. RestoreProgress'
  BY DEF PersistInv, RestoreProgress
<1> QED
  BY <1>1, <1>2, <1>3 DEF PersistInv

LEMMA PersistInitInv == PersistInit => PersistInv
<1> SUFFICES ASSUME PersistInit PROVE PersistInv
  OBVIOUS
<1>1. PICK b \in BuildingTypes : currentPetition = NewPetition(1, 1, b, BuildTicks[b])
  BY DEF PersistInit, Construct
<1>2. currentPetition \in Petition /\ currentPetition.id = 1
  BY <1>1, BuildTicksAssumption, NewPetitionType
<1>3. PetitionTypeOK /\ NextIdIsFresh
  BY <1>2 DEF PersistInit, Construct, PetitionTypeOK, NextIdIsFresh, InService
<1>4. ResourceTypeOK
  BY InitResourcesAssumption DEF PersistInit, ResourceInit, ResourceTypeOK
<1>5. AliveDuringTick
  BY StartAssumption, InitResourcesAssumption, LimitsAssumption
  DEF PersistInit, ResourceInit, AliveDuringTick, GameOver, ResourceTypes
<1>6. DOMAIN db = DOMAIN EmptyDatabase
  BY DEF PersistInit
<1>7. PersistTypeOK
  BY <1>3, <1>4, <1>6, LimitsAssumption, MaxRestartsAssumption DEF PersistInit, PersistTypeOK
<1>8. DatabaseOK
  BY EmptyDatabaseType DEF PersistInit, DatabaseOK, OnePerType
<1>9. SaveProgress /\ RestoreProgress
  BY DEF PersistInit, Construct, SaveProgress, RestoreProgress
<1> QED
  BY <1>3, <1>5, <1>7, <1>8, <1>9 DEF PersistInv

LEMMA BootInv ==
    ASSUME PersistInv, Boot
    PROVE  PersistInv'
<1>1. PICK b \in BuildingTypes : currentPetition' = NewPetition(1, 1, b, BuildTicks[b])
  BY DEF Boot
<1>2. currentPetition' \in Petition /\ currentPetition'.id = 1
  BY <1>1, BuildTicksAssumption, NewPetitionType
<1>3. PetitionTypeOK' /\ NextIdIsFresh'
  BY <1>2 DEF Boot, PetitionTypeOK, NextIdIsFresh, InService
<1>4. ResourceTypeOK'
  BY InitResourcesAssumption DEF Boot, ResourceTypeOK
<1>5. AliveDuringTick'
  BY StartAssumption, InitResourcesAssumption, LimitsAssumption
  DEF Boot, AliveDuringTick, GameOver, ResourceTypes
<1>6. PersistTypeOK'
  BY <1>3, <1>4, LimitsAssumption, MaxRestartsAssumption DEF Boot, PersistInv, PersistTypeOK
<1>7. DatabaseOK'
  BY DEF Boot, PersistInv, DatabaseOK
<1>8. SaveProgress' /\ RestoreProgress'
  BY DEF Boot, SaveProgress, RestoreProgress
<1> QED
  BY <1>3, <1>5, <1>6, <1>7, <1>8 DEF PersistInv

-----------------------------------------------------------------------------
(* The steps of a tick. *)
LEMMA PetitionStepTypes ==
    ASSUME PersistInv, PetitionsOK', UNCHANGED <<resourceVars, buildings, nextPopulationGoal, restarts, db, writing>>,
           pendingAction' \in {pendingAction, NoAction},
           pc # "over", pc' \in {"poll", "save", "build", "apply"}
    PROVE  PersistTypeOK' /\ AliveDuringTick' /\ NextIdIsFresh'
<1>1. PersistTypeOK'
  BY DEF PersistInv, PersistTypeOK, PetitionsOK, ResourceTypeOK, resourceVars
<1>2. AliveDuringTick'
  BY DEF PersistInv, AliveDuringTick, GameOver, resourceVars
<1> QED
  BY <1>1, <1>2 DEF PetitionsOK

LEMMA GameStepInv ==
    ASSUME PersistInv, GameStep
    PROVE  PersistInv'
<1>1. /\ UNCHANGED <<db, writing, toRestore, restarts>>
      /\ pc \in {"poll", "build", "apply"}
      /\ pc' \in {"poll", "save", "build", "apply", "over"}
  BY DEF GameStep, persistVars, TickStep, PollNothing, NoResponse, AcceptCurrent, AcceptTooExpensive,
     RejectCurrent, PollAction, AfterResponse, BuildPetitions, ApplyCompleted, FinishTick
<1>2. writing' = 0
  BY <1>1 DEF PersistInv, SaveProgress, Saving
<1>3. PetitionsOK
  BY DEF PersistInv, PersistTypeOK, PetitionsOK
<1>4. SUFFICES PersistTypeOK' /\ AliveDuringTick' /\ NextIdIsFresh'
  BY <1>1, <1>2, QuietDatabaseInv
<1>5. CASE PollNothing \/ NoResponse \/ AcceptTooExpensive
  <2>1. /\ UNCHANGED <<petitionVars, resourceVars, buildings, nextPopulationGoal>>
        /\ pendingAction' \in {pendingAction, NoAction}
        /\ pc' \in {"save", "build"}
    BY <1>5 DEF PollNothing, NoResponse, AcceptTooExpensive, PollAction, AfterResponse
  <2>2. PetitionsOK'
    BY <1>3, <2>1 DEF petitionVars, PetitionsOK, PetitionTypeOK, NextIdIsFresh, InService
  <2> QED
    BY <1>1, <2>1, <2>2, PetitionStepTypes
<1>6. CASE AcceptCurrent \/ RejectCurrent
  <2>1. /\ UNCHANGED <<resourceVars, buildings, nextPopulationGoal, completedConstructions, phase>>
        /\ pendingAction' = NoAction
        /\ pc' \in {"save", "build"}
    BY <1>6 DEF AcceptCurrent, RejectCurrent, Accept, Reject, PollAction, AfterResponse
  <2>2. PICK b \in BuildingTypes : AcceptPetition(b) \/ RejectPetition(b)
    BY <1>6 DEF AcceptCurrent, RejectCurrent, Accept, Reject
  <2>3. PetitionsOK'
    BY <1>3, <2>1, <2>2, GenerateKeepsOK DEF AcceptPetition, RejectPetition
  <2> QED
    BY <1>1, <2>1, <2>3, PetitionStepTypes
<1>7. CASE BuildPetitions
  <2>1. PetitionsOK'
    BY <1>3, <1>7, TickKeepsOK DEF BuildPetitions
  <2> QED
    BY <1>1, <1>7, <2>1, PetitionStepTypes DEF BuildPetitions
<1>8. CASE ApplyCompleted
  <2>1. PICK p \in completedConstructions :
          /\ TakeCompleted(p)
          /\ delta' = [r \in ResourceTypes |-> delta[r] + Effects[p.type][r]]
          /\ buildings' = [buildings EXCEPT ![p.type] = @ + 1]
    BY <1>8 DEF ApplyCompleted, ApplyEffect
  <2>2. UNCHANGED <<value, phase, pc, nextPopulationGoal, pendingAction>>
    BY <1>8 DEF ApplyCompleted
  <2>3. PetitionsOK'
    BY <1>3, <2>1, <2>2 DEF TakeCompleted, PetitionsOK, PetitionTypeOK, NextIdIsFresh, InService
  <2>4. p.type \in BuildingTypes
    BY <1>3 DEF PetitionsOK, PetitionTypeOK, Petition
  <2>5. delta' \in [ResourceTypes -> Int]
    <3>1. Effects[p.type] \in [ResourceTypes -> Int]
      BY <2>4, BuildingAssumption
    <3>2. delta \in [ResourceTypes -> Int]
      BY DEF PersistInv, PersistTypeOK, ResourceTypeOK
    <3>3. \A r \in ResourceTypes : delta[r] + Effects[p.type][r] \in Int
      BY <3>1, <3>2
    <3> QED
      BY <2>1, <3>3
  <2>6. buildings' \in [BuildingTypes -> Nat]
    BY <2>1, <2>4 DEF PersistInv, PersistTypeOK
  <2>7. PersistTypeOK'
    BY <1>1, <2>2, <2>3, <2>5, <2>6 DEF PersistInv, PersistTypeOK, PetitionsOK, ResourceTypeOK
  <2>8. AliveDuringTick'
    BY <2>2 DEF PersistInv, AliveDuringTick, GameOver
  <2> QED
    BY <2>3, <2>7, <2>8 DEF PetitionsOK
<1>9. CASE FinishTick
  <2>1. /\ value' = Ticked
        /\ ScaleAtGoal(Ticked["POPULATION"])
        /\ pc' = IF GameOver(Ticked) THEN "over" ELSE "poll"
        /\ UNCHANGED <<petitionVars, buildings, pendingAction>>
    BY <1>9 DEF FinishTick
  <2>2. Ticked \in [ResourceTypes -> 0 .. MaxResourceValue]
    BY TickedType DEF PersistInv, PersistTypeOK
  <2>3. delta \in [ResourceTypes -> Int] /\ nextPopulationGoal \in Nat
    BY DEF PersistInv, PersistTypeOK, ResourceTypeOK
  <2>4. delta' \in [ResourceTypes -> Int]
    BY <2>1, <2>3, ScalingNeverEases DEF ScaleAtGoal, ScaledDeltas
  <2>5. nextPopulationGoal' \in Nat
    BY <2>1, <2>3 DEF ScaleAtGoal, NextGoal
  <2>6. PetitionsOK'
    BY <1>3, <2>1 DEF petitionVars, PetitionsOK, PetitionTypeOK, NextIdIsFresh, InService
  <2>7. PersistTypeOK'
    BY <1>1, <2>1, <2>2, <2>4, <2>5, <2>6
    DEF PersistInv, PersistTypeOK, PetitionsOK, ResourceTypeOK
  <2>8. AliveDuringTick'
    BY <2>1 DEF AliveDuringTick, GameOver
  <2> QED
    BY <2>6, <2>7, <2>8 DEF PetitionsOK
<1> QED
  BY <1>5, <1>6, <1>7, <1>8, <1>9 DEF GameStep, TickStep

-----------------------------------------------------------------------------
(* The steps of a save. *)
LEMMA DocumentsFixed ==
    ASSUME UNCHANGED vars
    PROVE  Documents' = Documents
BY DEF Documents, vars, petitionVars, resourceVars, gameVars

LEMMA SaveStepInv ==
    ASSUME PersistInv, Saving, UNCHANGED <<vars, toRestore, restarts>>,
           writing' \in 1 .. 5, db' \in Database, DatabaseOK', SaveProgress'
    PROVE  PersistInv'
<1>1. UNCHANGED <<pc, value, delta, buildings, nextPopulationGoal, pendingAction, currentPetition,
                  underConstruction, completedConstructions, nextPetitionId, lastRef, phase>>
  BY DEF vars, petitionVars, resourceVars, gameVars
<1>2. DOMAIN db' = DOMAIN EmptyDatabase
  BY DatabaseDomain
<1>3. PersistTypeOK'
  BY <1>1, <1>2 DEF PersistInv, PersistTypeOK, PetitionTypeOK, ResourceTypeOK
<1>4. AliveDuringTick' /\ NextIdIsFresh'
  BY <1>1 DEF PersistInv, AliveDuringTick, GameOver, NextIdIsFresh, InService
<1>5. RestoreProgress'
  BY <1>1 DEF PersistInv, RestoreProgress, Saving
<1> QED
  BY <1>3, <1>4, <1>5 DEF PersistInv

LEMMA UpsertGameInv ==
    ASSUME PersistInv, UpsertGame
    PROVE  PersistInv'
<1>1. /\ Saving /\ UNCHANGED <<vars, toRestore, restarts>> /\ writing' = 1
      /\ db' = [db EXCEPT !.games = {"local_game"}]
  BY DEF UpsertGame
<1>2. /\ db' \in Database /\ db'.games = {"local_game"}
      /\ db'.resources = db.resources /\ db'.petition_counts = db.petition_counts
      /\ db'.current_petition = db.current_petition
  BY <1>1 DEF PersistInv, DatabaseOK, Database
<1>3. DatabaseOK'
  BY <1>2 DEF PersistInv, DatabaseOK
<1>4. Saving' /\ Documents' = Documents
  BY <1>1, DocumentsFixed DEF Saving, vars, gameVars
<1>5. SaveProgress'
  BY <1>1, <1>2, <1>4 DEF SaveProgress, Documents
<1> QED
  BY <1>1, <1>2, <1>3, <1>5, SaveStepInv

LEMMA CollectionNames ==
    /\ Collections[1] = "games" /\ Collections[2] = "resources"
    /\ Collections[3] = "active_petitions" /\ Collections[4] = "petition_counts"
    /\ Collections[5] = "current_petition"
BY DEF Collections

(* All a save has left to write of a collection it has to write whole. *)
LEMMA CollectionComplete ==
    ASSUME PersistInv, Saving, writing \in 1 .. 5, Left(writing) = {}
    PROVE  db[Collections[writing]] = Documents[Collections[writing]]
<1>1. Documents[Collections[writing]] \subseteq db[Collections[writing]]
  BY DEF Left
<1>2. writing \in {1, 2, 3, 4, 5}
  OBVIOUS
<1>3. db[Collections[writing]] \subseteq Documents[Collections[writing]]
  BY <1>2, CollectionNames DEF PersistInv, SaveProgress
<1> QED
  BY <1>1, <1>3

LEMMA ClearCollectionInv ==
    ASSUME PersistInv, ClearCollection
    PROVE  PersistInv'
<1>1. /\ Saving /\ UNCHANGED <<vars, toRestore, restarts>>
      /\ writing \in 1 .. 4 /\ writing' = writing + 1 /\ Left(writing) = {}
      /\ db' = [db EXCEPT ![Collections[writing + 1]] = {}]
  BY DEF ClearCollection
<1>2. Saving' /\ Documents' = Documents
  BY <1>1, DocumentsFixed DEF Saving, vars, gameVars
<1>3. db[Collections[writing]] = Documents[Collections[writing]]
  BY <1>1, CollectionComplete
<1>4. db \in Database
  BY DEF PersistInv, DatabaseOK
<1>5. CASE writing = 1
  <2> Collections[writing + 1] = "resources"
    BY <1>5, CollectionNames
  <2>1. db' = [db EXCEPT !.resources = {}]
    BY <1>1
  <2>2. /\ db' \in Database /\ db'.games = db.games /\ db'.resources = {}
        /\ db'.petition_counts = db.petition_counts /\ db'.current_petition = db.current_petition
    BY <1>4, <2>1 DEF Database
  <2>3. DatabaseOK'
    BY <2>2 DEF PersistInv, DatabaseOK, OnePerType
  <2>4. SaveProgress'
    BY <1>1, <1>2, <1>3, <1>5, <2>2, CollectionNames DEF PersistInv, SaveProgress
  <2> QED
    BY <1>1, <2>2, <2>3, <2>4, SaveStepInv
<1>6. CASE writing = 2
  <2> Collections[writing + 1] = "active_petitions"
    BY <1>6, CollectionNames
  <2>1. db' = [db EXCEPT !.active_petitions = {}]
    BY <1>1
  <2>2. /\ db' \in Database /\ db'.games = db.games /\ db'.resources = db.resources
        /\ db'.active_petitions = {}
        /\ db'.petition_counts = db.petition_counts /\ db'.current_petition = db.current_petition
    BY <1>4, <2>1 DEF Database
  <2>3. DatabaseOK'
    BY <2>2 DEF PersistInv, DatabaseOK, OnePerType
  <2>4. SaveProgress'
    BY <1>1, <1>2, <1>3, <1>6, <2>2, CollectionNames DEF PersistInv, SaveProgress
  <2> QED
    BY <1>1, <2>2, <2>3, <2>4, SaveStepInv
<1>7. CASE writing = 3
  <2> Collections[writing + 1] = "petition_counts"
    BY <1>7, CollectionNames
  <2>1. db' = [db EXCEPT !.petition_counts = {}]
    BY <1>1
  <2>2. /\ db' \in Database /\ db'.games = db.games /\ db'.resources = db.resources
        /\ db'.active_petitions = db.active_petitions
        /\ db'.petition_counts = {} /\ db'.current_petition = db.current_petition
    BY <1>4, <2>1 DEF Database
  <2>3. DatabaseOK'
    BY <2>2 DEF PersistInv, DatabaseOK, OnePerType
  <2>4. SaveProgress'
    BY <1>1, <1>2, <1>3, <1>7, <2>2, CollectionNames DEF PersistInv, SaveProgress
  <2> QED
    BY <1>1, <2>2, <2>3, <2>4, SaveStepInv
<1>8. CASE writing = 4
  <2> Collections[writing + 1] = "current_petition"
    BY <1>8, CollectionNames
  <2>1. db' = [db EXCEPT !.current_petition = {}]
    BY <1>1
  <2>2. /\ db' \in Database /\ db'.games = db.games /\ db'.resources = db.resources
        /\ db'.active_petitions = db.active_petitions
        /\ db'.petition_counts = db.petition_counts /\ db'.current_petition = {}
    BY <1>4, <2>1 DEF Database
  <2>3. DatabaseOK'
    BY <2>2 DEF PersistInv, DatabaseOK, OnePerType
  <2>4. SaveProgress'
    BY <1>1, <1>2, <1>3, <1>8, <2>2, CollectionNames DEF PersistInv, SaveProgress
  <2> QED
    BY <1>1, <2>2, <2>3, <2>4, SaveStepInv
<1> QED
  BY <1>1, <1>5, <1>6, <1>7, <1>8

LEMMA InsertDocumentInv ==
    ASSUME PersistInv, InsertDocument
    PROVE  PersistInv'
<1>1. /\ Saving /\ UNCHANGED <<vars, writing, toRestore, restarts>> /\ writing \in 2 .. 5
  BY DEF InsertDocument
<1>2. PICK d \in Left(writing) :
        db' = [db EXCEPT ![Collections[writing]] = @ \union {d}]
  BY DEF InsertDocument
<1>3. d \in Documents[Collections[writing]]
  BY DEF Left
<1>4. Saving' /\ Documents' = Documents
  BY <1>1, DocumentsFixed DEF Saving, vars, gameVars
<1>5. db \in Database
  BY DEF PersistInv, DatabaseOK
<1>6. /\ Documents \in Database
      /\ OnePerType(Documents.resources) /\ OnePerType(Documents.petition_counts)
      /\ Documents.current_petition = {PetitionDocument(currentPetition)}
  BY DocumentsType DEF PersistInv
<1>7. \A x \in Documents.resources : IF x.type = "CO2" THEN x.amount < MaxCO2 ELSE x.amount > 0
  <2>1. ~GameOver(value) /\ value \in [ResourceTypes -> 0 .. MaxResourceValue]
    BY <1>1 DEF PersistInv, AliveDuringTick, Saving, PersistTypeOK, ResourceTypeOK
  <2>2. \A r \in ResourceTypes : IF r = "CO2" THEN value[r] < MaxCO2 ELSE value[r] > 0
    BY <2>1, LimitsAssumption, MaxResourceValueAssumption DEF GameOver, ResourceTypes
  <2> QED
    BY <2>2 DEF Documents
<1>8. CASE writing = 2
  <2> Collections[writing] = "resources"
    BY <1>8, CollectionNames
  <2>1. db' = [db EXCEPT !.resources = @ \union {d}] /\ d \in Documents.resources
    BY <1>2, <1>3
  <2>2. /\ db' \in Database /\ db'.games = db.games /\ db'.resources = db.resources \union {d}
        /\ db'.petition_counts = db.petition_counts /\ db'.current_petition = db.current_petition
    BY <1>5, <1>6, <2>1 DEF Database
  <2>3. db'.resources \subseteq Documents.resources
    BY <1>8, <2>1, <2>2 DEF PersistInv, SaveProgress
  <2>4. DatabaseOK'
    BY <1>6, <1>7, <2>2, <2>3 DEF PersistInv, DatabaseOK, OnePerType
  <2>5. SaveProgress'
    BY <1>1, <1>4, <1>8, <2>2, <2>3 DEF PersistInv, SaveProgress
  <2> QED
    BY <1>1, <2>2, <2>4, <2>5, SaveStepInv
<1>9. CASE writing = 3
  <2> Collections[writing] = "active_petitions"
    BY <1>9, CollectionNames
  <2>1. db' = [db EXCEPT !.active_petitions = @ \union {d}] /\ d \in Documents.active_petitions
    BY <1>2, <1>3
  <2>2. /\ db' \in Database /\ db'.games = db.games /\ db'.resources = db.resources
        /\ db'.active_petitions = db.active_petitions \union {d}
        /\ db'.petition_counts = db.petition_counts /\ db'.current_petition = db.current_petition
    BY <1>5, <1>6, <2>1 DEF Database
  <2>3. DatabaseOK'
    BY <2>2 DEF PersistInv, DatabaseOK
  <2>4. SaveProgress'
    BY <1>1, <1>4, <1>9, <2>1, <2>2 DEF PersistInv, SaveProgress
  <2> QED
    BY <1>1, <2>2, <2>3, <2>4, SaveStepInv
<1>10. CASE writing = 4
  <2> Collections[writing] = "petition_counts"
    BY <1>10, CollectionNames
  <2>1. db' = [db EXCEPT !.petition_counts = @ \union {d}] /\ d \in Documents.petition_counts
    BY <1>2, <1>3
  <2>2. /\ db' \in Database /\ db'.games = db.games /\ db'.resources = db.resources
        /\ db'.active_petitions = db.active_petitions
        /\ db'.petition_counts = db.petition_counts \union {d}
        /\ db'.current_petition = db.current_petition
    BY <1>5, <1>6, <2>1 DEF Database
  <2>3. db'.petition_counts \subseteq Documents.petition_counts
    BY <1>10, <2>1, <2>2 DEF PersistInv, SaveProgress
  <2>4. DatabaseOK'
    BY <1>6, <2>2, <2>3 DEF PersistInv, DatabaseOK, OnePerType
  <2>5. SaveProgress'
    BY <1>1, <1>4, <1>10, <2>2, <2>3 DEF PersistInv, SaveProgress
  <2> QED
    BY <1>1, <2>2, <2>4, <2>5, SaveStepInv
<1>11. CASE writing = 5
  <2> Collections[writing] = "current_petition"
    BY <1>11, CollectionNames
  <2>1. db' = [db EXCEPT !.current_petition = @ \union {d}] /\ d \in Documents.current_petition
    BY <1>2, <1>3
  <2>2. /\ db' \in Database /\ db'.games = db.games /\ db'.resources = db.resources
        /\ db'.active_petitions = db.active_petitions
        /\ db'.petition_counts = db.petition_counts
        /\ db'.current_petition = db.current_petition \union {d}
    BY <1>5, <1>6, <2>1 DEF Database
  <2>3. db'.current_petition \subseteq Documents.current_petition
    BY <1>11, <2>1, <2>2 DEF PersistInv, SaveProgress
  <2>4. DatabaseOK'
    BY <1>6, <2>2, <2>3 DEF PersistInv, DatabaseOK
  <2>5. SaveProgress'
    BY <1>1, <1>4, <1>11, <2>2, <2>3 DEF PersistInv, SaveProgress
  <2> QED
    BY <1>1, <2>2, <2>4, <2>5, SaveStepInv
<1> QED
  BY <1>1, <1>8, <1>9, <1>10, <1>11

(* The end of a save, and the outcomes of loading that restore nothing.      *)
LEMMA SaveEndInv ==
    ASSUME PersistInv, SaveDone \/ SaveFails
    PROVE  PersistInv'
<1>1. /\ Saving /\ writing' = 0 /\ pc' \in {"build", "poll", "down"} /\ phase' \in {phase, "run"}
      /\ UNCHANGED <<currentPetition, underConstruction, completedConstructions, nextPetitionId,
                     lastRef, resourceVars, buildings, nextPopulationGoal, pendingAction,
                     db, toRestore, restarts>>
  BY DEF SaveDone, SaveFails, StartGame, petitionVars
<1>2. PersistTypeOK'
  BY <1>1 DEF PersistInv, PersistTypeOK, PetitionTypeOK, ResourceTypeOK, resourceVars
<1>3. AliveDuringTick' /\ NextIdIsFresh'
  BY <1>1 DEF PersistInv, AliveDuringTick, GameOver, Saving, resourceVars, NextIdIsFresh, InService
<1> QED
  BY <1>1, <1>2, <1>3, QuietDatabaseInv

LEMMA LoadInv ==
    ASSUME PersistInv, LoadFinds \/ LoadFindsNothing \/ LoadFails
    PROVE  PersistInv'
<1>1. /\ pc = "load" /\ pc' \in {"restore", "firstSave", "down"}
      /\ UNCHANGED <<petitionVars, resourceVars, buildings, nextPopulationGoal, pendingAction,
                     persistVars>>
      /\ pc' = "restore" => db.games # {}
  BY DEF LoadFinds, LoadFindsNothing, LoadFails
<1>2. writing = 0 /\ UNCHANGED <<db, writing, toRestore, restarts>>
  BY <1>1 DEF persistVars, PersistInv, PersistTypeOK, SaveProgress, Saving
<1>3. PersistTypeOK'
  BY <1>1, <1>2 DEF PersistInv, PersistTypeOK, PetitionTypeOK, ResourceTypeOK, resourceVars, petitionVars
<1>4. AliveDuringTick' /\ NextIdIsFresh'
  BY <1>1 DEF PersistInv, AliveDuringTick, GameOver, resourceVars, petitionVars, NextIdIsFresh, InService
<1>5. DatabaseOK' /\ SaveProgress'
  BY <1>2 DEF PersistInv, DatabaseOK, SaveProgress
<1>6. RestoreProgress'
  BY <1>1, <1>2 DEF PersistInv, RestoreProgress, petitionVars
<1> QED
  BY <1>3, <1>4, <1>5, <1>6 DEF PersistInv

LEMMA ListenInv ==
    ASSUME PersistInv, Listen
    PROVE  PersistInv'
<1>1. /\ pc = "poll" /\ pc' = "poll" /\ pendingAction' \in UIAction
      /\ UNCHANGED <<petitionVars, resourceVars, buildings, nextPopulationGoal, db, writing, toRestore,
                     restarts>>
  BY DEF Listen, ReceiveAction, persistVars
<1>2. writing' = 0
  BY <1>1 DEF PersistInv, SaveProgress, Saving
<1>3. PersistTypeOK'
  BY <1>1 DEF PersistInv, PersistTypeOK, PetitionTypeOK, ResourceTypeOK, resourceVars, petitionVars
<1>4. AliveDuringTick' /\ NextIdIsFresh'
  BY <1>1 DEF PersistInv, AliveDuringTick, GameOver, resourceVars, petitionVars, NextIdIsFresh, InService
<1> QED
  BY <1>1, <1>2, <1>3, <1>4, QuietDatabaseInv

-----------------------------------------------------------------------------
(* The steps of a restore. *)
LEMMA RestoredManagers ==
    ASSUME PersistInv, pc = "restore", RestoreManagers
    PROVE  /\ value' \in [ResourceTypes -> 0 .. MaxResourceValue]
           /\ delta' \in [ResourceTypes -> Int]
           /\ buildings' \in [BuildingTypes -> Nat]
           /\ \A d \in db.resources : value'[d.type] = d.amount /\ delta'[d.type] = d.change
           /\ \A d \in db.petition_counts : buildings'[d.type] = d.count
           /\ ~GameOver(value)'
<1>1. /\ value \in [ResourceTypes -> 0 .. MaxResourceValue] /\ delta \in [ResourceTypes -> Int]
      /\ buildings \in [BuildingTypes -> Nat] /\ \A b \in BuildingTypes : buildings[b] = 0
      /\ MaxResourceValue \in Nat /\ MaxCO2 \in Nat
  BY MaxResourceValueAssumption, LimitsAssumption
  DEF PersistInv, PersistTypeOK, ResourceTypeOK, RestoreProgress
<1>2. /\ db.resources \subseteq ResourceDocument /\ db.petition_counts \subseteq CountDocument
      /\ OnePerType(db.resources) /\ OnePerType(db.petition_counts)
      /\ \A d \in db.resources : IF d.type = "CO2" THEN d.amount < MaxCO2 ELSE d.amount > 0
  BY DEF PersistInv, DatabaseOK, Database
<1>3. \A r \in ResourceTypes : IF r = "CO2" THEN value[r] < MaxCO2 ELSE value[r] > 0
  BY <1>1 DEF PersistInv, AliveDuringTick, GameOver, ResourceTypes
<1>4. \A r \in ResourceTypes : StoredFor("resources", r) # {} =>
        LET d == CHOOSE d \in StoredFor("resources", r) : TRUE
        IN  d \in db.resources /\ d.type = r
  BY DEF StoredFor
<1>5. \A d \in db.resources :
        (CHOOSE e \in StoredFor("resources", d.type) : TRUE) = d /\ StoredFor("resources", d.type) # {}
  BY <1>2 DEF StoredFor, OnePerType
<1>6. \A v \in 0 .. MaxResourceValue, a \in 0 .. MaxResourceValue : Clamp(v + (a - v)) = a
  BY <1>1 DEF Clamp
<1>7. \A d \in db.resources : RestoredAmount(d.type) = d.amount
  BY <1>1, <1>2, <1>5, <1>6 DEF RestoredAmount, ResourceDocument
<1>8. \A r \in ResourceTypes :
        \/ RestoredAmount(r) = value[r]
        \/ \E d \in db.resources : d.type = r /\ RestoredAmount(r) = d.amount
  <2> SUFFICES ASSUME NEW r \in ResourceTypes
               PROVE  \/ RestoredAmount(r) = value[r]
                      \/ \E d \in db.resources : d.type = r /\ RestoredAmount(r) = d.amount
    OBVIOUS
  <2>1. CASE StoredFor("resources", r) = {}
    BY <2>1 DEF RestoredAmount
  <2>2. CASE StoredFor("resources", r) # {}
    BY <1>4, <1>7, <2>2
  <2> QED
    BY <2>1, <2>2
<1>9. \A r \in ResourceTypes :
        /\ RestoredAmount(r) \in 0 .. MaxResourceValue
        /\ IF r = "CO2" THEN RestoredAmount(r) < MaxCO2 ELSE RestoredAmount(r) > 0
  BY <1>1, <1>2, <1>3, <1>8 DEF ResourceDocument
<1>10. value' = [r \in ResourceTypes |-> RestoredAmount(r)]
  BY DEF RestoreManagers
<1>11. ~GameOver(value)'
  BY <1>1, <1>9, <1>10 DEF GameOver, ResourceTypes
<1>12. delta' \in [ResourceTypes -> Int] /\ \A d \in db.resources : delta'[d.type] = d.change
  <2>1. delta' = [r \in ResourceTypes |->
                    IF StoredFor("resources", r) = {} THEN delta[r]
                    ELSE (CHOOSE d \in StoredFor("resources", r) : TRUE).change]
    BY DEF RestoreManagers
  <2>2. \A r \in ResourceTypes : delta'[r] \in Int
    BY <1>1, <1>2, <1>4, <2>1 DEF ResourceDocument
  <2> QED
    BY <1>2, <1>5, <2>1, <2>2 DEF ResourceDocument
<1>13. buildings' \in [BuildingTypes -> Nat]
       /\ \A d \in db.petition_counts : buildings'[d.type] = d.count
  <2>1. buildings' = [b \in BuildingTypes |->
                        IF StoredFor("petition_counts", b) = {} THEN buildings[b]
                        ELSE buildings[b] + (CHOOSE d \in StoredFor("petition_counts", b) : TRUE).count]
    BY DEF RestoreManagers
  <2>2. \A b \in BuildingTypes : StoredFor("petition_counts", b) # {} =>
          LET d == CHOOSE d \in StoredFor("petition_counts", b) : TRUE
          IN  d \in db.petition_counts /\ d.type = b
    BY DEF StoredFor
  <2>3. \A d \in db.petition_counts :
          /\ (CHOOSE e \in StoredFor("petition_counts", d.type) : TRUE) = d
          /\ StoredFor("petition_counts", d.type) # {}
    BY <1>2 DEF StoredFor, OnePerType
  <2>4. \A b \in BuildingTypes : buildings'[b] \in Nat
    BY <1>1, <1>2, <2>1, <2>2 DEF CountDocument
  <2> QED
    <3> SUFFICES ASSUME NEW d \in db.petition_counts PROVE buildings'[d.type] = d.count
      BY <2>1, <2>4
    <3>1. d.type \in BuildingTypes /\ d.count \in Nat /\ buildings[d.type] = 0
      BY <1>1, <1>2 DEF CountDocument
    <3>2. buildings'[d.type] = buildings[d.type] + d.count
      BY <2>1, <2>3, <3>1
    <3> QED
      BY <3>1, <3>2
<1> QED
  BY <1>2, <1>7, <1>9, <1>10, <1>11, <1>12, <1>13 DEF ResourceDocument

LEMMA RestoreManagersInv ==
    ASSUME PersistInv, RestoreManagers
    PROVE  PersistInv'
<1>1. /\ pc = "restore" /\ pc' = "restorePetitions" /\ toRestore' = db.active_petitions
      /\ UNCHANGED <<petitionVars, nextPopulationGoal, pendingAction, db, writing, restarts>>
  BY DEF RestoreManagers
<1>2. /\ value' \in [ResourceTypes -> 0 .. MaxResourceValue]
      /\ delta' \in [ResourceTypes -> Int]
      /\ buildings' \in [BuildingTypes -> Nat]
      /\ \A d \in db.resources : value'[d.type] = d.amount /\ delta'[d.type] = d.change
      /\ \A d \in db.petition_counts : buildings'[d.type] = d.count
      /\ ~GameOver(value)'
  BY <1>1, RestoredManagers
<1>3. PersistTypeOK'
  BY <1>1, <1>2 DEF PersistInv, PersistTypeOK, PetitionTypeOK, ResourceTypeOK, petitionVars
<1>4. NextIdIsFresh' /\ AliveDuringTick'
  BY <1>1, <1>2 DEF PersistInv, petitionVars, NextIdIsFresh, InService, AliveDuringTick
<1>5. DatabaseOK' /\ SaveProgress'
  BY <1>1 DEF PersistInv, DatabaseOK, SaveProgress, Saving
<1>6. RestoreProgress'
  <2>1. db.active_petitions \subseteq StoredPetition /\ db.games # {} /\ underConstruction = {}
    BY <1>1 DEF PersistInv, DatabaseOK, Database, RestoreProgress
  <2>2. Cores(underConstruction)' = {}
    BY <1>1, <2>1 DEF Cores, petitionVars
  <2> QED
    BY <1>1, <1>2, <2>1, <2>2 DEF RestoreProgress, Cores
<1> QED
  BY <1>3, <1>4, <1>5, <1>6 DEF PersistInv

LEMMA RestoredCore ==
    ASSUME NEW d, NEW ref
    PROVE  Core(NewPetition(ref, d.id, d.type, d.ticks)) = Core(d)
BY DEF Core, NewPetition

LEMMA RestoreActivePetitionInv ==
    ASSUME PersistInv, RestoreActivePetition
    PROVE  PersistInv'
<1>1. PICK d \in toRestore : /\ RestoreUnderConstruction(d.id, d.type, d.ticks)
                             /\ toRestore' = toRestore \ {d}
  BY DEF RestoreActivePetition
<1>2. /\ pc = "restorePetitions" /\ pc' = pc
      /\ UNCHANGED <<phase, resourceVars, buildings, nextPopulationGoal, pendingAction, db, writing,
                     restarts>>
  BY DEF RestoreActivePetition
<1>3. PetitionsOK'
  BY <1>1, <1>2, RestoreKeepsOK
  DEF PersistInv, PersistTypeOK, PetitionsOK, PetitionTypeOK, RestoreProgress
<1>4. PersistTypeOK'
  BY <1>2, <1>3 DEF PersistInv, PersistTypeOK, PetitionsOK, ResourceTypeOK, resourceVars
<1>5. NextIdIsFresh' /\ AliveDuringTick'
  BY <1>2, <1>3 DEF PersistInv, PetitionsOK, AliveDuringTick, GameOver, resourceVars
<1>6. DatabaseOK' /\ SaveProgress'
  BY <1>2 DEF PersistInv, DatabaseOK, SaveProgress, Saving
<1>7. RestoreProgress'
  <2> DEFINE r == NewPetition(lastRef + 1, d.id, d.type, d.ticks)
  <2>1. underConstruction' = underConstruction \union {r}
    BY <1>1 DEF RestoreUnderConstruction
  <2>2. Core(r) = Core(d)
    BY RestoredCore
  <2>3. Cores(underConstruction \union {r}) \union Cores(toRestore \ {d})
          = Cores(underConstruction) \union Cores(toRestore)
    <3> HIDE DEF r
    <3> QED
      BY <2>2 DEF Cores
  <2>4. (Cores(db.active_petitions) = Cores(underConstruction) \union Cores(toRestore))'
    BY <1>1, <1>2, <2>1, <2>3 DEF PersistInv, RestoreProgress, Cores
  <2> QED
    BY <1>1, <1>2, <2>4 DEF PersistInv, RestoreProgress, resourceVars
<1> QED
  BY <1>4, <1>5, <1>6, <1>7 DEF PersistInv

LEMMA RestoreEndInv ==
    ASSUME PersistInv, RestoreOffer \/ KeepConstructedOffer
    PROVE  PersistInv'
<1>1. /\ pc = "restorePetitions" /\ pc' = "poll" /\ phase' = "run"
      /\ UNCHANGED <<resourceVars, buildings, nextPopulationGoal, pendingAction, db, writing, toRestore,
                     restarts>>
  BY DEF RestoreOffer, KeepConstructedOffer, StartGame, persistVars
<1>2. PetitionsOK
  BY DEF PersistInv, PersistTypeOK, PetitionsOK
<1>3. PetitionsOK'
  <2>1. CASE RestoreOffer
    <3>1. PICK d \in db.current_petition : RestoreCurrentPetition(d.id, d.type, d.ticks)
      BY <2>1 DEF RestoreOffer
    <3>2. d \in StoredPetition
      BY DEF PersistInv, DatabaseOK, Database
    <3> QED
      BY <1>1, <1>2, <3>1, <3>2, RestoreKeepsOK
  <2>2. CASE KeepConstructedOffer
    <3>1. UNCHANGED <<currentPetition, underConstruction, completedConstructions, nextPetitionId,
                      lastRef>>
      BY <2>2 DEF KeepConstructedOffer
    <3> QED
      BY <1>1, <1>2, <3>1 DEF PetitionsOK, PetitionTypeOK, NextIdIsFresh, InService
  <2> QED
    BY <2>1, <2>2
<1>4. PersistTypeOK'
  BY <1>1, <1>3 DEF PersistInv, PersistTypeOK, PetitionsOK, ResourceTypeOK, resourceVars
<1>5. NextIdIsFresh' /\ AliveDuringTick'
  BY <1>1, <1>3 DEF PersistInv, PetitionsOK, AliveDuringTick, GameOver, resourceVars
<1>6. writing' = 0
  BY <1>1 DEF PersistInv, SaveProgress, Saving
<1> QED
  BY <1>1, <1>4, <1>5, <1>6, QuietDatabaseInv

-----------------------------------------------------------------------------
LEMMA PersistStutterInv ==
    ASSUME PersistInv, UNCHANGED allVars
    PROVE  PersistInv'
<1>1. UNCHANGED <<pc, value, delta, buildings, nextPopulationGoal, pendingAction, currentPetition,
                  underConstruction, completedConstructions, nextPetitionId, lastRef, phase,
                  db, writing, toRestore, restarts>>
  BY DEF allVars, persistVars, vars, petitionVars, resourceVars, gameVars
<1>2. Documents' = Documents
  BY <1>1 DEF Documents
<1>3. PersistTypeOK'
  BY <1>1 DEF PersistInv, PersistTypeOK, PetitionTypeOK, ResourceTypeOK
<1>4. NextIdIsFresh' /\ AliveDuringTick'
  BY <1>1 DEF PersistInv, NextIdIsFresh, InService, AliveDuringTick, GameOver
<1>5. DatabaseOK' /\ SaveProgress'
  BY <1>1, <1>2 DEF PersistInv, DatabaseOK, SaveProgress, Saving
<1>6. RestoreProgress'
  BY <1>1 DEF PersistInv, RestoreProgress, Cores
<1> QED
  BY <1>3, <1>4, <1>5, <1>6 DEF PersistInv

LEMMA PersistNextInv == PersistInv /\ [PersistNext]_allVars => PersistInv'
<1> SUFFICES ASSUME PersistInv, [PersistNext]_allVars PROVE PersistInv'
  OBVIOUS
<1>1. CASE LoadFinds \/ LoadFindsNothing \/ LoadFails
  BY <1>1, LoadInv
<1>2. CASE RestoreManagers
  BY <1>2, RestoreManagersInv
<1>3. CASE RestoreActivePetition
  BY <1>3, RestoreActivePetitionInv
<1>4. CASE RestoreOffer \/ KeepConstructedOffer
  BY <1>4, RestoreEndInv
<1>5. CASE GameStep
  BY <1>5, GameStepInv
<1>6. CASE UpsertGame
  BY <1>6, UpsertGameInv
<1>7. CASE ClearCollection
  BY <1>7, ClearCollectionInv
<1>8. CASE InsertDocument
  BY <1>8, InsertDocumentInv
<1>9. CASE SaveDone \/ SaveFails
  BY <1>9, SaveEndInv
<1>10. CASE Listen
  BY <1>10, ListenInv
<1>11. CASE Crash \/ Restart
  BY <1>11, BootInv DEF Crash, Restart
<1>12. CASE UNCHANGED allVars
  BY <1>12, PersistStutterInv
<1> QED
  BY <1>1, <1>2, <1>3, <1>4, <1>5, <1>6, <1>7, <1>8, <1>9, <1>10, <1>11, <1>12
  DEF PersistNext, Main, Startup

(* In every reachable state, crashes and failures included, the inductive    *)
(* invariant holds.                                                          *)
THEOREM PersistInvariant == PersistSpec => []PersistInv
<1>1. PersistInit => PersistInv
  BY PersistInitInv
<1>2. PersistInv /\ [PersistNext]_allVars => PersistInv'
  BY PersistNextInv
<1> QED
  BY <1>1, <1>2, PTL DEF PersistSpec

(* The process and its database keep their types. *)
THEOREM PersistTypeCorrect == PersistSpec => []PersistTypeOK
<1>1. PersistInv => PersistTypeOK
  BY DEF PersistInv
<1> QED
  BY <1>1, PersistInvariant, PTL

(* A game that is resumed, from whatever a crash left of a save, can go on.  *)
THEOREM ResumedGamesAreAlive == PersistSpec => []NeverResumesLostGame
<1>1. PersistInv => NeverResumesLostGame
  BY DEF PersistInv, AliveDuringTick, NeverResumesLostGame
<1> QED
  BY <1>1, PersistInvariant, PTL

(* However many documents an interrupted save mixed into the database, the   *)
(* petition ids handed out after a restore are new.                          *)
THEOREM RestoredIdsAreFresh == PersistSpec => []NextIdIsFresh
<1>1. PersistInv => NextIdIsFresh
  BY DEF PersistInv
<1> QED
  BY <1>1, PersistInvariant, PTL

-----------------------------------------------------------------------------
(* Databases are equal if their collections are. *)
LEMMA SameDatabase ==
    ASSUME NEW d \in Database, NEW e \in Database,
           d.games = e.games, d.resources = e.resources, d.active_petitions = e.active_petitions,
           d.petition_counts = e.petition_counts, d.current_petition = e.current_petition
    PROVE  d = e
BY DEF Database

LEMMA CompletedSaveExact == PersistInv => CompletedSaveIsExact
<1> SUFFICES ASSUME PersistInv, Saving, writing = 5, Left(5) = {}
             PROVE  db = Documents
  BY DEF CompletedSaveIsExact
<1>1. db.current_petition = Documents.current_petition
  BY CollectionComplete, CollectionNames
<1>2. /\ db.games = Documents.games /\ db.resources = Documents.resources
      /\ db.active_petitions = Documents.active_petitions
      /\ db.petition_counts = Documents.petition_counts
  BY DEF PersistInv, SaveProgress
<1>3. db \in Database /\ Documents \in Database
  BY DocumentsType DEF PersistInv, DatabaseOK
<1> QED
  BY <1>1, <1>2, <1>3, SameDatabase

(* A save that completes leaves exactly the state it was called in, whatever *)
(* an interrupted save left in the collections before.                       *)
THEOREM SavesAreExact == PersistSpec => []CompletedSaveIsExact
BY CompletedSaveExact, PersistInvariant, PTL

-----------------------------------------------------------------------------
(* What a restore gets out of a database. *)
LEMMA ContentsByCollection ==
    ASSUME NEW d \in Database
    PROVE  Contents(d) = [games            |-> d.games,
                          resources        |-> d.resources,
                          active_petitions |-> Cores(d.active_petitions),
                          petition_counts  |-> d.petition_counts,
                          current_petition |-> Cores(d.current_petition)]
<1> DEFINE active == Cores(d.active_petitions)
           offer == Cores(d.current_petition)
<1>1. Contents(d) = [d EXCEPT !.active_petitions = active, !.current_petition = offer]
  <2>1. {[id |-> x.id, type |-> x.type, ticks |-> x.ticks] : x \in d.active_petitions} = active
    BY DEF Cores, Core
  <2>2. {[id |-> x.id, type |-> x.type, ticks |-> x.ticks] : x \in d.current_petition} = offer
    BY DEF Cores, Core
  <2> HIDE DEF active, offer
  <2>3. [d EXCEPT !.active_petitions = active].current_petition = d.current_petition
    BY DEF Database
  <2> QED
    BY <2>1, <2>2, <2>3 DEF Contents
<1> HIDE DEF active, offer
<1>2. [d EXCEPT !.active_petitions = active, !.current_petition = offer]
        = [games            |-> d.games,
           resources        |-> d.resources,
           active_petitions |-> active,
           petition_counts  |-> d.petition_counts,
           current_petition |-> offer]
  <2>1. d = [games            |-> d.games,
             resources        |-> d.resources,
             active_petitions |-> d.active_petitions,
             petition_counts  |-> d.petition_counts,
             current_petition |-> d.current_petition]
    BY DEF Database
  <2> DEFINE e == [d EXCEPT !.active_petitions = active]
  <2>2. e = [games            |-> d.games,
             resources        |-> d.resources,
             active_petitions |-> active,
             petition_counts  |-> d.petition_counts,
             current_petition |-> d.current_petition]
    BY <2>1
  <2> HIDE DEF e
  <2>3. [e EXCEPT !.current_petition = offer]
          = [games            |-> d.games,
             resources        |-> d.resources,
             active_petitions |-> active,
             petition_counts  |-> d.petition_counts,
             current_petition |-> offer]
    BY <2>2
  <2> QED
    BY <2>3 DEF e
<1> QED
  BY <1>1, <1>2 DEF active, offer

LEMMA DocumentsAreDatabase == PersistTypeOK => Documents \in Database
BY DocumentsType

LEMMA NextDocumentsAreDatabase == (PersistTypeOK => Documents \in Database)'
BY DocumentsAreDatabase, PTL

LEMMA DocumentCore ==
    ASSUME NEW p
    PROVE  Core(PetitionDocument(p)) = Core(p)
BY DEF Core, PetitionDocument

LEMMA RestoreOfferExact ==
    ASSUME PersistInv, PersistInv', IsWhole, RestoreOffer
    PROVE  Contents(Documents') = Contents(db)
<1>1. PICK d \in db.current_petition :
        currentPetition' = NewPetition(lastRef + 1, d.id, d.type, d.ticks)
  BY DEF RestoreOffer, RestoreCurrentPetition
<1>2. /\ pc = "restorePetitions" /\ toRestore = {}
      /\ UNCHANGED <<underConstruction, value, delta, buildings>>
  BY DEF RestoreOffer, RestoreCurrentPetition, resourceVars
<1>3. db \in Database /\ Documents' \in Database
  BY NextDocumentsAreDatabase DEF PersistInv, DatabaseOK
<1>4. Documents'.games = db.games
  BY <1>2, <1>3 DEF PersistInv, RestoreProgress, Documents, Database
<1>5. Documents'.resources = db.resources
  <2>1. Documents'.resources =
          {[type |-> r, amount |-> value[r], change |-> delta[r]] : r \in ResourceTypes}
    BY <1>2 DEF Documents
  <2>2. \A e \in db.resources :
          /\ e.type \in ResourceTypes
          /\ e = [type |-> e.type, amount |-> value[e.type], change |-> delta[e.type]]
    BY <1>2, <1>3 DEF PersistInv, RestoreProgress, Database, ResourceDocument
  <2>3. \A r \in ResourceTypes : \E e \in db.resources : e.type = r
    BY DEF IsWhole, StoredFor
  <2> QED
    BY <2>1, <2>2, <2>3
<1>6. Documents'.petition_counts = db.petition_counts
  <2>1. Documents'.petition_counts = {[type |-> b, count |-> buildings[b]] : b \in BuildingTypes}
    BY <1>2 DEF Documents
  <2>2. \A e \in db.petition_counts :
          e.type \in BuildingTypes /\ e = [type |-> e.type, count |-> buildings[e.type]]
    BY <1>2, <1>3 DEF PersistInv, RestoreProgress, Database, CountDocument
  <2>3. \A b \in BuildingTypes : \E e \in db.petition_counts : e.type = b
    BY DEF IsWhole, StoredFor
  <2> QED
    BY <2>1, <2>2, <2>3
<1>7. Cores(Documents'.active_petitions) = Cores(db.active_petitions)
  <2>1. Documents'.active_petitions = {PetitionDocument(p) : p \in underConstruction}
    BY <1>2 DEF Documents
  <2>2. Cores(db.active_petitions) = Cores(underConstruction) \union Cores({})
    BY <1>2 DEF PersistInv, RestoreProgress
  <2>3. \A p \in underConstruction : Core(PetitionDocument(p)) = Core(p)
    BY DocumentCore
  <2>4. Cores({PetitionDocument(p) : p \in underConstruction}) = Cores(underConstruction)
    BY <2>3 DEF Cores
  <2>5. Cores({}) = {}
    BY DEF Cores
  <2> QED
    BY <2>1, <2>2, <2>4, <2>5
<1>8. Cores(Documents'.current_petition) = Cores(db.current_petition)
  <2>1. Documents'.current_petition = {PetitionDocument(currentPetition')}
    BY DEF Documents
  <2>2. db.current_petition = {d}
    BY DEF PersistInv, DatabaseOK
  <2>3. Core(PetitionDocument(currentPetition')) = Core(d)
    BY <1>1, DocumentCore, RestoredCore
  <2> QED
    BY <2>1, <2>2, <2>3 DEF Cores
<1> QED
  BY <1>3, <1>4, <1>5, <1>6, <1>7, <1>8, ContentsByCollection

LEMMA RestoreExact ==
    ASSUME PersistInv, PersistInv', [PersistNext]_allVars, Restored, IsWhole
    PROVE  Contents(Documents') = Contents(db)
<1>1. pc = "restorePetitions" /\ pc' = "poll"
  BY DEF Restored
<1>2. RestoreOffer \/ KeepConstructedOffer
  BY <1>1 DEF PersistNext, Main, Startup, LoadFinds, LoadFindsNothing, LoadFails, RestoreManagers,
     RestoreActivePetition, GameStep, TickStep, PollNothing, NoResponse, AcceptCurrent,
     AcceptTooExpensive, RejectCurrent, PollAction, BuildPetitions, ApplyCompleted, FinishTick,
     UpsertGame, ClearCollection, InsertDocument, SaveDone, SaveFails, Saving, Listen, Crash,
     Restart, Boot, allVars, vars, gameVars
<1>3. RestoreOffer
  BY <1>2 DEF KeepConstructedOffer, IsWhole
<1> QED
  BY <1>3, RestoreOfferExact

(* A restore is the inverse of a save: what it builds from a database with   *)
(* nothing missing is the game whose save is that database, whichever saves  *)
(* and crashes produced it.                                                  *)
THEOREM RestoreIsInverse == PersistSpec => RestoreInvertsSave
<1>1. PersistInv /\ PersistInv' /\ [PersistNext]_allVars =>
        [Restored /\ IsWhole => Contents(Documents') = Contents(db)]_allVars
  BY RestoreExact
<1> QED
  BY <1>1, PersistInvariant, PTL DEF PersistSpec, RestoreInvertsSave

-----------------------------------------------------------------------------
(* SaveHistory: while no later save has touched the collections, they are    *)
(* those of the last completed one.                                          *)
LastSaveKept ==
    Intact => /\ IsWhole
              /\ db.games = {"local_game"}
              /\ lastSave.contents = Contents(db)
              /\ writing <= 1

HistoryInv == PersistInv /\ LastSaveKept

LEMMA SnapshotKept ==
    ASSUME PersistInv, SaveDone, lastSave' = Snapshot
    PROVE  LastSaveKept'
<1>1. db = Documents /\ db' = db /\ writing' = 0
  BY CompletedSaveExact DEF SaveDone, CompletedSaveIsExact
<1>2. lastSave'.contents = Contents(db')
  BY <1>1 DEF Snapshot
<1>3. \A r \in ResourceTypes : \E d \in db'.resources : d.type = r
  <2> SUFFICES ASSUME NEW r \in ResourceTypes PROVE \E d \in db'.resources : d.type = r
    OBVIOUS
  <2> DEFINE d == [type |-> r, amount |-> value[r], change |-> delta[r]]
  <2>1. d \in db'.resources /\ d.type = r
    BY <1>1 DEF Documents
  <2> QED
    BY <2>1
<1>4. \A b \in BuildingTypes : \E d \in db'.petition_counts : d.type = b
  <2> SUFFICES ASSUME NEW b \in BuildingTypes PROVE \E d \in db'.petition_counts : d.type = b
    OBVIOUS
  <2> DEFINE d == [type |-> b, count |-> buildings[b]]
  <2>1. d \in db'.petition_counts /\ d.type = b
    BY <1>1 DEF Documents
  <2> QED
    BY <2>1
<1>5. db'.current_petition # {} /\ db'.games = {"local_game"}
  BY <1>1 DEF Documents
<1>6. IsWhole'
  BY <1>3, <1>4, <1>5 DEF IsWhole, StoredFor
<1> QED
  BY <1>1, <1>2, <1>5, <1>6 DEF LastSaveKept

LEMMA DatabaseKept ==
    ASSUME LastSaveKept, Intact, UNCHANGED <<db, lastSave>>, writing' <= 1
    PROVE  LastSaveKept'
<1>1. IsWhole'
  BY DEF LastSaveKept, IsWhole, StoredFor
<1>2. Contents(db') = Contents(db)
  OBVIOUS
<1> QED
  BY <1>1, <1>2 DEF LastSaveKept

LEMMA HistoryNextInv ==
    ASSUME HistoryInv, [HistoryNext]_<<allVars, lastSave>>
    PROVE  HistoryInv'
<1>1. PersistInv'
  BY PersistNextInv DEF HistoryInv, HistoryNext
<1>2. SUFFICES ASSUME Intact' PROVE LastSaveKept'
  BY <1>1 DEF HistoryInv, LastSaveKept
<1>3. CASE UNCHANGED <<allVars, lastSave>>
  <2>1. UNCHANGED <<db, writing, lastSave>>
    BY <1>3 DEF allVars, persistVars
  <2> QED
    BY <1>2, <2>1, DatabaseKept DEF HistoryInv, LastSaveKept, Intact, NoSave
<1>4. CASE SaveDone /\ lastSave' = Snapshot
  BY <1>4, SnapshotKept DEF HistoryInv
<1>5. CASE PersistNext /\ ~SaveDone /\ ~ClearCollection /\ lastSave' = lastSave
  <2>1. Intact /\ LastSaveKept
    BY <1>2, <1>5 DEF Intact, NoSave, HistoryInv
  <2>2. CASE UpsertGame
    <3>1. db' = db
      <4>1. db' = [db EXCEPT !.games = {"local_game"}] /\ db \in Database
        BY <2>2 DEF UpsertGame, HistoryInv, PersistInv, DatabaseOK
      <4> QED
        BY <2>1, <4>1 DEF LastSaveKept, Database
    <3>2. writing' = 1
      BY <2>2 DEF UpsertGame
    <3> QED
      BY <1>5, <2>1, <3>1, <3>2, DatabaseKept
  <2>3. CASE InsertDocument
    BY <2>1, <2>3 DEF InsertDocument, LastSaveKept
  <2>4. CASE ~UpsertGame /\ ~InsertDocument
    <3>1. db' = db /\ writing' \in {writing, 0}
      BY <1>5, <2>4 DEF PersistNext, Main, Startup, LoadFinds, LoadFindsNothing, LoadFails,
         RestoreManagers, RestoreActivePetition, RestoreOffer, KeepConstructedOffer, GameStep,
         SaveFails, Listen, Crash, Restart, Boot, persistVars
    <3> QED
      BY <1>5, <2>1, <3>1, DatabaseKept DEF LastSaveKept
  <2> QED
    BY <2>2, <2>3, <2>4
<1>6. CASE ClearCollection /\ ~SaveDone
  BY <1>2, <1>6, <1>3 DEF HistoryNext, Intact, NoSave
<1> QED
  BY <1>3, <1>4, <1>5, <1>6 DEF HistoryNext

(* What is known of the database and of the last completed save holds through *)
(* every crash and restart.                                                   *)
THEOREM HistoryInvariant == HistorySpec => []HistoryInv
<1>1. HistoryInit => HistoryInv
  BY PersistInitInv DEF HistoryInit, HistoryInv, LastSaveKept, Intact
<1>2. HistoryInv /\ [HistoryNext]_<<allVars, lastSave>> => HistoryInv'
  BY HistoryNextInv
<1> QED
  BY <1>1, <1>2, PTL DEF HistorySpec

(* A game resumed from a database that no later save has touched is the one  *)
(* the last completed save was given.                                        *)
THEOREM LastSaveIsResumed == HistorySpec => ResumesTheLastSave
<1>1. HistoryInv /\ HistoryInv' /\ [HistoryNext]_<<allVars, lastSave>> =>
        [Restored /\ Intact => Contents(Documents') = lastSave.contents]_<<allVars, lastSave>>
  <2> SUFFICES ASSUME HistoryInv, HistoryInv', HistoryNext, Restored, Intact
               PROVE  Contents(Documents') = lastSave.contents
    BY DEF HistoryNext
  <2>1. IsWhole /\ lastSave.contents = Contents(db)
    BY DEF HistoryInv, LastSaveKept
  <2> QED
    BY <2>1, RestoreExact DEF HistoryInv, HistoryNext
<1> QED
  BY <1>1, HistoryInvariant, PTL DEF HistorySpec, ResumesTheLastSave

-----------------------------------------------------------------------------
(* MongoGameRepository.cpp:34-95: every string that a save writes, a load    *)
(* reads as the type it was written for, so that no save makes a later start *)
(* fail and Persistence may keep the types themselves in its documents.      *)
THEOREM LoadReadsWhatSaveWrites ==
    /\ \A r \in ResourceTypes : ResourceTypeFromString(ResourceTypeString[r]) = {r}
    /\ \A b \in CityTypes : BuildingTypeFromString(BuildingTypeString[b]) = {b}
<1>1. ASSUME NEW r \in ResourceTypes
      PROVE  ResourceTypeFromString(ResourceTypeString[r]) = {r}
  BY DEF ResourceTypeFromString, ResourceTypeString, ResourceTypes
<1>2. ASSUME NEW b \in CityTypes
      PROVE  BuildingTypeFromString(BuildingTypeString[b]) = {b}
  BY SMTT(60) DEF BuildingTypeFromString, BuildingTypeString, CityTypes, BuildingPool, Catalog
<1>. QED
  BY <1>1, <1>2
=============================================================================
