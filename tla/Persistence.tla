----------------------------- MODULE Persistence -----------------------------
(***************************************************************************)
(* The life of the process around the game loop: main.cpp's startup, its   *)
(* restoreGame, and MongoGameRepository's saveGame and loadGame, with the  *)
(* database outliving the process.                                         *)
(*                                                                         *)
(* saveGame is a sequence of separate database operations with no          *)
(* transaction around them: it replaces the games document, then clears    *)
(* and refills one collection after the other.  Between any two of them    *)
(* the process may die, or MongoDB may fail and the rest be skipped.  A    *)
(* collection is a set of documents; "oid" is the identity MongoDB gives   *)
(* each of them (its _id), so equal petitions stay separate documents.     *)
(***************************************************************************)
EXTENDS GameService, Sequences

CONSTANTS MaxRestarts       \* bound of the model: starts of the process after the first

ASSUME MaxRestartsAssumption == MaxRestarts \in Nat

VARIABLES
    db,             \* the database: a set of documents per collection
    writing,        \* how far saveGame is: the index of the collection it has
                    \* cleared last, 0 before it starts
    toRestore,      \* active_petitions that restoreGame has not recreated yet
    restarts

persistVars == <<db, writing, toRestore, restarts>>
allVars == <<vars, persistVars>>

(* The order in which saveGame visits the collections. *)
Collections == <<"games", "resources", "active_petitions", "petition_counts", "current_petition">>

EmptyDatabase == [c \in {Collections[k] : k \in 1 .. 5} |-> {}]

PetitionDocument(p) == [oid |-> p.ref, id |-> p.id, type |-> p.type, ticks |-> p.ticks]

(* The documents a save of the present state consists of. *)
Documents ==
    [games            |-> {"local_game"},
     resources        |-> {[type |-> r, amount |-> value[r], change |-> delta[r]] : r \in ResourceTypes},
     active_petitions |-> {PetitionDocument(p) : p \in underConstruction},
     petition_counts  |-> {[type |-> b, count |-> buildings[b]] : b \in BuildingTypes},
     current_petition |-> {PetitionDocument(currentPetition)}]

-----------------------------------------------------------------------------
(* saveGame.  It runs inside a tick, or once at startup for a new game. *)
Saving == pc \in {"save", "firstSave"}

Left(k) == Documents[Collections[k]] \ db[Collections[k]]

(* Array order for the resources, vector order for the petitions (which is   *)
(* the order they were created in); the counts come out of a hash map.       *)
ResourceIndex == [WATER |-> 0, ENERGY |-> 1, MONEY |-> 2, POPULATION |-> 3, CO2 |-> 4]

InsertOrder(c, d) ==
    CASE c = "resources"        -> ResourceIndex[d.type]
      [] c = "active_petitions" -> d.oid
      [] OTHER                  -> 0

(* replace_one with upsert on games. *)
UpsertGame ==
    /\ Saving /\ writing = 0
    /\ db' = [db EXCEPT !.games = {"local_game"}]
    /\ writing' = 1
    /\ UNCHANGED <<vars, toRestore, restarts>>

(* Mutation: the old documents are not deleted. *)
KeepCollection ==
    /\ Saving /\ writing \in 1 .. 4 /\ Left(writing) = {}
    /\ writing' = writing + 1
    /\ UNCHANGED <<vars, db, toRestore, restarts>>

(* delete_many on the next collection, once the one before is written. *)
ClearCollection ==
    /\ Saving /\ writing \in 1 .. 4 /\ Left(writing) = {}
    /\ db' = [db EXCEPT ![Collections[writing + 1]] = {}]
    /\ writing' = writing + 1
    /\ UNCHANGED <<vars, toRestore, restarts>>

InsertDocument ==
    /\ Saving /\ writing \in 2 .. 5
    /\ LET c == Collections[writing]
       IN  \E d \in Left(writing) :
             /\ \A e \in Left(writing) : InsertOrder(c, d) <= InsertOrder(c, e)
             /\ db' = [db EXCEPT ![c] = @ \union {d}]
    /\ UNCHANGED <<vars, writing, toRestore, restarts>>

StartGame == phase' = "run" /\ pc' = "poll"

SaveDone ==
    /\ Saving /\ writing = 5 /\ Left(5) = {}
    /\ writing' = 0
    /\ IF pc = "save" THEN pc' = "build" /\ UNCHANGED phase ELSE StartGame
    /\ UNCHANGED <<currentPetition, underConstruction, completedConstructions, nextPetitionId,
                   lastRef, resourceVars, buildings, nextPopulationGoal, pendingAction,
                   db, toRestore, restarts>>

(* Mutation: a save that fails is tried again. *)
SaveRetried ==
    /\ Saving
    /\ writing' = 0
    /\ UNCHANGED <<vars, db, toRestore, restarts>>

(* PersistenceException: readPlayerInput logs it and the tick goes on, main  *)
(* returns 1 if it was the initial save.                                     *)
SaveFails ==
    /\ Saving
    /\ writing' = 0
    /\ pc' = IF pc = "save" THEN "build" ELSE "down"
    /\ UNCHANGED <<petitionVars, resourceVars, buildings, nextPopulationGoal, pendingAction,
                   db, toRestore, restarts>>

-----------------------------------------------------------------------------
(* Startup: construct the managers, load, then restore or save a new game.  *)
LoadFinds ==
    /\ pc = "load" /\ db.games # {}
    /\ pc' = "restore"
    /\ UNCHANGED <<petitionVars, resourceVars, buildings, nextPopulationGoal, pendingAction, persistVars>>

LoadFindsNothing ==
    /\ pc = "load" /\ db.games = {}
    /\ pc' = "firstSave"
    /\ UNCHANGED <<petitionVars, resourceVars, buildings, nextPopulationGoal, pendingAction, persistVars>>

(* loadGame throws PersistenceException: main returns 1. *)
LoadFails ==
    /\ pc = "load"
    /\ pc' = "down"
    /\ UNCHANGED <<petitionVars, resourceVars, buildings, nextPopulationGoal, pendingAction, persistVars>>

(* restoreGame: a resource or a building type without a document keeps what  *)
(* the constructor gave it.                                                  *)
StoredFor(c, t) == {d \in db[c] : d.type = t}

(* Mutation: a resource without a document is taken to be used up. *)
AmountOrZero(r) ==
    IF StoredFor("resources", r) = {} THEN 0
    ELSE Clamp((CHOOSE d \in StoredFor("resources", r) : TRUE).amount)

(* Mutation: the saved amount is added to the constructor's. *)
AmountOnTop(r) ==
    IF StoredFor("resources", r) = {} THEN value[r]
    ELSE Clamp(value[r] + (CHOOSE d \in StoredFor("resources", r) : TRUE).amount)

RestoredAmount(r) ==
    IF StoredFor("resources", r) = {} THEN value[r]
    ELSE Clamp(value[r] + ((CHOOSE d \in StoredFor("resources", r) : TRUE).amount - value[r]))

RestoreManagers ==
    /\ pc = "restore"
    /\ value' = [r \in ResourceTypes |-> RestoredAmount(r)]
    /\ delta' = [r \in ResourceTypes |->
                   IF StoredFor("resources", r) = {} THEN delta[r]
                   ELSE (CHOOSE d \in StoredFor("resources", r) : TRUE).change]
    /\ buildings' = [b \in BuildingTypes |->
                   IF StoredFor("petition_counts", b) = {} THEN buildings[b]
                   ELSE buildings[b] + (CHOOSE d \in StoredFor("petition_counts", b) : TRUE).count]
    /\ toRestore' = db.active_petitions
    /\ pc' = "restorePetitions"
    /\ UNCHANGED <<petitionVars, nextPopulationGoal, pendingAction,
                   db, writing, restarts>>

(* Mutation: setTicksToComplete forgotten, construction starts over. *)
RestoreActiveFromStart ==
    /\ pc = "restorePetitions"
    /\ \E d \in toRestore :
         /\ RestoreUnderConstruction(d.id, d.type, BuildTicks[d.type])
         /\ toRestore' = toRestore \ {d}
    /\ UNCHANGED <<phase, resourceVars, pc, buildings, nextPopulationGoal, pendingAction,
                   db, writing, restarts>>

(* The query asks for no order, so the petitions come in any. *)
RestoreActivePetition ==
    /\ pc = "restorePetitions"
    /\ \E d \in toRestore :
         /\ RestoreUnderConstruction(d.id, d.type, d.ticks)
         /\ toRestore' = toRestore \ {d}
    /\ UNCHANGED <<phase, resourceVars, pc, buildings, nextPopulationGoal, pendingAction,
                   db, writing, restarts>>

RestoreOffer ==
    /\ pc = "restorePetitions" /\ toRestore = {}
    /\ \E d \in db.current_petition : RestoreCurrentPetition(d.id, d.type, d.ticks)
    /\ StartGame
    /\ UNCHANGED <<resourceVars, buildings, nextPopulationGoal, pendingAction, persistVars>>

(* No current_petition document: the constructor's petition stays. *)
KeepConstructedOffer ==
    /\ pc = "restorePetitions" /\ toRestore = {} /\ db.current_petition = {}
    /\ StartGame
    /\ UNCHANGED <<currentPetition, underConstruction, completedConstructions, nextPetitionId,
                   lastRef, resourceVars, buildings, nextPopulationGoal, pendingAction, persistVars>>

Startup ==
    \/ LoadFinds
    \/ LoadFindsNothing
    \/ RestoreManagers
    \/ RestoreActivePetition
    \/ RestoreOffer
    \/ KeepConstructedOffer

-----------------------------------------------------------------------------
(* A new process: everything is constructed anew, nextPopulationGoal too,    *)
(* and nothing of the old one survives but the database.                     *)
Boot ==
    /\ restarts < MaxRestarts
    /\ restarts' = restarts + 1
    /\ \E b \in BuildingTypes : currentPetition' = NewPetition(1, 1, b, BuildTicks[b])
    /\ underConstruction' = {} /\ completedConstructions' = {}
    /\ nextPetitionId' = 2 /\ lastRef' = 1 /\ phase' = "restore"
    /\ value' = InitValue /\ delta' = InitDelta
    /\ buildings' = [b \in BuildingTypes |-> 0]
    /\ nextPopulationGoal' = InitGoal
    /\ pendingAction' = NoAction
    /\ writing' = 0 /\ toRestore' = {}
    /\ pc' = "load"
    /\ UNCHANGED db

(* The process may die anywhere, and is started again. *)
Crash == pc \notin {"down", "over"} /\ Boot

(* Another start after a failed one, or after a game that was lost. *)
Restart == pc \in {"down", "over"} /\ Boot

-----------------------------------------------------------------------------
PersistInit ==
    /\ Construct /\ phase = "restore"
    /\ ResourceInit
    /\ pc = "load"
    /\ buildings = [b \in BuildingTypes |-> 0]
    /\ nextPopulationGoal = InitGoal
    /\ pendingAction = NoAction
    /\ db = EmptyDatabase
    /\ writing = 0
    /\ toRestore = {}
    /\ restarts = 0

GameStep == TickStep /\ UNCHANGED persistVars

(* Only readPlayerInput looks at the mailbox, and it sees the last action    *)
(* stored there: the listener is let run just before it, once.               *)
Listen ==
    /\ pc = "poll" /\ pendingAction = NoAction
    /\ ReceiveAction
    /\ UNCHANGED persistVars

Main ==
    \/ Startup
    \/ GameStep
    \/ UpsertGame
    \/ ClearCollection
    \/ InsertDocument
    \/ SaveDone

PersistNext ==
    \/ Main
    \/ Listen
    \/ SaveFails
    \/ LoadFails
    \/ Crash
    \/ Restart

PersistSpec == PersistInit /\ [][PersistNext]_allVars

(* main never waits for anything but the database. *)
FairPersistSpec == PersistSpec /\ WF_allVars(Main)

-----------------------------------------------------------------------------
(* Documents without their identities, which a restore does not keep. *)
Contents(documents) ==
    [documents EXCEPT
        !.active_petitions = {[id |-> d.id, type |-> d.type, ticks |-> d.ticks] : d \in @},
        !.current_petition = {[id |-> d.id, type |-> d.type, ticks |-> d.ticks] : d \in @}]

IsWhole ==
    /\ \A r \in ResourceTypes : StoredFor("resources", r) # {}
    /\ \A b \in BuildingTypes : StoredFor("petition_counts", b) # {}
    /\ db.current_petition # {}

Restored == pc = "restorePetitions" /\ pc' = "poll"

PersistTypeOK ==
    /\ PetitionTypeOK
    /\ ResourceTypeOK
    /\ pc \in {"load", "restore", "restorePetitions", "firstSave",
               "poll", "save", "build", "apply", "over", "down"}
    /\ buildings \in [BuildingTypes -> Nat]
    /\ nextPopulationGoal \in Nat
    /\ pendingAction \in UIAction \union {NoAction}
    /\ DOMAIN db = DOMAIN EmptyDatabase
    /\ writing \in 0 .. 5
    /\ restarts \in 0 .. MaxRestarts

(* A restore is the inverse of a save: the state it builds from a database   *)
(* with nothing missing is the one whose save is that database, whichever    *)
(* saves and crashes produced it.                                            *)
RestoreInvertsSave ==
    [][Restored /\ IsWhole => Contents(Documents') = Contents(db)]_allVars

(* A save that completes leaves exactly the state it was called in, whatever *)
(* an interrupted save left in the collections before.                       *)
CompletedSaveIsExact == Saving /\ writing = 5 /\ Left(5) = {} => db = Documents

(* A game that has been resumed is never already lost, though its resources  *)
(* may stem from two different saves or from none.                           *)
NeverResumesLostGame == pc = "poll" => ~GameOver(value)

(* What is under construction does not stay so for ever while the game       *)
(* lasts: not for a database that fails whenever a save is asked for, and    *)
(* not because a restart found it half done, in whatever save.               *)
QueuedIsBuilt ==
    \A i \in 1 .. MaxPetitionId :
        (\E p \in underConstruction : p.id = i)
            ~> (pc = "over" \/ ~\E p \in underConstruction : p.id = i)
=============================================================================
