----------------------------- MODULE SaveHistory -----------------------------
(***************************************************************************)
(* Persistence with a history variable that says what a resumed game ought *)
(* to be: the game that the last completed save was given, while no later  *)
(* save has touched the collections.  The engine thread is the one that    *)
(* saves, so the game does not change between a save's begin and its end.  *)
(***************************************************************************)
EXTENDS Persistence

VARIABLE lastSave

NoSave == [contents |-> Contents(EmptyDatabase), goal |-> InitGoal]
Snapshot == [contents |-> Contents(Documents), goal |-> nextPopulationGoal]

Intact == lastSave # NoSave

HistoryInit == PersistInit /\ lastSave = NoSave

HistoryNext ==
    /\ PersistNext
    /\ lastSave' = IF SaveDone THEN Snapshot ELSE IF ClearCollection THEN NoSave ELSE lastSave

HistorySpec == HistoryInit /\ [][HistoryNext]_<<allVars, lastSave>>

-----------------------------------------------------------------------------
(* A game resumed from a database no later save has touched is the one the   *)
(* last completed save was given: resources, deltas, buildings, every        *)
(* construction with its remaining ticks, and the petition on offer.         *)
ResumesTheLastSave ==
    [][Restored /\ Intact => Contents(Documents') = lastSave.contents]_<<allVars, lastSave>>

(* main.cpp:28, "so the game continues exactly where it was saved": the      *)
(* population goal is where it was when the game was saved, so that          *)
(* milestones already taken are not taken again.                             *)
ResumesWithItsGoal ==
    [][Restored /\ Intact => nextPopulationGoal' = lastSave.goal]_<<allVars, lastSave>>
=============================================================================
