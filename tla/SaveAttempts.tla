----------------------------- MODULE SaveAttempts -----------------------------
(***************************************************************************)
(* Persistence with a history variable: every game a save was ever begun   *)
(* with, whether or not that save came to its end.                         *)
(***************************************************************************)
EXTENDS Persistence

VARIABLE attempts

AttemptsInit == PersistInit /\ attempts = {}

AttemptsNext ==
    /\ PersistNext
    /\ attempts' = IF UpsertGame THEN attempts \union {Contents(Documents)} ELSE attempts

AttemptsSpec == AttemptsInit /\ [][AttemptsNext]_<<allVars, attempts>>

(* main.cpp:28, "so the game continues exactly where it was saved": the      *)
(* resumed game is one that some save was given.                             *)
ResumesOneSave ==
    [][Restored => Contents(Documents') \in attempts]_<<allVars, attempts>>
=============================================================================
