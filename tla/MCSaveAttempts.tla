--------------------------- MODULE MCSaveAttempts ---------------------------
(* The small city, with a save cut short and one restart. *)
EXTENDS SaveAttempts, MCSmallCity
=============================================================================
