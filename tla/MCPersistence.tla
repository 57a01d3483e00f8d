--------------------------- MODULE MCPersistence ---------------------------
(* The small city, saved, resumed and saved again: two restarts. *)
EXTENDS SaveHistory, MCSmallCity
=============================================================================
