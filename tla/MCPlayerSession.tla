-------------------------- MODULE MCPlayerSession --------------------------
(* Two keys over two runs of the engine, so that a key may overtake or       *)
(* replace one before it, and a state of the first run may still be shown    *)
(* in the second.                                                            *)
EXTENDS PlayerSession
=============================================================================
