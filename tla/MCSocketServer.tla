-------------------------- MODULE MCSocketServer --------------------------
(* The UI may quit and come back, and send three messages in all. *)
EXTENDS SocketServer
=============================================================================
