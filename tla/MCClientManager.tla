-------------------------- MODULE MCClientManager --------------------------
(* The TLC instance of ClientManager: constants are in the cfg. *)
EXTENDS ClientManager
=============================================================================
