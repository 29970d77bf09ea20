---------------------------- MODULE MCBlockQueue ----------------------------
(* The TLC instance of BlockQueue; BlockQueue.cfg gives the constants values. *)
EXTENDS BlockQueue
=============================================================================
