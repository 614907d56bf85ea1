----------------------------- MODULE MC_Restart -----------------------------
(* Small instances of Restart: its bounds are in the configuration.         *)
EXTENDS Restart
=============================================================================
