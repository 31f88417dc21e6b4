--------------------------- MODULE MCDeadMansSwitch ---------------------------
(* Instances of DeadMansSwitch for TLC: the constants are in the .cfg files. *)
EXTENDS DeadMansSwitch
=============================================================================
