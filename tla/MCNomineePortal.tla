---------------------------- MODULE MCNomineePortal ----------------------------
(* Instances of NomineePortal for TLC: the constants are in the .cfg files. *)
EXTENDS NomineePortal
=============================================================================
