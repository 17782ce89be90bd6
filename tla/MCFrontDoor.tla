---------------------------- MODULE MCFrontDoor -----------------------------
(* Instances of FrontDoor for TLC. *)
EXTENDS FrontDoor

CONSTANTS upload, run
=============================================================================
