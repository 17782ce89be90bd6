--------------------------- MODULE MCAnypointLogs ---------------------------
(* Instances of AnypointLogs for TLC. *)
EXTENDS AnypointLogs

=============================================================================
