--------------------------- MODULE MCResultsFile ----------------------------
(* Instances of ResultsFile for TLC. *)
EXTENDS ResultsFile

CONSTANTS j1, j2, j3

=============================================================================
