---------------------------- MODULE MCJobServer -----------------------------
(* Instances of JobServer for TLC. *)
EXTENDS JobServer, TLC

CONSTANTS j1, j2

\* A suite that waits for logs next to one that does not; for the short one
\* the clock runs past the estimate, so the cap at 95% is reached.
LongAndShort == j1 :> 3 @@ j2 :> 1
=============================================================================
