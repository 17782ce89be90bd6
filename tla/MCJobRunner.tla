---------------------------- MODULE MCJobRunner -----------------------------
(* An instance of JobRunner for TLC: a case of either kind of log source.   *)
EXTENDS JobRunner

CONSTANTS anypoint, file

\* The Worker can fetch the log of the first source only; the second case
\* logs under the id of its own header, beside the recorded one.
TwoSources == <<anypoint, file>>
OneExpected == <<{"done"}, {"done"}>>

DoneToken == {"done"}
None == {}
Second == {2}
Anypoint == {anypoint}
=============================================================================
