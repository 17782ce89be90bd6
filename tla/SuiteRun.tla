------------------------------ MODULE SuiteRun ------------------------------
(***************************************************************************)
(* What a run of a test suite promises to whoever asked for it, whichever  *)
(* of the two implementations carries it out (the Python stdio server or   *)
(* the TypeScript Worker):                                                 *)
(*                                                                         *)
(*   - it is started once, and ends once, as "complete" or as "error";     *)
(*   - the end is final: neither the phase nor the report changes again;   *)
(*   - a report exists exactly when the run is complete;                   *)
(*   - the report has one entry per case, and it is earned: a case that    *)
(*     validates logs was really judged against them, and a case is        *)
(*     reported as passed only if every check it asked for passed.         *)
(***************************************************************************)
EXTENDS Integers

CONSTANTS
  NCases,       \* the number of cases the suite parser produced
  LogCases,     \* the cases with validate_logs = yes
  NoReport      \* the report of a run that has none (null / None)

VARIABLES
  phase,        \* "idle", "active", "complete" or "error"
  report        \* NoReport, or one entry per case

absVars == <<phase, report>>

\* How the response assertion of a case ended: "error" stands for a request
\* that produced no response at all (response_assert is null).
ResponseOutcome == {"error", "failed", "passed"}

\* How the log validation of a case ended: "none" while it was not judged,
\* "nosnapshot" when no log could be downloaded for its source.
LogOutcome == {"none", "nosnapshot", "failed", "passed"}

Entry == [response : ResponseOutcome, log : LogOutcome, passed : BOOLEAN]

\* The entry of case i tells the truth about the checks case i asked for.
Earned(i, e) ==
  /\ (i \in LogCases) <=> (e.log # "none")
  /\ e.passed <=> /\ e.response = "passed"
                  /\ i \in LogCases => e.log = "passed"

Report == {r \in [1..NCases -> Entry] : \A i \in 1..NCases : Earned(i, r[i])}

-----------------------------------------------------------------------------

AbsInit ==
  /\ phase = "idle"
  /\ report = NoReport

Begin ==
  /\ phase = "idle"
  /\ phase' = "active"
  /\ UNCHANGED report

Complete ==
  /\ phase = "active"
  /\ phase' = "complete"
  /\ report' \in Report

Abort ==
  /\ phase = "active"
  /\ phase' = "error"
  /\ UNCHANGED report

AbsNext == Begin \/ Complete \/ Abort

AbsSafety == AbsInit /\ [][AbsNext]_absVars

=============================================================================
