---------------------------- MODULE ResultsFile -----------------------------
(***************************************************************************)
(* The results workbook next to a suite, and the runs that record into it  *)
(* (run_and_record in src/api_log_test_mcp/tools/orchestrate.py,           *)
(* write_results and write_evidence_tabs in tools/results_writer.py).      *)
(*                                                                         *)
(* A recording copies the suite if there is no workbook yet, then twice -  *)
(* once for its RESULTS block, once for the evidence tabs - takes a        *)
(* backup, reads the case rows, loads the workbook, saves it changed,      *)
(* reads the case rows again, and either drops the backup or puts it back. *)
(* Nothing locks the file.  A write first truncates it: what a full disk   *)
(* or a killed process leaves between the two is no workbook.              *)
(***************************************************************************)
EXTENDS Integers, FiniteSets, Functions

CONSTANTS
  Jobs,         \* runs whose suites share this results path
  WithEvidence, \* the runs that have a case, hence an evidence tab, to write
  Absent,       \* no file
  Torn,         \* a file that is no workbook
  NoOne,        \* no run
  Overlap,      \* whether a recording may begin while another is under way
  MayAlter,     \* whether a save may alter the case rows (the known glitch)
  MaxNow,       \* bound: the last second of the clock
  MaxFailures,  \* bound: file operations that raise
  MaxCrashes    \* bound: how often the process is killed

ASSUME ResultsShape ==
  /\ WithEvidence \subseteq Jobs
  /\ NoOne \notin Jobs
  /\ Overlap \in BOOLEAN /\ MayAlter \in BOOLEAN
  /\ MaxNow \in Nat /\ MaxFailures \in Nat /\ MaxCrashes \in Nat

VARIABLES
  file,         \* Absent, Torn or a workbook
  backups,      \* name -> Torn or a workbook
  pc,           \* where the recording of a run is
  part,         \* "results" (write_results) or "evidence" (write_evidence_tabs)
  backup,       \* the name of the backup the current part took
  before,       \* the case rows it read first
  loaded,       \* the workbook it has in memory, or the backup it copies back
  now,          \* the clock backup names are made from, in seconds
  latest,       \* the run that began to record last
  recorded,     \* history: runs whose RESULTS block was written and verified
  failures,
  crashes

locals == <<part, backup, before, loaded>>
vars == <<file, backups, pc, locals, now, latest, recorded, failures, crashes>>

-----------------------------------------------------------------------------
(* Data *)

Workbook == [cases : {"intact", "altered"}, blocks : SUBSET Jobs,
             evidence : Jobs \cup {NoOne}]

ASSUME NoWorkbook == Absent # Torn /\ Absent \notin Workbook /\ Torn \notin Workbook

Seeded == [cases |-> "intact", blocks |-> {}, evidence |-> NoOne]

Part == {"results", "evidence"}
BackupName == (0..MaxNow) \X Part

Busy == {"checking", "seeding", "copying", "backing", "reading", "loading", "saving",
         "writing", "verifying", "restoring", "putting", "cleaning"}
Over == {"complete", "failed"}

\* _append_xlsx: the block goes below everything that is there.
WithBlock(j) == [loaded[j] EXCEPT !.blocks = @ \cup {j}]

\* _write_evidence_xlsx: one tab per case, in place of an older one.
WithTabs(j) == [loaded[j] EXCEPT !.evidence = j]

Changed(j) == IF part[j] = "results" THEN WithBlock(j) ELSE WithTabs(j)

\* What the save of it may leave in the file.
Saved(j) == {Changed(j)} \cup
            IF MayAlter THEN {[Changed(j) EXCEPT !.cases = "altered"]} ELSE {}

Quiet == \A j \in Jobs : pc[j] \notin Busy

-----------------------------------------------------------------------------

Init ==
  /\ file = Absent
  /\ backups = [b \in {} |-> Torn]
  /\ pc = [j \in Jobs |-> "running"]
  /\ part = [j \in Jobs |-> "results"]
  /\ backup = [j \in Jobs |-> <<0, "results">>]
  /\ before = [j \in Jobs |-> "intact"]
  /\ loaded = [j \in Jobs |-> Seeded]
  /\ now = 0 /\ latest = NoOne /\ recorded = {} /\ failures = 0 /\ crashes = 0

Goto(j, where) == pc' = [pc EXCEPT ![j] = where]

\* The run is over and its report is to be recorded.  One at a time, runs take
\* long enough for their backups to be named after different seconds.
Begin(j) ==
  /\ pc[j] = "running"
  /\ ~Overlap => Quiet /\ \A b \in DOMAIN backups : b[1] < now
  /\ Goto(j, "checking") /\ latest' = j
  /\ UNCHANGED <<file, backups, locals, now, recorded, failures, crashes>>

\* Fault: the workbook is copied from the suite every time.
CheckExistsIgnored(j) ==
  /\ pc[j] = "checking"
  /\ Goto(j, "seeding")
  /\ UNCHANGED <<file, backups, locals, now, latest, recorded, failures, crashes>>

CheckExists(j) ==
  /\ pc[j] = "checking"
  /\ Goto(j, IF file = Absent THEN "seeding" ELSE "backing")
  /\ UNCHANGED <<file, backups, locals, now, latest, recorded, failures, crashes>>

\* Opening a file for writing truncates it.
Truncate(j) ==
  /\ pc[j] \in {"seeding", "saving"}
  /\ file' = Torn
  /\ Goto(j, IF pc[j] = "seeding" THEN "copying" ELSE "writing")
  /\ UNCHANGED <<backups, locals, now, latest, recorded, failures, crashes>>

SeedCopied(j) ==
  /\ pc[j] = "copying"
  /\ file' = Seeded
  /\ Goto(j, "backing")
  /\ UNCHANGED <<backups, locals, now, latest, recorded, failures, crashes>>

-----------------------------------------------------------------------------
(* write_results and write_evidence_tabs *)

TakeBackup(j) ==
  /\ pc[j] = "backing"
  /\ LET name == <<now, part[j]>> IN
     /\ backup' = [backup EXCEPT ![j] = name]
     /\ backups' = [b \in DOMAIN backups \cup {name} |->
                      IF b = name THEN file ELSE backups[b]]
  /\ Goto(j, "reading")
  /\ UNCHANGED <<file, part, before, loaded, now, latest, recorded, failures, crashes>>

ReadCases(j) ==
  /\ pc[j] = "reading" /\ file # Torn
  /\ before' = [before EXCEPT ![j] = file.cases]
  /\ Goto(j, "loading")
  /\ UNCHANGED <<file, backups, part, backup, loaded, now, latest, recorded,
                 failures, crashes>>

LoadWorkbook(j) ==
  /\ pc[j] = "loading" /\ file # Torn
  /\ loaded' = [loaded EXCEPT ![j] = file]
  /\ Goto(j, "saving")
  /\ UNCHANGED <<file, backups, part, backup, before, now, latest, recorded,
                 failures, crashes>>

WorkbookSaved(j) ==
  /\ pc[j] = "writing"
  /\ file' \in Saved(j)
  /\ Goto(j, "verifying")
  /\ UNCHANGED <<backups, locals, now, latest, recorded, failures, crashes>>

\* Fault: whatever the save did to the case rows is accepted.
VerifyNothing(j) ==
  /\ pc[j] = "verifying" /\ file # Torn
  /\ Goto(j, "cleaning")
  /\ UNCHANGED <<file, backups, locals, now, latest, recorded, failures, crashes>>

\* Fault: altered case rows raise, but the backup is not put back.
VerifyOnlyRaises(j) ==
  /\ pc[j] = "verifying" /\ file # Torn
  /\ Goto(j, IF file.cases = before[j] THEN "cleaning" ELSE "failed")
  /\ UNCHANGED <<file, backups, locals, now, latest, recorded, failures, crashes>>

Verify(j) ==
  /\ pc[j] = "verifying" /\ file # Torn
  /\ Goto(j, IF file.cases = before[j] THEN "cleaning" ELSE "restoring")
  /\ UNCHANGED <<file, backups, locals, now, latest, recorded, failures, crashes>>

\* copy2 opens the backup before it truncates the file.
RestoreBegins(j) ==
  /\ pc[j] = "restoring" /\ backup[j] \in DOMAIN backups
  /\ loaded' = [loaded EXCEPT ![j] = backups[backup[j]]]
  /\ file' = Torn
  /\ Goto(j, "putting")
  /\ UNCHANGED <<backups, part, backup, before, now, latest, recorded, failures,
                 crashes>>

\* The backup is back in place; the part raises all the same and keeps it.
Restored(j) ==
  /\ pc[j] = "putting"
  /\ file' = loaded[j]
  /\ Goto(j, "failed")
  /\ UNCHANGED <<backups, locals, now, latest, recorded, failures, crashes>>

\* Fault: the evidence part leaves its backup behind.
DropBackupOfResults(j) ==
  /\ pc[j] = "cleaning"
  /\ backups' = IF part[j] = "results"
                THEN Restrict(backups, DOMAIN backups \ {backup[j]}) ELSE backups
  /\ recorded' = recorded \cup {j}
  /\ IF part[j] = "results" /\ j \in WithEvidence
     THEN part' = [part EXCEPT ![j] = "evidence"] /\ Goto(j, "backing")
     ELSE Goto(j, "complete") /\ UNCHANGED part
  /\ UNCHANGED <<file, backup, before, loaded, now, latest, failures, crashes>>

\* The part is done (missing_ok); after the block come the evidence tabs.
DropBackup(j) ==
  /\ pc[j] = "cleaning"
  /\ backups' = Restrict(backups, DOMAIN backups \ {backup[j]})
  /\ recorded' = recorded \cup {j}
  /\ IF part[j] = "results" /\ j \in WithEvidence
     THEN part' = [part EXCEPT ![j] = "evidence"] /\ Goto(j, "backing")
     ELSE Goto(j, "complete") /\ UNCHANGED part
  /\ UNCHANGED <<file, backup, before, loaded, now, latest, failures, crashes>>

-----------------------------------------------------------------------------
(* What goes wrong *)

\* Reading a torn workbook raises, and so does restoring a backup that is gone.
CannotRead(j) ==
  /\ IF pc[j] = "restoring" THEN backup[j] \notin DOMAIN backups
     ELSE pc[j] \in {"reading", "loading", "verifying"} /\ file = Torn
  /\ Goto(j, "failed")
  /\ UNCHANGED <<file, backups, locals, now, latest, recorded, failures, crashes>>

\* A file operation raises (disk full, file held open, no permission); nothing
\* catches it on the way to the job's record, and nothing is cleaned up.  A
\* backup that could not be copied whole stays as well.
OperationRaises(j) ==
  /\ pc[j] \in Busy /\ failures < MaxFailures
  /\ failures' = failures + 1
  /\ backups' \in {backups} \cup
       IF pc[j] = "backing"
       THEN {[b \in DOMAIN backups \cup {<<now, part[j]>>} |->
                IF b = <<now, part[j]>> THEN Torn ELSE backups[b]]}
       ELSE {}
  /\ Goto(j, "failed")
  /\ UNCHANGED <<file, locals, now, latest, recorded, crashes>>

\* The process is killed with every recording that is under way.
Crash ==
  /\ ~Quiet /\ crashes < MaxCrashes
  /\ crashes' = crashes + 1
  /\ pc' = [j \in Jobs |-> IF pc[j] \in Busy THEN "failed" ELSE pc[j]]
  /\ UNCHANGED <<file, backups, locals, now, latest, recorded, failures>>

Tick ==
  /\ now < MaxNow
  /\ now' = now + 1
  /\ UNCHANGED <<file, backups, pc, locals, latest, recorded, failures, crashes>>

Next ==
  \/ \E j \in Jobs :
       \/ Begin(j) \/ CheckExists(j) \/ Truncate(j) \/ SeedCopied(j)
       \/ TakeBackup(j) \/ ReadCases(j) \/ LoadWorkbook(j) \/ WorkbookSaved(j)
       \/ Verify(j) \/ RestoreBegins(j) \/ Restored(j) \/ DropBackup(j)
       \/ CannotRead(j) \/ OperationRaises(j)
  \/ Crash
  \/ Tick

Spec == Init /\ [][Next]_vars

-----------------------------------------------------------------------------
(* Properties *)

Copies == {c \in {file} \cup {backups[b] : b \in DOMAIN backups} : c \notin {Absent, Torn}}

\* Every variable keeps its shape; a backup is never made of a missing file.
TypeOK ==
  /\ file \in Workbook \cup {Absent, Torn}
  /\ DOMAIN backups \subseteq BackupName
  /\ \A b \in DOMAIN backups : backups[b] \in Workbook \cup {Torn}
  /\ pc \in [Jobs -> {"running"} \cup Busy \cup Over]
  /\ part \in [Jobs -> Part]
  /\ backup \in [Jobs -> BackupName]
  /\ before \in [Jobs -> {"intact", "altered"}]
  /\ loaded \in [Jobs -> Workbook \cup {Torn}]
  /\ now \in 0..MaxNow
  /\ latest \in Jobs \cup {NoOne}
  /\ recorded \subseteq Jobs
  /\ failures \in 0..MaxFailures /\ crashes \in 0..MaxCrashes

\* Nothing that was recorded is ever lost: at every moment, whichever write
\* is cut short, each verified RESULTS block is in the workbook or in a backup
\* that is still there ("a timestamped backup is taken first").
NothingLost == \A j \in recorded : \E c \in Copies : j \in c.blocks

\* The case definitions can always be had back: once something was recorded,
\* some copy has them as the suite had them, whatever a save altered.
CasesRecoverable == recorded # {} => \E c \in Copies : c.cases = "intact"

\* A completed run has cleaned up, and it shows: while no later run began, the
\* workbook holds every block ever recorded and this run's evidence alone
\* ("appends a timestamped RESULTS summary block and overwrites the per-case
\* evidence tabs (latest run only)").
LatestIsShown ==
  latest # NoOne /\ pc[latest] = "complete" =>
    /\ file \notin {Absent, Torn}
    /\ recorded \subseteq file.blocks
    /\ latest \in WithEvidence => file.evidence = latest
    /\ backup[latest] \notin DOMAIN backups

\* Rows that a run found intact it leaves intact, unless it was cut short: a
\* recording that ended by itself never hands altered case rows on.
AlteredOnlyWhenCutShort ==
  Quiet /\ file \notin {Absent, Torn} /\ file.cases = "altered" => crashes + failures > 0

\* "Use this ... so every test run is recorded": while none is under way, the
\* workbook has the block of every run that was reported complete.
EveryRunRecorded ==
  Quiet => \A j \in Jobs : pc[j] = "complete" => file # Torn /\ j \in file.blocks

=============================================================================
