-------------------------- MODULE ResultsFileProofs --------------------------
(***************************************************************************)
(* Proofs about ResultsFile when recordings follow one another, for any    *)
(* number of runs, and however often a file operation raises, a save       *)
(* alters the case rows or the process is killed.                          *)
(***************************************************************************)
EXTENDS ResultsFile, TLAPS

-----------------------------------------------------------------------------
(* The inductive invariant *)

IsWhole(f) == f \notin {Absent, Torn}

\* Where a recording has taken the backup of its part.
BackedUp == {"reading", "loading", "saving", "writing", "verifying", "restoring",
             "putting", "cleaning"}

\* Only the run that began to record last is recording.
Serial == \A j \in Jobs : pc[j] \in Busy => latest = j

\* A backup that is taken now gets a name of its own.
FreshNames ==
  \A j \in Jobs : pc[j] \in Busy =>
    \A b \in DOMAIN backups : b[1] < now \/ (pc[j] \in BackedUp /\ b = backup[j])

\* What a whole file has: every block recorded so far.
HasAll(f) == IsWhole(f) => recorded \subseteq f.blocks

\* How far the recording of j has come tells what is in the file, in the
\* backup of its part and in its memory.
Phase(j) ==
  LET saved == backups[backup[j]]
  IN  /\ pc[j] = "running" => part[j] = "results"
      /\ pc[j] \in Busy /\ part[j] = "evidence" => j \in recorded
      /\ pc[j] = "seeding" => file = Absent
      /\ pc[j] = "copying" => recorded = {}
      /\ pc[j] = "backing" => file # Absent
      /\ pc[j] \in BackedUp => backup[j] \in DOMAIN backups /\ HasAll(saved)
      /\ pc[j] \in {"reading", "loading", "saving"} => file = saved
      /\ pc[j] \in {"loading", "saving"} => IsWhole(file) /\ before[j] = file.cases
      /\ pc[j] \in {"saving", "writing", "verifying", "restoring", "putting", "cleaning"} =>
           loaded[j] = saved
      /\ pc[j] \in {"writing", "verifying", "restoring", "putting", "cleaning"} =>
           IsWhole(saved) /\ before[j] = saved.cases
      /\ pc[j] \in {"verifying", "restoring", "cleaning"} => file \in Saved(j)
      /\ pc[j] = "cleaning" => file.cases = before[j]

\* Before a workbook was seeded, nothing was recorded.
Blocks == HasAll(file) /\ (file = Absent => recorded = {})

\* Whatever set of copies is left, it has all that was recorded, and if it has
\* a workbook at all, one with the case rows as they were.
Good(copies) ==
  /\ \A r \in recorded : \E c \in copies : IsWhole(c) /\ r \in c.blocks
  /\ (\E c \in copies : IsWhole(c)) => \E c \in copies : IsWhole(c) /\ c.cases = "intact"

Stored == {backups[b] : b \in DOMAIN backups}

Safe ==
  /\ Good({file} \cup Stored)
  /\ \A j \in Jobs : pc[j] \in BackedUp => Good(Stored)

Altered(f) == IsWhole(f) /\ f.cases = "altered"

\* Case rows are altered for good only after something was cut short.
Blamed ==
  /\ \A b \in DOMAIN backups : Altered(backups[b]) => crashes + failures > 0
  /\ Altered(file) => \/ crashes + failures > 0
                      \/ \E j \in Jobs : pc[j] \in {"verifying", "restoring"}

\* A run that is over successfully has left its mark.
Marked ==
  latest # NoOne /\ pc[latest] = "complete" =>
    /\ IsWhole(file) /\ recorded \subseteq file.blocks
    /\ latest \in WithEvidence => file.evidence = latest
    /\ backup[latest] \notin DOMAIN backups

IInv == /\ TypeOK /\ Serial /\ FreshNames /\ (\A j \in Jobs : Phase(j))
        /\ Blocks /\ Safe /\ Blamed /\ Marked

-----------------------------------------------------------------------------

\* A workbook is a whole file, and so is the one a recording makes of it.
LEMMA SavedShape ==
  ASSUME NEW j \in Jobs, loaded[j] \in Workbook, NEW f \in Saved(j)
  PROVE  /\ f \in Workbook /\ IsWhole(f)
         /\ f.blocks = loaded[j].blocks \cup (IF part[j] = "results" THEN {j} ELSE {})
         /\ part[j] # "results" => f.evidence = j
<1> DEFINE c == Changed(j)
<1>1. CASE part[j] = "results"
  <2>1. c = [loaded[j] EXCEPT !.blocks = loaded[j].blocks \cup {j}]
    BY <1>1 DEF Changed, WithBlock
  <2>2. c \in Workbook /\ c.blocks = loaded[j].blocks \cup {j}
    BY <2>1 DEF Workbook
  <2> HIDE DEF c
  <2>3. f = c \/ f = [c EXCEPT !.cases = "altered"]
    BY DEF Saved, c
  <2>4. f \in Workbook /\ f.blocks = c.blocks
    BY <2>2, <2>3 DEF Workbook
  <2> QED BY <1>1, <2>2, <2>4, NoWorkbook DEF IsWhole
<1>2. CASE part[j] # "results"
  <2>1. c = [loaded[j] EXCEPT !.evidence = j]
    BY <1>2 DEF Changed, WithTabs
  <2>2. c \in Workbook /\ c.blocks = loaded[j].blocks /\ c.evidence = j
    BY <2>1 DEF Workbook
  <2> HIDE DEF c
  <2>3. f = c \/ f = [c EXCEPT !.cases = "altered"]
    BY DEF Saved, c
  <2>4. f \in Workbook /\ f.blocks = c.blocks /\ f.evidence = c.evidence
    BY <2>2, <2>3 DEF Workbook
  <2> QED BY <1>2, <2>2, <2>4, NoWorkbook DEF IsWhole
<1> QED BY <1>1, <1>2

\* What is left when a backup is dropped.
LEMMA Dropped ==
  ASSUME NEW j \in Jobs, DropBackup(j)
  PROVE  /\ DOMAIN backups' = DOMAIN backups \ {backup[j]}
         /\ \A b \in DOMAIN backups' : backups'[b] = backups[b]
  BY DEF DropBackup, Restrict

\* What a recording writes into has been read whole.
LEMMA LoadedWhole ==
  ASSUME TypeOK, NEW j \in Jobs, Phase(j),
         pc[j] \in {"writing", "verifying", "restoring", "cleaning"}
  PROVE  /\ loaded[j] \in Workbook /\ loaded[j] = backups[backup[j]]
         /\ backup[j] \in DOMAIN backups
<1>1. /\ backup[j] \in DOMAIN backups /\ loaded[j] = backups[backup[j]]
      /\ IsWhole(backups[backup[j]])
  BY DEF Phase, BackedUp
<1> QED BY <1>1 DEF TypeOK, IsWhole

\* More copies are as good, if what is new comes with an intact one.
LEMMA Widen ==
  ASSUME NEW S, NEW T, Good(S), S \subseteq T,
         \A c \in T \ S : IsWhole(c) => c.cases = "intact" \/ \E d \in S : IsWhole(d)
  PROVE  Good(T)
  BY DEF Good

\* Every step keeps the variables in shape.
LEMMA TypeKept == ~Overlap /\ IInv /\ [Next]_vars => TypeOK'
<1> SUFFICES ASSUME ~Overlap, IInv, [Next]_vars PROVE TypeOK'
  OBVIOUS
<1> USE ResultsShape, NoWorkbook
<1>0. TypeOK /\ Serial /\ FreshNames /\ (\A k \in Jobs : Phase(k))
  BY DEF IInv
<1>1. ASSUME NEW j \in Jobs, Begin(j) PROVE TypeOK'
  BY <1>0, <1>1 DEF TypeOK, Begin, Goto, locals, Busy, Over, Part, BackupName, Workbook
<1>2. ASSUME NEW j \in Jobs, CheckExists(j) PROVE TypeOK'
  BY <1>0, <1>2 DEF TypeOK, CheckExists, Goto, locals, Busy, Over, Part, BackupName,
     Workbook
<1>3. ASSUME NEW j \in Jobs, Truncate(j) PROVE TypeOK'
  BY <1>0, <1>3 DEF TypeOK, Truncate, Goto, locals, Busy, Over, Part, BackupName, Workbook
<1>4. ASSUME NEW j \in Jobs, SeedCopied(j) PROVE TypeOK'
  BY <1>0, <1>4 DEF TypeOK, SeedCopied, Goto, locals, Busy, Over, Part, BackupName,
     Workbook, Seeded
<1>5. ASSUME NEW j \in Jobs, TakeBackup(j) PROVE TypeOK'
  BY <1>0, <1>5 DEF TypeOK, TakeBackup, Goto, Busy, Over, Part, BackupName, Workbook, Phase,
     IsWhole, BackedUp
<1>6. ASSUME NEW j \in Jobs, ReadCases(j) PROVE TypeOK'
  BY <1>0, <1>6 DEF TypeOK, ReadCases, Goto, Busy, Over, Part, BackupName, Workbook, Phase,
     IsWhole, BackedUp
<1>7. ASSUME NEW j \in Jobs, LoadWorkbook(j) PROVE TypeOK'
  BY <1>0, <1>7 DEF TypeOK, LoadWorkbook, Goto, Busy, Over, Part, BackupName, Workbook,
     Phase, IsWhole, BackedUp
<1>8. ASSUME NEW j \in Jobs, WorkbookSaved(j) PROVE TypeOK'
  <2>1. pc[j] = "writing" /\ file' \in Saved(j)
    BY <1>8 DEF WorkbookSaved
  <2>2. loaded[j] \in Workbook
    BY <1>0, <2>1, LoadedWhole
  <2>3. file' \in Workbook
    BY <2>1, <2>2, SavedShape
  <2> QED BY <1>0, <1>8, <2>3 DEF TypeOK, WorkbookSaved, Goto, locals, Busy
<1>9. ASSUME NEW j \in Jobs, Verify(j) PROVE TypeOK'
  BY <1>0, <1>9 DEF TypeOK, Verify, Goto, locals, Busy, Over, Part, BackupName, Workbook
<1>10. ASSUME NEW j \in Jobs, RestoreBegins(j) PROVE TypeOK'
  BY <1>0, <1>10 DEF TypeOK, RestoreBegins, Goto, Busy, Over, Part, BackupName, Workbook
<1>11. ASSUME NEW j \in Jobs, Restored(j) PROVE TypeOK'
  BY <1>0, <1>11 DEF TypeOK, Restored, Goto, locals, Busy, Over, Part, BackupName, Workbook
<1>12. ASSUME NEW j \in Jobs, DropBackup(j) PROVE TypeOK'
  <2>1. /\ DOMAIN backups' \subseteq BackupName
        /\ \A b \in DOMAIN backups' : backups'[b] \in Workbook \cup {Torn}
    BY <1>0, <1>12, Dropped DEF TypeOK
  <2>2. /\ part' \in [Jobs -> Part]
        /\ pc' \in [Jobs -> {"running"} \cup Busy \cup Over]
    <3>1. CASE part[j] = "results" /\ j \in WithEvidence
      BY <1>0, <1>12, <3>1 DEF TypeOK, DropBackup, Goto, Part, Busy
    <3>2. CASE ~ (part[j] = "results" /\ j \in WithEvidence)
      BY <1>0, <1>12, <3>2 DEF TypeOK, DropBackup, Goto, Part, Over
    <3> QED BY <3>1, <3>2
  <2>3. /\ recorded' = recorded \cup {j}
        /\ UNCHANGED <<file, backup, before, loaded, now, latest, failures, crashes>>
    BY <1>12 DEF DropBackup
  <2> QED BY <1>0, <2>1, <2>2, <2>3 DEF TypeOK
<1>13. ASSUME NEW j \in Jobs, CannotRead(j) PROVE TypeOK'
  BY <1>0, <1>13 DEF TypeOK, CannotRead, Goto, locals, Busy, Over, Part, BackupName,
     Workbook
<1>14. ASSUME NEW j \in Jobs, OperationRaises(j) PROVE TypeOK'
  BY <1>0, <1>14 DEF TypeOK, OperationRaises, Goto, locals, Busy, Over, Part, BackupName,
     Workbook
<1>15. CASE Crash
  BY <1>0, <1>15 DEF TypeOK, Crash, locals, Busy, Over, Part, BackupName, Workbook
<1>16. CASE Tick
  BY <1>0, <1>16 DEF TypeOK, Tick, locals, Busy, Over, Part, BackupName, Workbook
<1>17. CASE UNCHANGED vars
  BY <1>0, <1>17 DEF TypeOK, vars, locals, Busy, Over, Part, BackupName, Workbook
<1> QED
  BY <1>1, <1>2, <1>3, <1>4, <1>5, <1>6, <1>7, <1>8, <1>9, <1>10, <1>11, <1>12,
     <1>13, <1>14, <1>15, <1>16, <1>17
  DEF Next

\* Recordings follow one another.
LEMMA SerialKept == ~Overlap /\ IInv /\ [Next]_vars => Serial'
<1> SUFFICES ASSUME ~Overlap, IInv, [Next]_vars PROVE Serial'
  OBVIOUS
<1> USE ResultsShape, NoWorkbook
<1>0. TypeOK /\ Serial /\ FreshNames /\ (\A k \in Jobs : Phase(k))
  BY DEF IInv
<1>1. ASSUME NEW j \in Jobs, Begin(j) PROVE Serial'
  BY <1>0, <1>1 DEF TypeOK, Begin, Serial, Goto, locals, Busy, Quiet
<1>2. ASSUME NEW j \in Jobs, CheckExists(j) PROVE Serial'
  BY <1>0, <1>2 DEF TypeOK, CheckExists, Serial, Goto, locals, Busy
<1>3. ASSUME NEW j \in Jobs, Truncate(j) PROVE Serial'
  BY <1>0, <1>3 DEF TypeOK, Truncate, Serial, Goto, locals, Busy
<1>4. ASSUME NEW j \in Jobs, SeedCopied(j) PROVE Serial'
  BY <1>0, <1>4 DEF TypeOK, SeedCopied, Serial, Goto, locals, Busy
<1>5. ASSUME NEW j \in Jobs, TakeBackup(j) PROVE Serial'
  BY <1>0, <1>5 DEF TypeOK, TakeBackup, Serial, Goto, Busy
<1>6. ASSUME NEW j \in Jobs, ReadCases(j) PROVE Serial'
  BY <1>0, <1>6 DEF TypeOK, ReadCases, Serial, Goto, Busy
<1>7. ASSUME NEW j \in Jobs, LoadWorkbook(j) PROVE Serial'
  BY <1>0, <1>7 DEF TypeOK, LoadWorkbook, Serial, Goto, Busy
<1>8. ASSUME NEW j \in Jobs, WorkbookSaved(j) PROVE Serial'
  BY <1>0, <1>8 DEF TypeOK, WorkbookSaved, Serial, Goto, locals, Busy
<1>9. ASSUME NEW j \in Jobs, Verify(j) PROVE Serial'
  BY <1>0, <1>9 DEF TypeOK, Verify, Serial, Goto, locals, Busy
<1>10. ASSUME NEW j \in Jobs, RestoreBegins(j) PROVE Serial'
  BY <1>0, <1>10 DEF TypeOK, RestoreBegins, Serial, Goto, Busy
<1>11. ASSUME NEW j \in Jobs, Restored(j) PROVE Serial'
  BY <1>0, <1>11 DEF TypeOK, Restored, Serial, Goto, locals, Busy
<1>12. ASSUME NEW j \in Jobs, DropBackup(j) PROVE Serial'
  BY <1>0, <1>12 DEF TypeOK, DropBackup, Serial, Goto, Busy
<1>13. ASSUME NEW j \in Jobs, CannotRead(j) PROVE Serial'
  BY <1>0, <1>13 DEF TypeOK, CannotRead, Serial, Goto, locals, Busy
<1>14. ASSUME NEW j \in Jobs, OperationRaises(j) PROVE Serial'
  BY <1>0, <1>14 DEF TypeOK, OperationRaises, Serial, Goto, locals, Busy
<1>15. CASE Crash
  BY <1>0, <1>15 DEF TypeOK, Crash, Serial, locals, Busy, Quiet
<1>16. CASE Tick
  BY <1>0, <1>16 DEF TypeOK, Tick, Serial, locals, Busy
<1>17. CASE UNCHANGED vars
  BY <1>0, <1>17 DEF TypeOK, vars, Serial, locals, Busy
<1> QED
  BY <1>1, <1>2, <1>3, <1>4, <1>5, <1>6, <1>7, <1>8, <1>9, <1>10, <1>11, <1>12,
     <1>13, <1>14, <1>15, <1>16, <1>17
  DEF Next

\* No backup takes the name of one that is still needed.
LEMMA NamesKept == ~Overlap /\ IInv /\ [Next]_vars => FreshNames'
<1> SUFFICES ASSUME ~Overlap, IInv, [Next]_vars PROVE FreshNames'
  OBVIOUS
<1> USE ResultsShape, NoWorkbook
<1>0. TypeOK /\ Serial /\ FreshNames /\ (\A k \in Jobs : Phase(k))
  BY DEF IInv
<1>1. ASSUME NEW j \in Jobs, Begin(j) PROVE FreshNames'
  BY <1>0, <1>1 DEF TypeOK, Begin, FreshNames, Goto, locals, Busy, Quiet, BackedUp,
     BackupName
<1>2. ASSUME NEW j \in Jobs, CheckExists(j) PROVE FreshNames'
  BY <1>0, <1>2 DEF TypeOK, CheckExists, FreshNames, Goto, locals, Busy, BackedUp,
     BackupName
<1>3. ASSUME NEW j \in Jobs, Truncate(j) PROVE FreshNames'
  BY <1>0, <1>3 DEF TypeOK, Truncate, FreshNames, Goto, locals, Busy, BackedUp, BackupName
<1>4. ASSUME NEW j \in Jobs, SeedCopied(j) PROVE FreshNames'
  BY <1>0, <1>4 DEF TypeOK, SeedCopied, FreshNames, Goto, locals, Busy, BackedUp, BackupName
<1>5. ASSUME NEW j \in Jobs, TakeBackup(j) PROVE FreshNames'
  BY <1>0, <1>5 DEF TypeOK, TakeBackup, FreshNames, Serial, Phase, Goto, Busy, BackedUp,
     BackupName
<1>6. ASSUME NEW j \in Jobs, ReadCases(j) PROVE FreshNames'
  BY <1>0, <1>6 DEF TypeOK, ReadCases, FreshNames, Goto, Busy, BackedUp, BackupName
<1>7. ASSUME NEW j \in Jobs, LoadWorkbook(j) PROVE FreshNames'
  BY <1>0, <1>7 DEF TypeOK, LoadWorkbook, FreshNames, Goto, Busy, BackedUp, BackupName
<1>8. ASSUME NEW j \in Jobs, WorkbookSaved(j) PROVE FreshNames'
  BY <1>0, <1>8 DEF TypeOK, WorkbookSaved, FreshNames, Goto, locals, Busy, BackedUp,
     BackupName
<1>9. ASSUME NEW j \in Jobs, Verify(j) PROVE FreshNames'
  BY <1>0, <1>9 DEF TypeOK, Verify, FreshNames, Goto, locals, Busy, BackedUp, BackupName
<1>10. ASSUME NEW j \in Jobs, RestoreBegins(j) PROVE FreshNames'
  BY <1>0, <1>10 DEF TypeOK, RestoreBegins, FreshNames, Goto, Busy, BackedUp, BackupName
<1>11. ASSUME NEW j \in Jobs, Restored(j) PROVE FreshNames'
  BY <1>0, <1>11 DEF TypeOK, Restored, FreshNames, Goto, locals, Busy, BackedUp, BackupName
<1>12. ASSUME NEW j \in Jobs, DropBackup(j) PROVE FreshNames'
  <2>1. /\ pc[j] \in Busy /\ pc[j] \in BackedUp /\ now' = now /\ latest' = latest
        /\ \A k \in Jobs : k # j => pc'[k] = pc[k]
    BY <1>0, <1>12 DEF TypeOK, DropBackup, Goto, Busy, BackedUp
  <2>2. \A k \in Jobs : pc[k] \in Busy => k = j
    BY <1>0, <2>1 DEF Serial
  <2>3. \A b \in DOMAIN backups' : b[1] < now
    BY <1>0, <1>12, <2>1, Dropped DEF FreshNames
  <2> QED BY <2>1, <2>2, <2>3 DEF FreshNames
<1>13. ASSUME NEW j \in Jobs, CannotRead(j) PROVE FreshNames'
  BY <1>0, <1>13 DEF TypeOK, CannotRead, FreshNames, Goto, locals, Busy, BackedUp,
     BackupName
<1>14. ASSUME NEW j \in Jobs, OperationRaises(j) PROVE FreshNames'
  BY <1>0, <1>14 DEF TypeOK, OperationRaises, FreshNames, Serial, Phase, Goto, locals, Busy,
     BackedUp, BackupName
<1>15. CASE Crash
  BY <1>0, <1>15 DEF TypeOK, Crash, FreshNames, locals, Busy, Quiet, BackedUp, BackupName
<1>16. CASE Tick
  BY <1>0, <1>16 DEF TypeOK, Tick, FreshNames, locals, Busy, BackedUp, BackupName
<1>17. CASE UNCHANGED vars
  BY <1>0, <1>17 DEF TypeOK, vars, FreshNames, locals, Busy, BackedUp, BackupName
<1> QED
  BY <1>1, <1>2, <1>3, <1>4, <1>5, <1>6, <1>7, <1>8, <1>9, <1>10, <1>11, <1>12,
     <1>13, <1>14, <1>15, <1>16, <1>17
  DEF Next

\* Each step of a recording finds the file as the step before left it.
LEMMA PhaseKept == ~Overlap /\ IInv /\ [Next]_vars => \A k \in Jobs : Phase(k)'
<1> SUFFICES ASSUME ~Overlap, IInv, [Next]_vars, NEW k \in Jobs PROVE Phase(k)'
  OBVIOUS
<1> USE ResultsShape, NoWorkbook
<1>0. TypeOK /\ Serial /\ FreshNames /\ (\A i \in Jobs : Phase(i)) /\ Blocks /\ Phase(k)
  BY DEF IInv
<1>1. ASSUME NEW j \in Jobs, Begin(j) PROVE Phase(k)'
  <2>1. CASE k = j
    BY <1>0, <1>1, <2>1 DEF TypeOK, Begin, Phase, Goto, locals, Busy, BackedUp, IsWhole,
       HasAll, Saved, Changed, WithBlock, WithTabs
  <2>2. CASE k # j
    BY <1>0, <1>1, <2>2 DEF TypeOK, Begin, Phase, Goto, locals, Busy, Quiet, BackedUp
  <2> QED BY <2>1, <2>2
<1>2. ASSUME NEW j \in Jobs, CheckExists(j) PROVE Phase(k)'
  <2>1. CASE k = j
    BY <1>0, <1>2, <2>1 DEF TypeOK, CheckExists, Phase, Goto, locals, Busy, BackedUp,
       IsWhole, HasAll, Saved, Changed, WithBlock, WithTabs
  <2>2. CASE k # j
    BY <1>0, <1>2, <2>2 DEF TypeOK, CheckExists, Serial, Phase, Goto, locals, Busy, BackedUp
  <2> QED BY <2>1, <2>2
<1>3. ASSUME NEW j \in Jobs, Truncate(j) PROVE Phase(k)'
  <2>1. CASE k = j
    BY <1>0, <1>3, <2>1 DEF TypeOK, Truncate, Phase, Goto, locals, Busy, BackedUp, IsWhole,
       HasAll, Blocks, Saved, Changed, WithBlock, WithTabs
  <2>2. CASE k # j
    BY <1>0, <1>3, <2>2 DEF TypeOK, Truncate, Serial, Phase, Goto, locals, Busy, BackedUp
  <2> QED BY <2>1, <2>2
<1>4. ASSUME NEW j \in Jobs, SeedCopied(j) PROVE Phase(k)'
  <2>1. CASE k = j
    <3>1. file' # Absent
      BY <1>4, NoWorkbook DEF SeedCopied, Seeded, Workbook
    <3> QED BY <1>0, <1>4, <2>1, <3>1 DEF TypeOK, SeedCopied, Phase, Goto, locals, Busy,
               BackedUp
  <2>2. CASE k # j
    BY <1>0, <1>4, <2>2 DEF TypeOK, SeedCopied, Serial, Phase, Goto, locals, Busy, BackedUp
  <2> QED BY <2>1, <2>2
<1>5. ASSUME NEW j \in Jobs, TakeBackup(j) PROVE Phase(k)'
  <2>1. CASE k = j
    BY <1>0, <1>5, <2>1 DEF TypeOK, TakeBackup, Phase, Goto, Busy, BackedUp, IsWhole,
       HasAll, Blocks, Saved, Changed, WithBlock, WithTabs
  <2>2. CASE k # j
    BY <1>0, <1>5, <2>2 DEF TypeOK, TakeBackup, Serial, Phase, Goto, Busy, BackedUp
  <2> QED BY <2>1, <2>2
<1>6. ASSUME NEW j \in Jobs, ReadCases(j) PROVE Phase(k)'
  <2>1. CASE k = j
    BY <1>0, <1>6, <2>1 DEF TypeOK, ReadCases, Phase, Goto, Busy, BackedUp, IsWhole, HasAll,
       Saved, Changed, WithBlock, WithTabs
  <2>2. CASE k # j
    BY <1>0, <1>6, <2>2 DEF TypeOK, ReadCases, Serial, Phase, Goto, Busy, BackedUp
  <2> QED BY <2>1, <2>2
<1>7. ASSUME NEW j \in Jobs, LoadWorkbook(j) PROVE Phase(k)'
  <2>1. CASE k = j
    BY <1>0, <1>7, <2>1 DEF TypeOK, LoadWorkbook, Phase, Goto, Busy, BackedUp, IsWhole,
       HasAll, Saved, Changed, WithBlock, WithTabs
  <2>2. CASE k # j
    BY <1>0, <1>7, <2>2 DEF TypeOK, LoadWorkbook, Serial, Phase, Goto, Busy, BackedUp
  <2> QED BY <2>1, <2>2
<1>8. ASSUME NEW j \in Jobs, WorkbookSaved(j) PROVE Phase(k)'
  <2>1. CASE k = j
    BY <1>0, <1>8, <2>1 DEF TypeOK, WorkbookSaved, Phase, Goto, locals, Busy, BackedUp,
       IsWhole, HasAll, Saved, Changed, WithBlock, WithTabs
  <2>2. CASE k # j
    BY <1>0, <1>8, <2>2 DEF TypeOK, WorkbookSaved, Serial, Phase, Goto, locals, Busy,
       BackedUp
  <2> QED BY <2>1, <2>2
<1>9. ASSUME NEW j \in Jobs, Verify(j) PROVE Phase(k)'
  <2>1. CASE k = j
    BY <1>0, <1>9, <2>1 DEF TypeOK, Verify, Phase, Goto, locals, Busy, BackedUp, IsWhole,
       HasAll, Saved, Changed, WithBlock, WithTabs
  <2>2. CASE k # j
    BY <1>0, <1>9, <2>2 DEF TypeOK, Verify, Serial, Phase, Goto, locals, Busy, BackedUp
  <2> QED BY <2>1, <2>2
<1>10. ASSUME NEW j \in Jobs, RestoreBegins(j) PROVE Phase(k)'
  <2>1. CASE k = j
    BY <1>0, <1>10, <2>1 DEF TypeOK, RestoreBegins, Phase, Goto, Busy, BackedUp, IsWhole,
       HasAll, Saved, Changed, WithBlock, WithTabs
  <2>2. CASE k # j
    BY <1>0, <1>10, <2>2 DEF TypeOK, RestoreBegins, Serial, Phase, Goto, Busy, BackedUp
  <2> QED BY <2>1, <2>2
<1>11. ASSUME NEW j \in Jobs, Restored(j) PROVE Phase(k)'
  <2>1. CASE k = j
    BY <1>0, <1>11, <2>1 DEF TypeOK, Restored, Phase, Goto, locals, Busy, BackedUp, IsWhole,
       HasAll, Saved, Changed, WithBlock, WithTabs
  <2>2. CASE k # j
    BY <1>0, <1>11, <2>2 DEF TypeOK, Restored, Serial, Phase, Goto, locals, Busy, BackedUp
  <2> QED BY <2>1, <2>2
<1>12. ASSUME NEW j \in Jobs, DropBackup(j) PROVE Phase(k)'
  <2>1. CASE k = j
    <3>1. pc[j] = "cleaning" /\ recorded' = recorded \cup {j} /\ UNCHANGED file
      BY <1>12 DEF DropBackup
    <3>2. file # Absent
      <4>1. loaded[j] \in Workbook /\ file \in Saved(j)
        BY <1>0, <2>1, <3>1, LoadedWhole DEF Phase
      <4> QED BY <4>1, SavedShape DEF IsWhole
    <3>3. CASE part[j] = "results" /\ j \in WithEvidence
      <4>1. pc'[j] = "backing"
        BY <1>0, <1>12, <3>3 DEF TypeOK, DropBackup, Goto
      <4> QED BY <2>1, <3>1, <3>2, <4>1 DEF Phase, BackedUp
    <3>4. CASE ~ (part[j] = "results" /\ j \in WithEvidence)
      <4>1. pc'[j] = "complete"
        BY <1>0, <1>12, <3>4 DEF TypeOK, DropBackup, Goto
      <4> QED BY <2>1, <4>1 DEF Phase, BackedUp, Busy
    <3> QED BY <3>3, <3>4
  <2>2. CASE k # j
    BY <1>0, <1>12, <2>2 DEF TypeOK, DropBackup, Serial, Phase, Goto, Busy, BackedUp
  <2> QED BY <2>1, <2>2
<1>13. ASSUME NEW j \in Jobs, CannotRead(j) PROVE Phase(k)'
  <2>1. CASE k = j
    BY <1>0, <1>13, <2>1 DEF TypeOK, CannotRead, Phase, Goto, locals, Busy, BackedUp,
       IsWhole, HasAll, Saved, Changed, WithBlock, WithTabs
  <2>2. CASE k # j
    BY <1>0, <1>13, <2>2 DEF TypeOK, CannotRead, Serial, Phase, Goto, locals, Busy, BackedUp
  <2> QED BY <2>1, <2>2
<1>14. ASSUME NEW j \in Jobs, OperationRaises(j) PROVE Phase(k)'
  <2>1. CASE k = j
    BY <1>0, <1>14, <2>1 DEF TypeOK, OperationRaises, Phase, Goto, locals, Busy, BackedUp,
       IsWhole, HasAll, Saved, Changed, WithBlock, WithTabs
  <2>2. CASE k # j
    BY <1>0, <1>14, <2>2 DEF TypeOK, OperationRaises, Serial, Phase, Goto, locals, Busy,
       BackedUp
  <2> QED BY <2>1, <2>2
<1>15. CASE Crash
  BY <1>0, <1>15 DEF TypeOK, Crash, Phase, locals, Busy, BackedUp, IsWhole, HasAll, Saved,
     Changed, WithBlock, WithTabs, Quiet
<1>16. CASE Tick
  BY <1>0, <1>16 DEF TypeOK, Tick, Phase, locals, Busy, BackedUp, IsWhole, HasAll, Saved,
     Changed, WithBlock, WithTabs
<1>17. CASE UNCHANGED vars
  BY <1>0, <1>17 DEF TypeOK, vars, Phase, locals, Busy, BackedUp, IsWhole, HasAll, Saved,
     Changed, WithBlock, WithTabs
<1> QED
  BY <1>1, <1>2, <1>3, <1>4, <1>5, <1>6, <1>7, <1>8, <1>9, <1>10, <1>11, <1>12,
     <1>13, <1>14, <1>15, <1>16, <1>17
  DEF Next

\* A whole file has every block that was recorded.
LEMMA BlocksKept == ~Overlap /\ IInv /\ [Next]_vars => Blocks'
<1> SUFFICES ASSUME ~Overlap, IInv, [Next]_vars PROVE Blocks'
  OBVIOUS
<1> USE ResultsShape, NoWorkbook
<1>0. TypeOK /\ Serial /\ FreshNames /\ (\A i \in Jobs : Phase(i)) /\ Blocks
  BY DEF IInv
<1>1. ASSUME NEW j \in Jobs, Begin(j) PROVE Blocks'
  BY <1>0, <1>1 DEF TypeOK, Begin, Blocks, HasAll
<1>2. ASSUME NEW j \in Jobs, CheckExists(j) PROVE Blocks'
  BY <1>0, <1>2 DEF TypeOK, CheckExists, Blocks, HasAll
<1>3. ASSUME NEW j \in Jobs, Truncate(j) PROVE Blocks'
  <2>1. file' = Torn /\ UNCHANGED recorded
    BY <1>3 DEF Truncate
  <2> QED BY <1>0, <2>1, NoWorkbook DEF Blocks, HasAll, IsWhole
<1>4. ASSUME NEW j \in Jobs, SeedCopied(j) PROVE Blocks'
  <2>1. recorded' = {} /\ file' = Seeded
    BY <1>0, <1>4 DEF SeedCopied, Phase
  <2> QED BY <2>1 DEF Blocks, HasAll
<1>5. ASSUME NEW j \in Jobs, TakeBackup(j) PROVE Blocks'
  BY <1>0, <1>5 DEF TypeOK, TakeBackup, Blocks, HasAll
<1>6. ASSUME NEW j \in Jobs, ReadCases(j) PROVE Blocks'
  BY <1>0, <1>6 DEF TypeOK, ReadCases, Blocks, HasAll
<1>7. ASSUME NEW j \in Jobs, LoadWorkbook(j) PROVE Blocks'
  BY <1>0, <1>7 DEF TypeOK, LoadWorkbook, Blocks, HasAll
<1>8. ASSUME NEW j \in Jobs, WorkbookSaved(j) PROVE Blocks'
  <2>1. pc[j] = "writing" /\ file' \in Saved(j) /\ UNCHANGED <<recorded, backups>>
    BY <1>8 DEF WorkbookSaved
  <2>2. loaded[j] \in Workbook /\ recorded \subseteq loaded[j].blocks
    BY <1>0, <2>1, LoadedWhole, NoWorkbook DEF Phase, BackedUp, HasAll, IsWhole
  <2>3. IsWhole(file') /\ recorded \subseteq file'.blocks
    BY <2>1, <2>2, SavedShape
  <2> QED BY <2>1, <2>3 DEF Blocks, HasAll, IsWhole
<1>9. ASSUME NEW j \in Jobs, Verify(j) PROVE Blocks'
  BY <1>0, <1>9 DEF TypeOK, Verify, Blocks, HasAll
<1>10. ASSUME NEW j \in Jobs, RestoreBegins(j) PROVE Blocks'
  <2>1. file' = Torn /\ UNCHANGED recorded
    BY <1>10 DEF RestoreBegins
  <2> QED BY <1>0, <2>1, NoWorkbook DEF Blocks, HasAll, IsWhole
<1>11. ASSUME NEW j \in Jobs, Restored(j) PROVE Blocks'
  <2>1. /\ pc[j] = "putting" /\ file' = loaded[j] /\ UNCHANGED <<recorded, backups>>
    BY <1>11 DEF Restored
  <2>2. HasAll(loaded[j]) /\ IsWhole(loaded[j])
    BY <1>0, <2>1 DEF Phase, BackedUp
  <2> QED BY <2>1, <2>2 DEF Blocks, HasAll, IsWhole
<1>12. ASSUME NEW j \in Jobs, DropBackup(j) PROVE Blocks'
  <2>1. /\ pc[j] = "cleaning" /\ recorded' = recorded \cup {j} /\ UNCHANGED file
    BY <1>12 DEF DropBackup
  <2>2. loaded[j] \in Workbook /\ file \in Saved(j)
    BY <1>0, <2>1, LoadedWhole DEF Phase
  <2>3. IsWhole(file) /\ recorded \subseteq file.blocks
    BY <1>0, <2>2, SavedShape DEF Blocks, HasAll
  <2>4. j \in file.blocks
    <3>1. CASE part[j] = "results"
      BY <2>2, <3>1, SavedShape
    <3>2. CASE part[j] # "results"
      <4>1. part[j] = "evidence"
        BY <1>0, <3>2 DEF TypeOK, Part
      <4>2. j \in recorded
        BY <1>0, <2>1, <4>1 DEF Phase, Busy
      <4> QED BY <2>3, <4>2
    <3> QED BY <3>1, <3>2
  <2> QED BY <2>1, <2>3, <2>4 DEF Blocks, HasAll, IsWhole
<1>13. ASSUME NEW j \in Jobs, CannotRead(j) PROVE Blocks'
  BY <1>0, <1>13 DEF TypeOK, CannotRead, Blocks, HasAll
<1>14. ASSUME NEW j \in Jobs, OperationRaises(j) PROVE Blocks'
  BY <1>0, <1>14 DEF TypeOK, OperationRaises, Blocks, HasAll
<1>15. CASE Crash
  BY <1>0, <1>15 DEF TypeOK, Crash, Blocks, HasAll
<1>16. CASE Tick
  BY <1>0, <1>16 DEF TypeOK, Tick, Blocks, HasAll
<1>17. CASE UNCHANGED vars
  BY <1>0, <1>17 DEF TypeOK, vars, Blocks, HasAll
<1> QED
  BY <1>1, <1>2, <1>3, <1>4, <1>5, <1>6, <1>7, <1>8, <1>9, <1>10, <1>11, <1>12,
     <1>13, <1>14, <1>15, <1>16, <1>17
  DEF Next

\* Whichever step is the last one, the copies that are left are good.
LEMMA SafeKept == ~Overlap /\ IInv /\ [Next]_vars => Safe'
<1> SUFFICES ASSUME ~Overlap, IInv, [Next]_vars PROVE Safe'
  OBVIOUS
<1> USE ResultsShape, NoWorkbook
<1>0. TypeOK /\ Serial /\ FreshNames /\ (\A i \in Jobs : Phase(i)) /\ Blocks /\ Safe
  BY DEF IInv
<1>1. ASSUME NEW j \in Jobs, Begin(j) PROVE Safe'
  <2>1. /\ UNCHANGED <<file, backups, recorded>>
        /\ \A k \in Jobs : pc'[k] \in BackedUp => pc[k] \in BackedUp
    BY <1>0, <1>1 DEF TypeOK, Begin, Goto, locals, BackedUp, Busy
  <2> QED BY <1>0, <2>1 DEF Safe, Stored, Good
<1>2. ASSUME NEW j \in Jobs, CheckExists(j) PROVE Safe'
  <2>1. /\ UNCHANGED <<file, backups, recorded>>
        /\ \A k \in Jobs : pc'[k] \in BackedUp => pc[k] \in BackedUp
    BY <1>0, <1>2 DEF TypeOK, CheckExists, Goto, locals, BackedUp, Busy
  <2> QED BY <1>0, <2>1 DEF Safe, Stored, Good
<1>3. ASSUME NEW j \in Jobs, Truncate(j) PROVE Safe'
  <2>1. /\ file' = Torn /\ UNCHANGED <<backups, recorded>>
        /\ pc'[j] = IF pc[j] = "seeding" THEN "copying" ELSE "writing"
        /\ pc[j] \in {"seeding", "saving"} /\ \A k \in Jobs : k # j => pc'[k] = pc[k]
    BY <1>0, <1>3 DEF TypeOK, Truncate, Goto
  <2>2. ~IsWhole(Torn) /\ Stored' = Stored
    BY <2>1 DEF IsWhole, Stored
  <2>3. CASE pc[j] = "seeding"
    <3>1. file = Absent
      BY <1>0, <2>3 DEF Phase
    <3>2. Good({Torn} \cup Stored)
      BY <1>0, <3>1 DEF Safe, Good, IsWhole
    <3>3. Good({file} \cup Stored)'
      BY <2>1, <2>2, <3>2 DEF Good
    <3>4. \A k \in Jobs : pc'[k] \in BackedUp => pc[k] \in BackedUp
      BY <2>1, <2>3 DEF BackedUp
    <3> QED BY <1>0, <2>1, <2>2, <3>3, <3>4 DEF Safe, Good
  <2>4. CASE pc[j] = "saving"
    <3>1. Good(Stored)
      BY <1>0, <2>4 DEF Safe, BackedUp
    <3>2. Good({Torn} \cup Stored)
      BY <2>2, <3>1, Widen
    <3> QED BY <2>1, <2>2, <3>1, <3>2 DEF Safe, Good
  <2> QED BY <2>1, <2>3, <2>4
<1>4. ASSUME NEW j \in Jobs, SeedCopied(j) PROVE Safe'
  <2>1. /\ recorded' = {} /\ file' = Seeded /\ UNCHANGED backups
        /\ \A k \in Jobs : pc'[k] \in BackedUp => pc[k] \in BackedUp
    BY <1>0, <1>4 DEF TypeOK, SeedCopied, Goto, Phase, BackedUp
  <2>2. IsWhole(Seeded) /\ Seeded.cases = "intact"
    BY NoWorkbook DEF Seeded, Workbook, IsWhole
  <2>3. Good({file} \cup Stored)'
    BY <2>1, <2>2 DEF Good
  <2>4. UNCHANGED recorded
    BY <1>4 DEF SeedCopied
  <2> QED BY <1>0, <2>1, <2>3, <2>4 DEF Safe, Stored, Good
<1>5. ASSUME NEW j \in Jobs, TakeBackup(j) PROVE Safe'
  <2> DEFINE name == <<now, part[j]>>
  <2>1. /\ UNCHANGED <<file, recorded>> /\ pc[j] = "backing"
        /\ backups' = [b \in DOMAIN backups \cup {name} |->
                          IF b = name THEN file ELSE backups[b]]
    BY <1>5 DEF TakeBackup
  <2>2. \A b \in DOMAIN backups : b # name
    <3>1. \A b \in DOMAIN backups : b[1] < now
      BY <1>0, <2>1 DEF FreshNames, Busy, BackedUp
    <3>2. name[1] = now /\ now \in Nat /\ ~ now < now
      BY <1>0, ResultsShape DEF TypeOK
    <3> QED BY <3>1, <3>2
  <2>3. Stored' = {file} \cup Stored
    BY <2>1, <2>2 DEF Stored
  <2>4. {file'} \cup Stored' = {file} \cup Stored
    BY <2>1, <2>3
  <2>5. Good({file} \cup Stored)
    BY <1>0 DEF Safe
  <2>6. Good({file} \cup Stored)' /\ Good(Stored)'
    BY <2>1, <2>3, <2>4, <2>5 DEF Good
  <2> QED BY <2>6 DEF Safe
<1>6. ASSUME NEW j \in Jobs, ReadCases(j) PROVE Safe'
  <2>1. /\ UNCHANGED <<file, backups, recorded>>
        /\ \A k \in Jobs : pc'[k] \in BackedUp => pc[k] \in BackedUp
    BY <1>0, <1>6 DEF TypeOK, ReadCases, Goto, BackedUp, Busy
  <2> QED BY <1>0, <2>1 DEF Safe, Stored, Good
<1>7. ASSUME NEW j \in Jobs, LoadWorkbook(j) PROVE Safe'
  <2>1. /\ UNCHANGED <<file, backups, recorded>>
        /\ \A k \in Jobs : pc'[k] \in BackedUp => pc[k] \in BackedUp
    BY <1>0, <1>7 DEF TypeOK, LoadWorkbook, Goto, BackedUp, Busy
  <2> QED BY <1>0, <2>1 DEF Safe, Stored, Good
<1>8. ASSUME NEW j \in Jobs, WorkbookSaved(j) PROVE Safe'
  <2>1. /\ pc[j] = "writing" /\ file' \in Saved(j) /\ UNCHANGED <<recorded, backups>>
        /\ \A k \in Jobs : pc'[k] \in BackedUp => pc[k] \in BackedUp
    BY <1>0, <1>8 DEF TypeOK, WorkbookSaved, Goto, BackedUp
  <2>2. loaded[j] \in Stored /\ IsWhole(loaded[j])
    BY <1>0, <2>1, LoadedWhole, NoWorkbook DEF Stored, IsWhole
  <2>3. Good(Stored)
    BY <1>0, <2>1 DEF Safe, BackedUp
  <2>4. Good({file'} \cup Stored)
    BY <2>2, <2>3, Widen
  <2> QED BY <1>0, <2>1, <2>3, <2>4 DEF Safe, Good, Stored
<1>9. ASSUME NEW j \in Jobs, Verify(j) PROVE Safe'
  <2>1. /\ UNCHANGED <<file, backups, recorded>>
        /\ \A k \in Jobs : pc'[k] \in BackedUp => pc[k] \in BackedUp
    BY <1>0, <1>9 DEF TypeOK, Verify, Goto, locals, BackedUp, Busy
  <2> QED BY <1>0, <2>1 DEF Safe, Stored, Good
<1>10. ASSUME NEW j \in Jobs, RestoreBegins(j) PROVE Safe'
  <2>1. /\ pc[j] = "restoring" /\ file' = Torn /\ UNCHANGED <<recorded, backups>>
        /\ \A k \in Jobs : pc'[k] \in BackedUp => pc[k] \in BackedUp
    BY <1>0, <1>10 DEF TypeOK, RestoreBegins, Goto, BackedUp
  <2>2. ~IsWhole(Torn) /\ Good(Stored)
    BY <1>0, <2>1 DEF Safe, BackedUp, IsWhole
  <2>3. Good({Torn} \cup Stored)
    BY <2>2, Widen
  <2> QED BY <1>0, <2>1, <2>2, <2>3 DEF Safe, Good, Stored
<1>11. ASSUME NEW j \in Jobs, Restored(j) PROVE Safe'
  <2>1. /\ pc[j] = "putting" /\ file' = loaded[j] /\ UNCHANGED <<recorded, backups>>
        /\ \A k \in Jobs : pc'[k] \in BackedUp => pc[k] \in BackedUp
    BY <1>0, <1>11 DEF TypeOK, Restored, Goto, BackedUp
  <2>2. loaded[j] \in Stored /\ Good(Stored)
    BY <1>0, <2>1 DEF Safe, Phase, BackedUp, Stored
  <2>3. Good({loaded[j]} \cup Stored)
    BY <2>2, Widen
  <2> QED BY <1>0, <2>1, <2>2, <2>3 DEF Safe, Good, Stored
<1>12. ASSUME NEW j \in Jobs, DropBackup(j) PROVE Safe'
  <2>1. /\ pc[j] = "cleaning" /\ recorded' = recorded \cup {j} /\ UNCHANGED file
    BY <1>12 DEF DropBackup
  <2>2. /\ loaded[j] \in Workbook /\ file \in Saved(j)
        /\ loaded[j] = backups[backup[j]] /\ backup[j] \in DOMAIN backups
        /\ file.cases = loaded[j].cases
    BY <1>0, <2>1, LoadedWhole DEF Phase
  <2>3. IsWhole(file) /\ IsWhole(loaded[j])
    BY <2>2, SavedShape, NoWorkbook DEF IsWhole
  <2>4. recorded' \subseteq file.blocks
    BY <2>1, <2>3, BlocksKept DEF IInv, Blocks, HasAll, IsWhole
  <2>5. PICK c \in Stored : IsWhole(c) /\ c.cases = "intact"
    <3>1. Good(Stored) /\ loaded[j] \in Stored
      BY <1>0, <2>1, <2>2 DEF Safe, BackedUp, Stored
    <3> QED BY <2>3, <3>1 DEF Good
  <2>6. \E d \in {file} \cup Stored' : IsWhole(d) /\ d.cases = "intact"
    <3>1. PICK b \in DOMAIN backups : c = backups[b]
      BY <2>5 DEF Stored
    <3>2. CASE b = backup[j]
      BY <2>2, <2>3, <2>5, <3>1, <3>2
    <3>3. CASE b # backup[j]
      <4>1. c \in Stored'
        BY <1>12, <3>1, <3>3, Dropped DEF Stored
      <4> QED BY <2>5, <4>1
    <3> QED BY <3>2, <3>3
  <2>7. Good({file} \cup Stored)'
    BY <2>1, <2>3, <2>4, <2>6 DEF Good
  <2>8. \A k \in Jobs : pc'[k] \notin BackedUp
    <3>1. /\ pc'[j] \in {"backing", "complete"}
          /\ \A k \in Jobs : k # j => pc'[k] = pc[k]
      BY <1>0, <1>12 DEF TypeOK, DropBackup, Goto
    <3>2. \A k \in Jobs : k # j => pc[k] \notin BackedUp
      BY <1>0, <2>1 DEF Serial, Busy, BackedUp
    <3> QED BY <3>1, <3>2 DEF BackedUp
  <2> QED BY <2>7, <2>8 DEF Safe
<1>13. ASSUME NEW j \in Jobs, CannotRead(j) PROVE Safe'
  <2>1. /\ UNCHANGED <<file, backups, recorded>>
        /\ \A k \in Jobs : pc'[k] \in BackedUp => pc[k] \in BackedUp
    BY <1>0, <1>13 DEF TypeOK, CannotRead, Goto, locals, BackedUp, Busy
  <2> QED BY <1>0, <2>1 DEF Safe, Stored, Good
<1>14. ASSUME NEW j \in Jobs, OperationRaises(j) PROVE Safe'
  <2> DEFINE name == <<now, part[j]>>
  <2>1. /\ UNCHANGED <<file, recorded>>
        /\ \A k \in Jobs : pc'[k] \in BackedUp => pc[k] \in BackedUp
        /\ \/ UNCHANGED backups
           \/ /\ pc[j] = "backing"
              /\ backups' = [b \in DOMAIN backups \cup {name} |->
                                IF b = name THEN Torn ELSE backups[b]]
    BY <1>0, <1>14 DEF TypeOK, OperationRaises, Goto, BackedUp
  <2>2. CASE UNCHANGED backups
    BY <1>0, <2>1, <2>2 DEF Safe, Stored, Good
  <2>3. CASE /\ pc[j] = "backing"
             /\ backups' = [b \in DOMAIN backups \cup {name} |->
                               IF b = name THEN Torn ELSE backups[b]]
    <3>1. \A b \in DOMAIN backups : b # name
      <4>1. \A b \in DOMAIN backups : b[1] < now
        BY <1>0, <2>3 DEF FreshNames, Busy, BackedUp
      <4>2. name[1] = now /\ now \in Nat /\ ~ now < now
        BY <1>0, ResultsShape DEF TypeOK
      <4> QED BY <4>1, <4>2
    <3>2. Stored' = {Torn} \cup Stored
      BY <2>3, <3>1 DEF Stored
    <3>3. ~IsWhole(Torn) /\ Good({file} \cup Stored)
      BY <1>0 DEF Safe, IsWhole
    <3>4. Good({file} \cup Stored')
      BY <3>2, <3>3, Widen
    <3>5. \A k \in Jobs : pc[k] \in BackedUp => Good(Stored')
      BY <1>0, <3>2, <3>3, Widen DEF Safe
    <3> QED BY <2>1, <3>4, <3>5 DEF Safe, Good
  <2> QED BY <2>1, <2>2, <2>3
<1>15. CASE Crash
  <2>1. /\ UNCHANGED <<file, backups, recorded>>
        /\ \A k \in Jobs : pc'[k] \in BackedUp => pc[k] \in BackedUp
    BY <1>0, <1>15 DEF TypeOK, Crash, locals, BackedUp, Busy
  <2> QED BY <1>0, <2>1 DEF Safe, Stored, Good
<1>16. CASE Tick
  <2>1. /\ UNCHANGED <<file, backups, recorded>>
        /\ \A k \in Jobs : pc'[k] \in BackedUp => pc[k] \in BackedUp
    BY <1>0, <1>16 DEF TypeOK, Tick, locals, BackedUp, Busy
  <2> QED BY <1>0, <2>1 DEF Safe, Stored, Good
<1>17. CASE UNCHANGED vars
  <2>1. /\ UNCHANGED <<file, backups, recorded>>
        /\ \A k \in Jobs : pc'[k] \in BackedUp => pc[k] \in BackedUp
    BY <1>0, <1>17 DEF TypeOK, vars, locals, BackedUp, Busy
  <2> QED BY <1>0, <2>1 DEF Safe, Stored, Good
<1> QED
  BY <1>1, <1>2, <1>3, <1>4, <1>5, <1>6, <1>7, <1>8, <1>9, <1>10, <1>11, <1>12,
     <1>13, <1>14, <1>15, <1>16, <1>17
  DEF Next

\* Case rows stay altered only after something was cut short.
LEMMA BlamedKept == ~Overlap /\ IInv /\ [Next]_vars => Blamed'
<1> SUFFICES ASSUME ~Overlap, IInv, [Next]_vars PROVE Blamed'
  OBVIOUS
<1> USE ResultsShape, NoWorkbook
<1>0. TypeOK /\ Serial /\ FreshNames /\ (\A i \in Jobs : Phase(i)) /\ Blocks /\ Safe /\ Blamed
  BY DEF IInv
<1>1. ASSUME NEW j \in Jobs, Begin(j) PROVE Blamed'
  BY <1>0, <1>1 DEF TypeOK, Begin, Blamed, Altered, Goto, locals, Busy, Quiet, IsWhole
<1>2. ASSUME NEW j \in Jobs, CheckExists(j) PROVE Blamed'
  BY <1>0, <1>2 DEF TypeOK, CheckExists, Blamed, Altered, Goto, locals, Busy, IsWhole
<1>3. ASSUME NEW j \in Jobs, Truncate(j) PROVE Blamed'
  BY <1>0, <1>3 DEF TypeOK, Truncate, Blamed, Altered, Goto, locals, Busy, IsWhole
<1>4. ASSUME NEW j \in Jobs, SeedCopied(j) PROVE Blamed'
  <2>1. /\ file' = Seeded /\ UNCHANGED <<backups, crashes, failures>>
    BY <1>4 DEF SeedCopied
  <2>2. Seeded.cases # "altered"
    BY DEF Seeded
  <2> QED BY <1>0, <2>1, <2>2 DEF Blamed, Altered
<1>5. ASSUME NEW j \in Jobs, TakeBackup(j) PROVE Blamed'
  <2>1. /\ UNCHANGED <<file, crashes, failures>> /\ pc[j] = "backing"
        /\ \A b \in DOMAIN backups' :
             backups'[b] = file \/ (b \in DOMAIN backups /\ backups'[b] = backups[b])
    BY <1>5 DEF TakeBackup
  <2>2. \A k \in Jobs : pc[k] \notin {"verifying", "restoring"}
    BY <1>0, <2>1 DEF Serial, Busy
  <2> QED BY <1>0, <2>1, <2>2 DEF Blamed, Altered
<1>6. ASSUME NEW j \in Jobs, ReadCases(j) PROVE Blamed'
  BY <1>0, <1>6 DEF TypeOK, ReadCases, Blamed, Altered, Goto, Busy, IsWhole
<1>7. ASSUME NEW j \in Jobs, LoadWorkbook(j) PROVE Blamed'
  BY <1>0, <1>7 DEF TypeOK, LoadWorkbook, Blamed, Altered, Goto, Busy, IsWhole
<1>8. ASSUME NEW j \in Jobs, WorkbookSaved(j) PROVE Blamed'
  BY <1>0, <1>8 DEF TypeOK, WorkbookSaved, Blamed, Altered, Goto, locals, Busy, IsWhole
<1>9. ASSUME NEW j \in Jobs, Verify(j) PROVE Blamed'
  BY <1>0, <1>9 DEF TypeOK, Verify, Blamed, Altered, Goto, locals, Serial, Busy, Phase,
     BackedUp, IsWhole
<1>10. ASSUME NEW j \in Jobs, RestoreBegins(j) PROVE Blamed'
  BY <1>0, <1>10 DEF TypeOK, RestoreBegins, Blamed, Altered, Goto, Busy, IsWhole
<1>11. ASSUME NEW j \in Jobs, Restored(j) PROVE Blamed'
  BY <1>0, <1>11 DEF TypeOK, Restored, Blamed, Altered, Goto, locals, Serial, Busy, Phase,
     BackedUp, IsWhole
<1>12. ASSUME NEW j \in Jobs, DropBackup(j) PROVE Blamed'
  <2>1. /\ pc[j] = "cleaning" /\ UNCHANGED <<file, crashes, failures>>
    BY <1>12 DEF DropBackup
  <2>2. \A k \in Jobs : pc[k] \notin {"verifying", "restoring"}
    BY <1>0, <2>1 DEF Serial, Busy
  <2>3. \A b \in DOMAIN backups' : b \in DOMAIN backups /\ backups'[b] = backups[b]
    BY <1>12, Dropped
  <2> QED BY <1>0, <2>1, <2>2, <2>3 DEF Blamed, Altered
<1>13. ASSUME NEW j \in Jobs, CannotRead(j) PROVE Blamed'
  BY <1>0, <1>13 DEF TypeOK, CannotRead, Blamed, Altered, Goto, locals, Serial, Busy, Phase,
     BackedUp, IsWhole
<1>14. ASSUME NEW j \in Jobs, OperationRaises(j) PROVE Blamed'
  BY <1>0, <1>14 DEF TypeOK, OperationRaises, Blamed, Altered, Goto, locals, Busy, IsWhole
<1>15. CASE Crash
  BY <1>0, <1>15 DEF TypeOK, Crash, Blamed, Altered, locals, Busy, Quiet, IsWhole
<1>16. CASE Tick
  BY <1>0, <1>16 DEF TypeOK, Tick, Blamed, Altered, locals, Busy, IsWhole
<1>17. CASE UNCHANGED vars
  BY <1>0, <1>17 DEF TypeOK, vars, Blamed, Altered, locals, Busy, IsWhole
<1> QED
  BY <1>1, <1>2, <1>3, <1>4, <1>5, <1>6, <1>7, <1>8, <1>9, <1>10, <1>11, <1>12,
     <1>13, <1>14, <1>15, <1>16, <1>17
  DEF Next

\* What a complete run left stays until a later run begins.
LEMMA MarkedKept == ~Overlap /\ IInv /\ [Next]_vars => Marked'
<1> SUFFICES ASSUME ~Overlap, IInv, [Next]_vars PROVE Marked'
  OBVIOUS
<1> USE ResultsShape, NoWorkbook
<1>0. TypeOK /\ Serial /\ FreshNames /\ (\A i \in Jobs : Phase(i)) /\ Blocks /\ Safe /\ Marked
  BY DEF IInv
<1>1. ASSUME NEW j \in Jobs, Begin(j) PROVE Marked'
  BY <1>0, <1>1 DEF TypeOK, Begin, Marked, Goto, locals, Busy, Quiet
<1>2. ASSUME NEW j \in Jobs, CheckExists(j) PROVE Marked'
  BY <1>0, <1>2 DEF TypeOK, CheckExists, Marked, Goto, locals, Busy
<1>3. ASSUME NEW j \in Jobs, Truncate(j) PROVE Marked'
  BY <1>0, <1>3 DEF TypeOK, Truncate, Marked, Goto, locals, Serial, Busy, Phase, BackedUp
<1>4. ASSUME NEW j \in Jobs, SeedCopied(j) PROVE Marked'
  BY <1>0, <1>4 DEF TypeOK, SeedCopied, Marked, Goto, locals, Serial, Busy, Phase, BackedUp
<1>5. ASSUME NEW j \in Jobs, TakeBackup(j) PROVE Marked'
  BY <1>0, <1>5 DEF TypeOK, TakeBackup, Marked, Goto, Serial, Busy, Phase, BackedUp
<1>6. ASSUME NEW j \in Jobs, ReadCases(j) PROVE Marked'
  BY <1>0, <1>6 DEF TypeOK, ReadCases, Marked, Goto, Busy
<1>7. ASSUME NEW j \in Jobs, LoadWorkbook(j) PROVE Marked'
  BY <1>0, <1>7 DEF TypeOK, LoadWorkbook, Marked, Goto, Busy
<1>8. ASSUME NEW j \in Jobs, WorkbookSaved(j) PROVE Marked'
  BY <1>0, <1>8 DEF TypeOK, WorkbookSaved, Marked, Goto, locals, Serial, Busy, Phase,
     BackedUp
<1>9. ASSUME NEW j \in Jobs, Verify(j) PROVE Marked'
  BY <1>0, <1>9 DEF TypeOK, Verify, Marked, Goto, locals, Busy
<1>10. ASSUME NEW j \in Jobs, RestoreBegins(j) PROVE Marked'
  BY <1>0, <1>10 DEF TypeOK, RestoreBegins, Marked, Goto, Serial, Busy, Phase, BackedUp
<1>11. ASSUME NEW j \in Jobs, Restored(j) PROVE Marked'
  BY <1>0, <1>11 DEF TypeOK, Restored, Marked, Goto, locals, Serial, Busy, Phase, BackedUp
<1>12. ASSUME NEW j \in Jobs, DropBackup(j) PROVE Marked'
  <2>1. /\ pc[j] = "cleaning" /\ recorded' = recorded \cup {j}
        /\ UNCHANGED <<file, backup, latest>>
    BY <1>12 DEF DropBackup
  <2>2. latest = j
    BY <1>0, <2>1 DEF Serial, Busy
  <2>3. loaded[j] \in Workbook /\ file \in Saved(j)
    BY <1>0, <2>1, LoadedWhole DEF Phase
  <2>4. IsWhole(file) /\ recorded' \subseteq file.blocks
    BY <2>1, <2>3, SavedShape, BlocksKept DEF Blocks, HasAll
  <2>5. pc'[j] = "complete" /\ j \in WithEvidence => file.evidence = j
    <3>1. pc'[j] = "complete" /\ j \in WithEvidence => part[j] # "results"
      BY <1>0, <1>12 DEF TypeOK, DropBackup, Goto
    <3> QED BY <2>3, <3>1, SavedShape
  <2>6. backup[j] \notin DOMAIN backups'
    BY <1>12, Dropped
  <2> QED BY <2>1, <2>2, <2>4, <2>5, <2>6 DEF Marked
<1>13. ASSUME NEW j \in Jobs, CannotRead(j) PROVE Marked'
  BY <1>0, <1>13 DEF TypeOK, CannotRead, Marked, Goto, locals, Busy
<1>14. ASSUME NEW j \in Jobs, OperationRaises(j) PROVE Marked'
  BY <1>0, <1>14 DEF TypeOK, OperationRaises, Marked, Goto, locals, Serial, Busy, Phase,
     BackedUp
<1>15. CASE Crash
  BY <1>0, <1>15 DEF TypeOK, Crash, Marked, locals, Busy, Quiet
<1>16. CASE Tick
  BY <1>0, <1>16 DEF TypeOK, Tick, Marked, locals, Busy
<1>17. CASE UNCHANGED vars
  BY <1>0, <1>17 DEF TypeOK, vars, Marked, locals, Busy
<1> QED
  BY <1>1, <1>2, <1>3, <1>4, <1>5, <1>6, <1>7, <1>8, <1>9, <1>10, <1>11, <1>12,
     <1>13, <1>14, <1>15, <1>16, <1>17
  DEF Next

\* The invariant holds of every state recordings one after another reach.
LEMMA Invariance == ~Overlap => (Spec => []IInv)
<1> SUFFICES ASSUME ~Overlap PROVE Spec => []IInv
  OBVIOUS
<1>1. Init => IInv
  <2> SUFFICES ASSUME Init PROVE IInv
    OBVIOUS
  <2> USE ResultsShape, NoWorkbook DEF Init
  <2>1. TypeOK
    BY DEF TypeOK, Workbook, Seeded, BackupName, Part, Busy, Over
  <2>2. Serial /\ FreshNames /\ \A j \in Jobs : Phase(j)
    BY DEF Serial, FreshNames, Phase, Busy, BackedUp
  <2>3. Blocks /\ Blamed /\ Marked
    BY DEF Blocks, HasAll, Blamed, Altered, IsWhole, Marked
  <2>4. Safe
    BY DEF Safe, Stored, Good, IsWhole, BackedUp
  <2> QED BY <2>1, <2>2, <2>3, <2>4 DEF IInv
<1>2. IInv /\ [Next]_vars => IInv'
  BY TypeKept, SerialKept, NamesKept, PhaseKept, BlocksKept, SafeKept, BlamedKept, MarkedKept
  DEF IInv
<1> QED BY <1>1, <1>2, PTL DEF Spec

-----------------------------------------------------------------------------

\* Every block that was written and verified stays in the workbook or in a
\* backup, whichever write is cut short.
THEOREM BlocksSurvive == ~Overlap => (Spec => []NothingLost)
<1>1. IInv => NothingLost
  BY DEF IInv, Safe, Good, IsWhole, Stored, NothingLost, Copies
<1> QED BY <1>1, Invariance, PTL

\* Some copy keeps the case rows as the suite had them, once there is anything
\* recorded at all.
THEOREM CasesSurvive == ~Overlap => (Spec => []CasesRecoverable)
<1>1. IInv => CasesRecoverable
  <2> SUFFICES ASSUME IInv, recorded # {} PROVE \E c \in Copies : c.cases = "intact"
    BY DEF CasesRecoverable
  <2>1. Good({file} \cup Stored)
    BY DEF IInv, Safe
  <2>2. \E c \in {file} \cup Stored : IsWhole(c) /\ c.cases = "intact"
    BY <2>1 DEF Good
  <2> QED BY <2>2 DEF Copies, Stored, IsWhole
<1> QED BY <1>1, Invariance, PTL

\* After a completed run the workbook has every recorded block and the run's
\* own evidence, and its backup is gone.
THEOREM LatestShown == ~Overlap => (Spec => []LatestIsShown)
<1>1. IInv => LatestIsShown
  BY DEF IInv, Marked, IsWhole, LatestIsShown
<1> QED BY <1>1, Invariance, PTL

\* A recording that was not cut short never hands altered case rows on.
THEOREM AlteredIsBlamed == ~Overlap => (Spec => []AlteredOnlyWhenCutShort)
<1>1. IInv => AlteredOnlyWhenCutShort
  BY DEF IInv, Blamed, Altered, IsWhole, Quiet, Busy, AlteredOnlyWhenCutShort
<1> QED BY <1>1, Invariance, PTL

=============================================================================
