----------------------------- MODULE FrontDoor ------------------------------
(***************************************************************************)
(* The Worker as its clients meet it: uploads and tool calls               *)
(* (worker/src/index.ts, worker/src/mcp-server.ts), the FileStore objects  *)
(* that hold suites and results for a while (worker/src/file-store.ts),    *)
(* and the jobs, as far as a call or a stored file depends on them         *)
(* (JobRunner opens them).                                                 *)
(*                                                                         *)
(* Each file is a Durable Object of its own, written in three awaited      *)
(* steps; whoever called store() waits for all three.  The caller, the     *)
(* file's object and the job's object live and die separately.             *)
(***************************************************************************)
EXTENDS Integers, FiniteSets

CONSTANTS
  Uploads,      \* calls that only store a suite: POST /files, create_test_case_all
  Runs,         \* calls that run one: run_schema, run_suite
  TTL,          \* EXPIRY_MS, in ticks
  MaxCrashes    \* bound: objects evicted, calls cut off, storage that throws

Calls == Uploads \cup Runs

\* The ids randomUUID draws: a call stores one suite and its job one workbook,
\* plus one for every time the job is evicted.
Files == 1..(Cardinality(Calls) + Cardinality(Runs) + MaxCrashes)
NoFile == 0

ASSUME FrontDoorShape ==
  /\ IsFiniteSet(Uploads) /\ IsFiniteSet(Runs) /\ Uploads \cap Runs = {}
  /\ TTL \in Nat \ {0} /\ MaxCrashes \in Nat

VARIABLES
  (* FileStore objects. *)
  blob,         \* the files whose object has "blob"
  meta,         \* the files whose object has "meta"
  due,          \* file -> ticks until its alarm, Never when none is set
  writer,       \* file -> where its store() is
  drawn,        \* ids drawn so far
  (* Calls. *)
  pc,
  suite,        \* call -> the file it stores or loads its suite from
  told,         \* the file ids some client was told, as suite_id or as a link
  shown,        \* call -> the job status its client saw last
  (* Jobs: one per call that starts a run. *)
  job,          \* the job's status as its object has it
  row,          \* whether the SDK would run the job's handler (again)
  result,       \* the workbook being stored, or linked by the status
  crashes,
  expired       \* history: files an alarm deleted

files == <<blob, meta, due, writer, drawn>>
clients == <<pc, suite, told, shown>>
jobs == <<job, row, result>>
vars == <<files, clients, jobs, crashes, expired>>

-----------------------------------------------------------------------------
(* Data *)

Never == -1

Terminal == {"complete", "error"}

\* A job's status as getStatus reports it.
StatusView(c) ==
  CASE job[c] = "none" -> "pending"
    [] job[c] = "storing" -> "running"
    [] OTHER -> job[c]

\* fetch(): a file is downloaded whole or not at all.
Served == blob \cap meta

\* loadFileBytes: what run_suite needs of a stored suite.
Loadable == blob

\* Fresh object for a fresh id: its store() is called.
NewFile(f) ==
  /\ f = drawn + 1 /\ drawn' = f
  /\ writer' = [writer EXCEPT ![f] = "blob"]

Crashes == crashes < MaxCrashes /\ crashes' = crashes + 1

Goto(c, where) == pc' = [pc EXCEPT ![c] = where]

-----------------------------------------------------------------------------

Init ==
  /\ blob = {} /\ meta = {} /\ due = [f \in Files |-> Never]
  /\ writer = [f \in Files |-> "none"] /\ drawn = 0
  /\ pc = [c \in Calls |-> "idle"] /\ suite = [c \in Calls |-> NoFile]
  /\ told = {} /\ shown = [c \in Calls |-> "nothing"]
  /\ job = [c \in Calls |-> "none"] /\ row = [c \in Calls |-> FALSE]
  /\ result = [c \in Calls |-> NoFile]
  /\ crashes = 0 /\ expired = {}

-----------------------------------------------------------------------------
(* FileStore *)

PutBlob(f) ==
  /\ writer[f] = "blob"
  /\ blob' = blob \cup {f}
  /\ writer' = [writer EXCEPT ![f] = "meta"]
  /\ UNCHANGED <<meta, due, drawn, clients, jobs, crashes, expired>>

PutMeta(f) ==
  /\ writer[f] = "meta"
  /\ meta' = meta \cup {f}
  /\ writer' = [writer EXCEPT ![f] = "alarm"]
  /\ UNCHANGED <<blob, due, drawn, clients, jobs, crashes, expired>>

\* Fault: no alarm is set.
SetAlarmForgotten(f) ==
  /\ writer[f] = "alarm"
  /\ writer' = [writer EXCEPT ![f] = "returned"]
  /\ UNCHANGED <<blob, meta, due, drawn, clients, jobs, crashes, expired>>

SetAlarm(f) ==
  /\ writer[f] = "alarm"
  /\ due' = [due EXCEPT ![f] = TTL]
  /\ writer' = [writer EXCEPT ![f] = "returned"]
  /\ UNCHANGED <<blob, meta, drawn, clients, jobs, crashes, expired>>

\* The object dies inside store(), or its storage throws: what it has written
\* stays, and the caller gets an exception.
StoreBreaks(f) ==
  /\ writer[f] \in {"blob", "meta", "alarm"} /\ Crashes
  /\ writer' = [writer EXCEPT ![f] = "broken"]
  /\ UNCHANGED <<blob, meta, due, drawn, clients, jobs, expired>>

\* Fault: the alarm deletes what makes the file visible, and no more.
AlarmKeepsBlob(f) ==
  /\ due[f] = 0
  /\ meta' = meta \ {f}
  /\ due' = [due EXCEPT ![f] = Never]
  /\ expired' = expired \cup {f}
  /\ UNCHANGED <<blob, writer, drawn, clients, jobs, crashes>>

\* alarm(): deleteAll.
Alarm(f) ==
  /\ due[f] = 0
  /\ blob' = blob \ {f} /\ meta' = meta \ {f}
  /\ due' = [due EXCEPT ![f] = Never]
  /\ expired' = expired \cup {f}
  /\ UNCHANGED <<writer, drawn, clients, jobs, crashes>>

Tick ==
  /\ \E f \in Files : due[f] > 0
  /\ due' = [f \in Files |-> IF due[f] > 0 THEN due[f] - 1 ELSE due[f]]
  /\ UNCHANGED <<blob, meta, writer, drawn, clients, jobs, crashes, expired>>

-----------------------------------------------------------------------------
(* Calls *)

\* A workbook that has no case, a schema or an argument that is no good.
Reject(c) ==
  /\ pc[c] = "idle"
  /\ Goto(c, "failed")
  /\ UNCHANGED <<files, suite, told, shown, jobs, crashes, expired>>

\* POST /files and create_test_case_all store a suite; run_schema stores the
\* suite it generated and goes on to run it.
StoreSuite(c) ==
  /\ pc[c] = "idle"
  /\ \E f \in Files : NewFile(f) /\ suite' = [suite EXCEPT ![c] = f]
  /\ Goto(c, IF c \in Uploads THEN "uploading" ELSE "generating")
  /\ UNCHANGED <<blob, meta, due, told, shown, jobs, crashes, expired>>

SuiteStored(c) ==
  /\ pc[c] \in {"uploading", "generating"} /\ writer[suite[c]] = "returned"
  /\ IF pc[c] = "uploading"
     THEN Goto(c, "answered") /\ told' = told \cup {suite[c]}
     ELSE Goto(c, "starting") /\ UNCHANGED told
  /\ UNCHANGED <<files, suite, shown, jobs, crashes, expired>>

SuiteNotStored(c) ==
  /\ pc[c] \in {"uploading", "generating"} /\ writer[suite[c]] = "broken"
  /\ Goto(c, "failed")
  /\ UNCHANGED <<files, suite, told, shown, jobs, crashes, expired>>

\* run_suite with a suite_id some client was told.
RunSuite(c) ==
  /\ c \in Runs /\ pc[c] = "idle"
  /\ \E f \in told :
       /\ suite' = [suite EXCEPT ![c] = f]
       /\ Goto(c, IF f \in Loadable THEN "starting" ELSE "notfound")
  /\ UNCHANGED <<files, told, shown, jobs, crashes, expired>>

\* run_suite with file_b64.
RunInline(c) ==
  /\ c \in Runs /\ pc[c] = "idle"
  /\ Goto(c, "starting")
  /\ UNCHANGED <<files, suite, told, shown, jobs, crashes, expired>>

\* JobRunner.start() under a fresh job_id.
StartJob(c) ==
  /\ pc[c] = "starting"
  /\ job' = [job EXCEPT ![c] = "running"] /\ row' = [row EXCEPT ![c] = TRUE]
  /\ Goto(c, "waiting")
  /\ UNCHANGED <<files, suite, told, shown, result, crashes, expired>>

\* The results link a status has, once the job is complete.
Link(c) == IF job[c] = "complete" THEN {result[c]} ELSE {}

\* startAndWait: a terminal status is answered at once, any at the deadline;
\* run_schema adds the id of the suite it stored.
Answer(c) ==
  /\ pc[c] = "waiting"
  /\ Goto(c, "polling")
  /\ shown' = [shown EXCEPT ![c] = StatusView(c)]
  /\ told' = told \cup Link(c) \cup ({suite[c]} \ {NoFile})
  /\ UNCHANGED <<files, suite, jobs, crashes, expired>>

\* The tool with job_id, or GET /jobs/{id}; a client polls until it is over.
Poll(c) ==
  /\ pc[c] = "polling" /\ shown[c] \notin Terminal
  /\ shown' = [shown EXCEPT ![c] = StatusView(c)] /\ told' = told \cup Link(c)
  /\ UNCHANGED <<files, pc, suite, jobs, crashes, expired>>

\* The session's object is evicted, or the client is gone: what the call has
\* set in motion goes on without it.
CallLost(c) ==
  /\ pc[c] \in {"uploading", "generating", "starting", "waiting"} /\ Crashes
  /\ Goto(c, "lost")
  /\ UNCHANGED <<files, suite, told, shown, jobs, expired>>

-----------------------------------------------------------------------------
(* Jobs, seen from outside *)

\* The handlers of JobRunner up to finalizeRun, or one that throws.
JobFinalizes(c) ==
  /\ job[c] = "running" /\ row[c]
  /\ \E f \in Files : NewFile(f) /\ result' = [result EXCEPT ![c] = f]
  /\ job' = [job EXCEPT ![c] = "storing"]
  /\ UNCHANGED <<blob, meta, due, clients, row, crashes, expired>>

JobFails(c) ==
  /\ job[c] = "running" /\ row[c]
  /\ job' = [job EXCEPT ![c] = "error"]
  /\ UNCHANGED <<files, clients, row, result, crashes, expired>>

\* Fault: the status is set before the workbook is stored.
JobStoredAtOnce(c) ==
  /\ job[c] = "storing"
  /\ job' = [job EXCEPT ![c] = "complete"]
  /\ UNCHANGED <<files, clients, row, result, crashes, expired>>

JobStored(c) ==
  /\ job[c] = "storing" /\ writer[result[c]] = "returned"
  /\ job' = [job EXCEPT ![c] = "complete"]
  /\ UNCHANGED <<files, clients, row, result, crashes, expired>>

\* Fault: the exception of storeFile is swallowed.
JobNotStoredSilently(c) ==
  /\ job[c] = "storing" /\ writer[result[c]] = "broken"
  /\ row' = [row EXCEPT ![c] = FALSE]
  /\ UNCHANGED <<files, clients, job, result, crashes, expired>>

JobNotStored(c) ==
  /\ job[c] = "storing" /\ writer[result[c]] = "broken"
  /\ job' = [job EXCEPT ![c] = "error"]
  /\ UNCHANGED <<files, clients, row, result, crashes, expired>>

\* The SDK deletes the row of a handler that has ended the job.
JobRowDeleted(c) ==
  /\ row[c] /\ job[c] \in Terminal
  /\ row' = [row EXCEPT ![c] = FALSE]
  /\ UNCHANGED <<files, clients, job, result, crashes, expired>>

\* The job's object is evicted inside its last handler, which then runs again,
\* even if it had ended the job already.
JobEvicted(c) ==
  /\ row[c] /\ job[c] \in {"storing"} \cup Terminal /\ Crashes
  /\ job' = [job EXCEPT ![c] = "running"]
  /\ UNCHANGED <<files, clients, row, result, expired>>

FileStep(f) == PutBlob(f) \/ PutMeta(f) \/ SetAlarm(f) \/ Alarm(f)
CallStep(c) == SuiteStored(c) \/ SuiteNotStored(c) \/ StartJob(c) \/ Answer(c) \/ Poll(c)
JobStep(c) ==
  JobFinalizes(c) \/ JobFails(c) \/ JobStored(c) \/ JobNotStored(c) \/ JobRowDeleted(c)

Next ==
  \/ \E f \in Files : FileStep(f) \/ StoreBreaks(f)
  \/ \E c \in Calls : \/ Reject(c) \/ StoreSuite(c) \/ RunSuite(c) \/ RunInline(c)
                      \/ CallStep(c) \/ CallLost(c) \/ JobStep(c) \/ JobEvicted(c)
  \/ Tick

\* Objects that have work do it, alarms fire, time passes, and a client that
\* was told next_check_seconds comes back.  No client has to call.
Spec ==
  /\ Init /\ [][Next]_vars
  /\ WF_vars(Tick)
  /\ \A f \in Files : WF_vars(FileStep(f))
  /\ \A c \in Calls : WF_vars(CallStep(c)) /\ WF_vars(JobStep(c))

-----------------------------------------------------------------------------
(* Properties *)

\* Every variable keeps its shape; in particular there is an id for every
\* file that calls and jobs may store.
TypeOK ==
  /\ blob \subseteq 1..drawn /\ meta \subseteq 1..drawn
  /\ due \in [Files -> Never..TTL]
  /\ writer \in [Files -> {"none", "blob", "meta", "alarm", "returned", "broken"}]
  /\ drawn \in 0..Cardinality(Files)
  /\ pc \in [Calls -> {"idle", "uploading", "generating", "failed", "answered",
                       "notfound", "starting", "waiting", "polling", "lost"}]
  /\ suite \in [Calls -> 0..drawn] /\ result \in [Calls -> 0..drawn]
  /\ told \subseteq 1..drawn
  /\ shown \in [Calls -> {"nothing", "pending", "running"} \cup Terminal]
  /\ job \in [Calls -> {"none", "running", "storing"} \cup Terminal]
  /\ row \in [Calls -> BOOLEAN]
  /\ crashes \in 0..MaxCrashes
  /\ expired \subseteq 1..drawn

\* Every id a client was told, of a suite or of a results workbook, can be
\* downloaded whole until it expires, whatever died in between; and an id that
\* is answered with "not found" had expired.
ToldFilesServe ==
  /\ told \subseteq Served \cup expired
  /\ \A c \in Calls : pc[c] = "notfound" => suite[c] \in expired

\* "Each file self-deletes after a TTL": one that never will was orphaned by a
\* death inside its store(), and nobody was told of it.
OrphansAreCrashes ==
  LET orphans == {f \in blob : due[f] = Never /\ writer[f] \in {"returned", "broken"}}
  IN  Cardinality(orphans) <= crashes /\ orphans \cap told = {}

\* Every id a client was told stops working in the end.
ToldFilesExpire == (told # {}) ~> [](told \cap blob = {})

\* A client that was given a job id, and polls as it was told, sees the end.
PollsEnd == \A c \in Calls : (pc[c] = "polling") ~> (shown[c] \in Terminal)

=============================================================================
