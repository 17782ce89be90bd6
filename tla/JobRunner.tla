----------------------------- MODULE JobRunner ------------------------------
(***************************************************************************)
(* One JobRunner Durable Object of the Cloudflare Worker: the life of one  *)
(* job_id (worker/src/job-runner.ts with the pure pieces it composes from  *)
(* worker/src/orchestrate.ts).                                             *)
(*                                                                         *)
(* The object's state and its schedule rows are durable; a handler that is *)
(* suspended at an await is not.  A handler is therefore split at its      *)
(* awaits, and only there: what it does between two awaits is one step.    *)
(* The agents SDK (external) runs the due rows one after the other and     *)
(* deletes a row after its callback returned, so a crash or an eviction in *)
(* between makes the same row fire again.                                  *)
(***************************************************************************)
EXTENDS Integers, FiniteSets, Sequences

CONSTANTS
  NCases,       \* suite.cases.length; case i is the i-th parsed row
  SourceOf,     \* case -> its log_source, or NoLog when validate_logs is false
  NoLog,
  Fetchable,    \* the sources buildLogSource can build (anypoint, with a URL)
  Tokens,       \* what a log line can contain, as far as expectations go
  Expected,     \* case -> expected_log_strings, a subset of Tokens
  AnyOf,        \* the cases whose log_match_mode is any_of
  BadPattern,   \* the cases with a regex expectation RegExp cannot compile
  OwnHeader,    \* the cases whose row sets the correlation header itself
  Fallback,     \* LOG_CORRELATION_FALLBACK
  MaxRetries,   \* LOG_FETCH_MAX_RETRIES
  MaxCrashes,   \* bound: how often the object is evicted inside a handler
  NoReport      \* null

Cases == 1..NCases

ASSUME ConstantsOK ==
  /\ NCases \in Nat
  /\ Expected \in [Cases -> SUBSET Tokens]
  /\ DOMAIN SourceOf = Cases
  /\ AnyOf \subseteq Cases /\ BadPattern \subseteq Cases /\ OwnHeader \subseteq Cases
  /\ Fallback \in BOOLEAN
  /\ MaxRetries \in Nat
  /\ MaxCrashes \in Nat

VARIABLES
  (* Durable: RunnerState and the SDK's schedule table. *)
  status,       \* JobState
  runs,         \* per-case runs, <<>> while null
  source_idx,
  attempt,
  report,
  url,          \* result_download_url as the number of the stored file, 0 = null
  rows,         \* schedule rows per callback
  (* Volatile: the handler in progress. *)
  pc,
  row,          \* the callback whose row is being run, "none" while idle
  draft,        \* the handler's local runs
  (* The world: the tested API, CloudHub, the file store. *)
  sweep,        \* how often the requests were (re)started; makes ids unique
  received,     \* correlation ids that reached the tested API
  surfaced,     \* <<id, token>>: lines visible in the downloadable log
  files,        \* results workbooks stored so far
  crashes,
  (* History: how many snapshots of each source were begun. *)
  fetches

durable  == <<status, runs, source_idx, attempt, report, url>>
handler  == <<pc, row, draft>>
world    == <<sweep, received, surfaced, files, crashes>>
vars     == <<durable, rows, handler, world, fetches>>

-----------------------------------------------------------------------------
(* Data *)

JobState == {"pending", "running", "waiting_propagation", "validating_logs",
             "complete", "error"}
Terminal == {"complete", "error"}
Callback == {"runRequests", "logPhase"}

ResponseOutcome == {"error", "failed", "passed"}
LogOutcome == {"none", "nosnapshot", "failed", "passed"}

CorrelationId == Cases \X Nat

CaseRun == [cid : CorrelationId, response : ResponseOutcome,
            log : LogOutcome, passed : BOOLEAN]

\* distinctSources: the log-validating cases, grouped by source in first-seen
\* order.  GroupOf(i) is the 0-based position of the group case i falls in.
LogCases  == {i \in Cases : SourceOf[i] # NoLog}
FirstSeen == {i \in LogCases :
                \A j \in LogCases : SourceOf[j] = SourceOf[i] => i <= j}
NGroups   == Cardinality(FirstSeen)
Before(i) == {j \in FirstSeen :
                \A k \in LogCases : SourceOf[k] = SourceOf[i] => j < k}
GroupOf(i) == Cardinality(Before(i))
Group(g)  == {i \in LogCases : GroupOf(i) = g}

\* The id the API sees and logs under: the row's own header wins over the
\* generated id, which is recorded all the same.
WireId(i, n) == IF i \in OwnHeader THEN <<i, 0>> ELSE <<i, n>>

\* Fault: the lines of an earlier sweep count for the same case.
OwnLinesAnySweep(cid, snap) ==
  {t \in Tokens : \E l \in snap : l[1][1] = cid[1] /\ l[2] = t}

OwnLines(cid, snap) == {t \in Tokens : <<cid, t>> \in snap}

\* validateLogs: the lines searched for one case.
Considered(cid, snap) ==
  IF OwnLines(cid, snap) = {} /\ Fallback
  THEN {t \in Tokens : \E l \in snap : l[2] = t}
  ELSE OwnLines(cid, snap)

Satisfied(i, lines) ==
  IF i \in AnyOf THEN Expected[i] \cap lines # {} ELSE Expected[i] \subseteq lines

Judge(rs, g, outcome) ==
  [i \in DOMAIN rs |->
     IF i \in Group(g)
     THEN [rs[i] EXCEPT !.log = outcome[i], !.passed = @ /\ outcome[i] = "passed"]
     ELSE rs[i]]

validateGroup(rs, g, snap) ==
  Judge(rs, g, [i \in Cases |-> IF Satisfied(i, Considered(rs[i].cid, snap))
                                THEN "passed" ELSE "failed"])

\* Fault: a failed download is noted but the cases stay as passed.
failGroupSnapshotKeepsPass(rs, g) ==
  [i \in DOMAIN rs |-> IF i \in Group(g) THEN [rs[i] EXCEPT !.log = "nosnapshot"]
                      ELSE rs[i]]

failGroupSnapshot(rs, g) == Judge(rs, g, [i \in Cases |-> "nosnapshot"])

allPresent(rs, g, snap) == \A i \in Group(g) : OwnLines(rs[i].cid, snap) # {}

\* Fault: one retry too many.
decideRetryLate(present, n) == present \/ n > MaxRetries

decideRetry(present, n) == present \/ n >= MaxRetries

finalizeReport(rs) ==
  [i \in DOMAIN rs |-> [response |-> rs[i].response, log |-> rs[i].log,
                        passed |-> rs[i].passed]]

\* Fault: scheduling a callback that has a row already is taken as done.
scheduleOnce(cb) == rows' = [rows EXCEPT ![cb] = 1]

schedule(cb) == rows' = [rows EXCEPT ![cb] = @ + 1]

-----------------------------------------------------------------------------

Init ==
  /\ status = "pending" /\ runs = <<>> /\ source_idx = 0 /\ attempt = 0
  /\ report = NoReport /\ url = 0
  /\ rows = [cb \in Callback |-> 0]
  /\ pc = "idle" /\ row = "none" /\ draft = <<>>
  /\ sweep = 0 /\ received = {} /\ surfaced = {} /\ files = 0 /\ crashes = 0
  /\ fetches = [g \in 0..NGroups - 1 |-> 0]

\* start(): called once per object, under a fresh job_id.
Start ==
  /\ status = "pending"
  /\ status' = "running"
  /\ schedule("runRequests")
  /\ UNCHANGED <<runs, source_idx, attempt, report, url, handler, world, fetches>>

\* Fault: the exception is swallowed.
failSilently ==
  /\ pc' = "returned" /\ draft' = <<>>
  /\ UNCHANGED <<durable, rows, row, fetches>>

\* fail(): the catch of either handler.
fail ==
  /\ status' = "error"
  /\ pc' = "returned" /\ draft' = <<>>
  /\ UNCHANGED <<runs, source_idx, attempt, report, url, rows, row, fetches>>

-----------------------------------------------------------------------------
(* runRequests *)

RunRequests ==
  /\ pc = "idle" /\ rows["runRequests"] > 0
  /\ pc' = "sending" /\ row' = "runRequests" /\ draft' = <<>>
  /\ sweep' = sweep + 1
  /\ UNCHANGED <<durable, rows, received, surfaced, files, crashes, fetches>>

\* runRequest: a request that failed may or may not have reached the API.
CallCase ==
  /\ pc = "sending" /\ Len(draft) < NCases
  /\ \E outcome \in ResponseOutcome, reached \in BOOLEAN :
       LET i == Len(draft) + 1 IN
       /\ outcome # "error" => reached
       /\ draft' = Append(draft, [cid |-> <<i, sweep>>, response |-> outcome,
                                  log |-> "none", passed |-> outcome = "passed"])
       /\ received' = IF reached THEN received \cup {WireId(i, sweep)} ELSE received
  /\ UNCHANGED <<durable, rows, pc, row, sweep, surfaced, files, crashes, fetches>>

\* Fault: the counters of an earlier sweep are kept.
RequestsDoneKeepsCounters ==
  /\ pc = "sending" /\ Len(draft) = NCases /\ NGroups > 0
  /\ status' = "waiting_propagation" /\ runs' = draft
  /\ schedule("logPhase")
  /\ pc' = "returned" /\ draft' = <<>>
  /\ UNCHANGED <<source_idx, attempt, report, url, row, world, fetches>>

RequestsDone ==
  /\ pc = "sending" /\ Len(draft) = NCases /\ NGroups > 0
  /\ status' = "waiting_propagation"
  /\ runs' = draft /\ source_idx' = 0 /\ attempt' = 0
  /\ schedule("logPhase")
  /\ pc' = "returned" /\ draft' = <<>>
  /\ UNCHANGED <<report, url, row, world, fetches>>

RequestsDoneWithoutLogs ==
  /\ pc = "sending" /\ Len(draft) = NCases /\ NGroups = 0
  /\ pc' = "storing"
  /\ UNCHANGED <<durable, rows, row, draft, world, fetches>>

RequestsOver == IF NGroups = 0 THEN RequestsDoneWithoutLogs ELSE RequestsDone

\* The workbook cannot be read, or the runs do not fit the stored state.
RunRequestsThrows ==
  /\ pc = "sending" /\ Len(draft) \in {0, NCases}
  /\ fail
  /\ UNCHANGED world

-----------------------------------------------------------------------------
(* logPhase *)

LogPhase ==
  /\ pc = "idle" /\ rows["logPhase"] > 0 /\ source_idx < NGroups
  /\ status' = "validating_logs"
  /\ pc' = "fetching" /\ row' = "logPhase" /\ draft' = runs
  /\ fetches' = [fetches EXCEPT ![source_idx] = @ + 1]
  /\ UNCHANGED <<runs, source_idx, attempt, report, url, rows, world>>

LogPhaseNothingLeft ==
  /\ pc = "idle" /\ rows["logPhase"] > 0 /\ source_idx >= NGroups
  /\ pc' = "storing" /\ row' = "logPhase" /\ draft' = runs
  /\ UNCHANGED <<durable, rows, world, fetches>>

\* Fault: the next firing is scheduled even after the last source.
advanceSourceAlways(rs) ==
  /\ runs' = rs /\ draft' = rs
  /\ source_idx' = source_idx + 1 /\ attempt' = 0
  /\ schedule("logPhase")
  /\ pc' = IF source_idx + 1 < NGroups THEN "returned" ELSE "storing"
  /\ UNCHANGED <<status, report, url, row, world, fetches>>

advanceSource(rs) ==
  /\ runs' = rs
  /\ source_idx' = source_idx + 1 /\ attempt' = 0
  /\ IF source_idx + 1 < NGroups
     THEN schedule("logPhase") /\ pc' = "returned" /\ draft' = <<>>
     ELSE pc' = "storing" /\ draft' = rs /\ UNCHANGED rows
  /\ UNCHANGED <<status, report, url, row, world, fetches>>

\* The source cannot be built, or its download failed.
SnapshotFails ==
  /\ pc = "fetching"
  /\ advanceSource(failGroupSnapshot(draft, source_idx))

\* The downloaded log is what has surfaced by now.
SnapshotTaken ==
  /\ pc = "fetching"
  /\ \A i \in Group(source_idx) : SourceOf[i] \in Fetchable

ValidateNow ==
  /\ SnapshotTaken
  /\ decideRetry(allPresent(draft, source_idx, surfaced), attempt)
  /\ Group(source_idx) \cap BadPattern = {}
  /\ advanceSource(validateGroup(draft, source_idx, surfaced))

\* Fault: the attempt is not counted.
RetryLaterUncounted ==
  /\ SnapshotTaken
  /\ ~decideRetry(allPresent(draft, source_idx, surfaced), attempt)
  /\ schedule("logPhase")
  /\ pc' = "returned" /\ draft' = <<>>
  /\ UNCHANGED <<durable, row, world, fetches>>

RetryLater ==
  /\ SnapshotTaken
  /\ ~decideRetry(allPresent(draft, source_idx, surfaced), attempt)
  /\ runs' = draft /\ attempt' = attempt + 1
  /\ schedule("logPhase")
  /\ pc' = "returned" /\ draft' = <<>>
  /\ UNCHANGED <<status, source_idx, report, url, row, world, fetches>>

\* new RegExp(needle) throws, or the judged runs do not fit the stored state.
LogPhaseThrows ==
  /\ pc = "fetching"
  /\ fail
  /\ UNCHANGED world

-----------------------------------------------------------------------------
(* finalizeRun, after its await on storeFile *)

StoreResults ==
  /\ pc = "storing"
  /\ files' = files + 1 /\ url' = files + 1
  /\ status' = "complete" /\ runs' = draft /\ report' = finalizeReport(draft)
  /\ pc' = "returned" /\ draft' = <<>>
  /\ UNCHANGED <<source_idx, attempt, rows, row, sweep, received, surfaced,
                 crashes, fetches>>

\* storeFile threw, or it stored the file and the final setState threw.
StoreResultsThrows ==
  /\ pc = "storing"
  /\ files' \in {files, files + 1}
  /\ fail
  /\ UNCHANGED <<sweep, received, surfaced, crashes>>

-----------------------------------------------------------------------------
(* The platform and the world *)

\* The SDK deletes the row once its callback returned.
DeleteRow ==
  /\ pc = "returned"
  /\ rows' = [rows EXCEPT ![row] = @ - 1]
  /\ pc' = "idle" /\ row' = "none"
  /\ UNCHANGED <<durable, draft, world, fetches>>

\* Eviction or crash inside a handler: its row is still there.
Crash ==
  /\ pc # "idle" /\ crashes < MaxCrashes
  /\ crashes' = crashes + 1
  /\ files' \in IF pc = "storing" THEN {files, files + 1} ELSE {files}
  /\ pc' = "idle" /\ row' = "none" /\ draft' = <<>>
  /\ UNCHANGED <<durable, rows, sweep, received, surfaced, fetches>>

\* CloudHub publishes a line of a request the API received, with any lag.
Surface ==
  \E id \in received, t \in Tokens :
    /\ <<id, t>> \notin surfaced
    /\ surfaced' = surfaced \cup {<<id, t>>}
    /\ UNCHANGED <<durable, rows, handler, sweep, received, files, crashes, fetches>>

HandlerStep ==
  \/ RunRequests \/ CallCase \/ RequestsOver \/ RunRequestsThrows
  \/ LogPhase \/ LogPhaseNothingLeft \/ SnapshotFails \/ ValidateNow
  \/ RetryLater \/ LogPhaseThrows
  \/ StoreResults \/ StoreResultsThrows
  \/ DeleteRow

Next == Start \/ HandlerStep \/ Crash \/ Surface

\* The platform delivers alarms and lets handlers run; nothing obliges a
\* client to start the job or a log line to surface.
Spec == Init /\ [][Next]_vars /\ WF_vars(HandlerStep)

-----------------------------------------------------------------------------
(* Properties *)

\* The run as its caller sees it, the state of the abstract specification.
phase ==
  CASE status = "pending" -> "idle"
    [] status \in Terminal -> status
    [] OTHER -> "active"

Run == INSTANCE SuiteRun

\* Every variable keeps its shape; in particular the stored runs and the
\* report always have one entry per case of the suite (RunnerState).
TypeOK ==
  /\ status \in JobState
  /\ runs \in Seq(CaseRun) /\ Len(runs) \in {0, NCases}
  /\ source_idx \in 0..NGroups
  /\ attempt \in 0..MaxRetries
  /\ report \in {NoReport} \cup
       [Cases -> [response : ResponseOutcome, log : LogOutcome, passed : BOOLEAN]]
  /\ url \in 0..files
  /\ rows \in [Callback -> Nat]
  /\ pc \in {"idle", "sending", "fetching", "storing", "returned"}
  /\ row \in Callback \cup {"none"}
  /\ draft \in Seq(CaseRun) /\ Len(draft) <= NCases
  /\ sweep \in Nat
  /\ received \subseteq CorrelationId
  /\ surfaced \subseteq CorrelationId \X Tokens
  /\ files \in Nat
  /\ crashes \in 0..MaxCrashes
  /\ fetches \in [0..NGroups - 1 -> Nat]

\* A job that is under way always has a schedule row left to carry it on,
\* whatever was evicted when: no handler may return, or lose its memory,
\* without one ("a run survives ... DO eviction", worker/README.md).
NoLostWakeup ==
  status \notin Terminal \cup {"pending"} => \E cb \in Callback : rows[cb] > 0

\* The results of a complete job are earned: every case that validates logs
\* was judged in its source's turn (or its source had no snapshot), no other
\* case was, and a case passed only if each of its checks did.  Violating it
\* takes a log source skipped or judged twice along several alarms.
CompleteIsEarned == status = "complete" => report \in Run!Report

\* A case whose log check passed has its expected lines in the log under the
\* very id recorded for it, never under the id of an earlier sweep of the
\* requests or of another case (validateGroup, "strict, correlation-scoped").
\* It is about jobs without the whole-log fallback, which the Worker ships on.
StrictlyScoped ==
  \A i \in DOMAIN runs :
    runs[i].log = "passed" =>
      Satisfied(i, {t \in Tokens : <<runs[i].cid, t>> \in surfaced})

\* Over the whole life of a job one source is downloaded at most
\* LOG_FETCH_MAX_RETRIES + 1 times, and at most once more than that again for
\* every handler that died: a row that fires once too often may run the
\* requests again, whose lines are then waited for anew, and the duplicate of
\* its logPhase row may be the one that throws.
RetryBudget ==
  \A g \in DOMAIN fetches : fetches[g] <= MaxRetries + 1 + (MaxRetries + 2) * crashes

\* A job stores one results workbook, plus at most one for every handler that
\* died; one that nobody links to may also be left by the write that follows it.
FewWorkbooks == files <= 1 + crashes

\* A finished run is over: "complete / error - nothing left to wait for"
\* (nextCheckSeconds), so neither the status nor the results change again.
FinishedStays ==
  [][(status \in Terminal) => UNCHANGED <<status, report, url>>]_vars

\* Every started job ends, and from then on stays ended: no eviction, late
\* log line or failing download leaves it polling or waiting for ever.
EventuallyOver ==
  (status # "pending") ~> [](status \in Terminal /\ pc \in {"idle", "returned"})

\* What an eviction can do to a job that ended: the handler fires again, takes
\* the job up or fails it, or completes it once more, with a truthful report.
Relapse ==
  /\ status \in Terminal /\ crashes > 0
  /\ \/ phase' \in {"active", "error"} /\ UNCHANGED report
     \/ phase' = "complete" /\ report' \in Run!Report

\* The object implements the run its caller was promised, until a handler that
\* died takes an ended job up again: it begins once, and each time it ends it
\* ends with an earned report exactly when it is complete.
KeepsContract == Run!AbsInit /\ [][Run!AbsNext \/ Relapse]_Run!absVars

-----------------------------------------------------------------------------
(* The inductive invariant behind the safety properties *)

\* Where a handler is, and what it may then rely on.
Control ==
  /\ pc = "idle" <=> row = "none"
  /\ pc = "sending" => row = "runRequests"
  /\ pc = "fetching" => row = "logPhase" /\ source_idx < NGroups /\ draft = runs
  /\ pc = "storing" => Len(draft) = NCases /\ source_idx = NGroups
  /\ pc # "idle" => rows[row] > 0
  /\ rows["logPhase"] > 0 => Len(runs) = NCases
  /\ status = "pending" => /\ pc = "idle" /\ files = 0
                          /\ \A cb \in Callback : rows[cb] = 0

\* The rows that will fire, or fire again: a returned handler's own is spent.
Due(cb) == rows[cb] - (IF pc = "returned" /\ row = cb THEN 1 ELSE 0)

Pending == Due("runRequests") + Due("logPhase")

Alive == status \notin Terminal \cup {"pending"} => Pending > 0

\* Evictions are the only source of surplus rows and workbooks.
Budget == files + Pending <= 1 + crashes

\* The downloads source g has left in this sweep, while logPhase is due.
Spare(g) ==
  CASE g < source_idx -> 0
    [] g = source_idx -> MaxRetries + 1 - attempt - (IF pc = "fetching" THEN 1 ELSE 0)
    [] g > source_idx -> MaxRetries + 1

\* What the downloads of source g can still amount to: a due runRequests brings
\* a sweep and a row that may throw, a due logPhase may be that row.
Owed(g) ==
  fetches[g] + (MaxRetries + 2) * Due("runRequests") + Due("logPhase")
  + (IF Due("logPhase") > 0 THEN Spare(g) ELSE 0)

Downloads ==
  \A g \in DOMAIN fetches :
    /\ status = "pending" => fetches[g] = 0
    /\ Owed(g) <= (MaxRetries + 2) * (1 + crashes)
    /\ fetches[g] < (MaxRetries + 2) * (1 + crashes)

\* The sources before the g-th were judged, the others not yet.
JudgedTo(rs, g) ==
  \A i \in DOMAIN rs :
    /\ (i \in LogCases /\ GroupOf(i) < g) <=> rs[i].log # "none"
    /\ rs[i].passed <=> rs[i].response = "passed" /\ rs[i].log \in {"none", "passed"}

Judgement ==
  /\ JudgedTo(runs, source_idx)
  /\ pc = "sending" => JudgedTo(draft, 0)
  /\ pc = "storing" => JudgedTo(draft, NGroups)
  /\ status = "complete" => report \in Run!Report

IInv == Control /\ Alive /\ Budget /\ Downloads /\ Judgement

=============================================================================
