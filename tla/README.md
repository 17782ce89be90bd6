# api-functional-testing-http: specification, model checking and proofs

The repository runs functional test suites for HTTP APIs: it reads a workbook
of cases, sends each case's request, compares the response, downloads the
application's log and looks for the lines each request should have left,
addressed by a correlation id. It exists twice: as a Python server that speaks
MCP over stdio (`src/src/api_log_test_mcp/`), and as a Cloudflare Worker in
TypeScript (`src/worker/src/`). This directory specifies the parts of both
where order, failure and concurrency matter: TLA+ modules translated from the
code, TLC runs over small instances, and proofs for every instance.

Paths below are relative to `src/`. `PROJECT.json` maps each definition to the
source lines it models.

## 1. The system

| Component | Code | State | Operations | Modelled in |
|---|---|---|---|---|
| **JobRunner** (Worker) | `worker/src/job-runner.ts`, `orchestrate.ts`, `logs/snapshot.ts` | one Durable Object per job: status, per-case runs, `source_idx`, `attempt`, report, result URL; the SDK's schedule rows | `start`, `runRequests`, `logPhase`, `advanceSource`, `finalizeRun`, `fail`, `statusPayload` | `JobRunner` |
| **Background jobs** (Python) | `src/api_log_test_mcp/server.py` | process-wide `_jobs` dictionary and its lock; per job the thread of the run and the thread of the progress bar | `run_test_suite` (start, poll), `_run_job_async`, `_update_job_progress` | `JobServer` |
| **Suite run** (Python) | `tools/orchestrate.py`, `tools/logs.py`, `cache/snapshot_store.py`, `tools/http_runner.py` | per run: case runs, current snapshot, retries; per process: the snapshot store, `_CURRENT_SUITE_PATH` | `_run`, `_run_request`, `_validate_logs_phase`, `_snapshot_with_retry`, `snapshot_logs`, `validate_logs_in_snapshot`, `discard_snapshot` | `Orchestrate` |
| **Results workbook** (Python) | `tools/results_writer.py`, `run_and_record` | the `_results` workbook, timestamped backups | seeding, backup, append of the RESULTS block, evidence tabs, verification, restoring | `ResultsFile` |
| **Log snapshot and index** | `cache/snapshot_store.py`, `worker/src/logs/snapshot.ts` | while a log is scanned: the id seen last, the lines per id so far | `from_text`, `lines_for`, `validate_logs` | the scan and its search in `CaseVerdict`; the store in `Orchestrate`, the Worker's snapshot in `JobRunner` |
| HTTP runner | `tools/http_runner.py`, `worker/src/http/runner.ts` | none | `call_api` | its outcome and the header it sends, in `Orchestrate` and `JobRunner` |
| **Anypoint log source** | `logsource/anypoint_source.py`, `anypoint_auth.py`, `worker/src/logs/anypoint.ts` | a cached token and its expiry; attempt and last status of a download | `snapshot`, `get_token`, `_current_version`, `_get_with_retry` | `AnypointLogs` |
| **Front door** (Worker) | `index.ts`, `mcp-server.ts`, `file-store.ts` | stored files with an expiry alarm; calls in progress | upload, `run_schema`, `run_suite`, `create_test_case_all`, poll, download | `FrontDoor` |
| File log source | `logsource/file_source.py` | none | `snapshot` | one of the sources of `Orchestrate` |
| **Suite parser** | `tools/suite.py`, `worker/src/suite/parse.ts` | within a reading: header map, ids seen, cases and errors so far | `read_test_suite`, `_parse_row` | `SuiteSheet` |
| **Response matcher** | `matching/response_matcher.py`, `.ts` | none | `assert_response`, `_prune`, `_compare` | `ResponseMatch`, `Matcher`, `CaseVerdict` |
| **Suite generator**, Mule applications | `tools/suite_generator.py`, `tools/mule_app.py`, `worker/src/suite/generate.ts` | within a generation: the operation it is at, the cases so far | `generate_test_suite`, `create_test_suite_from_application` and what they call | `MuleApp`, `SuiteGenerator`, `GeneratedSuite` |
| Worker workbooks | `worker/src/suite/results.ts`, `build.ts` | none | layout of a workbook | not modelled |
| Configuration, models | `config.py`, `models.py`, `models.ts` | none | declarations | constants of the modules |

How they interact. A client starts a job and polls it by id. In the Python
server the starting call makes a record, starts two threads and returns the id;
one thread carries out `run_and_record` (`Orchestrate` up to the report, then
`ResultsFile`) and replaces the record when it ends, the other moves the
percentage meanwhile. Concurrent runs share the record table, the snapshot
store, one environment variable and, for one suite, the results workbook. In
the Worker each job is an object of its own that shares nothing: `start`
schedules `runRequests`, which schedules the first `logPhase`, and every
further download of a log is one more scheduled alarm, until `finalizeRun`
stores the workbook and sets the final status. Suites and results lie in
`FileStore` objects, one per file, written and expiring on their own. Every
download of a log builds a new log source with a token provider of its own.

What is hard, and what makes each part correct:

* **JobRunner.** Handlers can die at any await and are then run again from the
  top, with the durable state some earlier step left; log lines surface with
  any lag, also lines of an earlier sweep of the requests; counters are carried
  from alarm to alarm. Correct means that a wake-up is never lost, the report is
  earned case by case, a log verdict rests on the case's own lines, repeated
  work is bounded by the number of evictions, and every job ends.
* **Background jobs.** Three threads and a poll touch one record, and the poll
  serialises it after it let go of the lock. Correct means that nobody sees a
  run go backwards, an end taken back or a report out of place, that a client's
  job ends, and that a "running" is backed by a thread.
* **Suite run.** Runs share a store and an environment variable, and snapshots
  are whole logs. Correct means that snapshots and ids are not mixed up, none
  outlives its run, a failed verdict is honest, and waiting ends.
* **Results workbook.** Writes are not atomic and not locked, and are verified
  after the fact. Correct means that nothing that was recorded is lost, and the
  case rows can be had back, whatever is cut short.
* **Front door.** The call, the job and each stored file are separate objects
  that die separately, and files expire. Correct means that an id a client was
  told serves until it expires, that nothing stays for ever, and that polling
  ends.
* **Anypoint log source.** Tokens expire or are revoked on the way, requests are
  throttled, and the application may be redeployed meanwhile. Correct means that
  no dead token is presented, the log is that of a current version, every attempt
  is used, and the download ends.
* **Suite parser.** Bad rows, duplicate ids, aliases and appended results are all in
  one sheet. Correct means that the cases are the first well-formed row of each id
  above the results, and that no row is dropped without an error.
* **A case's verdict.** Templates, positional lists and ignored paths meet in one
  recursive comparison; lines of several requests, heartbeats and stack traces
  interleave in one log. Correct means that a body passes exactly when it meets the
  demands of its expectation, and that a log verdict rests on lines its own
  request wrote.
* **Suite generator.** A negative case is a valid request changed in one of many places.
  Correct means that every rule is probed by a case that breaks it and nothing
  else, that an API which implements its document passes, and that a branch case takes
  its branch.

The full list of hazards, each at its line, is in `PROJECT.json`.

## 2. The modules

### SuiteRun: what a run promises

The abstract specification shared by both implementations: a run begins once,
ends once as `complete` or `error`, its end is final, a report exists exactly
when it is complete, and the report has one *earned* entry per case: the case
was judged against logs if and only if it asked for it, and it is reported as
passed if and only if every check it asked for passed (`CaseReport` in
`worker/src/models.ts`, `models.py`).

### JobRunner: one Durable Object

Variables are the fields of `RunnerState` under their own names, the schedule
rows per callback (`rows`), the handler in progress (`pc`, `row`, its local
`draft`), and the world: requests that reached the API, lines that surfaced,
workbooks stored. A handler is split exactly at its awaits:

| Action | Code |
|---|---|
| `Start` | `start()`; the RPC's two statements, `setState` and `schedule`, between which the object cannot be evicted with a committed half |
| `RunRequests`, `CallCase`, `RequestsOver` (`RequestsDone` or `RequestsDoneWithoutLogs`), `RunRequestsThrows` | `runRequests` and `runRequestsPhase`: one step per request, the last one stores the runs, resets the counters and schedules `logPhase`, or goes on to `finalizeRun` |
| `LogPhase`, `LogPhaseNothingLeft`, `SnapshotFails`, `ValidateNow`, `RetryLater`, `LogPhaseThrows` | `logPhase` before and after its awaited download, with `decideRetry`, `validateGroup`, `failGroupSnapshot` and `advanceSource` inside the step |
| `StoreResults`, `StoreResultsThrows` | `finalizeRun` after its await on `storeFile` |
| `DeleteRow`, `Crash`, `Surface` | external: the SDK deletes a row after its callback returned; an eviction loses the handler and keeps the row; a line becomes visible |

A correlation id is a pair of a case and the sweep of the requests it was made
in, since `newCorrelationId` is fresh on each sweep. A row that sets
`X-Correlation-ID` itself is logged under that header while the generated id is
recorded (`OwnHeader`). The text of a line is a token; `Satisfied` is
`validateLogs` with `all_of` and `any_of`.

### JobServer: the jobs of the Python server

A job record is a dictionary that is mutated in place (`first`) until the end
of the run binds the id to a new one (`last`); `table` says which of the two an
id is bound to. Every block under `_jobs_lock` is one step. A poll is two: it
looks a reference up, and serialises what the reference holds by then. The
threads are `worker` (`_run_job_async`) and `updater`
(`_update_job_progress`); `starter` is the handler of the starting call, which
can fail after the record was made. `Restart` kills the process. The run
itself is one step here, `WorkerEnds`; `Orchestrate` and `ResultsFile` open it.

### Orchestrate: runs of a suite in one process

One `pc` per run, and one step per call that shared state or the world can
interleave with: `Enter` sets the environment variable, `ReadSuiteRaises` is a
workbook that is gone by then, `CallCase` sends one request and `RequestsDone` ends
them. Then, for each source in first-seen order, `Download` (which builds the source,
looking up the application by the environment variable when the suite has no log
URL: `Target`) or `DownloadFails`, and `Retry`, `Validate` or `ValidateRaises`. `Finish`
is the `finally` and the report. `Unfindable` cases are those whose lines are not
indexed under the recorded id: a row sets the header itself, or its `test_id` has a
character the correlation pattern stops at. Expectations are `all_of`; the other
modes are in `CaseVerdict`.

### ResultsFile: the workbook and its backups

`run_and_record` after the report: `CheckExists`, seeding (`Truncate`,
`SeedCopied`), then for the RESULTS block and again for the evidence tabs
`TakeBackup`, `ReadCases`, `LoadWorkbook`, `Truncate`, `WorkbookSaved`,
`Verify`, and `DropBackup` or `RestoreBegins`, `Restored`. Opening a file for
writing truncates it, so a write is two steps with a torn file in between. Any
file operation may raise, and the process may die, at any step. A workbook is
its case rows (intact or altered), the set of RESULTS blocks in it and the run
whose evidence it shows.

### FrontDoor: files, calls and jobs as clients meet them

A `FileStore` object is the keys it has (`blob`, `meta`), the ticks until its
alarm (`due`) and where its `store()` is (`writer`): `PutBlob`, `PutMeta`,
`SetAlarm`, or `StoreBreaks`, which leaves what was written and throws at the
caller. A call is a `pc`: an upload (`POST /files`, `create_test_case_all`), or a
run (`run_schema`, which stores its suite first, or `run_suite` by id or with
the bytes), then `StartJob`, `Answer` after the wait inside the call, and `Poll`.
`CallLost` ends a call without ending what it set in motion. A job is its
status, its schedule row and the workbook it stores; `JobEvicted` runs the last
handler again, also after it had ended the job, as `JobRunner` shows it may.

### AnypointLogs: one download

`Begin`, then for the deployment's version and for each attempt at the log file a
token (`UseCachedToken`, or `PostCredentials`, `TokenIssued`, `TokenReceived`),
then the answer: `VersionFound`, `VersionNotFound`, `LogDownloaded`, `LogNotYet` with
its back-off, `LogRefused`. A token's life is counted by the platform from when
it was issued and by the provider from when it arrived, so the two differ by what
the answer took. Statuses are `200`, `401`, `busy` (429, 500, 502, 503: those that
are retried) and `refused` (all others).

### SuiteSheet: reading a suite

A reading is a scan: `FindHeader` (with the metadata above and the columns of the
first header row), then one action per kind of row, `SkipBlank`, `StopAtResults`,
`MissingId`, `DuplicateId`, `RowErrors`, `RowRaises`, `AddCase`, up to `EndOfRows`. The
sheet is any sequence of a few rows; what their cells mean (which name a field,
which a field's coercion rejects, which begin with "results") is given by constants, so
that one row can be good under one header and bad under another. The Worker's
parser is a port that differs in one place: `Overflow` is empty there.

### ResponseMatch, Matcher and CaseVerdict: one case's verdict

`ResponseMatch` has `_prune` and `_compare` over documents (objects, lists, scalars,
the wildcard `<<any>>`), and beside them a reference that shares nothing with them: an
expectation is a set of demands, each at a path, and a body fits when it meets each
of them. All of these recurse. `ResponseMatch` gives the body of each, with the recursive
call as a parameter (`CompareBody(compare, e, a, subset)`); `Matcher` closes the
recursion (`Compare`), for TLC to compute; and `CaseVerdict` takes functions that satisfy
the equations (`ASSUME CompareOK`: `compare(e, a, subset)` is its body), which is all a
proof needs of them. The configurations of `MCCaseVerdict` and `MCGeneratedSuite` put the
functions of `Matcher` in their place, and TLC evaluates the equations for them.
`CaseVerdict` is the way of one case: `AssertResponse`, `WaitForLogs`, `Download`, then the scan of the log line by
line (`CarriesId`, `NewEvent`, `Continues`, `NextInstance`, one per branch of
`_build_index`), and `Validate`. A line also knows which request wrote it, which the
scan does not see; the properties compare the two.

### MuleApp, SuiteGenerator and GeneratedSuite: generated suites

`MuleApp` says what is read from the source of an application: flows by
endpoint, loggers, payloads, the arms of a `choice`, the error envelope.
`SuiteGenerator` builds a suite operation by operation (`BuildOperation`), then the
router's failures (`FrameworkErrorCases`), or, when no document is found
(`LocateOas`), cases from the flows alone (`FlowCases`). A case is the valid request
of its operation with one change, what it expects, and the log strings it demands; a
pattern is the set of strings it accepts. Of a parameter
that is an array only the presence is probed, as in the code (`ScalarNegatives`); the
keywords of arrays are probed in bodies (`ArrayNegatives`). `GeneratedSuite` is the other
side, which is external: the faults an API that implements the document finds in a request,
and every answer such an API may give.

`SpecsOK` and `AppsOK` say which documents and applications are meant: a keyword
stands on a schema of the type it is for, bounds of lengths are not negative, the value
the generator makes to break a rule does break it, parameters are in the query, the
headers or the path, and payloads are one object each. A property about one operation or
endpoint has the conditions under which the generator can know better, each by name:

| Condition | In | Without it |
|---|---|---|
| `ValidKnown` | `EveryRuleProbed`, `OneFaultPerCase`, `DeclaredAnswersPass` | the valid request the cases start from is already invalid (a `pattern` without an example) |
| `~Hidden` | `EveryRuleProbed` | the cases about the body and its media type are sent without the required headers; such a case gets its 400 also from an API that forgot the rule (finding 3) |
| `AsAsked` | `OneFaultPerCase`, `DeclaredAnswersPass` | the same cases are wrong in two places; the id of the 404 probe may be one the document forbids; so may the value a guard asks for (`GuardsAllowed`) |
| `expected # Null` | `DeclaredAnswersPass` | a case without an expectation passes for no answer (finding 3) |
| `OnePayload` | `DeclaredAnswersPass` | the payload expected is that of the last flow that has one, also when a flow or a branch answers with another; one without any string is taken for none |
| `Plain` | `BranchesReached` | two arms ask for the same, or two flows serve one endpoint, and the later one is never taken |

The `MC*` modules define the values the configurations give the constants.
Operators marked `Fault:` are plausible mistakes in the definition that
follows them; they are used by no specification, only to confirm that each
property notices the mistake (`PROJECT.json`, "mutants").

## 3. The runs

| Run | Instance | Shows |
|---|---|---|
| `worker_crash` | two cases of two sources, the second of which cannot be fetched; the second case has a correlation header of its own; one retry, one eviction at any point | type invariant; `NoLostWakeup`, `CompleteIsEarned`, `StrictlyScoped`, `RetryBudget` over all sweeps, `FewWorkbooks`; the contract (`KeepsContract`) up to relapses; and `EventuallyOver` under fair handlers |
| `server_jobs` | two jobs, clock readings 0 and 2, one restart | `PollIsCoherent`, `RunningIsBacked`, `PollsGoForward`, the contract (`KeepsContract`) up to a restart, and `ToldJobsEnd` |
| `suite_pair` | two runs against one application, one of which has two sources, the second with a regex that does not compile and lines that cannot be found; one retry | type invariant; `SnapshotsDiscarded`, `StrictlyScoped`, `FailsHonestly`, the contract (`KeepsContract`) of each run, and `EveryRunEnds` |
| `suite_env` | two runs against different applications | **finding**: a run downloads another run's log |
| `results_serial` | three recordings in turn, one failing operation, one crash, saves that may alter the case rows | `NothingLost`, `CasesRecoverable`, `LatestIsShown`, `AlteredOnlyWhenCutShort` |
| `results_overlap` | two recordings at the same time | **finding**: a run that was reported complete is not in the workbook |
| `frontdoor_files` | one upload and one run, files that live two ticks, one death anywhere | `ToldFilesServe`, `OrphansAreCrashes`, `ToldFilesExpire`, `PollsEnd` |
| `anypoint_download` | three attempts, tokens that live two, three or four ticks against a skew of three, one revocation, one redeployment | `DeadNeverPresented`, `FreshVersion`, `GivesUpLast`, `SnapshotEnds` |
| `suite_sheets` | every sheet of up to five rows out of eleven kinds | `CasesAreFirstGoodRows`, `EveryRowAnswered` |
| `verdict` | every pair of small nested documents under every mode and nine choices of ignored paths; every log of one or two instances of up to two events, which may begin inside an event | `VerdictMeansDemands`, `IgnoringOnlyRelaxes`, `LogVerdictIsEarned` |
| `generated` | documents of two operations with every mix of six parameters and a path parameter, every body with every kind of answer, twelve applications or none | `EveryRuleProbed`, `OneFaultPerCase`, `DeclaredAnswersPass`, `BranchesReached` |
| `generated_declared` | one operation with a required header, a body and no body in its answer; no application | **finding**: an API that implements the document fails cases of its suite |

**Bounds.** Two cases tell "my lines" from "another case's lines"; two sources
show an order, a hand-over and a last one; that grouping is by first sight, for any
number of cases, is in the proofs. One retry separates "first attempt", "a retry"
and "budget used up". One eviction at any
point of any handler reaches every combination of stored state and re-fired
row once, a second sweep of the requests with downloads of its own among them; the
budgets count evictions, so a second one only adds its own share, and the theorems cover
any number. `any_of` is in the proofs of `JobRunner` and not in its run, which has
one line to look for.
The clock of the progress bar has two readings, far enough apart that the
percentage passes its cap for one job and not for the other. For recordings,
one failure *and* one crash in the same behaviour cover a fault during the
recovery from a fault, and three recordings let a later one meet what two
earlier ones left. An upload and a run are the fewest calls in which a suite can expire
between being told and being loaded; a life of two ticks tells "not yet" from
"just now". A skew of three ticks against trips of at most one meets a token
that dies on the way (two), one that is never cached (three) and one that is
(four). Five rows are a header, a bad and a good row of one
id, a results row and a row below it. Documents go down to an object in a list
in an object, where templates, positions and paths meet; logs go up to the end of one
event, a whole one and the beginning of the next. The two operations generated differ in
every rule the generator knows, and the second one shows that cases keep to their own
operation. `CHECK_DEADLOCK FALSE` is set everywhere because every
part may rest: a job nobody starts, a run that is over, a recording that is
done.

**Assumptions on recordings.** When recordings are taken one after the other
(`Overlap = FALSE`), a recording is assumed to begin in a later second than
any backup that is still there was named in: backup names have a resolution of one
second, and a recording that begins in the very second in which another failed
would overwrite its backup. This is listed as a hazard.

## 4. Fairness

* `JobRunner`: weak fairness of `HandlerStep` as a whole. The platform delivers
  alarms and runs handlers; every download and request has a timeout, and one
  handler runs at a time. (The Worker clears a request's timer when the headers are
  there, `http/runner.ts:54`, and reads the body without one: that a body ends is an
  assumption on the tested API or the platform.) There is none for `Start` (a client may never call
  it), `Surface` (a line may never become visible) or `Crash`. The bound on crashes
  is what lets liveness hold: an object evicted for ever makes no progress.
* `JobServer`: weak fairness per thread: a thread that can run is scheduled. The
  run ends because each request and download has a timeout and retries are
  bounded (`EveryRunEnds` of `Orchestrate` shows that part). None for clients,
  for the clock or for restarts.
* `Orchestrate`: some thread that can go on does (`WF` of the steps of all runs
  taken together); each run has finitely many steps, so none is passed over for
  ever. None for `Surface` or `Enter`.
* `FrontDoor`: weak fairness of each file's, call's and job's steps, alarms among
  them, and of time. A client that was told when to come back does; none
  has to call in the first place.
* `AnypointLogs`: weak fairness of the source's steps: a request is answered or
  times out, and a sleep ends.
* `ResultsFile`, `SuiteSheet`, `CaseVerdict`, `GeneratedSuite`: safety only, no fairness.

## 5. What is proved

Eight modules of proofs are checked by TLAPS for every value of the constants; each is
beside the module it is about, and `RunInputsProofs` is about two: `SuiteSheet` and
`AnypointLogs`, what a run takes in. TLC evaluates the assumptions on the constants in the
runs of each module. Most are the shapes of the constants and, where a constant stands
for None or for a missing file, that it is not one of the values it is told apart from
(`ConstantsOK`, `ServerShape`, `SuitesOK`, `ResultsShape`, `NoWorkbook`, `FrontDoorShape`,
`SourceShape`, `SheetShape`, `IdsOK`, `PathsOK`). The others say something of the world:

* `DocsOK`: a document is finite, its parts are nested less deep than it is.
* `PruneOK`, `CompareOK`, `DemandsOK` of `CaseVerdict`, and `CompareOK` of `GeneratedSuite`:
  the recursive functions satisfy their own equations on the documents there are.
* `LogsOK`: a log is written as the comment in `snapshot_store.py` says: an id a line
  shows is that of the request that wrote it, and a line without a timestamp
  continues the event before it.
* `SpecsOK`, `AppsOK`: the documents and applications described in section 2.

| Module | Theorem | Statement |
|---|---|---|
| `JobRunnerProofs` | `TypeCorrect` | `Spec => [](TypeOK /\ Control)` |
| | `WakeupKept` | `Spec => []NoLostWakeup` |
| | `ResultsEarned` | `Spec => []CompleteIsEarned` |
| | `RetriesBounded` | `Spec => []RetryBudget` |
| | `WorkbooksBounded` | `Spec => []FewWorkbooks` |
| | `PassesScoped` | `~Fallback => (Spec => []StrictlyScoped)` |
| | `ContractUpToRelapses` | `Spec => KeepsContract` |
| | `ContractWithoutEvictions` | `MaxCrashes = 0 => (Spec => Run!AbsSafety)` |
| `JobServerProofs` | `PollsAreCoherent` | `Spec => []PollIsCoherent` |
| | `RunningBacked` | `Spec => []RunningIsBacked` |
| | `PollsForward` | `Spec => PollsGoForward` |
| | `JobsKeepContract` | `Spec => KeepsContract` |
| `OrchestrateProofs` | `RunsTyped` | `Spec => []TypeOK` |
| | `PassesScoped` | `Spec => []StrictlyScoped` |
| | `SnapshotsBounded` | `Spec => []SnapshotsDiscarded` |
| | `HonestWhereOneTarget` | `(\A j \in Jobs : OneTarget(j)) => (Spec => []FailsHonestly)` |
| | `RunsKeepContract` | `Spec => KeepsContract` |
| `ResultsFileProofs` | `BlocksSurvive` | `~Overlap => (Spec => []NothingLost)` |
| | `CasesSurvive` | `~Overlap => (Spec => []CasesRecoverable)` |
| | `LatestShown` | `~Overlap => (Spec => []LatestIsShown)` |
| | `AlteredIsBlamed` | `~Overlap => (Spec => []AlteredOnlyWhenCutShort)` |
| `FrontDoorProofs` | `ToldServed` | `Spec => []ToldFilesServe` |
| | `OrphansCost` | `Spec => []OrphansAreCrashes` |
| `RunInputsProofs` | `FirstGoodRows` | `Spec => []CasesAreFirstGoodRows` |
| | `RowsAnswered` | `Spec => []EveryRowAnswered` |
| | `TypeCorrect` | `Spec => []TypeOK` |
| | `TokensAlive` | `DownloadSpec => []DeadNeverPresented` |
| | `VersionFresh` | `DownloadSpec => []FreshVersion` |
| | `AttemptsUsed` | `DownloadSpec => []GivesUpLast` |
| | `DownloadTyped` | `DownloadSpec => []DownloadTypeOK` |
| `CaseVerdictProofs` | `VerdictByDemands` | `Spec => []VerdictMeansDemands` |
| | `IgnoringRelaxes` | `Spec => []IgnoringOnlyRelaxes` |
| | `VerdictEarned` | `Spec => []LogVerdictIsEarned` |
| | `IndexExact` | `Spec => []IndexIsExact` |
| `GeneratedSuiteProofs` | `EveryRule` | `Spec => []EveryRuleProbed` |
| | `OneFaultEach` | `Spec => []OneFaultPerCase` |
| | `DeclaredPass` | `Spec => []DeclaredAnswersPass` |
| | `BranchReached` | `Spec => []BranchesReached` |

The conditions of the conditional ones are where the property really depends on them: the
whole-log fallback (item 7 of section 6), evictions (item 4), recordings that
overlap (finding 2), and a suite whose log is looked up while runs test different
applications (finding 1). `OneTarget(j)` says that the run's log cannot be mistaken: its
suite names the URL, or none of its sources is looked up, or all runs test one
application.

None of the properties is inductive; each module of proofs has an invariant (`IInv`, `Inv`
or `GenInv`) that is. The step lemmas have one step per action.

**JobRunner** (`IInv` at the end of `JobRunner`: `Control /\ Alive /\ Budget /\
Downloads /\ Judgement`).

* `Control` says where a handler is and what it may rely on: a running handler's
  row is still in the table; `logPhase` rows exist only once the runs are
  stored; `draft` equals the stored runs during a download; a handler stores
  results only past the last source.
* `Alive` strengthens `NoLostWakeup`. A handler that has returned still has its
  row, which is about to be deleted; so what has to be positive is `Pending`,
  the rows that will still fire.
* `Budget` is an accounting argument. `files + Pending <= 1 + crashes`: a row is
  either spent on a workbook or handed on, and only an eviction duplicates one.
* `Downloads` is the same argument for the downloads of one source over all sweeps.
  `Owed` adds to those already begun what the rows that will still fire can bring:
  a `runRequests` row a sweep of `MaxRetries + 1` attempts and a `logPhase` row that may be
  evicted in a download, a `logPhase` row the attempts `Spare` has left. A sweep begins
  with the counters reset, but it takes a `runRequests` row, and only an
  eviction brings a second one: so each eviction adds `MaxRetries + 2`, and no more.
* `Judgement` says that exactly the sources before `source_idx` have been judged,
  and that each case's `passed` is the conjunction of its checks so far.

`PassesScoped` adds that the stored runs, the handler's draft and the report are scoped
each, and that lines only ever become more. `ContractUpToRelapses` is the
safety part of the refinement with evictions: whatever was evicted, a job keeps the contract
until it ends; item 4 of section 6 is a `Relapse`, a step of an ended job, and the theorem
says that one needs an eviction and can only take the job up again, fail it, or complete it with a
truthful report. It rests on `Final`: as long as nothing was evicted, a job that ended
has no row left that would fire. `ContractWithoutEvictions` follows.
The lemmas about the data say that a case's group lies in `0..NGroups-1`
(`LeastElement`, from the well-foundedness of `<` on the naturals), and that judging a
group changes only its cases and extends what is judged by one group.

**JobServer.** Per job: `Shapes` (the dictionary of the handler says "running" for as
long as it lives, that of the end never does), `Lags` (the percentage is no more than the
clock allows, which needs that the estimate grows with time: `PercentGrows` over
`DivisionMonotone`), `Lives` (which dictionary is bound to the id follows from how far the
threads are) and `Shown` (what a client saw is no more than what the record says
now). `PollsForward` needs the last one: a poll reads after it let go of the lock.

**Orchestrate.** `TypeOK`, `UniqueIds` of snapshots, and per run `Progress`, `Judged` (a
case has a log verdict exactly when its source was dealt with), `Reported`, `Owned` (what
the store has of a run is what the run will discard) and `Counted`. One lemma says that a
step of one run leaves all that is another's alone, which reduces each conjunct to the run
that moves. `HonestWhereOneTarget` adds `Faithful`: the snapshot a run checks is what its
own application showed.

**ResultsFile.** `Serial` and `FreshNames` say that one recording at a time works, with
backup names of its own; `Phase` says, per step of a recording, what is in the file, the
backup and the memory; `Safe` strengthens `NothingLost` and `CasesRecoverable` to "the
backups alone suffice while a backup is held", which is what keeps them through a
torn write; `Blamed` and `Marked` do the same for the other two.

**FrontDoor.** `Written` says what a file's object holds at each point of its `store()`,
`Known` that only files that were stored to the end are told of or used, and `Paid` that
each `store()` that was cut short cost a crash.

**AnypointLogs.** `Control` ties `asked` to `attempt`, `Life` bounds how long before its
expiry a token can have been received and sent, `Numbers` orders tokens so that a rejected
one can only be the cached one, and then is to be refreshed; `Versions` carries
`version >= first` over the attempts.

**SuiteSheet.** `ReadSoFar` is the two properties with "the row being read" for "the end
of the sheet": the cases are the first well-formed rows above `at`, and every row above it
is a case or has an error.

**CaseVerdict.** Two arguments meet here.

* *The comparison.* That `compare` finds nothing exactly when every demand is met is
  proved for one level of a document from the same of its parts (`ObjectAgrees`,
  `ListAgrees`, `ScalarAgrees`; `ObjectRelaxes`, `ListRelaxes` for ignored paths). What would
  be an induction over documents is a least counterexample: among the depths of the
  documents for which the statement fails there is a least one (`LeastElement`, from
  the well-foundedness of `<` on the naturals), whose parts are less deep and so agree
  (`AllAgree`, `AllRelax`; `AllPrune` does the same for the number of ignored paths). The
  functions enter through their equations only.
* *The scan.* `ScanInv` says of the lines already read what `IndexIsExact` says of the log at
  the end: a line is under an id exactly if that id was the last one shown up to it,
  with no timestamp since, and `current` is the id the next continuation line goes to.
  With `LogsOK` a line under an id was written by that id's request (`UnderItsWriter`), and
  the lines of an event with a head are under their id (`HeadedIsUnder`), which
  is what `LogVerdictIsEarned` needs in either direction.

**GeneratedSuite.** `GenInv` says of the cases made so far that every rule of the
operations done has a case that was made for it, and that each case is `Fine`: it expects
what its operation answers, is wrong in at most one place if it is as asked, expects the
status for that, and, if it is of a branch, sends what the guard asks for. The work is in the lemmas on which the step that
builds an operation rests: a request changed in one place has the faults of that place
and no others (`ParamLocal`, `BodyLocal`, `FieldLocal`); the value made to break a
keyword breaks it (`ViolationBreaks`); leaving out a required field is that one fault.
`DeclaredPass` adds what the matcher makes of an answer: the documents the generator expects
are flat, so that the equation of `compare`, used at most three times, decides each of
them (`FlatAgree`, `SuccessAgrees`, `FailureAgrees`), and that the payload expected is the one the endpoint sets (`FlowSets`).

Model-checked only: everything under fairness (`EventuallyOver`, `ToldJobsEnd`,
`EveryRunEnds`, `ToldFilesExpire`, `PollsEnd`, `SnapshotEnds`), which is out of the prover's reach. So is what a recursive definition computes
for every input: that the functions of `Matcher` satisfy their equations is what TLC
evaluates on the documents of the runs and what the proofs assume of theirs. Every
invariant a passing run checks is proved, some of them under a condition that
the run fixes too: `JobRunner`'s `StrictlyScoped`, `Orchestrate`'s `FailsHonestly` and the
properties of `ResultsFile`.

## 6. Where the code and its documentation part ways

1. `suite_env`. `_CURRENT_SUITE_PATH` is process-wide; a concurrent run
   overwrites it between another run's beginning and its log lookup.
2. `results_overlap`. Load, change and save without a lock lose a RESULTS block.
3. `generated_declared`. Two comments of the generator promise more than it does, and
   `ConformingApiPasses` holds it to both:
   - "Required headers are sent on every case" (`suite_generator.py:594`), but the cases
     about the body and its media type (695-764) are sent with the `Content-Type` alone.
     The 415 probe of an operation that requires a header may be answered 400, and
     the other cases get their 400 also from an API that forgot the rule they probe.
   - "(else no expectation at all)" (`suite_generator.py:507`): `_success_kwargs`
     (512-520) leaves the expectation out but keeps the comparison in `json_subset`, where
     none is compared as null. The success case of an operation that declares no body
     fails whatever the API answers.

Met while modelling and not the subject of a run of their own:

4. A handler of a JobRunner that has completed the run and is evicted before its
   row is deleted fires again; neither handler looks at the status first. A
   run reported `complete` goes back to `running`, sends all its requests again
   and may end in `error`, while `job-runner.ts:133` calls `complete` and `error`
   states with nothing left to wait for. `FinishedStays` states the latter; checked
   as a property with `MCJobRunner_crash.cfg` it fails. It rests on how the agents SDK
   deletes rows. The invariants above hold all the same, which is why the
   proofs do not need a terminal status to stay terminal.
5. A regex that does not compile raises outside every `try` of a run
   (`ValidateRaises` in `Orchestrate`): the whole suite ends in `error`, without a
   report, after all requests were sent, against "Each case is isolated so one
   failure never aborts the run" (`orchestrate.py:12`).
6. `write_results` verifies and restores only after a save that returned; one that
   raises (`OperationRaises` in `ResultsFile`) leaves a torn workbook, against "the
   sheet is never left corrupted" (`results_writer.py:15`). Later runs of the suite
   then fail. Nothing is lost, as `NothingLost` and `CasesRecoverable` show:
   the backup is beside it.
7. In the Worker the whole-log fallback is on unless it is
   configured off, and then `StrictlyScoped` does not hold: the verdict on a case
   without lines is taken from other cases' lines. `orchestrate.ts:11` speaks of
   strict, correlation-scoped matching. All runs have `Fallback = FALSE`, which is
   what the Python orchestration passes; set it to `TRUE` in
   `MCJobRunner_crash.cfg` to see the counterexample.
8. An unknown `job_id` is a 404 over HTTP (`index.ts:73-80`) and a pending job with
   `next_check_seconds` 5 over MCP (`mcp-server.ts:190-194`), which a client may poll
   for ever. `PollsEnd` is about ids that were given out.
9. `_as_int` does not catch the `OverflowError` of `int(float("1e999"))`: one bad row
   aborts the reading of the suite (`RowRaises`), against "Bad rows never abort the
   parse" (`tools/suite.py:6`). The Worker's `asInt` makes it an error of the row.
10. Ignoring a list position moves the elements behind it: `[1, 1]` against `[1, 1, 2]`
   with "0" ignored becomes a template of one element that every element has to match,
   so a case that passes without the ignored path fails with it. `IgnoringOnlyRelaxes` is
   stated for keys and wildcards only.
11. `foo.xlsx` and `foo_suite.xlsx` in one directory both record into
   `foo_results.xlsx` (`orchestrate.py:85`), which is seeded from whichever ran first.
12. `README.md:153-156` says results are appended to the same sheet; the code writes a
   results workbook next to it, which is what `ResultsFile` models.

## 7. Not modelled, and why

Texts (details, evidence, phase descriptions), the layout and styling of
workbooks (`worker/src/suite/results.ts`, `build.ts`) and the encoding of bodies are
data no property is about. `get_auth_token` is a stub that always raises; it is one of the
outcomes of a request. `config.py` and the two `models` files are declarations: what of
them matters is a constant of some module. Recording to a CSV or an unknown suffix is
not reachable from a run: the parser refuses the suite first. The job table of the SDK and
the Durable Object storage are external and modelled by the guarantees the Worker
relies on. A Worker suite without log validation is in `JobRunner`
(`RequestsDoneWithoutLogs`) and in its proofs; no run has one.

Abstracted in the generator: the number, title and wording of a case and the sheet it
is written to; nested fields, whose rules the code does not probe either; string formats;
base paths; cyclic `$ref`s; text in log strings. A document's error bodies are
taken to be `{status, error}` where it declares none. In the matcher, Python's
`1 == True` is left out, and what a JSON schema validator finds is any outcome. Logs are
taken to begin each event with a timestamp, which is what the scan assumes.

Limits of the generator that the properties are stated around, because they are how
it works: it has no value for a `pattern` without an example; `minItems`, a `minLength` of
one, nested fields and the keywords of parameters that are arrays are not probed; the 404 probe
may break a rule of its id (`AsAsked`); the payload a branch case expects is that of
the last flow of its endpoint, also when an earlier flow or another branch sets its own, and
one without any string is taken for no expectation (`OnePayload`); the value of a guard is
sent also when the document forbids it (`GuardsAllowed`); a baseline body may trigger a branch
by itself; a 405 probe falls back to `DELETE` even if that is in use. An API that implements
its document may fail a case where one of the conditions named here does not hold; the two
that contradict a comment, the required headers and the missing expectation, are finding 3.

## 8. Plan

All modules planned are written: `SuiteRun`, `JobRunner`, `JobServer`, `Orchestrate`,
`ResultsFile`, `FrontDoor`, `AnypointLogs`, `SuiteSheet`, `ResponseMatch`, `Matcher`,
`CaseVerdict`, `MuleApp`, `SuiteGenerator`, `GeneratedSuite`; and so are the proofs of all
safety properties. What could follow:

1. The lookup of an unknown job id over MCP as part of `FrontDoor`, once the code
   answers it as it does over HTTP; `PollsEnd` then covers every id.
2. `IgnoringOnlyRelaxes` for list positions, once the code is changed as item 10 of
   section 6 suggests, and `ConformingApiPasses` in place of `DeclaredAnswersPass`, once
   the generator does what the comments of finding 3 say.
3. Backups named with more than a second's resolution would let `results_serial` drop its
   assumption on the clock.
