---------------------------- MODULE Orchestrate -----------------------------
(***************************************************************************)
(* Runs of a suite in the Python server (_run and what it calls in         *)
(* src/api_log_test_mcp/tools/orchestrate.py, tools/logs.py and            *)
(* cache/snapshot_store.py): each in a thread of its own, all of one       *)
(* process, sharing the snapshot store and one environment variable that   *)
(* names "the current suite".  Each runs a suite of its own against an     *)
(* application, whose log lines surface with any lag.                      *)
(***************************************************************************)
EXTENDS Integers, FiniteSets, Sequences

CONSTANTS
  Jobs,
  App,          \* job -> the application its suite tests
  SuiteUrl,     \* the jobs whose suite has an application_logs_fetch_url row
  SourceOf,     \* job -> case -> its log_source, or NoLog when validate_logs is no
  NoLog,
  Resolving,    \* the sources whose URL may have to be resolved (anypoint)
  Tokens,       \* what a log line can contain, as far as expectations go
  Expected,     \* job -> case -> expected_log_strings, a subset of Tokens
  BadPattern,   \* <<job, case>>: a regex expectation re.compile rejects
  Unfindable,   \* <<job, case>>: its lines are not indexed under the recorded id:
                \* the row sets the header itself, or its test_id has a
                \* character the correlation pattern stops at
  MaxRetries,   \* log_fetch_max_retries
  NoReport      \* None

Cases(j) == DOMAIN SourceOf[j]
AllCases == UNION {{j} \X Cases(j) : j \in Jobs}

ASSUME SuitesOK ==
  /\ DOMAIN App = Jobs /\ SuiteUrl \subseteq Jobs
  /\ MaxRetries \in Nat
  /\ DOMAIN SourceOf = Jobs /\ DOMAIN Expected = Jobs
  /\ \A j \in Jobs : /\ Len(SourceOf[j]) \in Nat /\ Cases(j) = 1..Len(SourceOf[j])
                     /\ Expected[j] \in [Cases(j) -> SUBSET Tokens]
  /\ BadPattern \cup Unfindable \subseteq AllCases

VARIABLES
  (* The process. *)
  env,          \* os.environ["_CURRENT_SUITE_PATH"], as the application of the
                \* project it points into
  store,        \* _STORE
  (* Each run's thread. *)
  pc,
  runs,         \* the outcome of each case so far
  done,         \* the sources that were dealt with
  tries,        \* re-downloads of the current source
  sid,          \* the current snapshot
  active,       \* active_snapshots
  report,
  (* The world. *)
  received,     \* <<job, case>>: the log-validated requests that reached the API
  surfaced,     \* <<job, case, token>>: lines visible in the application's log
  (* History. *)
  visible,      \* what its own application's log showed when its current source
                \* was last downloaded
  downloads     \* downloads begun per job, also what snapshot ids are drawn from

thread == <<runs, done, tries, sid, active, report>>
vars == <<env, store, pc, thread, received, surfaced, visible, downloads>>

-----------------------------------------------------------------------------
(* Data *)

ResponseOutcome == {"error", "failed", "passed"}
LogOutcome == {"none", "nosnapshot", "failed", "passed"}
CaseRun == [response : ResponseOutcome, log : LogOutcome, passed : BOOLEAN]

Sources == UNION {{SourceOf[j][i] : i \in Cases(j)} : j \in Jobs}

Validating(j) == {i \in Cases(j) : SourceOf[j][i] # NoLog}

\* by_source: the first log-validating case whose source is still to do.
Pending(j) == {i \in Validating(j) : SourceOf[j][i] \notin done[j]}
Leader(j) == CHOOSE i \in Pending(j) : \A k \in Pending(j) : i <= k
Source(j) == SourceOf[j][Leader(j)]
Group(j) == LET source == Source(j) IN {i \in Validating(j) : SourceOf[j][i] = source}

LinesOf(app) == {l \in surfaced : App[l[1]] = app}

\* Fault: correlation_fallback is left at its default.
OwnLinesOrAny(j, i, lines) ==
  LET own == {t \in Tokens : <<j, i>> \notin Unfindable /\ <<j, i, t>> \in lines}
  IN  IF own = {} THEN {t \in Tokens : \E l \in lines : l[3] = t} ELSE own

\* lines_for: the tokens found under the id recorded for case i of job j.
OwnLines(j, i, lines) == {t \in Tokens : <<j, i>> \notin Unfindable /\ <<j, i, t>> \in lines}

\* validate_logs (its modes are in CaseVerdict).
Satisfied(j, i, found) == Expected[j][i] \subseteq found

\* None but "passed" leaves a case as it was.
WithLog(e, outcome) ==
  [response |-> e.response, log |-> outcome, passed |-> e.passed /\ outcome = "passed"]

\* The cases of the group get their outcome.
Judge(j, outcome) ==
  LET group == Group(j)
  IN  [runs EXCEPT ![j] =
        [i \in DOMAIN @ |-> IF i \in group THEN WithLog(@[i], outcome[i]) ELSE @[i]]]

Snapshot(j) == CHOOSE s \in store : s.owner = j /\ s.id = sid[j]

AllPresent(j) ==
  LET lines == Snapshot(j).lines IN \A i \in Group(j) : OwnLines(j, i, lines) # {}

\* Fault: one retry too many.
EnoughLate(j) == AllPresent(j) \/ tries[j] > MaxRetries

\* The loop of _snapshot_with_retry is left.
Enough(j) == AllPresent(j) \/ tries[j] >= MaxRetries

-----------------------------------------------------------------------------

Init ==
  /\ env \in {App[j] : j \in Jobs}   \* whatever it is, a run sets it before it is read
  /\ store = {}
  /\ pc = [j \in Jobs |-> "idle"]
  /\ runs = [j \in Jobs |-> <<>>] /\ done = [j \in Jobs |-> {}]
  /\ tries = [j \in Jobs |-> 0]
  /\ sid = [j \in Jobs |-> 0] /\ active = [j \in Jobs |-> {}]
  /\ report = [j \in Jobs |-> NoReport]
  /\ received = {} /\ surfaced = {}
  /\ visible = [j \in Jobs |-> {}] /\ downloads = [j \in Jobs |-> 0]

Goto(j, where) == pc' = [pc EXCEPT ![j] = where]

\* A run that is over leaves nothing of its thread but the report.
ThreadEnds(j, how, result) ==
  /\ Goto(j, how)
  /\ runs' = [runs EXCEPT ![j] = <<>>] /\ done' = [done EXCEPT ![j] = {}]
  /\ tries' = [tries EXCEPT ![j] = 0]
  /\ sid' = [sid EXCEPT ![j] = 0] /\ active' = [active EXCEPT ![j] = {}]
  /\ report' = [report EXCEPT ![j] = result]
  /\ visible' = [visible EXCEPT ![j] = {}] /\ downloads' = [downloads EXCEPT ![j] = 0]

\* _run is entered.
Enter(j) ==
  /\ pc[j] = "idle"
  /\ env' = App[j]
  /\ Goto(j, "calling")
  /\ UNCHANGED <<store, thread, received, surfaced, visible, downloads>>

\* The workbook was moved since it was pre-parsed, or the settings are invalid.
ReadSuiteRaises(j) ==
  /\ pc[j] = "calling" /\ runs[j] = <<>>
  /\ ThreadEnds(j, "error", NoReport)
  /\ UNCHANGED <<env, store, received, surfaced>>

\* _run_request never raises.  A request that got no answer is taken not to
\* have arrived: had it arrived, it would be to its run as one that failed.
CallCase(j) ==
  /\ pc[j] = "calling" /\ Len(runs[j]) < Len(SourceOf[j])
  /\ \E outcome \in ResponseOutcome :
       /\ runs' = [runs EXCEPT ![j] = Append(@, [response |-> outcome, log |-> "none",
                                                passed |-> outcome = "passed"])]
       /\ received' = IF outcome # "error" /\ Len(runs[j]) + 1 \in Validating(j)
                      THEN received \cup {<<j, Len(runs[j]) + 1>>} ELSE received
  /\ UNCHANGED <<env, store, pc, done, tries, sid, active, report, surfaced,
                 visible, downloads>>

\* Every request was sent; if logs are to be validated, the wait has passed.
RequestsDone(j) ==
  /\ pc[j] = "calling" /\ Len(runs[j]) = Len(SourceOf[j])
  /\ Goto(j, IF Validating(j) = {} THEN "discarding" ELSE "downloading")
  /\ UNCHANGED <<env, store, thread, received, surfaced, visible, downloads>>

-----------------------------------------------------------------------------
(* _validate_logs_phase *)

\* build_log_source: without a URL in the suite the application is looked up
\* by the project the environment variable points into.
Target(j) == IF Source(j) \in Resolving /\ j \notin SuiteUrl THEN env ELSE App[j]

\* Fault: the id of the first snapshot is kept over the retries.
DownloadKeepsFirstId(j) ==
  /\ pc[j] = "downloading"
  /\ downloads' = [downloads EXCEPT ![j] = @ + 1]
  /\ store' = store \cup {[owner |-> j, id |-> downloads'[j], lines |->
                            IF tries[j] = 0 THEN LinesOf(Target(j)) ELSE visible[j]]}
  /\ sid' = [sid EXCEPT ![j] = downloads'[j]]
  /\ visible' = [visible EXCEPT ![j] = LinesOf(App[j])]
  /\ Goto(j, "checking")
  /\ UNCHANGED <<env, runs, done, tries, active, report, received, surfaced>>

\* snapshot_logs
Download(j) ==
  /\ pc[j] = "downloading"
  /\ downloads' = [downloads EXCEPT ![j] = @ + 1]
  /\ store' = store \cup
       {[owner |-> j, id |-> downloads'[j], lines |-> LinesOf(Target(j))]}
  /\ sid' = [sid EXCEPT ![j] = downloads'[j]]
  /\ visible' = [visible EXCEPT ![j] = LinesOf(App[j])]
  /\ Goto(j, "checking")
  /\ UNCHANGED <<env, runs, done, tries, active, report, received, surfaced>>

\* The source is done with; after the last one come the finally and the report.
NextSource(j) ==
  /\ done' = [done EXCEPT ![j] = @ \cup {Source(j)}]
  /\ tries' = [tries EXCEPT ![j] = 0]
  /\ visible' = [visible EXCEPT ![j] = {}]
  /\ Goto(j, IF Pending(j) = Group(j) THEN "discarding" ELSE "downloading")

\* Fault: the error is noted, but a case that had passed stays so.
DownloadFailsKeepsPass(j) ==
  /\ pc[j] = "downloading"
  /\ runs' = [runs EXCEPT ![j] =
               [i \in DOMAIN @ |-> IF i \in Group(j) THEN [@[i] EXCEPT !.log = "nosnapshot"]
                                   ELSE @[i]]]
  /\ NextSource(j)
  /\ UNCHANGED <<env, store, sid, active, report, received, surfaced, downloads>>

\* No URL, no token, a failed download: the whole group fails, honestly.
DownloadFails(j) ==
  /\ pc[j] = "downloading"
  /\ runs' = Judge(j, [i \in Cases(j) |-> "nosnapshot"])
  /\ NextSource(j)
  /\ UNCHANGED <<env, store, sid, active, report, received, surfaced, downloads>>

\* Fault: the log is downloaded again only once there is something new in it.
RetryWhenGrown(j) ==
  /\ pc[j] = "checking" /\ ~Enough(j) /\ LinesOf(Target(j)) # Snapshot(j).lines
  /\ store' = store \ {Snapshot(j)}
  /\ tries' = [tries EXCEPT ![j] = @ + 1]
  /\ Goto(j, "downloading")
  /\ UNCHANGED <<env, runs, done, sid, active, report, received, surfaced,
                 visible, downloads>>

\* Some request's lines have not surfaced: wait, discard, download again.
Retry(j) ==
  /\ pc[j] = "checking" /\ ~Enough(j)
  /\ store' = store \ {Snapshot(j)}
  /\ tries' = [tries EXCEPT ![j] = @ + 1]
  /\ Goto(j, "downloading")
  /\ UNCHANGED <<env, runs, done, sid, active, report, received, surfaced,
                 visible, downloads>>

Validate(j) ==
  /\ pc[j] = "checking" /\ Enough(j)
  /\ ({j} \X Group(j)) \cap BadPattern = {}
  /\ LET lines == Snapshot(j).lines
     IN  runs' = Judge(j, [i \in Cases(j) |-> IF Satisfied(j, i, OwnLines(j, i, lines))
                                           THEN "passed" ELSE "failed"])
  /\ active' = [active EXCEPT ![j] = @ \cup {Snapshot(j)}]
  /\ NextSource(j)
  /\ UNCHANGED <<env, store, sid, report, received, surfaced, downloads>>

\* Fault: snapshots are discarded at the end of a run that gets there.
ValidateRaisesWithoutFinally(j) ==
  /\ pc[j] = "checking" /\ Enough(j)
  /\ ({j} \X Group(j)) \cap BadPattern # {}
  /\ ThreadEnds(j, "error", NoReport)
  /\ UNCHANGED <<env, store, received, surfaced>>

\* re.compile raises, past the handlers of the loop: the finally discards the
\* snapshots and the run is over.
ValidateRaises(j) ==
  /\ pc[j] = "checking" /\ Enough(j)
  /\ ({j} \X Group(j)) \cap BadPattern # {}
  /\ store' = store \ (active[j] \cup {Snapshot(j)})
  /\ ThreadEnds(j, "error", NoReport)
  /\ UNCHANGED <<env, received, surfaced>>

\* The finally, and the report of the whole suite.
Finish(j) ==
  /\ pc[j] = "discarding"
  /\ store' = store \ active[j]
  /\ ThreadEnds(j, "complete", runs[j])
  /\ UNCHANGED <<env, received, surfaced>>

-----------------------------------------------------------------------------

\* CloudHub publishes a line of a request the API received, with any lag.
Surface ==
  \E r \in received, t \in Tokens :
    /\ <<r[1], r[2], t>> \notin surfaced
    /\ surfaced' = surfaced \cup {<<r[1], r[2], t>>}
    /\ UNCHANGED <<env, store, pc, thread, received, visible, downloads>>

Step(j) ==
  \/ ReadSuiteRaises(j) \/ CallCase(j) \/ RequestsDone(j)
  \/ Download(j) \/ DownloadFails(j) \/ Retry(j)
  \/ Validate(j) \/ ValidateRaises(j) \/ Finish(j)

Next == Surface \/ \E j \in Jobs : Enter(j) \/ Step(j)

\* Some thread that can go on does: requests and downloads have timeouts, waits
\* are of a fixed length.  Nothing obliges a log line to surface.
Spec == Init /\ [][Next]_vars /\ WF_vars(\E j \in Jobs : Step(j))

-----------------------------------------------------------------------------
(* Properties *)

Over(j) == pc[j] \in {"complete", "error"}

\* Every variable keeps its shape; in particular a source is re-downloaded at
\* most log_fetch_max_retries times.
TypeOK ==
  /\ env \in {App[j] : j \in Jobs}
  /\ \A s \in store : /\ s.owner \in Jobs /\ s.id \in 1..downloads[s.owner]
                      /\ s.lines \subseteq surfaced
  /\ pc \in [Jobs -> {"idle", "calling", "downloading",
                      "checking", "discarding", "complete", "error"}]
  /\ runs \in [Jobs -> Seq(CaseRun)]
  /\ \A j \in Jobs : Len(runs[j]) <= Len(SourceOf[j])
  /\ done \in [Jobs -> SUBSET Sources]
  /\ tries \in [Jobs -> 0..MaxRetries]
  /\ sid \in [Jobs -> Nat] /\ downloads \in [Jobs -> Nat]
  /\ active \in [Jobs -> SUBSET store]
  /\ DOMAIN report = Jobs
  /\ \A j \in Jobs : report[j] # NoReport => DOMAIN report[j] = Cases(j)
  /\ visible \in [Jobs -> SUBSET surfaced]
  /\ received \subseteq AllCases
  /\ \A l \in surfaced : <<l[1], l[2]>> \in received /\ l[3] \in Tokens

\* "Nothing is persisted; a snapshot lives only until discard": the store
\* holds, of every run, one snapshot per source it has validated and the one
\* it works with, and nothing of a run that is over, however it ended.
SnapshotsDiscarded ==
  \A j \in Jobs :
    LET own == {s \in store : s.owner = j}
    IN  /\ Cardinality(own) <= Cardinality(done[j]) + 1
        /\ Over(j) => own = {}

\* A case whose log check passed has its expected lines under the very id of
\* its own request, never under that of another case or of a concurrent run.
StrictlyScoped ==
  \A j \in Jobs :
    LET judged == IF report[j] = NoReport THEN runs[j] ELSE report[j]
    IN  \A i \in DOMAIN judged :
    judged[i].log = "passed" => Satisfied(j, i, {t \in Tokens : <<j, i, t>> \in surfaced})

\* A case whose log check failed fails "honestly": in the log of its own
\* application, as the last download of the source could show it, its lines
\* were not there (or cannot be found by anyone under the id recorded).
FailsHonestly ==
  \A j \in Jobs : pc[j] = "checking" /\ Enough(j) =>
    \A i \in Group(j) :
      ~Satisfied(j, i, OwnLines(j, i, Snapshot(j).lines)) =>
        ~Satisfied(j, i, OwnLines(j, i, visible[j]))

\* Every run that is entered ends, and no source is waited for for ever.
EveryRunEnds == \A j \in Jobs : (pc[j] # "idle") ~> Over(j)

\* Every run keeps the contract of a suite run: it ends once, and its report,
\* there exactly when it is complete, is earned case by case.
Run(j) == INSTANCE SuiteRun WITH
  NCases <- Len(SourceOf[j]), LogCases <- Validating(j),
  phase <- CASE pc[j] = "idle" -> "idle"
             [] Over(j) -> pc[j]
             [] OTHER -> "active",
  report <- report[j]

KeepsContract ==
  /\ \A j \in Jobs : Run(j)!AbsInit
  /\ [][\A j \in Jobs : Run(j)!AbsNext \/ UNCHANGED Run(j)!absVars]_vars

=============================================================================
