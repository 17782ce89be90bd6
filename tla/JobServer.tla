----------------------------- MODULE JobServer ------------------------------
(***************************************************************************)
(* The background jobs of the Python stdio server                          *)
(* (src/api_log_test_mcp/server.py): one process-wide dictionary of job    *)
(* records under a lock, and per job the handler of the call that starts   *)
(* it, the thread that runs the suite, the thread that moves the progress  *)
(* bar, and the client that polls.                                         *)
(*                                                                         *)
(* Every block under _jobs_lock is one step.  A poll is two: it returns a  *)
(* reference to the record, which is serialised after the lock is free.    *)
(* While a job runs its record is one dictionary the progress thread       *)
(* writes into; the end of the run puts a new one in its place.            *)
(***************************************************************************)
EXTENDS Integers

CONSTANTS
  Jobs,         \* calls of run_test_suite that start a run, by the id they draw
  Total,        \* job -> expected_secs
  Readings,     \* bound: the readings of the clock, from 0 on
  MaxRestarts,  \* bound: how often the process is killed and started again
  NoReport      \* None

ASSUME ServerShape ==
  /\ Total \in [Jobs -> Nat \ {0}]
  /\ 0 \in Readings /\ Readings \subseteq Nat
  /\ MaxRestarts \in Nat
  /\ NoReport # <<>>

VARIABLES
  table,        \* _jobs: "absent", or which dictionary the id is bound to
  first,        \* job -> the dictionary the handler made
  last,         \* job -> the dictionary the end of the run made
  starter,      \* where the handler of the starting call is
  worker,       \* the thread of _run_job_async
  updater,      \* the thread of _update_job_progress
  since,        \* its start_time
  poll,         \* the reference a poll in progress holds, or "none"
  seen,         \* job -> what the last poll showed its client
  now,          \* time.time()
  restarts

threads == <<starter, worker, updater, since>>
client  == <<poll, seen>>
vars    == <<table, first, last, threads, client, now, restarts>>

-----------------------------------------------------------------------------
(* Data *)

Final == {"complete", "error"}

\* A job record; its report is the one of a suite with no case to tell apart.
Record == [status : {"running", "complete", "error"}, pct : 0..100,
           report : {NoReport, <<>>}]

Fresh == [status |-> "running", pct |-> 5, report |-> NoReport]
Complete == [status |-> "complete", pct |-> 100, report |-> <<>>]
Error == [status |-> "error", pct |-> 100, report |-> NoReport]

\* What a client can be shown: nothing yet, not_found, or a record.
Nothing == [status |-> "nothing", pct |-> 0, report |-> NoReport]
NotFound == [status |-> "not_found", pct |-> 0, report |-> NoReport]

Dictionary(j, ref) == IF ref = "first" THEN first[j] ELSE last[j]
Job(j) == Dictionary(j, table[j])
Status(j) == IF table[j] = "absent" THEN "absent" ELSE Job(j).status

\* Fault: the percentage is not capped.
PercentUncapped(j) == 10 + ((now - since[j]) * 85) \div Total[j]

\* pct = min(95, max(10, ...)); the clock never runs backwards here.
Percent(j) ==
  LET raw == 10 + ((now - since[j]) * 85) \div Total[j]
  IN  IF raw > 95 THEN 95 ELSE raw

-----------------------------------------------------------------------------

Init ==
  /\ table = [j \in Jobs |-> "absent"]
  /\ first = [j \in Jobs |-> Fresh] /\ last = [j \in Jobs |-> Error]
  /\ starter = [j \in Jobs |-> "idle"]
  /\ worker = [j \in Jobs |-> "none"]
  /\ updater = [j \in Jobs |-> "none"] /\ since = [j \in Jobs |-> 0]
  /\ poll = [j \in Jobs |-> "none"] /\ seen = [j \in Jobs |-> Nothing]
  /\ now = 0 /\ restarts = 0

-----------------------------------------------------------------------------
(* run_test_suite with a suite_path *)

\* The workbook cannot be read: no job comes into being.
Refuse(j) ==
  /\ starter[j] = "idle"
  /\ starter' = [starter EXCEPT ![j] = "refused"]
  /\ UNCHANGED <<table, first, last, worker, updater, since, client, now, restarts>>

Insert(j) ==
  /\ starter[j] = "idle"
  /\ table' = [table EXCEPT ![j] = "first"]
  /\ first' = [first EXCEPT ![j] = Fresh]
  /\ starter' = [starter EXCEPT ![j] = "inserted"]
  /\ UNCHANGED <<last, worker, updater, since, client, now, restarts>>

StartWorker(j) ==
  /\ starter[j] = "inserted"
  /\ worker' = [worker EXCEPT ![j] = "running"]
  /\ starter' = [starter EXCEPT ![j] = "working"]
  /\ UNCHANGED <<table, first, last, updater, since, client, now, restarts>>

StartUpdater(j) ==
  /\ starter[j] = "working"
  /\ updater' = [updater EXCEPT ![j] = "starting"]
  /\ starter' = [starter EXCEPT ![j] = "watched"]
  /\ UNCHANGED <<table, first, last, worker, since, client, now, restarts>>

\* A thread cannot be started, or get_settings rejects the environment: the
\* client gets an error in place of the id, and whatever was started goes on.
StarterRaises(j) ==
  /\ starter[j] \in {"inserted", "working"}
  /\ starter' = [starter EXCEPT ![j] = "raised"]
  /\ UNCHANGED <<table, first, last, worker, updater, since, client, now, restarts>>

\* Fault: the record is made when the id is returned, after the threads began.
ReturnIdRecordsLast(j) ==
  /\ starter[j] = "watched"
  /\ table' = [table EXCEPT ![j] = "first"]
  /\ starter' = [starter EXCEPT ![j] = "told"]
  /\ UNCHANGED <<first, last, worker, updater, since, client, now, restarts>>

ReturnId(j) ==
  /\ starter[j] = "watched"
  /\ starter' = [starter EXCEPT ![j] = "told"]
  /\ UNCHANGED <<table, first, last, worker, updater, since, client, now, restarts>>

-----------------------------------------------------------------------------
(* _run_job_async *)

\* Fault: an exception of the run is not recorded.
WorkerEndsOnlyWhenComplete(j) ==
  /\ worker[j] = "running"
  /\ \E result \in {Complete, Error} :
       /\ last' = [last EXCEPT ![j] = result]
       /\ table' = IF result = Complete THEN [table EXCEPT ![j] = "last"] ELSE table
  /\ worker' = [worker EXCEPT ![j] = "ended"]
  /\ UNCHANGED <<first, starter, updater, since, client, now, restarts>>

\* run_and_record returned or raised, at its own pace.
WorkerEnds(j) ==
  /\ worker[j] = "running"
  /\ \E result \in {Complete, Error} : last' = [last EXCEPT ![j] = result]
  /\ table' = [table EXCEPT ![j] = "last"]
  /\ worker' = [worker EXCEPT ![j] = "ended"]
  /\ UNCHANGED <<first, starter, updater, since, client, now, restarts>>

-----------------------------------------------------------------------------
(* _update_job_progress *)

UpdaterBegins(j) ==
  /\ updater[j] = "starting"
  /\ since' = [since EXCEPT ![j] = now]
  /\ updater' = [updater EXCEPT ![j] = "awake"]
  /\ UNCHANGED <<table, first, last, starter, worker, client, now, restarts>>

\* Fault: the status is not looked at again after the sleep.
UpdaterMovesUnchecked(j) ==
  /\ updater[j] = "awake" /\ table[j] # "absent"
  /\ IF table[j] = "first"
     THEN first' = [first EXCEPT ![j].pct = Percent(j)] /\ UNCHANGED last
     ELSE last' = [last EXCEPT ![j].pct = Percent(j)] /\ UNCHANGED first
  /\ updater' = [updater EXCEPT ![j] = "asleep"]
  /\ UNCHANGED <<table, starter, worker, since, client, now, restarts>>

\* A running record is always the handler's own dictionary.
UpdaterMoves(j) ==
  /\ updater[j] = "awake" /\ Status(j) = "running"
  /\ first' = [first EXCEPT ![j].pct = Percent(j)]
  /\ updater' = [updater EXCEPT ![j] = "asleep"]
  /\ UNCHANGED <<table, last, starter, worker, since, client, now, restarts>>

UpdaterStops(j) ==
  /\ updater[j] = "awake" /\ Status(j) \in Final \cup {"absent"}
  /\ updater' = [updater EXCEPT ![j] = "ended"] /\ since' = [since EXCEPT ![j] = 0]
  /\ UNCHANGED <<table, first, last, starter, worker, client, now, restarts>>

UpdaterWakes(j) ==
  /\ updater[j] = "asleep"
  /\ updater' = [updater EXCEPT ![j] = "awake"]
  /\ UNCHANGED <<table, first, last, starter, worker, since, client, now, restarts>>

-----------------------------------------------------------------------------
(* run_test_suite with a job_id *)

\* A client polls the id it was given, one poll at a time.
PollLooksUp(j) ==
  /\ starter[j] \in {"told", "lost"} /\ poll[j] = "none"
  /\ IF table[j] = "absent"
     THEN seen' = [seen EXCEPT ![j] = NotFound] /\ UNCHANGED poll
     ELSE poll' = [poll EXCEPT ![j] = table[j]] /\ UNCHANGED seen
  /\ UNCHANGED <<table, first, last, threads, now, restarts>>

\* The record is serialised with what it holds by now.
PollAnswers(j) ==
  /\ poll[j] # "none"
  /\ seen' = [seen EXCEPT ![j] = Dictionary(j, poll[j])]
  /\ poll' = [poll EXCEPT ![j] = "none"]
  /\ UNCHANGED <<table, first, last, threads, now, restarts>>

-----------------------------------------------------------------------------
(* The world *)

Tick ==
  /\ now' \in {t \in Readings : t > now}
  /\ UNCHANGED <<table, first, last, threads, client, restarts>>

\* The process dies with its threads and its dictionary; ids stay with the
\* clients, and calls that have not begun go to the new process.
Restart ==
  /\ restarts < MaxRestarts
  /\ restarts' = restarts + 1
  /\ table' = [j \in Jobs |-> "absent"]
  /\ first' = [j \in Jobs |-> Fresh] /\ last' = [j \in Jobs |-> Error]
  /\ starter' = [j \in Jobs |-> CASE starter[j] \in {"idle", "refused"} -> starter[j]
                                  [] starter[j] \in {"told", "lost"} -> "lost"
                                  [] OTHER -> "raised"]
  /\ worker' = [j \in Jobs |-> "none"]
  /\ updater' = [j \in Jobs |-> "none"] /\ since' = [j \in Jobs |-> 0]
  /\ poll' = [j \in Jobs |-> "none"]
  /\ UNCHANGED <<seen, now>>

StarterStep(j) == StartWorker(j) \/ StartUpdater(j) \/ StarterRaises(j) \/ ReturnId(j)
UpdaterStep(j) == UpdaterBegins(j) \/ UpdaterMoves(j) \/ UpdaterStops(j) \/ UpdaterWakes(j)
PollStep(j) == PollLooksUp(j) \/ PollAnswers(j)

Next ==
  \/ \E j \in Jobs : \/ Refuse(j) \/ Insert(j) \/ StarterStep(j)
                     \/ WorkerEnds(j) \/ UpdaterStep(j) \/ PollStep(j)
  \/ Tick
  \/ Restart

\* Threads that can run do run, and every call a suite makes has a timeout
\* and a bounded number of retries, so its thread ends.  Nothing obliges a
\* client to call, to poll again, or the clock to tick.
Spec ==
  /\ Init /\ [][Next]_vars
  /\ \A j \in Jobs : /\ WF_vars(StarterStep(j)) /\ WF_vars(WorkerEnds(j))
                     /\ WF_vars(UpdaterStep(j)) /\ WF_vars(PollAnswers(j))

-----------------------------------------------------------------------------
(* Properties *)

\* Every variable keeps its shape, the records in and out of the table too.
TypeOK ==
  /\ table \in [Jobs -> {"absent", "first", "last"}]
  /\ first \in [Jobs -> Record] /\ last \in [Jobs -> Record]
  /\ starter \in [Jobs -> {"idle", "refused", "inserted", "working", "watched",
                           "raised", "told", "lost"}]
  /\ worker \in [Jobs -> {"none", "running", "ended"}]
  /\ updater \in [Jobs -> {"none", "starting", "awake", "asleep", "ended"}]
  /\ since \in [Jobs -> Readings]
  /\ poll \in [Jobs -> {"none", "first", "last"}]
  /\ seen \in [Jobs -> Record \cup {Nothing, NotFound}]
  /\ now \in Readings
  /\ restarts \in 0..MaxRestarts

\* The three threads that write a record never spoil it: a poll shows 0..100%,
\* 100% exactly for a run that is over, and a report exactly for a complete
\* one, although it reads the record after letting go of the lock.
PollIsCoherent ==
  \A j \in Jobs :
    /\ seen[j].pct \in 0..100
    /\ (seen[j].pct = 100) <=> (seen[j].status \in Final)
    /\ (seen[j].report # NoReport) <=> (seen[j].status = "complete")

\* A client never sees a run go backwards: neither its percentage from one
\* poll to the next, nor its end taken back by a late progress update, unless
\* the server it polls has lost it.
PollsGoForward ==
  [][\A j \in Jobs : \/ seen'[j] = NotFound
                     \/ /\ seen'[j].pct >= seen[j].pct
                        /\ (seen[j].status \in Final) => seen'[j] = seen[j]]_vars

\* A record that says "running" is backed by a thread that will end it, from
\* the moment the client holds the id; and only a restarted server ever says
\* not_found to a client that holds one.
RunningIsBacked ==
  \A j \in Jobs :
    /\ starter[j] = "told" /\ Status(j) = "running" => worker[j] = "running"
    /\ seen[j] = NotFound => starter[j] = "lost"

\* Unless the server is restarted, a job whose id was returned ends, and the
\* thread that moved its progress bar ends with it.
ToldJobsEnd ==
  \A j \in Jobs :
    (starter[j] = "told") ~>
      (starter[j] = "lost" \/ (Status(j) \in Final /\ updater[j] = "ended"))

\* Every job keeps the contract of a suite run, whatever its threads do: it
\* begins once, ends once, and has a report exactly when it is complete (the
\* contract's safety part, Run(j)!AbsSafety, for all jobs at once, up to a
\* restart, which forgets every run).
Run(j) == INSTANCE SuiteRun WITH
  NCases <- 0, LogCases <- {},
  phase <- CASE Status(j) = "absent" -> "idle"
             [] Status(j) = "running" -> "active"
             [] OTHER -> Status(j),
  report <- IF table[j] = "absent" THEN NoReport ELSE Job(j).report

KeepsContract ==
  /\ \A j \in Jobs : Run(j)!AbsInit
  /\ [][\/ restarts' # restarts
        \/ \A j \in Jobs : Run(j)!AbsNext \/ UNCHANGED Run(j)!absVars]_vars

=============================================================================
