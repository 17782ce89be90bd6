---------------------------- MODULE AnypointLogs ----------------------------
(***************************************************************************)
(* One download of an application's log from Anypoint: snapshot() of       *)
(* AnypointLogSource with the token provider it owns                       *)
(* (src/api_log_test_mcp/logsource/anypoint_source.py, anypoint_auth.py,   *)
(* and their port worker/src/logs/anypoint.ts).  A run builds a new source *)
(* for every download, so the cached token lives for one snapshot.         *)
(*                                                                         *)
(* The snapshot asks the deployment for its current spec version, then     *)
(* requests that version's log file until it gets it or gives up; each of  *)
(* these requests first asks the provider for a token.  Meanwhile tokens   *)
(* expire or are revoked, and the application may be redeployed.           *)
(***************************************************************************)
EXTENDS Integers, FiniteSets

CONSTANTS
  MaxRetries,   \* _MAX_RETRIES: requests for the log file
  Skew,         \* _EXPIRY_SKEW_SECONDS, in ticks
  Lifetimes,    \* what the platform may say in expires_in, in ticks
  Delay,        \* the longest a request is under way before it times out
  MaxNow,       \* bound: the last tick of the clock
  MaxRevoked,   \* bound: tokens revoked before they expire
  MaxDeploys,   \* bound: redeployments
  NoToken       \* None

ASSUME SourceShape ==
  /\ MaxRetries \in Nat \ {0} /\ Skew \in Nat /\ Delay \in Nat
  /\ Lifetimes \subseteq Nat
  /\ NoToken \notin [n : Nat, dies : Nat, ttl : Lifetimes]
  /\ MaxNow \in Nat /\ MaxRevoked \in Nat /\ MaxDeploys \in Nat

VARIABLES
  (* The provider. *)
  token,        \* _token
  expires,      \* _expires_at
  (* The snapshot. *)
  pc,
  wanted,       \* the request a token is wanted for: "version" or "log"
  attempt,
  last_status,
  version,      \* the spec version the log is requested of
  sent,         \* when the request under way was sent
  (* The platform. *)
  now,
  granted,      \* the token it issued last
  revoked,      \* the tokens it no longer honours, by number
  desired,      \* desiredVersion of the deployment
  running,      \* lastSuccessfulVersion
  (* History. *)
  rejected,     \* the tokens that were answered with a 401, by number
  asked,        \* log requests that were answered
  fatal,        \* something happened that no retry covers
  first         \* desired when the snapshot began

provider == <<token, expires>>
snapshot == <<pc, wanted, attempt, last_status, version, sent>>
platform == <<now, granted, revoked, desired, running>>
history  == <<rejected, asked, fatal, first>>
download_vars == <<provider, snapshot, platform, history>>

-----------------------------------------------------------------------------
(* Data *)

\* A token dies at the platform a fixed time after it was issued there.
Token == [n : Nat, dies : Nat, ttl : Lifetimes]

Status == {"none", "200", "401", "busy", "refused"}   \* busy: 429, 500, 502, 503
Transient == {"401", "busy"}

Valid(t) == t.n \notin revoked /\ now < t.dies

\* What the platform may answer to a request that carries t.
Answers(t) == IF Valid(t) THEN {"200", "busy", "refused"} ELSE {"401"}

\* get_token: the cached token may be used once more.
Usable == token # NoToken /\ now < expires

\* Fault: a 401 is not remembered.
ForceRefreshNever == FALSE

ForceRefresh == wanted = "log" /\ attempt > 0 /\ last_status = "401"

ExpiresAt(t) == now + IF t.ttl > Skew THEN t.ttl - Skew ELSE 0

\* Fault: the version that last ran is preferred.
LastSuccessfulVersion == running

\* data.get("desiredVersion") or data.get("lastSuccessfulVersion")
CurrentVersion == IF desired > 0 THEN desired ELSE running

UnderWay == pc \in {"posting", "issued", "sending"}

-----------------------------------------------------------------------------

DownloadInit ==
  /\ token = NoToken /\ expires = 0
  /\ pc = "idle" /\ wanted = "version" /\ attempt = 0 /\ last_status = "none"
  /\ version = 0 /\ sent = 0
  /\ now = 0 /\ granted = NoToken /\ revoked = {} /\ desired = 1 /\ running = 1
  /\ rejected = {} /\ asked = 0 /\ fatal = FALSE /\ first = 1

Begin ==
  /\ pc = "idle"
  /\ pc' = "token" /\ first' = desired
  /\ UNCHANGED <<provider, wanted, attempt, last_status, version, sent, platform,
                 rejected, asked, fatal>>

\* The exception reaches the run, which fails the cases of this source.
Raise ==
  /\ pc' = "raised" /\ fatal' = TRUE
  /\ UNCHANGED <<provider, wanted, attempt, last_status, version, sent, platform,
                 rejected, asked, first>>

-----------------------------------------------------------------------------
(* AnypointAuthProvider *)

UseCachedToken ==
  /\ pc = "token" /\ Usable /\ ~ForceRefresh
  /\ pc' = "sending" /\ sent' = now
  /\ UNCHANGED <<provider, wanted, attempt, last_status, version, platform, history>>

PostCredentials ==
  /\ pc = "token" /\ (Usable => ForceRefresh)
  /\ pc' = "posting" /\ sent' = now
  /\ UNCHANGED <<provider, wanted, attempt, last_status, version, platform, history>>

\* The platform issues a token; its answer is on its way.
TokenIssued ==
  /\ pc = "posting"
  /\ \E ttl \in Lifetimes :
       granted' = [n |-> IF granted = NoToken THEN 1 ELSE granted.n + 1,
                   dies |-> now + ttl, ttl |-> ttl]
  /\ pc' = "issued"
  /\ UNCHANGED <<provider, wanted, attempt, last_status, version, sent, now, revoked,
                 desired, running, history>>

TokenReceived ==
  /\ pc = "issued"
  /\ token' = granted /\ expires' = ExpiresAt(granted)
  /\ pc' = "sending" /\ sent' = now
  /\ UNCHANGED <<wanted, attempt, last_status, version, platform, history>>

\* No credentials, an error status on JSON and form alike, no token in the
\* answer, or a transport error.
TokenDenied ==
  /\ pc \in {"posting", "issued"}
  /\ Raise

-----------------------------------------------------------------------------
(* _current_version: asked once *)

VersionFound ==
  /\ pc = "sending" /\ wanted = "version" /\ "200" \in Answers(token)
  /\ version' = CurrentVersion
  /\ wanted' = "log" /\ pc' = "token"
  /\ UNCHANGED <<provider, attempt, last_status, sent, platform, history>>

\* Any other status (a 401 and a 503 too), no version in the answer, or a
\* transport error.
VersionNotFound ==
  /\ pc = "sending" /\ wanted = "version"
  /\ Raise

-----------------------------------------------------------------------------
(* _get_with_retry *)

LogDownloaded ==
  /\ pc = "sending" /\ wanted = "log" /\ "200" \in Answers(token)
  /\ pc' = "done" /\ asked' = asked + 1
  /\ UNCHANGED <<provider, wanted, attempt, last_status, version, sent, platform,
                 rejected, fatal, first>>

\* Fault: gives up one attempt early.
LogNotYetGivesUpEarly ==
  /\ pc = "sending" /\ wanted = "log"
  /\ \E status \in Answers(token) \cap Transient :
       /\ last_status' = status
       /\ rejected' = IF status = "401" THEN rejected \cup {token.n} ELSE rejected
  /\ asked' = asked + 1 /\ attempt' = attempt + 1
  /\ pc' = IF attempt + 2 < MaxRetries THEN "sleeping" ELSE "raised"
  /\ UNCHANGED <<provider, wanted, version, sent, platform, fatal, first>>

\* Fault: a throttled request does not use up an attempt.
LogNotYetUncounted ==
  /\ pc = "sending" /\ wanted = "log"
  /\ \E status \in Answers(token) \cap Transient :
       /\ last_status' = status
       /\ rejected' = IF status = "401" THEN rejected \cup {token.n} ELSE rejected
       /\ attempt' = IF status = "busy" THEN attempt ELSE attempt + 1
  /\ pc' = IF attempt' < MaxRetries THEN "sleeping" ELSE "raised"
  /\ UNCHANGED <<provider, wanted, version, sent, platform, asked, fatal, first>>

\* 401, 429, 500, 502 or 503: back off and try again, MaxRetries times in all.
LogNotYet ==
  /\ pc = "sending" /\ wanted = "log"
  /\ \E status \in Answers(token) \cap Transient :
       /\ last_status' = status
       /\ rejected' = IF status = "401" THEN rejected \cup {token.n} ELSE rejected
  /\ asked' = asked + 1 /\ attempt' = attempt + 1
  /\ pc' = IF attempt + 1 < MaxRetries THEN "sleeping" ELSE "raised"
  /\ UNCHANGED <<provider, wanted, version, sent, platform, fatal, first>>

\* Any other status, or a transport error.
LogRefused ==
  /\ pc = "sending" /\ wanted = "log"
  /\ Raise

WakeUp ==
  /\ pc = "sleeping"
  /\ pc' = "token"
  /\ UNCHANGED <<provider, wanted, attempt, last_status, version, sent, platform, history>>

-----------------------------------------------------------------------------
(* The platform *)

\* No request is under way for longer than its timeout.
Tick ==
  /\ now < MaxNow /\ pc \notin {"done", "raised"}
  /\ UnderWay => now < sent + Delay
  /\ now' = now + 1
  /\ UNCHANGED <<provider, snapshot, granted, revoked, desired, running, history>>

Revoke ==
  /\ Cardinality(revoked) < MaxRevoked
  /\ granted # NoToken /\ revoked' = revoked \cup {granted.n}
  /\ UNCHANGED <<provider, snapshot, now, granted, desired, running, history>>

Redeploy ==
  /\ desired <= MaxDeploys
  /\ desired' = desired + 1
  /\ UNCHANGED <<provider, snapshot, now, granted, revoked, running, history>>

RedeployDone ==
  /\ running # desired
  /\ running' = desired
  /\ UNCHANGED <<provider, snapshot, now, granted, revoked, desired, history>>

SourceStep ==
  \/ UseCachedToken \/ PostCredentials \/ TokenIssued \/ TokenReceived \/ TokenDenied
  \/ VersionFound \/ VersionNotFound
  \/ LogDownloaded \/ LogNotYet \/ LogRefused \/ WakeUp

DownloadNext == Begin \/ SourceStep \/ Tick \/ Revoke \/ Redeploy \/ RedeployDone

\* Requests are answered or time out, and sleeps end.
DownloadSpec == DownloadInit /\ [][DownloadNext]_download_vars /\ WF_download_vars(SourceStep)

-----------------------------------------------------------------------------
(* Properties *)

\* Every variable keeps its shape; in particular the log is requested at most
\* _MAX_RETRIES times.
DownloadTypeOK ==
  /\ token \in Token \cup {NoToken} /\ expires \in Nat
  /\ pc \in {"idle", "token", "posting", "issued", "sending", "sleeping", "done", "raised"}
  /\ wanted \in {"version", "log"}
  /\ attempt \in 0..MaxRetries /\ asked \in 0..MaxRetries
  /\ last_status \in Status
  /\ version \in 0..desired
  /\ sent \in 0..now /\ now \in 0..MaxNow
  /\ granted \in Token \cup {NoToken} /\ revoked \subseteq Nat /\ rejected \subseteq Nat
  /\ desired \in 1..(MaxDeploys + 1) /\ running \in 1..desired /\ first \in 1..desired
  /\ fatal \in BOOLEAN

\* No request for a log carries a dead token.  "Refresh ... to avoid using a
\* just-expired token": one that lives long enough for the trip of the answer
\* it came in and of the request is alive when the request arrives; and one
\* that was answered with a 401 is not presented again, also when the answers
\* of several attempts alternate between 401 and 429.
DeadNeverPresented ==
  pc = "sending" =>
    /\ 2 * Delay <= Skew /\ 2 * Delay < token.ttl => now < token.dies
    /\ token.n \notin rejected

\* A snapshot never serves a spec older than the one the deployment was told
\* to run when the snapshot began, whatever version the URL pins ("would
\* silently serve the old, shut-down replica's logs").
FreshVersion == pc = "done" => version >= first

\* A snapshot that meets nothing but throttling and rejected tokens on the
\* way to the log gives up only after its last attempt.
GivesUpLast == pc = "raised" /\ ~fatal => asked = MaxRetries

\* Every snapshot that is begun ends, with the log or with an exception.
SnapshotEnds == (pc # "idle") ~> (pc \in {"done", "raised"})

=============================================================================
