----------------------------- MODULE CaseVerdict -----------------------------
(***************************************************************************)
(* How one case gets its verdict in the Python server: the assertion of    *)
(* the response (matching/response_matcher.py), the scan that groups the   *)
(* lines of a downloaded log by correlation id (cache/snapshot_store.py),  *)
(* and the validation of the expected log strings against the lines found  *)
(* under the case's id (tools/logs.py).                                    *)
(*                                                                         *)
(* A log is one sequence of lines per instance.  A line shows an id or     *)
(* none and begins with a timestamp or not; what the scan does not see is  *)
(* which request wrote it.  The matcher's functions are parameters that    *)
(* satisfy their own equations; Matcher has them.                          *)
(***************************************************************************)
EXTENDS ResponseMatch

CONSTANTS
  prune_one(_, _), prune(_, _), compare(_, _, _),   \* the matcher
  demands(_, _), meets(_, _),                       \* the reference
  Docs, DocDepth(_),         \* the documents and how deep each is nested
  PathSegments,              \* the paths there are to ignore
  ExpectedDocs, ActualDocs,  \* what a case may expect, what an API may answer
  IgnorePaths,               \* response_ignore_paths: sequences of paths
  Logs,                      \* the logs a download may return
  Needles,                   \* what expected_log_strings may hold
  Ids,                       \* the correlation ids of requests
  Mine,                      \* the one recorded for the case
  NoId

Mode == {"exact", "json_subset", "schema", "status_only"}
LogMode == {"all_of", "any_of"}   \* contains and regex judge like all_of

\* A document is finite: its parts are documents nested less deep.
ASSUME DocsOK ==
  /\ ExpectedDocs \subseteq Docs /\ ActualDocs \subseteq Docs
  /\ \A d \in Docs :
       LET Part(p) == p \in Docs /\ DocDepth(p) < DocDepth(d)
       IN  /\ DocDepth(d) \in Nat
           /\ \/ d = ANY_VALUE
              \/ \E v \in {"value"} \cap DOMAIN d : d = Scalar(d[v])
              \/ IsObj(d) /\ d = Obj([k \in DOMAIN d.fields |-> d.fields[k]])
                 /\ \A k \in DOMAIN d.fields : Part(d.fields[k])
              \/ IsList(d) /\ d = List(d.items) /\ d.items \in Seq(Docs)
                 /\ \A n \in DOMAIN d.items : Part(d.items[n])

\* "if segments", and what is left of a path below its head.
ASSUME PathsOK ==
  /\ \A path \in PathSegments :
       /\ path \in Seq(STRING) \ {<<>>}
       /\ Tail(path) # <<>> => Tail(path) \in PathSegments
  /\ IgnorePaths \subseteq Seq(PathSegments)
  /\ \A paths \in IgnorePaths : paths # <<>> => Tail(paths) \in IgnorePaths

\* The functions are what their bodies say, and pruning leaves a document.
ASSUME PruneOK ==
  \A d \in Docs :
    /\ \A path \in PathSegments :
         prune_one(d, path) \in Docs /\ prune_one(d, path) = PruneOneBody(prune_one, d, path)
    /\ \A paths \in IgnorePaths : prune(d, paths) = PruneBody(prune, prune_one, d, paths)

ASSUME CompareOK ==
  \A e, a \in Docs, subset \in BOOLEAN :
    compare(e, a, subset) = CompareBody(compare, e, a, subset)

ASSUME DemandsOK ==
  \A e \in Docs, subset \in BOOLEAN :
    /\ demands(e, subset) = DemandsBody(demands, e, subset)
    /\ \A d \in Docs : \A q \in demands(e, subset) :
         meets(d, q) = MeetsBody(meets, d, q)

LogLine == [id : Ids \cup {NoId}, stamped : BOOLEAN, says : SUBSET Needles,
            writer : Ids \cup {NoId}]

\* "A Mule/CloudHub log event is a header line carrying the correlation id
\* followed by continuation lines (boxed exception, stack trace) that have no id
\* of their own": the id a line shows is that of the request that wrote it, and a
\* line without a timestamp continues the event of the line before.
WellWritten(instance) ==
  \A n \in DOMAIN instance :
    /\ instance[n].id \in {NoId, instance[n].writer}
    /\ ~instance[n].stamped /\ n > 1 => instance[n].writer = instance[n - 1].writer

ASSUME IdsOK == Mine \in Ids /\ NoId \notin Ids

ASSUME LogsOK ==
  /\ Logs \subseteq Seq(Seq(LogLine))
  /\ \A lines_by_instance \in Logs :
       \A i \in DOMAIN lines_by_instance : WellWritten(lines_by_instance[i])

VARIABLES
  pc,
  case,       \* the case under test and the answer it got, dropped once judged
  response,   \* AssertResult
  log,        \* RawSnapshot.lines_by_instance
  at,         \* the scan's place: the instance and the line
  current,    \* the last id seen in the instance
  index,      \* the lines of each id, as <<instance, line>>
  result      \* LogValidationResult and the evidence

vars == <<pc, case, response, log, at, current, index, result>>

Nothing == [none |-> TRUE]

Init ==
  /\ pc = "answered"
  /\ case \in [expected : ExpectedDocs, actual : ActualDocs, ignore : IgnorePaths,
               mode : Mode]
  /\ response = Nothing /\ result = Nothing
  /\ log = <<>> /\ at = <<1, 1>> /\ current = NoId /\ index = [id \in {} |-> <<>>]

-----------------------------------------------------------------------------
(* assert_response *)

\* Fault: the ignored paths are pruned from the answer only.
PrunedExpectedAsIs(c) == c.expected

PrunedExpected(c) == prune(c.expected, c.ignore)

PrunedActual(c) == prune(c.actual, c.ignore)

\* The status is checked if one is expected; what a schema validator finds is
\* anything.
AssertResponse ==
  /\ pc = "answered"
  /\ \E status_ok \in BOOLEAN, invalid \in SUBSET {"schema"} :
       /\ case.mode # "schema" => invalid = {}
       /\ LET diffs ==
                CASE case.mode = "status_only" -> {}
                  [] case.mode = "schema" -> invalid
                  [] OTHER -> compare(PrunedExpected(case), PrunedActual(case),
                                      case.mode = "json_subset")
          IN  response' = [diffs |-> diffs, status_ok |-> status_ok,
                           passed |-> status_ok /\ diffs = {}]
  /\ pc' = "asserted"
  /\ UNCHANGED <<case, log, at, current, index, result>>

\* The case validates logs, whatever the response was; of the assertion only
\* its outcome still matters.
WaitForLogs ==
  /\ pc = "asserted"
  /\ pc' = "waiting"
  /\ case' = Nothing /\ response' = [passed |-> response.passed]
  /\ UNCHANGED <<log, at, current, index, result>>

\* SnapshotStore.create
Download ==
  /\ pc = "waiting"
  /\ pc' = "indexing"
  /\ log' \in Logs
  /\ UNCHANGED <<case, response, at, current, index, result>>

-----------------------------------------------------------------------------
(* SnapshotStore._build_index *)

Line == log[at[1]][at[2]]

indexed(id) == IF id \in DOMAIN index THEN index[id] ELSE <<>>

IndexUnder(id) ==
  /\ current' = id
  /\ index' = IF id = NoId THEN index
              ELSE [k \in DOMAIN index \cup {id} |->
                      IF k = id THEN Append(indexed(id), at) ELSE index[k]]
  /\ at' = <<at[1], at[2] + 1>>
  /\ UNCHANGED <<pc, case, response, log, result>>

InInstance ==
  pc = "indexing" /\ at[1] \in DOMAIN log /\ at[2] \in DOMAIN log[at[1]]

CarriesId == InInstance /\ Line.id # NoId /\ IndexUnder(Line.id)

\* Fault: an event without an id is taken for a continuation.
NewEventContinues == InInstance /\ Line.id = NoId /\ Line.stamped /\ IndexUnder(current)

NewEvent == InInstance /\ Line.id = NoId /\ Line.stamped /\ IndexUnder(NoId)

Continues == InInstance /\ Line.id = NoId /\ ~Line.stamped /\ IndexUnder(current)

NextInstance ==
  /\ pc = "indexing" /\ at[1] \in DOMAIN log /\ at[2] \notin DOMAIN log[at[1]]
  /\ at' = <<at[1] + 1, 1>> /\ current' = NoId
  /\ UNCHANGED <<pc, case, response, log, index, result>>

-----------------------------------------------------------------------------
(* validate_logs and matched_log_lines *)

Says(place) == log[place[1]][place[2]].says

all_lines == UNION {{i} \X DOMAIN log[i] : i \in DOMAIN log}

lines_for(id) == Range(indexed(id))

Considered(fallback) ==
  IF fallback /\ lines_for(Mine) = {} THEN all_lines ELSE lines_for(Mine)

\* A run of a suite asks without fallback, the validate_logs tool with it.
Validate ==
  /\ pc = "indexing" /\ at[1] \notin DOMAIN log
  /\ \E expected \in SUBSET Needles, mode \in LogMode, fallback \in BOOLEAN :
       LET lines == Considered(fallback)
           evidence == [w \in expected |-> {l \in lines : w \in Says(l)}]
           matched == {w \in expected : evidence[w] # {}}
           passed == IF mode = "any_of" THEN matched # {} ELSE matched = expected
       IN  result' = [expected |-> expected, mode |-> mode, fallback |-> fallback,
                      evidence |-> evidence, log_passed |-> passed,
                      passed |-> response.passed /\ passed]
  /\ pc' = "judged"
  /\ UNCHANGED <<case, response, log, at, current, index>>

Next ==
  \/ AssertResponse \/ WaitForLogs \/ Download
  \/ CarriesId \/ NewEvent \/ Continues \/ NextInstance
  \/ Validate

Spec == Init /\ [][Next]_vars

-----------------------------------------------------------------------------
(* Properties *)

Compared == pc = "asserted" /\ case.mode \in {"exact", "json_subset"}

Fits(e, a, subset) == \A q \in demands(e, subset) : meets(a, q)

\* "every key/value in expected must appear in actual", "deep equality of the
\* whole body": the comparison finds no difference exactly when the answer,
\* without the ignored paths, meets each demand of the expectation, in nested
\* objects, templates and positional lists alike.
VerdictMeansDemands ==
  Compared =>
    (response.diffs = {} <=> Fits(PrunedExpected(case), PrunedActual(case),
                                  case.mode = "json_subset"))

\* Ignoring paths "so volatile fields don't cause spurious failures" only
\* relaxes a case: what passes without ignored paths passes with them.  It
\* speaks of keys and wildcards; a path that names a list position moves the
\* elements behind it, and may turn a list of two into a template for all.
NamesPosition(path) == \E n \in DOMAIN path : path[n] \in DOMAIN IndexOf

IgnoringOnlyRelaxes ==
  Compared /\ (\A n \in DOMAIN case.ignore : ~NamesPosition(case.ignore[n])) =>
    (compare(case.expected, case.actual, case.mode = "json_subset") = {}
       => response.diffs = {})

\* A line is the case's own when the request wrote it; it must be indexed if its
\* event has the id in its first line: the last line with a timestamp, up to it.
HeadedLine(instance, n) ==
  \E h \in 1..n : /\ instance[h].stamped /\ instance[h].id # NoId
                  /\ \A m \in (h + 1)..n : ~instance[m].stamped

Own == {l \in all_lines : log[l[1]][l[2]].writer = Mine}
Headed == {l \in Own : HeadedLine(log[l[1]], l[2])}

Wanted(lines) ==
  IF result.mode = "any_of"
  THEN \E w \in result.expected : \E l \in lines : w \in Says(l)
  ELSE \A w \in result.expected : \E l \in lines : w \in Says(l)

\* The log check passes only on lines the case's own request wrote, and it
\* does pass when they are there: no line of another request, of a heartbeat
\* or of another instance between or after the lines of an event counts, and
\* no continuation line is lost.  Only with the fallback, and only if no line
\* carries the id, does the rest of the log count.
LogVerdictIsEarned ==
  pc = "judged" =>
    LET fell_back == result.fallback /\ lines_for(Mine) = {}
    IN  /\ ~fell_back => \A w \in result.expected : result.evidence[w] \subseteq Own
        /\ result.log_passed => Wanted(IF fell_back THEN all_lines ELSE Own)
        /\ Wanted(Headed) => result.log_passed

=============================================================================
