-------------------------- MODULE JobRunnerProofs ---------------------------
(***************************************************************************)
(* Proofs about JobRunner, for every suite, every assignment of log        *)
(* sources, every retry budget and any number of evictions.                *)
(***************************************************************************)
EXTENDS JobRunner, FiniteSetTheorems, SequenceTheorems, WellFoundedInduction, TLAPS

-----------------------------------------------------------------------------
(* Groups of log sources *)

NatOrder == {p \in Nat \X Nat : p[1] < p[2]}

\* The order of the naturals is well-founded.
LEMMA NatOrderWF == IsWellFoundedOn(NatOrder, Nat)
<1>1. NatOrder = OpToRel(<, Nat)
  BY DEF NatOrder, OpToRel
<1> QED BY <1>1, NatLessThanWellFounded

\* A nonempty set of naturals has a least element.
LEMMA LeastElement ==
  ASSUME NEW S, S \subseteq Nat, S # {}
  PROVE  \E m \in S : \A k \in S : m <= k
<1>1. PICK m \in S : \A k \in S : ~ <<k, m>> \in NatOrder
  BY NatOrderWF, WFMin
<1>2. ASSUME NEW k \in S PROVE m <= k
  <2>1. k \in Nat /\ m \in Nat
    OBVIOUS
  <2>2. ~ <<k, m>> \in NatOrder
    BY <1>1
  <2>3. <<k, m>> \in Nat \X Nat
    BY <2>1
  <2>4. ~ (k < m)
    BY <2>2, <2>3 DEF NatOrder
  <2> QED BY <2>1, <2>4
<1> QED BY <1>2

\* distinctSources puts every log-validating case in one of NGroups groups.
LEMMA GroupBounds ==
  /\ NGroups \in Nat
  /\ \A i \in LogCases : GroupOf(i) \in Nat /\ GroupOf(i) < NGroups
<1>1. LogCases \subseteq Nat /\ FirstSeen \subseteq LogCases
  BY ConstantsOK DEF LogCases, Cases, FirstSeen
<1>2. IsFiniteSet(FirstSeen)
  <2>1. IsFiniteSet(Cases)
    BY ConstantsOK, FS_Interval DEF Cases
  <2>2. FirstSeen \in SUBSET Cases
    BY DEF FirstSeen, LogCases
  <2> QED BY <2>1, <2>2, FS_Subset
<1>3. NGroups \in Nat
  BY <1>2, FS_CardinalityType DEF NGroups
<1>4. ASSUME NEW i \in LogCases
      PROVE  GroupOf(i) \in Nat /\ GroupOf(i) < NGroups
  <2> DEFINE S == {j \in LogCases : SourceOf[j] = SourceOf[i]}
  <2>1. PICK m \in S : \A k \in S : m <= k
    <3>1. S # {} /\ S \subseteq Nat
      BY <1>1
    <3> QED BY <3>1, LeastElement
  <2>2. m \in FirstSeen
    BY <2>1 DEF FirstSeen
  <2>3. m \notin Before(i)
    BY <2>1, <1>1 DEF Before
  <2>4. Before(i) \in SUBSET (FirstSeen \ {m})
    BY <2>3 DEF Before
  <2>5. /\ IsFiniteSet(FirstSeen \ {m})
        /\ Cardinality(FirstSeen \ {m}) = NGroups - 1
    BY <1>2, <2>2, FS_RemoveElement DEF NGroups
  <2>6. /\ IsFiniteSet(Before(i))
        /\ Cardinality(Before(i)) <= NGroups - 1
    BY <2>4, <2>5, FS_Subset
  <2>7. GroupOf(i) \in Nat
    BY <2>6, FS_CardinalityType DEF GroupOf
  <2> QED BY <2>6, <2>7, <1>3 DEF GroupOf
<1> QED BY <1>3, <1>4

-----------------------------------------------------------------------------
(* Judging a group of cases *)

\* A case's run once judged.
JudgedRun(r, outcome) == [r EXCEPT !.log = outcome, !.passed = @ /\ outcome = "passed"]

\* Judging keeps the cases in place and touches only the group's.
LEMMA JudgeProperties ==
  ASSUME NEW rs \in Seq(CaseRun), Len(rs) <= NCases, NEW g,
         NEW outcome \in [Cases -> LogOutcome]
  PROVE  /\ Judge(rs, g, outcome) \in Seq(CaseRun)
         /\ Len(Judge(rs, g, outcome)) = Len(rs)
         /\ \A i \in 1..Len(rs) :
              /\ i \in Cases
              /\ i \in Group(g) =>
                   Judge(rs, g, outcome)[i] = JudgedRun(rs[i], outcome[i])
              /\ i \notin Group(g) => Judge(rs, g, outcome)[i] = rs[i]
<1> DEFINE n == Len(rs)
           f == Judge(rs, g, outcome)
<1>1. n \in Nat /\ DOMAIN rs = 1..n /\ rs \in [1..n -> CaseRun]
  BY LenProperties
<1>2. \A i \in 1..n : i \in Cases
  BY <1>1, ConstantsOK DEF Cases
<1>3. f = [i \in 1..n |-> IF i \in Group(g) THEN JudgedRun(rs[i], outcome[i]) ELSE rs[i]]
  BY <1>1 DEF Judge, JudgedRun
<1>4. ASSUME NEW i \in 1..n PROVE f[i] \in CaseRun
  <2>1. rs[i] \in CaseRun /\ outcome[i] \in LogOutcome
    BY <1>1, <1>2
  <2>2. (rs[i].passed /\ outcome[i] = "passed") \in BOOLEAN
    OBVIOUS
  <2>3. JudgedRun(rs[i], outcome[i]) \in CaseRun
    BY <2>1, <2>2 DEF CaseRun, JudgedRun
  <2> QED BY <2>1, <2>3, <1>3
<1>5. f \in [1..n -> CaseRun]
  BY <1>3, <1>4
<1>6. f \in Seq(CaseRun) /\ Len(f) = n
  BY <1>1, <1>5
<1> QED BY <1>2, <1>3, <1>6

\* The two ways logPhase judges a source's cases, as outcomes per case.
LEMMA OutcomesTyped ==
  /\ [i \in Cases |-> "nosnapshot"] \in [Cases -> LogOutcome]
  /\ \A rs, snap :
       [i \in Cases |-> IF Satisfied(i, Considered(rs[i].cid, snap))
                       THEN "passed" ELSE "failed"] \in [Cases -> LogOutcome]
  BY DEF LogOutcome

-----------------------------------------------------------------------------
(* Types and control *)

\* Moving on to the next source keeps types and control.
LEMMA AdvanceKeeps ==
  ASSUME TypeOK, Control, pc = "fetching",
         NEW rs \in Seq(CaseRun), Len(rs) = Len(draft),
         advanceSource(rs)
  PROVE  TypeOK' /\ Control'
<1>1. NGroups \in Nat /\ source_idx < NGroups /\ Len(rs) = NCases
  BY GroupBounds DEF TypeOK, Control
<1>2. rows' \in [Callback -> Nat]
  BY DEF TypeOK, advanceSource, schedule, Callback
<1>3. draft' \in Seq(CaseRun) /\ Len(draft') <= NCases
  <2>1. <<>> \in Seq(CaseRun) /\ Len(<<>>) = 0
    BY EmptySeq
  <2>2. draft' = <<>> \/ draft' = rs
    BY DEF advanceSource
  <2>3. CASE draft' = <<>>
    BY <2>1, <2>3, ConstantsOK
  <2>4. CASE draft' = rs
    BY <1>1, <2>4, ConstantsOK
  <2> QED BY <2>2, <2>3, <2>4
<1>4. source_idx' \in 0..NGroups /\ attempt' \in 0..MaxRetries
  BY <1>1, ConstantsOK DEF advanceSource, TypeOK
<1>5. TypeOK'
  BY <1>1, <1>2, <1>3, <1>4 DEF TypeOK, advanceSource, world
<1>6. Control'
  BY <1>1, ConstantsOK
     DEF TypeOK, Control, advanceSource, schedule, Callback, world
<1> QED BY <1>5, <1>6

\* Every step keeps types and control.
LEMMA TypeControlStep == TypeOK /\ Control /\ [Next]_vars => TypeOK' /\ Control'
<1> SUFFICES ASSUME TypeOK, Control, [Next]_vars
             PROVE  TypeOK' /\ Control'
  OBVIOUS
<1> USE ConstantsOK, GroupBounds
<1>a. NGroups \in Nat
  OBVIOUS
<1>1. CASE Start
  <2>1. TypeOK'
    BY <1>1, EmptySeq
       DEF Start, schedule, TypeOK, Control, handler, world, JobState, Callback
  <2>2. Control'
    BY <1>1 DEF Start, schedule, TypeOK, Control, handler, world, Callback
  <2> QED BY <2>1, <2>2
<1>2. CASE RunRequests
  <2>1. TypeOK'
    BY <1>2, EmptySeq
       DEF RunRequests, TypeOK, Control, durable, JobState, Callback
  <2>2. Control'
    BY <1>2 DEF RunRequests, TypeOK, Control, durable, Callback
  <2> QED BY <2>1, <2>2
<1>3. CASE CallCase
  <2> DEFINE i == Len(draft) + 1
  <2>1. PICK outcome \in ResponseOutcome, reached \in BOOLEAN :
          /\ draft' = Append(draft, [cid |-> <<i, sweep>>, response |-> outcome,
                                     log |-> "none", passed |-> outcome = "passed"])
          /\ received' = IF reached THEN received \cup {WireId(i, sweep)} ELSE received
    BY <1>3 DEF CallCase
  <2>2. i \in Cases /\ Len(draft) \in Nat
    BY <1>3 DEF CallCase, TypeOK, Cases
  <2>3. [cid |-> <<i, sweep>>, response |-> outcome,
         log |-> "none", passed |-> outcome = "passed"] \in CaseRun
    BY <2>2 DEF TypeOK, CaseRun, CorrelationId, LogOutcome
  <2>4. draft' \in Seq(CaseRun) /\ Len(draft') = i
    BY <2>1, <2>2, <2>3 DEF TypeOK
  <2>5. received' \subseteq CorrelationId
    BY <2>1, <2>2 DEF TypeOK, WireId, CorrelationId
  <2>6. TypeOK'
    BY <1>3, <2>2, <2>4, <2>5 DEF CallCase, TypeOK, durable, Cases
  <2>7. Control'
    BY <1>3 DEF CallCase, TypeOK, Control, durable
  <2> QED BY <2>6, <2>7
<1>4. CASE RequestsDone
  <2>1. TypeOK'
    BY <1>4, EmptySeq
       DEF RequestsDone, schedule, TypeOK, Control, world, JobState, Callback
  <2>2. Control'
    BY <1>4 DEF RequestsDone, schedule, TypeOK, Control, world, Callback
  <2> QED BY <2>1, <2>2
<1>5. CASE RequestsDoneWithoutLogs
  <2>1. TypeOK'
    BY <1>5, EmptySeq
       DEF RequestsDoneWithoutLogs, TypeOK, Control, durable, world, JobState, Callback
  <2>2. Control'
    BY <1>5 DEF RequestsDoneWithoutLogs, TypeOK, Control, durable, world, Callback
  <2> QED BY <2>1, <2>2
<1>6. CASE RunRequestsThrows
  <2>1. TypeOK'
    BY <1>6, EmptySeq
       DEF RunRequestsThrows, fail, TypeOK, Control, world, JobState, Callback
  <2>2. Control'
    BY <1>6 DEF RunRequestsThrows, fail, TypeOK, Control, world, Callback
  <2> QED BY <2>1, <2>2
<1>7. CASE LogPhase
  <2>1. TypeOK'
    BY <1>7, EmptySeq
       DEF LogPhase, TypeOK, Control, world, JobState, Callback
  <2>2. Control'
    BY <1>7 DEF LogPhase, TypeOK, Control, world, Callback
  <2> QED BY <2>1, <2>2
<1>8. CASE LogPhaseNothingLeft
  <2>1. TypeOK'
    BY <1>8, EmptySeq
       DEF LogPhaseNothingLeft, TypeOK, Control, durable, world, JobState, Callback
  <2>2. Control'
    BY <1>8 DEF LogPhaseNothingLeft, TypeOK, Control, durable, world, Callback
  <2> QED BY <2>1, <2>2
<1>9. CASE SnapshotFails
  <2>1. /\ failGroupSnapshot(draft, source_idx) \in Seq(CaseRun)
        /\ Len(failGroupSnapshot(draft, source_idx)) = Len(draft)
    BY JudgeProperties, OutcomesTyped DEF TypeOK, failGroupSnapshot
  <2>2. pc = "fetching" /\ advanceSource(failGroupSnapshot(draft, source_idx))
    BY <1>9 DEF SnapshotFails
  <2> QED BY <2>1, <2>2, AdvanceKeeps
<1>10. CASE ValidateNow
  <2>1. /\ validateGroup(draft, source_idx, surfaced) \in Seq(CaseRun)
        /\ Len(validateGroup(draft, source_idx, surfaced)) = Len(draft)
    <3> DEFINE W(i) == IF Satisfied(i, Considered(draft[i].cid, surfaced))
                       THEN "passed" ELSE "failed"
               V == [i \in Cases |-> W(i)]
    <3>0. \A i \in Cases : W(i) \in LogOutcome
      BY OutcomesTyped
    <3>1. V \in [Cases -> LogOutcome]
      <4> HIDE DEF W
      <4> QED BY <3>0
    <3>2. validateGroup(draft, source_idx, surfaced) = Judge(draft, source_idx, V)
      BY DEF validateGroup
    <3>3. draft \in Seq(CaseRun) /\ Len(draft) <= NCases
      BY DEF TypeOK
    <3> HIDE DEF V
    <3>4. /\ Judge(draft, source_idx, V) \in Seq(CaseRun)
          /\ Len(Judge(draft, source_idx, V)) = Len(draft)
      BY <3>1, <3>3, JudgeProperties
    <3> QED BY <3>2, <3>4
  <2>2. pc = "fetching" /\ advanceSource(validateGroup(draft, source_idx, surfaced))
    BY <1>10 DEF ValidateNow, SnapshotTaken
  <2> QED BY <2>1, <2>2, AdvanceKeeps
<1>11. CASE RetryLater
  <2>1. TypeOK'
    BY <1>11, EmptySeq
       DEF RetryLater, schedule, SnapshotTaken, decideRetry, TypeOK, Control, world,
          JobState, Callback
  <2>2. Control'
    BY <1>11 DEF RetryLater, schedule, SnapshotTaken, decideRetry, TypeOK, Control, world,
       Callback
  <2> QED BY <2>1, <2>2
<1>12. CASE LogPhaseThrows
  <2>1. TypeOK'
    BY <1>12, EmptySeq
       DEF LogPhaseThrows, fail, TypeOK, Control, world, JobState, Callback
  <2>2. Control'
    BY <1>12 DEF LogPhaseThrows, fail, TypeOK, Control, world, Callback
  <2> QED BY <2>1, <2>2
<1>13. CASE StoreResults
  <2>1. draft \in [Cases -> CaseRun] /\ DOMAIN draft = Cases
    BY <1>13, LenProperties DEF StoreResults, TypeOK, Control, Cases
  <2>2. finalizeReport(draft) \in
          [Cases -> [response : ResponseOutcome, log : LogOutcome, passed : BOOLEAN]]
    BY <2>1 DEF finalizeReport, CaseRun
  <2>3. TypeOK'
    BY <1>13, <2>2, EmptySeq DEF StoreResults, TypeOK, Control, JobState
  <2>4. Control'
    BY <1>13 DEF StoreResults, TypeOK, Control
  <2> QED BY <2>3, <2>4
<1>14. CASE StoreResultsThrows
  <2>1. TypeOK'
    BY <1>14, EmptySeq
       DEF StoreResultsThrows, fail, TypeOK, Control, JobState, Callback
  <2>2. Control'
    BY <1>14 DEF StoreResultsThrows, fail, TypeOK, Control, Callback
  <2> QED BY <2>1, <2>2
<1>15. CASE DeleteRow
  <2>1. TypeOK'
    BY <1>15, EmptySeq
       DEF DeleteRow, TypeOK, Control, durable, world, JobState, Callback
  <2>2. Control'
    BY <1>15 DEF DeleteRow, TypeOK, Control, durable, world, Callback
  <2> QED BY <2>1, <2>2
<1>16. CASE Crash
  <2>1. TypeOK'
    BY <1>16, EmptySeq
       DEF Crash, TypeOK, Control, durable, JobState, Callback
  <2>2. Control'
    BY <1>16 DEF Crash, TypeOK, Control, durable, Callback
  <2> QED BY <2>1, <2>2
<1>17. CASE Surface
  <2>1. TypeOK'
    BY <1>17, EmptySeq
       DEF Surface, TypeOK, Control, durable, handler, JobState, Callback
  <2>2. Control'
    BY <1>17 DEF Surface, TypeOK, Control, durable, handler, Callback
  <2> QED BY <2>1, <2>2
<1>18. CASE UNCHANGED vars
  BY <1>18 DEF vars, durable, handler, world, TypeOK, Control
<1> QED
  BY <1>1, <1>2, <1>3, <1>4, <1>5, <1>6, <1>7, <1>8, <1>9, <1>10, <1>11, <1>12, <1>13,
     <1>14, <1>15, <1>16, <1>17, <1>18
  DEF Next, HandlerStep, RequestsOver

\* They hold before the job is started.
LEMMA TypeControlInit == Init => TypeOK /\ Control
<1> SUFFICES ASSUME Init PROVE TypeOK /\ Control
  OBVIOUS
<1>1. NGroups \in Nat
  BY GroupBounds
<1>2. TypeOK
  BY <1>1, ConstantsOK, EmptySeq DEF Init, TypeOK, JobState, Callback
<1>3. Control
  BY DEF Init, Control, Callback
<1> QED BY <1>2, <1>3

\* Every reachable state is well typed: one entry per case in the stored runs
\* and in the report, the source index and the attempt counter in range.
THEOREM TypeCorrect == Spec => [](TypeOK /\ Control)
  BY TypeControlInit, TypeControlStep, PTL DEF Spec

-----------------------------------------------------------------------------
(* Schedule rows, workbooks and downloads *)

\* Every step pays for the rows, workbooks and downloads it adds.
LEMMA AliveBudgetStep ==
  TypeOK /\ Control /\ Alive /\ Budget /\ [Next]_vars => Alive' /\ Budget'
<1> SUFFICES ASSUME TypeOK, Control, Alive, Budget, [Next]_vars
             PROVE  Alive' /\ Budget'
  OBVIOUS
<1>a. /\ rows \in [Callback -> Nat] /\ files \in Nat /\ crashes \in Nat
      /\ row \in Callback \cup {"none"}
  BY DEF TypeOK
<1>b. Callback = {"runRequests", "logPhase"} /\ Terminal = {"complete", "error"}
  BY DEF Callback, Terminal
<1> USE <1>a, <1>b
<1>1. CASE Start
  <2>1. /\ pc = "idle" /\ files = 0
        /\ rows["runRequests"] = 0 /\ rows["logPhase"] = 0
    BY <1>1 DEF Start, Control
  <2>2. /\ rows'["runRequests"] = 1 /\ rows'["logPhase"] = 0
        /\ pc' = "idle" /\ files' = 0 /\ crashes' = crashes
    BY <1>1, <2>1 DEF Start, schedule, handler, world
  <2> QED BY <2>2 DEF Alive, Budget, Pending, Due
<1>2. CASE RunRequests
  BY <1>2 DEF RunRequests, Control, Alive, Budget, Pending, Due, durable
<1>3. CASE CallCase
  BY <1>3 DEF CallCase, Control, Alive, Budget, Pending, Due, durable
<1>4. CASE RequestsDone
  BY <1>4, SMTT(30) DEF RequestsDone, schedule, Control, Alive, Budget, Pending, Due, world
<1>5. CASE RequestsDoneWithoutLogs
  BY <1>5 DEF RequestsDoneWithoutLogs, Control, Alive, Budget, Pending, Due, durable, world
<1>6. CASE RunRequestsThrows
  BY <1>6 DEF RunRequestsThrows, fail, Control, Alive, Budget, Pending, Due, world
<1>7. CASE LogPhase
  BY <1>7 DEF LogPhase, Control, Alive, Budget, Pending, Due, world
<1>8. CASE LogPhaseNothingLeft
  BY <1>8 DEF LogPhaseNothingLeft, Control, Alive, Budget, Pending, Due, durable, world
<1>9. ASSUME NEW rs, pc = "fetching", advanceSource(rs)
      PROVE  Alive' /\ Budget'
  BY <1>9, SMTT(30) DEF advanceSource, schedule, Control, Alive, Budget, Pending, Due, world
<1>10. CASE SnapshotFails \/ ValidateNow
  BY <1>9, <1>10 DEF SnapshotFails, ValidateNow, SnapshotTaken
<1>11. CASE RetryLater
  BY <1>11, SMTT(30)
  DEF RetryLater, schedule, SnapshotTaken, Control, Alive, Budget, Pending, Due, world
<1>12. CASE LogPhaseThrows
  BY <1>12 DEF LogPhaseThrows, fail, Control, Alive, Budget, Pending, Due, world
<1>13. CASE StoreResults
  BY <1>13 DEF StoreResults, Control, Alive, Budget, Pending, Due
<1>14. CASE StoreResultsThrows
  BY <1>14, SMTT(30) DEF StoreResultsThrows, fail, Control, Alive, Budget, Pending, Due
<1>15. CASE DeleteRow
  BY <1>15 DEF DeleteRow, Control, Alive, Budget, Pending, Due, durable, world
<1>16. CASE Crash
  <2>1. /\ pc # "idle" /\ pc' = "idle" /\ crashes' = crashes + 1
        /\ UNCHANGED <<rows, status>>
        /\ files' = files \/ (pc = "storing" /\ files' = files + 1)
    BY <1>16 DEF Crash, durable
  <2>2. Alive'
    BY <2>1 DEF Alive, Pending, Due, Control
  <2>3. Budget'
    BY <2>1 DEF Budget, Pending, Due
  <2> QED BY <2>2, <2>3
<1>17. CASE Surface
  BY <1>17 DEF Surface, Control, Alive, Budget, Pending, Due, durable, handler
<1>18. CASE UNCHANGED vars
  BY <1>18 DEF vars, durable, handler, world, Alive, Budget, Pending, Due
<1> QED
  BY <1>1, <1>2, <1>3, <1>4, <1>5, <1>6, <1>7, <1>8, <1>9, <1>10, <1>11, <1>12, <1>13,
     <1>14, <1>15, <1>16, <1>17, <1>18
  DEF Next, HandlerStep, RequestsOver

-----------------------------------------------------------------------------
(* Downloads *)

\* What is left to download is a number of downloads.
OwedTyped ==
  \A g \in DOMAIN fetches :
    /\ g \in Nat /\ fetches[g] \in Nat /\ crashes \in Nat
    /\ Spare(g) \in Nat /\ Spare(g) <= MaxRetries + 1
    /\ Due("runRequests") \in Nat /\ Due("logPhase") \in Nat

LEMMA OwedParts == TypeOK /\ Control => OwedTyped
<1> SUFFICES ASSUME TypeOK, Control, NEW g \in DOMAIN fetches
             PROVE  /\ g \in Nat /\ fetches[g] \in Nat /\ crashes \in Nat
                    /\ Spare(g) \in Nat /\ Spare(g) <= MaxRetries + 1
                    /\ Due("runRequests") \in Nat /\ Due("logPhase") \in Nat
  BY DEF OwedTyped
<1>1. /\ fetches \in [0..NGroups - 1 -> Nat] /\ rows["runRequests"] \in Nat
      /\ rows["logPhase"] \in Nat /\ source_idx \in Nat /\ attempt \in 0..MaxRetries
      /\ MaxRetries \in Nat /\ NGroups \in Nat /\ row \in Callback \cup {"none"}
      /\ pc = "idle" <=> row = "none" /\ pc # "idle" => rows[row] > 0
      /\ crashes \in Nat
  BY GroupBounds, ConstantsOK DEF TypeOK, Control, Callback
<1>2. g \in Nat /\ fetches[g] \in Nat /\ Spare(g) \in Nat /\ Spare(g) <= MaxRetries + 1
  BY <1>1 DEF Spare
<1>3. Due("runRequests") \in Nat /\ Due("logPhase") \in Nat
  BY <1>1 DEF Due, Callback
<1> QED BY <1>1, <1>2, <1>3

LEMMA OwedPartsNext == TypeOK' /\ Control' => OwedTyped'
  BY OwedParts, PTL

\* What becomes of the downloads owed, counted in sweeps of the requests.
LEMMA Counting ==
  ASSUME NEW k \in Nat, NEW f \in Nat, NEW f2 \in Nat, NEW r \in Nat, NEW r2 \in Nat,
         NEW l \in Nat, NEW l2 \in Nat, NEW s \in Nat, NEW s2 \in Nat,
         NEW c \in Nat, NEW c2 \in Nat,
         f + (k + 2) * r + l + (IF l > 0 THEN s ELSE 0) <= (k + 2) * (1 + c),
         \/ /\ r2 = r /\ c2 = c                     \* within a row
            /\ f2 + l2 + (IF l2 > 0 THEN s2 ELSE 0) <= f + l + (IF l > 0 THEN s ELSE 0)
         \/ /\ r = r2 + 1 /\ c2 = c /\ f2 = f      \* a runRequests is over
            /\ l2 <= l + 1 /\ s2 <= k + 1
         \/ /\ c2 = c + 1 /\ f2 = f                \* an eviction
            /\ \/ r2 = r + 1 /\ l2 = l /\ s2 = s
               \/ r2 = r /\ l2 <= l + 1 /\ s2 <= k + 1
  PROVE  f2 + (k + 2) * r2 + l2 + (IF l2 > 0 THEN s2 ELSE 0) <= (k + 2) * (1 + c2)
OBVIOUS

\* Every step keeps the downloads there may be within their bound.
LEMMA DownloadsStep ==
  TypeOK /\ Control /\ Downloads /\ [Next]_vars => Downloads'
<1> SUFFICES ASSUME TypeOK, Control, Downloads, [Next]_vars PROVE Downloads'
  OBVIOUS
<1>a. TypeOK' /\ Control'
  BY TypeControlStep
<1>b. DOMAIN fetches' = DOMAIN fetches /\ DOMAIN fetches = 0..NGroups - 1
  BY <1>a DEF TypeOK
<1> SUFFICES ASSUME NEW g \in DOMAIN fetches
             PROVE  /\ status' = "pending" => fetches'[g] = 0
                    /\ Owed(g)' <= (MaxRetries + 2) * (1 + crashes')
                    /\ fetches'[g] < (MaxRetries + 2) * (1 + crashes')
  BY <1>b DEF Downloads
<1> DEFINE r == Due("runRequests")
           l == Due("logPhase")
           s == Spare(g)
<1>c. /\ g \in Nat /\ fetches[g] \in Nat /\ crashes \in Nat
      /\ s \in Nat /\ s <= MaxRetries + 1 /\ r \in Nat /\ l \in Nat
  BY OwedParts DEF OwedTyped
<1>d. /\ fetches'[g] \in Nat /\ crashes' \in Nat
      /\ s' \in Nat /\ s' <= MaxRetries + 1 /\ r' \in Nat /\ l' \in Nat
  BY <1>a, <1>b, OwedPartsNext DEF OwedTyped
<1>e. MaxRetries \in Nat
  BY ConstantsOK
<1>f. /\ rows \in [Callback -> Nat] /\ Callback = {"runRequests", "logPhase"}
      /\ row \in Callback \cup {"none"} /\ (pc = "idle" <=> row = "none")
      /\ (pc # "idle" => rows[row] > 0)
      /\ source_idx \in Nat /\ attempt \in Nat /\ attempt <= MaxRetries
  BY GroupBounds, ConstantsOK DEF TypeOK, Control, Callback
<1>g. /\ fetches[g] + (MaxRetries + 2) * r + l + (IF l > 0 THEN s ELSE 0)
           <= (MaxRetries + 2) * (1 + crashes)
      /\ fetches[g] < (MaxRetries + 2) * (1 + crashes)
      /\ status = "pending" => fetches[g] = 0
  BY DEF Downloads, Owed
<1>h. ASSUME \/ /\ r' = r /\ crashes' = crashes
                /\ fetches'[g] + l' + (IF l' > 0 THEN s' ELSE 0)
                     <= fetches[g] + l + (IF l > 0 THEN s ELSE 0)
             \/ r = r' + 1 /\ crashes' = crashes /\ fetches'[g] = fetches[g] /\ l' <= l + 1
             \/ /\ crashes' = crashes + 1 /\ fetches'[g] = fetches[g]
                /\ \/ r' = r + 1 /\ l' = l /\ s' = s
                   \/ r' = r /\ l' <= l + 1,
             status' # "pending",
             fetches'[g] = fetches[g] \/ (fetches'[g] = fetches[g] + 1 /\ l > 0 /\ s > 0)
      PROVE  /\ status' = "pending" => fetches'[g] = 0
             /\ Owed(g)' <= (MaxRetries + 2) * (1 + crashes')
             /\ fetches'[g] < (MaxRetries + 2) * (1 + crashes')
  <2> DEFINE f == fetches[g]
             f2 == fetches'[g]
             r2 == r'
             l2 == l'
             s2 == s'
             c2 == crashes'
  <2>1. Owed(g)' = f2 + (MaxRetries + 2) * r2 + l2 + (IF l2 > 0 THEN s2 ELSE 0)
    BY DEF Owed
  <2>2. /\ f2 \in Nat /\ r2 \in Nat /\ l2 \in Nat /\ s2 \in Nat /\ c2 \in Nat
        /\ f \in Nat /\ r \in Nat /\ l \in Nat /\ s \in Nat /\ crashes \in Nat
        /\ s2 <= MaxRetries + 1
    BY <1>c, <1>d
  <2>3. \/ r2 = r /\ c2 = crashes
           /\ f2 + l2 + (IF l2 > 0 THEN s2 ELSE 0) <= f + l + (IF l > 0 THEN s ELSE 0)
        \/ r = r2 + 1 /\ c2 = crashes /\ f2 = f /\ l2 <= l + 1
        \/ /\ c2 = crashes + 1 /\ f2 = f
           /\ \/ r2 = r + 1 /\ l2 = l /\ s2 = s
              \/ r2 = r /\ l2 <= l + 1
    BY <1>h
  <2>4. /\ f + (MaxRetries + 2) * r + l + (IF l > 0 THEN s ELSE 0)
             <= (MaxRetries + 2) * (1 + crashes)
        /\ f < (MaxRetries + 2) * (1 + crashes)
        /\ f2 = f \/ (f2 = f + 1 /\ l > 0 /\ s > 0)
    BY <1>g, <1>h
  <2> HIDE DEF f, f2, r, r2, l, l2, s, s2, c2
  <2>5. f2 + (MaxRetries + 2) * r2 + l2 + (IF l2 > 0 THEN s2 ELSE 0) <= (MaxRetries + 2) * (1 + c2)
    BY <1>e, <2>2, <2>3, <2>4, Counting
  <2>6. f2 < (MaxRetries + 2) * (1 + c2)
    <3>1. (MaxRetries + 2) * r \in Nat
      BY <1>e, <2>2
    <3>2. (MaxRetries + 2) * (1 + c2) >= (MaxRetries + 2) * (1 + crashes)
      BY <1>e, <2>2, <2>3
    <3> QED BY <1>e, <2>2, <2>4, <3>1, <3>2
  <2> QED BY <1>h, <2>1, <2>5, <2>6 DEF f2, c2
<1> USE <1>c, <1>d, <1>e, <1>f
<1>1. CASE Start
  <2>1. /\ status = "pending" /\ status' # "pending" /\ fetches' = fetches /\ crashes' = crashes
        /\ rows' = [rows EXCEPT !["runRequests"] = @ + 1] /\ UNCHANGED <<pc, row>>
        /\ rows["runRequests"] = 0 /\ rows["logPhase"] = 0 /\ pc = "idle"
    BY <1>1 DEF Start, schedule, handler, world, Control
  <2>2. fetches[g] = 0 /\ r' = 1 /\ l' = 0
    BY <1>g, <2>1 DEF Due
  <2>3. Owed(g)' = MaxRetries + 2
    BY <2>1, <2>2 DEF Owed
  <2>4. (MaxRetries + 2) * (1 + crashes) >= MaxRetries + 2
    OBVIOUS
  <2> QED BY <2>1, <2>2, <2>3, <2>4
<1>2. CASE RunRequests \/ LogPhaseNothingLeft \/ CallCase \/ RequestsDoneWithoutLogs
  <2>1. /\ UNCHANGED <<rows, status, fetches, crashes, source_idx, attempt>>
        /\ pc # "returned" /\ pc' # "returned" /\ pc # "fetching" /\ pc' # "fetching"
        /\ pc \in {"sending", "storing"} \/ \E cb \in Callback : rows[cb] > 0
    BY <1>2 DEF RunRequests, LogPhaseNothingLeft, CallCase, RequestsDoneWithoutLogs, durable, world
  <2>2. r' = r /\ l' = l /\ s' = s
    BY <2>1 DEF Due, Spare
  <2>3. status' # "pending"
    BY <2>1 DEF Control
  <2> QED BY <1>h, <2>1, <2>2, <2>3
<1>4. CASE RequestsDone
  <2>1. /\ status' # "pending" /\ pc = "sending" /\ pc' = "returned"
        /\ UNCHANGED <<fetches, crashes, row>>
        /\ row = "runRequests" /\ rows' = [rows EXCEPT !["logPhase"] = @ + 1]
    BY <1>4 DEF RequestsDone, schedule, world, Control
  <2>2. r = r' + 1 /\ l' = l + 1
    BY <2>1 DEF Due
  <2> QED BY <1>h, <2>1, <2>2
<1>6. CASE RunRequestsThrows \/ LogPhaseThrows \/ StoreResults \/ StoreResultsThrows
  <2>1. /\ status' # "pending" /\ pc \in {"sending", "fetching", "storing"} /\ pc' = "returned"
        /\ UNCHANGED <<fetches, crashes, row, rows, source_idx, attempt>>
    BY <1>6 DEF RunRequestsThrows, LogPhaseThrows, StoreResults, StoreResultsThrows, fail, world
  <2>2. CASE row = "runRequests"
    <3>1. r = r' + 1 /\ l' = l
      BY <2>1, <2>2 DEF Due
    <3> QED BY <1>h, <2>1, <3>1
  <2>3. CASE row = "logPhase"
    <3>1. r' = r /\ l = l' + 1
      BY <2>1, <2>3 DEF Due
    <3>2. s' <= s + 1
      BY <2>1 DEF Spare
    <3> QED BY <1>h, <2>1, <3>1, <3>2
  <2> QED BY <2>1, <2>2, <2>3
<1>7. CASE LogPhase
  <2>1. /\ status' # "pending" /\ pc = "idle" /\ pc' = "fetching" /\ rows["logPhase"] > 0
        /\ UNCHANGED <<crashes, rows, source_idx, attempt>>
        /\ fetches' = [fetches EXCEPT ![source_idx] = @ + 1]
    BY <1>7 DEF LogPhase, world
  <2>2. r' = r /\ l' = l /\ l > 0
    BY <2>1 DEF Due
  <2>3. CASE g = source_idx
    <3>1. fetches'[g] = fetches[g] + 1 /\ s = s' + 1
      BY <2>1, <2>3 DEF Spare
    <3> QED BY <1>h, <2>1, <2>2, <3>1
  <2>4. CASE g # source_idx
    <3>1. fetches'[g] = fetches[g] /\ s = s'
      BY <2>1, <2>4 DEF Spare
    <3> QED BY <1>h, <2>1, <2>2, <3>1
  <2> QED BY <2>3, <2>4
<1>8. ASSUME NEW rs, pc = "fetching", advanceSource(rs)
      PROVE  /\ status' = "pending" => fetches'[g] = 0
             /\ Owed(g)' <= (MaxRetries + 2) * (1 + crashes')
             /\ fetches'[g] < (MaxRetries + 2) * (1 + crashes')
  <2>1. /\ status' # "pending" /\ row = "logPhase" /\ source_idx' = source_idx + 1 /\ attempt' = 0
        /\ UNCHANGED <<fetches, crashes, row>>
        /\ \/ rows' = [rows EXCEPT !["logPhase"] = @ + 1] /\ pc' = "returned"
           \/ rows' = rows /\ pc' = "storing"
    BY <1>8 DEF advanceSource, schedule, world, Control
  <2>2. r' = r /\ l' = l /\ l > 0
    BY <1>8, <2>1 DEF Due
  <2>3. s' <= s
    BY <1>8, <2>1 DEF Spare
  <2> QED BY <1>h, <2>1, <2>2, <2>3
<1>9. CASE SnapshotFails \/ ValidateNow
  BY <1>8, <1>9 DEF SnapshotFails, ValidateNow, SnapshotTaken
<1>11. CASE RetryLater
  <2>1. /\ status' # "pending" /\ pc = "fetching" /\ row = "logPhase" /\ attempt' = attempt + 1
        /\ UNCHANGED <<source_idx, fetches, crashes, row>> /\ pc' = "returned"
        /\ rows' = [rows EXCEPT !["logPhase"] = @ + 1]
    BY <1>11 DEF RetryLater, SnapshotTaken, schedule, world, Control
  <2>2. r' = r /\ l' = l /\ l > 0
    BY <2>1 DEF Due
  <2>3. s' <= s
    BY <2>1 DEF Spare
  <2> QED BY <1>h, <2>1, <2>2, <2>3
<1>15. CASE DeleteRow
  <2>1. /\ UNCHANGED <<status, fetches, crashes, source_idx, attempt>>
        /\ pc = "returned" /\ pc' = "idle"
        /\ rows' = [rows EXCEPT ![row] = @ - 1] /\ status' # "pending"
    BY <1>15 DEF DeleteRow, durable, world, Control
  <2>2. r' = r /\ l' = l /\ s' = s
    BY <2>1 DEF Due, Spare
  <2> QED BY <1>h, <2>1, <2>2
<1>16. CASE Crash
  <2>1. /\ UNCHANGED <<status, fetches, source_idx, attempt, rows>> /\ pc # "idle" /\ pc' = "idle"
        /\ crashes' = crashes + 1 /\ status' # "pending"
    BY <1>16 DEF Crash, durable, Control
  <2>2. CASE pc = "returned" /\ row = "runRequests"
    <3>1. r' = r + 1 /\ l' = l /\ s' = s
      BY <2>1, <2>2 DEF Due, Spare
    <3> QED BY <1>h, <2>1, <3>1
  <2>3. CASE ~(pc = "returned" /\ row = "runRequests")
    <3>1. r' = r /\ l' <= l + 1
      BY <2>1, <2>3 DEF Due
    <3> QED BY <1>h, <2>1, <3>1
  <2> QED BY <2>2, <2>3
<1>17. CASE Surface \/ UNCHANGED vars
  <2>1. UNCHANGED <<status, fetches, crashes, source_idx, attempt, rows, pc, row>>
    BY <1>17 DEF Surface, durable, handler, vars, world
  <2> QED BY <1>g, <2>1 DEF Owed, Due, Spare
<1> QED
  BY <1>1, <1>2, <1>4, <1>6, <1>7, <1>9, <1>11, <1>15, <1>16, <1>17
  DEF Next, HandlerStep, RequestsOver

-----------------------------------------------------------------------------
(* Verdicts *)

\* Judging the g-th group extends what was judged by exactly that group.
LEMMA JudgeExtends ==
  ASSUME NEW rs \in Seq(CaseRun), Len(rs) <= NCases, NEW g \in Nat,
         NEW outcome \in [Cases -> LogOutcome],
         \A i \in Cases : outcome[i] # "none",
         JudgedTo(rs, g)
  PROVE  JudgedTo(Judge(rs, g, outcome), g + 1)
<1> DEFINE f == Judge(rs, g, outcome)
<1>1. /\ f \in Seq(CaseRun) /\ Len(f) = Len(rs)
      /\ \A i \in 1..Len(rs) :
           /\ i \in Cases
           /\ i \in Group(g) => f[i] = JudgedRun(rs[i], outcome[i])
           /\ i \notin Group(g) => f[i] = rs[i]
  BY JudgeProperties
<1>2. DOMAIN f = 1..Len(rs) /\ DOMAIN rs = 1..Len(rs)
  BY <1>1, LenProperties
<1> HIDE DEF f
<1>3. ASSUME NEW i \in 1..Len(rs)
      PROVE  /\ (i \in LogCases /\ GroupOf(i) < g + 1) <=> f[i].log # "none"
             /\ f[i].passed <=> f[i].response = "passed" /\ f[i].log \in {"none", "passed"}
  <2>1. rs[i] \in CaseRun /\ i \in Cases
    BY <1>1, ElementOfSeq
  <2>2. /\ (i \in LogCases /\ GroupOf(i) < g) <=> rs[i].log # "none"
        /\ rs[i].passed <=> rs[i].response = "passed" /\ rs[i].log \in {"none", "passed"}
    BY <1>2 DEF JudgedTo
  <2>3. i \in LogCases => GroupOf(i) \in Nat
    BY GroupBounds
  <2>4. CASE i \in Group(g)
    <3>1. i \in LogCases /\ GroupOf(i) = g
      BY <2>4 DEF Group
    <3>2. rs[i].log = "none" /\ (rs[i].passed <=> rs[i].response = "passed")
      BY <2>2, <3>1
    <3>3. /\ f[i].log = outcome[i] /\ f[i].response = rs[i].response
          /\ f[i].passed <=> (rs[i].passed /\ outcome[i] = "passed")
      BY <1>1, <2>1, <2>4 DEF CaseRun, JudgedRun
    <3>4. outcome[i] # "none"
      BY <2>1
    <3> QED BY <3>1, <3>2, <3>3, <3>4
  <2>5. CASE i \notin Group(g)
    <3>1. f[i] = rs[i]
      BY <1>1, <2>5
    <3>2. (i \in LogCases /\ GroupOf(i) < g + 1) <=> (i \in LogCases /\ GroupOf(i) < g)
      BY <2>3, <2>5 DEF Group
    <3> QED BY <2>2, <3>1, <3>2
  <2> QED BY <2>4, <2>5
<1>4. JudgedTo(f, g + 1)
  BY <1>2, <1>3 DEF JudgedTo
<1> QED BY <1>4 DEF f

\* A fresh run, and the same run with one more unjudged case.
LEMMA JudgedEmpty == JudgedTo(<<>>, 0)
  BY DEF JudgedTo

\* With every group judged, the report is one a caller may rely on.
LEMMA ReportEarned ==
  ASSUME NEW rs \in Seq(CaseRun), Len(rs) = NCases, JudgedTo(rs, NGroups)
  PROVE  finalizeReport(rs) \in Run!Report
<1>1. rs \in [Cases -> CaseRun] /\ DOMAIN rs = Cases
  BY LenProperties DEF Cases
<1> DEFINE r == finalizeReport(rs)
<1>2. r = [i \in Cases |-> [response |-> rs[i].response, log |-> rs[i].log,
                           passed |-> rs[i].passed]]
  BY <1>1 DEF finalizeReport
<1>3. ASSUME NEW i \in Cases PROVE r[i] \in Run!Entry /\ Run!Earned(i, r[i])
  <2>1. /\ rs[i] \in CaseRun
        /\ r[i].response = rs[i].response /\ r[i].log = rs[i].log
        /\ r[i].passed = rs[i].passed
    BY <1>1, <1>2
  <2>2. r[i] \in Run!Entry
    BY <1>1, <1>2
       DEF CaseRun, Run!Entry, ResponseOutcome, LogOutcome, Run!ResponseOutcome,
          Run!LogOutcome
  <2>3. /\ (i \in LogCases /\ GroupOf(i) < NGroups) <=> rs[i].log # "none"
        /\ rs[i].passed <=> rs[i].response = "passed" /\ rs[i].log \in {"none", "passed"}
    BY <1>1 DEF JudgedTo
  <2>4. i \in LogCases <=> rs[i].log # "none"
    BY <2>3, GroupBounds
  <2>5. Run!Earned(i, r[i])
    BY <2>1, <2>3, <2>4 DEF Run!Earned
  <2> QED BY <2>2, <2>5
<1>4. r \in [Cases -> Run!Entry]
  BY <1>2, <1>3
<1> QED BY <1>3, <1>4 DEF Run!Report, Cases

\* Moving on to the next source: the judged prefix grows by one group, and a
\* run that is about to be stored has been judged in full.
LEMMA AdvanceJudges ==
  ASSUME TypeOK, Control, Judgement, pc = "fetching",
         NEW outcome \in [Cases -> LogOutcome], \A i \in Cases : outcome[i] # "none",
         advanceSource(Judge(draft, source_idx, outcome))
  PROVE  Judgement'
<1> DEFINE rs == Judge(draft, source_idx, outcome)
<1>1. draft \in Seq(CaseRun) /\ Len(draft) <= NCases /\ source_idx \in Nat
  BY GroupBounds DEF TypeOK
<1>2. JudgedTo(draft, source_idx)
  BY DEF Judgement, Control
<1>3. JudgedTo(rs, source_idx + 1)
  BY <1>1, <1>2, JudgeExtends
<1> HIDE DEF rs
<1>4. /\ runs' = rs /\ source_idx' = source_idx + 1
      /\ pc' = "returned" \/ (pc' = "storing" /\ draft' = rs /\ ~(source_idx + 1 < NGroups))
      /\ UNCHANGED <<status, report>>
  BY DEF advanceSource, rs
<1>5. pc' = "storing" => source_idx + 1 = NGroups
  BY <1>1, <1>4, GroupBounds DEF Control
<1>6. JudgedTo(runs, source_idx)'
  BY <1>3, <1>4 DEF JudgedTo
<1>7. (pc = "storing" => JudgedTo(draft, NGroups))'
  BY <1>3, <1>4, <1>5 DEF JudgedTo
<1>8. pc' # "sending"
  BY <1>4
<1>9. (status = "complete" => report \in Run!Report)'
  BY <1>4 DEF Judgement, Run!Report, Run!Entry, Run!Earned, Run!ResponseOutcome,
     Run!LogOutcome
<1> QED BY <1>6, <1>7, <1>8, <1>9 DEF Judgement

\* Every step keeps verdicts earned.
LEMMA JudgementStep ==
  TypeOK /\ Control /\ Judgement /\ [Next]_vars => Judgement'
<1> SUFFICES ASSUME TypeOK, Control, Judgement, [Next]_vars
             PROVE  Judgement'
  OBVIOUS
\* Most steps leave the stored runs and the report alone.
<1>a. ASSUME UNCHANGED <<runs, source_idx, report>>,
             status' = "complete" => status = "complete",
             pc' = "sending" => JudgedTo(draft, 0)',
             pc' = "storing" => JudgedTo(draft, NGroups)'
      PROVE  Judgement'
  <2>1. JudgedTo(runs, source_idx)'
    BY <1>a DEF Judgement, JudgedTo
  <2>2. (status = "complete" => report \in Run!Report)'
    BY <1>a DEF Judgement, Run!Report, Run!Entry, Run!Earned, Run!ResponseOutcome,
       Run!LogOutcome
  <2> QED BY <1>a, <2>1, <2>2 DEF Judgement
<1>1. CASE Start
  BY <1>1, <1>a DEF Start, handler, Control, Judgement, JudgedTo
<1>2. CASE RunRequests
  <2>1. JudgedTo(draft, 0)'
    BY <1>2 DEF RunRequests, JudgedTo
  <2> QED BY <1>2, <2>1, <1>a DEF RunRequests, durable
<1>3. CASE CallCase
  <2> DEFINE i == Len(draft) + 1
  <2>1. PICK outcome \in ResponseOutcome :
          draft' = Append(draft, [cid |-> <<i, sweep>>, response |-> outcome,
                                  log |-> "none", passed |-> outcome = "passed"])
    BY <1>3 DEF CallCase
  <2>2. /\ draft \in Seq(CaseRun) /\ Len(draft) \in Nat /\ DOMAIN draft = 1..Len(draft)
    BY LenProperties DEF TypeOK
  <2>3. /\ DOMAIN draft' = 1..i
        /\ \A k \in 1..Len(draft) : draft'[k] = draft[k]
        /\ draft'[i].log = "none"
        /\ draft'[i].response = outcome
        /\ draft'[i].passed <=> outcome = "passed"
    <3> DEFINE e == [cid |-> <<i, sweep>>, response |-> outcome,
                     log |-> "none", passed |-> outcome = "passed"]
    <3>0. i \in Cases
      BY <1>3, <2>2, ConstantsOK DEF CallCase, Cases
    <3>1. e \in CaseRun
      BY <3>0 DEF TypeOK, CaseRun, CorrelationId, LogOutcome
    <3>2. e.log = "none" /\ e.response = outcome /\ (e.passed <=> outcome = "passed")
      OBVIOUS
    <3> HIDE DEF e
    <3>3. draft' = Append(draft, e)
      BY <2>1 DEF e
    <3>4. /\ DOMAIN draft' = 1..i /\ draft'[i] = e
          /\ \A k \in 1..Len(draft) : draft'[k] = draft[k]
      BY <2>2, <3>1, <3>3
    <3> QED BY <3>2, <3>4
  <2>4. JudgedTo(draft, 0)
    BY <1>3 DEF CallCase, Judgement
  <2>5. ASSUME NEW k \in DOMAIN draft'
        PROVE  /\ (k \in LogCases /\ GroupOf(k) < 0) <=> draft'[k].log # "none"
               /\ draft'[k].passed <=> /\ draft'[k].response = "passed"
                                       /\ draft'[k].log \in {"none", "passed"}
    <3>1. CASE k \in 1..Len(draft)
      BY <2>2, <2>3, <2>4, <3>1 DEF JudgedTo
    <3>2. CASE k = i
      <4>1. ~ (k \in LogCases /\ GroupOf(k) < 0)
        BY GroupBounds
      <4> QED BY <2>3, <3>2, <4>1
    <3> QED BY <2>2, <2>3, <3>1, <3>2
  <2>6. JudgedTo(draft, 0)'
    BY <2>5 DEF JudgedTo
  <2>7. pc' = "sending" /\ UNCHANGED durable
    BY <1>3 DEF CallCase
  <2> QED BY <2>6, <2>7, <1>a DEF durable
<1>4. CASE RequestsDone
  <2>1. JudgedTo(runs, source_idx)'
    BY <1>4 DEF RequestsDone, Judgement, JudgedTo
  <2> QED BY <1>4, <2>1 DEF RequestsDone, Judgement
<1>5. CASE RequestsDoneWithoutLogs
  <2>1. JudgedTo(draft, NGroups)'
    BY <1>5 DEF RequestsDoneWithoutLogs, Judgement, JudgedTo
  <2> QED BY <1>5, <2>1, <1>a DEF RequestsDoneWithoutLogs, durable
<1>6. CASE RunRequestsThrows
  BY <1>6, <1>a DEF RunRequestsThrows, fail
<1>7. CASE LogPhase
  BY <1>7, <1>a DEF LogPhase
<1>8. CASE LogPhaseNothingLeft
  <2>1. source_idx = NGroups
    BY <1>8, GroupBounds DEF LogPhaseNothingLeft, TypeOK
  <2>2. JudgedTo(draft, NGroups)'
    BY <1>8, <2>1 DEF LogPhaseNothingLeft, Judgement, JudgedTo
  <2> QED BY <1>8, <2>2, <1>a DEF LogPhaseNothingLeft, durable
<1>9. CASE SnapshotFails
  <2> DEFINE V == [i \in Cases |-> "nosnapshot"]
  <2>1. V \in [Cases -> LogOutcome] /\ \A i \in Cases : V[i] # "none"
    BY DEF LogOutcome
  <2>2. pc = "fetching" /\ advanceSource(Judge(draft, source_idx, V))
    BY <1>9 DEF SnapshotFails, failGroupSnapshot
  <2> HIDE DEF V
  <2> QED BY <2>1, <2>2, AdvanceJudges
<1>10. CASE ValidateNow
  <2> DEFINE V == [i \in Cases |-> IF Satisfied(i, Considered(draft[i].cid, surfaced))
                                  THEN "passed" ELSE "failed"]
  <2>1. V \in [Cases -> LogOutcome] /\ \A i \in Cases : V[i] # "none"
    BY DEF LogOutcome
  <2>2. pc = "fetching" /\ advanceSource(Judge(draft, source_idx, V))
    BY <1>10 DEF ValidateNow, SnapshotTaken, validateGroup
  <2> HIDE DEF V
  <2> QED BY <2>1, <2>2, AdvanceJudges
<1>11. CASE RetryLater
  <2>1. runs' = runs
    BY <1>11 DEF RetryLater, SnapshotTaken, Control
  <2> QED BY <1>11, <2>1, <1>a DEF RetryLater
<1>12. CASE LogPhaseThrows
  BY <1>12, <1>a DEF LogPhaseThrows, fail
<1>13. CASE StoreResults
  <2>1. JudgedTo(draft, NGroups) /\ Len(draft) = NCases /\ source_idx = NGroups
    BY <1>13 DEF StoreResults, Judgement, Control
  <2>2. report' \in Run!Report
    BY <1>13, <2>1, ReportEarned DEF StoreResults, TypeOK
  <2>3. (report \in Run!Report)'
    BY <2>2 DEF Run!Report, Run!Entry, Run!Earned, Run!ResponseOutcome, Run!LogOutcome
  <2>4. JudgedTo(runs, source_idx)'
    BY <1>13, <2>1 DEF StoreResults, JudgedTo
  <2> QED BY <1>13, <2>3, <2>4 DEF StoreResults, Judgement
<1>14. CASE StoreResultsThrows
  BY <1>14, <1>a DEF StoreResultsThrows, fail
<1>15. CASE DeleteRow
  BY <1>15, <1>a DEF DeleteRow, durable
<1>16. CASE Crash
  BY <1>16, <1>a DEF Crash, durable
<1>17. CASE Surface
  BY <1>17, <1>a DEF Surface, durable, handler, Judgement, JudgedTo
<1>18. CASE UNCHANGED vars
  BY <1>18, <1>a DEF vars, durable, handler, Judgement, JudgedTo
<1> QED
  BY <1>1, <1>2, <1>3, <1>4, <1>5, <1>6, <1>7, <1>8, <1>9, <1>10, <1>11, <1>12, <1>13,
     <1>14, <1>15, <1>16, <1>17, <1>18 DEF Next, HandlerStep, RequestsOver

-----------------------------------------------------------------------------
(* The invariant and what follows from it *)

\* The invariant holds before the job is started.
LEMMA InvInit == Init => IInv
<1> SUFFICES ASSUME Init PROVE IInv
  OBVIOUS
<1>1. Control
  BY TypeControlInit
<1>2. Alive /\ Budget
  BY ConstantsOK DEF Init, Alive, Budget, Pending, Due, Callback, Terminal
<1>5. Downloads
  <2>1. \A g \in 0..NGroups - 1 : fetches[g] = 0 /\ DOMAIN fetches = 0..NGroups - 1
    BY DEF Init
  <2>2. Due("runRequests") = 0 /\ Due("logPhase") = 0 /\ crashes = 0
    BY DEF Init, Due, Callback
  <2> QED BY <2>1, <2>2, ConstantsOK DEF Downloads, Owed, Init
<1>3. JudgedTo(runs, source_idx)
  BY JudgedEmpty DEF Init
<1>4. Judgement
  BY <1>3 DEF Init, Judgement
<1> QED BY <1>1, <1>2, <1>4, <1>5 DEF IInv

\* The invariant holds of every state a JobRunner reaches, whatever was evicted.
THEOREM Invariance == Spec => [](TypeOK /\ IInv)
<1>1. Init => TypeOK /\ IInv
  BY TypeControlInit, InvInit
<1>2. TypeOK /\ IInv /\ [Next]_vars => (TypeOK /\ IInv)'
  BY TypeControlStep, AliveBudgetStep, DownloadsStep, JudgementStep DEF IInv
<1> QED BY <1>1, <1>2, PTL DEF Spec

\* Whatever is evicted, a job under way keeps a schedule row to carry it on.
THEOREM WakeupKept == Spec => []NoLostWakeup
<1>1. TypeOK /\ IInv => NoLostWakeup
  BY DEF TypeOK, IInv, Alive, Pending, Due, NoLostWakeup, Callback
<1> QED BY <1>1, Invariance, PTL

\* The report of a complete job is one a caller may rely on: every case that
\* validates logs was judged, and passed means every check passed.
THEOREM ResultsEarned == Spec => []CompleteIsEarned
<1>1. IInv => CompleteIsEarned
  BY DEF IInv, Judgement, CompleteIsEarned
<1> QED BY <1>1, Invariance, PTL

\* Over all sweeps of the requests one source costs at most MaxRetries + 1
\* downloads, and MaxRetries + 2 more per eviction.
THEOREM RetriesBounded == Spec => []RetryBudget
<1>1. TypeOK /\ IInv => RetryBudget
  <2> SUFFICES ASSUME TypeOK, IInv, NEW g \in DOMAIN fetches
               PROVE  fetches[g] <= MaxRetries + 1 + (MaxRetries + 2) * crashes
    BY DEF RetryBudget
  <2>1. fetches[g] \in Nat /\ crashes \in Nat /\ MaxRetries \in Nat
    BY ConstantsOK DEF TypeOK
  <2>2. fetches[g] < (MaxRetries + 2) * (1 + crashes)
    BY DEF IInv, Downloads
  <2> QED BY <2>1, <2>2
<1> QED BY <1>1, Invariance, PTL

\* A job stores one results workbook, plus at most one per eviction.
THEOREM WorkbooksBounded == Spec => []FewWorkbooks
<1>1. TypeOK /\ IInv => FewWorkbooks
  <2> SUFFICES ASSUME TypeOK, IInv PROVE FewWorkbooks
    OBVIOUS
  <2>1. /\ rows["runRequests"] \in Nat /\ rows["logPhase"] \in Nat
        /\ files \in Nat /\ crashes \in Nat
    BY DEF TypeOK, Callback
  <2>2. pc # "idle" => rows["runRequests"] + rows["logPhase"] > 0
    BY <2>1 DEF IInv, Control, TypeOK, Callback
  <2>3. files + Pending <= 1 + crashes
    BY DEF IInv, Budget
  <2> QED BY <2>1, <2>2, <2>3 DEF Pending, Due, FewWorkbooks
<1> QED BY <1>1, Invariance, PTL

-----------------------------------------------------------------------------
(* Whose lines a verdict rests on *)

\* The cases of rs whose log check passed have their lines under their own ids.
Scoping(rs) ==
  \A i \in DOMAIN rs :
    rs[i].log = "passed" => Satisfied(i, {t \in Tokens : <<rs[i].cid, t>> \in surfaced})

\* More lines never take a satisfied expectation back.
LEMMA SatisfiedMonotone ==
  ASSUME NEW i, NEW lines, NEW more, lines \subseteq more, Satisfied(i, lines)
  PROVE  Satisfied(i, more)
  BY DEF Satisfied

\* Judging a group by the cases' own lines keeps the runs scoped.
LEMMA JudgeScopes ==
  ASSUME NEW rs \in Seq(CaseRun), Len(rs) <= NCases, Scoping(rs), NEW g,
         NEW outcome \in [Cases -> LogOutcome],
         \A i \in 1..Len(rs) : outcome[i] = "passed" =>
           Satisfied(i, {t \in Tokens : <<rs[i].cid, t>> \in surfaced})
  PROVE  Scoping(Judge(rs, g, outcome))
<1> DEFINE r == Judge(rs, g, outcome)
<1>1. /\ DOMAIN rs = 1..Len(rs) /\ \A i \in 1..Len(rs) : rs[i] \in CaseRun
  BY LenProperties
<1>2. /\ DOMAIN r = 1..Len(rs)
      /\ \A i \in 1..Len(rs) : /\ i \in Group(g) => r[i] = JudgedRun(rs[i], outcome[i])
                               /\ i \notin Group(g) => r[i] = rs[i]
  <2>1. r \in Seq(CaseRun) /\ Len(r) = Len(rs)
    BY JudgeProperties
  <2>2. DOMAIN r = 1..Len(r)
    BY <2>1, LenProperties
  <2> QED BY <2>1, <2>2, JudgeProperties
<1> HIDE DEF r
<1>3. ASSUME NEW i \in 1..Len(rs), r[i].log = "passed"
      PROVE  Satisfied(i, {t \in Tokens : <<r[i].cid, t>> \in surfaced})
  <2>1. CASE i \in Group(g)
    <3>1. r[i] = JudgedRun(rs[i], outcome[i]) /\ rs[i] \in CaseRun
      BY <1>1, <1>2, <2>1
    <3>2. r[i].cid = rs[i].cid /\ r[i].log = outcome[i]
      BY <3>1 DEF JudgedRun, CaseRun
    <3> QED BY <1>3, <3>2
  <2>2. CASE i \notin Group(g)
    BY <1>1, <1>2, <1>3, <2>2 DEF Scoping
  <2> QED BY <2>1, <2>2
<1> QED BY <1>2, <1>3 DEF Scoping, r

\* Every step keeps the stored runs and the handler's own scoped.
LEMMA ScopingStep ==
  ASSUME ~Fallback, TypeOK, Control, Scoping(runs), Scoping(draft), [Next]_vars
  PROVE  Scoping(runs)' /\ Scoping(draft)'
<1>1. ASSUME surfaced' = surfaced, runs' \in {runs, draft}, draft' \in {runs, draft, <<>>}
      PROVE  Scoping(runs)' /\ Scoping(draft)'
  <2>1. \A rs : Scoping(rs)' <=> Scoping(rs)
    BY <1>1 DEF Scoping
  <2>2. Scoping(<<>>)
    BY DEF Scoping
  <2>3. Scoping(runs') /\ Scoping(draft')
    BY <1>1, <2>2
  <2>4. Scoping(runs)' <=> Scoping(runs')
    BY <1>1 DEF Scoping
  <2>5. Scoping(draft)' <=> Scoping(draft')
    BY <1>1 DEF Scoping
  <2> QED BY <2>3, <2>4, <2>5
<1>2. CASE \/ Start \/ RunRequests \/ RequestsDone \/ RequestsDoneWithoutLogs
           \/ RunRequestsThrows \/ LogPhase \/ LogPhaseNothingLeft \/ RetryLater
  BY <1>1, <1>2
  DEF Start, RunRequests, RequestsDone, RequestsDoneWithoutLogs, RunRequestsThrows,
     LogPhase, LogPhaseNothingLeft, RetryLater, fail, durable, handler, world
<1>3. CASE LogPhaseThrows \/ StoreResults \/ StoreResultsThrows \/ DeleteRow \/ Crash
  BY <1>1, <1>3
  DEF LogPhaseThrows, StoreResults, StoreResultsThrows, DeleteRow, Crash, fail, durable,
     world
<1>4. CASE CallCase
  <2> DEFINE n == Len(draft)
  <2>1. PICK outcome \in ResponseOutcome :
          draft' = Append(draft, [cid |-> <<n + 1, sweep>>, response |-> outcome,
                                  log |-> "none", passed |-> outcome = "passed"])
    BY <1>4 DEF CallCase
  <2> DEFINE e == [cid |-> <<n + 1, sweep>>, response |-> outcome,
                   log |-> "none", passed |-> outcome = "passed"]
  <2>2. draft \in Seq(CaseRun) /\ n \in Nat /\ DOMAIN draft = 1..n /\ e.log = "none"
    BY LenProperties DEF TypeOK
  <2> HIDE DEF e
  <2>3. draft' = Append(draft, e)
    BY <2>1 DEF e
  <2>4. /\ DOMAIN draft' = 1..(n + 1) /\ draft'[n + 1] = e
        /\ \A k \in 1..n : draft'[k] = draft[k]
    BY <2>2, <2>3
  <2>5. surfaced' = surfaced /\ runs' = runs
    BY <1>4 DEF CallCase, durable
  <2>6. ASSUME NEW i \in DOMAIN draft', draft'[i].log = "passed"
        PROVE  Satisfied(i, {t \in Tokens : <<draft'[i].cid, t>> \in surfaced'})
    <3>1. i \in 1..n
      BY <2>2, <2>4, <2>6
    <3> QED BY <2>2, <2>4, <2>5, <2>6, <3>1 DEF Scoping
  <2>7. Scoping(runs)'
    BY <2>5 DEF Scoping
  <2> QED BY <2>6, <2>7 DEF Scoping
<1>5. ASSUME NEW outcome \in [Cases -> LogOutcome],
             \A i \in 1..Len(draft) : outcome[i] = "passed" =>
               Satisfied(i, {t \in Tokens : <<draft[i].cid, t>> \in surfaced}),
             advanceSource(Judge(draft, source_idx, outcome))
      PROVE  Scoping(runs)' /\ Scoping(draft)'
  <2> DEFINE r == Judge(draft, source_idx, outcome)
  <2>1. Scoping(r)
    BY <1>5, JudgeScopes DEF TypeOK
  <2> HIDE DEF r
  <2>2. runs' = r /\ draft' \in {r, <<>>} /\ surfaced' = surfaced
    BY <1>5 DEF advanceSource, world, r
  <2> QED BY <2>1, <2>2 DEF Scoping
<1>6. CASE SnapshotFails
  <2> DEFINE outcome == [i \in Cases |-> "nosnapshot"]
  <2>1. outcome \in [Cases -> LogOutcome] /\ Len(draft) \in Nat
    BY LenProperties DEF TypeOK, LogOutcome
  <2>2. \A i \in 1..Len(draft) : outcome[i] # "passed"
    BY <2>1, ConstantsOK DEF TypeOK, Cases
  <2>3. advanceSource(Judge(draft, source_idx, outcome))
    BY <1>6 DEF SnapshotFails, failGroupSnapshot
  <2> HIDE DEF outcome
  <2> QED BY <1>5, <2>1, <2>2, <2>3
<1>7. CASE ValidateNow
  <2> DEFINE outcome == [i \in Cases |-> IF Satisfied(i, Considered(draft[i].cid, surfaced))
                                         THEN "passed" ELSE "failed"]
  <2>1. outcome \in [Cases -> LogOutcome] /\ Len(draft) \in Nat
    BY LenProperties DEF TypeOK, LogOutcome
  <2>2. ASSUME NEW i \in 1..Len(draft), outcome[i] = "passed"
        PROVE  Satisfied(i, {t \in Tokens : <<draft[i].cid, t>> \in surfaced})
    <3>1. i \in Cases
      BY <2>1, ConstantsOK DEF TypeOK, Cases
    <3>2. Satisfied(i, Considered(draft[i].cid, surfaced))
      BY <2>2, <3>1
    <3> QED BY <3>2 DEF Considered, OwnLines
  <2>3. advanceSource(Judge(draft, source_idx, outcome))
    BY <1>7 DEF ValidateNow, validateGroup
  <2> HIDE DEF outcome
  <2> QED BY <1>5, <2>1, <2>2, <2>3
<1>8. CASE Surface
  <2>1. runs' = runs /\ draft' = draft /\ surfaced \subseteq surfaced'
    BY <1>8 DEF Surface, durable, handler
  <2>2. ASSUME NEW rs, Scoping(rs), NEW i \in DOMAIN rs, rs[i].log = "passed"
        PROVE  Satisfied(i, {t \in Tokens : <<rs[i].cid, t>> \in surfaced'})
    <3>1. Satisfied(i, {t \in Tokens : <<rs[i].cid, t>> \in surfaced})
      BY <2>2 DEF Scoping
    <3>2. {t \in Tokens : <<rs[i].cid, t>> \in surfaced}
            \subseteq {t \in Tokens : <<rs[i].cid, t>> \in surfaced'}
      BY <2>1
    <3> QED BY <3>1, <3>2, SatisfiedMonotone
  <2> QED BY <2>1, <2>2 DEF Scoping
<1>9. CASE UNCHANGED vars
  BY <1>1, <1>9 DEF vars, durable, handler, world
<1> QED
  BY <1>2, <1>3, <1>4, <1>6, <1>7, <1>8, <1>9 DEF Next, HandlerStep, RequestsOver

\* Where the whole-log fallback is off (LOG_CORRELATION_FALLBACK), a case whose
\* log check passed has its expected lines under the very id recorded for it,
\* through any evictions and sweeps of the requests (validateGroup).
THEOREM PassesScoped == ~Fallback => (Spec => []StrictlyScoped)
<1> SUFFICES ASSUME ~Fallback PROVE Spec => []StrictlyScoped
  OBVIOUS
<1> DEFINE Both == Scoping(runs) /\ Scoping(draft)
<1>1. Init => Both
  BY DEF Init, Scoping
<1>2. (TypeOK /\ IInv) /\ Both /\ [Next]_vars => Both'
  BY ScopingStep DEF IInv
<1>3. Both => StrictlyScoped
  BY DEF Scoping, StrictlyScoped
<1> HIDE DEF Both
<1> QED BY <1>1, <1>2, <1>3, Invariance, PTL DEF Spec

-----------------------------------------------------------------------------
(* The contract of a suite run, up to evictions *)

\* A job that ended has no row that would fire again, and only a complete one
\* has a report.
Final ==
  /\ status \in Terminal => Pending = 0 /\ pc \in {"idle", "returned"}
  /\ status # "complete" => report = NoReport

Active == status \notin Terminal \cup {"pending"}

Kept == Run!AbsNext \/ Relapse \/ UNCHANGED Run!absVars

\* A handler runs, or is about to, only while the job is under way or after
\* an eviction.
LEMMA HandlerActive ==
  ASSUME TypeOK, IInv, crashes = 0 => Final,
         \/ pc \in {"sending", "fetching", "storing"}
         \/ pc = "idle" /\ \E cb \in Callback : rows[cb] > 0
  PROVE  Active \/ (status \in Terminal /\ crashes > 0)
<1>1. status # "pending" /\ crashes \in Nat /\ \A cb \in Callback : rows[cb] \in Nat
  BY DEF TypeOK, IInv, Control
<1>2. ASSUME status \in Terminal PROVE crashes > 0
  <2>1. SUFFICES ASSUME crashes = 0 PROVE FALSE
    BY <1>1
  <2>2. pc = "idle" /\ \E cb \in Callback : rows[cb] > 0
    BY <1>2, <2>1 DEF Final
  <2>3. /\ rows["runRequests"] \in Nat /\ rows["logPhase"] \in Nat
        /\ rows["runRequests"] > 0 \/ rows["logPhase"] > 0
    BY <1>1, <2>2 DEF Callback
  <2>4. Pending = 0
    BY <1>2, <2>1 DEF Final
  <2>5. Pending = rows["runRequests"] + rows["logPhase"]
    BY <2>2, <2>3 DEF Pending, Due
  <2> QED BY <2>3, <2>4, <2>5
<1> QED BY <1>1, <1>2 DEF Active

\* Every step is one of the abstract run's, or none to it, or a relapse.
LEMMA ContractStep ==
  ASSUME TypeOK, IInv, crashes = 0 => Final, [Next]_vars
  PROVE  Kept
<1> USE DEF Terminal
<1>1. ASSUME UNCHANGED <<status, report>> PROVE Kept
  BY <1>1 DEF Kept, phase, Run!absVars
<1>2. ASSUME Active \/ (status \in Terminal /\ crashes > 0),
             status' \notin Terminal \cup {"pending"}, report' = report
      PROVE  Kept
  BY <1>2 DEF Active, Kept, Relapse, phase, Run!absVars
<1>3. ASSUME fail, pc \in {"sending", "fetching", "storing"} PROVE Kept
  <2>1. status' = "error" /\ report' = report
    BY <1>3 DEF fail
  <2>2. CASE Active
    BY <2>1, <2>2 DEF Active, Kept, Run!AbsNext, Run!Abort, phase
  <2>3. CASE status \in Terminal /\ crashes > 0
    BY <2>1, <2>3 DEF Kept, Relapse, phase
  <2> QED BY <1>3, <2>2, <2>3, HandlerActive
<1>4. CASE Start
  BY <1>4 DEF Start, Kept, Run!AbsNext, Run!Begin, phase
<1>5. CASE RunRequests \/ CallCase \/ RequestsDoneWithoutLogs \/ LogPhaseNothingLeft
  BY <1>1, <1>5 DEF RunRequests, CallCase, RequestsDoneWithoutLogs, LogPhaseNothingLeft, durable
<1>6. CASE RequestsDone \/ LogPhase
  <2>1. /\ \/ pc \in {"sending", "fetching", "storing"}
           \/ pc = "idle" /\ \E cb \in Callback : rows[cb] > 0
        /\ status' \notin Terminal \cup {"pending"} /\ report' = report
    BY <1>6 DEF RequestsDone, LogPhase, Callback
  <2> QED BY <1>2, <2>1, HandlerActive
<1>7. CASE SnapshotFails \/ ValidateNow \/ RetryLater
  BY <1>1, <1>7 DEF SnapshotFails, ValidateNow, advanceSource, RetryLater
<1>8. CASE RunRequestsThrows \/ LogPhaseThrows \/ StoreResultsThrows
  BY <1>3, <1>8 DEF RunRequestsThrows, LogPhaseThrows, StoreResultsThrows
<1>9. CASE StoreResults
  <2>1. pc = "storing" /\ status' = "complete" /\ report' = finalizeReport(draft)
    BY <1>9 DEF StoreResults
  <2>2. report' \in Run!Report
    BY <2>1, JudgementStep DEF IInv, Judgement
  <2>3. CASE Active
    BY <2>1, <2>2, <2>3 DEF Active, Kept, Run!AbsNext, Run!Complete, phase
  <2>4. CASE status \in Terminal /\ crashes > 0
    BY <2>1, <2>2, <2>4 DEF Kept, Relapse, phase
  <2> QED BY <2>1, <2>3, <2>4, HandlerActive
<1>10. CASE DeleteRow \/ Crash \/ Surface \/ UNCHANGED vars
  BY <1>1, <1>10 DEF DeleteRow, Crash, Surface, vars, durable
<1> QED
  BY <1>4, <1>5, <1>6, <1>7, <1>8, <1>9, <1>10 DEF Next, HandlerStep, RequestsOver

\* As long as nothing was evicted, an ended job stays ended.
LEMMA FinalStep ==
  ASSUME TypeOK, IInv, crashes = 0 => Final, crashes' = 0, [Next]_vars
  PROVE  Final'
<1>0. /\ rows["runRequests"] \in Nat /\ rows["logPhase"] \in Nat /\ files \in Nat
      /\ crashes \in Nat /\ files + Pending <= 1 + crashes /\ row \in Callback \cup {"none"}
      /\ pc = "idle" <=> row = "none"
      /\ pc # "idle" => rows[row] > 0
      /\ status = "pending" => pc = "idle" /\ \A cb \in Callback : rows[cb] = 0
      /\ rows \in [Callback -> Nat]
  BY DEF TypeOK, IInv, Control, Budget, Callback
<1>b. Callback = {"runRequests", "logPhase"} /\ Terminal = {"complete", "error"}
  BY DEF Callback, Terminal
<1>a. ~ Crash /\ crashes = 0 /\ Final
  <2>1. ~ Crash
    BY <1>0 DEF Crash
  <2>2. crashes' = crashes
    BY <2>1 DEF Next, HandlerStep, RequestsOver, Start, RunRequests, CallCase, RequestsDone,
       RequestsDoneWithoutLogs, RunRequestsThrows, LogPhase, LogPhaseNothingLeft, SnapshotFails,
       ValidateNow, RetryLater, LogPhaseThrows, StoreResults, StoreResultsThrows, DeleteRow,
       Surface, advanceSource, world, vars
  <2> QED BY <2>1, <2>2
<1>1. pc \in {"sending", "fetching", "storing"} => Active /\ Pending = 1
  BY <1>0, <1>a, <1>b DEF Final, Pending, Due, Active
<1>2. pc = "idle" /\ (\E cb \in Callback : rows[cb] > 0) => Active
  BY <1>0, <1>a, <1>b DEF Final, Pending, Due, Active
<1>4. ASSUME fail, pc \in {"sending", "fetching", "storing"} PROVE Final'
  <2>1. /\ status' = "error" /\ pc' = "returned" /\ UNCHANGED <<report, rows, row>>
    BY <1>4 DEF fail
  <2> QED BY <1>0, <1>1, <1>4, <1>a, <1>b, <2>1 DEF Final, Pending, Due, Active
<1>5. CASE Start
  <2>1. status = "pending" /\ status' = "running" /\ report' = report
    BY <1>5 DEF Start
  <2> QED BY <1>a, <1>b, <2>1 DEF Final
<1>6. CASE RunRequests \/ LogPhase \/ LogPhaseNothingLeft
  <2>1. Active /\ Active' /\ report' = report
    BY <1>2, <1>6, <1>b DEF RunRequests, LogPhase, LogPhaseNothingLeft, durable, Active
  <2> QED BY <1>a, <1>b, <2>1 DEF Final, Active
<1>7. CASE CallCase \/ RequestsDone \/ RequestsDoneWithoutLogs \/ RetryLater
  <2>1. Active /\ Active' /\ report' = report
    BY <1>1, <1>7, <1>b
    DEF CallCase, RequestsDone, RequestsDoneWithoutLogs, RetryLater, SnapshotTaken, durable, Active
  <2> QED BY <1>a, <1>b, <2>1 DEF Final, Active
<1>8. CASE SnapshotFails \/ ValidateNow
  <2>1. Active /\ Active' /\ report' = report
    BY <1>1, <1>8, <1>b DEF SnapshotFails, ValidateNow, SnapshotTaken, advanceSource, Active
  <2> QED BY <1>a, <1>b, <2>1 DEF Final, Active
<1>9. CASE RunRequestsThrows \/ LogPhaseThrows \/ StoreResultsThrows
  BY <1>4, <1>9 DEF RunRequestsThrows, LogPhaseThrows, StoreResultsThrows
<1>10. CASE StoreResults
  <2>1. /\ pc = "storing" /\ status' = "complete" /\ pc' = "returned"
        /\ UNCHANGED <<rows, row>>
    BY <1>10 DEF StoreResults
  <2> QED BY <1>0, <1>1, <1>b, <2>1 DEF Final, Pending, Due
<1>11. CASE DeleteRow
  <2>1. /\ pc = "returned" /\ pc' = "idle" /\ UNCHANGED <<status, report>>
        /\ rows' = [rows EXCEPT ![row] = rows[row] - 1]
    BY <1>11 DEF DeleteRow, durable
  <2>2. Pending' = Pending
    BY <1>0, <1>b, <2>1 DEF Pending, Due
  <2> QED BY <1>a, <2>1, <2>2 DEF Final
<1>12. CASE Surface \/ UNCHANGED vars
  <2>1. UNCHANGED <<status, report, pc, row, rows>>
    BY <1>12 DEF Surface, vars, durable, handler
  <2> QED BY <1>a, <2>1 DEF Final, Pending, Due
<1> QED
  BY <1>5, <1>6, <1>7, <1>8, <1>9, <1>10, <1>11, <1>12, <1>a
  DEF Next, HandlerStep, RequestsOver

\* Whatever was evicted, the object keeps the contract of a suite run until the
\* job has ended: it begins once, and ends with a truthful report exactly when
\* it is complete; only evictions can make an ended job go on, and then it
\* ends with a truthful report again or in an error.
THEOREM ContractUpToRelapses == Spec => KeepsContract
<1> DEFINE Ended == crashes = 0 => Final
<1>1. Init => Ended /\ Run!AbsInit
  BY DEF Init, Final, Terminal, Run!AbsInit, phase
<1>2. (TypeOK /\ IInv) /\ Ended /\ [Next]_vars => Ended'
  BY FinalStep
<1>3. (TypeOK /\ IInv) /\ Ended /\ [Next]_vars => [Run!AbsNext \/ Relapse]_Run!absVars
  BY ContractStep DEF Kept
<1> HIDE DEF Ended
<1> QED BY <1>1, <1>2, <1>3, Invariance, PTL DEF Spec, KeepsContract

\* Without evictions the object keeps the contract of a suite run for good.
THEOREM ContractWithoutEvictions == MaxCrashes = 0 => (Spec => Run!AbsSafety)
<1> SUFFICES ASSUME MaxCrashes = 0 PROVE Spec => Run!AbsSafety
  OBVIOUS
<1>1. TypeOK /\ [Run!AbsNext \/ Relapse]_Run!absVars => [Run!AbsNext]_Run!absVars
  BY DEF TypeOK, Relapse
<1> QED BY <1>1, Invariance, ContractUpToRelapses, PTL DEF KeepsContract, Run!AbsSafety

=============================================================================
