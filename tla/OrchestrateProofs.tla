-------------------------- MODULE OrchestrateProofs --------------------------
(***************************************************************************)
(* Proofs about Orchestrate, for any number of concurrent runs, any suites *)
(* and log sources, any retry budget and any lag of the logs.              *)
(***************************************************************************)
EXTENDS Orchestrate, FiniteSetTheorems, SequenceTheorems, WellFoundedInduction, TLAPS

-----------------------------------------------------------------------------
(* The inductive invariant *)

\* How far a thread has come tells what it has done.
Progress(j) ==
  /\ pc[j] \in {"idle", "complete", "error"} => runs[j] = <<>>
  /\ pc[j] \in {"idle", "calling", "complete", "error"} =>
       done[j] = {} /\ active[j] = {} /\ tries[j] = 0
  /\ pc[j] \in {"downloading", "checking", "discarding"} => Len(runs[j]) = Len(SourceOf[j])
  /\ pc[j] \in {"downloading", "checking"} => Pending(j) # {}
  /\ pc[j] = "discarding" => Pending(j) = {}
  /\ pc[j] # "complete" => report[j] = NoReport

\* The entry of case i claims no more than was checked.
Scoped(j, i, e) ==
  e.log = "passed" => Satisfied(j, i, {t \in Tokens : <<j, i, t>> \in surfaced})

\* A case has a log verdict when its source was dealt with, and it is passed
\* when its response is and its log verdict, if it has one, too.
Judged(j) ==
  \A i \in 1..Len(runs[j]) :
    /\ (i \in Validating(j) /\ SourceOf[j][i] \in done[j]) <=> runs[j][i].log # "none"
    /\ runs[j][i].passed <=> /\ runs[j][i].response = "passed"
                             /\ runs[j][i].log \in {"none", "passed"}
    /\ Scoped(j, i, runs[j][i])

Reported(j) ==
  report[j] # NoReport => \A i \in DOMAIN report[j] : Scoped(j, i, report[j][i])

\* No two snapshots of a run have the same id.
UniqueIds ==
  \A s, t \in store : s.owner = t.owner /\ s.id = t.id => s = t

\* The store has of a run the snapshots it keeps and the one it works with.
Owned(j) ==
  /\ \A s \in store : s.owner = j =>
       s \in active[j] \/ (pc[j] = "checking" /\ s.id = sid[j])
  /\ \A s \in active[j] : s.owner = j /\ (pc[j] = "checking" => s.id # sid[j])
  /\ pc[j] = "checking" => /\ sid[j] = downloads[j]
                           /\ \E s \in store : s.owner = j /\ s.id = sid[j]

\* It keeps at most one for each source it has dealt with.
Counted(j) ==
  /\ IsFiniteSet(active[j]) /\ IsFiniteSet(done[j])
  /\ Cardinality(active[j]) <= Cardinality(done[j])

JobInv(j) == Progress(j) /\ Judged(j) /\ Reported(j) /\ Owned(j) /\ Counted(j)

IInv ==
  /\ TypeOK /\ UniqueIds
  /\ \A j \in Jobs : JobInv(j)

-----------------------------------------------------------------------------
(* Sources and their groups *)

NatOrder == {p \in Nat \X Nat : p[1] < p[2]}

\* A nonempty set of naturals has a least element.
LEMMA LeastElement ==
  ASSUME NEW S, S \subseteq Nat, S # {}
  PROVE  \E m \in S : \A k \in S : m <= k
<1>1. IsWellFoundedOn(NatOrder, Nat)
  <2>1. NatOrder = OpToRel(<, Nat)
    BY DEF NatOrder, OpToRel
  <2> QED BY <2>1, NatLessThanWellFounded
<1>2. PICK m \in S : \A k \in S : ~ <<k, m>> \in NatOrder
  BY <1>1, WFMin
<1>3. ASSUME NEW k \in S PROVE m <= k
  <2>1. k \in Nat /\ m \in Nat
    OBVIOUS
  <2>2. <<k, m>> \in Nat \X Nat /\ ~ <<k, m>> \in NatOrder
    BY <1>2, <2>1
  <2>3. ~ k < m
    BY <2>2 DEF NatOrder
  <2> QED BY <2>1, <2>3
<1> QED BY <1>3

\* While a source is to do, the leader is a pending case.
LEMMA LeaderPends ==
  ASSUME NEW j \in Jobs, Pending(j) # {}
  PROVE  Leader(j) \in Pending(j) /\ Pending(j) \subseteq Cases(j)
<1>1. Pending(j) \subseteq Cases(j) /\ Cases(j) \subseteq Nat
  BY SuitesOK DEF Pending, Validating
<1>2. \E m \in Pending(j) : \A k \in Pending(j) : m <= k
  BY <1>1, LeastElement
<1> QED BY <1>1, <1>2 DEF Leader

\* The current source is then one of the run's own that was not dealt with, and
\* its group the pending cases that use it.
LEMMA SourceToDo ==
  ASSUME NEW j \in Jobs, Pending(j) # {}
  PROVE  /\ Source(j) \in {SourceOf[j][i] : i \in Cases(j)}
         /\ Source(j) \in Sources /\ Source(j) \notin done[j]
         /\ Group(j) = {i \in Validating(j) : SourceOf[j][i] = Source(j)}
         /\ Group(j) \subseteq Pending(j)
<1>1. Leader(j) \in Pending(j) /\ Pending(j) \subseteq Cases(j)
  BY LeaderPends
<1>2. Source(j) \in {SourceOf[j][i] : i \in Cases(j)} /\ Source(j) \in Sources
  BY <1>1 DEF Source, Sources
<1>3. Source(j) \notin done[j]
  BY <1>1 DEF Source, Pending
<1>4. Group(j) = {i \in Validating(j) : SourceOf[j][i] = Source(j)}
  BY DEF Group
<1> QED BY <1>2, <1>3, <1>4 DEF Pending

\* The snapshot a run works with is in the store.
LEMMA CurrentSnapshot ==
  ASSUME NEW j \in Jobs, \E s \in store : s.owner = j /\ s.id = sid[j]
  PROVE  Snapshot(j) \in store /\ Snapshot(j).owner = j /\ Snapshot(j).id = sid[j]
  BY DEF Snapshot

\* A job's entries, as the functions they are.
LEMMA Entries ==
  ASSUME TypeOK, NEW j \in Jobs
  PROVE  /\ Len(runs[j]) \in Nat /\ DOMAIN runs[j] = 1..Len(runs[j])
         /\ runs[j] \in [1..Len(runs[j]) -> CaseRun]
         /\ \A i \in 1..Len(runs[j]) : runs[j][i] \in CaseRun
<1>1. runs[j] \in Seq(CaseRun)
  BY DEF TypeOK
<1> QED BY <1>1, LenProperties

Verdict == {"nosnapshot", "failed", "passed"}

\* The verdict of a source goes to the entries of its group, and to no other.
LEMMA JudgeGives ==
  ASSUME TypeOK, NEW j \in Jobs, NEW outcome \in [Cases(j) -> Verdict],
         Len(runs[j]) = Len(SourceOf[j])
  PROVE  /\ Judge(j, outcome) \in [Jobs -> Seq(CaseRun)]
         /\ \A k \in Jobs : k # j => Judge(j, outcome)[k] = runs[k]
         /\ Len(Judge(j, outcome)[j]) = Len(runs[j])
         /\ \A i \in 1..Len(runs[j]) :
              LET e == runs[j][i]
                  f == Judge(j, outcome)[j][i]
              IN  /\ i \notin Group(j) => f = e
                  /\ i \in Group(j) =>
                       /\ f.log = outcome[i] /\ f.response = e.response
                       /\ f.passed <=> e.passed /\ outcome[i] = "passed"
<1> DEFINE n == Len(runs[j])
           F(i) == IF i \in Group(j) THEN WithLog(runs[j][i], outcome[i]) ELSE runs[j][i]
           r == [i \in 1..n |-> F(i)]
<1>1. n \in Nat /\ DOMAIN runs[j] = 1..n /\ \A i \in 1..n : runs[j][i] \in CaseRun
  BY Entries
<1>2. \A i \in Group(j) : outcome[i] \in Verdict
  BY DEF Group, Validating
<1>3. ASSUME NEW i \in 1..n, i \in Group(j)
      PROVE  /\ F(i) \in CaseRun /\ F(i).log = outcome[i]
             /\ F(i).response = runs[j][i].response
             /\ F(i).passed <=> runs[j][i].passed /\ outcome[i] = "passed"
  <2>1. runs[j][i] \in CaseRun /\ outcome[i] \in LogOutcome
    BY <1>1, <1>2, <1>3 DEF Verdict, LogOutcome
  <2>2. F(i) = WithLog(runs[j][i], outcome[i])
    BY <1>3
  <2>3. /\ WithLog(runs[j][i], outcome[i]) \in CaseRun
        /\ WithLog(runs[j][i], outcome[i]).log = outcome[i]
        /\ WithLog(runs[j][i], outcome[i]).response = runs[j][i].response
    BY <2>1 DEF WithLog, CaseRun
  <2>4. WithLog(runs[j][i], outcome[i]).passed <=> runs[j][i].passed /\ outcome[i] = "passed"
    BY DEF WithLog
  <2> HIDE DEF F
  <2> QED BY <2>2, <2>3, <2>4
<1>4. ASSUME NEW i \in 1..n, i \notin Group(j) PROVE F(i) = runs[j][i] /\ F(i) \in CaseRun
  BY <1>1, <1>4
<1>5. Judge(j, outcome) = [runs EXCEPT ![j] = r]
  <2>1. Judge(j, outcome) = [runs EXCEPT ![j] = [i \in DOMAIN runs[j] |-> F(i)]]
    BY DEF Judge
  <2>2. [i \in DOMAIN runs[j] |-> F(i)] = r
    BY <1>1
  <2> QED BY <2>1, <2>2
<1> HIDE DEF F
<1>6. r \in Seq(CaseRun) /\ Len(r) = n /\ \A i \in 1..n : r[i] = F(i)
  <2>1. r \in [1..n -> CaseRun]
    BY <1>3, <1>4
  <2>2. r \in Seq(CaseRun)
    BY <1>1, <2>1, SeqDef
  <2>3. DOMAIN r = 1..n /\ DOMAIN r = 1..Len(r) /\ Len(r) \in Nat
    BY <2>2, LenProperties
  <2>4. Len(r) = n
    BY <1>1, <2>3
  <2> QED BY <2>2, <2>4
<1> HIDE DEF r, n
<1>7. Judge(j, outcome)[j] = r /\ \A k \in Jobs : k # j => Judge(j, outcome)[k] = runs[k]
  BY <1>5 DEF TypeOK
<1>8. Judge(j, outcome) \in [Jobs -> Seq(CaseRun)]
  BY <1>5, <1>6 DEF TypeOK
<1> QED BY <1>3, <1>4, <1>6, <1>7, <1>8 DEF n

\* A source that was dealt with takes its group with it.
LEMMA SourceDone ==
  ASSUME TypeOK, NEW j \in Jobs, Pending(j) # {}, NextSource(j)
  PROVE  /\ done'[j] = done[j] \cup {Source(j)} /\ done' \in [Jobs -> SUBSET Sources]
         /\ \A k \in Jobs : k # j => done'[k] = done[k]
         /\ tries' \in [Jobs -> 0..MaxRetries] /\ visible' \in [Jobs -> SUBSET surfaced]
         /\ \A k \in Jobs : k # j => tries'[k] = tries[k]
         /\ pc'[j] = (IF Pending(j)' = {} THEN "discarding" ELSE "downloading")
         /\ \A k \in Jobs : k # j => pc'[k] = pc[k]
         /\ pc' \in [Jobs -> {"idle", "calling", "downloading",
                              "checking", "discarding", "complete", "error"}]
<1>1. Source(j) \in Sources /\ Group(j) \subseteq Pending(j)
  BY SourceToDo
<1>2. /\ done' = [done EXCEPT ![j] = done[j] \cup {Source(j)}]
      /\ tries' = [tries EXCEPT ![j] = 0] /\ visible' = [visible EXCEPT ![j] = {}]
      /\ pc' = [pc EXCEPT ![j] = IF Pending(j) = Group(j) THEN "discarding" ELSE "downloading"]
  BY DEF NextSource, Goto
<1>3. done'[j] = done[j] \cup {Source(j)} /\ done' \in [Jobs -> SUBSET Sources]
  BY <1>1, <1>2 DEF TypeOK
<1>4. Pending(j)' = Pending(j) \ Group(j)
  BY <1>3, SourceToDo DEF Pending
<1>5. Pending(j)' = {} <=> Pending(j) = Group(j)
  BY <1>1, <1>4
<1>6. tries' \in [Jobs -> 0..MaxRetries] /\ visible' \in [Jobs -> SUBSET surfaced]
  BY <1>2, SuitesOK DEF TypeOK
<1>7. \A k \in Jobs : k # j => done'[k] = done[k] /\ tries'[k] = tries[k] /\ pc'[k] = pc[k]
  BY <1>2 DEF TypeOK
<1>8. /\ pc'[j] = (IF Pending(j)' = {} THEN "discarding" ELSE "downloading")
      /\ pc' \in [Jobs -> {"idle", "calling", "downloading",
                           "checking", "discarding", "complete", "error"}]
  BY <1>2, <1>5 DEF TypeOK
<1> QED BY <1>3, <1>6, <1>7, <1>8

\* A thread that ends leaves its report and nothing else.
LEMMA ThreadGone ==
  ASSUME TypeOK, NEW j \in Jobs, NEW how \in {"complete", "error"}, NEW result,
         ThreadEnds(j, how, result)
  PROVE  /\ pc'[j] = how /\ runs'[j] = <<>> /\ done'[j] = {} /\ tries'[j] = 0
         /\ active'[j] = {} /\ report'[j] = result /\ Len(runs'[j]) = 0
         /\ \A k \in Jobs : k # j =>
              /\ pc'[k] = pc[k] /\ runs'[k] = runs[k] /\ done'[k] = done[k]
              /\ tries'[k] = tries[k] /\ sid'[k] = sid[k] /\ active'[k] = active[k]
              /\ report'[k] = report[k] /\ downloads'[k] = downloads[k]
         /\ pc' \in [Jobs -> {"idle", "calling", "downloading",
                              "checking", "discarding", "complete", "error"}]
         /\ runs' \in [Jobs -> Seq(CaseRun)] /\ done' \in [Jobs -> SUBSET Sources]
         /\ tries' \in [Jobs -> 0..MaxRetries] /\ DOMAIN report' = Jobs
         /\ sid' \in [Jobs -> Nat] /\ downloads' \in [Jobs -> Nat]
         /\ visible' \in [Jobs -> SUBSET surfaced]
<1>1. <<>> \in Seq(CaseRun) /\ Len(<<>>) = 0
  BY EmptySeq
<1> USE DEF ThreadEnds, TypeOK
<1>2. /\ pc'[j] = how /\ runs'[j] = <<>> /\ done'[j] = {} /\ tries'[j] = 0
      /\ active'[j] = {} /\ report'[j] = result
  BY DEF Goto
<1>3. \A k \in Jobs : k # j =>
        /\ pc'[k] = pc[k] /\ runs'[k] = runs[k] /\ done'[k] = done[k]
        /\ tries'[k] = tries[k] /\ sid'[k] = sid[k] /\ active'[k] = active[k]
        /\ report'[k] = report[k] /\ downloads'[k] = downloads[k]
  BY DEF Goto
<1>4. pc' \in [Jobs -> {"idle", "calling", "downloading",
                        "checking", "discarding", "complete", "error"}]
  BY DEF Goto
<1>5. runs' \in [Jobs -> Seq(CaseRun)] /\ done' \in [Jobs -> SUBSET Sources]
  BY <1>1
<1>6. /\ tries' \in [Jobs -> 0..MaxRetries] /\ DOMAIN report' = Jobs
      /\ sid' \in [Jobs -> Nat] /\ downloads' \in [Jobs -> Nat]
      /\ visible' \in [Jobs -> SUBSET surfaced]
  BY SuitesOK
<1> QED BY <1>1, <1>2, <1>3, <1>4, <1>5, <1>6

-----------------------------------------------------------------------------

\* A thread that ends and takes its snapshots with it leaves all in shape.
LEMMA EndTyped ==
  ASSUME TypeOK, NEW j \in Jobs, NEW how \in {"complete", "error"}, NEW result,
         ThreadEnds(j, how, result), UNCHANGED <<env, received, surfaced>>,
         store' \subseteq store, \A s \in store' : s.owner # j,
         \A k \in Jobs : k # j => active[k] \subseteq store',
         result # NoReport => DOMAIN result = Cases(j)
  PROVE  TypeOK'
<1>1. /\ env' \in {App[k] : k \in Jobs} /\ received' \subseteq AllCases
      /\ \A l \in surfaced' : <<l[1], l[2]>> \in received' /\ l[3] \in Tokens
  BY DEF TypeOK
<1>2. \A s \in store' : /\ s.owner \in Jobs /\ s.id \in 1..downloads'[s.owner]
                       /\ s.lines \subseteq surfaced'
  <2>1. \A k \in Jobs : k # j => downloads'[k] = downloads[k]
    BY ThreadGone
  <2> QED BY <2>1 DEF TypeOK
<1>3. active' \in [Jobs -> SUBSET store']
  <2>1. active' = [active EXCEPT ![j] = {}]
    BY DEF ThreadEnds
  <2> QED BY <2>1 DEF TypeOK
<1>4. \A k \in Jobs : Len(runs'[k]) <= Len(SourceOf[k])
  <2>1. Len(runs'[j]) = 0 /\ \A k \in Jobs : k # j => runs'[k] = runs[k]
    BY ThreadGone
  <2>2. \A k \in Jobs : Len(SourceOf[k]) \in Nat /\ Len(runs[k]) <= Len(SourceOf[k])
    BY SuitesOK DEF TypeOK
  <2> QED BY <2>1, <2>2
<1>5. \A k \in Jobs : report'[k] # NoReport => DOMAIN report'[k] = Cases(k)
  <2>1. report'[j] = result /\ \A k \in Jobs : k # j => report'[k] = report[k]
    BY ThreadGone
  <2> QED BY <2>1 DEF TypeOK
<1>6. /\ pc' \in [Jobs -> {"idle", "calling", "downloading",
                           "checking", "discarding", "complete", "error"}]
      /\ runs' \in [Jobs -> Seq(CaseRun)] /\ done' \in [Jobs -> SUBSET Sources]
      /\ tries' \in [Jobs -> 0..MaxRetries] /\ DOMAIN report' = Jobs
      /\ sid' \in [Jobs -> Nat] /\ downloads' \in [Jobs -> Nat]
      /\ visible' \in [Jobs -> SUBSET surfaced]
  BY ThreadGone
<1> QED BY <1>1, <1>2, <1>3, <1>4, <1>5, <1>6 DEF TypeOK

\* So does a source that was dealt with.
LEMMA JudgedTyped ==
  ASSUME TypeOK, NEW j \in Jobs, NEW outcome \in [Cases(j) -> Verdict],
         Len(runs[j]) = Len(SourceOf[j]), Pending(j) # {},
         runs' = Judge(j, outcome), NextSource(j), active' \in [Jobs -> SUBSET store'],
         UNCHANGED <<env, store, sid, report, received, surfaced, downloads>>
  PROVE  TypeOK'
<1>1. /\ runs' \in [Jobs -> Seq(CaseRun)] /\ Len(runs'[j]) = Len(runs[j])
      /\ \A k \in Jobs : k # j => runs'[k] = runs[k]
  BY JudgeGives
<1>2. \A k \in Jobs : Len(runs'[k]) <= Len(SourceOf[k])
  BY <1>1 DEF TypeOK
<1>3. /\ done' \in [Jobs -> SUBSET Sources] /\ tries' \in [Jobs -> 0..MaxRetries]
      /\ visible' \in [Jobs -> SUBSET surfaced]
      /\ pc' \in [Jobs -> {"idle", "calling", "downloading",
                           "checking", "discarding", "complete", "error"}]
  BY SourceDone
<1> QED BY <1>1, <1>2, <1>3 DEF TypeOK

\* Every step keeps the variables in shape.
LEMMA TypeKept == IInv /\ [Next]_vars => TypeOK'
<1> SUFFICES ASSUME IInv, [Next]_vars PROVE TypeOK'
  OBVIOUS
<1> USE SuitesOK
<1>0. TypeOK /\ UniqueIds /\ \A k \in Jobs : Progress(k) /\ Owned(k)
  BY DEF IInv, JobInv
<1>1. ASSUME NEW j \in Jobs, Enter(j) PROVE TypeOK'
  BY <1>0, <1>1 DEF TypeOK, Enter, Goto, thread
<1>2. ASSUME NEW j \in Jobs, ReadSuiteRaises(j) PROVE TypeOK'
  <2>1. ThreadEnds(j, "error", NoReport) /\ UNCHANGED <<env, store, received, surfaced>>
        /\ pc[j] = "calling"
    BY <1>2 DEF ReadSuiteRaises
  <2>2. \A s \in store : s.owner # j
    BY <1>0, <2>1 DEF Progress, Owned
  <2>3. \A k \in Jobs : active[k] \subseteq store
    BY <1>0 DEF TypeOK
  <2> QED BY <1>0, <2>1, <2>2, <2>3, EndTyped
<1>3. ASSUME NEW j \in Jobs, CallCase(j) PROVE TypeOK'
  <2>1. PICK outcome \in ResponseOutcome :
          /\ runs' = [runs EXCEPT ![j] = Append(runs[j], [response |-> outcome, log |-> "none",
                                                        passed |-> outcome = "passed"])]
          /\ \/ received' = received
             \/ /\ Len(runs[j]) + 1 \in Validating(j)
                /\ received' = received \cup {<<j, Len(runs[j]) + 1>>}
    BY <1>3 DEF CallCase
  <2> DEFINE e == [response |-> outcome, log |-> "none", passed |-> outcome = "passed"]
  <2>2. e \in CaseRun
    BY DEF CaseRun, LogOutcome
  <2> HIDE DEF e
  <2>3. Append(runs[j], e) \in Seq(CaseRun) /\ Len(Append(runs[j], e)) = Len(runs[j]) + 1
    BY <1>0, <2>2, AppendProperties DEF TypeOK
  <2>4. runs' = [runs EXCEPT ![j] = Append(runs[j], e)]
    BY <2>1 DEF e
  <2>5. runs' \in [Jobs -> Seq(CaseRun)]
    BY <1>0, <2>3, <2>4 DEF TypeOK
  <2>6. \A k \in Jobs : Len(runs'[k]) <= Len(SourceOf[k])
    <3>1. Len(runs[j]) < Len(SourceOf[j]) /\ Len(runs[j]) \in Nat /\ Len(SourceOf[j]) \in Nat
      BY <1>0, <1>3, Entries DEF CallCase
    <3>2. Len(runs'[j]) <= Len(SourceOf[j])
      BY <1>0, <2>3, <2>4, <3>1 DEF TypeOK
    <3> QED BY <1>0, <2>4, <3>2 DEF TypeOK
  <2>7. received \subseteq received' /\ received' \subseteq AllCases
    BY <1>0, <2>1 DEF TypeOK, AllCases, Validating
  <2>8. UNCHANGED <<env, store, pc, done, tries, sid, active, report, surfaced,
                    visible, downloads>>
    BY <1>3 DEF CallCase
  <2> QED BY <1>0, <2>5, <2>6, <2>7, <2>8 DEF TypeOK
<1>4. ASSUME NEW j \in Jobs, RequestsDone(j) PROVE TypeOK'
  BY <1>0, <1>4 DEF TypeOK, RequestsDone, Goto, thread
<1>5. ASSUME NEW j \in Jobs, Download(j) PROVE TypeOK'
  <2> DEFINE s == [owner |-> j, id |-> downloads'[j], lines |-> LinesOf(Target(j))]
  <2>1. /\ downloads' = [downloads EXCEPT ![j] = downloads[j] + 1] /\ store' = store \cup {s}
        /\ sid' = [sid EXCEPT ![j] = downloads'[j]]
        /\ visible' = [visible EXCEPT ![j] = LinesOf(App[j])]
        /\ pc' = [pc EXCEPT ![j] = "checking"]
        /\ UNCHANGED <<env, runs, done, tries, active, report, received, surfaced>>
    BY <1>5 DEF Download, Goto
  <2>2. \A a : LinesOf(a) \subseteq surfaced
    BY DEF LinesOf
  <2>3. downloads' \in [Jobs -> Nat] /\ downloads'[j] = downloads[j] + 1 /\ downloads[j] \in Nat
    BY <1>0, <2>1, SMTT(30) DEF TypeOK
  <2>4. sid' \in [Jobs -> Nat] /\ visible' \in [Jobs -> SUBSET surfaced]
    BY <1>0, <2>1, <2>2, <2>3 DEF TypeOK
  <2>5. \A t \in store' : /\ t.owner \in Jobs /\ t.id \in 1..downloads'[t.owner]
                          /\ t.lines \subseteq surfaced
    <3>1. s.owner = j /\ s.id = downloads[j] + 1 /\ s.lines \subseteq surfaced
      BY <2>2, <2>3
    <3>2. s.id \in 1..downloads'[s.owner]
      BY <2>3, <3>1
    <3> HIDE DEF s
    <3>3. ASSUME NEW t \in store
          PROVE  /\ t.owner \in Jobs /\ t.id \in 1..downloads'[t.owner]
                 /\ t.lines \subseteq surfaced
      <4>1. t.owner \in Jobs /\ t.id \in 1..downloads[t.owner] /\ t.lines \subseteq surfaced
        BY <1>0 DEF TypeOK
      <4>2. downloads[t.owner] \in Nat /\ downloads'[t.owner] \in Nat
            /\ downloads[t.owner] <= downloads'[t.owner]
        <5>1. downloads[t.owner] \in Nat /\ downloads'[t.owner] \in Nat
          BY <1>0, <2>3, <4>1 DEF TypeOK
        <5>2. t.owner # j => downloads'[t.owner] = downloads[t.owner]
          BY <1>0, <2>1, <4>1 DEF TypeOK
        <5> QED BY <2>3, <5>1, <5>2
      <4> QED BY <4>1, <4>2
    <3> QED BY <2>1, <3>1, <3>2, <3>3
  <2>6. active' \in [Jobs -> SUBSET store']
    BY <1>0, <2>1 DEF TypeOK
  <2>7. pc' \in [Jobs -> {"idle", "calling", "downloading",
                        "checking", "discarding", "complete", "error"}]
    BY <1>0, <2>1 DEF TypeOK
  <2> HIDE DEF s
  <2> QED BY <1>0, <2>1, <2>3, <2>4, <2>5, <2>6, <2>7 DEF TypeOK
<1>6. ASSUME NEW j \in Jobs, DownloadFails(j) PROVE TypeOK'
  <2> DEFINE outcome == [i \in Cases(j) |-> "nosnapshot"]
  <2>1. outcome \in [Cases(j) -> Verdict]
    BY DEF Verdict
  <2>2. /\ runs' = Judge(j, outcome) /\ NextSource(j)
        /\ UNCHANGED <<env, store, sid, active, report, received, surfaced, downloads>>
    BY <1>6 DEF DownloadFails
  <2>3. Len(runs[j]) = Len(SourceOf[j]) /\ Pending(j) # {}
    BY <1>0, <1>6 DEF Progress, DownloadFails
  <2>4. active' \in [Jobs -> SUBSET store']
    BY <1>0, <2>2 DEF TypeOK
  <2> HIDE DEF outcome
  <2> QED BY <1>0, <2>1, <2>2, <2>3, <2>4, JudgedTyped
<1>7. ASSUME NEW j \in Jobs, Retry(j) PROVE TypeOK'
  <2>1. /\ store' = store \ {Snapshot(j)} /\ tries' = [tries EXCEPT ![j] = tries[j] + 1]
        /\ pc' = [pc EXCEPT ![j] = "downloading"]
        /\ UNCHANGED <<env, runs, done, sid, active, report, received, surfaced,
                       visible, downloads>>
        /\ pc[j] = "checking" /\ ~ tries[j] >= MaxRetries
    BY <1>7 DEF Retry, Goto, Enough
  <2>2. tries' \in [Jobs -> 0..MaxRetries]
    BY <1>0, <2>1 DEF TypeOK
  <2>3. \A k \in Jobs : Snapshot(j) \notin active[k]
    BY <1>0, <2>1, CurrentSnapshot DEF Owned
  <2>4. active' \in [Jobs -> SUBSET store']
    BY <1>0, <2>1, <2>3 DEF TypeOK
  <2>5. pc' \in [Jobs -> {"idle", "calling", "downloading",
                        "checking", "discarding", "complete", "error"}]
    BY <1>0, <2>1 DEF TypeOK
  <2> QED BY <1>0, <2>1, <2>2, <2>4, <2>5 DEF TypeOK
<1>8. ASSUME NEW j \in Jobs, Validate(j) PROVE TypeOK'
  <2> DEFINE outcome == [i \in Cases(j) |->
                          IF Satisfied(j, i, OwnLines(j, i, Snapshot(j).lines))
                          THEN "passed" ELSE "failed"]
  <2>1. outcome \in [Cases(j) -> Verdict]
    BY DEF Verdict
  <2>2. /\ runs' = Judge(j, outcome) /\ NextSource(j)
        /\ active' = [active EXCEPT ![j] = active[j] \cup {Snapshot(j)}]
        /\ UNCHANGED <<env, store, sid, report, received, surfaced, downloads>>
    BY <1>8 DEF Validate
  <2>3. Len(runs[j]) = Len(SourceOf[j]) /\ Pending(j) # {}
    BY <1>0, <1>8 DEF Progress, Validate
  <2>4. Snapshot(j) \in store
    BY <1>0, <1>8, CurrentSnapshot DEF Owned, Validate
  <2>5. active' \in [Jobs -> SUBSET store']
    BY <1>0, <2>2, <2>4 DEF TypeOK
  <2> HIDE DEF outcome
  <2> QED BY <1>0, <2>1, <2>2, <2>3, <2>5, JudgedTyped
<1>9. ASSUME NEW j \in Jobs, ValidateRaises(j) PROVE TypeOK'
  <2>1. /\ pc[j] = "checking" /\ store' = store \ (active[j] \cup {Snapshot(j)})
        /\ ThreadEnds(j, "error", NoReport) /\ UNCHANGED <<env, received, surfaced>>
    BY <1>9 DEF ValidateRaises
  <2>2. Snapshot(j).owner = j /\ Snapshot(j).id = sid[j] /\ Snapshot(j) \in store
    BY <1>0, <2>1, CurrentSnapshot DEF Owned
  <2>3. \A s \in store' : s.owner # j
    BY <1>0, <2>1, <2>2 DEF Owned, UniqueIds
  <2>4. \A k \in Jobs : k # j => active[k] \subseteq store'
    <3>1. \A k \in Jobs : active[k] \subseteq store /\ \A s \in active[k] : s.owner = k
      BY <1>0 DEF Owned, TypeOK
    <3> QED BY <2>1, <2>2, <3>1
  <2> QED BY <1>0, <2>1, <2>3, <2>4, EndTyped
<1>10. ASSUME NEW j \in Jobs, Finish(j) PROVE TypeOK'
  <2>1. /\ pc[j] = "discarding" /\ store' = store \ active[j]
        /\ ThreadEnds(j, "complete", runs[j]) /\ UNCHANGED <<env, received, surfaced>>
    BY <1>10 DEF Finish
  <2>2. \A s \in store' : s.owner # j
    BY <1>0, <2>1 DEF Owned
  <2>3. \A k \in Jobs : k # j => active[k] \subseteq store'
    <3>1. \A k \in Jobs : active[k] \subseteq store /\ \A s \in active[k] : s.owner = k
      BY <1>0 DEF Owned, TypeOK
    <3> QED BY <2>1, <3>1
  <2>4. DOMAIN runs[j] = Cases(j)
    BY <1>0, <2>1, Entries DEF Progress
  <2> QED BY <1>0, <2>1, <2>2, <2>3, <2>4, EndTyped
<1>11. CASE Surface
  <2>1. PICK r \in received, t \in Tokens :
          /\ surfaced' = surfaced \cup {<<r[1], r[2], t>>}
          /\ UNCHANGED <<env, store, pc, thread, received, visible, downloads>>
    BY <1>11 DEF Surface
  <2>2. <<r[1], r[2]>> = r
    BY <1>0 DEF TypeOK, AllCases
  <2>3. \A l \in surfaced' : <<l[1], l[2]>> \in received' /\ l[3] \in Tokens
    <3> DEFINE m == <<r[1], r[2], t>>
    <3>1. <<m[1], m[2]>> = r /\ m[3] = t
      BY <2>2
    <3> HIDE DEF m
    <3>2. surfaced' = surfaced \cup {m} /\ received' = received
      BY <2>1 DEF m
    <3> QED BY <1>0, <3>1, <3>2 DEF TypeOK
  <2>4. /\ visible' \in [Jobs -> SUBSET surfaced']
        /\ \A s \in store' : s.lines \subseteq surfaced'
    BY <1>0, <2>1 DEF TypeOK
  <2> QED BY <1>0, <2>1, <2>3, <2>4 DEF TypeOK, thread
<1>12. CASE UNCHANGED vars
  BY <1>0, <1>12 DEF TypeOK, vars, thread
<1> QED
  BY <1>1, <1>2, <1>3, <1>4, <1>5, <1>6, <1>7, <1>8, <1>9, <1>10, <1>11, <1>12
  DEF Next, Step

-----------------------------------------------------------------------------

\* What a step leaves alone of job k.
LeavesAlone(k) ==
  /\ pc'[k] = pc[k] /\ runs'[k] = runs[k] /\ done'[k] = done[k] /\ tries'[k] = tries[k]
  /\ sid'[k] = sid[k] /\ active'[k] = active[k] /\ report'[k] = report[k]
  /\ downloads'[k] = downloads[k]
  /\ surfaced \subseteq surfaced'
  /\ \A s \in store \cup store' : s.owner = k => (s \in store <=> s \in store')

\* What holds of a job goes on to hold while others step and lines surface.
LEMMA Frame ==
  ASSUME IInv, NEW k \in Jobs, LeavesAlone(k)
  PROVE  JobInv(k)'
<1>0. TypeOK /\ Progress(k) /\ Judged(k) /\ Reported(k) /\ Owned(k) /\ Counted(k)
  BY DEF IInv, JobInv
<1>1. Pending(k)' = Pending(k)
  BY DEF LeavesAlone, Pending
<1>2. Progress(k)'
  BY <1>0, <1>1 DEF Progress, LeavesAlone
<1>3. \A i, e : Scoped(k, i, e) => Scoped(k, i, e)'
  BY DEF Scoped, Satisfied, LeavesAlone
<1>4. Judged(k)'
  BY <1>0, <1>3 DEF Judged, LeavesAlone
<1>5. Reported(k)'
  BY <1>0, <1>3 DEF Reported, LeavesAlone
<1>6. Owned(k)'
  BY <1>0 DEF Owned, LeavesAlone, TypeOK
<1>7. Counted(k)'
  BY <1>0 DEF Counted, LeavesAlone
<1> QED BY <1>2, <1>4, <1>5, <1>6, <1>7 DEF JobInv

\* Nothing a run does touches another one, except through the environment.
LEMMA OthersAlone ==
  ASSUME IInv, NEW j \in Jobs, Enter(j) \/ Step(j), NEW k \in Jobs, k # j
  PROVE  LeavesAlone(k)
<1>0. TypeOK /\ Progress(j) /\ Owned(j)
  BY DEF IInv, JobInv
<1>1. CASE Enter(j)
  BY <1>0, <1>1 DEF TypeOK, Enter, Goto, thread, LeavesAlone
<1>2. CASE ReadSuiteRaises(j)
  <2>1. ThreadEnds(j, "error", NoReport) /\ UNCHANGED <<store, surfaced>>
    BY <1>2 DEF ReadSuiteRaises
  <2> QED BY <1>0, <2>1, ThreadGone DEF LeavesAlone
<1>3. CASE CallCase(j)
  BY <1>0, <1>3 DEF TypeOK, CallCase, LeavesAlone
<1>4. CASE RequestsDone(j)
  BY <1>0, <1>4 DEF TypeOK, RequestsDone, Goto, thread, LeavesAlone
<1>5. CASE Download(j)
  BY <1>0, <1>5 DEF TypeOK, Download, Goto, LeavesAlone
<1>6. CASE DownloadFails(j)
  <2> DEFINE outcome == [i \in Cases(j) |-> "nosnapshot"]
  <2>1. outcome \in [Cases(j) -> Verdict]
    BY DEF Verdict
  <2>2. Len(runs[j]) = Len(SourceOf[j]) /\ Pending(j) # {}
    BY <1>0, <1>6 DEF Progress, DownloadFails
  <2>3. runs' = Judge(j, outcome) /\ NextSource(j)
        /\ UNCHANGED <<store, sid, active, report, surfaced, downloads>>
    BY <1>6 DEF DownloadFails
  <2> HIDE DEF outcome
  <2>4. runs'[k] = runs[k]
    BY <1>0, <2>1, <2>2, <2>3, JudgeGives
  <2>5. done'[k] = done[k] /\ tries'[k] = tries[k] /\ pc'[k] = pc[k]
    BY <1>0, <2>2, <2>3, SourceDone
  <2> QED BY <2>3, <2>4, <2>5 DEF LeavesAlone
<1>7. CASE Retry(j)
  <2>1. Snapshot(j).owner = j
    BY <1>0, <1>7, CurrentSnapshot DEF Owned, Retry
  <2> QED BY <1>0, <1>7, <2>1 DEF TypeOK, Retry, Goto, LeavesAlone
<1>8. CASE Validate(j)
  <2> DEFINE outcome == [i \in Cases(j) |->
                          IF Satisfied(j, i, OwnLines(j, i, Snapshot(j).lines))
                          THEN "passed" ELSE "failed"]
  <2>1. outcome \in [Cases(j) -> Verdict]
    BY DEF Verdict
  <2>2. Len(runs[j]) = Len(SourceOf[j]) /\ Pending(j) # {}
    BY <1>0, <1>8 DEF Progress, Validate
  <2>3. /\ runs' = Judge(j, outcome) /\ NextSource(j)
        /\ active' = [active EXCEPT ![j] = active[j] \cup {Snapshot(j)}]
        /\ UNCHANGED <<store, sid, report, surfaced, downloads>>
    BY <1>8 DEF Validate
  <2> HIDE DEF outcome
  <2>4. runs'[k] = runs[k]
    BY <1>0, <2>1, <2>2, <2>3, JudgeGives
  <2>5. done'[k] = done[k] /\ tries'[k] = tries[k] /\ pc'[k] = pc[k]
    BY <1>0, <2>2, <2>3, SourceDone
  <2>6. active'[k] = active[k]
    BY <1>0, <2>3 DEF TypeOK
  <2> QED BY <2>3, <2>4, <2>5, <2>6 DEF LeavesAlone
<1>9. CASE ValidateRaises(j)
  <2>1. /\ pc[j] = "checking" /\ store' = store \ (active[j] \cup {Snapshot(j)})
        /\ ThreadEnds(j, "error", NoReport) /\ UNCHANGED surfaced
    BY <1>9 DEF ValidateRaises
  <2>2. Snapshot(j).owner = j /\ \A s \in active[j] : s.owner = j
    BY <1>0, <2>1, CurrentSnapshot DEF Owned
  <2>3. \A s \in store \cup store' : s.owner = k => (s \in store <=> s \in store')
    BY <2>1, <2>2
  <2> QED BY <1>0, <2>1, <2>3, ThreadGone DEF LeavesAlone
<1>10. CASE Finish(j)
  <2>1. /\ store' = store \ active[j]
        /\ ThreadEnds(j, "complete", runs[j]) /\ UNCHANGED surfaced
    BY <1>10 DEF Finish
  <2>2. \A s \in store \cup store' : s.owner = k => (s \in store <=> s \in store')
    BY <1>0, <2>1 DEF Owned
  <2> QED BY <1>0, <2>1, <2>2, ThreadGone DEF LeavesAlone
<1> QED
  BY <1>1, <1>2, <1>3, <1>4, <1>5, <1>6, <1>7, <1>8, <1>9, <1>10 DEF Step

\* A new snapshot gets a new id.
LEMMA UniqueKept == IInv /\ [Next]_vars => UniqueIds'
<1> SUFFICES ASSUME IInv, [Next]_vars PROVE UniqueIds'
  OBVIOUS
<1>0. TypeOK /\ UniqueIds
  BY DEF IInv
<1>1. CASE store' \subseteq store
  BY <1>0, <1>1 DEF UniqueIds
<1>2. ASSUME NEW j \in Jobs, Download(j) PROVE UniqueIds'
  <2> DEFINE s == [owner |-> j, id |-> downloads'[j], lines |-> LinesOf(Target(j))]
  <2>1. /\ s.owner = j /\ s.id = downloads[j] + 1 /\ downloads[j] \in Nat
        /\ store' = store \cup {s}
    BY <1>0, <1>2 DEF TypeOK, Download
  <2> HIDE DEF s
  <2>2. \A t \in store : t.owner = j => t.id # s.id
    <3>1. \A t \in store : t.owner = j => t.id \in 1..downloads[j]
      BY <1>0 DEF TypeOK
    <3> QED BY <2>1, <3>1
  <2> QED BY <1>0, <2>1, <2>2 DEF UniqueIds
<1>3. store' \subseteq store \/ \E j \in Jobs : Download(j)
  BY DEF Next, Step, Enter, ReadSuiteRaises, CallCase, RequestsDone, DownloadFails, Retry,
     Validate, ValidateRaises, Finish, Surface, vars
<1> QED BY <1>1, <1>2, <1>3

-----------------------------------------------------------------------------
(* The steps of a run, for the run itself *)

\* A thread that ends and takes its snapshots with it.
LEMMA EndKeeps ==
  ASSUME TypeOK, NEW j \in Jobs, NEW how \in {"complete", "error"}, NEW result,
         ThreadEnds(j, how, result), \A s \in store' : s.owner # j,
         how = "complete" \/ result = NoReport,
         result # NoReport => \A i \in DOMAIN result : Scoped(j, i, result[i]),
         UNCHANGED surfaced
  PROVE  JobInv(j)'
<1>1. /\ pc'[j] = how /\ runs'[j] = <<>> /\ done'[j] = {} /\ tries'[j] = 0
      /\ active'[j] = {} /\ report'[j] = result /\ Len(runs'[j]) = 0
  BY ThreadGone
<1>2. Progress(j)'
  BY <1>1 DEF Progress
<1>3. Judged(j)'
  BY <1>1 DEF Judged
<1>4. Reported(j)'
  BY <1>1 DEF Reported, Scoped
<1>5. Owned(j)'
  BY <1>1 DEF Owned
<1>6. Counted(j)'
  BY <1>1, FS_EmptySet DEF Counted
<1> QED BY <1>2, <1>3, <1>4, <1>5, <1>6 DEF JobInv

\* A source that was dealt with, whatever its outcome.
LEMMA JudgeKeeps ==
  ASSUME TypeOK, NEW j \in Jobs, Progress(j), Judged(j), Reported(j),
         pc[j] \in {"downloading", "checking"},
         NEW outcome \in [Cases(j) -> Verdict],
         runs' = Judge(j, outcome), NextSource(j), UNCHANGED <<report, surfaced>>,
         \A i \in Group(j) : outcome[i] = "passed" =>
           Satisfied(j, i, {t \in Tokens : <<j, i, t>> \in surfaced})
  PROVE  Progress(j)' /\ Judged(j)' /\ Reported(j)'
<1>1. Len(runs[j]) = Len(SourceOf[j]) /\ Pending(j) # {} /\ report[j] = NoReport
  BY DEF Progress
<1>2. /\ Source(j) \notin done[j]
      /\ Group(j) = {i \in Validating(j) : SourceOf[j][i] = Source(j)}
  BY <1>1, SourceToDo
<1>3. /\ done'[j] = done[j] \cup {Source(j)}
      /\ pc'[j] = (IF Pending(j)' = {} THEN "discarding" ELSE "downloading")
  BY <1>1, SourceDone
<1>4. Len(runs'[j]) = Len(runs[j])
  BY <1>1, JudgeGives
<1>5. ASSUME NEW i \in 1..Len(runs[j])
      PROVE  LET e == runs[j][i]
                 f == runs'[j][i]
             IN  /\ i \notin Group(j) => f = e
                 /\ i \in Group(j) => /\ f.log = outcome[i] /\ f.response = e.response
                                      /\ f.passed <=> e.passed /\ outcome[i] = "passed"
  BY <1>1, JudgeGives
<1>6. Progress(j)'
  <2>1. pc'[j] \in {"discarding", "downloading"} /\ report'[j] = NoReport
    BY <1>1, <1>3
  <2> QED BY <1>1, <1>3, <1>4, <2>1 DEF Progress
<1>7. ASSUME NEW i \in 1..Len(runs[j])
      PROVE  /\ i \in Validating(j) /\ SourceOf[j][i] \in done'[j]
                 <=> runs'[j][i].log # "none"
             /\ runs'[j][i].passed <=> /\ runs'[j][i].response = "passed"
                                       /\ runs'[j][i].log \in {"none", "passed"}
             /\ Scoped(j, i, runs'[j][i])
  <2>1. /\ (i \in Validating(j) /\ SourceOf[j][i] \in done[j]) <=> runs[j][i].log # "none"
        /\ runs[j][i].passed <=> /\ runs[j][i].response = "passed"
                                 /\ runs[j][i].log \in {"none", "passed"}
        /\ Scoped(j, i, runs[j][i])
    BY DEF Judged
  <2>2. CASE i \notin Group(j)
    <3>1. runs'[j][i] = runs[j][i]
      BY <1>5, <2>2
    <3>2. i \in Validating(j) => SourceOf[j][i] # Source(j)
      BY <1>2, <2>2
    <3> QED BY <1>3, <2>1, <3>1, <3>2
  <2>3. CASE i \in Group(j)
    <3>1. /\ runs'[j][i].log = outcome[i] /\ runs'[j][i].response = runs[j][i].response
          /\ runs'[j][i].passed <=> runs[j][i].passed /\ outcome[i] = "passed"
      BY <1>5, <2>3
    <3>2. i \in Validating(j) /\ SourceOf[j][i] = Source(j) /\ runs[j][i].log = "none"
      BY <1>2, <2>1, <2>3
    <3>3. outcome[i] \in Verdict
      BY <3>2 DEF Validating
    <3>4. Scoped(j, i, runs'[j][i])
      BY <2>3, <3>1 DEF Scoped
    <3> QED BY <1>3, <2>1, <3>1, <3>2, <3>3, <3>4 DEF Verdict
  <2> QED BY <2>2, <2>3
<1>8. Judged(j)'
  <2>1. \A i, e : Scoped(j, i, e)' <=> Scoped(j, i, e)
    BY DEF Scoped
  <2> QED BY <1>4, <1>7, <2>1 DEF Judged
<1>9. Reported(j)'
  BY <1>1 DEF Reported
<1> QED BY <1>6, <1>8, <1>9

\* Of the sources and the snapshots that are kept, each is new.
LEMMA CountGrows ==
  ASSUME NEW A, NEW D, NEW a, NEW d, IsFiniteSet(A), IsFiniteSet(D),
         Cardinality(A) <= Cardinality(D), d \notin D
  PROVE  /\ IsFiniteSet(A \cup {a}) /\ IsFiniteSet(D \cup {d})
         /\ Cardinality(A \cup {a}) <= Cardinality(D \cup {d})
         /\ Cardinality(A) <= Cardinality(D \cup {d})
<1>1. Cardinality(A) \in Nat /\ Cardinality(D) \in Nat
  BY FS_CardinalityType
<1>2. IsFiniteSet(A \cup {a}) /\ IsFiniteSet(D \cup {d})
  BY FS_AddElement
<1>3. Cardinality(D \cup {d}) = Cardinality(D) + 1
  BY FS_AddElement
<1>4. CASE a \in A
  <2>1. A \cup {a} = A
    BY <1>4
  <2>2. Cardinality(A \cup {a}) = Cardinality(A)
    BY <2>1, Zenon
  <2> QED BY <1>1, <1>2, <1>3, <2>2
<1>5. CASE a \notin A
  <2>1. Cardinality(A \cup {a}) = Cardinality(A) + 1
    BY <1>5, FS_AddElement
  <2> QED BY <1>1, <1>2, <1>3, <2>1
<1> QED BY <1>4, <1>5

\* Every step of a run keeps what holds of the run.
LEMMA OwnStep ==
  ASSUME IInv, NEW j \in Jobs, Enter(j) \/ Step(j)
  PROVE  JobInv(j)'
<1> USE SuitesOK
<1>0. /\ TypeOK /\ UniqueIds
      /\ Progress(j) /\ Judged(j) /\ Reported(j) /\ Owned(j) /\ Counted(j)
  BY DEF IInv, JobInv
<1>1. CASE /\ UNCHANGED <<runs, done, tries, sid, active, report, store, surfaced>>
           /\ \/ pc[j] = "idle" /\ pc'[j] = "calling"
              \/ /\ pc[j] = "calling" /\ Len(runs[j]) = Len(SourceOf[j])
                 /\ pc'[j] = IF Validating(j) = {} THEN "discarding" ELSE "downloading"
  <2>1. Progress(j)'
    <3>1. CASE pc[j] = "idle" /\ pc'[j] = "calling"
      BY <1>0, <1>1, <3>1 DEF Progress
    <3>2. CASE pc[j] = "calling" /\ pc'[j] \in {"discarding", "downloading"}
      <4>1. Pending(j)' = Validating(j)
        BY <1>0, <1>1, <3>2 DEF Progress, Pending
      <4> QED BY <1>0, <1>1, <3>2, <4>1 DEF Progress
    <3> QED BY <1>1, <3>1, <3>2
  <2>2. Judged(j)' /\ Reported(j)'
    BY <1>0, <1>1 DEF Judged, Reported, Scoped
  <2>3. Owned(j)'
    BY <1>0, <1>1 DEF Owned
  <2>4. Counted(j)'
    BY <1>0, <1>1 DEF Counted
  <2> QED BY <2>1, <2>2, <2>3, <2>4 DEF JobInv
<1>2. CASE Enter(j) \/ RequestsDone(j)
  BY <1>0, <1>1, <1>2 DEF Enter, RequestsDone, Goto, thread, TypeOK
<1>3. CASE ReadSuiteRaises(j)
  <2>1. pc[j] = "calling" /\ ThreadEnds(j, "error", NoReport) /\ UNCHANGED <<store, surfaced>>
    BY <1>3 DEF ReadSuiteRaises
  <2>2. \A s \in store' : s.owner # j
    BY <1>0, <2>1 DEF Progress, Owned
  <2> QED BY <1>0, <2>1, <2>2, EndKeeps
<1>4. CASE CallCase(j)
  <2>1. /\ pc[j] = "calling"
        /\ UNCHANGED <<store, pc, done, tries, sid, active, report, surfaced>>
    BY <1>4 DEF CallCase
  <2>2. PICK outcome \in ResponseOutcome :
          runs' = [runs EXCEPT ![j] = Append(runs[j], [response |-> outcome, log |-> "none",
                                                        passed |-> outcome = "passed"])]
    BY <1>4 DEF CallCase
  <2> DEFINE e == [response |-> outcome, log |-> "none", passed |-> outcome = "passed"]
             n == Len(runs[j])
  <2>3. /\ e.response = outcome /\ e.log = "none" /\ e \in CaseRun
        /\ e.passed <=> outcome = "passed"
    BY DEF CaseRun, LogOutcome
  <2>4. runs'[j] = Append(runs[j], e)
    BY <1>0, <2>2 DEF TypeOK
  <2> HIDE DEF e
  <2>5. /\ n \in Nat /\ Len(runs'[j]) = n + 1 /\ runs'[j][n + 1] = e
        /\ \A i \in 1..n : runs'[j][i] = runs[j][i]
    BY <1>0, <2>3, <2>4, AppendProperties, LenProperties DEF TypeOK
  <2>6. Progress(j)'
    BY <1>0, <2>1 DEF Progress
  <2>7. ASSUME NEW i \in 1..(n + 1)
        PROVE  /\ i \in Validating(j) /\ SourceOf[j][i] \in done[j]
                    <=> runs'[j][i].log # "none"
               /\ runs'[j][i].passed <=> /\ runs'[j][i].response = "passed"
                                         /\ runs'[j][i].log \in {"none", "passed"}
               /\ Scoped(j, i, runs'[j][i])
    <3>1. CASE i \in 1..n
      BY <1>0, <2>5, <3>1 DEF Judged
    <3>2. CASE i = n + 1
      BY <1>0, <2>1, <2>3, <2>5, <3>2 DEF Progress, Scoped
    <3> QED BY <2>5, <3>1, <3>2
  <2>8. Judged(j)'
    <3>1. \A i, f : Scoped(j, i, f)' <=> Scoped(j, i, f)
      BY <2>1 DEF Scoped
    <3> QED BY <2>1, <2>5, <2>7, <3>1 DEF Judged
  <2>9. Reported(j)' /\ Owned(j)' /\ Counted(j)'
    BY <1>0, <2>1 DEF Reported, Scoped, Owned, Counted
  <2> QED BY <2>6, <2>8, <2>9 DEF JobInv
<1>5. CASE Download(j)
  <2> DEFINE s == [owner |-> j, id |-> downloads'[j], lines |-> LinesOf(Target(j))]
  <2>1. /\ pc[j] = "downloading" /\ pc'[j] = "checking"
        /\ store' = store \cup {s} /\ sid'[j] = downloads'[j]
        /\ downloads'[j] = downloads[j] + 1 /\ downloads[j] \in Nat
        /\ UNCHANGED <<runs, done, tries, active, report, surfaced>>
    BY <1>0, <1>5 DEF Download, Goto, TypeOK
  <2>2. s.owner = j /\ s.id = downloads'[j]
    OBVIOUS
  <2> HIDE DEF s
  <2>3. Progress(j)'
    <3>1. Pending(j)' = Pending(j)
      BY <2>1 DEF Pending
    <3> QED BY <1>0, <2>1, <3>1 DEF Progress
  <2>4. Judged(j)' /\ Reported(j)' /\ Counted(j)'
    BY <1>0, <2>1 DEF Judged, Reported, Scoped, Counted
  <2>5. \A t \in active[j] : t.id \in 1..downloads[j]
    BY <1>0 DEF Owned, TypeOK
  <2>6. \A t \in active[j] : t.id # sid'[j]
    BY <2>1, <2>5
  <2>7. Owned(j)'
    BY <1>0, <2>1, <2>2, <2>6 DEF Owned
  <2> QED BY <2>3, <2>4, <2>7 DEF JobInv
<1>6. CASE DownloadFails(j)
  <2> DEFINE outcome == [i \in Cases(j) |-> "nosnapshot"]
  <2>1. /\ pc[j] = "downloading" /\ runs' = Judge(j, outcome) /\ NextSource(j)
        /\ UNCHANGED <<store, sid, active, report, surfaced, downloads>>
    BY <1>6 DEF DownloadFails
  <2>2. outcome \in [Cases(j) -> Verdict] /\ \A i \in Group(j) : outcome[i] # "passed"
    BY DEF Verdict, Group, Validating
  <2> HIDE DEF outcome
  <2>3. Progress(j)' /\ Judged(j)' /\ Reported(j)'
    BY <1>0, <2>1, <2>2, JudgeKeeps
  <2>4. /\ Pending(j) # {} /\ Source(j) \notin done[j]
        /\ done'[j] = done[j] \cup {Source(j)} /\ pc'[j] # "checking"
    BY <1>0, <2>1, SourceToDo, SourceDone DEF Progress
  <2>5. Owned(j)'
    BY <1>0, <2>1, <2>4 DEF Owned
  <2>6. Counted(j)'
    <3>1. IsFiniteSet(active[j]) /\ IsFiniteSet(done[j])
          /\ Cardinality(active[j]) <= Cardinality(done[j])
      BY <1>0 DEF Counted
    <3>2. IsFiniteSet(done[j] \cup {Source(j)})
          /\ Cardinality(active[j]) <= Cardinality(done[j] \cup {Source(j)})
      BY <2>4, <3>1, CountGrows
    <3>3. active'[j] = active[j]
      BY <2>1
    <3> QED BY <2>4, <3>1, <3>2, <3>3, Zenon DEF Counted
  <2> QED BY <2>3, <2>5, <2>6 DEF JobInv
<1>7. CASE Retry(j)
  <2>1. /\ pc[j] = "checking" /\ pc'[j] = "downloading" /\ store' = store \ {Snapshot(j)}
        /\ UNCHANGED <<runs, done, sid, active, report, surfaced, downloads>>
    BY <1>0, <1>7 DEF Retry, Goto, TypeOK
  <2>2. Snapshot(j) \in store /\ Snapshot(j).owner = j /\ Snapshot(j).id = sid[j]
    BY <1>0, <2>1, CurrentSnapshot DEF Owned
  <2>3. Progress(j)'
    <3>1. Pending(j)' = Pending(j)
      BY <2>1 DEF Pending
    <3> QED BY <1>0, <2>1, <3>1 DEF Progress
  <2>4. Judged(j)' /\ Reported(j)' /\ Counted(j)'
    BY <1>0, <2>1 DEF Judged, Reported, Scoped, Counted
  <2>5. \A s \in store : s.owner = j /\ s.id = sid[j] => s = Snapshot(j)
    BY <1>0, <2>2 DEF UniqueIds
  <2>6. Owned(j)'
    BY <1>0, <2>1, <2>5 DEF Owned
  <2> QED BY <2>3, <2>4, <2>6 DEF JobInv
<1>8. CASE Validate(j)
  <2> DEFINE outcome == [i \in Cases(j) |->
                          IF Satisfied(j, i, OwnLines(j, i, Snapshot(j).lines))
                          THEN "passed" ELSE "failed"]
  <2>1. /\ pc[j] = "checking" /\ runs' = Judge(j, outcome) /\ NextSource(j)
        /\ active' = [active EXCEPT ![j] = active[j] \cup {Snapshot(j)}]
        /\ UNCHANGED <<store, sid, report, surfaced, downloads>>
    BY <1>8 DEF Validate
  <2>2. Snapshot(j) \in store /\ Snapshot(j).owner = j /\ Snapshot(j).id = sid[j]
    BY <1>0, <2>1, CurrentSnapshot DEF Owned
  <2>3. outcome \in [Cases(j) -> Verdict]
    BY DEF Verdict
  <2>4. \A i \in Group(j) : outcome[i] = "passed" =>
          Satisfied(j, i, {t \in Tokens : <<j, i, t>> \in surfaced})
    <3>1. ASSUME NEW i \in Group(j), outcome[i] = "passed"
          PROVE  Satisfied(j, i, OwnLines(j, i, Snapshot(j).lines))
      BY <3>1 DEF Group, Validating
    <3>2. Snapshot(j).lines \subseteq surfaced
      BY <1>0, <2>2 DEF TypeOK
    <3> QED BY <3>1, <3>2 DEF Satisfied, OwnLines
  <2> HIDE DEF outcome
  <2>5. Progress(j)' /\ Judged(j)' /\ Reported(j)'
    BY <1>0, <2>1, <2>3, <2>4, JudgeKeeps
  <2>6. /\ Pending(j) # {} /\ Source(j) \notin done[j]
        /\ done'[j] = done[j] \cup {Source(j)} /\ pc'[j] # "checking"
    BY <1>0, <2>1, SourceToDo, SourceDone DEF Progress
  <2>7. active'[j] = active[j] \cup {Snapshot(j)}
    BY <1>0, <2>1 DEF TypeOK
  <2>8. \A s \in store : s.owner = j /\ s.id = sid[j] => s = Snapshot(j)
    BY <1>0, <2>2 DEF UniqueIds
  <2>9. Owned(j)'
    BY <1>0, <2>1, <2>2, <2>6, <2>7, <2>8 DEF Owned
  <2>10. Counted(j)'
    <3>1. IsFiniteSet(active[j]) /\ IsFiniteSet(done[j])
          /\ Cardinality(active[j]) <= Cardinality(done[j])
      BY <1>0 DEF Counted
    <3> DEFINE a == Snapshot(j)
               d == Source(j)
    <3>2. d \notin done[j] /\ active'[j] = active[j] \cup {a} /\ done'[j] = done[j] \cup {d}
      BY <2>6, <2>7
    <3> HIDE DEF a, d
    <3>3. /\ IsFiniteSet(active[j] \cup {a}) /\ IsFiniteSet(done[j] \cup {d})
          /\ Cardinality(active[j] \cup {a}) <= Cardinality(done[j] \cup {d})
      BY <3>1, <3>2, CountGrows
    <3> QED BY <3>2, <3>3, Zenon DEF Counted
  <2> QED BY <2>5, <2>9, <2>10 DEF JobInv
<1>9. CASE ValidateRaises(j)
  <2>1. /\ pc[j] = "checking" /\ store' = store \ (active[j] \cup {Snapshot(j)})
        /\ ThreadEnds(j, "error", NoReport) /\ UNCHANGED surfaced
    BY <1>9 DEF ValidateRaises
  <2>2. Snapshot(j) \in store /\ Snapshot(j).owner = j /\ Snapshot(j).id = sid[j]
    BY <1>0, <2>1, CurrentSnapshot DEF Owned
  <2>3. \A s \in store' : s.owner # j
    BY <1>0, <2>1, <2>2 DEF Owned, UniqueIds
  <2> QED BY <1>0, <2>1, <2>3, EndKeeps
<1>10. CASE Finish(j)
  <2>1. /\ pc[j] = "discarding" /\ store' = store \ active[j]
        /\ ThreadEnds(j, "complete", runs[j]) /\ UNCHANGED surfaced
    BY <1>10 DEF Finish
  <2>2. \A s \in store' : s.owner # j
    BY <1>0, <2>1 DEF Owned
  <2>3. DOMAIN runs[j] = 1..Len(runs[j])
    BY <1>0, Entries
  <2> DEFINE result == runs[j]
  <2>4. \A i \in DOMAIN result : Scoped(j, i, result[i])
    BY <1>0, <2>3 DEF Judged
  <2>5. ThreadEnds(j, "complete", result)
    BY <2>1
  <2> HIDE DEF result
  <2> QED BY <1>0, <2>1, <2>2, <2>4, <2>5, EndKeeps
<1> QED BY <1>2, <1>3, <1>4, <1>5, <1>6, <1>7, <1>8, <1>9, <1>10 DEF Step

\* The invariant holds of every state the server's runs reach.
LEMMA Invariance == Spec => []IInv
<1>1. Init => IInv
  <2> SUFFICES ASSUME Init PROVE IInv
    OBVIOUS
  <2> USE SuitesOK
  <2>1. <<>> \in Seq(CaseRun) /\ Len(<<>>) = 0
    BY EmptySeq
  <2>2. TypeOK
    BY <2>1 DEF Init, TypeOK
  <2>3. UniqueIds
    BY DEF Init, UniqueIds
  <2>4. ASSUME NEW j \in Jobs PROVE JobInv(j)
    <3>1. Progress(j) /\ Reported(j) /\ Owned(j)
      BY DEF Init, Progress, Reported, Owned
    <3>2. Judged(j)
      BY <2>1 DEF Init, Judged
    <3>3. Counted(j)
      BY FS_EmptySet DEF Init, Counted
    <3> QED BY <3>1, <3>2, <3>3 DEF JobInv
  <2> QED BY <2>2, <2>3, <2>4 DEF IInv
<1>2. IInv /\ [Next]_vars => IInv'
  <2> SUFFICES ASSUME IInv, [Next]_vars PROVE IInv'
    OBVIOUS
  <2>1. TypeOK' /\ UniqueIds'
    BY TypeKept, UniqueKept
  <2>2. ASSUME NEW j \in Jobs, Enter(j) \/ Step(j), NEW k \in Jobs PROVE JobInv(k)'
    <3>1. CASE k = j
      BY <2>2, <3>1, OwnStep
    <3>2. CASE k # j
      BY <2>2, <3>2, OthersAlone, Frame
    <3> QED BY <3>1, <3>2
  <2>3. ASSUME Surface \/ UNCHANGED vars, NEW k \in Jobs PROVE JobInv(k)'
    <3>1. LeavesAlone(k)
      BY <2>3 DEF Surface, vars, thread, LeavesAlone
    <3> QED BY <3>1, Frame
  <2> QED BY <2>1, <2>2, <2>3 DEF IInv, Next
<1> QED BY <1>1, <1>2, PTL DEF Spec


-----------------------------------------------------------------------------
(* What the runs of the server are promised *)

\* The variables keep their shapes, and no source is downloaded again more than
\* log_fetch_max_retries times.
THEOREM RunsTyped == Spec => []TypeOK
<1>1. IInv => TypeOK
  BY DEF IInv
<1> QED BY <1>1, Invariance, PTL

\* A case whose log check passed, in a report or in a run under way, has its
\* expected lines under the very id of its own request (_validate_logs_phase),
\* never under that of another case or of a concurrent run.
THEOREM PassesScoped == Spec => []StrictlyScoped
<1>1. ASSUME IInv PROVE StrictlyScoped
  <2>1. ASSUME NEW j \in Jobs PROVE /\ \A i \in DOMAIN runs[j] : Scoped(j, i, runs[j][i])
                                    /\ report[j] # NoReport =>
                                         \A i \in DOMAIN report[j] : Scoped(j, i, report[j][i])
    <3>1. TypeOK /\ Judged(j) /\ Reported(j)
      BY <1>1 DEF IInv, JobInv
    <3>2. DOMAIN runs[j] = 1..Len(runs[j])
      BY <3>1, Entries
    <3> QED BY <3>1, <3>2 DEF Judged, Reported
  <2> QED BY <2>1 DEF StrictlyScoped, Scoped
<1>2. IInv => StrictlyScoped
  BY <1>1
<1> QED BY <1>2, Invariance, PTL

\* "A snapshot lives only until discard" (snapshot_store.py): the store holds of
\* a run one snapshot per source it has validated and the one it works with, and
\* nothing once the run is over, whichever way it went over.
THEOREM SnapshotsBounded == Spec => []SnapshotsDiscarded
<1>1. ASSUME IInv, NEW j \in Jobs
      PROVE  LET own == {s \in store : s.owner = j}
             IN  /\ Cardinality(own) <= Cardinality(done[j]) + 1
                 /\ Over(j) => own = {}
  <2> DEFINE own == {s \in store : s.owner = j}
  <2>1. /\ UniqueIds /\ Progress(j) /\ Owned(j)
        /\ IsFiniteSet(active[j]) /\ IsFiniteSet(done[j])
        /\ Cardinality(active[j]) <= Cardinality(done[j])
    BY <1>1 DEF IInv, JobInv, Counted
  <2>2. Over(j) => own = {}
    BY <2>1 DEF Over, Owned, Progress
  <2>3. Cardinality(active[j]) \in Nat /\ Cardinality(done[j]) \in Nat
    BY <2>1, FS_CardinalityType
  <2>4. \E s : own \subseteq active[j] \cup {s}
    <3>1. CASE pc[j] = "checking"
      <4>1. own \subseteq active[j] \cup {Snapshot(j)}
        BY <2>1, <3>1, CurrentSnapshot DEF Owned, UniqueIds
      <4> QED BY <4>1
    <3>2. CASE pc[j] # "checking"
      BY <2>1, <3>2 DEF Owned
    <3> QED BY <3>1, <3>2
  <2>5. PICK s : own \subseteq active[j] \cup {s}
    BY <2>4
  <2>6. /\ IsFiniteSet(active[j] \cup {s})
        /\ Cardinality(active[j] \cup {s}) <= Cardinality(active[j]) + 1
    <3>1. /\ IsFiniteSet(active[j] \cup {s})
          /\ Cardinality(active[j] \cup {s}) =
               IF s \in active[j] THEN Cardinality(active[j]) ELSE Cardinality(active[j]) + 1
      BY <2>1, FS_AddElement
    <3> QED BY <2>3, <3>1
  <2> HIDE DEF own
  <2>7. Cardinality(own) \in Nat /\ Cardinality(own) <= Cardinality(active[j] \cup {s})
    BY <2>5, <2>6, FS_Subset, FS_CardinalityType
  <2>8. Cardinality(active[j] \cup {s}) \in Nat
    BY <2>6, FS_CardinalityType
  <2>9. Cardinality(own) <= Cardinality(done[j]) + 1
    BY <2>1, <2>3, <2>6, <2>7, <2>8
  <2> QED BY <2>2, <2>9 DEF own
<1>2. IInv => SnapshotsDiscarded
  BY <1>1 DEF SnapshotsDiscarded
<1> QED BY <1>2, Invariance, PTL

-----------------------------------------------------------------------------
(* Honest failures *)

\* The application a run resolves can only be its own: its suite names the URL,
\* it has no source that has to be resolved, or every run tests the same one.
OneTarget(j) ==
  \/ j \in SuiteUrl
  \/ \A i \in Cases(j) : SourceOf[j][i] \notin Resolving
  \/ \A k \in Jobs : App[k] = App[j]

\* The snapshot a run judges by is what its application's log showed.
Faithful(j) ==
  pc[j] = "checking" =>
    \A s \in store : s.owner = j /\ s.id = sid[j] => s.lines = visible[j]

\* Where the application cannot be mistaken, every step keeps snapshots faithful.
LEMMA FaithfulKept ==
  ASSUME IInv, \A j \in Jobs : OneTarget(j) /\ Faithful(j), [Next]_vars
  PROVE  \A j \in Jobs : Faithful(j)'
<1>0. TypeOK
  BY DEF IInv
<1>1. ASSUME NEW j \in Jobs, Download(j) PROVE \A k \in Jobs : Faithful(k)'
  <2> DEFINE s == [owner |-> j, id |-> downloads'[j], lines |-> LinesOf(Target(j))]
  <2>1. /\ pc[j] = "downloading" /\ store' = store \cup {s}
        /\ downloads'[j] = downloads[j] + 1 /\ downloads[j] \in Nat
        /\ sid'[j] = downloads'[j] /\ visible'[j] = LinesOf(App[j])
        /\ \A k \in Jobs : k # j =>
             pc'[k] = pc[k] /\ sid'[k] = sid[k] /\ visible'[k] = visible[k]
    BY <1>0, <1>1 DEF Download, Goto, TypeOK
  <2>2. Target(j) = App[j]
    <3>1. Pending(j) # {} /\ env \in {App[k] : k \in Jobs}
      BY <1>0, <2>1 DEF IInv, JobInv, Progress, TypeOK
    <3>2. Source(j) \in {SourceOf[j][i] : i \in Cases(j)}
      BY <3>1, SourceToDo
    <3> QED BY <3>1, <3>2 DEF OneTarget, Target
  <2>3. s.owner = j /\ s.id = downloads'[j] /\ s.lines = LinesOf(App[j])
    BY <2>2
  <2> HIDE DEF s
  <2>4. \A t \in store : t.owner = j => t.id \in 1..downloads[j]
    BY <1>0 DEF TypeOK
  <2>5. Faithful(j)'
    <3>1. ASSUME NEW t \in store', t.owner = j, t.id = sid'[j] PROVE t = s
      BY <2>1, <2>4, <3>1
    <3> QED BY <2>1, <2>3, <3>1 DEF Faithful
  <2>6. ASSUME NEW k \in Jobs, k # j PROVE Faithful(k)'
    BY <2>1, <2>3, <2>6 DEF Faithful
  <2> QED BY <2>5, <2>6
<1>2. ASSUME store' \subseteq store, NEW k \in Jobs,
             pc'[k] = "checking" => UNCHANGED <<pc[k], sid[k], visible[k]>>
      PROVE  Faithful(k)'
  BY <1>2 DEF Faithful
<1>3. ASSUME NEW j \in Jobs, Enter(j) \/ Step(j), ~ Download(j)
      PROVE  /\ store' \subseteq store
             /\ \A k \in Jobs : pc'[k] = "checking" => UNCHANGED <<pc[k], sid[k], visible[k]>>
  <2>1. CASE Enter(j) \/ CallCase(j) \/ RequestsDone(j) \/ Retry(j)
    BY <1>0, <2>1 DEF TypeOK, Enter, CallCase, RequestsDone, Retry, Goto, thread
  <2>2. CASE ReadSuiteRaises(j) \/ ValidateRaises(j) \/ Finish(j)
    BY <1>0, <2>2 DEF TypeOK, ReadSuiteRaises, ValidateRaises, Finish, ThreadEnds, Goto
  <2>3. CASE DownloadFails(j) \/ Validate(j)
    BY <1>0, <2>3 DEF TypeOK, DownloadFails, Validate, NextSource, Goto
  <2> QED BY <1>3, <2>1, <2>2, <2>3 DEF Step
<1>4. CASE Surface \/ UNCHANGED vars
  BY <1>2, <1>4 DEF Surface, vars, thread
<1> QED BY <1>1, <1>2, <1>3, <1>4 DEF Next

\* Where the application cannot be mistaken a failed log check is honest: in the
\* log of its own application, as the last download of the source could show
\* it, the lines were not there (_snapshot_with_retry, build_log_source).
THEOREM HonestWhereOneTarget ==
  (\A j \in Jobs : OneTarget(j)) => (Spec => []FailsHonestly)
<1> SUFFICES ASSUME \A j \in Jobs : OneTarget(j) PROVE Spec => []FailsHonestly
  OBVIOUS
<1> DEFINE AllFaithful == \A j \in Jobs : Faithful(j)
<1>1. Init => AllFaithful
  BY DEF Init, Faithful
<1>2. IInv /\ AllFaithful /\ [Next]_vars => AllFaithful'
  BY FaithfulKept
<1>3. ASSUME IInv, AllFaithful PROVE FailsHonestly
  <2>1. ASSUME NEW j \in Jobs, pc[j] = "checking" PROVE Snapshot(j).lines = visible[j]
    <3>1. Snapshot(j) \in store /\ Snapshot(j).owner = j /\ Snapshot(j).id = sid[j]
      BY <1>3, <2>1, CurrentSnapshot DEF IInv, JobInv, Owned
    <3> QED BY <1>3, <2>1, <3>1 DEF Faithful
  <2> QED BY <2>1 DEF FailsHonestly
<1>4. IInv /\ AllFaithful => FailsHonestly
  BY <1>3
<1> HIDE DEF AllFaithful
<1> QED BY <1>1, <1>2, <1>4, Invariance, PTL DEF Spec

-----------------------------------------------------------------------------
(* The contract of a suite run *)

\* Where the threads of the runs can go.
LEMMA Moves ==
  ASSUME IInv, [Next]_vars, NEW j \in Jobs
  PROVE  \/ pc'[j] = pc[j] /\ report'[j] = report[j]
         \/ pc[j] = "idle" /\ pc'[j] = "calling" /\ report'[j] = report[j]
         \/ /\ {pc[j], pc'[j]} \subseteq {"calling", "downloading", "checking", "discarding"}
            /\ report'[j] = report[j]
         \/ pc[j] \in {"calling", "checking"} /\ pc'[j] = "error" /\ report'[j] = NoReport
         \/ pc[j] = "discarding" /\ pc'[j] = "complete" /\ report'[j] = runs[j]
<1>0. TypeOK
  BY DEF IInv
<1>1. ASSUME NEW k \in Jobs, Enter(k) \/ Step(k), k # j
      PROVE  pc'[j] = pc[j] /\ report'[j] = report[j]
  BY <1>1, OthersAlone DEF LeavesAlone
<1>2. CASE Enter(j) \/ CallCase(j) \/ RequestsDone(j) \/ Download(j) \/ Retry(j)
  BY <1>0, <1>2 DEF TypeOK, Enter, CallCase, RequestsDone, Download, Retry, Goto, thread
<1>3. CASE ReadSuiteRaises(j) \/ ValidateRaises(j) \/ Finish(j)
  BY <1>0, <1>3 DEF TypeOK, ReadSuiteRaises, ValidateRaises, Finish, ThreadEnds, Goto
<1>4. CASE DownloadFails(j) \/ Validate(j)
  BY <1>0, <1>4 DEF TypeOK, DownloadFails, Validate, NextSource, Goto
<1>5. CASE Surface \/ UNCHANGED vars
  BY <1>5 DEF Surface, vars, thread
<1> QED BY <1>1, <1>2, <1>3, <1>4, <1>5 DEF Next, Step

\* A run keeps the contract of a suite run (run_suite): it is entered, then ends
\* once, and its report is there exactly when it is complete, with an entry per
\* case that tells the truth about the checks that case asked for.
THEOREM RunsKeepContract == Spec => KeepsContract
<1> DEFINE Kept(j) == Run(j)!AbsNext \/ UNCHANGED Run(j)!absVars
           AllKept == \A j \in Jobs : Kept(j)
           phase(j) == CASE pc[j] = "idle" -> "idle"
                         [] Over(j) -> pc[j]
                         [] OTHER -> "active"
           Active == {"calling", "downloading", "checking", "discarding"}
<1>1. Init => \A j \in Jobs : Run(j)!AbsInit
  BY DEF Init, Run!AbsInit
<1>2. ASSUME IInv, IInv', [Next]_vars, NEW j \in Jobs PROVE Kept(j)
  <2>1. TypeOK /\ Progress(j) /\ Judged(j) /\ TypeOK' /\ Progress(j)'
    BY <1>2 DEF IInv, JobInv
  <2>2. /\ pc[j] = "idle" => phase(j) = "idle"
        /\ pc[j] \in Active => phase(j) = "active"
        /\ pc[j] \in {"complete", "error"} => phase(j) = pc[j]
    BY DEF Over
  <2>3. /\ pc'[j] = "idle" => phase(j)' = "idle"
        /\ pc'[j] \in Active => phase(j)' = "active"
        /\ pc'[j] \in {"complete", "error"} => phase(j)' = pc'[j]
    BY DEF Over
  <2>4. pc[j] # "complete" => report[j] = NoReport
    BY <2>1 DEF Progress
  <2>5. CASE pc'[j] = pc[j] /\ report'[j] = report[j]
    <3>1. phase(j)' = phase(j)
      BY <2>5 DEF Over
    <3> QED BY <2>5, <3>1 DEF Run!absVars
  <2>6. CASE pc[j] = "idle" /\ pc'[j] = "calling" /\ report'[j] = report[j]
    BY <2>2, <2>3, <2>6 DEF Run!AbsNext, Run!Begin
  <2>7. CASE {pc[j], pc'[j]} \subseteq Active /\ report'[j] = report[j]
    <3>1. phase(j)' = phase(j)
      BY <2>2, <2>3, <2>7
    <3> QED BY <2>7, <3>1 DEF Run!absVars
  <2>8. CASE pc[j] \in {"calling", "checking"} /\ pc'[j] = "error" /\ report'[j] = NoReport
    <3>1. phase(j) = "active" /\ phase(j)' = "error" /\ report'[j] = report[j]
      BY <2>2, <2>3, <2>4, <2>8
    <3> HIDE DEF phase
    <3> QED BY <3>1 DEF Run!AbsNext, Run!Abort, phase
  <2>9. CASE pc[j] = "discarding" /\ pc'[j] = "complete" /\ report'[j] = runs[j]
    <3>1. phase(j) = "active" /\ phase(j)' = "complete"
      BY <2>2, <2>3, <2>9
    <3>2. runs[j] \in Run(j)!Report
      <4>1. /\ Len(runs[j]) = Len(SourceOf[j]) /\ runs[j] \in [1..Len(runs[j]) -> CaseRun]
            /\ Pending(j) = {}
        BY <2>1, <2>9, Entries DEF Progress
      <4>2. \A i \in Validating(j) : SourceOf[j][i] \in done[j]
        BY <4>1 DEF Pending
      <4>3. ASSUME NEW i \in 1..Len(runs[j]) PROVE Run(j)!Earned(i, runs[j][i])
        <5>1. /\ i \in Validating(j) <=> runs[j][i].log # "none"
              /\ runs[j][i].passed <=> /\ runs[j][i].response = "passed"
                                       /\ runs[j][i].log \in {"none", "passed"}
          BY <2>1, <4>2 DEF Judged
        <5> QED BY <5>1 DEF Run!Earned
      <4>4. runs[j] \in [1..Len(SourceOf[j]) -> Run(j)!Entry]
        BY <4>1 DEF CaseRun, ResponseOutcome, LogOutcome, Run!Entry, Run!ResponseOutcome,
           Run!LogOutcome
      <4> QED BY <4>1, <4>3, <4>4 DEF Run!Report
    <3> QED BY <2>9, <3>1, <3>2 DEF Run!AbsNext, Run!Complete
  <2> QED BY <1>2, <2>5, <2>6, <2>7, <2>8, <2>9, Moves
<1>3. IInv /\ IInv' /\ [Next]_vars => [AllKept]_vars
  BY <1>2
<1>4. Spec => (\A j \in Jobs : Run(j)!AbsInit) /\ [][AllKept]_vars
  BY <1>1, <1>3, Invariance, PTL DEF Spec
<1> QED BY <1>4, PTL DEF KeepsContract
=============================================================================
