--------------------------- MODULE FrontDoorProofs ---------------------------
(***************************************************************************)
(* Proofs about FrontDoor, for any number of calls, any TTL, and however   *)
(* often an object is evicted, a call is cut off or the storage throws.    *)
(***************************************************************************)
EXTENDS FrontDoor, FiniteSetTheorems, TLAPS

-----------------------------------------------------------------------------
(* The inductive invariant *)

\* How far the store() of a file has come tells what its object holds.
Written ==
  \A f \in Files :
    /\ writer[f] = "none" <=> f > drawn
    /\ writer[f] \in {"meta", "alarm"} => f \in blob
    /\ writer[f] = "alarm" => f \in meta
    /\ writer[f] = "returned" => f \in Served \cup expired
    /\ due[f] # Never => writer[f] = "returned"
    /\ writer[f] = "returned" /\ due[f] = Never => f \notin blob

\* A file a client was told of, or a call goes on to use, or a complete job
\* links to, was stored to the end.
Known ==
  /\ \A f \in told : writer[f] = "returned"
  /\ \A c \in Calls :
       /\ pc[c] = "idle" => suite[c] = NoFile
       /\ pc[c] \in {"uploading", "generating"} => suite[c] # NoFile
       /\ pc[c] \in {"starting", "waiting", "polling"} /\ suite[c] # NoFile =>
            writer[suite[c]] = "returned"
       /\ pc[c] = "notfound" => suite[c] \in expired
       /\ job[c] \in {"storing", "complete"} => result[c] # NoFile
       /\ job[c] = "complete" => writer[result[c]] = "returned"

Broken == {f \in Files : writer[f] = "broken"}

\* Every store() that was cut short cost a crash.
Paid == Cardinality(Broken) <= crashes

IInv == TypeOK /\ Written /\ Known /\ Paid

-----------------------------------------------------------------------------

\* There are finitely many file ids, numbered from 1.
LEMMA FilesFinite ==
  /\ Cardinality(Files) \in Nat /\ IsFiniteSet(Files)
  /\ Files = 1..Cardinality(Files) /\ NoFile \notin Files
<1>1. IsFiniteSet(Calls) /\ IsFiniteSet(Runs)
  BY FrontDoorShape, FS_Union DEF Calls
<1>2. Cardinality(Calls) \in Nat /\ Cardinality(Runs) \in Nat
  BY <1>1, FS_CardinalityType
<1> DEFINE n == Cardinality(Calls) + Cardinality(Runs) + MaxCrashes
<1>3. n \in Nat /\ Files = 1..n
  BY <1>2, FrontDoorShape DEF Files
<1> HIDE DEF n
<1>4. IsFiniteSet(1..n) /\ Cardinality(1..n) = IF 1 > n THEN 0 ELSE n - 1 + 1
  BY <1>3, FS_Interval
<1>5. Cardinality(1..n) = n
  BY <1>3, <1>4
<1> QED BY <1>3, <1>4, <1>5 DEF NoFile

\* Every step keeps the variables in shape.
LEMMA TypeKept == IInv /\ [Next]_vars => TypeOK'
<1> SUFFICES ASSUME IInv, [Next]_vars PROVE TypeOK'
  OBVIOUS
<1> USE FrontDoorShape, FilesFinite
<1>0. TypeOK /\ Written /\ Known /\ Paid
  BY DEF IInv
<1>1. ASSUME NEW f \in Files, PutBlob(f) PROVE TypeOK'
  <2>1. f \in Nat /\ f >= 1 /\ drawn \in Nat
    BY <1>0 DEF TypeOK
  <2>2. writer[f] # "none"
    BY <1>0, <1>1 DEF PutBlob, Written, Never
  <2>3. f \in 1..drawn
    BY <1>0, <2>1, <2>2 DEF Written
  <2> QED BY <1>0, <1>1, <2>3 DEF TypeOK, PutBlob, clients, jobs, Never
<1>2. ASSUME NEW f \in Files, PutMeta(f) PROVE TypeOK'
  <2>1. f \in Nat /\ f >= 1 /\ drawn \in Nat
    BY <1>0 DEF TypeOK
  <2>2. writer[f] # "none"
    BY <1>0, <1>2 DEF PutMeta, Written, Never
  <2>3. f \in 1..drawn
    BY <1>0, <2>1, <2>2 DEF Written
  <2> QED BY <1>0, <1>2, <2>3 DEF TypeOK, PutMeta, clients, jobs, Never
<1>3. ASSUME NEW f \in Files, SetAlarm(f) PROVE TypeOK'
  BY <1>0, <1>3 DEF TypeOK, SetAlarm, clients, jobs, Never, Terminal
<1>4. ASSUME NEW f \in Files, Alarm(f) PROVE TypeOK'
  <2>1. f \in Nat /\ f >= 1 /\ drawn \in Nat
    BY <1>0 DEF TypeOK
  <2>2. writer[f] # "none"
    BY <1>0, <1>4 DEF Alarm, Written, Never
  <2>3. f \in 1..drawn
    BY <1>0, <2>1, <2>2 DEF Written
  <2> QED BY <1>0, <1>4, <2>3 DEF TypeOK, Alarm, clients, jobs, Never
<1>5. ASSUME NEW f \in Files, StoreBreaks(f) PROVE TypeOK'
  BY <1>0, <1>5 DEF TypeOK, StoreBreaks, clients, jobs, Crashes, Never, Terminal
<1>6. ASSUME NEW c \in Calls, Reject(c) PROVE TypeOK'
  BY <1>0, <1>6 DEF TypeOK, Reject, files, jobs, Goto, Never, Terminal
<1>7. ASSUME NEW c \in Calls, StoreSuite(c) PROVE TypeOK'
  BY <1>0, <1>7, SMTT(30) DEF TypeOK, StoreSuite, jobs, Goto, NewFile, Never, Terminal
<1>8. ASSUME NEW c \in Calls, SuiteStored(c) PROVE TypeOK'
  <2>1. CASE pc[c] = "uploading"
    <3>1. /\ pc' = [pc EXCEPT ![c] = "answered"] /\ told' = told \cup {suite[c]}
          /\ writer[suite[c]] = "returned" /\ suite[c] # NoFile
          /\ UNCHANGED <<files, suite, shown, jobs, crashes, expired>>
      BY <1>0, <1>8, <2>1 DEF SuiteStored, Goto, Known
    <3>2. suite[c] \in 1..drawn
      BY <1>0, <3>1 DEF TypeOK, NoFile
    <3> QED BY <1>0, <3>1, <3>2 DEF TypeOK, files, jobs, Never, Terminal
  <2>2. CASE pc[c] = "generating"
    <3>1. /\ pc' = [pc EXCEPT ![c] = "starting"] /\ told' = told
          /\ writer[suite[c]] = "returned"
          /\ UNCHANGED <<files, suite, shown, jobs, crashes, expired>>
      BY <1>0, <1>8, <2>2 DEF SuiteStored, Goto, Known
    <3> QED BY <1>0, <3>1 DEF TypeOK, files, jobs, Never, Terminal
  <2> QED BY <1>8, <2>1, <2>2 DEF SuiteStored
<1>9. ASSUME NEW c \in Calls, SuiteNotStored(c) PROVE TypeOK'
  BY <1>0, <1>9 DEF TypeOK, SuiteNotStored, files, jobs, Goto, Never, Terminal
<1>10. ASSUME NEW c \in Calls, RunSuite(c) PROVE TypeOK'
  BY <1>0, <1>10 DEF TypeOK, RunSuite, files, jobs, Goto, Never, Terminal
<1>11. ASSUME NEW c \in Calls, RunInline(c) PROVE TypeOK'
  BY <1>0, <1>11 DEF TypeOK, RunInline, files, jobs, Goto, Never, Terminal
<1>12. ASSUME NEW c \in Calls, StartJob(c) PROVE TypeOK'
  BY <1>0, <1>12 DEF TypeOK, StartJob, files, Goto, Never, Terminal
<1>13. ASSUME NEW c \in Calls, Answer(c) PROVE TypeOK'
  BY <1>0, <1>13 DEF TypeOK, Written, Known, Answer, files, jobs, Goto, Never, Terminal,
     StatusView, Link, NoFile
<1>14. ASSUME NEW c \in Calls, Poll(c) PROVE TypeOK'
  BY <1>0, <1>14, SMTT(30)
  DEF TypeOK, Written, Known, Poll, files, jobs, Never, Terminal, StatusView,
     Link, NoFile
<1>15. ASSUME NEW c \in Calls, CallLost(c) PROVE TypeOK'
  BY <1>0, <1>15 DEF TypeOK, CallLost, files, jobs, Goto, Crashes, Never, Terminal
<1>16. ASSUME NEW c \in Calls, JobFinalizes(c) PROVE TypeOK'
  BY <1>0, <1>16, SMTT(30) DEF TypeOK, JobFinalizes, clients, NewFile, Never, Terminal
<1>17. ASSUME NEW c \in Calls, JobFails(c) PROVE TypeOK'
  BY <1>0, <1>17 DEF TypeOK, JobFails, files, clients, Never, Terminal
<1>18. ASSUME NEW c \in Calls, JobStored(c) PROVE TypeOK'
  BY <1>0, <1>18 DEF TypeOK, JobStored, files, clients, Never, Terminal
<1>19. ASSUME NEW c \in Calls, JobNotStored(c) PROVE TypeOK'
  BY <1>0, <1>19 DEF TypeOK, JobNotStored, files, clients, Never, Terminal
<1>20. ASSUME NEW c \in Calls, JobRowDeleted(c) PROVE TypeOK'
  BY <1>0, <1>20 DEF TypeOK, JobRowDeleted, files, clients, Never, Terminal
<1>21. ASSUME NEW c \in Calls, JobEvicted(c) PROVE TypeOK'
  BY <1>0, <1>21 DEF TypeOK, JobEvicted, files, clients, Crashes, Never, Terminal
<1>22. CASE Tick
  BY <1>0, <1>22, SMTT(30) DEF TypeOK, Tick, clients, jobs, Never, Terminal
<1>23. CASE UNCHANGED vars
  BY <1>0, <1>23 DEF TypeOK, vars, files, clients, jobs, Never, Terminal
<1> QED
  BY <1>1, <1>2, <1>3, <1>4, <1>5, <1>6, <1>7, <1>8, <1>9, <1>10, <1>11, <1>12,
     <1>13, <1>14, <1>15, <1>16, <1>17, <1>18, <1>19, <1>20, <1>21, <1>22, <1>23
  DEF Next, FileStep, CallStep, JobStep

\* The steps of a store() are taken in their order.
LEMMA WrittenKept == IInv /\ [Next]_vars => Written'
<1> SUFFICES ASSUME IInv, [Next]_vars PROVE Written'
  OBVIOUS
<1> USE FrontDoorShape, FilesFinite
<1>0. TypeOK /\ Written /\ Known /\ Paid
  BY DEF IInv
<1>1. ASSUME NEW f \in Files, PutBlob(f) PROVE Written'
  BY <1>0, <1>1 DEF TypeOK, Written, PutBlob, clients, jobs, Never, Served
<1>2. ASSUME NEW f \in Files, PutMeta(f) PROVE Written'
  BY <1>0, <1>2 DEF TypeOK, Written, PutMeta, clients, jobs, Never, Served
<1>3. ASSUME NEW f \in Files, SetAlarm(f) PROVE Written'
  BY <1>0, <1>3 DEF TypeOK, Written, SetAlarm, clients, jobs, Never, Served
<1>4. ASSUME NEW f \in Files, Alarm(f) PROVE Written'
  BY <1>0, <1>4 DEF TypeOK, Written, Alarm, clients, jobs, Never, Served
<1>5. ASSUME NEW f \in Files, StoreBreaks(f) PROVE Written'
  BY <1>0, <1>5 DEF TypeOK, Written, StoreBreaks, clients, jobs, Crashes, Never, Served
<1>6. ASSUME NEW c \in Calls, Reject(c) PROVE Written'
  BY <1>0, <1>6 DEF TypeOK, Written, Reject, files, jobs, Never, Served
<1>7. ASSUME NEW c \in Calls, StoreSuite(c) PROVE Written'
  BY <1>0, <1>7 DEF TypeOK, Written, StoreSuite, jobs, NewFile, Never, Served
<1>8. ASSUME NEW c \in Calls, SuiteStored(c) PROVE Written'
  BY <1>0, <1>8 DEF TypeOK, Written, SuiteStored, files, jobs, Never, Served
<1>9. ASSUME NEW c \in Calls, SuiteNotStored(c) PROVE Written'
  BY <1>0, <1>9 DEF TypeOK, Written, SuiteNotStored, files, jobs, Never, Served
<1>10. ASSUME NEW c \in Calls, RunSuite(c) PROVE Written'
  BY <1>0, <1>10 DEF TypeOK, Written, RunSuite, files, jobs, Never, Served
<1>11. ASSUME NEW c \in Calls, RunInline(c) PROVE Written'
  BY <1>0, <1>11 DEF TypeOK, Written, RunInline, files, jobs, Never, Served
<1>12. ASSUME NEW c \in Calls, StartJob(c) PROVE Written'
  BY <1>0, <1>12 DEF TypeOK, Written, StartJob, files, Never, Served
<1>13. ASSUME NEW c \in Calls, Answer(c) PROVE Written'
  BY <1>0, <1>13 DEF TypeOK, Written, Answer, files, jobs, Never, Served
<1>14. ASSUME NEW c \in Calls, Poll(c) PROVE Written'
  BY <1>0, <1>14 DEF TypeOK, Written, Poll, files, jobs, Never, Served
<1>15. ASSUME NEW c \in Calls, CallLost(c) PROVE Written'
  BY <1>0, <1>15 DEF TypeOK, Written, CallLost, files, jobs, Crashes, Never, Served
<1>16. ASSUME NEW c \in Calls, JobFinalizes(c) PROVE Written'
  BY <1>0, <1>16 DEF TypeOK, Written, JobFinalizes, clients, NewFile, Never, Served
<1>17. ASSUME NEW c \in Calls, JobFails(c) PROVE Written'
  BY <1>0, <1>17 DEF TypeOK, Written, JobFails, files, clients, Never, Served
<1>18. ASSUME NEW c \in Calls, JobStored(c) PROVE Written'
  BY <1>0, <1>18 DEF TypeOK, Written, JobStored, files, clients, Never, Served
<1>19. ASSUME NEW c \in Calls, JobNotStored(c) PROVE Written'
  BY <1>0, <1>19 DEF TypeOK, Written, JobNotStored, files, clients, Never, Served
<1>20. ASSUME NEW c \in Calls, JobRowDeleted(c) PROVE Written'
  BY <1>0, <1>20 DEF TypeOK, Written, JobRowDeleted, files, clients, Never, Served
<1>21. ASSUME NEW c \in Calls, JobEvicted(c) PROVE Written'
  BY <1>0, <1>21 DEF TypeOK, Written, JobEvicted, files, clients, Crashes, Never, Served
<1>22. CASE Tick
  BY <1>0, <1>22 DEF TypeOK, Written, Tick, clients, jobs, Never, Served
<1>23. CASE UNCHANGED vars
  BY <1>0, <1>23 DEF TypeOK, Written, vars, files, clients, jobs, Never, Served
<1> QED
  BY <1>1, <1>2, <1>3, <1>4, <1>5, <1>6, <1>7, <1>8, <1>9, <1>10, <1>11, <1>12,
     <1>13, <1>14, <1>15, <1>16, <1>17, <1>18, <1>19, <1>20, <1>21, <1>22, <1>23
  DEF Next, FileStep, CallStep, JobStep

\* No file is told of before its store() has returned.
LEMMA KnownKept == IInv /\ [Next]_vars => Known'
<1> SUFFICES ASSUME IInv, [Next]_vars PROVE Known'
  OBVIOUS
<1> USE FrontDoorShape, FilesFinite
<1>0. TypeOK /\ Written /\ Known /\ Paid
  BY DEF IInv
<1>1. ASSUME NEW f \in Files, PutBlob(f) PROVE Known'
  BY <1>0, <1>1 DEF TypeOK, Known, PutBlob, clients, jobs, NoFile
<1>2. ASSUME NEW f \in Files, PutMeta(f) PROVE Known'
  BY <1>0, <1>2 DEF TypeOK, Known, PutMeta, clients, jobs, NoFile
<1>3. ASSUME NEW f \in Files, SetAlarm(f) PROVE Known'
  BY <1>0, <1>3 DEF TypeOK, Known, SetAlarm, clients, jobs, NoFile
<1>4. ASSUME NEW f \in Files, Alarm(f) PROVE Known'
  BY <1>0, <1>4 DEF TypeOK, Known, Alarm, clients, jobs, NoFile
<1>5. ASSUME NEW f \in Files, StoreBreaks(f) PROVE Known'
  BY <1>0, <1>5 DEF TypeOK, Known, StoreBreaks, clients, jobs, Crashes, NoFile
<1>6. ASSUME NEW c \in Calls, Reject(c) PROVE Known'
  BY <1>0, <1>6 DEF TypeOK, Known, Reject, files, jobs, Goto, NoFile
<1>7. ASSUME NEW c \in Calls, StoreSuite(c) PROVE Known'
  BY <1>0, <1>7 DEF TypeOK, Known, StoreSuite, jobs, Goto, NewFile, NoFile
<1>8. ASSUME NEW c \in Calls, SuiteStored(c) PROVE Known'
  <2>1. CASE pc[c] = "uploading"
    <3>1. /\ pc' = [pc EXCEPT ![c] = "answered"] /\ told' = told \cup {suite[c]}
          /\ writer[suite[c]] = "returned" /\ suite[c] # NoFile
          /\ UNCHANGED <<files, suite, shown, jobs, crashes, expired>>
      BY <1>0, <1>8, <2>1 DEF SuiteStored, Goto, Known
    <3>2. suite[c] \in 1..drawn
      BY <1>0, <3>1 DEF TypeOK, NoFile
    <3> QED BY <1>0, <3>1, <3>2 DEF TypeOK, Known, files, jobs
  <2>2. CASE pc[c] = "generating"
    <3>1. /\ pc' = [pc EXCEPT ![c] = "starting"] /\ told' = told
          /\ writer[suite[c]] = "returned"
          /\ UNCHANGED <<files, suite, shown, jobs, crashes, expired>>
      BY <1>0, <1>8, <2>2 DEF SuiteStored, Goto, Known
    <3> QED BY <1>0, <3>1 DEF TypeOK, Known, files, jobs
  <2> QED BY <1>8, <2>1, <2>2 DEF SuiteStored
<1>9. ASSUME NEW c \in Calls, SuiteNotStored(c) PROVE Known'
  BY <1>0, <1>9 DEF TypeOK, Known, SuiteNotStored, files, jobs, Goto, NoFile
<1>10. ASSUME NEW c \in Calls, RunSuite(c) PROVE Known'
  BY <1>0, <1>10 DEF TypeOK, Written, Known, RunSuite, files, jobs, Goto, Loadable, Served,
     NoFile
<1>11. ASSUME NEW c \in Calls, RunInline(c) PROVE Known'
  BY <1>0, <1>11 DEF TypeOK, Known, RunInline, files, jobs, Goto, NoFile
<1>12. ASSUME NEW c \in Calls, StartJob(c) PROVE Known'
  BY <1>0, <1>12 DEF TypeOK, Known, StartJob, files, Goto, NoFile
<1>13. ASSUME NEW c \in Calls, Answer(c) PROVE Known'
  BY <1>0, <1>13 DEF TypeOK, Known, Answer, files, jobs, Goto, Link, NoFile
<1>14. ASSUME NEW c \in Calls, Poll(c) PROVE Known'
  BY <1>0, <1>14 DEF TypeOK, Known, Poll, files, jobs, Link, NoFile
<1>15. ASSUME NEW c \in Calls, CallLost(c) PROVE Known'
  BY <1>0, <1>15 DEF TypeOK, Known, CallLost, files, jobs, Goto, Crashes, NoFile
<1>16. ASSUME NEW c \in Calls, JobFinalizes(c) PROVE Known'
  BY <1>0, <1>16 DEF TypeOK, Known, JobFinalizes, clients, NewFile, NoFile
<1>17. ASSUME NEW c \in Calls, JobFails(c) PROVE Known'
  BY <1>0, <1>17 DEF TypeOK, Known, JobFails, files, clients, NoFile
<1>18. ASSUME NEW c \in Calls, JobStored(c) PROVE Known'
  BY <1>0, <1>18 DEF TypeOK, Known, JobStored, files, clients, NoFile
<1>19. ASSUME NEW c \in Calls, JobNotStored(c) PROVE Known'
  BY <1>0, <1>19 DEF TypeOK, Known, JobNotStored, files, clients, NoFile
<1>20. ASSUME NEW c \in Calls, JobRowDeleted(c) PROVE Known'
  BY <1>0, <1>20 DEF TypeOK, Known, JobRowDeleted, files, clients, NoFile
<1>21. ASSUME NEW c \in Calls, JobEvicted(c) PROVE Known'
  BY <1>0, <1>21 DEF TypeOK, Known, JobEvicted, files, clients, Crashes, NoFile
<1>22. CASE Tick
  BY <1>0, <1>22 DEF TypeOK, Known, Tick, clients, jobs, NoFile
<1>23. CASE UNCHANGED vars
  BY <1>0, <1>23 DEF TypeOK, Known, vars, files, clients, jobs, NoFile
<1> QED
  BY <1>1, <1>2, <1>3, <1>4, <1>5, <1>6, <1>7, <1>8, <1>9, <1>10, <1>11, <1>12,
     <1>13, <1>14, <1>15, <1>16, <1>17, <1>18, <1>19, <1>20, <1>21, <1>22, <1>23
  DEF Next, FileStep, CallStep, JobStep

\* A store() that is cut short is paid for with a crash.
LEMMA PaidKept == IInv /\ [Next]_vars => Paid'
<1> SUFFICES ASSUME IInv, [Next]_vars PROVE Paid'
  OBVIOUS
<1> USE FrontDoorShape, FilesFinite
<1>0. TypeOK /\ Paid
  BY DEF IInv
<1>1. IsFiniteSet(Broken) /\ Cardinality(Broken) \in Nat
  <2>1. Broken \subseteq Files
    BY DEF Broken
  <2> QED BY <2>1, FS_Subset, FS_CardinalityType
<1>2. crashes \in Nat
  BY <1>0 DEF TypeOK
<1>3. ASSUME NEW f \in Files, StoreBreaks(f) PROVE Paid'
  <2>1. Broken' = Broken \cup {f} /\ crashes' = crashes + 1
    BY <1>0, <1>3 DEF TypeOK, StoreBreaks, Crashes, Broken
  <2>2. Cardinality(Broken \cup {f}) <= Cardinality(Broken) + 1
    <3>1. CASE f \in Broken
      <4>1. Broken \cup {f} = Broken
        BY <3>1
      <4>2. Cardinality(Broken \cup {f}) = Cardinality(Broken)
        BY <4>1, Zenon
      <4> QED BY <1>1, <4>2
    <3>2. CASE f \notin Broken
      <4>1. Cardinality(Broken \cup {f}) = Cardinality(Broken) + 1
        BY <1>1, <3>2, FS_AddElement
      <4> QED BY <1>1, <4>1
    <3> QED BY <3>1, <3>2
  <2>3. IsFiniteSet(Broken \cup {f}) /\ Cardinality(Broken \cup {f}) \in Nat
    BY <1>1, FS_AddElement, FS_CardinalityType
  <2> QED BY <1>0, <1>1, <1>2, <2>1, <2>2, <2>3 DEF Paid
<1>4. CASE /\ crashes' = crashes \/ crashes' = crashes + 1
           /\ Broken' = Broken
  BY <1>0, <1>1, <1>2, <1>4 DEF Paid
<1>5. ASSUME ~ \E f \in Files : StoreBreaks(f)
      PROVE  Broken' = Broken /\ (crashes' = crashes \/ crashes' = crashes + 1)
  <2>1. ASSUME NEW f \in Files, PutBlob(f) \/ PutMeta(f) \/ SetAlarm(f) \/ Alarm(f)
        PROVE  Broken' = Broken /\ crashes' = crashes
    BY <1>0, <2>1 DEF TypeOK, PutBlob, PutMeta, SetAlarm, Alarm, Broken
  <2>2. ASSUME NEW c \in Calls, StoreSuite(c) \/ JobFinalizes(c)
        PROVE  Broken' = Broken /\ crashes' = crashes
    <3>1. PICK f \in Files : NewFile(f) /\ crashes' = crashes
      BY <2>2 DEF StoreSuite, JobFinalizes
    <3>2. writer' = [writer EXCEPT ![f] = "blob"] /\ f > drawn
      BY <1>0, <3>1 DEF NewFile, TypeOK
    <3>3. writer[f] = "none"
      BY <3>2 DEF IInv, Written
    <3> QED BY <1>0, <3>1, <3>2, <3>3 DEF TypeOK, Broken
  <2>3. ASSUME NEW c \in Calls,
               \/ Reject(c) \/ SuiteStored(c) \/ SuiteNotStored(c) \/ RunSuite(c)
               \/ RunInline(c) \/ StartJob(c) \/ Answer(c) \/ Poll(c) \/ CallLost(c)
               \/ JobFails(c) \/ JobStored(c) \/ JobNotStored(c) \/ JobRowDeleted(c)
               \/ JobEvicted(c)
        PROVE  writer' = writer /\ (crashes' = crashes \/ crashes' = crashes + 1)
    BY <2>3
    DEF Reject, SuiteStored, SuiteNotStored, RunSuite, RunInline, StartJob, Answer, Poll,
       CallLost, JobFails, JobStored, JobNotStored, JobRowDeleted, JobEvicted, Crashes,
       files
  <2>4. CASE Tick \/ UNCHANGED vars
    BY <2>4 DEF Tick, vars, files, Broken
  <2> QED
    BY <1>5, <2>1, <2>2, <2>3, <2>4 DEF Next, FileStep, CallStep, JobStep, Broken
<1> QED BY <1>3, <1>4, <1>5

\* The invariant holds of every state the Worker reaches.
LEMMA Invariance == Spec => []IInv
<1>1. Init => IInv
  <2> SUFFICES ASSUME Init PROVE IInv
    OBVIOUS
  <2> USE FrontDoorShape, FilesFinite
  <2>1. TypeOK
    BY DEF Init, TypeOK, Never, Terminal, NoFile
  <2>2. Written
    BY DEF Init, Written, Never
  <2>3. Known
    BY DEF Init, Known, NoFile
  <2>4. Broken = {} /\ crashes = 0
    BY DEF Init, Broken
  <2>5. Paid
    BY <2>4, FS_EmptySet DEF Paid
  <2> QED BY <2>1, <2>2, <2>3, <2>5 DEF IInv
<1>2. IInv /\ [Next]_vars => IInv'
  BY TypeKept, WrittenKept, KnownKept, PaidKept DEF IInv
<1> QED BY <1>1, <1>2, PTL DEF Spec

-----------------------------------------------------------------------------

\* An id a client was told can be downloaded whole until it expires, and one
\* that is answered with "not found" had expired: for every order of the
\* writes of a store(), the answers, the alarms and the crashes.
THEOREM ToldServed == Spec => []ToldFilesServe
<1>1. IInv => ToldFilesServe
  <2> SUFFICES ASSUME IInv PROVE ToldFilesServe
    OBVIOUS
  <2>1. ASSUME NEW f \in told PROVE f \in Served \cup expired
    <3>1. f \in Files
      BY FilesFinite DEF IInv, TypeOK
    <3> QED BY <3>1 DEF IInv, Known, Written
  <2>2. ASSUME NEW c \in Calls, pc[c] = "notfound" PROVE suite[c] \in expired
    BY <2>2 DEF IInv, Known
  <2> QED BY <2>1, <2>2 DEF ToldFilesServe
<1> QED BY <1>1, Invariance, PTL

\* A file that will never delete itself was orphaned by a crash inside its
\* store(), one crash for each, and no client was told of it.
THEOREM OrphansCost == Spec => []OrphansAreCrashes
<1>1. IInv => OrphansAreCrashes
  <2> SUFFICES ASSUME IInv PROVE OrphansAreCrashes
    OBVIOUS
  <2> DEFINE orphans == {f \in blob : due[f] = Never /\ writer[f] \in {"returned", "broken"}}
  <2>0. TypeOK /\ Written /\ Known /\ Paid
    BY DEF IInv
  <2>1. blob \subseteq Files
    BY <2>0, FilesFinite DEF TypeOK
  <2>2. orphans \subseteq Broken
    BY <2>0, <2>1 DEF Written, Broken
  <2>3. orphans \cap told = {}
    BY <2>0, <2>2 DEF Known, Broken
  <2>4. IsFiniteSet(Broken)
    <3>1. Broken \subseteq Files
      BY DEF Broken
    <3> QED BY <3>1, FilesFinite, FS_Subset
  <2>5. Cardinality(orphans) <= Cardinality(Broken)
    BY <2>2, <2>4, FS_Subset
  <2>6. /\ Cardinality(orphans) \in Nat /\ Cardinality(Broken) \in Nat
        /\ crashes \in Nat
    BY <2>0, <2>2, <2>4, FS_Subset, FS_CardinalityType DEF TypeOK
  <2> HIDE DEF orphans
  <2>7. Cardinality(orphans) <= crashes
    BY <2>0, <2>5, <2>6 DEF Paid
  <2> QED BY <2>3, <2>7 DEF OrphansAreCrashes, orphans
<1> QED BY <1>1, Invariance, PTL

=============================================================================
