--------------------------- MODULE JobServerProofs ---------------------------
(***************************************************************************)
(* Proofs about JobServer, for any number of jobs of any expected length,  *)
(* any clock that does not run backwards and any number of restarts.       *)
(***************************************************************************)
EXTENDS JobServer, TLAPS

-----------------------------------------------------------------------------
(* The percentage *)

\* Division rounds down, so it keeps the order of what it divides.
LEMMA DivisionMonotone ==
  ASSUME NEW a \in Nat, NEW b \in Nat, NEW d \in Nat \ {0}, a <= b
  PROVE  a \div d \in Nat /\ b \div d \in Nat /\ a \div d <= b \div d
<1> DEFINE p == a \div d
           q == b \div d
<1>1. p \in Int /\ d * p <= a /\ a < d * p + d
  BY Z3
<1>2. q \in Int /\ d * q <= b /\ b < d * q + d
  BY Z3
<1> HIDE DEF p, q
<1>3. p >= 0
  BY <1>1, Z3
<1>4. q >= 0
  BY <1>2, Z3
<1>5. p <= q
  BY <1>1, <1>2, Z3
<1> QED BY <1>1, <1>2, <1>3, <1>4, <1>5 DEF p, q

\* pct = min(95, max(10, ...)) as a function of the time that has passed.
PercentAfter(e, total) ==
  IF 10 + (e * 85) \div total > 95 THEN 95 ELSE 10 + (e * 85) \div total

\* The percentage stays between 10 and 95, and grows with the time.
LEMMA PercentGrows ==
  ASSUME NEW a \in Nat, NEW b \in Nat, a <= b, NEW d \in Nat \ {0}
  PROVE  /\ PercentAfter(a, d) \in 10..95 /\ PercentAfter(b, d) \in 10..95
         /\ PercentAfter(a, d) <= PercentAfter(b, d)
<1>1. a * 85 \in Nat /\ b * 85 \in Nat /\ a * 85 <= b * 85
  OBVIOUS
<1>2. /\ (a * 85) \div d \in Nat /\ (b * 85) \div d \in Nat
      /\ (a * 85) \div d <= (b * 85) \div d
  BY <1>1, DivisionMonotone
<1> DEFINE p == (a * 85) \div d
           q == (b * 85) \div d
<1>3. p \in Nat /\ q \in Nat /\ p <= q
  BY <1>2
<1> HIDE DEF p, q
<1>4. /\ PercentAfter(a, d) = IF 10 + p > 95 THEN 95 ELSE 10 + p
      /\ PercentAfter(b, d) = IF 10 + q > 95 THEN 95 ELSE 10 + q
  BY DEF PercentAfter, p, q
<1> QED BY <1>3, <1>4

-----------------------------------------------------------------------------
(* The inductive invariant *)

\* The handler's dictionary says "running" as long as it lives, the one the
\* end of the run makes never does.
Shapes(j) ==
  /\ first[j].status = "running" /\ first[j].report = NoReport
  /\ first[j].pct <= 95
  /\ last[j] \in {Complete, Error}

\* The progress bar is never ahead of the clock.
Lags(j) ==
  /\ since[j] <= now
  /\ updater[j] \in {"none", "starting"} => first[j].pct = 5
  /\ updater[j] \in {"awake", "asleep"} =>
       first[j].pct <= PercentAfter(now - since[j], Total[j])

\* Which dictionary is in the table is a matter of how far the handler and the
\* thread of the run have come, and a poll holds one that is or was there.
Lives(j) ==
  /\ worker[j] = "running" => table[j] = "first"
  /\ (worker[j] = "ended") <=> (table[j] = "last")
  /\ starter[j] \in {"idle", "refused", "lost"} => table[j] = "absent"
  /\ starter[j] \in {"inserted", "working", "watched", "told"} => table[j] # "absent"
  /\ starter[j] \in {"working", "watched", "told"} => worker[j] # "none"
  /\ table[j] = "absent" => updater[j] = "none"
  /\ starter[j] \in {"idle", "inserted"} => worker[j] = "none" /\ updater[j] = "none"
  /\ starter[j] = "working" => updater[j] = "none"
  /\ poll[j] # "none" => starter[j] = "told"
  /\ poll[j] = "last" => table[j] = "last"

\* A client was shown nothing, or what the record was at some time: the
\* record has moved on since, and the end of a run is the last it was shown.
Shown(j) ==
  \/ seen[j] = Nothing
  \/ seen[j] = NotFound /\ starter[j] = "lost"
  \/ /\ starter[j] \in {"told", "lost"}
     /\ seen[j] \in Record
     /\ seen[j].status = "running" /\ seen[j].report = NoReport /\ seen[j].pct <= 95
     /\ starter[j] = "told" => seen[j].pct <= first[j].pct
  \/ /\ seen[j] \in {Complete, Error}
     /\ \/ starter[j] = "lost"
        \/ starter[j] = "told" /\ table[j] = "last" /\ seen[j] = last[j] /\ poll[j] # "first"

JobInv(j) == Shapes(j) /\ Lags(j) /\ Lives(j) /\ Shown(j)

IInv == TypeOK /\ \A j \in Jobs : JobInv(j)

-----------------------------------------------------------------------------

\* The three records the code writes as literals are records.
LEMMA Literals ==
  /\ Fresh \in Record /\ Complete \in Record /\ Error \in Record
  /\ Nothing \notin Record /\ NotFound \notin Record
  BY DEF Fresh, Complete, Error, Nothing, NotFound, Record

\* The percentage of a running job, from the readings of the clock.
LEMMA PercentBounds ==
  ASSUME TypeOK, NEW j \in Jobs, since[j] <= now
  PROVE  /\ Percent(j) = PercentAfter(now - since[j], Total[j])
         /\ Percent(j) \in 10..95
<1>1. now \in Nat /\ since[j] \in Nat /\ Total[j] \in Nat \ {0}
  BY ServerShape DEF TypeOK
<1>2. now - since[j] \in Nat /\ now - since[j] <= now - since[j]
  BY <1>1
<1>3. PercentAfter(now - since[j], Total[j]) \in 10..95
  BY <1>1, <1>2, PercentGrows
<1>4. Percent(j) = PercentAfter(now - since[j], Total[j])
  BY DEF Percent, PercentAfter
<1> QED BY <1>3, <1>4

\* Every step keeps the variables in shape.
LEMMA TypeKept == IInv /\ [Next]_vars => TypeOK'
<1> SUFFICES ASSUME IInv, [Next]_vars PROVE TypeOK'
  OBVIOUS
<1> USE ServerShape, Literals
<1>0. TypeOK
  BY DEF IInv
<1>1. ASSUME NEW j \in Jobs, Refuse(j) PROVE TypeOK'
  BY <1>0, <1>1 DEF TypeOK, Refuse, client
<1>2. ASSUME NEW j \in Jobs, Insert(j) PROVE TypeOK'
  BY <1>0, <1>2 DEF TypeOK, Insert, client
<1>3. ASSUME NEW j \in Jobs, StartWorker(j) PROVE TypeOK'
  BY <1>0, <1>3 DEF TypeOK, StartWorker, client
<1>4. ASSUME NEW j \in Jobs, StartUpdater(j) PROVE TypeOK'
  BY <1>0, <1>4 DEF TypeOK, StartUpdater, client
<1>5. ASSUME NEW j \in Jobs, StarterRaises(j) PROVE TypeOK'
  BY <1>0, <1>5 DEF TypeOK, StarterRaises, client
<1>6. ASSUME NEW j \in Jobs, ReturnId(j) PROVE TypeOK'
  BY <1>0, <1>6 DEF TypeOK, ReturnId, client
<1>7. ASSUME NEW j \in Jobs, WorkerEnds(j) PROVE TypeOK'
  BY <1>0, <1>7 DEF TypeOK, WorkerEnds, client
<1>8. ASSUME NEW j \in Jobs, UpdaterBegins(j) PROVE TypeOK'
  BY <1>0, <1>8 DEF TypeOK, UpdaterBegins, client
<1>9. ASSUME NEW j \in Jobs, UpdaterMoves(j) PROVE TypeOK'
  <2>1. Percent(j) \in 10..95
    BY <1>0, <1>9, PercentBounds DEF IInv, JobInv, Lags
  <2>2. Percent(j) \in 0..100
    BY <2>1
  <2>3. first[j] \in Record
    BY <1>0 DEF TypeOK
  <2> DEFINE r == [first[j] EXCEPT !.pct = Percent(j)]
  <2>4. r \in Record
    BY <2>2, <2>3 DEF Record
  <2>5. first' = [first EXCEPT ![j] = r]
    BY <1>9 DEF UpdaterMoves
  <2> HIDE DEF r
  <2>6. first' \in [Jobs -> Record]
    BY <1>0, <2>4, <2>5 DEF TypeOK
  <2> QED BY <1>0, <1>9, <2>6 DEF TypeOK, UpdaterMoves, client
<1>10. ASSUME NEW j \in Jobs, UpdaterStops(j) PROVE TypeOK'
  BY <1>0, <1>10 DEF TypeOK, UpdaterStops, client
<1>11. ASSUME NEW j \in Jobs, UpdaterWakes(j) PROVE TypeOK'
  BY <1>0, <1>11 DEF TypeOK, UpdaterWakes, client
<1>12. ASSUME NEW j \in Jobs, PollLooksUp(j) PROVE TypeOK'
  <2>1. table[j] # "absent" => table[j] \in {"none", "first", "last"}
    BY <1>0 DEF TypeOK
  <2>2. CASE table[j] = "absent"
    BY <1>0, <1>12, <2>2 DEF TypeOK, PollLooksUp, threads
  <2>3. CASE table[j] # "absent"
    BY <1>0, <1>12, <2>1, <2>3 DEF TypeOK, PollLooksUp, threads
  <2> QED BY <2>2, <2>3
<1>13. ASSUME NEW j \in Jobs, PollAnswers(j) PROVE TypeOK'
  BY <1>0, <1>13 DEF TypeOK, PollAnswers, threads, Dictionary
<1>14. CASE Tick
  BY <1>0, <1>14 DEF TypeOK, Tick, threads, client
<1>15. CASE Restart
  BY <1>0, <1>15 DEF TypeOK, Restart
<1>16. CASE UNCHANGED vars
  BY <1>0, <1>16 DEF TypeOK, vars, threads, client
<1> QED
  BY <1>1, <1>2, <1>3, <1>4, <1>5, <1>6, <1>7, <1>8, <1>9, <1>10, <1>11, <1>12, <1>13,
     <1>14, <1>15, <1>16
  DEF Next, StarterStep, UpdaterStep, PollStep

\* The percentage of a record is a number.
LEMMA RecordShape == ASSUME NEW r \in Record PROVE r.pct \in Int
<1>1. r.pct \in 0..100
  BY DEF Record
<1>2. \A x \in 0..100 : x \in Int
  OBVIOUS
<1> QED BY <1>1, <1>2, Zenon

\* The dictionaries keep track: a progress update changes the percentage of its
\* own job's dictionary, and never to a smaller one.
LEMMA MovesForward ==
  ASSUME IInv, NEW j \in Jobs, UpdaterMoves(j), NEW k \in Jobs
  PROVE  /\ first'[k].status = first[k].status /\ first'[k].report = first[k].report
         /\ first'[k].pct = IF k = j THEN Percent(j) ELSE first[k].pct
         /\ first[k].pct \in Int /\ first[k].pct <= first'[k].pct
         /\ first'[k].pct \in Int /\ Percent(j) \in 10..95
         /\ Percent(j) = PercentAfter(now - since[j], Total[j])
<1>1. TypeOK /\ since[j] <= now /\ updater[j] = "awake" /\ Lags(j)
  BY DEF IInv, JobInv, Lags, UpdaterMoves
<1>2. Percent(j) \in 10..95 /\ Percent(j) = PercentAfter(now - since[j], Total[j])
  BY <1>1, PercentBounds
<1>3. first \in [Jobs -> Record] /\ first[k] \in Record /\ first[j] \in Record
  BY <1>1 DEF TypeOK
<1>4. first[k].pct \in Int /\ first[j].pct \in Int
  BY <1>3, RecordShape
<1>5. first' = [first EXCEPT ![j].pct = Percent(j)]
  BY DEF UpdaterMoves
<1>6. first[j].pct <= Percent(j)
  BY <1>1, <1>2 DEF Lags
<1>7. first'[k] = IF k = j THEN [first[j] EXCEPT !.pct = Percent(j)] ELSE first[k]
  BY <1>3, <1>5
<1>8. CASE k = j
  <2>1. first'[k] = [first[k] EXCEPT !.pct = Percent(j)]
    BY <1>7, <1>8
  <2>2. /\ first'[k].status = first[k].status /\ first'[k].report = first[k].report
        /\ first'[k].pct = Percent(j)
    BY <1>3, <2>1 DEF Record
  <2> QED BY <1>2, <1>4, <1>6, <1>8, <2>2
<1>9. CASE k # j
  <2>1. first'[k] = first[k]
    BY <1>7, <1>9
  <2> QED BY <1>2, <1>4, <1>9, <2>1
<1> QED BY <1>8, <1>9

\* The dictionaries keep what their maker wrote, except for the percentage.
LEMMA ShapesKept == IInv /\ [Next]_vars => \A k \in Jobs : Shapes(k)'
<1> SUFFICES ASSUME IInv, [Next]_vars, NEW k \in Jobs PROVE Shapes(k)'
  OBVIOUS
<1> USE ServerShape, Literals
<1>0. TypeOK /\ JobInv(k)
  BY DEF IInv
<1>1. ASSUME NEW j \in Jobs, Refuse(j) PROVE Shapes(k)'
  BY <1>0, <1>1 DEF TypeOK, JobInv, Refuse, client, Shapes, Complete, Error, Record
<1>2. ASSUME NEW j \in Jobs, Insert(j) PROVE Shapes(k)'
  BY <1>0, <1>2 DEF TypeOK, JobInv, Insert, client, Shapes, Fresh, Complete, Error, Record
<1>3. ASSUME NEW j \in Jobs, StartWorker(j) PROVE Shapes(k)'
  BY <1>0, <1>3 DEF TypeOK, JobInv, StartWorker, client, Shapes, Complete, Error, Record
<1>4. ASSUME NEW j \in Jobs, StartUpdater(j) PROVE Shapes(k)'
  BY <1>0, <1>4 DEF TypeOK, JobInv, StartUpdater, client, Shapes, Complete, Error, Record
<1>5. ASSUME NEW j \in Jobs, StarterRaises(j) PROVE Shapes(k)'
  BY <1>0, <1>5 DEF TypeOK, JobInv, StarterRaises, client, Shapes, Complete, Error, Record
<1>6. ASSUME NEW j \in Jobs, ReturnId(j) PROVE Shapes(k)'
  BY <1>0, <1>6 DEF TypeOK, JobInv, ReturnId, client, Shapes, Complete, Error, Record
<1>7. ASSUME NEW j \in Jobs, WorkerEnds(j) PROVE Shapes(k)'
  BY <1>0, <1>7 DEF TypeOK, JobInv, WorkerEnds, client, Shapes, Complete, Error, Record
<1>8. ASSUME NEW j \in Jobs, UpdaterBegins(j) PROVE Shapes(k)'
  BY <1>0, <1>8 DEF TypeOK, JobInv, UpdaterBegins, client, Shapes, Complete, Error, Record
<1>9. ASSUME NEW j \in Jobs, UpdaterMoves(j) PROVE Shapes(k)'
  <2>1. /\ first'[k].status = first[k].status /\ first'[k].report = first[k].report
        /\ first'[k].pct = IF k = j THEN Percent(j) ELSE first[k].pct
        /\ first[k].pct \in Int /\ first[k].pct <= first'[k].pct
        /\ first'[k].pct \in Int /\ Percent(j) \in 10..95
        /\ Percent(j) = PercentAfter(now - since[j], Total[j])
    BY <1>9, MovesForward
  <2>2. last' = last
    BY <1>9 DEF UpdaterMoves
  <2>3. first'[k].pct <= 95
    <3>1. CASE k = j
      <4>1. first'[k].pct = Percent(j)
        BY <2>1, <3>1
      <4>2. \A x \in 10..95 : x <= 95
        OBVIOUS
      <4>3. Percent(j) <= 95
        BY <2>1, <4>2, Zenon
      <4> QED BY <4>1, <4>3
    <3>2. CASE k # j
      BY <1>0, <2>1, <3>2 DEF JobInv, Shapes
    <3> QED BY <3>1, <3>2
  <2> QED BY <1>0, <2>1, <2>2, <2>3 DEF JobInv, Shapes
<1>10. ASSUME NEW j \in Jobs, UpdaterStops(j) PROVE Shapes(k)'
  BY <1>0, <1>10 DEF TypeOK, JobInv, UpdaterStops, client, Shapes, Complete, Error, Record
<1>11. ASSUME NEW j \in Jobs, UpdaterWakes(j) PROVE Shapes(k)'
  BY <1>0, <1>11 DEF TypeOK, JobInv, UpdaterWakes, client, Shapes, Complete, Error, Record
<1>12. ASSUME NEW j \in Jobs, PollLooksUp(j) PROVE Shapes(k)'
  BY <1>0, <1>12 DEF TypeOK, JobInv, PollLooksUp, threads, Shapes, Complete, Error, Record
<1>13. ASSUME NEW j \in Jobs, PollAnswers(j) PROVE Shapes(k)'
  BY <1>0, <1>13 DEF TypeOK, JobInv, PollAnswers, threads, Shapes, Complete, Error, Record
<1>14. CASE Tick
  BY <1>0, <1>14 DEF TypeOK, JobInv, Tick, threads, client, Shapes, Complete, Error, Record
<1>15. CASE Restart
  BY <1>0, <1>15 DEF TypeOK, Restart, Shapes, Fresh, Complete, Error, Record
<1>16. CASE UNCHANGED vars
  BY <1>0, <1>16 DEF TypeOK, JobInv, threads, client, vars, Shapes, Complete, Error, Record
<1> QED
  BY <1>1, <1>2, <1>3, <1>4, <1>5, <1>6, <1>7, <1>8, <1>9, <1>10, <1>11, <1>12, <1>13,
     <1>14, <1>15, <1>16
  DEF Next, StarterStep, UpdaterStep, PollStep

\* The progress bar stays behind the clock.
LEMMA LagsKept == IInv /\ [Next]_vars => \A k \in Jobs : Lags(k)'
<1> SUFFICES ASSUME IInv, [Next]_vars, NEW k \in Jobs PROVE Lags(k)'
  OBVIOUS
<1> USE ServerShape, Literals
<1>0. TypeOK /\ JobInv(k)
  BY DEF IInv
<1>1. ASSUME NEW j \in Jobs, Refuse(j) PROVE Lags(k)'
  BY <1>0, <1>1 DEF TypeOK, JobInv, Refuse, client, Lags
<1>2. ASSUME NEW j \in Jobs, Insert(j) PROVE Lags(k)'
  BY <1>0, <1>2 DEF TypeOK, JobInv, Insert, client, Lags, Lives, Fresh
<1>3. ASSUME NEW j \in Jobs, StartWorker(j) PROVE Lags(k)'
  BY <1>0, <1>3 DEF TypeOK, JobInv, StartWorker, client, Lags
<1>4. ASSUME NEW j \in Jobs, StartUpdater(j) PROVE Lags(k)'
  BY <1>0, <1>4 DEF TypeOK, JobInv, StartUpdater, client, Lags, Lives
<1>5. ASSUME NEW j \in Jobs, StarterRaises(j) PROVE Lags(k)'
  BY <1>0, <1>5 DEF TypeOK, JobInv, StarterRaises, client, Lags
<1>6. ASSUME NEW j \in Jobs, ReturnId(j) PROVE Lags(k)'
  BY <1>0, <1>6 DEF TypeOK, JobInv, ReturnId, client, Lags
<1>7. ASSUME NEW j \in Jobs, WorkerEnds(j) PROVE Lags(k)'
  BY <1>0, <1>7 DEF TypeOK, JobInv, WorkerEnds, client, Lags
<1>8. ASSUME NEW j \in Jobs, UpdaterBegins(j) PROVE Lags(k)'
  <2>1. PercentAfter(now - now, Total[j]) \in 10..95
    <3>1. now \in Nat /\ Total[j] \in Nat \ {0}
      BY <1>0 DEF TypeOK
    <3>2. now - now \in Nat /\ now - now <= now - now
      BY <3>1
    <3> QED BY <3>1, <3>2, PercentGrows
  <2>2. CASE k = j
    <3>1. /\ now \in Nat /\ now' = now /\ first' = first /\ since'[j] = now
          /\ updater'[j] = "awake"
      BY <1>0, <1>8 DEF TypeOK, UpdaterBegins, client
    <3>2. first[j].pct = 5
      BY <1>0, <1>8, <2>2 DEF JobInv, Lags, UpdaterBegins
    <3>3. /\ since'[k] <= now' /\ updater'[k] \notin {"none", "starting"}
          /\ first'[k].pct = 5 /\ now' - since'[k] = now - now
      BY <2>2, <3>1, <3>2
    <3>4. 5 <= PercentAfter(now' - since'[k], Total[k])
      <4>1. PercentAfter(now' - since'[k], Total[k]) = PercentAfter(now - now, Total[j])
        BY <2>2, <3>3
      <4> DEFINE p == PercentAfter(now - now, Total[j])
      <4>2. p \in 10..95
        BY <2>1
      <4> HIDE DEF p
      <4>3. 5 <= p
        BY <4>2
      <4> QED BY <4>1, <4>3 DEF p
    <3> QED BY <3>3, <3>4 DEF Lags
  <2>3. CASE k # j
    BY <1>0, <1>8, <2>3 DEF TypeOK, JobInv, UpdaterBegins, client, Lags
  <2> QED BY <2>2, <2>3
<1>9. ASSUME NEW j \in Jobs, UpdaterMoves(j) PROVE Lags(k)'
  <2>1. /\ first'[k].status = first[k].status /\ first'[k].report = first[k].report
        /\ first'[k].pct = IF k = j THEN Percent(j) ELSE first[k].pct
        /\ first[k].pct \in Int /\ first[k].pct <= first'[k].pct
        /\ first'[k].pct \in Int /\ Percent(j) \in 10..95
        /\ Percent(j) = PercentAfter(now - since[j], Total[j])
    BY <1>9, MovesForward
  <2>3. CASE k = j
    <3>1. /\ since' = since /\ now' = now /\ updater'[j] = "asleep"
      BY <1>0, <1>9 DEF TypeOK, UpdaterMoves, client
    <3>2. now \in Nat /\ since[j] \in Nat /\ since[j] <= now
      BY <1>0, <2>3 DEF TypeOK, JobInv, Lags
    <3>3. /\ since'[k] <= now' /\ updater'[k] \notin {"none", "starting"}
          /\ PercentAfter(now' - since'[k], Total[k]) = Percent(j)
      BY <2>1, <2>3, <3>1, <3>2
    <3>4. first'[k].pct <= Percent(j)
      <4>1. first'[k].pct = Percent(j)
        BY <2>1, <2>3
      <4> QED BY <2>1, <4>1
    <3> QED BY <3>3, <3>4 DEF Lags
  <2>4. CASE k # j
    BY <1>0, <1>9, <2>1, <2>4 DEF TypeOK, JobInv, UpdaterMoves, client, Lags
  <2> QED BY <2>3, <2>4
<1>10. ASSUME NEW j \in Jobs, UpdaterStops(j) PROVE Lags(k)'
  BY <1>0, <1>10 DEF TypeOK, JobInv, UpdaterStops, client, Lags
<1>11. ASSUME NEW j \in Jobs, UpdaterWakes(j) PROVE Lags(k)'
  BY <1>0, <1>11 DEF TypeOK, JobInv, UpdaterWakes, client, Lags
<1>12. ASSUME NEW j \in Jobs, PollLooksUp(j) PROVE Lags(k)'
  BY <1>0, <1>12 DEF TypeOK, JobInv, PollLooksUp, threads, Lags
<1>13. ASSUME NEW j \in Jobs, PollAnswers(j) PROVE Lags(k)'
  BY <1>0, <1>13 DEF TypeOK, JobInv, PollAnswers, threads, Lags
<1>14. CASE Tick
  <2> DEFINE a == now - since[k]
             b == now' - since[k]
  <2>1. now \in Nat /\ now' \in Nat /\ since[k] \in Nat /\ Total[k] \in Nat \ {0}
    BY <1>0, <1>14 DEF TypeOK, Tick
  <2>2. since[k] <= now /\ now < now'
    BY <1>0, <1>14, <2>1 DEF JobInv, Lags, Tick
  <2>3. a \in Nat /\ b \in Nat /\ a <= b
    BY <2>1, <2>2
  <2> HIDE DEF a, b
  <2>4. /\ PercentAfter(a, Total[k]) <= PercentAfter(b, Total[k])
        /\ PercentAfter(a, Total[k]) \in 10..95 /\ PercentAfter(b, Total[k]) \in 10..95
    BY <2>1, <2>3, PercentGrows
  <2>5. first[k].pct \in Int
    <3>1. first[k] \in Record
      BY <1>0 DEF TypeOK
    <3> QED BY <3>1, RecordShape
  <2>6. /\ updater' = updater /\ first' = first /\ since' = since
    BY <1>14 DEF Tick, threads
  <2>7. updater[k] \in {"awake", "asleep"} => first[k].pct <= PercentAfter(b, Total[k])
    <3>1. updater[k] \in {"awake", "asleep"} => first[k].pct <= PercentAfter(a, Total[k])
      BY <1>0 DEF JobInv, Lags, a
    <3> DEFINE p == PercentAfter(a, Total[k])
               q == PercentAfter(b, Total[k])
    <3>2. p \in 10..95 /\ q \in 10..95 /\ p <= q
      BY <2>4
    <3>3. updater[k] \in {"awake", "asleep"} => first[k].pct <= p
      BY <3>1
    <3> HIDE DEF p, q
    <3>4. p \in Int /\ q \in Int
      BY <3>2
    <3>5. updater[k] \in {"awake", "asleep"} => first[k].pct <= q
      BY <2>5, <3>2, <3>3, <3>4
    <3> QED BY <3>5 DEF q
  <2> QED BY <1>0, <2>1, <2>2, <2>6, <2>7 DEF JobInv, Lags, b
<1>15. CASE Restart
  BY <1>0, <1>15 DEF TypeOK, Restart, Lags, Fresh
<1>16. CASE UNCHANGED vars
  BY <1>0, <1>16 DEF TypeOK, JobInv, threads, client, vars, Lags
<1> QED
  BY <1>1, <1>2, <1>3, <1>4, <1>5, <1>6, <1>7, <1>8, <1>9, <1>10, <1>11, <1>12, <1>13,
     <1>14, <1>15, <1>16
  DEF Next, StarterStep, UpdaterStep, PollStep

\* The table follows the handler and the thread of the run.
LEMMA LivesKept == IInv /\ [Next]_vars => \A k \in Jobs : Lives(k)'
<1> SUFFICES ASSUME IInv, [Next]_vars, NEW k \in Jobs PROVE Lives(k)'
  OBVIOUS
<1> USE ServerShape, Literals
<1>0. TypeOK /\ JobInv(k)
  BY DEF IInv
<1>1. ASSUME NEW j \in Jobs, Refuse(j) PROVE Lives(k)'
  BY <1>0, <1>1 DEF TypeOK, JobInv, Refuse, client, Lives
<1>2. ASSUME NEW j \in Jobs, Insert(j) PROVE Lives(k)'
  BY <1>0, <1>2 DEF TypeOK, JobInv, Insert, client, Lives
<1>3. ASSUME NEW j \in Jobs, StartWorker(j) PROVE Lives(k)'
  BY <1>0, <1>3 DEF TypeOK, JobInv, StartWorker, client, Lives
<1>4. ASSUME NEW j \in Jobs, StartUpdater(j) PROVE Lives(k)'
  BY <1>0, <1>4 DEF TypeOK, JobInv, StartUpdater, client, Lives
<1>5. ASSUME NEW j \in Jobs, StarterRaises(j) PROVE Lives(k)'
  BY <1>0, <1>5 DEF TypeOK, JobInv, StarterRaises, client, Lives
<1>6. ASSUME NEW j \in Jobs, ReturnId(j) PROVE Lives(k)'
  BY <1>0, <1>6 DEF TypeOK, JobInv, ReturnId, client, Lives
<1>7. ASSUME NEW j \in Jobs, WorkerEnds(j) PROVE Lives(k)'
  BY <1>0, <1>7 DEF TypeOK, JobInv, WorkerEnds, client, Lives
<1>8. ASSUME NEW j \in Jobs, UpdaterBegins(j) PROVE Lives(k)'
  BY <1>0, <1>8 DEF TypeOK, JobInv, UpdaterBegins, client, Lives
<1>9. ASSUME NEW j \in Jobs, UpdaterMoves(j) PROVE Lives(k)'
  BY <1>0, <1>9 DEF TypeOK, JobInv, UpdaterMoves, client, Lives, Status
<1>10. ASSUME NEW j \in Jobs, UpdaterStops(j) PROVE Lives(k)'
  BY <1>0, <1>10 DEF TypeOK, JobInv, UpdaterStops, client, Lives
<1>11. ASSUME NEW j \in Jobs, UpdaterWakes(j) PROVE Lives(k)'
  BY <1>0, <1>11 DEF TypeOK, JobInv, UpdaterWakes, client, Lives
<1>12. ASSUME NEW j \in Jobs, PollLooksUp(j) PROVE Lives(k)'
  BY <1>0, <1>12 DEF TypeOK, JobInv, PollLooksUp, threads, Lives
<1>13. ASSUME NEW j \in Jobs, PollAnswers(j) PROVE Lives(k)'
  BY <1>0, <1>13 DEF TypeOK, JobInv, PollAnswers, threads, Lives
<1>14. CASE Tick
  BY <1>0, <1>14 DEF TypeOK, JobInv, Tick, threads, client, Lives
<1>15. CASE Restart
  BY <1>0, <1>15 DEF TypeOK, Restart, Lives
<1>16. CASE UNCHANGED vars
  BY <1>0, <1>16 DEF TypeOK, JobInv, threads, client, vars, Lives
<1> QED
  BY <1>1, <1>2, <1>3, <1>4, <1>5, <1>6, <1>7, <1>8, <1>9, <1>10, <1>11, <1>12, <1>13,
     <1>14, <1>15, <1>16
  DEF Next, StarterStep, UpdaterStep, PollStep

\* What a client was shown stays true of its job.
LEMMA ShownKept == IInv /\ [Next]_vars => \A k \in Jobs : Shown(k)'
<1> SUFFICES ASSUME IInv, [Next]_vars, NEW k \in Jobs PROVE Shown(k)'
  OBVIOUS
<1> USE ServerShape, Literals
<1>0. TypeOK /\ JobInv(k)
  BY DEF IInv
<1>1. ASSUME NEW j \in Jobs, Refuse(j) PROVE Shown(k)'
  BY <1>0, <1>1 DEF TypeOK, JobInv, Refuse, client, Shown, Lives, Nothing, NotFound
<1>2. ASSUME NEW j \in Jobs, Insert(j) PROVE Shown(k)'
  BY <1>0, <1>2 DEF TypeOK, JobInv, Insert, client, Shown, Lives, Nothing, NotFound
<1>3. ASSUME NEW j \in Jobs, StartWorker(j) PROVE Shown(k)'
  BY <1>0, <1>3 DEF TypeOK, JobInv, StartWorker, client, Shown, Lives, Nothing, NotFound
<1>4. ASSUME NEW j \in Jobs, StartUpdater(j) PROVE Shown(k)'
  BY <1>0, <1>4 DEF TypeOK, JobInv, StartUpdater, client, Shown, Lives, Nothing, NotFound
<1>5. ASSUME NEW j \in Jobs, StarterRaises(j) PROVE Shown(k)'
  BY <1>0, <1>5 DEF TypeOK, JobInv, StarterRaises, client, Shown, Lives, Nothing, NotFound
<1>6. ASSUME NEW j \in Jobs, ReturnId(j) PROVE Shown(k)'
  BY <1>0, <1>6 DEF TypeOK, JobInv, ReturnId, client, Shown, Lives, Nothing, NotFound
<1>7. ASSUME NEW j \in Jobs, WorkerEnds(j) PROVE Shown(k)'
  BY <1>0, <1>7 DEF TypeOK, JobInv, WorkerEnds, client, Shown, Lives, Nothing, NotFound
<1>8. ASSUME NEW j \in Jobs, UpdaterBegins(j) PROVE Shown(k)'
  BY <1>0, <1>8 DEF TypeOK, JobInv, UpdaterBegins, client, Shown, Lives, Nothing, NotFound
<1>9. ASSUME NEW j \in Jobs, UpdaterMoves(j) PROVE Shown(k)'
  <2>1. /\ first'[k].status = first[k].status /\ first'[k].report = first[k].report
        /\ first'[k].pct = IF k = j THEN Percent(j) ELSE first[k].pct
        /\ first[k].pct \in Int /\ first[k].pct <= first'[k].pct
        /\ first'[k].pct \in Int /\ Percent(j) \in 10..95
        /\ Percent(j) = PercentAfter(now - since[j], Total[j])
    BY <1>9, MovesForward
  <2>2. /\ seen' = seen /\ poll' = poll /\ starter' = starter /\ table' = table /\ last' = last
    BY <1>9 DEF UpdaterMoves, client
  <2>3. first'[k].pct \in Int
    BY <2>1
  <2>4. seen[k] \in Record => seen[k].pct \in Int
    BY RecordShape
  <2> QED BY <1>0, <2>1, <2>2, <2>3, <2>4 DEF JobInv, Shown
<1>10. ASSUME NEW j \in Jobs, UpdaterStops(j) PROVE Shown(k)'
  BY <1>0, <1>10 DEF TypeOK, JobInv, UpdaterStops, client, Shown, Lives, Nothing, NotFound
<1>11. ASSUME NEW j \in Jobs, UpdaterWakes(j) PROVE Shown(k)'
  BY <1>0, <1>11 DEF TypeOK, JobInv, UpdaterWakes, client, Shown, Lives, Nothing, NotFound
<1>12. ASSUME NEW j \in Jobs, PollLooksUp(j) PROVE Shown(k)'
  <2>1. /\ UNCHANGED <<table, first, last, starter>>
        /\ starter[j] \in {"told", "lost"} /\ poll[j] = "none"
    BY <1>12 DEF PollLooksUp, threads
  <2>2. CASE k # j
    <3>1. seen'[k] = seen[k] /\ poll'[k] = poll[k]
      BY <1>0, <1>12, <2>2 DEF TypeOK, PollLooksUp
    <3> QED BY <1>0, <2>1, <3>1 DEF JobInv, Shown
  <2>3. CASE k = j /\ table[j] = "absent"
    <3>1. seen'[k] = NotFound
      BY <1>0, <1>12, <2>3 DEF TypeOK, PollLooksUp
    <3>2. starter[k] = "lost"
      BY <1>0, <2>1, <2>3 DEF JobInv, Lives
    <3> QED BY <2>1, <3>1, <3>2 DEF Shown
  <2>4. CASE k = j /\ table[j] # "absent"
    <3>1. seen' = seen /\ poll'[k] = table[k]
      BY <1>0, <1>12, <2>4 DEF TypeOK, PollLooksUp
    <3> QED BY <1>0, <2>1, <2>4, <3>1 DEF JobInv, Shown
  <2> QED BY <2>2, <2>3, <2>4
<1>13. ASSUME NEW j \in Jobs, PollAnswers(j) PROVE Shown(k)'
  <2>1. /\ UNCHANGED <<table, first, last, starter>> /\ poll[j] # "none"
    BY <1>13 DEF PollAnswers, threads
  <2>2. CASE k # j
    <3>1. seen'[k] = seen[k] /\ poll'[k] = poll[k]
      BY <1>0, <1>13, <2>2 DEF TypeOK, PollAnswers
    <3> QED BY <1>0, <2>1, <3>1 DEF JobInv, Shown
  <2>3. CASE k = j /\ poll[j] = "first"
    <3>1. seen'[k] = first[k] /\ first[k] \in Record
      BY <1>0, <1>13, <2>3 DEF TypeOK, PollAnswers, Dictionary
    <3>2. /\ first[k].pct \in Int /\ starter[k] = "told"
      BY <1>0, <2>1, <2>3, <3>1, RecordShape DEF JobInv, Lives
    <3> QED BY <1>0, <2>1, <3>1, <3>2 DEF JobInv, Shapes, Shown
  <2>4. CASE k = j /\ poll[j] = "last"
    <3>1. seen'[k] = last[k] /\ poll'[k] = "none"
      BY <1>0, <1>13, <2>4 DEF TypeOK, PollAnswers, Dictionary
    <3>2. starter[k] = "told" /\ table[k] = "last" /\ last[k] \in {Complete, Error}
      BY <1>0, <2>4 DEF JobInv, Lives, Shapes
    <3> QED BY <2>1, <3>1, <3>2 DEF Shown
  <2>5. poll[j] \in {"none", "first", "last"}
    BY <1>0 DEF TypeOK
  <2> QED BY <2>1, <2>2, <2>3, <2>4, <2>5
<1>14. CASE Tick
  BY <1>0, <1>14 DEF TypeOK, JobInv, Tick, threads, client, Shown
<1>15. CASE Restart
  BY <1>0, <1>15 DEF TypeOK, JobInv, Restart, Shown
<1>16. CASE UNCHANGED vars
  BY <1>0, <1>16 DEF TypeOK, JobInv, threads, client, vars, Shown
<1> QED
  BY <1>1, <1>2, <1>3, <1>4, <1>5, <1>6, <1>7, <1>8, <1>9, <1>10, <1>11, <1>12, <1>13,
     <1>14, <1>15, <1>16
  DEF Next, StarterStep, UpdaterStep, PollStep

\* The invariant holds of every state a run of the server reaches.
LEMMA Invariance == Spec => []IInv
<1>1. Init => IInv
  <2> SUFFICES ASSUME Init PROVE IInv
    OBVIOUS
  <2> USE ServerShape, Literals
  <2>1. TypeOK
    BY DEF Init, TypeOK
  <2>2. ASSUME NEW j \in Jobs PROVE JobInv(j)
    <3>1. Fresh.pct = 5 /\ Fresh.status = "running" /\ Fresh.report = NoReport
      BY DEF Fresh
    <3>2. Shapes(j)
      BY <3>1 DEF Init, Shapes
    <3>3. Lags(j)
      BY <3>1 DEF Init, Lags
    <3>4. Lives(j) /\ Shown(j)
      BY DEF Init, Lives, Shown
    <3> QED BY <3>2, <3>3, <3>4 DEF JobInv
  <2> QED BY <2>1, <2>2 DEF IInv
<1>2. IInv /\ [Next]_vars => IInv'
  <2> SUFFICES ASSUME IInv, [Next]_vars PROVE IInv'
    OBVIOUS
  <2>1. TypeOK'
    BY TypeKept
  <2>2. ASSUME NEW j \in Jobs PROVE Shapes(j)' /\ Lags(j)' /\ Lives(j)' /\ Shown(j)'
    BY ShapesKept, LagsKept, LivesKept, ShownKept
  <2>3. ASSUME NEW j \in Jobs PROVE JobInv(j)'
    BY <2>2 DEF JobInv
  <2> QED BY <2>1, <2>3 DEF IInv
<1> QED BY <1>1, <1>2, PTL DEF Spec

-----------------------------------------------------------------------------

\* The records a client is shown are coherent: 0..100 percent, 100 exactly
\* when the run is over, a report exactly when it is complete, for every
\* interleaving of the thread of the run, the progress thread and the poll
\* that serialises its record outside the lock.
THEOREM PollsAreCoherent == Spec => []PollIsCoherent
<1>1. IInv => PollIsCoherent
  <2> SUFFICES ASSUME IInv, NEW j \in Jobs
               PROVE  /\ seen[j].pct \in 0..100
                      /\ (seen[j].pct = 100) <=> (seen[j].status \in Final)
                      /\ (seen[j].report # NoReport) <=> (seen[j].status = "complete")
    BY DEF PollIsCoherent
  <2>1. Shown(j)
    BY DEF IInv, JobInv
  <2>2. CASE seen[j] \in {Nothing, NotFound, Complete, Error}
    BY <2>2, ServerShape DEF Nothing, NotFound, Complete, Error, Final
  <2>3. CASE /\ seen[j] \in Record
             /\ seen[j].status = "running" /\ seen[j].report = NoReport /\ seen[j].pct <= 95
    <3>1. seen[j].pct \in 0..100
      BY <2>3 DEF Record
    <3>2. seen[j].pct \in Int
      BY <2>3, RecordShape
    <3>3. seen[j].pct # 100
      BY <2>3, <3>2
    <3> QED BY <2>3, <3>1, <3>3 DEF Final
  <2> QED BY <2>1, <2>2, <2>3 DEF Shown
<1> QED BY <1>1, Invariance, PTL

\* A record that says "running" has a thread that will end it, and only a
\* server that was restarted says not_found to a client that was given the id.
THEOREM RunningBacked == Spec => []RunningIsBacked
<1>1. IInv => RunningIsBacked
  <2> SUFFICES ASSUME IInv, NEW j \in Jobs
               PROVE  /\ starter[j] = "told" /\ Status(j) = "running" => worker[j] = "running"
                      /\ seen[j] = NotFound => starter[j] = "lost"
    BY DEF RunningIsBacked
  <2>1. TypeOK /\ Shapes(j) /\ Lives(j) /\ Shown(j)
    BY DEF IInv, JobInv
  <2>2. ASSUME starter[j] = "told", Status(j) = "running" PROVE worker[j] = "running"
    <3>1. worker[j] \in {"running", "ended"}
      BY <2>1, <2>2 DEF TypeOK, Lives
    <3>2. worker[j] = "ended" => Status(j) = last[j].status
      BY <2>1 DEF Lives, Status, Job, Dictionary
    <3>3. last[j].status # "running"
      BY <2>1 DEF Shapes, Complete, Error
    <3> QED BY <2>2, <3>1, <3>2, <3>3
  <2>3. ASSUME seen[j] = NotFound PROVE starter[j] = "lost"
    BY <2>1, <2>3, Literals DEF Shown, NotFound, Nothing, Complete, Error
  <2> QED BY <2>2, <2>3
<1> QED BY <1>1, Invariance, PTL

\* What a client is shown never goes backwards: a progress update that was
\* computed before another one was shown, or that comes after the end of the
\* run, does not reach the client.
THEOREM PollsForward == Spec => PollsGoForward
<1> DEFINE Forward(j) ==
      \/ seen'[j] = NotFound
      \/ /\ seen'[j].pct >= seen[j].pct
         /\ (seen[j].status \in Final) => seen'[j] = seen[j]
<1>1. ASSUME IInv, IInv', [Next]_vars, NEW k \in Jobs PROVE Forward(k)
  <2>0. /\ TypeOK /\ TypeOK' /\ Shapes(k) /\ Lives(k) /\ Shown(k) /\ Shown(k)'
    BY <1>1 DEF IInv, JobInv
  <2>1. seen[k].pct \in Int
    BY <2>0, RecordShape DEF Shown, Nothing, NotFound, Complete, Error
  <2>2. CASE seen'[k] = seen[k]
    BY <2>1, <2>2
  <2>3. ASSUME PollLooksUp(k) PROVE Forward(k)
    <3>1. seen'[k] = NotFound \/ seen'[k] = seen[k]
      BY <2>0, <2>3 DEF TypeOK, PollLooksUp
    <3> QED BY <2>1, <3>1
  <2>4. ASSUME PollAnswers(k), poll[k] = "first" PROVE Forward(k)
    <3>1. seen'[k] = first[k] /\ starter[k] = "told" /\ first[k] \in Record
      BY <2>0, <2>4 DEF TypeOK, PollAnswers, Dictionary, Lives
    <3>2. first[k].pct \in Int /\ first[k].pct >= 0
      <4>1. first[k].pct \in 0..100
        BY <3>1 DEF Record
      <4>2. \A x \in 0..100 : x \in Int /\ x >= 0
        OBVIOUS
      <4> QED BY <4>1, <4>2, Zenon
    <3>3. CASE seen[k] \in {Nothing, NotFound}
      BY <3>1, <3>2, <3>3 DEF Nothing, NotFound, Final
    <3>4. CASE seen[k].status = "running" /\ seen[k].pct <= first[k].pct
      BY <2>1, <3>1, <3>2, <3>4 DEF Final
    <3> QED BY <2>0, <2>4, <3>1, <3>3, <3>4 DEF Shown
  <2>5. ASSUME PollAnswers(k), poll[k] = "last" PROVE Forward(k)
    <3>1. /\ seen'[k] = last[k] /\ last[k] \in {Complete, Error}
          /\ starter[k] = "told"
      BY <2>0, <2>5 DEF TypeOK, PollAnswers, Dictionary, Lives, Shapes
    <3>2. last[k].pct = 100
      BY <3>1 DEF Complete, Error
    <3>3. CASE seen[k] \in {Complete, Error}
      BY <2>0, <2>1, <3>1, <3>3 DEF Shown, Complete, Error, Nothing, NotFound
    <3>4. CASE seen[k] \in {Nothing, NotFound}
      BY <3>1, <3>2, <3>4 DEF Nothing, NotFound, Final
    <3>5. CASE seen[k].status = "running" /\ seen[k].pct <= 95
      BY <2>1, <3>1, <3>2, <3>5 DEF Final
    <3> QED BY <2>0, <3>3, <3>4, <3>5 DEF Shown
  <2>6. seen'[k] = seen[k] \/ PollLooksUp(k) \/ PollAnswers(k)
    <3>1. ASSUME NEW j \in Jobs, j # k, PollLooksUp(j) \/ PollAnswers(j)
          PROVE  seen'[k] = seen[k]
      BY <2>0, <3>1 DEF TypeOK, PollLooksUp, PollAnswers
    <3> QED
      BY <1>1, <3>1
      DEF Next, StarterStep, UpdaterStep, PollStep, Refuse, Insert, StartWorker,
         StartUpdater, StarterRaises, ReturnId, WorkerEnds, UpdaterBegins, UpdaterMoves,
         UpdaterStops, UpdaterWakes, Tick, Restart, vars, client
  <2>7. poll[k] \in {"none", "first", "last"}
    BY <2>0 DEF TypeOK
  <2>8. PollAnswers(k) => poll[k] # "none"
    BY DEF PollAnswers
  <2> QED BY <2>2, <2>3, <2>4, <2>5, <2>6, <2>7, <2>8
<1>2. IInv /\ IInv' /\ [Next]_vars => [\A j \in Jobs : Forward(j)]_vars
  BY <1>1
<1>3. Spec => [][\A j \in Jobs : Forward(j)]_vars
  BY <1>2, Invariance, PTL DEF Spec
<1> QED BY <1>3 DEF PollsGoForward

\* What a job looks like from outside, by the dictionary in the table.
LEMMA Outside ==
  ASSUME TypeOK, NEW j \in Jobs, Shapes(j)
  PROVE  /\ table[j] = "absent" => Status(j) = "absent"
         /\ table[j] = "first" => Status(j) = "running" /\ Job(j).report = NoReport
         /\ table[j] = "last" => Status(j) = last[j].status /\ Job(j).report = last[j].report
         /\ last[j] = Complete \/ last[j] = Error
  BY DEF TypeOK, Shapes, Status, Job, Dictionary

\* A step other than a restart leaves the job of a client as it is, or enters
\* it in the table, or replaces its record at the end of the run.
LEMMA TableMoves ==
  ASSUME TypeOK, NEW j \in Jobs, Lives(j), Shapes(j), [Next]_vars, restarts' = restarts
  PROVE  \/ table'[j] = table[j] /\ (table[j] = "last" => last'[j] = last[j])
         \/ table[j] = "absent" /\ table'[j] = "first"
         \/ table[j] = "first" /\ table'[j] = "last"
<1> USE DEF TypeOK, Lives
<1>1. ASSUME NEW k \in Jobs, Insert(k)
      PROVE  \/ table'[j] = table[j] /\ last' = last
             \/ table[j] = "absent" /\ table'[j] = "first"
  <2>1. CASE j = k
    BY <1>1, <2>1 DEF Insert
  <2>2. CASE j # k
    BY <1>1, <2>2 DEF Insert
  <2> QED BY <2>1, <2>2
<1>2. ASSUME NEW k \in Jobs, WorkerEnds(k)
      PROVE  \/ table'[j] = table[j] /\ last'[j] = last[j]
             \/ table[j] = "first" /\ table'[j] = "last"
  <2>1. CASE j = k
    BY <1>2, <2>1 DEF WorkerEnds
  <2>2. CASE j # k
    BY <1>2, <2>2 DEF WorkerEnds
  <2> QED BY <2>1, <2>2
<1>3. \/ table' = table /\ last' = last
      \/ \E k \in Jobs : Insert(k) \/ WorkerEnds(k)
  <2>1. ~ Restart
    BY ServerShape DEF Restart
  <2> QED
    BY <2>1
    DEF Next, StarterStep, UpdaterStep, PollStep, Refuse, StartWorker, StartUpdater,
       StarterRaises, ReturnId, UpdaterBegins, UpdaterMoves, UpdaterStops, UpdaterWakes,
       PollLooksUp, PollAnswers, Tick, vars
<1> QED BY <1>1, <1>2, <1>3

\* Every job keeps the contract of a suite run: its step is a stutter, a
\* beginning or an end of it, as long as the server is not restarted.
THEOREM JobsKeepContract == Spec => KeepsContract
<1> DEFINE Kept(j) == Run(j)!AbsNext \/ UNCHANGED Run(j)!absVars
           Step == restarts' # restarts \/ \A j \in Jobs : Kept(j)
<1>1. Init => \A j \in Jobs : Run(j)!AbsInit
  BY DEF Init, Run!AbsInit, Status
<1>2. ASSUME IInv, IInv', [Next]_vars, restarts' = restarts, NEW j \in Jobs
      PROVE  Kept(j)
  <2>1. TypeOK /\ TypeOK' /\ Shapes(j) /\ Shapes(j)' /\ Lives(j) /\ Lives(j)'
    BY <1>2 DEF IInv, JobInv
  <2>2. /\ table[j] = "absent" => Status(j) = "absent"
        /\ table[j] = "first" => Status(j) = "running" /\ Job(j).report = NoReport
        /\ table[j] = "last" => Status(j) = last[j].status /\ Job(j).report = last[j].report
        /\ last[j] = Complete \/ last[j] = Error
    BY <2>1, Outside
  <2>3. /\ table'[j] = "absent" => Status(j)' = "absent"
        /\ table'[j] = "first" => Status(j)' = "running" /\ Job(j)'.report = NoReport
        /\ table'[j] = "last" =>
             Status(j)' = last'[j].status /\ Job(j)'.report = last'[j].report
        /\ last'[j] = Complete \/ last'[j] = Error
    BY <2>1 DEF TypeOK, Shapes, Status, Job, Dictionary
  <2>4. \/ table'[j] = table[j] /\ (table[j] = "last" => last'[j] = last[j])
        \/ table[j] = "absent" /\ table'[j] = "first"
        \/ table[j] = "first" /\ table'[j] = "last"
    BY <1>2, <2>1, TableMoves
  <2>5. table[j] \in {"absent", "first", "last"}
    BY <2>1 DEF TypeOK
  <2>6. CASE table'[j] = table[j] /\ (table[j] = "last" => last'[j] = last[j])
    BY <2>2, <2>3, <2>5, <2>6 DEF Run!absVars
  <2>7. CASE table[j] = "absent" /\ table'[j] = "first"
    BY <2>2, <2>3, <2>7 DEF Run!AbsNext, Run!Begin
  <2>8. CASE table[j] = "first" /\ table'[j] = "last"
    <3>1. CASE last'[j] = Complete
      <4>1. last'[j].report \in Run(j)!Report
        BY <3>1 DEF Complete, Run!Report
      <4> QED BY <2>2, <2>3, <2>8, <3>1, <4>1 DEF Run!AbsNext, Run!Complete, Complete
    <3>2. CASE last'[j] = Error
      BY <2>2, <2>3, <2>8, <3>2 DEF Run!AbsNext, Run!Abort, Error
    <3> QED BY <2>3, <3>1, <3>2
  <2> QED BY <2>4, <2>6, <2>7, <2>8
<1>3. IInv /\ IInv' /\ [Next]_vars => [Step]_vars
  BY <1>2
<1>4. Spec => (\A j \in Jobs : Run(j)!AbsInit) /\ [][Step]_vars
  BY <1>1, <1>3, Invariance, PTL DEF Spec
<1> QED BY <1>4, PTL DEF KeepsContract

=============================================================================
