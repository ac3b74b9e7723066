--------------------------- MODULE CollectorProofs ---------------------------
(***************************************************************************)
(* Collector for any pods and any durations: the type invariant, whole     *)
(* transactions, nothing stored that is not shown, the age of the last     *)
(* stamp, and the promise to those who see the results.                    *)
(*                                                                         *)
(* StampsInTime says nothing of `left', so it is not inductive: InTime     *)
(* adds how old lastCollectTime can be at each place of the cycle, given   *)
(* the ticks the collector may still spend there.                          *)
(*                                                                         *)
(* The two deadlines of CollectorDeadlines follow in the second half: each *)
(* place of the cycle bounds the stopwatch together with the ticks left.   *)
(***************************************************************************)
EXTENDS CollectorDeadlines, TLAPS

Listing == pc \in Sources
Storing == pc \in {"begin", "insert", "commit"}
Ending  == pc \in {"publish", "stamp"}

\* The age of lastCollectTime, place by place.
InTime ==
  /\ pc = "sleep" => age + left <= Pause
  /\ Listing => age + left <= Pause + ListTicks
  /\ Storing => age + left <= Pause + ListTicks + DbTicks
  /\ Ending \/ pc = "stopped" => age + left <= Pause + CycleTicks

\* A transaction that can still commit at its end holds every pod.
WholeAtCommit == pc = "commit" /\ txOk => rows = Pods

\* What is committed is among the rows that will be published, and nothing is
\* committed before the COMMIT.
SavedAmongRows ==
  /\ saved \subseteq rows
  /\ Listing \/ Storing => saved = {}

StorageInv == WholeAtCommit /\ SavedIsWhole /\ SavedAmongRows /\ SavedIsShown

\* The next backoff stays within its bounds and is the base one after a clean cycle.
LEMMA BackoffBounds ==
  ASSUME backoff \in BaseBackoff..MaxBackoff, NEW hadError \in BOOLEAN
  PROVE  /\ NextBackoff(hadError) \in BaseBackoff..MaxBackoff
         /\ ~hadError => NextBackoff(hadError) = BaseBackoff
  BY CollectorAssumption DEF NextBackoff

\* The durations as the proofs use them.
LEMMA Durations ==
  /\ ListTicks \in Nat /\ RetryTicks \in Nat /\ DbTicks \in Nat /\ WorkTicks \in Nat
  /\ TailTicks \in Nat /\ CycleTicks \in Nat /\ RecoveryTicks \in Nat
  /\ ListTicks > 0 /\ DbTicks > 0 /\ BaseBackoff > 0
  /\ BaseBackoff \in Nat /\ MaxBackoff \in Nat /\ BaseBackoff <= MaxBackoff
  /\ RetryTicks <= TailTicks /\ DbTicks <= TailTicks
  /\ ListTicks <= CycleTicks /\ ListTicks + DbTicks + WorkTicks <= CycleTicks
  /\ ListTicks + RetryTicks + WorkTicks <= CycleTicks
  /\ CycleTicks = ListTicks + TailTicks + WorkTicks
  /\ RecoveryTicks = CycleTicks + MaxBackoff + CycleTicks
BY CollectorAssumption, DeadlineAssumption DEF TailTicks, CycleTicks, RecoveryTicks

\* TypeOK is inductive on its own.
LEMMA TypeOKStep == TypeOK /\ [Next]_vars => TypeOK'
<1> SUFFICES ASSUME TypeOK, [Next]_vars
             PROVE  TypeOK'
  OBVIOUS
<1> USE DEF TypeOK, Sources, Never
<1>1. ASSUME ListNodes \/ ListPods
      PROVE  TypeOK'
  BY <1>1 DEF ListNodes, ListPods, List, shown
<1>2. CASE ListMetrics
  <2>1. left' \in Nat
    BY <1>2, CollectorAssumption DEF ListMetrics
  <2>2. UNCHANGED <<txOk, lastClean, cancelled>>
    BY <1>2 DEF ListMetrics
  <2>3. QED
    BY <1>2, <2>1, <2>2 DEF ListMetrics, shown
<1>3. CASE BeginTx
  <2>1. txOk' \in BOOLEAN
    BY <1>3 DEF BeginTx
  <2>2. left' \in Nat
    BY <1>3, CollectorAssumption DEF BeginTx
  <2>3. QED
    BY <1>3, <2>1, <2>2 DEF BeginTx, shown
<1>4. CASE Insert
  <2>1. txOk' \in BOOLEAN /\ rows' \subseteq Pods
    BY <1>4 DEF Insert, AfterFailedInsert
  <2>2. QED
    BY <1>4, <2>1 DEF Insert, shown
<1>5. CASE Commit
  <2>1. txOk' \in BOOLEAN /\ rows' \subseteq Pods /\ saved' \subseteq Pods
    BY <1>5 DEF Commit, KeptAfterCommitError
  <2>2. left' \in Nat
    BY <1>5, CollectorAssumption DEF Commit
  <2>3. QED
    BY <1>5, <2>1, <2>2 DEF Commit, shown
<1>6. CASE Publish
  BY <1>6 DEF Publish, cycle
<1>7. CASE Stamp
  <2>1. backoff' \in BaseBackoff..MaxBackoff /\ left' \in Nat
    <3>1. NextBackoff(got # Sources) \in BaseBackoff..MaxBackoff
      BY CollectorAssumption DEF NextBackoff
    <3>2. QED
      BY <1>7, <3>1, CollectorAssumption DEF Stamp
  <2>2. age' \in Nat \cup {Never}
    BY <1>7 DEF Stamp
  <2>3. lastClean' \in BOOLEAN
    BY <1>7 DEF Stamp
  <2>4. QED
    BY <1>7, <2>1, <2>2, <2>3 DEF Stamp, cycle
<1>8. CASE Wake
  <2>1. txOk' \in BOOLEAN
    BY <1>8 DEF Wake
  <2>2. QED
    BY <1>8, <2>1, CollectorAssumption DEF Wake, shown
<1>9. CASE Stop
  BY <1>9 DEF Stop, cycle, shown
<1>10. CASE Cancel
  BY <1>10 DEF Cancel, cycle, shown
<1>11. CASE Flip
  BY <1>11 DEF Flip, cycle, shown
<1>12. CASE Tick
  <2>1. left' \in Nat /\ age' \in Nat \cup {Never}
    BY <1>12, CollectorAssumption DEF Tick
  <2>2. QED
    BY <1>12, <2>1 DEF Tick, cycle
<1>13. CASE UNCHANGED vars
  BY <1>13 DEF vars
<1>14. QED
  BY <1>1, <1>2, <1>3, <1>4, <1>5, <1>6, <1>7, <1>8, <1>9, <1>10, <1>11, <1>12, <1>13
     DEF Next, Work

\* The storage part is inductive given TypeOK: only an unbroken transaction commits,
\* it holds every pod by then, and a failed COMMIT keeps the rows.
LEMMA StorageStep == TypeOK /\ StorageInv /\ [Next]_vars => StorageInv'
<1> SUFFICES ASSUME TypeOK, StorageInv, [Next]_vars
             PROVE  StorageInv'
  OBVIOUS
<1> USE DEF StorageInv, WholeAtCommit, SavedIsWhole, SavedAmongRows, SavedIsShown,
            Listing, Storing, Sources
<1>1. ASSUME ListNodes \/ ListPods
      PROVE  StorageInv'
  BY <1>1 DEF ListNodes, ListPods, List, shown
<1>2. CASE ListMetrics
  BY <1>2 DEF ListMetrics, shown
<1>3. CASE BeginTx
  BY <1>3 DEF BeginTx, shown
<1>4. CASE Insert
  BY <1>4 DEF Insert, AfterFailedInsert, shown
<1>5. CASE Commit
  BY <1>5 DEF Commit, KeptAfterCommitError, shown
<1>6. CASE Publish
  BY <1>6 DEF Publish, cycle
<1>7. CASE Stamp
  BY <1>7 DEF Stamp, cycle
<1>8. CASE Wake
  BY <1>8 DEF Wake, shown
<1>9. CASE Stop
  BY <1>9 DEF Stop, cycle, shown
<1>10. CASE Cancel
  BY <1>10 DEF Cancel, cycle, shown
<1>11. CASE Flip
  BY <1>11 DEF Flip, cycle, shown
<1>12. CASE Tick
  BY <1>12 DEF Tick, cycle
<1>13. CASE UNCHANGED vars
  BY <1>13 DEF vars
<1>14. QED
  BY <1>1, <1>2, <1>3, <1>4, <1>5, <1>6, <1>7, <1>8, <1>9, <1>10, <1>11, <1>12, <1>13
     DEF Next, Work

\* InTime is inductive given TypeOK: a tick moves one unit from `left' to age, and a
\* step to the next place grants no more than its deadline.
LEMMA InTimeStep == TypeOK /\ InTime /\ [Next]_vars => InTime'
<1> SUFFICES ASSUME TypeOK, InTime, [Next]_vars
             PROVE  InTime'
  OBVIOUS
<1>0. Pause \in Nat /\ (UNCHANGED lastClean => UNCHANGED Pause)
  BY Durations DEF Pause
<1> USE <1>0, Durations
        DEF InTime, Listing, Storing, Ending, Sources, TypeOK, Never
<1>1. ASSUME ListNodes \/ ListPods
      PROVE  InTime'
  BY <1>1 DEF ListNodes, ListPods, List, shown
<1>2. CASE ListMetrics
  BY <1>2 DEF ListMetrics, shown
<1>3. CASE BeginTx
  BY <1>3 DEF BeginTx, shown
<1>4. CASE Insert
  BY <1>4 DEF Insert, shown
<1>5. CASE Commit
  BY <1>5 DEF Commit, shown
<1>6. CASE Publish
  BY <1>6 DEF Publish, cycle
<1>7. CASE Stamp
  <2>1. pc' = "sleep" /\ age' = 0 /\ left' = NextBackoff(got # Sources)
    BY <1>7 DEF Stamp
  <2>2. Pause' = IF got = Sources THEN BaseBackoff ELSE MaxBackoff
    <3>1. CASE got = Sources
      BY <1>7, <3>1, Zenon DEF Stamp, Pause
    <3>2. CASE got # Sources
      BY <1>7, <3>2, Zenon DEF Stamp, Pause
    <3>3. QED
      BY <3>1, <3>2, Zenon
  <2>3. NextBackoff(got # Sources) \in Nat /\ NextBackoff(got # Sources) <= Pause'
    <3>1. /\ NextBackoff(got # Sources) \in BaseBackoff..MaxBackoff
          /\ got = Sources => NextBackoff(got # Sources) = BaseBackoff
      BY BackoffBounds
    <3>2. QED
      BY <2>2, <3>1
  <2>4. QED
    BY <2>1, <2>3
<1>8. CASE Wake
  BY <1>8 DEF Wake, shown
<1>9. CASE Stop
  BY <1>9 DEF Stop, MayStop, cycle, shown
<1>10. CASE Cancel
  BY <1>10 DEF Cancel, cycle, shown
<1>11. CASE Flip
  BY <1>11 DEF Flip, cycle, shown
<1>12. CASE Tick
  BY <1>12 DEF Tick, cycle
<1>13. CASE UNCHANGED vars
  BY <1>13 DEF vars
<1>14. QED
  BY <1>1, <1>2, <1>3, <1>4, <1>5, <1>6, <1>7, <1>8, <1>9, <1>10, <1>11, <1>12, <1>13
     DEF Next, Work

Inv == TypeOK /\ StorageInv /\ InTime

LEMMA InitInv == Init => Inv
<1> SUFFICES ASSUME Init PROVE Inv
  OBVIOUS
<1> USE CollectorAssumption DEF Init, Never, Sources
<1>1. TypeOK
  <2>1. txOk \in BOOLEAN /\ lastClean \in BOOLEAN /\ cancelled \in BOOLEAN
    OBVIOUS
  <2>2. backoff \in BaseBackoff..MaxBackoff /\ age \in Nat \cup {Never} /\ left \in Nat
    OBVIOUS
  <2>3. QED
    BY <2>1, <2>2 DEF TypeOK
<1>2. StorageInv
  BY DEF StorageInv, WholeAtCommit, SavedIsWhole, SavedAmongRows, SavedIsShown, Listing, Storing
<1>3. InTime
  BY Durations DEF InTime, Listing, Storing, Ending, Pause
<1>4. QED
  BY <1>1, <1>2, <1>3 DEF Inv

\* The inductive invariant holds in every reachable state.
THEOREM Invariance == Spec => []Inv
<1>1. Inv /\ [Next]_vars => Inv'
  BY TypeOKStep, StorageStep, InTimeStep DEF Inv
<1>2. Spec => Init /\ [][Next]_vars
  BY DEF Spec
<1>3. QED
  BY <1>1, <1>2, InitInv, PTL

\* Type correctness, for every value of the constants.
THEOREM TypeCorrect == Spec => []TypeOK
<1>1. Inv => TypeOK
  BY DEF Inv
<1>2. QED
  BY <1>1, Invariance, PTL

\* A cycle leaves all its pods in PostgreSQL or none.
THEOREM StoredWhole == Spec => []SavedIsWhole
<1>1. Inv => SavedIsWhole
  BY DEF Inv, StorageInv
<1>2. QED
  BY <1>1, Invariance, PTL

\* Whatever a cycle has stored it also shows.
THEOREM StoredIsShown == Spec => []SavedIsShown
<1>1. Inv => SavedIsShown
  BY DEF Inv, StorageInv
<1>2. QED
  BY <1>1, Invariance, PTL

LEMMA InvInTime == Inv => StampsInTime
<1> SUFFICES ASSUME Inv
             PROVE  age <= Pause + CycleTicks
  BY DEF StampsInTime
<1> USE Durations DEF Inv, TypeOK, Never
<1>1. Listing \/ Storing \/ Ending \/ pc = "sleep" \/ pc = "stopped"
  BY DEF Listing, Storing, Ending, Sources
<1>2. Pause \in Nat
  BY DEF Pause
<1>3. QED
  BY <1>1, <1>2 DEF InTime

\* A collector that lives stamps lastCollectTime within a backoff and a cycle of the last
\* stamp, and within the shortest backoff and a cycle if no list failed before it.
THEOREM StampsAreInTime == Spec => []StampsInTime
BY InvInTime, Invariance, PTL

\* A failed INSERT spoils the COMMIT, and a lost answer keeps the rows: each step of the
\* cycle is one of CollectorPromise.
LEMMA PromiseStep ==
  Inv /\ Inv' /\ [Next]_vars => [Promise!Next]_(Promise!results)
<1> SUFFICES ASSUME Inv, Inv', [Next]_vars
             PROVE  [Promise!Next]_(Promise!results)
  OBVIOUS
<1> USE DEF Promise!Next, Promise!results
<1>1. ASSUME ListNodes \/ ListPods \/ ListMetrics \/ BeginTx \/ Insert \/ Stop \/ Cancel \/ Flip
      PROVE  UNCHANGED Promise!results
  BY <1>1 DEF ListNodes, ListPods, List, ListMetrics, BeginTx, Insert, Stop, Cancel, Flip,
              cycle, shown, CollectorCheck
<1>2. CASE Commit
  <2>1. UNCHANGED <<stats, age>>
    BY <1>2 DEF Commit, shown
  <2>2. UNCHANGED CollectorCheck
    BY <2>1 DEF CollectorCheck
  <2>3. saved = {} /\ (txOk => rows = Pods)
    BY <1>2 DEF Commit, Inv, StorageInv, SavedAmongRows, WholeAtCommit, Storing
  <2>4. saved' = Pods \/ saved' = saved
    BY <1>2, <2>3 DEF Commit
  <2>5. QED
    BY <2>1, <2>2, <2>3, <2>4 DEF Promise!Store
<1>3. CASE Publish
  <2>1. saved \subseteq rows /\ rows \subseteq Pods
    BY DEF Inv, StorageInv, SavedAmongRows, TypeOK
  <2>2. stats' = rows /\ UNCHANGED <<saved, CollectorCheck>>
    BY <1>3 DEF Publish, cycle, CollectorCheck
  <2>3. QED
    BY <2>1, <2>2 DEF Promise!Show
<1>4. CASE Stamp
  <2>1. saved \subseteq stats
    BY <1>4 DEF Stamp, Inv, StorageInv, SavedIsShown
  <2>2. CollectorCheck' = "ok"
    BY <1>4, CollectorAssumption DEF Stamp, CollectorCheck, Never
  <2>3. QED
    BY <1>4, <2>1, <2>2 DEF Stamp, cycle, Promise!Finish
<1>5. CASE Wake
  BY <1>5 DEF Wake, shown, CollectorCheck, Promise!StartOver
<1>6. CASE Tick
  <2>1. UNCHANGED <<saved, stats>>
    BY <1>6 DEF Tick, cycle
  <2>2. age' = IF age = Never THEN Never ELSE age + 1
    BY <1>6 DEF Tick
  <2>3. \/ CollectorCheck' = CollectorCheck
        \/ CollectorCheck = "ok" /\ CollectorCheck' = "degraded"
    BY <2>2, CollectorAssumption DEF CollectorCheck, Inv, TypeOK, Never
  <2>4. QED
    BY <2>1, <2>3 DEF Promise!GoStale
<1>7. CASE UNCHANGED vars
  BY <1>7 DEF vars, CollectorCheck
<1>8. QED
  BY <1>1, <1>2, <1>3, <1>4, <1>5, <1>6, <1>7 DEF Next, Work

\* The collector implements its promise.
THEOREM CollectorKeepsPromise == Spec => KeepsPromise
<1>1. Init => Promise!Init
  BY DEF Init, Promise!Init, CollectorCheck
<1>2. QED
  BY <1>1, Invariance, PromiseStep, PTL DEF KeepsPromise, Promise!Spec, Spec

-----------------------------------------------------------------------------
(* Recovery and shutdown within a bounded time. *)

StopwatchTypeOK == calm \in Nat /\ leaving \in Nat

\* No place lasts longer than the code grants it.
LeftBound ==
  /\ Listing => left <= ListTicks
  /\ Storing => left <= DbTicks
  /\ pc = "publish" => left <= RetryTicks + WorkTicks
  /\ pc \in {"stamp", "stopped"} => left = 0
  /\ pc = "sleep" => left <= MaxBackoff

WhenStopped == pc = "stopped" => cancelled

WhenCalm == calm > 0 => Healthy

\* The cycle under way has met no error yet and cannot meet one if all stays well.
Flawless ==
  /\ Listing \/ Storing => left > 0
  /\ pc \in {"pods", "metrics"} => "nodes" \in got
  /\ pc = "metrics" => "pods" \in got
  /\ Storing \/ Ending => got = Sources
  /\ pc \in {"insert", "commit"} => txOk
  /\ pc = "publish" => rows = Pods
  /\ pc \in {"stamp", "sleep"} => stats = Pods
  /\ pc = "sleep" => lastClean

\* A cycle that is not flawless was under way when everything became well.
SpoiltLeft ==
  /\ Listing => calm + left <= ListTicks
  /\ Storing => calm + left <= ListTicks + DbTicks
  /\ Ending => calm + left <= CycleTicks
  /\ pc = "sleep" => calm + left <= CycleTicks + MaxBackoff

SpoiltCycleEnds == Healthy => Flawless \/ SpoiltLeft

\* What the handlers show once a flawless cycle is over, and while all stays well.
Settled == stats = Pods /\ lastClean /\ age # Never

\* Until then the agent is in that cycle, in the backoff after it or in the next cycle.
RecoveryLeft ==
  /\ pc = "sleep" => calm + left <= CycleTicks + MaxBackoff
  /\ Listing => calm + left <= CycleTicks + MaxBackoff + ListTicks
  /\ Storing => calm + left <= CycleTicks + MaxBackoff + ListTicks + DbTicks
  /\ Ending => calm + left <= RecoveryTicks

RecoveryEnds == Healthy => Settled \/ RecoveryLeft

RecoveryInv == LeftBound /\ WhenStopped /\ WhenCalm /\ SpoiltCycleEnds /\ RecoveryEnds

\* A cancelled collector finishes its cycle, and a sleeping one leaves at once.
ShutdownInv ==
  /\ ~cancelled => leaving = 0
  /\ Listing => leaving + left <= ListTicks
  /\ Storing => leaving + left <= ListTicks + DbTicks
  /\ Ending => leaving + left <= CycleTicks
  /\ leaving <= CycleTicks
  /\ pc = "sleep" /\ left = 0 => leaving = 0

\* A stopwatch advances by one, or not at all when it has reached its end.
LEMMA Laters ==
  ASSUME NEW ticks \in Nat, NEW most \in Nat
  PROVE  /\ Later(ticks, most) \in Nat
         /\ ticks <= Later(ticks, most) /\ Later(ticks, most) <= ticks + 1
         /\ ticks > most => Later(ticks, most) = ticks
BY DEF Later

\* What a tick takes from the ticks left it adds to a stopwatch.
LEMMA TimePasses ==
  ASSUME NEW left0 \in Nat, NEW left1 \in Nat, NEW watch0 \in Nat, NEW watch1 \in Nat,
         left0 > 0, left1 = left0 - 1, watch1 <= watch0 + 1
  PROVE  watch1 + left1 <= watch0 + left0
OBVIOUS

LEMMA Sums == \A x, y \in Nat : x + y \in Int /\ 0 + x = x
OBVIOUS

LEMMA AtMost ==
  ASSUME NEW x \in Int, NEW y \in Int, NEW z \in Int, x <= y, y <= z
  PROVE  x <= z
OBVIOUS

\* The stopwatches watch steps of the collector and take no part in them.
LEMMA Watching == [DeadlinesNext]_deadlineVars => [Next]_vars
BY DEF DeadlinesNext, deadlineVars, Unwatched, WatchedFlip, WatchedCancel, WatchedTick, Next

LEMMA StopwatchStep ==
  StopwatchTypeOK /\ [DeadlinesNext]_deadlineVars => StopwatchTypeOK'
<1> SUFFICES ASSUME StopwatchTypeOK, [DeadlinesNext]_deadlineVars
             PROVE  StopwatchTypeOK'
  OBVIOUS
<1> USE DEF StopwatchTypeOK
<1>1. CASE Unwatched \/ WatchedFlip \/ WatchedCancel
  BY <1>1 DEF Unwatched, WatchedFlip, WatchedCancel
<1>2. CASE WatchedTick
  <2>1. Later(calm, RecoveryTicks) \in Nat /\ Later(leaving, CycleTicks) \in Nat
    BY Durations, Laters
  <2>2. QED
    BY <1>2, <2>1 DEF WatchedTick
<1>3. CASE UNCHANGED deadlineVars
  BY <1>3 DEF deadlineVars
<1>4. QED
  BY <1>1, <1>2, <1>3 DEF DeadlinesNext

\* Every step to a next place sets `left' to what that place may take.
LEMMA LeftBoundStep ==
  TypeOK /\ LeftBound /\ WhenStopped /\ [Next]_vars => LeftBound' /\ WhenStopped'
<1> SUFFICES ASSUME TypeOK, LeftBound, WhenStopped, [Next]_vars
             PROVE  LeftBound' /\ WhenStopped'
  OBVIOUS
<1> USE Durations DEF TypeOK, LeftBound, WhenStopped, Listing, Storing, Sources
<1>1. ASSUME ListNodes \/ ListPods
      PROVE  LeftBound' /\ WhenStopped'
  BY <1>1 DEF ListNodes, ListPods, List, shown
<1>2. CASE ListMetrics
  BY <1>2 DEF ListMetrics, shown
<1>3. CASE BeginTx
  BY <1>3 DEF BeginTx, shown
<1>4. CASE Insert
  BY <1>4 DEF Insert, shown
<1>5. CASE Commit
  BY <1>5 DEF Commit, shown
<1>6. CASE Publish
  BY <1>6 DEF Publish, cycle
<1>7. CASE Stamp
  <2>1. NextBackoff(got # Sources) \in BaseBackoff..MaxBackoff
    <3>1. (got # Sources) \in BOOLEAN
      OBVIOUS
    <3>2. QED
      BY <3>1, BackoffBounds
  <2>2. QED
    BY <1>7, <2>1 DEF Stamp, cycle
<1>8. CASE Wake
  BY <1>8 DEF Wake, shown
<1>9. CASE Stop
  BY <1>9 DEF Stop, cycle, shown
<1>10. CASE Cancel
  BY <1>10 DEF Cancel, cycle, shown
<1>11. CASE Flip
  BY <1>11 DEF Flip, cycle, shown
<1>12. CASE Tick
  BY <1>12 DEF Tick, cycle
<1>13. CASE UNCHANGED vars
  BY <1>13 DEF vars
<1>14. QED
  BY <1>1, <1>2, <1>3, <1>4, <1>5, <1>6, <1>7, <1>8, <1>9, <1>10, <1>11, <1>12, <1>13
     DEF Next, Work

\* Only the environment makes anything unwell, and the stopwatch starts again then.
LEMMA CalmStep ==
  StopwatchTypeOK /\ WhenCalm /\ [DeadlinesNext]_deadlineVars => WhenCalm'
<1> SUFFICES ASSUME StopwatchTypeOK, WhenCalm, [DeadlinesNext]_deadlineVars
             PROVE  WhenCalm'
  OBVIOUS
<1> USE DEF StopwatchTypeOK, WhenCalm, Healthy
<1>1. CASE Unwatched
  <2>1. UNCHANGED <<up, cancelled>>
    BY <1>1 DEF Unwatched, Work, Stop, ListNodes, ListPods, List, ListMetrics, BeginTx,
                Insert, Commit, Publish, Stamp, Wake
  <2>2. QED
    BY <1>1, <2>1 DEF Unwatched
<1>2. CASE WatchedFlip \/ WatchedCancel
  BY <1>2 DEF WatchedFlip, WatchedCancel
<1>3. CASE WatchedTick
  BY <1>3 DEF WatchedTick, Tick
<1>4. CASE UNCHANGED deadlineVars
  BY <1>4 DEF deadlineVars, vars
<1>5. QED
  BY <1>1, <1>2, <1>3, <1>4 DEF DeadlinesNext

\* While all is well and the deadline has not come, every call is answered.
LEMMA WellAnswered ==
  ASSUME Healthy, left > 0, left \in Nat, NEW source \in Everything
  PROVE  Answers(source) /\ ~MayFail(source)
BY DEF Healthy, Answers, MayFail, Everything

\* No step of the goroutine spoils a flawless cycle that is well.
LEMMA FlawlessStep ==
  TypeOK /\ StorageInv /\ WhenStopped /\ Healthy /\ Flawless /\ Work => Flawless'
<1> SUFFICES ASSUME TypeOK, StorageInv, WhenStopped, Healthy, Flawless, Work
             PROVE  Flawless'
  OBVIOUS
<1> USE Durations DEF TypeOK, Flawless, Listing, Storing, Ending, Sources
<1>0. Sources \subseteq Everything /\ "db" \in Everything
  BY DEF Everything
<1>1. CASE ListNodes
  <2>1. left > 0 /\ left \in Nat
    BY <1>1 DEF ListNodes, List
  <2>2. ~MayFail("nodes")
    BY <1>0, <2>1, WellAnswered
  <2>3. QED
    BY <1>1, <2>1, <2>2 DEF ListNodes, List, shown
<1>2. CASE ListPods
  <2>1. left > 0 /\ left \in Nat
    BY <1>2 DEF ListPods, List
  <2>2. ~MayFail("pods")
    BY <1>0, <2>1, WellAnswered
  <2>3. QED
    BY <1>2, <2>1, <2>2 DEF ListPods, List, shown
<1>3. CASE ListMetrics
  <2>1. left > 0 /\ left \in Nat
    BY <1>3 DEF ListMetrics
  <2>2. ~MayFail("metrics")
    BY <1>0, <2>1, WellAnswered
  <2>3. got' = Sources /\ pc' = "begin" /\ left' = DbTicks
    BY <1>3, <2>2 DEF ListMetrics
  <2>4. QED
    BY <2>3
<1>4. CASE BeginTx
  <2>1. left > 0 /\ left \in Nat
    BY <1>4 DEF BeginTx
  <2>2. ~MayFail("db")
    BY <1>0, <2>1, WellAnswered
  <2>3. QED
    BY <1>4, <2>1, <2>2 DEF BeginTx, shown
<1>5. CASE Insert
  <2>1. left > 0 /\ left \in Nat
    BY <1>5 DEF Insert
  <2>2. ~MayFail("db")
    BY <1>0, <2>1, WellAnswered
  <2>3. txOk' = txOk /\ pc' = "commit" /\ UNCHANGED <<left, got>>
    BY <1>5, <2>2 DEF Insert
  <2>4. QED
    BY <1>5, <2>1, <2>3 DEF Insert
<1>6. CASE Commit
  <2>1. rows = Pods
    BY <1>6 DEF Commit, StorageInv, WholeAtCommit
  <2>2. QED
    BY <1>6, <2>1 DEF Commit, KeptAfterCommitError, shown
<1>7. CASE Publish
  BY <1>7 DEF Publish, cycle
<1>8. CASE Stamp
  BY <1>8 DEF Stamp, cycle
<1>9. CASE Wake
  BY <1>9 DEF Wake
<1>10. QED
  BY <1>1, <1>2, <1>3, <1>4, <1>5, <1>6, <1>7, <1>8, <1>9 DEF Work

\* A spoilt cycle keeps to its deadlines, and the next one starts without flaw.
LEMMA SpoiltWork ==
  TypeOK /\ StopwatchTypeOK /\ LeftBound /\ SpoiltLeft /\ Work /\ UNCHANGED calm
    => SpoiltLeft' \/ Flawless'
<1> SUFFICES ASSUME TypeOK, StopwatchTypeOK, LeftBound, SpoiltLeft, Work, UNCHANGED calm
             PROVE  SpoiltLeft' \/ Flawless'
  OBVIOUS
<1> USE Durations
        DEF TypeOK, StopwatchTypeOK, LeftBound, SpoiltLeft, Listing, Storing, Ending, Sources
<1>1. ASSUME ListNodes \/ ListPods
      PROVE  SpoiltLeft'
  BY <1>1 DEF ListNodes, ListPods, List, shown
<1>2. CASE ListMetrics
  BY <1>2 DEF ListMetrics, shown
<1>3. CASE BeginTx
  BY <1>3 DEF BeginTx, shown
<1>4. CASE Insert
  BY <1>4 DEF Insert, shown
<1>5. CASE Commit
  BY <1>5 DEF Commit, shown
<1>6. CASE Publish
  BY <1>6 DEF Publish, cycle
<1>7. CASE Stamp
  <2>1. NextBackoff(got # Sources) \in BaseBackoff..MaxBackoff
    <3>1. (got # Sources) \in BOOLEAN
      OBVIOUS
    <3>2. QED
      BY <3>1, BackoffBounds
  <2>2. QED
    BY <1>7, <2>1 DEF Stamp, cycle
<1>8. CASE Wake
  BY <1>8 DEF Wake, Flawless
<1>9. QED
  BY <1>1, <1>2, <1>3, <1>4, <1>5, <1>6, <1>7, <1>8 DEF Work

\* When the stopwatch has just started again, every place is within its bounds.
LEMMA FreshStart ==
  ASSUME TypeOK', LeftBound', calm' = 0
  PROVE  SpoiltLeft' /\ RecoveryLeft'
<1>1. left' \in Nat
  BY DEF TypeOK
<1>2. calm' + left' = left'
  BY <1>1, Sums
<1>3. Listing' => left' <= ListTicks
  BY DEF LeftBound
<1>4. Storing' => left' <= ListTicks + DbTicks
  <2>1. Storing' => left' <= DbTicks
    BY DEF LeftBound
  <2>2. QED
    BY <1>1, <2>1, Durations
<1>5. Ending' => left' <= CycleTicks
  <2>1. Ending' => left' <= RetryTicks + WorkTicks
    BY Durations DEF LeftBound, Ending
  <2>2. QED
    BY <1>1, <2>1, Durations
<1>6. pc' = "sleep" => left' <= CycleTicks + MaxBackoff
  BY <1>1, Durations DEF LeftBound
<1>7. SpoiltLeft'
  BY <1>2, <1>3, <1>4, <1>5, <1>6 DEF SpoiltLeft
<1>8. RecoveryLeft'
  <2>1. Listing' => left' <= CycleTicks + MaxBackoff + ListTicks
    BY <1>1, <1>3, Durations
  <2>2. Storing' => left' <= CycleTicks + MaxBackoff + ListTicks + DbTicks
    BY <1>1, <1>4, Durations
  <2>3. Ending' => left' <= RecoveryTicks
    BY <1>1, <1>5, Durations
  <2>4. QED
    BY <1>2, <1>6, <2>1, <2>2, <2>3 DEF RecoveryLeft
<1>9. QED
  BY <1>7, <1>8

\* A tick that misses no deadline moves at most one from `left' to calm.
LEMMA TickTrade ==
  ASSUME TypeOK, StopwatchTypeOK, TypeOK', StopwatchTypeOK', WatchedTick,
         Healthy, ~DeadlineMissed
  PROVE  /\ calm' + left' <= calm + left
         /\ calm + left \in Int /\ calm' + left' \in Int
<1>1. left \in Nat /\ calm \in Nat /\ calm' \in Nat /\ left' \in Nat
  BY DEF TypeOK, StopwatchTypeOK
<1>2. left > 0 /\ left' = left - 1
  BY DEF WatchedTick, Tick
<1>3. calm' <= calm + 1
  <2>1. calm' = Later(calm, RecoveryTicks)
    BY DEF WatchedTick
  <2>2. QED
    BY <1>1, <2>1, Durations, Laters
<1>4. calm' + left' <= calm + left
  BY <1>1, <1>2, <1>3, TimePasses
<1>5. QED
  BY <1>1, <1>4, Sums

LEMMA SpoiltStep ==
  /\ TypeOK /\ StorageInv /\ StopwatchTypeOK /\ LeftBound /\ WhenStopped /\ SpoiltCycleEnds
  /\ TypeOK' /\ StopwatchTypeOK' /\ LeftBound'
  /\ [DeadlinesNext]_deadlineVars
  => SpoiltCycleEnds'
<1> SUFFICES ASSUME TypeOK, StorageInv, StopwatchTypeOK, LeftBound, WhenStopped,
                    SpoiltCycleEnds, TypeOK', StopwatchTypeOK', LeftBound',
                    [DeadlinesNext]_deadlineVars, Healthy'
             PROVE  Flawless' \/ SpoiltLeft'
  BY DEF SpoiltCycleEnds
<1>1. CASE Work /\ UNCHANGED <<calm, leaving>>
  <2>1. Healthy
    BY <1>1 DEF Healthy, Work, ListNodes, ListPods, List, ListMetrics, BeginTx, Insert,
                Commit, Publish, Stamp, Wake
  <2>2. QED
    BY <1>1, <2>1, FlawlessStep, SpoiltWork DEF SpoiltCycleEnds
<1>2. CASE Stop
  BY <1>2 DEF Stop, Healthy
<1>3. CASE WatchedFlip \/ WatchedCancel
  BY <1>3, FreshStart DEF WatchedFlip, WatchedCancel
<1>4. CASE WatchedTick
  <2>1. Healthy /\ left > 0 /\ left' = left - 1
        /\ UNCHANGED <<pc, got, rows, txOk, stats, lastClean>>
    BY <1>4 DEF WatchedTick, Tick, Healthy, cycle
  <2>2. CASE DeadlineMissed
    BY <1>4, <2>2, FreshStart DEF WatchedTick
  <2>3. ASSUME ~DeadlineMissed, Flawless
        PROVE  Flawless'
    BY <2>1, <2>3 DEF Flawless, DeadlineMissed, TypeOK, Listing, Storing, Ending, Sources
  <2>4. ASSUME ~DeadlineMissed, SpoiltLeft
        PROVE  SpoiltLeft'
    <3>1. /\ calm' + left' <= calm + left
          /\ calm + left \in Int /\ calm' + left' \in Int
      BY <1>4, <2>1, <2>4, TickTrade
    <3>2. pc' = pc
      BY <2>1
    <3>3. Listing' => calm' + left' <= ListTicks
      BY <2>4, <3>1, <3>2, AtMost, Durations DEF SpoiltLeft, Listing
    <3>4. Storing' => calm' + left' <= ListTicks + DbTicks
      BY <2>4, <3>1, <3>2, AtMost, Durations DEF SpoiltLeft, Storing
    <3>5. Ending' => calm' + left' <= CycleTicks
      BY <2>4, <3>1, <3>2, AtMost, Durations DEF SpoiltLeft, Ending
    <3>6. pc' = "sleep" => calm' + left' <= CycleTicks + MaxBackoff
      BY <2>4, <3>1, <3>2, AtMost, Durations DEF SpoiltLeft
    <3>7. QED
      BY <3>3, <3>4, <3>5, <3>6 DEF SpoiltLeft
  <2>5. QED
    BY <2>1, <2>2, <2>3, <2>4 DEF SpoiltCycleEnds
<1>5. CASE UNCHANGED deadlineVars
  <2>1. Healthy
    BY <1>5 DEF deadlineVars, vars, Healthy
  <2>2. CASE Flawless
    BY <1>5, <2>2 DEF deadlineVars, vars, Flawless, Listing, Storing, Ending
  <2>3. CASE SpoiltLeft
    BY <1>5, <2>3 DEF deadlineVars, vars, SpoiltLeft, Listing, Storing, Ending
  <2>4. QED
    BY <2>1, <2>2, <2>3 DEF SpoiltCycleEnds
<1>6. QED
  BY <1>1, <1>2, <1>3, <1>4, <1>5 DEF DeadlinesNext, Unwatched

\* The stamp at the end of a flawless cycle settles everything; that of a spoilt one
\* comes within a cycle of when everything became well.
LEMMA RecoveryWork ==
  /\ TypeOK /\ StopwatchTypeOK /\ LeftBound
  /\ Flawless \/ SpoiltLeft
  /\ Settled \/ RecoveryLeft
  /\ Work /\ UNCHANGED calm
  => Settled' \/ RecoveryLeft'
<1> SUFFICES ASSUME TypeOK, StopwatchTypeOK, LeftBound, Flawless \/ SpoiltLeft,
                    Settled \/ RecoveryLeft, Work, UNCHANGED calm
             PROVE  Settled' \/ RecoveryLeft'
  OBVIOUS
<1> USE Durations
        DEF TypeOK, StopwatchTypeOK, LeftBound, RecoveryLeft, Settled, Listing, Storing,
            Ending, Sources, Never
<1>1. ASSUME ListNodes \/ ListPods
      PROVE  Settled' \/ RecoveryLeft'
  BY <1>1 DEF ListNodes, ListPods, List, shown
<1>2. CASE ListMetrics
  BY <1>2 DEF ListMetrics, shown
<1>3. CASE BeginTx
  BY <1>3 DEF BeginTx, shown
<1>4. CASE Insert
  BY <1>4 DEF Insert, shown
<1>5. CASE Commit
  BY <1>5 DEF Commit, shown
<1>6. CASE Publish
  <2>1. CASE Flawless
    BY <1>6, <2>1 DEF Publish, cycle, Flawless
  <2>2. CASE SpoiltLeft
    BY <1>6, <2>2 DEF Publish, cycle, SpoiltLeft
  <2>3. QED
    BY <2>1, <2>2
<1>7. CASE Stamp
  <2>1. CASE Flawless
    <3>1. got = Sources /\ stats = Pods
      BY <1>7, <2>1 DEF Stamp, Flawless
    <3>2. lastClean' = (got = Sources) /\ age' = 0 /\ stats' = stats
      BY <1>7 DEF Stamp
    <3>3. lastClean'
      BY <3>1, <3>2
    <3>4. QED
      BY <3>1, <3>2, <3>3
  <2>2. CASE SpoiltLeft
    <3>1. NextBackoff(got # Sources) \in BaseBackoff..MaxBackoff
      <4>1. (got # Sources) \in BOOLEAN
        OBVIOUS
      <4>2. QED
        BY <4>1, BackoffBounds
    <3>2. QED
      BY <1>7, <2>2, <3>1 DEF Stamp, cycle, SpoiltLeft
  <2>3. QED
    BY <2>1, <2>2
<1>8. CASE Wake
  BY <1>8 DEF Wake, shown
<1>9. QED
  BY <1>1, <1>2, <1>3, <1>4, <1>5, <1>6, <1>7, <1>8 DEF Work

LEMMA RecoveryStep ==
  /\ TypeOK /\ StopwatchTypeOK /\ LeftBound /\ SpoiltCycleEnds /\ RecoveryEnds
  /\ TypeOK' /\ StopwatchTypeOK' /\ LeftBound'
  /\ [DeadlinesNext]_deadlineVars
  => RecoveryEnds'
<1> SUFFICES ASSUME TypeOK, StopwatchTypeOK, LeftBound, SpoiltCycleEnds, RecoveryEnds,
                    TypeOK', StopwatchTypeOK', LeftBound',
                    [DeadlinesNext]_deadlineVars, Healthy'
             PROVE  Settled' \/ RecoveryLeft'
  BY DEF RecoveryEnds
<1>1. CASE Work /\ UNCHANGED <<calm, leaving>>
  <2>1. Healthy
    BY <1>1 DEF Healthy, Work, ListNodes, ListPods, List, ListMetrics, BeginTx, Insert,
                Commit, Publish, Stamp, Wake
  <2>2. QED
    BY <1>1, <2>1, RecoveryWork DEF SpoiltCycleEnds, RecoveryEnds
<1>2. CASE Stop
  BY <1>2 DEF Stop, Healthy
<1>3. CASE WatchedFlip \/ WatchedCancel
  BY <1>3, FreshStart DEF WatchedFlip, WatchedCancel
<1>4. CASE WatchedTick
  <2>1. Healthy /\ UNCHANGED <<pc, stats, lastClean>>
    BY <1>4 DEF WatchedTick, Tick, Healthy
  <2>2. CASE DeadlineMissed
    BY <1>4, <2>2, FreshStart DEF WatchedTick
  <2>3. ASSUME Settled
        PROVE  Settled'
    <3>1. age' = IF age = Never THEN Never ELSE age + 1
      BY <1>4 DEF WatchedTick, Tick
    <3>2. age' # Never
      BY <2>3, <3>1, CollectorAssumption DEF Settled, TypeOK, Never
    <3>3. QED
      BY <2>1, <2>3, <3>2 DEF Settled
  <2>4. ASSUME ~DeadlineMissed, RecoveryLeft
        PROVE  RecoveryLeft'
    <3>1. /\ calm' + left' <= calm + left
          /\ calm + left \in Int /\ calm' + left' \in Int
      BY <1>4, <2>1, <2>4, TickTrade
    <3>2. pc' = pc
      BY <2>1
    <3>3. Listing' => calm' + left' <= CycleTicks + MaxBackoff + ListTicks
      BY <2>4, <3>1, <3>2, AtMost, Durations DEF RecoveryLeft, Listing
    <3>4. Storing' => calm' + left' <= CycleTicks + MaxBackoff + ListTicks + DbTicks
      BY <2>4, <3>1, <3>2, AtMost, Durations DEF RecoveryLeft, Storing
    <3>5. Ending' => calm' + left' <= RecoveryTicks
      <4>1. Ending => calm + left <= RecoveryTicks
        BY <2>4 DEF RecoveryLeft
      <4>2. QED
        BY <3>1, <3>2, <4>1, AtMost, Durations DEF Ending
    <3>6. pc' = "sleep" => calm' + left' <= CycleTicks + MaxBackoff
      BY <2>4, <3>1, <3>2, AtMost, Durations DEF RecoveryLeft
    <3>7. QED
      BY <3>3, <3>4, <3>5, <3>6 DEF RecoveryLeft
  <2>5. QED
    BY <2>1, <2>2, <2>3, <2>4 DEF RecoveryEnds
<1>5. CASE UNCHANGED deadlineVars
  <2>1. Healthy
    BY <1>5 DEF deadlineVars, vars, Healthy
  <2>2. CASE Settled
    BY <1>5, <2>2 DEF deadlineVars, vars, Settled
  <2>3. CASE RecoveryLeft
    BY <1>5, <2>3 DEF deadlineVars, vars, RecoveryLeft, Listing, Storing, Ending
  <2>4. QED
    BY <2>1, <2>2, <2>3 DEF RecoveryEnds
<1>6. QED
  BY <1>1, <1>2, <1>3, <1>4, <1>5 DEF DeadlinesNext, Unwatched

\* The way out: the stopwatch of the shutdown and the ticks left share the deadlines.
LEMMA ShutdownWork ==
  TypeOK /\ StopwatchTypeOK /\ ShutdownInv /\ (Work \/ Stop) /\ UNCHANGED leaving
    => ShutdownInv'
<1> SUFFICES ASSUME TypeOK, StopwatchTypeOK, ShutdownInv, Work \/ Stop, UNCHANGED leaving
             PROVE  ShutdownInv'
  OBVIOUS
<1> USE Durations
        DEF TypeOK, StopwatchTypeOK, ShutdownInv, Listing, Storing, Ending, Sources
<1>1. ASSUME ListNodes \/ ListPods
      PROVE  ShutdownInv'
  BY <1>1 DEF ListNodes, ListPods, List, shown
<1>2. CASE ListMetrics
  BY <1>2 DEF ListMetrics, shown
<1>3. CASE BeginTx
  BY <1>3 DEF BeginTx, shown
<1>4. CASE Insert
  BY <1>4 DEF Insert, shown
<1>5. CASE Commit
  BY <1>5 DEF Commit, shown
<1>6. CASE Publish
  BY <1>6 DEF Publish, cycle
<1>7. CASE Stamp
  <2>1. NextBackoff(got # Sources) \in BaseBackoff..MaxBackoff
    <3>1. (got # Sources) \in BOOLEAN
      OBVIOUS
    <3>2. QED
      BY <3>1, BackoffBounds
  <2>2. QED
    BY <1>7, <2>1 DEF Stamp, cycle
<1>8. CASE Wake
  BY <1>8 DEF Wake, shown
<1>9. CASE Stop
  BY <1>9 DEF Stop, cycle, shown
<1>10. QED
  BY <1>1, <1>2, <1>3, <1>4, <1>5, <1>6, <1>7, <1>8, <1>9 DEF Work

LEMMA ShutdownStep ==
  /\ TypeOK /\ StopwatchTypeOK /\ LeftBound /\ ShutdownInv
  /\ [DeadlinesNext]_deadlineVars
  => ShutdownInv'
<1> SUFFICES ASSUME TypeOK, StopwatchTypeOK, LeftBound, ShutdownInv,
                    [DeadlinesNext]_deadlineVars
             PROVE  ShutdownInv'
  OBVIOUS
<1>1. CASE Unwatched
  BY <1>1, ShutdownWork DEF Unwatched
<1>2. CASE WatchedFlip
  BY <1>2 DEF WatchedFlip, Flip, ShutdownInv, Listing, Storing, Ending
<1>3. CASE WatchedCancel
  BY <1>3 DEF WatchedCancel, Cancel, ShutdownInv, Listing, Storing, Ending
<1>4. CASE WatchedTick
  <2> USE Durations
          DEF TypeOK, StopwatchTypeOK, ShutdownInv, Listing, Storing, Ending, Sources
  <2>1. left > 0 /\ left' = left - 1 /\ UNCHANGED <<pc, cancelled>>
    BY <1>4 DEF WatchedTick, Tick
  <2>2. CASE ~cancelled
    BY <1>4, <2>1, <2>2 DEF WatchedTick
  <2>3. CASE cancelled
    <3>1. pc # "sleep" /\ pc # "stopped"
      BY <1>4, <2>1, <2>3 DEF WatchedTick, Tick, MayStop, LeftBound
    <3>2. leaving < CycleTicks
      BY <2>1, <3>1
    <3>3. leaving' = leaving + 1
      BY <1>4, <2>3, <3>2 DEF WatchedTick, Later
    <3>4. QED
      BY <2>1, <2>3, <3>1, <3>2, <3>3
  <2>4. QED
    BY <2>2, <2>3
<1>5. CASE UNCHANGED deadlineVars
  BY <1>5 DEF deadlineVars, vars, ShutdownInv, Listing, Storing, Ending
<1>6. QED
  BY <1>1, <1>2, <1>3, <1>4, <1>5 DEF DeadlinesNext

DeadlinesInv == Inv /\ StopwatchTypeOK /\ RecoveryInv /\ ShutdownInv

LEMMA DeadlinesInvInit == DeadlinesInit => DeadlinesInv
<1> SUFFICES ASSUME DeadlinesInit PROVE DeadlinesInv
  OBVIOUS
<1>1. Inv
  BY InitInv DEF DeadlinesInit
<1>2. StopwatchTypeOK
  BY DEF DeadlinesInit, StopwatchTypeOK
<1>3. pc = "nodes" /\ left = ListTicks /\ calm = 0 /\ leaving = 0
  BY DEF DeadlinesInit, Init
<1>4. LeftBound /\ WhenStopped /\ WhenCalm
  BY <1>3, Durations DEF LeftBound, WhenStopped, WhenCalm, Listing, Storing
<1>5. SpoiltCycleEnds
  BY <1>3, Durations DEF SpoiltCycleEnds, SpoiltLeft, Listing, Storing, Ending
<1>6. RecoveryEnds
  BY <1>3, Durations DEF RecoveryEnds, RecoveryLeft, Listing, Storing, Ending
<1>7. ShutdownInv
  BY <1>3, Durations DEF ShutdownInv, Listing, Storing, Ending
<1>8. QED
  BY <1>1, <1>2, <1>4, <1>5, <1>6, <1>7 DEF DeadlinesInv, RecoveryInv

\* The two stopwatches agree with the collector in every reachable state.
THEOREM DeadlinesInvariance == DeadlinesSpec => []DeadlinesInv
<1>1. DeadlinesInv /\ [DeadlinesNext]_deadlineVars => DeadlinesInv'
  <2> SUFFICES ASSUME DeadlinesInv, [DeadlinesNext]_deadlineVars
               PROVE  DeadlinesInv'
    OBVIOUS
  <2>1. Inv'
    BY Watching, TypeOKStep, StorageStep, InTimeStep DEF DeadlinesInv, Inv
  <2>2. StopwatchTypeOK'
    BY StopwatchStep DEF DeadlinesInv
  <2>3. LeftBound' /\ WhenStopped'
    BY Watching, LeftBoundStep DEF DeadlinesInv, Inv, RecoveryInv
  <2>4. WhenCalm'
    BY CalmStep DEF DeadlinesInv, RecoveryInv
  <2>5. SpoiltCycleEnds'
    BY <2>1, <2>2, <2>3, SpoiltStep DEF DeadlinesInv, Inv, RecoveryInv
  <2>6. RecoveryEnds'
    BY <2>1, <2>2, <2>3, RecoveryStep DEF DeadlinesInv, Inv, RecoveryInv
  <2>7. ShutdownInv'
    BY ShutdownStep DEF DeadlinesInv, Inv, RecoveryInv
  <2>8. QED
    BY <2>1, <2>2, <2>3, <2>4, <2>5, <2>6, <2>7 DEF DeadlinesInv, RecoveryInv
<1>2. QED
  BY <1>1, DeadlinesInvInit, PTL DEF DeadlinesSpec

\* Once everything is well and answers within its deadlines, the handlers serve all pods
\* after two cycles and the longest backoff, and lastCollectTime is that of a cycle whose
\* backoff is the shortest.
THEOREM CollectorRecovers == DeadlinesSpec => []RecoversInTime
<1>1. DeadlinesInv => RecoversInTime
  <2> SUFFICES ASSUME DeadlinesInv, calm > RecoveryTicks
               PROVE  stats = Pods /\ age \in 0..(BaseBackoff + CycleTicks)
    BY DEF RecoversInTime
  <2> USE Durations DEF DeadlinesInv, RecoveryInv, Inv, TypeOK, StopwatchTypeOK
  <2>1. Healthy
    BY DEF WhenCalm
  <2>2. ~RecoveryLeft
    <3>1. pc # "stopped"
      BY <2>1 DEF WhenStopped, Healthy
    <3>2. QED
      BY <3>1 DEF RecoveryLeft, Listing, Storing, Ending, Sources
  <2>3. Settled
    BY <2>1, <2>2 DEF RecoveryEnds
  <2>4. age <= BaseBackoff + CycleTicks
    BY <2>3, InvInTime DEF StampsInTime, Settled, Pause
  <2>5. QED
    BY <2>3, <2>4 DEF Settled, Never
<1>2. QED
  BY <1>1, DeadlinesInvariance, PTL

\* After appCtx is cancelled time passes for the collector until the deadlines of one
\* cycle at most; then it has stopped.
THEOREM CollectorStops == DeadlinesSpec => []StopsInTime
<1>1. DeadlinesInv => StopsInTime
  BY DEF DeadlinesInv, ShutdownInv, StopsInTime
<1>2. QED
  BY <1>1, DeadlinesInvariance, PTL

=============================================================================
