------------------------- MODULE CollectorDeadlines -------------------------
(***************************************************************************)
(* Collector with two stopwatches: how long everything has been well again *)
(* and how long ago the shutdown began.  They are history, no guard reads  *)
(* them, and they bound in ticks what Recovers and StopsOnCancel promise   *)
(* for some time only (agent/main.go 252-431 and 477-494).                 *)
(***************************************************************************)
EXTENDS Collector

\* A deadline leaves time to answer: 15 s and 5 s in the code.
ASSUME DeadlineAssumption == ListTicks > 0 /\ DbTicks > 0

VARIABLES
  calm,      \* ticks since when every dependency has been up and has answered before
             \* its deadline, and nobody has cancelled
  leaving    \* ticks since appCtx was cancelled

deadlineVars == <<vars, calm, leaving>>

-----------------------------------------------------------------------------
Everything == Sources \cup {"db"}
Healthy == up = Everything /\ ~cancelled

\* The rest of a spoilt cycle, the longest backoff, and a whole cycle.
RecoveryTicks == CycleTicks + MaxBackoff + CycleTicks

\* Both stopwatches stop just above what they are compared with.
Later(ticks, most) == IF ticks > most THEN ticks ELSE ticks + 1

DeadlinesInit == Init /\ calm = 0 /\ leaving = 0

Unwatched == (Work \/ Stop) /\ UNCHANGED <<calm, leaving>>
WatchedFlip == Flip /\ calm' = 0 /\ UNCHANGED leaving
WatchedCancel == Cancel /\ calm' = 0 /\ UNCHANGED leaving

\* A call that is not answered within its deadline is not well.
DeadlineMissed == pc \in Sources \cup {"begin", "insert", "commit"} /\ left = 1

WatchedTick ==
  /\ Tick
  /\ calm' = IF Healthy /\ ~DeadlineMissed THEN Later(calm, RecoveryTicks) ELSE 0
  /\ leaving' = IF cancelled THEN Later(leaving, CycleTicks) ELSE leaving

DeadlinesNext == Unwatched \/ WatchedFlip \/ WatchedCancel \/ WatchedTick

DeadlinesSpec == DeadlinesInit /\ [][DeadlinesNext]_deadlineVars

\* As FairSpec of Collector.
FairDeadlinesSpec == DeadlinesSpec /\ WF_vars(Work) /\ WF_vars(Stop) /\ WF_vars(Tick)

-----------------------------------------------------------------------------
\* Whatever has failed before, and for however long: once everything is up and answers
\* within its deadlines, the handlers serve all pods and lastCollectTime is no older than
\* the shortest backoff and a cycle, after the rest of the cycle under way, the longest
\* backoff and one more cycle, and so it stays.
RecoversInTime == calm > RecoveryTicks => stats = Pods /\ age \in 0..(BaseBackoff + CycleTicks)

\* Shutdown: the collector is gone within the deadlines and the work of one cycle, wherever it stood.
\* waitForShutdown does not wait for it.
StopsInTime == leaving <= CycleTicks
=============================================================================
