------------------------------ MODULE Collector ------------------------------
(***************************************************************************)
(* The collector goroutine (agent/main.go 252-431): one cycle lists nodes, *)
(* pods and pod metrics under a 15 s context, stores one row per pod in a  *)
(* transaction under a 5 s context, publishes what it collected for the    *)
(* HTTP handlers, stamps lastCollectTime, and sleeps for a backoff that    *)
(* doubles after an error.                                                 *)
(*                                                                         *)
(* A tick is 5 seconds, the shortest deadline.  `left' counts the ticks    *)
(* the collector may still spend where it is: a deadline while it waits    *)
(* for a dependency, the work of its own that it does between its calls    *)
(* (all of it before it publishes), the rest of the backoff while it       *)
(* sleeps.                                                                 *)
(***************************************************************************)
EXTENDS Integers

CONSTANTS
  Pods,             \* the pods the metrics API lists
  ListTicks,        \* the cycle's context (15 s)
  RetryTicks,       \* the sleeps of ListPodMetricsWithRetry, deaf to the context (3 s)
  DbTicks,          \* DBTimeout (DB_TIMEOUT_SEC, 5 s by default)
  WorkTicks,        \* what the cycle's own work takes at most: whatever the machine needs
  BaseBackoff,      \* 10 s
  MaxBackoff,       \* 60 s
  StaleThreshold    \* collectorStaleThreshold (30 s)

ASSUME CollectorAssumption ==
  /\ Pods # {}
  /\ ListTicks \in Nat /\ RetryTicks \in Nat /\ DbTicks \in Nat /\ WorkTicks \in Nat
  /\ BaseBackoff \in Nat \ {0}
  /\ MaxBackoff \in Nat /\ MaxBackoff >= BaseBackoff
  /\ StaleThreshold \in Nat

Sources == {"nodes", "pods", "metrics"}

VARIABLES
  pc,          \* where the cycle stands
  left,        \* ticks it may still stay there
  got,         \* the sources this cycle has listed
  rows,        \* newStats: the pods whose INSERT went through
  txOk,        \* the open transaction has not been aborted by a failed INSERT
  saved,       \* the rows of this cycle that PostgreSQL has committed
  stats,       \* latestStats: the pods published last
  backoff,     \* the current backoff
  lastClean,   \* history: the last finished cycle had no list error
  age,         \* time.Since(lastCollectTime); Never before
  up,          \* the dependencies that answer: sources and "db"
  cancelled    \* appCtx is cancelled

cycle == <<got, rows, txOk, saved>>
shown == <<stats, age>>
vars == <<pc, left, got, rows, txOk, saved, stats, backoff, lastClean, age, up, cancelled>>

-----------------------------------------------------------------------------
Never == -1

Init ==
  /\ pc = "nodes" /\ left = ListTicks
  /\ got = {} /\ rows = {} /\ txOk = FALSE /\ saved = {}
  /\ stats = {}
  /\ backoff = BaseBackoff
  /\ lastClean = TRUE
  /\ age = Never
  /\ up \in SUBSET (Sources \cup {"db"})
  /\ cancelled = FALSE

\* A dependency that is up answers, but maybe only when the deadline has come, and
\* then the call may as well fail.
Answers(source) == source \in up /\ ~cancelled
MayFail(source) == ~Answers(source) \/ left = 0

\* A failed list call sets hadError; the cycle goes on with what it has.
List(source, next) ==
  /\ pc = source
  /\ pc' = next
  /\ \/ Answers(source) /\ got' = got \cup {source}
     \/ MayFail(source) /\ UNCHANGED got
  /\ UNCHANGED <<left, rows, txOk, saved, shown, backoff, lastClean, up, cancelled>>

ListNodes == List("nodes", "pods")
ListPods == List("pods", "metrics")

\* ListPodMetricsWithRetry succeeds in time, or its sleeps outlast the context.
ListMetrics ==
  /\ pc = "metrics"
  /\ \/ /\ Answers("metrics")
        /\ got' = got \cup {"metrics"}
        /\ pc' = "begin"
        /\ left' = DbTicks
     \/ /\ MayFail("metrics")
        /\ pc' = "publish"
        /\ left' = RetryTicks + WorkTicks
        /\ UNCHANGED got
  /\ UNCHANGED <<rows, txOk, saved, shown, backoff, lastClean, up, cancelled>>

-----------------------------------------------------------------------------
\* The transaction, under dbCtx.

\* BeginTx; on an error the function returns with newStats empty.
BeginTx ==
  /\ pc = "begin"
  /\ \/ Answers("db") /\ pc' = "insert" /\ txOk' = TRUE /\ UNCHANGED left
     \/ MayFail("db") /\ pc' = "publish" /\ left' = WorkTicks /\ UNCHANGED txOk
  /\ UNCHANGED <<got, rows, saved, shown, backoff, lastClean, up, cancelled>>

\* Mutant: the failed INSERT is skipped and the transaction lives on.
AfterFailedInsertAlive == txOk

\* PostgreSQL aborts the transaction: every later INSERT and the COMMIT fail.
AfterFailedInsert == FALSE

\* The INSERTs of the loop: `done' went through, and if some pod's failed the loop
\* continues with the next one.
Insert ==
  /\ pc = "insert"
  /\ \E done \in SUBSET Pods :
       /\ done # {} => Answers("db")
       /\ done # Pods => MayFail("db")
       /\ rows' = done
       /\ txOk' = IF done = Pods THEN txOk ELSE AfterFailedInsert
  /\ pc' = "commit"
  /\ UNCHANGED <<left, got, saved, shown, backoff, lastClean, up, cancelled>>

\* Mutant: the pods are published only when the COMMIT is known to have succeeded,
\* and forgotten otherwise.
KeptAfterCommitErrorDropped == {}

\* newStats survives a failed COMMIT.
KeptAfterCommitError == rows

\* COMMIT succeeds; or it fails; or the answer is lost and it is done all the same.
Commit ==
  /\ pc = "commit"
  /\ pc' = "publish"
  /\ left' = WorkTicks
  /\ \/ txOk /\ Answers("db") /\ saved' = rows /\ UNCHANGED rows
     \/ (~txOk \/ MayFail("db")) /\ UNCHANGED saved /\ rows' = KeptAfterCommitError
     \/ txOk /\ "db" \in up /\ saved' = rows /\ rows' = KeptAfterCommitError
  /\ txOk' = FALSE
  /\ UNCHANGED <<got, shown, backoff, lastClean, up, cancelled>>

-----------------------------------------------------------------------------
\* The end of the cycle.

\* Mutant: the backoff is not reset by a cycle without errors.
NextBackoffSticky(hadError) ==
  IF ~hadError THEN backoff
  ELSE IF 2 * backoff > MaxBackoff THEN MaxBackoff ELSE 2 * backoff

\* Mutant: the backoff has no upper bound.
NextBackoffUncapped(hadError) == IF hadError THEN 2 * backoff ELSE BaseBackoff

\* nextCollectorBackoff
NextBackoff(hadError) ==
  IF ~hadError THEN BaseBackoff
  ELSE IF 2 * backoff > MaxBackoff THEN MaxBackoff ELSE 2 * backoff

\* latestStats and latestSummary, under statsMutex.
Publish ==
  /\ pc = "publish"
  /\ stats' = rows
  /\ pc' = "stamp"
  /\ left' = 0
  /\ UNCHANGED <<cycle, backoff, lastClean, age, up, cancelled>>

\* lastCollectTime, under collectMutex, whatever the cycle achieved; then sleep.
Stamp ==
  /\ pc = "stamp"
  /\ age' = 0
  /\ lastClean' = (got = Sources)
  /\ backoff' = NextBackoff(got # Sources)
  /\ left' = NextBackoff(got # Sources)
  /\ pc' = "sleep"
  /\ UNCHANGED <<cycle, stats, up, cancelled>>

\* time.After(backoff) fires and the next cycle starts from nothing.
Wake ==
  /\ pc = "sleep"
  /\ left = 0
  /\ pc' = "nodes"
  /\ left' = ListTicks
  /\ got' = {} /\ rows' = {} /\ txOk' = FALSE /\ saved' = {}
  /\ UNCHANGED <<shown, backoff, lastClean, up, cancelled>>

\* Mutant: the sleep does not listen to appCtx.
StopOnlyAwake == pc = "stamp"

\* select on appCtx.Done().
MayStop == pc = "sleep"

Stop ==
  /\ MayStop
  /\ cancelled
  /\ pc' = "stopped"
  /\ left' = 0
  /\ UNCHANGED <<cycle, shown, backoff, lastClean, up, cancelled>>

-----------------------------------------------------------------------------
\* The environment.

Cancel ==
  /\ ~cancelled
  /\ cancelled' = TRUE
  /\ UNCHANGED <<pc, left, cycle, shown, backoff, lastClean, up>>

\* A dependency goes away or comes back.
Flip ==
  /\ \E d \in Sources \cup {"db"} : up' = IF d \in up THEN up \ {d} ELSE up \cup {d}
  /\ UNCHANGED <<pc, left, cycle, shown, backoff, lastClean, cancelled>>

Tick ==
  /\ left > 0
  /\ ~(cancelled /\ MayStop)      \* a select with a ready case does not wait
  /\ left' = left - 1
  /\ age' = IF age = Never THEN Never ELSE age + 1
  /\ UNCHANGED <<pc, cycle, stats, backoff, lastClean, up, cancelled>>

\* The steps of the goroutine.
Work == ListNodes \/ ListPods \/ ListMetrics \/ BeginTx \/ Insert \/ Commit
          \/ Publish \/ Stamp \/ Wake

Next == Work \/ Stop \/ Cancel \/ Flip \/ Tick

Spec == Init /\ [][Next]_vars

\* The goroutine runs, time passes and a cancelled context wakes the select.  What a
\* healthy dependency owes is stated where it is used.
FairSpec == Spec /\ WF_vars(Work) /\ WF_vars(Stop) /\ WF_vars(Tick)

-----------------------------------------------------------------------------
\* handleHealth's collector check.
CollectorCheck ==
  IF age = Never THEN "starting" ELSE IF age > StaleThreshold THEN "degraded" ELSE "ok"

TypeOK ==
  /\ pc \in Sources \cup {"begin", "insert", "commit", "publish", "stamp", "sleep", "stopped"}
  /\ left \in Nat
  /\ got \subseteq Sources
  /\ rows \subseteq Pods /\ saved \subseteq Pods /\ stats \subseteq Pods
  /\ txOk \in BOOLEAN
  /\ backoff \in BaseBackoff..MaxBackoff
  /\ lastClean \in BOOLEAN
  /\ age \in Nat \cup {Never}
  /\ up \subseteq Sources \cup {"db"}
  /\ cancelled \in BOOLEAN

\* What a cycle leaves in PostgreSQL is all its pods or nothing, although a failed
\* INSERT only makes the loop continue.
SavedIsWhole == saved \in {{}, Pods}

\* Whatever a cycle has stored it also shows: no committed row is missing from the
\* snapshot the handlers serve once the cycle is over, not even if the answer to
\* COMMIT was lost.
SavedIsShown == pc \in {"stamp", "sleep"} => saved \subseteq stats

\* The longest a cycle takes after its lists, and altogether.
TailTicks == IF RetryTicks > DbTicks THEN RetryTicks ELSE DbTicks
CycleTicks == ListTicks + TailTicks + WorkTicks

\* While the collector lives, lastCollectTime is never older than a backoff, which is the
\* shortest one after a cycle without list errors whatever the database did, and one
\* cycle to all its deadlines, whatever fails in it.  On which side of
\* collectorStaleThreshold that is depends on DB_TIMEOUT_SEC and on the machine.
Pause == IF lastClean THEN BaseBackoff ELSE MaxBackoff
StampsInTime == age <= Pause + CycleTicks

\* Those who read the table, the snapshot and /health see what CollectorPromise says: a
\* cycle's rows appear at once, no snapshot is published with less than them, and no
\* verdict is given before a cycle has shown what it stored.
Promise == INSTANCE CollectorPromise
             WITH stored <- saved, shown <- stats, verdict <- CollectorCheck
KeepsPromise == Promise!Spec

\* With every dependency back for good and the agent not shutting down, the handlers
\* come to serve all pods and /health to say ok, for good, if the cycles no longer take
\* time.
Recovers ==
  (/\ <>[](up = Sources \cup {"db"})
   /\ <>[](~cancelled)
   /\ <>[][~ (Tick /\ pc # "sleep")]_vars)
    => <>[](CollectorCheck = "ok" /\ stats = Pods)

\* Shutdown: a cancelled appCtx ends the loop, wherever the cycle stands.
StopsOnCancel == cancelled ~> pc = "stopped"

=============================================================================
