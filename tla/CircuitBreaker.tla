--------------------------- MODULE CircuitBreaker ---------------------------
(***************************************************************************)
(* The circuit breaker in front of PostgreSQL (agent/pkg/store/breaker.go) *)
(* and the goroutines that call DBBreaker.Execute: the retention worker    *)
(* and the HTTP request handlers.                                          *)
(*                                                                         *)
(* Execute is not atomic.  allowRequest copies state and lastFailure under *)
(* a read lock, releases it, compares the copy with the clock, and only    *)
(* then takes the write lock; the query runs with no lock held; the result *)
(* is recorded under the write lock later still.  Each of these is a step. *)
(*                                                                         *)
(* Time is kept as ages: `age' is time.Since(lastFailure) in ticks and     *)
(* seenAge[c] is time.Since of the copy c holds.  Both stop at             *)
(* ResetTimeout + 1, since the code only asks whether they exceed          *)
(* ResetTimeout.                                                           *)
(***************************************************************************)
EXTENDS Integers

CONSTANTS
  Worker,        \* the retention worker goroutine (store.go RunRetentionJobs), and
                 \* EnsureSchema, which main runs before it starts
  Clients,       \* HTTP handler goroutines; their context is r.Context()
  MaxFailures,   \* maxFailures (5 in DBBreaker)
  ResetTimeout,  \* resetTimeout in ticks (30 s in DBBreaker)
  FailureCap     \* failures is counted up to here: only >= MaxFailures matters

Callers == Clients \cup {Worker}

ASSUME BreakerAssumption ==
  /\ Worker \notin Clients
  /\ MaxFailures \in Nat \ {0}
  /\ ResetTimeout \in Nat
  /\ FailureCap \in Nat
  /\ FailureCap >= MaxFailures

VARIABLES
  state,      \* cb.state
  failures,   \* cb.failures
  age,        \* time.Since(cb.lastFailure)
  pc,         \* where each caller stands in Execute
  seenAge,    \* time.Since of the lastFailure a caller copied
  db,         \* whether PostgreSQL answers: "up" or "down"
  wasDown     \* history: PostgreSQL has been down at some time

breakerVars == <<state, failures, age>>
dbVars == <<db, wasDown>>
vars == <<state, failures, age, pc, seenAge, db, wasDown>>

-----------------------------------------------------------------------------
LongAgo == ResetTimeout + 1

Older(a) == IF a < LongAgo THEN a + 1 ELSE a

\* The callers whose query is out, or back and not yet recorded.
InFlight(c) == pc[c] \in {"calling", "succeeded", "failed", "cancelled"}

Init ==
  /\ state = "Closed"
  /\ failures = 0
  /\ age = LongAgo
  /\ pc = [c \in Callers |-> "idle"]
  /\ seenAge = [c \in Callers |-> 0]
  /\ db \in {"up", "down"}     \* the agent starts without it too (main.go 238-241)
  /\ wasDown = (db = "down")

-----------------------------------------------------------------------------
\* allowRequest.

\* The copy of the state taken under the read lock is not Open: the query starts.
Admit(c) ==
  /\ pc[c] = "idle"
  /\ state # "Open"
  /\ pc' = [pc EXCEPT ![c] = "calling"]
  /\ UNCHANGED <<breakerVars, seenAge, dbVars>>

\* The copy is Open: keep the lastFailure that came with it.
SeeOpen(c) ==
  /\ pc[c] = "idle"
  /\ state = "Open"
  /\ pc' = [pc EXCEPT ![c] = "sawOpen"]
  /\ seenAge' = [seenAge EXCEPT ![c] = age]
  /\ UNCHANGED <<breakerVars, dbVars>>

\* Mutant: a refused call counts as one more failure of the database.
FailFastTouchesClock(c) ==
  /\ pc[c] = "sawOpen"
  /\ seenAge[c] <= ResetTimeout
  /\ pc' = [pc EXCEPT ![c] = "idle"]
  /\ seenAge' = [seenAge EXCEPT ![c] = 0]
  /\ age' = 0
  /\ UNCHANGED <<state, failures, dbVars>>

\* Too early: ErrCircuitOpen, the query never runs and nothing is recorded.
FailFast(c) ==
  /\ pc[c] = "sawOpen"
  /\ seenAge[c] <= ResetTimeout
  /\ pc' = [pc EXCEPT ![c] = "idle"]
  /\ seenAge' = [seenAge EXCEPT ![c] = 0]
  /\ UNCHANGED <<breakerVars, dbVars>>

\* The copied failure is old enough: go for the write lock.
WaitedEnough(c) ==
  /\ pc[c] = "sawOpen"
  /\ seenAge[c] > ResetTimeout
  /\ pc' = [pc EXCEPT ![c] = "promoting"]
  /\ seenAge' = [seenAge EXCEPT ![c] = 0]
  /\ UNCHANGED <<breakerVars, dbVars>>

\* Mutant: no second look at the state under the write lock.
PromotedUnchecked == "HalfOpen"

\* The state after the double check under the write lock.
Promoted == IF state = "Open" THEN "HalfOpen" ELSE state

Promote(c) ==
  /\ pc[c] = "promoting"
  /\ state' = Promoted
  /\ pc' = [pc EXCEPT ![c] = "calling"]
  /\ UNCHANGED <<failures, age, seenAge, dbVars>>

-----------------------------------------------------------------------------
\* fn(): the query.  Its outcome is fixed when it returns, and recorded later.

CallSucceeds(c) ==
  /\ pc[c] = "calling"
  /\ db = "up"
  /\ pc' = [pc EXCEPT ![c] = "succeeded"]
  /\ UNCHANGED <<breakerVars, seenAge, dbVars>>

\* PostgreSQL refuses, or the query's own timeout expires.
CallFails(c) ==
  /\ pc[c] = "calling"
  /\ db = "down"
  /\ pc' = [pc EXCEPT ![c] = "failed"]
  /\ UNCHANGED <<breakerVars, seenAge, dbVars>>

\* The HTTP client goes away: r.Context() is cancelled and QueryContext returns
\* context.Canceled.  The worker's context is context.Background().
Cancel(c) ==
  /\ c \in Clients
  /\ pc[c] = "calling"
  /\ pc' = [pc EXCEPT ![c] = "cancelled"]
  /\ UNCHANGED <<breakerVars, seenAge, dbVars>>

-----------------------------------------------------------------------------
\* recordResult, one critical section.

\* Mutant: the failure is not counted.
CountedNever == failures

\* failures++
Counted == IF failures < FailureCap THEN failures + 1 ELSE failures

\* Mutant: a failed trial leaves the breaker half-open.
AfterFailureNoRetrip(count) ==
  IF state = "Closed" /\ count >= MaxFailures THEN "Open" ELSE state

\* Mutant: one failure too many before the breaker opens.
AfterFailureLate(count) ==
  IF (state = "Closed" /\ count > MaxFailures) \/ state = "HalfOpen" THEN "Open" ELSE state

AfterFailure(count) ==
  IF (state = "Closed" /\ count >= MaxFailures) \/ state = "HalfOpen" THEN "Open" ELSE state

RecordFailure(c) ==
  /\ pc[c] \in {"failed", "cancelled"}
  /\ failures' = Counted
  /\ state' = AfterFailure(Counted)
  /\ age' = 0
  /\ pc' = [pc EXCEPT ![c] = "idle"]
  /\ UNCHANGED <<seenAge, dbVars>>

\* Mutant: a success takes one failure back instead of forgetting all.
RecordSuccessDecays(c) ==
  /\ pc[c] = "succeeded"
  /\ failures' = failures - 1
  /\ state' = "Closed"
  /\ pc' = [pc EXCEPT ![c] = "idle"]
  /\ UNCHANGED <<age, seenAge, dbVars>>

RecordSuccess(c) ==
  /\ pc[c] = "succeeded"
  /\ failures' = 0
  /\ state' = "Closed"
  /\ pc' = [pc EXCEPT ![c] = "idle"]
  /\ UNCHANGED <<age, seenAge, dbVars>>

-----------------------------------------------------------------------------
\* The environment.

Tick ==
  /\ age' = Older(age)
  /\ seenAge' = [c \in Callers |-> IF pc[c] = "sawOpen" THEN Older(seenAge[c]) ELSE seenAge[c]]
  /\ UNCHANGED <<state, failures, pc, dbVars>>

DbGoesDown ==
  /\ db = "up"
  /\ db' = "down"
  /\ wasDown' = TRUE
  /\ UNCHANGED <<breakerVars, pc, seenAge>>

DbComesBack ==
  /\ db = "down"
  /\ db' = "up"
  /\ UNCHANGED <<breakerVars, pc, seenAge, wasDown>>

Enter(c) == Admit(c) \/ SeeOpen(c)

Proceed(c) ==
  \/ FailFast(c) \/ WaitedEnough(c) \/ Promote(c)
  \/ CallSucceeds(c) \/ CallFails(c)
  \/ RecordFailure(c) \/ RecordSuccess(c)

Next ==
  \/ \E c \in Callers : Enter(c) \/ Proceed(c) \/ Cancel(c)
  \/ Tick \/ DbGoesDown \/ DbComesBack

Spec == Init /\ [][Next]_vars

\* A started Execute goes on: goroutines are scheduled and every query has a
\* deadline.  Only the worker is sure to call again (its ticker never stops);
\* no HTTP client has to come, and none has to leave.
FairSpec ==
  /\ Spec
  /\ WF_vars(Tick)
  /\ WF_vars(Enter(Worker))
  /\ \A c \in Callers : WF_vars(Proceed(c))

-----------------------------------------------------------------------------
TypeOK ==
  /\ state \in {"Closed", "Open", "HalfOpen"}
  /\ failures \in 0..FailureCap
  /\ age \in 0..LongAgo
  /\ pc \in [Callers -> {"idle", "sawOpen", "promoting", "calling",
                         "succeeded", "failed", "cancelled"}]
  /\ seenAge \in [Callers -> 0..LongAgo]
  /\ db \in {"up", "down"}
  /\ wasDown \in BOOLEAN

\* The breaker is away from Closed exactly while the failures recorded since the
\* last success have reached maxFailures, whatever stale copies callers acted on
\* (allowRequest's double check, recordResult's two branches).
StateTracksFailures == state # "Closed" <=> failures >= MaxFailures

\* The breaker is never stranded half-open: the caller whose trial it waits for
\* is still out with its query, so a result will come (HalfOpen has no timeout of
\* its own, breaker.go 81-84).
HalfOpenHasTrial == state = "HalfOpen" => \E c \in Callers : InFlight(c)

\* The breaker keeps the promise of BreakerPromise, with the failures counter as
\* the streak.
Promise == INSTANCE BreakerPromise WITH streak <- failures

KeepsPromise == Promise!Spec

\* Once PostgreSQL stays up and no client walks away from a query, the breaker
\* closes and stays closed, with no one but the retention worker calling.
Recovers ==
  (<>[](db = "up") /\ <>[][~ \E c \in Clients : Cancel(c)]_vars)
    => <>[](state = "Closed")

\* If PostgreSQL goes away for good, the breaker opens and does not close again,
\* late answers of earlier queries notwithstanding.
OutageTrips == <>[](db = "down") => <>[](state # "Closed")

\* breaker.go 44: the breaker "waits 30 seconds before testing recovery".
TestsOnlyAfterTimeout ==
  [][state = "Open" /\ state' = "HalfOpen" => age > ResetTimeout]_vars

\* breaker.go 14: StateOpen means "DB is down, fail fast", so a database that has
\* never been down is not refused.
OpenMeansDbFailed == state = "Open" => wasDown

=============================================================================
