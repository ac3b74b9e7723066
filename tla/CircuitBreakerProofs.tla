------------------------ MODULE CircuitBreakerProofs ------------------------
(***************************************************************************)
(* CircuitBreaker for any set of clients, any maxFailures and any          *)
(* resetTimeout: the type invariant, the two state invariants, and the     *)
(* refinement of BreakerPromise.                                           *)
(*                                                                         *)
(* The inductive invariant is the type invariant with StateTracksFailures  *)
(* and HalfOpenHasTrial.  Refinement needs StateTracksFailures: it is what *)
(* makes a failure recorded while the breaker is open or half-open leave   *)
(* it open.                                                                *)
(***************************************************************************)
EXTENDS CircuitBreaker, TLAPS

Inv == TypeOK /\ StateTracksFailures /\ HalfOpenHasTrial

\* The counter stays a number up to FailureCap, and reaches maxFailures
\* exactly when counting one more failure makes it so.
LEMMA CountedBounds ==
  ASSUME failures \in 0..FailureCap
  PROVE  /\ Counted \in 0..FailureCap
         /\ Counted > 0
         /\ failures >= MaxFailures => Counted >= MaxFailures
  BY BreakerAssumption DEF Counted

\* An age stays between 0 and LongAgo when time passes.
LEMMA OlderBounds ==
  ASSUME NEW a \in 0..LongAgo
  PROVE  Older(a) \in 0..LongAgo
  BY BreakerAssumption DEF Older, LongAgo

\* TypeOK is inductive on its own (CircuitBreaker's variables never leave
\* their ranges).
LEMMA TypeOKStep == TypeOK /\ [Next]_vars => TypeOK'
<1> SUFFICES ASSUME TypeOK, [Next]_vars
             PROVE  TypeOK'
  OBVIOUS
<1> USE BreakerAssumption DEF TypeOK, LongAgo
<1>1. ASSUME NEW c \in Callers, Admit(c)
      PROVE  TypeOK'
  BY <1>1 DEF Admit, breakerVars, dbVars
<1>2. ASSUME NEW c \in Callers, SeeOpen(c)
      PROVE  TypeOK'
  BY <1>2 DEF SeeOpen, breakerVars, dbVars
<1>3. ASSUME NEW c \in Callers, FailFast(c)
      PROVE  TypeOK'
  BY <1>3 DEF FailFast, breakerVars, dbVars
<1>4. ASSUME NEW c \in Callers, WaitedEnough(c)
      PROVE  TypeOK'
  BY <1>4 DEF WaitedEnough, breakerVars, dbVars
<1>5. ASSUME NEW c \in Callers, Promote(c)
      PROVE  TypeOK'
  BY <1>5 DEF Promote, Promoted, dbVars
<1>6. ASSUME NEW c \in Callers, CallSucceeds(c) \/ CallFails(c) \/ Cancel(c)
      PROVE  TypeOK'
  BY <1>6 DEF CallSucceeds, CallFails, Cancel, breakerVars, dbVars
<1>7. ASSUME NEW c \in Callers, RecordFailure(c)
      PROVE  TypeOK'
  <2>1. failures' \in 0..FailureCap
    BY <1>7, CountedBounds DEF RecordFailure
  <2>2. state' \in {"Closed", "Open", "HalfOpen"}
    BY <1>7 DEF RecordFailure, AfterFailure
  <2>3. wasDown' \in BOOLEAN
    BY <1>7 DEF RecordFailure, dbVars
  <2>4. QED
    BY <1>7, <2>1, <2>2, <2>3 DEF RecordFailure, dbVars
<1>8. ASSUME NEW c \in Callers, RecordSuccess(c)
      PROVE  TypeOK'
  <2>1. failures' \in 0..FailureCap
    BY <1>8 DEF RecordSuccess
  <2>2. wasDown' \in BOOLEAN
    BY <1>8 DEF RecordSuccess, dbVars
  <2>3. QED
    BY <1>8, <2>1, <2>2 DEF RecordSuccess, dbVars
<1>9. CASE Tick
  <2>1. age' \in 0..LongAgo
    BY <1>9, OlderBounds DEF Tick
  <2>2. seenAge' \in [Callers -> 0..LongAgo]
    BY <1>9, OlderBounds DEF Tick
  <2>3. QED
    BY <1>9, <2>1, <2>2 DEF Tick, dbVars
<1>10. CASE DbGoesDown \/ DbComesBack
  BY <1>10 DEF DbGoesDown, DbComesBack, breakerVars, dbVars
<1>11. CASE UNCHANGED vars
  BY <1>11 DEF vars
<1>12. QED
  BY <1>1, <1>2, <1>3, <1>4, <1>5, <1>6, <1>7, <1>8, <1>9, <1>10, <1>11
     DEF Next, Enter, Proceed

\* Initially the breaker is closed with nothing counted.
LEMMA InitInv == Init => Inv
<1> SUFFICES ASSUME Init PROVE Inv
  OBVIOUS
<1>1. TypeOK
  <2>1. wasDown \in BOOLEAN
    BY DEF Init
  <2>2. failures \in 0..FailureCap /\ age \in 0..LongAgo /\ seenAge \in [Callers -> 0..LongAgo]
    BY BreakerAssumption DEF Init, LongAgo
  <2>3. QED
    BY <2>1, <2>2 DEF Init, TypeOK
<1>2. StateTracksFailures /\ HalfOpenHasTrial
  BY BreakerAssumption DEF Init, StateTracksFailures, HalfOpenHasTrial
<1>3. QED
  BY <1>1, <1>2 DEF Inv

\* Every step keeps the state in line with the failures counter: only the
\* two Record actions change the counter, and Promote moves only an open
\* breaker.
LEMMA TracksStep == Inv /\ [Next]_vars => StateTracksFailures'
<1> SUFFICES ASSUME Inv, [Next]_vars
             PROVE  StateTracksFailures'
  OBVIOUS
<1> USE DEF Inv, StateTracksFailures
<1>1. ASSUME NEW c \in Callers, RecordFailure(c)
      PROVE  StateTracksFailures'
  <2>1. failures' = Counted /\ state' = AfterFailure(Counted)
    BY <1>1 DEF RecordFailure
  <2>2. state = "Closed" \/ Counted >= MaxFailures
    BY CountedBounds DEF TypeOK
  <2>3. CASE state = "Closed"
    BY <2>1, <2>3, CountedBounds, BreakerAssumption DEF TypeOK, AfterFailure
  <2>4. CASE state # "Closed"
    BY <2>1, <2>2, <2>4 DEF TypeOK, AfterFailure
  <2>5. QED
    BY <2>3, <2>4
<1>2. ASSUME NEW c \in Callers, RecordSuccess(c)
      PROVE  StateTracksFailures'
  BY <1>2, BreakerAssumption DEF RecordSuccess
<1>3. ASSUME NEW c \in Callers, Promote(c)
      PROVE  StateTracksFailures'
  BY <1>3 DEF Promote, Promoted
<1>4. ASSUME state' = state, failures' = failures
      PROVE  StateTracksFailures'
  BY <1>4
<1>5. QED
  BY <1>1, <1>2, <1>3, <1>4
     DEF Next, Enter, Proceed, Admit, SeeOpen, FailFast, WaitedEnough, CallSucceeds,
         CallFails, Cancel, Tick, DbGoesDown, DbComesBack, breakerVars, dbVars, vars

\* Every step leaves a half-open breaker with a caller in flight: the caller
\* that promotes it starts its query, and any recorded result takes the
\* breaker out of HalfOpen.
LEMMA TrialStep == Inv /\ [Next]_vars => HalfOpenHasTrial'
<1> SUFFICES ASSUME Inv, [Next]_vars, state' = "HalfOpen"
             PROVE  \E c \in Callers : InFlight(c)'
  BY DEF HalfOpenHasTrial
<1> USE DEF Inv, TypeOK, InFlight
<1>1. ASSUME NEW c \in Callers, Promote(c)
      PROVE  \E d \in Callers : InFlight(d)'
  BY <1>1 DEF Promote
<1>2. ASSUME NEW c \in Callers, RecordFailure(c) \/ RecordSuccess(c)
      PROVE  FALSE
  BY <1>2 DEF RecordFailure, RecordSuccess, AfterFailure
<1>3. ASSUME state = "HalfOpen",
             \A d \in Callers : InFlight(d) => InFlight(d)'
      PROVE  \E d \in Callers : InFlight(d)'
  BY <1>3 DEF HalfOpenHasTrial
<1>4. ASSUME NEW c \in Callers,
             Admit(c) \/ SeeOpen(c) \/ FailFast(c) \/ WaitedEnough(c)
               \/ CallSucceeds(c) \/ CallFails(c) \/ Cancel(c)
      PROVE  /\ state' = state
             /\ \A d \in Callers : InFlight(d) => InFlight(d)'
  BY <1>4 DEF Admit, SeeOpen, FailFast, WaitedEnough, CallSucceeds, CallFails, Cancel,
              breakerVars, dbVars
<1>5. ASSUME Tick \/ DbGoesDown \/ DbComesBack \/ UNCHANGED vars
      PROVE  state' = state /\ pc' = pc
  BY <1>5 DEF Tick, DbGoesDown, DbComesBack, vars, breakerVars, dbVars
<1>6. QED
  BY <1>1, <1>2, <1>3, <1>4, <1>5 DEF Next, Enter, Proceed

LEMMA InvStep == Inv /\ [Next]_vars => Inv'
  BY TypeOKStep, TracksStep, TrialStep DEF Inv

\* The inductive invariant holds in every reachable state.
THEOREM Invariance == Spec => []Inv
<1>1. Spec => Init /\ [][Next]_vars
  BY DEF Spec
<1>2. QED
  BY <1>1, InitInv, InvStep, PTL

\* Type correctness, for every value of the constants.
THEOREM TypeCorrect == Spec => []TypeOK
<1>1. Inv => TypeOK
  BY DEF Inv
<1>2. QED
  BY <1>1, Invariance, PTL

\* The breaker is away from Closed exactly while the failures since the last
\* success number at least maxFailures.
THEOREM StateMatchesStreak == Spec => []StateTracksFailures
<1>1. Inv => StateTracksFailures
  BY DEF Inv
<1>2. QED
  BY <1>1, Invariance, PTL

\* A half-open breaker always has a query out whose result will move it.
THEOREM NeverStranded == Spec => []HalfOpenHasTrial
<1>1. Inv => HalfOpenHasTrial
  BY DEF Inv
<1>2. QED
  BY <1>1, Invariance, PTL

\* Each step of the breaker is a step of BreakerPromise or leaves its
\* variables alone.
LEMMA PromiseStep == Inv /\ [Next]_vars => [Promise!Next]_(Promise!promiseVars)
<1> SUFFICES ASSUME Inv, [Next]_vars
             PROVE  [Promise!Next]_(Promise!promiseVars)
  OBVIOUS
<1> USE DEF Promise!Next, Promise!promiseVars
<1>1. ASSUME NEW c \in Callers, RecordFailure(c)
      PROVE  Promise!Fail
  <2>1. Promise!NextStreak = Counted
    BY DEF Promise!NextStreak, Counted
  <2>2. failures' = Counted /\ state' = AfterFailure(Counted)
    BY <1>1 DEF RecordFailure
  <2>3. Counted >= MaxFailures <=> state' # "Closed"
    BY <2>2, TracksStep DEF StateTracksFailures
  <2>4. state' \in {"Open", "Closed"}
    BY <2>2 DEF AfterFailure, Inv, TypeOK
  <2>5. QED
    BY <2>1, <2>2, <2>3, <2>4 DEF Promise!Fail
<1>2. ASSUME NEW c \in Callers, RecordSuccess(c)
      PROVE  Promise!Succeed
  BY <1>2 DEF RecordSuccess, Promise!Succeed
<1>3. ASSUME NEW c \in Callers, Promote(c)
      PROVE  Promise!TryAgain \/ UNCHANGED <<state, failures>>
  BY <1>3 DEF Promote, Promoted, Promise!TryAgain
<1>4. QED
  BY <1>1, <1>2, <1>3
     DEF Next, Enter, Proceed, Admit, SeeOpen, FailFast, WaitedEnough, CallSucceeds,
         CallFails, Cancel, Tick, DbGoesDown, DbComesBack, breakerVars, dbVars, vars

\* The breaker with its goroutines, stale copies and clock implements the
\* promise: its state is decided by the results recorded since the last
\* success.
THEOREM BreakerKeepsPromise == Spec => KeepsPromise
<1>1. Init => Promise!Init
  BY DEF Init, Promise!Init
<1>2. Spec => Init /\ [][Next]_vars
  BY DEF Spec
<1>3. QED
  BY <1>1, <1>2, Invariance, PromiseStep, PTL DEF KeepsPromise, Promise!Spec

=============================================================================
