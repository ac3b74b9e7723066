--------------------------- MODULE BreakerPromise ---------------------------
(***************************************************************************)
(* What the database circuit breaker of agent/pkg/store/breaker.go         *)
(* promises its callers, without goroutines, snapshots or clocks: its      *)
(* state is decided by the results recorded since the last success.  A     *)
(* success closes it; MaxFailures failures in a row open it; an open       *)
(* breaker may let a caller try the database again, and that trial ends    *)
(* with the next recorded result, whoever recorded it.                     *)
(***************************************************************************)
EXTENDS Integers

CONSTANTS MaxFailures,   \* consecutive failures that open the breaker
          FailureCap     \* the streak is counted up to this number

VARIABLES state,         \* "Closed", "Open" or "HalfOpen"
          streak         \* failures recorded since the last success

promiseVars == <<state, streak>>

NextStreak == IF streak < FailureCap THEN streak + 1 ELSE streak

Init ==
  /\ state = "Closed"
  /\ streak = 0

Succeed ==
  /\ state' = "Closed"
  /\ streak' = 0

Fail ==
  /\ streak' = NextStreak
  /\ state' = IF NextStreak >= MaxFailures THEN "Open" ELSE "Closed"

TryAgain ==
  /\ state = "Open"
  /\ state' = "HalfOpen"
  /\ UNCHANGED streak

Next == Succeed \/ Fail \/ TryAgain

Spec == Init /\ [][Next]_promiseVars

=============================================================================
