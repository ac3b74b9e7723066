-------------------------- MODULE CollectorPromise --------------------------
(***************************************************************************)
(* What the collector promises to those who see its results: the readers   *)
(* of the table metrics, the handlers that serve its snapshot, and         *)
(* /health.  It says nothing of the steps of a cycle, of deadlines or of   *)
(* the backoff (agent/main.go 252-431, api_handlers.go 114-130).           *)
(***************************************************************************)
CONSTANT Pods

VARIABLES
  stored,    \* the rows of this cycle in the table
  shown,     \* the pods of the snapshot
  verdict    \* the collector check of /health

results == <<stored, shown, verdict>>

Init == stored = {} /\ shown = {} /\ verdict = "starting"

\* The rows of a cycle appear all at once, and once.
Store ==
  /\ stored = {} /\ stored' = Pods
  /\ UNCHANGED <<shown, verdict>>

\* A snapshot may have less than all pods, but never less than the table.
Show ==
  /\ shown' \in SUBSET Pods
  /\ stored \subseteq shown'
  /\ UNCHANGED <<stored, verdict>>

\* A cycle ends well for /health whatever it achieved, once what it stored is shown.
Finish ==
  /\ stored \subseteq shown
  /\ verdict' = "ok"
  /\ UNCHANGED <<stored, shown>>

StartOver == stored' = {} /\ UNCHANGED <<shown, verdict>>

\* Only time degrades the verdict, and only one that was good.
GoStale ==
  /\ verdict = "ok" /\ verdict' = "degraded"
  /\ UNCHANGED <<stored, shown>>

Next == Store \/ Show \/ Finish \/ StartOver \/ GoStale

Spec == Init /\ [][Next]_results
=============================================================================
