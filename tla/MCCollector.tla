---------------------------- MODULE MCCollector ----------------------------
(* Collector for TLC: two pods, ticks of 5 seconds, the code's own durations. *)
EXTENDS CollectorDeadlines

CONSTANTS p1, p2

MCPods == {p1, p2}
=============================================================================
