-------------------------- MODULE MCCircuitBreaker --------------------------
(* CircuitBreaker for TLC: the worker, two request handlers, a breaker that  *)
(* opens after two failures and waits one tick.                              *)
EXTENDS CircuitBreaker

CONSTANTS w, h1, h2

MCClients == {h1, h2}
=============================================================================
