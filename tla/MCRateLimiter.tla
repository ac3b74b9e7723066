--------------------------- MODULE MCRateLimiter ---------------------------
(* RateLimiter for TLC: two addresses, two requests a second, and a sweep     *)
(* every three seconds.                                                       *)
EXTENDS RateLimiter

CONSTANTS a1, a2

MCClients == {a1, a2}
=============================================================================
