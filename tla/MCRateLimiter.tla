--------------------------- MODULE MCRateLimiter ---------------------------
(* Two calls in flight, of one client. *)
EXTENDS RateLimiter

CONSTANTS x1, c1, c2

MCClients == {x1}
MCCalls == {c1, c2}
=============================================================================
