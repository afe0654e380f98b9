---------------------------- MODULE MCRateLimit ----------------------------
(* A small instance of RateLimit: API processes share one client's bucket. *)
EXTENDS RateLimit, TLC

CONSTANTS a, b

=============================================================================
