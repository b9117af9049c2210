---------------------------- MODULE MCRateLimiter ----------------------------
(***************************************************************************)
(* RateLimiter with three callers; the clock of the last may be ahead.     *)
(***************************************************************************)
EXTENDS RateLimiter

CONSTANTS c1, c2, c3

MCSkew == [c \in Callers |-> IF c = c3 THEN 1 ELSE 0]
=============================================================================
