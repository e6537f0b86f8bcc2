-------------------------- MODULE MCCrcRateLimiter --------------------------
(* Model-checking instance of CrcRateLimiter. *)
EXTENDS CrcRateLimiter
=============================================================================
