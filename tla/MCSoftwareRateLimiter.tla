----------------------- MODULE MCSoftwareRateLimiter -----------------------
(* Small instances of the software rate limiter. *)
EXTENDS SoftwareRateLimiter
=============================================================================
