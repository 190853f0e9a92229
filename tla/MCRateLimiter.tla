--------------------------- MODULE MCRateLimiter ---------------------------
(* Instances of RateLimiter for TLC: the constants are in the .cfg file.   *)
EXTENDS RateLimiter
=============================================================================
