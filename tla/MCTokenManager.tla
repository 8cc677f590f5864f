-------------------------- MODULE MCTokenManager --------------------------
(* TokenManager with 3-bit names: every set of names that contains 0 is    *)
(* reachable, so every pattern of gaps between runs occurs.                *)
EXTENDS TokenManager
=============================================================================
