--------------------------- MODULE MCRateLimiter ----------------------------
(***************************************************************************)
(* Two calls in a window of three ticks, over four windows.                *)
(***************************************************************************)
EXTENDS RateLimiter
=============================================================================
