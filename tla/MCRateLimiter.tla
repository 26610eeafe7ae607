--------------------------- MODULE MCRateLimiter ---------------------------
(***************************************************************************)
(* Two callers on a cap of two, with time for four windows.                *)
(***************************************************************************)
EXTENDS RateLimiter
=============================================================================
