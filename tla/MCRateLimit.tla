----------------------------- MODULE MCRateLimit -----------------------------
(* The rate limiter with two interchangeable callers. *)
EXTENDS RateLimit, TLC

CallerSymmetry == Permutations(Caller)
=============================================================================
