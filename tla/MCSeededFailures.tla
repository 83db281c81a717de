--------------------------- MODULE MCSeededFailures ---------------------------
(* Simulated failures over every stream of a few draws. *)
EXTENDS SeededFailures
=============================================================================
