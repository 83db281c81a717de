------------------------------ MODULE MCSessions ------------------------------
(* Sessions on a small instance: session and token ids are interchangeable. *)
EXTENDS Sessions, TLC

IdSymmetry == Permutations(Sid) \cup Permutations(Jti)
=============================================================================
