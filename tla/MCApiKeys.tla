------------------------------ MODULE MCApiKeys -------------------------------
(* API keys with four interchangeable key values. *)
EXTENDS ApiKeys, TLC

KeySymmetry == Permutations(ApiKey)
=============================================================================
