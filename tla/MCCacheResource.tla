--------------------------- MODULE MCCacheResource ----------------------------
(* The cache demo with two interchangeable clients. *)
EXTENDS CacheResource, TLC

ClientSymmetry == Permutations(Client)
=============================================================================
