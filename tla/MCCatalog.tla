------------------------------ MODULE MCCatalog ------------------------------
(* The core resources with posts, comments and reviews, on a small instance. *)
EXTENDS Catalog
=============================================================================
