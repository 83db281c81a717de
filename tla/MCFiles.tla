------------------------------- MODULE MCFiles --------------------------------
(* The file store with interchangeable connections. *)
EXTENDS Files

UploadSymmetry == Permutations(Upload)
=============================================================================
