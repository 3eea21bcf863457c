--------------------------- MODULE MCArchiveStore ---------------------------
(* TLC instances of ArchiveStore. *)
EXTENDS ArchiveStore, TLC

(* Create requests, uploads, users and cleaners are interchangeable.       *)
StoreSymmetry == Permutations(Records) \cup Permutations(Files)
                   \cup Permutations(Cleaners)
=============================================================================
