---------------------------- MODULE MCRecordQuery ----------------------------
(* TLC instances of RecordQuery. *)
EXTENDS RecordQuery, TLC

(* Requests are interchangeable among themselves, and so are processes.    *)
QuerySymmetry == Permutations(Nodes) \cup Permutations(Creators)
=============================================================================
