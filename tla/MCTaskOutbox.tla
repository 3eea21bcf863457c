---------------------------- MODULE MCTaskOutbox ----------------------------
(* TLC instances of TaskOutbox. *)
EXTENDS TaskOutbox, TLC

(* Processes with the same role are interchangeable; row ids are not       *)
(* (ORDER BY id).                                                          *)
NodeSymmetry == Permutations(WorkerNodes)
=============================================================================
