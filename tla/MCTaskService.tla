---------------------------- MODULE MCTaskService ----------------------------
(* Small instances of TaskService for TLC. *)
EXTENDS TaskService, TLC

Symmetry == Permutations(Goroutines)
=============================================================================
