----------------------------- MODULE MCTaskStore -----------------------------
(***************************************************************************)
(* Instances of TaskStore for TLC: the tasks are interchangeable.          *)
(***************************************************************************)
EXTENDS TaskStore, TLC

TaskSymmetry == Permutations(Tasks)
=============================================================================
