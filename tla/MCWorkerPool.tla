---------------------------- MODULE MCWorkerPool ----------------------------
(***************************************************************************)
(* Instances of WorkerPool for TLC.  o1 and o2 are rows recovered at boot, *)
(* in this order, c1 is created or scheduled after it.                     *)
(***************************************************************************)
EXTENDS WorkerPool

CONSTANTS o1, o2

TwoOrphans == <<o1, o2>>
=============================================================================
