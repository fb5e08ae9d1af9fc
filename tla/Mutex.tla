-------------------------------- MODULE Mutex --------------------------------
(***************************************************************************)
(* Mutual exclusion, as a caller of FileLock means it: the lock is free or *)
(* one caller's, and passes from one to another only through free.         *)
(***************************************************************************)

CONSTANTS Callers, Nobody

VARIABLE holder

Init == holder = Nobody

Take(c) == holder = Nobody /\ holder' = c

(* Release, or death of the process. *)
Give == holder # Nobody /\ holder' = Nobody

Next == Give \/ \E c \in Callers : Take(c)

Spec == Init /\ [][Next]_holder
=============================================================================
