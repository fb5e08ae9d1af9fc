----------------------------- MODULE Registries -----------------------------
(***************************************************************************)
(* Policy store and backup store in one process: each has its own          *)
(* connection to the database file, and both die together.                 *)
(***************************************************************************)
EXTENDS PolicyStore, BackupStore

CONSTANT MaxRestarts  \* bound: how often the process dies

ASSUME RestartsAssumption == MaxRestarts \in Nat

VARIABLE restarts  \* history: how often the process died

vars == <<policyVars, backupVars, restarts>>

Init == PolicyInit /\ BackupInit /\ restarts = 0

Crash ==
  /\ restarts < MaxRestarts
  /\ restarts' = restarts + 1
  /\ PolicyCrash
  /\ BackupCrash

Next ==
  \/ PolicyNext /\ UNCHANGED <<backupVars, restarts>>
  \/ BackupNext /\ UNCHANGED <<policyVars, restarts>>
  \/ Crash

Spec == Init /\ [][Next]_vars

(* Types of the variables. *)
TypeOK == PolicyTypeOK /\ BackupTypeOK /\ restarts \in 0..MaxRestarts
=============================================================================
