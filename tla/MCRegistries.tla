---------------------------- MODULE MCRegistries ----------------------------
(***************************************************************************)
(* Instances of the two registries for TLC.  The stores share no state and *)
(* each invariant is about one of them, so only behaviours in which one of *)
(* the two is used are explored beyond the first step of the other.        *)
(***************************************************************************)
EXTENDS Registries

OneInUse == madePolicies = 0 \/ madeBackups = 0
=============================================================================
