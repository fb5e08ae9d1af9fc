----------------------------- MODULE MCFileLock -----------------------------
(* Instance of FileLock for TLC. *)
EXTENDS FileLock
=============================================================================
