----------------------------- MODULE MCLogStore -----------------------------
(***************************************************************************)
(* Two overlapping calls on one log store.                                 *)
(***************************************************************************)
EXTENDS LogStore
=============================================================================
