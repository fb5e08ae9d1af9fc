--------------------------- MODULE MCAgentEngine ---------------------------
(***************************************************************************)
(* Two runs and one dashboard around a pool of one worker, so that one     *)
(* agent's task can wait behind the other's.  One run makes two calls at   *)
(* most, in one response or in two, the other makes one.                   *)
(***************************************************************************)
EXTENDS AgentEngine

CONSTANTS a1, a2

TwoAndOne == (a1 :> 2) @@ (a2 :> 1)
=============================================================================
