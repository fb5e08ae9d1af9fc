--------------------------- MODULE MCDurableContext ---------------------------
(***************************************************************************)
(* Instance of DurableContext for TLC: run, sleep, run, as in              *)
(* examples/durable_demo.ts, and a second sleep.  Results are times no     *)
(* clock shows.                                                            *)
(***************************************************************************)
EXTENDS DurableContext

TwoResults == {100, 101}
=============================================================================
