--------------------------- MODULE DurableWorkflow ---------------------------
(***************************************************************************)
(* What a durable handler promises those it tells of its steps, without    *)
(* executions: in the life of one process the journal grows by one step at *)
(* a time, in program order, and no step is entered twice or revised.      *)
(* With the process the journal is gone.                                   *)
(***************************************************************************)
EXTENDS Naturals, Sequences

CONSTANTS
  NumSteps, \* steps of the handler
  Values    \* what a step may return

VARIABLES
  journal,  \* the steps so far, a sequence of [step, value]
  deaths    \* how often the process has died

Init == journal = << >> /\ deaths = 0

Record(v) ==
  /\ Len(journal) < NumSteps
  /\ journal' = Append(journal, [step |-> Len(journal) + 1, value |-> v])
  /\ UNCHANGED deaths

Die ==
  /\ journal' = << >>
  /\ deaths' = deaths + 1

Next == Die \/ \E v \in Values : Record(v)

Spec == Init /\ [][Next]_<<journal, deaths>>
=============================================================================
