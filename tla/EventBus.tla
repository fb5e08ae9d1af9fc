------------------------------ MODULE EventBus ------------------------------
(***************************************************************************)
(* The event bus (core/EventBus.ts): an array of handlers for each event,  *)
(* one bus for the whole process.  emit calls the handlers one after the   *)
(* other, synchronously, while they may change the array it runs over.     *)
(***************************************************************************)
EXTENDS Integers, SequencesExt

(* on pushes. *)
On(list, handler) == Append(list, handler)

(* off splices the first occurrence out of the live array. *)
Off(list, handler) == RemoveFirst(list, handler)

(* emit is a forEach: how far it goes is fixed when it begins, and the     *)
(* index moves over the array as it is by then.                            *)
Emission(event, data, list) ==
  [event |-> event, data |-> data, next |-> 1, last |-> Len(list)]

(* There is a handler left for the emission e over the live array. *)
Delivers(e, list) == e.next <= e.last /\ e.next <= Len(list)

Receiver(e, list) == list[e.next]

(* The index moves on whether or not the handler took itself out, so that  *)
(* the handler behind one that did is skipped.                             *)
Advance(e) == [e EXCEPT !.next = @ + 1]
=============================================================================
