-------------------------------- MODULE Maps --------------------------------
(***************************************************************************)
(* The Maps of JavaScript and the tables that the stores keep: functions   *)
(* whose domain grows and shrinks.                                         *)
(***************************************************************************)

(* Map.set and INSERT: the key k has the value v, whether or not it had one before. *)
Put(m, k, v) == [x \in DOMAIN m \cup {k} |-> IF x = k THEN v ELSE m[x]]
=============================================================================
