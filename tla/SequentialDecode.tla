-------------------------- MODULE SequentialDecode --------------------------
(***************************************************************************)
(* What the decoders of a CBOR sequence in src/parallel.rs promise, with    *)
(* no scan, no chunks and no threads: one step from the call to its result. *)
(* "Results retain input order. Errors include the zero-based sequence item *)
(* index", and a structural error anywhere in the sequence takes precedence *)
(* over an item that its target type rejects.                               *)
(***************************************************************************)
EXTENDS Naturals, FiniteSetsExt

CONSTANT Inputs

VARIABLES input, result

(* The call has not returned.                                              *)
Pending == [tag |-> "pending"]

Ok(values) == [tag |-> "ok", values |-> values]

Err(cause, item) == [tag |-> "err", cause |-> cause, item |-> item]

(***************************************************************************)
(* The result the input determines, whatever the thresholds, the number of  *)
(* threads and their schedule.  Item i of the sequence is the number i.     *)
(***************************************************************************)
Outcome(in) ==
  IF in.malformed THEN Err("boundary", in.items)
  ELSE IF in.failing # {} THEN Err("item", Min(in.failing))
  ELSE Ok([i \in 1..in.items |-> i - 1])

Init ==
  /\ input \in Inputs
  /\ result = Pending

Return ==
  /\ result = Pending
  /\ result' = Outcome(input)
  /\ UNCHANGED input

vars == <<input, result>>

Safety == Init /\ [][Return]_vars

Spec == Safety /\ WF_vars(Return)
=============================================================================
