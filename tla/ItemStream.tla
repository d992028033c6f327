----------------------------- MODULE ItemStream -----------------------------
(***************************************************************************)
(* What ReaderDeserializer promises: a stream of bytes is read item by      *)
(* item, and each call's answer depends on the bytes from the current       *)
(* offset and on the type asked for alone: not on how the reader cut the    *)
(* stream into reads, nor on errors it reported before.                     *)
(***************************************************************************)
EXTENDS Integers, FiniteSetsExt

CONSTANTS MaxBytes, Types, Verdicts

VARIABLES size, verdict, type, offset, outcome

vars == <<size, verdict, type, offset, outcome>>

(* A call is under way.                                                    *)
Pending == [tag |-> "pending"]

(* Ok(None), the clean end of the stream.                                   *)
Nothing == [tag |-> "none"]

(* Ok(Some(value)), decoded from the bytes at o.                            *)
Value(o) == [tag |-> "item", from |-> o]

Err(kind, at) == [tag |-> kind, at |-> at]

Init ==
  /\ size \in 0..MaxBytes
  /\ verdict \in [Types -> [0..(size - 1) -> Verdicts]]
  /\ type \in Types
  /\ offset = 0
  /\ outcome = Nothing

Call(t) ==
  /\ outcome # Pending
  /\ type' = t
  /\ outcome' = Pending
  /\ UNCHANGED <<size, verdict, offset>>

Return(r) ==
  /\ outcome = Pending
  /\ outcome' = r
  /\ UNCHANGED <<size, verdict, type>>

Rest == size - offset

Here == verdict[type][offset]

GiveItem ==
  /\ offset < size /\ Here.need <= Rest /\ Here.ok
  /\ Return(Value(offset))
  /\ offset' = offset + Here.need

GiveError ==
  /\ offset < size /\ Here.need <= Rest /\ ~Here.ok
  /\ Return(Err("malformed", offset + Here.at))
  /\ UNCHANGED offset

GiveEof ==
  /\ offset < size /\ Here.need > Rest
  /\ Return(Err("eof", offset + Min({Here.at, Rest})))
  /\ UNCHANGED offset

GiveEnd ==
  /\ offset = size
  /\ Return(Nothing)
  /\ UNCHANGED offset

(* The reader failed somewhere after the last item; nothing is lost by it.  *)
GiveIoError ==
  /\ \E at \in offset..size : Return(Err("io", at))
  /\ UNCHANGED offset

Answer == GiveItem \/ GiveError \/ GiveEof \/ GiveEnd \/ GiveIoError

Next == Answer \/ \E t \in Types : Call(t)

Safety == Init /\ [][Next]_vars

Spec == Safety /\ WF_vars(Answer)
=============================================================================
