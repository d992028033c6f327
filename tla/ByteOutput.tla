----------------------------- MODULE ByteOutput -----------------------------
(***************************************************************************)
(* Encoded bytes on their way to an output.  A call of an encoder writes    *)
(* its bytes in one or more pieces, and the output takes a piece as it can: *)
(*   "vec"    Vec<u8>, all of it                                            *)
(*   "count"  CountSink, which only counts                                  *)
(*   "slice"  SliceOutput and SliceSink: all of it or none                  *)
(*   "io"     IoWrite: what std::io::Write takes of it, again and again     *)
(* The first failure ends the call; the caller may make the next one all    *)
(* the same.  What the calls encode is the matter of Encoder.               *)
(***************************************************************************)
EXTENDS Integers, Sequences

CONSTANTS
  Fronts,  \* the encoders: "encoder", "serializer", "deterministic"
  MaxRoom, \* bound on the length of a slice
  Scripts  \* Scripts[f]: the sequences of calls made of the encoder f

Byte == 0..255

(* Which output an encoder is used with: the deterministic serializer only   *)
(* ever writes to a vector.                                                  *)
Outputs ==
  [encoder |-> {"vec", "slice", "io"},
   serializer |-> {"vec", "slice", "count", "io"},
   deterministic |-> {"vec"}]

(***************************************************************************)
(* A call is known by the bytes it encodes, by the offsets in them where    *)
(* one piece ends, and by the error the encoder itself ends it with after   *)
(* them, "ok" if it does not: never an error of the writer.                 *)
(***************************************************************************)
IsCall(c) ==
  /\ c.bytes \in Seq(Byte)
  /\ c.cuts \subseteq 1..Len(c.bytes)
  /\ c.bytes # <<>> => Len(c.bytes) \in c.cuts
  /\ c.refusal \notin {"write_zero", "io"}

IsScript(s) == Len(s) \in Nat /\ \A i \in 1..Len(s) : IsCall(s[i])

ASSUME OutputAssumption ==
  /\ Fronts \subseteq DOMAIN Outputs
  /\ MaxRoom \in Nat
  /\ \A f \in Fronts : \A s \in Scripts[f] : IsScript(s)

VARIABLES
  front,    \* the encoder
  kind,     \* the output
  room,     \* the length of the slice
  script,   \* the calls the caller makes
  made,     \* how many of them have returned
  phase,    \* "idle" between calls, "writing"
  given,    \* how many bytes of the call the output has taken
  taken,    \* the bytes the output holds, or has counted
  offset,   \* SliceOutput::len, SliceSink, CountSink::position, IoWrite::offset
  full,     \* the writer takes no more bytes
  settled,  \* history: taken when the last call returned
  answer,   \* what the last call returned
  at        \* the offset in the error of the last call

setup == <<front, kind, room, script>>
vars == <<setup, made, phase, given, taken, offset, full, settled, answer, at>>

Current == script[made + 1]
Bytes == Current.bytes

Init ==
  /\ front \in Fronts
  /\ kind \in Outputs[front]
  /\ room \in 0..MaxRoom /\ (kind # "slice" => room = 0)
  /\ script \in Scripts[front]
  /\ made = 0 /\ phase = "idle"
  /\ given = 0 /\ taken = <<>> /\ offset = 0 /\ settled = <<>> /\ full = FALSE
  /\ answer = "none" /\ at = 0

(* The encoder is called.                                                   *)
Begin ==
  /\ phase = "idle" /\ made < Len(script)
  /\ phase' = "writing"
  /\ given' = 0
  /\ UNCHANGED <<setup, made, taken, offset, full, settled, answer, at>>

(* The call returns; an error that is mapped on the way is placed at 0.     *)
Return(result, place) ==
  /\ phase' = "idle"
  /\ made' = made + 1
  /\ settled' = taken'
  /\ answer' = result
  /\ at' = place

(* The piece that is being written ends at byte end of the call.            *)
Writing(end) ==
  /\ phase = "writing"
  /\ end \in Current.cuts /\ end > given
  /\ \A cut \in Current.cuts : cut > given => end <= cut

Piece(end) == SubSeq(Bytes, given + 1, end)

(* Vec::extend_from_slice, and CountSink.                                   *)
Extend(end) ==
  /\ Writing(end)
  /\ kind \in {"vec", "count"}
  /\ taken' = taken \o Piece(end)
  /\ given' = end
  /\ offset' = IF kind = "count" THEN offset + (end - given) ELSE offset
  /\ UNCHANGED <<setup, made, phase, full, settled, answer, at>>

(* A piece goes to offset of the slice.                                     *)
Copy(end) ==
  /\ Writing(end)
  /\ kind = "slice" /\ offset + (end - given) <= room
  /\ taken' = SubSeq(taken, 1, offset) \o Piece(end)
  /\ offset' = offset + (end - given)
  /\ given' = end
  /\ UNCHANGED <<setup, made, phase, full, settled, answer, at>>

(* A fault: the error of the output is not passed on.                       *)
CopyFailsSilent(end) ==
  /\ Writing(end)
  /\ kind = "slice" /\ offset + (end - given) > room
  /\ UNCHANGED <<setup, given, taken, offset, full>>
  /\ Return("ok", 0)

CopyFails(end) ==
  /\ Writing(end)
  /\ kind = "slice" /\ offset + (end - given) > room
  /\ UNCHANGED <<setup, given, taken, offset, full>>
  /\ Return("too_small", IF front = "encoder" THEN offset ELSE 0)

(* A fault: after a part, the piece is written from its beginning.          *)
WritePartAgain(end) ==
  /\ Writing(end)
  /\ kind = "io" /\ ~full
  /\ \E n \in 1..(end - given) :
       /\ taken' = taken \o SubSeq(Bytes, given + 1, given + n)
       /\ given' = IF given + n = end THEN end ELSE given
       /\ offset' = offset + n
  /\ UNCHANGED <<setup, made, phase, full, settled, answer, at>>

(* std::io::Write::write takes part of what is left of the piece.           *)
WritePart(end) ==
  /\ Writing(end)
  /\ kind = "io" /\ ~full
  /\ \E n \in 1..(end - given) :
       /\ taken' = taken \o SubSeq(Bytes, given + 1, given + n)
       /\ given' = given + n
       /\ offset' = offset + n
  /\ UNCHANGED <<setup, made, phase, full, settled, answer, at>>

(* A fault: a writer that takes nothing is asked again.                     *)
WriteZeroRetried(end) ==
  /\ Writing(end)
  /\ kind = "io"
  /\ UNCHANGED vars

(* It takes nothing: there would be no end.                                 *)
WriteZero(end) ==
  /\ Writing(end)
  /\ kind = "io"
  /\ UNCHANGED <<setup, given, taken, offset, full>>
  /\ Return("write_zero", offset)

WriteFails(end) ==
  /\ Writing(end)
  /\ kind = "io"
  /\ UNCHANGED <<setup, given, taken, offset, full>>
  /\ Return("io", offset)

(* ErrorKind::Interrupted: it is asked again.                               *)
Interrupted(end) ==
  /\ Writing(end)
  /\ kind = "io"
  /\ UNCHANGED vars

(* A disk or a buffer behind the writer fills up.                           *)
Fills ==
  /\ kind = "io" /\ phase = "writing" /\ ~full
  /\ full' = TRUE
  /\ UNCHANGED <<setup, made, phase, given, taken, offset, settled, answer, at>>

(* Every piece was written: Ok, or the refusal of what came next.           *)
Finish ==
  /\ phase = "writing"
  /\ given = Len(Bytes)
  /\ UNCHANGED <<setup, given, taken, offset, full>>
  /\ Return(Current.refusal, 0)

Taking ==
  /\ phase = "writing"
  /\ \E end \in Current.cuts :
       \/ Extend(end) \/ Copy(end) \/ CopyFails(end)
       \/ WritePart(end) \/ WriteZero(end)

Disturbed ==
  /\ phase = "writing"
  /\ \E end \in Current.cuts : WriteFails(end) \/ Interrupted(end)

Progress == Begin \/ Finish \/ Taking

(* The caller is done.                                                      *)
Over == phase = "idle" /\ made = Len(script) /\ UNCHANGED vars

Next == Progress \/ Disturbed \/ Fills \/ Over

Safety == Init /\ [][Next]_vars

(* A writer that is interrupted in the end answers how much it takes.        *)
Spec == Safety /\ WF_vars(Progress)
-----------------------------------------------------------------------------
TypeOK ==
  /\ front \in Fronts
  /\ kind \in {"vec", "slice", "count", "io"}
  /\ room \in 0..MaxRoom
  /\ IsScript(script) /\ made \in 0..Len(script)
  /\ phase \in {"idle", "writing"}
  /\ given \in Nat
  /\ taken \in Seq(Byte) /\ settled \in Seq(Byte)
  /\ offset \in Nat /\ at \in Nat /\ full \in BOOLEAN

(* Counting and position: what an output says it has taken is what it has    *)
(* taken, and during a call that is what it had before and the front of the  *)
(* call's bytes; an I/O error is placed after the last byte a writer took    *)
(* (encode.rs 46-60, lib.rs 131-154).                                        *)
Accounting ==
  /\ kind # "vec" => offset = Len(taken)
  /\ kind = "slice" => Len(taken) <= room
  /\ phase = "idle" => taken = settled
  /\ phase = "writing" =>
       /\ made < Len(script)
       /\ given <= Len(Bytes)
       /\ taken = settled \o SubSeq(Bytes, 1, given)
  /\ answer \in {"write_zero", "io"} => at = Len(settled)

(* The inductive invariant behind the refinement.                           *)
IInv == TypeOK /\ Accounting

(* Every call adds all its bytes or, with an error, a proper front of them,  *)
(* whatever pieces it writes and however the output takes them; a slice too  *)
(* short for the call always reports it (fuzz/fuzz_targets/                  *)
(* low_level_encoder.rs 100-103), one that is not never does.                *)
Abstract == INSTANCE WholeItems WITH done <- settled
Implements == Abstract!Spec

(* Every call returns, however often a writer is interrupted and however     *)
(* little it takes at a time.                                                *)
Returns == phase = "writing" ~> phase = "idle"
=============================================================================
