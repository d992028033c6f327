---------------------------- MODULE ReaderStream ----------------------------
(***************************************************************************)
(* ReaderDeserializer (src/lib.rs): consecutive CBOR items are decoded from *)
(* a reader that delivers their bytes in pieces of any size, may be         *)
(* interrupted and may fail, into types the caller picks call by call.      *)
(*                                                                          *)
(* A byte of the stream is its offset from the first one, so the buffer     *)
(* shows which bytes it holds.  What a type makes of the bytes at an offset *)
(* is a verdict of the input: the decoder proper is modelled elsewhere, and *)
(* all that is used of it here is that it decides after `need` bytes and    *)
(* asks for more (ErrorKind::Eof) before.                                   *)
(***************************************************************************)
EXTENDS Integers, Sequences, FiniteSetsExt

CONSTANTS
  MaxBytes, \* bound on the length of a stream
  Room,     \* the bytes of room made for one read: 8 * 1024
  Types,    \* the types a caller may ask for
  Verdicts, \* what a decoder may make of the bytes at an offset
  Longest   \* the bytes of the longest item

(***************************************************************************)
(* A verdict is reached once need bytes are there: an item that ends with   *)
(* them, or an error found in the piece of the item that starts at byte at. *)
(***************************************************************************)
Verdict == [ok: BOOLEAN, need: Nat \ {0}, at: Nat]

ASSUME ReaderAssumption ==
  /\ MaxBytes \in Nat
  /\ Room \in Nat \ {0}
  /\ Verdicts \subseteq {v \in Verdict : v.at < v.need}
  /\ Longest \in Nat \ {0}
  /\ \A v \in Verdicts : v.need <= Longest

VARIABLES
  size,    \* the bytes the reader delivers before it reports the end
  verdict, \* verdict[t][o]: what type t makes of the bytes from offset o
  pc,      \* where deserialize_next is; "idle" between calls
  type,    \* the type asked for
  fed,     \* bytes the reader has delivered
  answer,  \* how the reader answered last
  buffer,  \* self.buffer
  before,  \* the length of the buffer before room was made for a read
  start,   \* self.start: the bytes of the buffer already consumed
  offset,  \* self.offset
  eof,     \* self.eof
  outcome  \* what the last call returned, Pending while one runs

input == <<size, verdict>>
vars == <<size, verdict, pc, type, fed, answer, buffer, before, start, offset,
          eof, outcome>>

(* A byte of the room made for a read, resize(.., 0): as CBOR, the item 0.   *)
Zero == -1

Items == INSTANCE ItemStream

Pending == Items!Pending
Nothing == Items!Nothing
Value(o) == Items!Value(o)
Err(kind, at) == Items!Err(kind, at)

Init ==
  /\ size \in 0..MaxBytes
  /\ verdict \in [Types -> [0..(size - 1) -> Verdicts]]
  /\ pc = "idle"
  /\ type \in Types
  /\ fed = 0
  /\ answer = "none"
  /\ buffer = <<>>
  /\ before = 0
  /\ start = 0
  /\ offset = 0
  /\ eof = FALSE
  /\ outcome = Nothing

(* &self.buffer[self.start..]                                              *)
Unread == SubSeq(buffer, start + 1, Len(buffer))

(* T::deserialize on the unread bytes.                                      *)
Decoded ==
  IF Head(Unread) = Zero THEN [ok |-> TRUE, need |-> 1, at |-> 0]
  ELSE verdict[type][Head(Unread)]

Complete == Unread # <<>> /\ Decoded.need <= Len(Unread)

Short == Unread # <<>> /\ Decoded.need > Len(Unread)

Return(r) ==
  /\ pc' = "idle"
  /\ outcome' = r

-----------------------------------------------------------------------------
Call(t) ==
  /\ pc = "idle"
  /\ pc' = "decode"
  /\ type' = t
  /\ outcome' = Pending
  /\ UNCHANGED <<input, fed, answer, buffer, before, start, offset, eof>>

DecodeItem ==
  /\ pc = "decode" /\ Complete
  /\ Decoded.ok
  /\ LET consumed == Decoded.need IN
       /\ offset' = offset + consumed
       /\ IF start + consumed = Len(buffer)
          THEN buffer' = <<>> /\ start' = 0
          ELSE start' = start + consumed /\ UNCHANGED buffer
  /\ Return(Value(Head(Unread)))
  /\ UNCHANGED <<input, type, fed, answer, before, eof>>

(* Any error but Eof; nothing is consumed, so the next call meets it again. *)
DecodeFails ==
  /\ pc = "decode" /\ Complete
  /\ ~Decoded.ok
  /\ Return(Err("malformed", offset + Decoded.at))
  /\ UNCHANGED <<input, type, fed, answer, buffer, before, start, offset, eof>>

(* Eof inside an item, and the reader has no more bytes.                    *)
ItemCutShort ==
  /\ pc = "decode" /\ Short
  /\ eof
  /\ Return(Err("eof", offset + Min({Decoded.at, Len(Unread)})))
  /\ UNCHANGED <<input, type, fed, answer, buffer, before, start, offset, eof>>

StreamEnds ==
  /\ pc = "decode" /\ Unread = <<>>
  /\ eof
  /\ Return(Nothing)
  /\ UNCHANGED <<input, type, fed, answer, buffer, before, start, offset, eof>>

(* Fault: the consumed bytes stay in front of the unread ones.              *)
MakeRoomNoCompact ==
  /\ pc = "decode" /\ ~Complete
  /\ ~eof
  /\ before' = Len(buffer)
  /\ buffer' = buffer \o [i \in 1..Room |-> Zero]
  /\ pc' = "read"
  /\ UNCHANGED <<input, type, fed, answer, start, offset, eof, outcome>>

(* Fault: the end of the reader is not remembered.                          *)
MakeRoomAfterEnd ==
  /\ pc = "decode" /\ ~Complete
  /\ before' = Len(Unread)
  /\ buffer' = Unread \o [i \in 1..Room |-> Zero]
  /\ start' = 0
  /\ pc' = "read"
  /\ UNCHANGED <<input, type, fed, answer, offset, eof, outcome>>

(* The unread bytes move to the front of the buffer and room is made after  *)
(* them for the read.                                                       *)
MakeRoom ==
  /\ pc = "decode" /\ ~Complete
  /\ ~eof
  /\ before' = Len(Unread)
  /\ buffer' = Unread \o [i \in 1..Room |-> Zero]
  /\ start' = 0
  /\ pc' = "read"
  /\ UNCHANGED <<input, type, fed, answer, offset, eof, outcome>>

(* Fault: an interrupted read is treated like any other error.              *)
ReadInterruptedFails ==
  /\ pc = "read"
  /\ answer' = "interrupted"
  /\ buffer' = SubSeq(buffer, 1, before)
  /\ Return(Err("io", offset + before))
  /\ UNCHANGED <<input, type, fed, before, start, offset, eof>>

(* The reader returns ErrorKind::Interrupted and is asked again.            *)
ReadInterrupted ==
  /\ pc = "read"
  /\ answer' = "interrupted"
  /\ UNCHANGED <<input, pc, type, fed, buffer, before, start, offset, eof,
                 outcome>>

(* Fault: the end of the reader is taken for a short read.                  *)
ReadBytesNoEnd ==
  /\ pc = "read"
  /\ \E n \in 0..Min({Room, size - fed}) :
       /\ n = 0 <=> fed = size
       /\ buffer' = SubSeq(buffer, 1, before) \o [i \in 1..n |-> fed + i - 1]
       /\ fed' = fed + n
       /\ answer' = IF n = 0 THEN "end" ELSE "bytes"
  /\ pc' = "decode"
  /\ UNCHANGED <<input, type, before, start, offset, eof, outcome>>

(* The reader delivers what fits of the bytes it has, or 0 at their end.    *)
ReadBytes ==
  /\ pc = "read"
  /\ \E n \in 0..Min({Room, size - fed}) :
       /\ n = 0 <=> fed = size
       /\ buffer' = SubSeq(buffer, 1, before) \o [i \in 1..n |-> fed + i - 1]
       /\ fed' = fed + n
       /\ eof' = (n = 0)
       /\ answer' = IF n = 0 THEN "end" ELSE "bytes"
  /\ pc' = "decode"
  /\ UNCHANGED <<input, type, before, start, offset, outcome>>

(* Fault: the room made for the read is left in the buffer.                 *)
ReadFailsUntrimmed ==
  /\ pc = "read"
  /\ answer' = "error"
  /\ Return(Err("io", offset + before))
  /\ UNCHANGED <<input, type, fed, buffer, before, start, offset, eof>>

ReadFails ==
  /\ pc = "read"
  /\ answer' = "error"
  /\ buffer' = SubSeq(buffer, 1, before)
  /\ Return(Err("io", offset + before))
  /\ UNCHANGED <<input, type, fed, before, start, offset, eof>>

(* into_inner: the reader is given back, the unread bytes are dropped.      *)
IntoInner ==
  /\ pc = "idle"
  /\ pc' = "taken"
  /\ buffer' = <<>>
  /\ UNCHANGED <<input, type, fed, answer, before, start, offset, eof, outcome>>

Running ==
  \/ DecodeItem \/ DecodeFails \/ ItemCutShort \/ StreamEnds \/ MakeRoom

Next ==
  \/ \E t \in Types : Call(t)
  \/ Running
  \/ ReadInterrupted \/ ReadBytes \/ ReadFails
  \/ IntoInner

(***************************************************************************)
(* deserialize_next runs to its end, and the reader, however often it is    *)
(* interrupted, in the end delivers bytes, its end or an error.             *)
(***************************************************************************)
Fairness == WF_vars(Running) /\ WF_vars(ReadBytes \/ ReadFails)

Safety == Init /\ [][Next]_vars

Spec == Safety /\ Fairness
-----------------------------------------------------------------------------
OutcomeOK ==
  \/ outcome \in {Pending, Nothing}
  \/ \E o \in 0..(size - 1) : outcome = Value(o)
  \/ \E kind \in {"malformed", "eof", "io"}, at \in 0..size :
       outcome = Err(kind, at)

TypeOK ==
  /\ size \in 0..MaxBytes
  /\ verdict \in [Types -> [0..(size - 1) -> Verdicts]]
  /\ pc \in {"idle", "decode", "read", "taken"}
  /\ type \in Types
  /\ fed \in 0..size
  /\ answer \in {"none", "interrupted", "bytes", "end", "error"}
  /\ buffer \in Seq({Zero} \cup 0..(size - 1))
  /\ before \in 0..Len(buffer) \/ pc # "read"
  /\ start \in 0..Len(buffer) \/ pc = "taken"
  /\ offset \in 0..size
  /\ eof \in BOOLEAN
  /\ OutcomeOK

(* The bytes the buffer holds for the decoder, without the room of a read.   *)
Held == IF pc = "read" THEN SubSeq(buffer, 1, before) ELSE Unread

(* Until the reader is taken back, the unread part of the buffer is exactly  *)
(* the bytes delivered from offset on: compaction, refills, failed reads and *)
(* their retries lose, repeat and reorder none.                              *)
Accounting ==
  pc # "taken" =>
    /\ Len(Held) = fed - offset
    /\ \A i \in 1..Len(Held) : Held[i] = offset + i - 1

(* A stream decoder that never sees a buffer: answers depend on the offset   *)
(* and the type only, and an I/O error consumes nothing.                     *)
Implements == Items!Spec

(* An I/O error is one the reader reported, never an interruption, and it    *)
(* is placed after the last byte the reader delivered.                       *)
IoErrorPosition ==
  outcome.tag = "io" => answer = "error" /\ outcome.at = fed

(* Once the reader has reported its end it is not asked again, whatever the  *)
(* callers do next (a terminal or a socket might then deliver more).         *)
NoReadAfterEnd == [][answer = "end" => answer' = "end" /\ pc' # "read"]_vars

(* "The decoder retains only unread bytes between items": at its largest the *)
(* buffer holds less than one item more than a read delivers, however long   *)
(* the stream.                                                               *)
BufferBounded == Len(buffer) <= Longest - 1 + Room

(* Every call returns, interruptions and failing reads included.             *)
CallReturns == pc \in {"decode", "read"} ~> pc = "idle"
-----------------------------------------------------------------------------
(* The inductive invariant behind Accounting and the refinement.            *)

Phases ==
  /\ outcome = Pending <=> pc \in {"decode", "read"}
  /\ pc = "read" => start = 0 /\ ~eof
  /\ eof <=> answer = "end"
  /\ eof => fed = size

IInv == TypeOK /\ Phases /\ Accounting /\ IoErrorPosition

(* A read is only begun while the bytes held are fewer than the item needs.  *)
RefillBounded ==
  pc = "read" => before <= Longest - 1 /\ Len(buffer) = before + Room
=============================================================================
