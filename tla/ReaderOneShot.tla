--------------------------- MODULE ReaderOneShot ----------------------------
(***************************************************************************)
(* from_reader and from_reader_with_buffer (src/lib.rs): one CBOR item is   *)
(* the whole of a reader.  The item is decoded again after every chunk, and *)
(* a chunk is as long as all the ones before it, so the reader is never     *)
(* asked for much more than the item.                                       *)
(*                                                                          *)
(* Of the bytes only their number is kept: the reader delivers them in      *)
(* order, and read_to_end appends what it was given before it reports an    *)
(* error.  The decoder decides after need bytes and answers Eof before.     *)
(***************************************************************************)
EXTENDS Integers, FiniteSetsExt

CONSTANTS
  MaxBytes,         \* bound on the bytes of a reader
  InitialChunkSize, \* INITIAL_CHUNK_SIZE: 8 * 1024
  MaxStale          \* bound on what the caller left in the buffer

ASSUME OneShotAssumption ==
  /\ MaxBytes \in Nat
  /\ InitialChunkSize \in Nat \ {0}
  /\ MaxStale \in Nat

VARIABLES
  size,    \* the bytes the reader has
  need,    \* how many of them the decoder must see
  ok,      \* whether they are an item then, or malformed
  pc,      \* "called", "read", "decode", "probe" or "returned"
  stale,   \* bytes in the buffer that are not of this reader
  held,    \* bytes in the buffer that are
  before,  \* the length of the buffer when the chunk was begun
  chunk,   \* chunk_size
  fed,     \* bytes the reader has delivered
  answer,  \* how the reader answered last
  outcome  \* what the call returned

input == <<size, need, ok>>
vars == <<input, pc, stale, held, before, chunk, fed, answer, outcome>>

Pending == [tag |-> "pending"]
Value == [tag |-> "value"]
Err(kind, at) == [tag |-> "error", kind |-> kind, at |-> at]

Length == stale + held

(* from_slice on n bytes from the first one, with allow_trailing off.        *)
FromSlice(n) ==
  IF n < need THEN Err("eof", n)
  ELSE IF ~ok THEN Err("malformed", need)
  ELSE IF n > need THEN Err("trailing", need)
  ELSE Value

(* The same on the buffer: bytes of somebody else in front spoil the item.   *)
Decoded == IF stale > 0 THEN Err("malformed", 0) ELSE FromSlice(held)

Init ==
  /\ size \in 0..MaxBytes
  /\ need \in 1..(MaxBytes + 1)
  /\ ok \in BOOLEAN
  /\ pc = "called"
  /\ stale \in 0..MaxStale
  /\ held = 0
  /\ before = 0
  /\ chunk = 0
  /\ fed = 0
  /\ answer = "none"
  /\ outcome = Pending

-----------------------------------------------------------------------------
(* chunk_size is the length of the buffer, but not less than the first one.  *)
BeginChunk(length) ==
  /\ before' = length
  /\ chunk' = Max({length, InitialChunkSize})
  /\ pc' = "read"

(* However the call ends, the buffer is cleared.                             *)
Return(result) ==
  /\ outcome' = result
  /\ pc' = "returned"
  /\ stale' = 0
  /\ held' = 0
  /\ UNCHANGED <<input, before, chunk>>

Clear ==
  /\ pc = "called"
  /\ stale' = 0
  /\ held' = 0
  /\ BeginChunk(0)
  /\ UNCHANGED <<input, fed, answer, outcome>>

Wanted == before + chunk - Length

(* The reader delivers some of the bytes it has, up to the end of the chunk. *)
ReadBytes ==
  /\ pc = "read"
  /\ \E n \in 1..Min({Wanted, size - fed}) :
       /\ held' = held + n
       /\ fed' = fed + n
  /\ answer' = "bytes"
  /\ UNCHANGED <<input, pc, stale, before, chunk, outcome>>

(* read_to_end asks again.                                                   *)
ReadInterrupted ==
  /\ pc = "read" /\ Wanted > 0
  /\ answer' = "interrupted"
  /\ UNCHANGED <<input, pc, stale, held, before, chunk, fed, outcome>>

(* The chunk is there, or the reader has reported its end.                   *)
ChunkRead ==
  /\ pc = "read"
  /\ Wanted = 0 \/ fed = size
  /\ answer' = IF Wanted = 0 THEN answer ELSE "end"
  /\ pc' = "decode"
  /\ UNCHANGED <<input, stale, held, before, chunk, fed, outcome>>

ReadFails ==
  /\ pc = "read" /\ Wanted > 0
  /\ answer' = "error"
  /\ Return(Err("io", Length))
  /\ UNCHANGED fed

-----------------------------------------------------------------------------
(* Eof is not final while chunks still bring bytes.                          *)
Undecided == Decoded.tag = "error" /\ Decoded.kind = "eof"

(* A fault: the next chunk is the square of what is there.                   *)
DecodeAgainSquared ==
  /\ pc = "decode"
  /\ Length > before
  /\ Undecided
  /\ before' = Length
  /\ chunk' = Max({Length * Length, InitialChunkSize})
  /\ pc' = "read"
  /\ UNCHANGED <<input, stale, held, fed, answer, outcome>>

(* A fault: the end of the reader is not noticed.                            *)
DecodeAgainForever ==
  /\ pc = "decode"
  /\ Undecided
  /\ BeginChunk(Length)
  /\ UNCHANGED <<input, stale, held, fed, answer, outcome>>

DecodeAgain ==
  /\ pc = "decode"
  /\ Length > before
  /\ Undecided
  /\ BeginChunk(Length)
  /\ UNCHANGED <<input, stale, held, fed, answer, outcome>>

(* An error; at the end of the bytes, whatever from_slice says.              *)
DecodeReturns ==
  /\ pc = "decode"
  /\ Length = before \/ (Decoded # Value /\ ~Undecided)
  /\ Return(Decoded)
  /\ UNCHANGED <<fed, answer>>

(* The item ends with the chunk: one more byte is asked for.                 *)
DecodeOk ==
  /\ pc = "decode"
  /\ Length > before
  /\ Decoded = Value
  /\ pc' = "probe"
  /\ UNCHANGED <<input, stale, held, before, chunk, fed, answer, outcome>>

ProbeInterrupted ==
  /\ pc = "probe"
  /\ answer' = "interrupted"
  /\ UNCHANGED <<input, pc, stale, held, before, chunk, fed, outcome>>

ProbeFails ==
  /\ pc = "probe"
  /\ answer' = "error"
  /\ Return(Err("io", Length))
  /\ UNCHANGED fed

(* A fault: the item is returned without a look behind it.                   *)
ProbeNothing ==
  /\ pc = "probe"
  /\ answer' = "end"
  /\ Return(Value)
  /\ UNCHANGED fed

ProbeEnd ==
  /\ pc = "probe"
  /\ fed = size
  /\ answer' = "end"
  /\ Return(Value)
  /\ UNCHANGED fed

ProbeByte ==
  /\ pc = "probe"
  /\ fed < size
  /\ answer' = "bytes"
  /\ fed' = fed + 1
  /\ Return(Err("trailing", Length))

-----------------------------------------------------------------------------
Progress ==
  \/ Clear \/ ReadBytes \/ ChunkRead
  \/ DecodeAgain \/ DecodeReturns \/ DecodeOk
  \/ ProbeEnd \/ ProbeByte

Next ==
  \/ Progress
  \/ ReadInterrupted \/ ReadFails
  \/ ProbeInterrupted \/ ProbeFails

Safety == Init /\ [][Next]_vars

(* The call goes on, and no reader answers Interrupted for ever.             *)
Fairness == WF_vars(Progress)

Spec == Safety /\ Fairness
-----------------------------------------------------------------------------
Errors ==
  { Err(kind, at) : kind \in {"eof", "malformed", "trailing", "io"},
                    at \in 0..(MaxBytes + MaxStale + 1) }

TypeOK ==
  /\ size \in 0..MaxBytes
  /\ need \in 1..(MaxBytes + 1)
  /\ ok \in BOOLEAN
  /\ pc \in {"called", "read", "decode", "probe", "returned"}
  /\ stale \in 0..MaxStale
  /\ held \in 0..size
  /\ before \in Nat
  /\ chunk \in Nat
  /\ fed \in 0..size
  /\ answer \in {"none", "bytes", "interrupted", "end", "error"}
  /\ outcome \in {Pending, Value} \cup Errors

(* Whatever the reader's pieces, however often it is interrupted and         *)
(* whatever the buffer held: the call returns what from_slice returns on all *)
(* bytes of the reader, unless the reader failed, and then the error is      *)
(* placed behind the bytes it had delivered (lib.rs 180-215).                *)
OutcomeOfWhole ==
  pc = "returned" =>
    outcome = IF answer = "error" THEN Err("io", fed) ELSE FromSlice(size)

(* The reader is never asked for more than twice the item or one first chunk *)
(* beyond it, and for one byte behind it: an endless reader cannot make the  *)
(* call read on once the item is decided.                                    *)
ReadBounded ==
  \/ fed <= need + 1
  \/ fed <= 2 * (need - 1)
  \/ fed <= need - 1 + InitialChunkSize

(* The inductive invariant.                                                  *)
IInv ==
  /\ TypeOK
  /\ ReadBounded
  /\ OutcomeOfWhole
  /\ pc = "called" => held = 0 /\ fed = 0
  /\ pc \in {"read", "decode", "probe"} => stale = 0 /\ held = fed
  /\ pc \in {"read", "decode"} =>
       /\ before < need /\ before <= held /\ held <= before + chunk
       /\ chunk = Max({before, InitialChunkSize})
  /\ pc = "decode" => held = before + chunk \/ held = size
  /\ pc = "probe" => held = need /\ ok
  /\ pc # "returned" => outcome = Pending /\ answer # "error"

(* The call returns.                                                         *)
Terminates == <>(pc = "returned")
=============================================================================
