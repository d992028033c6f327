--------------------------- MODULE OneShotProofs ----------------------------
(* Proofs about ReaderOneShot for every reader, item and size of a chunk.   *)
EXTENDS ReaderOneShot, TLAPS

LEMMA MaxOfTwo ==
  ASSUME NEW a \in Int, NEW b \in Int
  PROVE  /\ Max({a, b}) \in {a, b}
         /\ Max({a, b}) >= a
         /\ Max({a, b}) >= b
<1>1. CASE a <= b
  BY <1>1 DEF Max
<1>2. CASE b <= a
  BY <1>2 DEF Max
<1> QED
  BY <1>1, <1>2

LEMMA MinOfTwo ==
  ASSUME NEW a \in Int, NEW b \in Int
  PROVE  /\ Min({a, b}) \in {a, b}
         /\ Min({a, b}) <= a
         /\ Min({a, b}) <= b
<1>1. CASE a <= b
  BY <1>1 DEF Min
<1>2. CASE b <= a
  BY <1>2 DEF Min
<1> QED
  BY <1>1, <1>2

LEMMA Typed ==
  ASSUME IInv
  PROVE  /\ MaxBytes \in Nat /\ MaxStale \in Nat
         /\ InitialChunkSize \in Nat /\ InitialChunkSize >= 1
         /\ size \in Nat /\ size <= MaxBytes /\ ok \in BOOLEAN
         /\ need \in Nat /\ need >= 1 /\ need <= MaxBytes + 1
         /\ stale \in Nat /\ held \in Nat /\ held <= size
         /\ before \in Nat /\ chunk \in Nat
         /\ fed \in Nat /\ fed <= size
         /\ outcome \in {Pending, Value} \cup Errors
BY OneShotAssumption DEF IInv, TypeOK

LEMMA InitIInv ==
  ASSUME Init
  PROVE  IInv
<1>1. TypeOK
  BY OneShotAssumption DEF Init, TypeOK
<1>2. ReadBounded
  BY OneShotAssumption DEF Init, ReadBounded
<1> QED
  BY <1>1, <1>2 DEF Init, IInv, OutcomeOfWhole

(* Every answer of the decoder is an outcome of the call.                   *)
LEMMA SliceOutcome ==
  ASSUME IInv, NEW n \in 0..size
  PROVE  FromSlice(n) \in {Value} \cup Errors
<1>1. n \in 0..(MaxBytes + MaxStale + 1) /\ need \in 0..(MaxBytes + MaxStale + 1)
  BY Typed
<1> QED
  BY <1>1 DEF FromSlice, Errors

LEMMA IoOutcome ==
  ASSUME IInv, NEW n \in 0..size, NEW kind \in {"io", "trailing"}
  PROVE  Err(kind, n) \in {Value} \cup Errors
<1>1. n \in 0..(MaxBytes + MaxStale + 1)
  BY Typed
<1> QED
  BY <1>1 DEF Errors

(* A call that returns keeps the invariant when its result is the right one. *)
LEMMA ReturnPreserves ==
  ASSUME IInv, NEW result \in {Value} \cup Errors, Return(result),
         fed' \in 0..size, ReadBounded',
         answer' \in {"none", "bytes", "interrupted", "end", "error"},
         result = IF answer' = "error" THEN Err("io", fed') ELSE FromSlice(size)
  PROVE  IInv'
<1> USE DEF Return
<1>1. UNCHANGED <<size, need, ok, before, chunk>> /\ pc' = "returned"
  BY DEF input
<1>2. TypeOK'
  BY <1>1, OneShotAssumption, Typed DEF IInv, TypeOK
<1>3. OutcomeOfWhole'
  <2>1. FromSlice(size)' = FromSlice(size)
    BY <1>1 DEF FromSlice
  <2> QED
    BY <1>1, <2>1 DEF OutcomeOfWhole
<1> QED
  BY <1>1, <1>2, <1>3 DEF IInv

(* A chunk that begins.                                                     *)
LEMMA ChunkPreserves ==
  ASSUME IInv, pc # "returned", BeginChunk(fed),
         stale' = 0, held' = fed, fed < need,
         UNCHANGED <<size, need, ok, fed, answer, outcome>>
  PROVE  IInv'
<1>1. /\ UNCHANGED <<size, need, ok, fed, answer, outcome>>
      /\ before' = fed /\ pc' = "read"
  BY DEF input, BeginChunk
<1>2. chunk' \in Nat /\ chunk' >= fed /\ chunk' >= InitialChunkSize
  <2>1. fed \in Int /\ InitialChunkSize \in Int
    BY Typed
  <2>2. /\ Max({fed, InitialChunkSize}) \in {fed, InitialChunkSize}
        /\ Max({fed, InitialChunkSize}) >= fed
        /\ Max({fed, InitialChunkSize}) >= InitialChunkSize
    BY <2>1, MaxOfTwo, Zenon
  <2>3. chunk' = Max({fed, InitialChunkSize})
    BY DEF BeginChunk
  <2>4. chunk' \in {fed, InitialChunkSize} /\ chunk' >= fed /\ chunk' >= InitialChunkSize
    BY <2>2, <2>3, Zenon
  <2> QED
    BY <2>4, Typed
<1>3. TypeOK'
  BY <1>1, <1>2, OneShotAssumption, Typed DEF IInv, TypeOK
<1>4. ReadBounded'
  BY <1>1 DEF IInv, ReadBounded
<1>5. OutcomeOfWhole'
  BY <1>1 DEF OutcomeOfWhole
<1>6. stale' = 0 /\ held' = fed' /\ before' < need' /\ before' <= held'
  BY <1>1, Typed
<1>9. held' <= before' + chunk'
  <2>1. before' \in Nat /\ chunk' \in Nat /\ held' = before'
    BY <1>1, <1>2, Typed
  <2>2. \A a, b \in Nat : a <= a + b
    OBVIOUS
  <2> QED
    BY <2>1, <2>2, Zenon
<1>8. chunk' = Max({before', InitialChunkSize})
  BY <1>1 DEF BeginChunk
<1>7. outcome' = Pending /\ answer' # "error"
  BY <1>1 DEF IInv
<1> QED
  BY <1>1, <1>3, <1>4, <1>5, <1>6, <1>7, <1>8, <1>9 DEF IInv

(* What the decoder says decides how much of the item is there.              *)
LEMMA Verdict ==
  ASSUME IInv, pc = "decode"
  PROVE  /\ Length = held /\ Decoded = FromSlice(held) /\ held = fed
         /\ Undecided <=> held < need
         /\ Decoded = Value <=> held = need /\ ok
         /\ held >= need /\ Decoded # Value => Decoded = FromSlice(size)
         /\ held = size => Decoded = FromSlice(size)
<1>1. stale = 0 /\ held = fed
  BY DEF IInv
<1>2. Length = held /\ Decoded = FromSlice(held)
  BY <1>1, Typed DEF Length, Decoded
<1>3. Undecided <=> held < need
  BY <1>2, Typed DEF Undecided, FromSlice, Err, Value
<1>4. Decoded = Value <=> held = need /\ ok
  BY <1>2, Typed DEF FromSlice, Err, Value
<1>5. held >= need /\ Decoded # Value => Decoded = FromSlice(size)
  BY <1>2, Typed DEF FromSlice
<1>6. held = size => Decoded = FromSlice(size)
  BY <1>2
<1> QED
  BY <1>1, <1>2, <1>3, <1>4, <1>5, <1>6

LEMMA ReadState ==
  ASSUME IInv, pc = "read"
  PROVE  /\ Length = held /\ held = fed /\ Wanted = before + chunk - held
         /\ before < need /\ chunk \in {before, InitialChunkSize}
<1>1. stale = 0 /\ held = fed /\ before < need
  BY DEF IInv
<1>2. Length = held /\ Wanted = before + chunk - held
  BY <1>1, Typed DEF Length, Wanted
<1>3. chunk = Max({before, InitialChunkSize})
  BY DEF IInv
<1>4. before \in Int /\ InitialChunkSize \in Int
  BY Typed
<1>5. chunk \in {before, InitialChunkSize}
  BY <1>3, <1>4, MaxOfTwo, Zenon
<1> QED
  BY <1>1, <1>2, <1>5

LEMMA ReadBytesPreserves ==
  ASSUME IInv, ReadBytes
  PROVE  IInv'
<1>1. pc = "read" /\ UNCHANGED <<size, need, ok, pc, stale, before, chunk, outcome>>
  BY DEF ReadBytes, input
<1>2. PICK n \in 1..Min({Wanted, size - fed}) : held' = held + n /\ fed' = fed + n
  BY DEF ReadBytes
<1>3. Wanted \in Int /\ size - fed \in Int
  BY <1>1, ReadState, Typed
<1>4. /\ Min({Wanted, size - fed}) \in {Wanted, size - fed}
      /\ Min({Wanted, size - fed}) <= Wanted
      /\ Min({Wanted, size - fed}) <= size - fed
  BY <1>3, MinOfTwo, Zenon
<1>5. n \in Nat /\ n <= before + chunk - held /\ n <= size - fed
  <2> DEFINE min == Min({Wanted, size - fed})
  <2>1. min \in Int /\ min <= Wanted /\ min <= size - fed
    BY <1>3, <1>4
  <2>2. n \in 1..min
    BY <1>2
  <2> HIDE DEF min
  <2> QED
    BY <1>1, <1>3, <2>1, <2>2, ReadState
<1>6. held' \in 0..size /\ fed' \in 0..size /\ held' = fed'
      /\ held' <= before + chunk /\ before <= held'
  BY <1>1, <1>2, <1>5, ReadState, Typed DEF IInv
<1>7. TypeOK'
  BY <1>1, <1>6, OneShotAssumption DEF IInv, TypeOK, ReadBytes
<1>8. ReadBounded'
  BY <1>1, <1>6, ReadState, Typed DEF ReadBounded
<1>9. OutcomeOfWhole'
  BY <1>1 DEF OutcomeOfWhole
<1>10. answer' = "bytes"
  BY DEF ReadBytes
<1>11. chunk' = Max({before', InitialChunkSize})
  BY <1>1 DEF IInv
<1>12. stale' = 0 /\ before' < need' /\ outcome' = Pending
  BY <1>1 DEF IInv
<1> QED
  BY <1>1, <1>6, <1>7, <1>8, <1>9, <1>10, <1>11, <1>12 DEF IInv

(* Steps that move nothing: an interrupted read, a chunk that is there, an   *)
(* item that is decoded.                                                     *)
LEMMA IdlePreserves ==
  ASSUME IInv, pc # "returned",
         UNCHANGED <<size, need, ok, stale, held, before, chunk, fed, outcome>>,
         answer' \in {"none", "bytes", "interrupted", "end"},
         \/ pc' = pc
         \/ pc = "read" /\ pc' = "decode" /\ (held = before + chunk \/ held = size)
         \/ pc = "decode" /\ pc' = "probe" /\ held = need /\ ok
  PROVE  IInv'
<1>1. TypeOK'
  BY OneShotAssumption DEF IInv, TypeOK
<1>2. ReadBounded' /\ OutcomeOfWhole'
  BY DEF IInv, ReadBounded, OutcomeOfWhole
<1>3. chunk' = chunk /\ before' = before
  OBVIOUS
<1>4. pc' \in {"read", "decode"} => chunk' = Max({before', InitialChunkSize})
  BY <1>3 DEF IInv
<1> QED
  BY <1>1, <1>2, <1>4 DEF IInv

LEMMA StepPreserves ==
  ASSUME IInv, Next
  PROVE  IInv'
<1> USE DEF input
<1>1. CASE Clear
  <2>1. pc = "called" /\ fed = 0 /\ held = 0
    BY <1>1 DEF Clear, IInv
  <2>2. /\ BeginChunk(fed) /\ stale' = 0 /\ held' = fed
        /\ UNCHANGED <<size, need, ok, fed, answer, outcome>>
    BY <1>1, <2>1 DEF Clear
  <2>3. fed < need
    BY <2>1, Typed
  <2> QED
    BY <2>1, <2>2, <2>3, ChunkPreserves
<1>2. CASE ReadBytes
  BY <1>2, ReadBytesPreserves
<1>3. CASE ChunkRead
  <2>1. pc = "read" /\ (Wanted = 0 \/ fed = size)
    BY <1>3 DEF ChunkRead
  <2>2. held = before + chunk \/ held = size
    <3>1. CASE Wanted = 0
      <4>1. before + chunk - held = 0
        BY <2>1, <3>1, ReadState
      <4> QED
        BY <4>1, Typed
    <3>2. CASE fed = size
      BY <2>1, <3>2, ReadState
    <3> QED
      BY <2>1, <3>1, <3>2
  <2>3. answer' \in {"none", "bytes", "interrupted", "end"}
    BY <1>3, <2>1 DEF ChunkRead, IInv, TypeOK
  <2> QED
    BY <1>3, <2>1, <2>2, <2>3, IdlePreserves DEF ChunkRead
<1>4. CASE DecodeAgain
  <2>1. pc = "decode" /\ Undecided /\ BeginChunk(Length)
    BY <1>4 DEF DecodeAgain
  <2>2. Length = fed /\ fed < need /\ stale = 0 /\ held = fed
    BY <2>1, Verdict DEF IInv
  <2>3. /\ BeginChunk(fed) /\ stale' = 0 /\ held' = fed
        /\ UNCHANGED <<size, need, ok, fed, answer, outcome>>
    BY <1>4, <2>1, <2>2 DEF DecodeAgain
  <2> QED
    BY <2>1, <2>2, <2>3, ChunkPreserves
<1>5. CASE DecodeReturns
  <2>1. /\ pc = "decode" /\ Return(Decoded) /\ UNCHANGED <<fed, answer>>
        /\ Length = before \/ (Decoded # Value /\ ~Undecided)
    BY <1>5 DEF DecodeReturns
  <2>2. Decoded = FromSlice(size)
    <3>1. CASE Decoded # Value /\ ~Undecided
      BY <2>1, <3>1, Verdict, Typed
    <3>2. CASE Length = before
      <4>1. chunk >= 1
        <5>1. before \in Int /\ InitialChunkSize \in Int
          BY Typed
        <5>2. chunk = Max({before, InitialChunkSize})
          BY <2>1 DEF IInv
        <5>3. chunk >= InitialChunkSize
          BY <5>1, <5>2, MaxOfTwo, Zenon
        <5> QED
          BY <5>3, Typed
      <4>2. held = before + chunk \/ held = size
        BY <2>1 DEF IInv
      <4>3. held = size
        BY <2>1, <3>2, <4>1, <4>2, Verdict, Typed
      <4> QED
        BY <2>1, <4>3, Verdict
    <3> QED
      BY <2>1, <3>1, <3>2
  <2>3. Decoded \in {Value} \cup Errors
    <3>1. size \in 0..size
      BY Typed
    <3> QED
      BY <2>2, <3>1, SliceOutcome
  <2>4. answer' \in {"none", "bytes", "interrupted", "end"}
    BY <2>1 DEF IInv, TypeOK
  <2>5. fed' \in 0..size /\ ReadBounded'
    BY <2>1, Typed DEF IInv, ReadBounded, Return
  <2> QED
    BY <2>1, <2>2, <2>3, <2>4, <2>5, ReturnPreserves
<1>6. CASE DecodeOk
  <2>1. pc = "decode" /\ held = need /\ ok
    BY <1>6, Verdict DEF DecodeOk
  <2>2. answer' \in {"none", "bytes", "interrupted", "end"}
    BY <1>6, <2>1 DEF DecodeOk, IInv, TypeOK
  <2> QED
    BY <1>6, <2>1, <2>2, IdlePreserves DEF DecodeOk
<1>7. CASE ProbeEnd
  <2>1. /\ pc = "probe" /\ fed = size /\ Return(Value) /\ fed' = fed
        /\ answer' = "end"
    BY <1>7 DEF ProbeEnd
  <2>2. size = need /\ ok
    BY <2>1 DEF IInv
  <2>3. Value = FromSlice(size)
    BY <2>2, Typed DEF FromSlice
  <2>4. fed' \in 0..size /\ ReadBounded'
    BY <2>1, Typed DEF IInv, ReadBounded, Return
  <2> QED
    BY <2>1, <2>3, <2>4, ReturnPreserves
<1>8. CASE ProbeByte
  <2>1. /\ pc = "probe" /\ fed < size /\ fed' = fed + 1
        /\ Return(Err("trailing", Length)) /\ answer' = "bytes"
    BY <1>8 DEF ProbeByte
  <2>2. held = need /\ held = fed /\ ok /\ stale = 0
    BY <2>1 DEF IInv
  <2>3. Length = need
    BY <2>2, Typed DEF Length
  <2>4. Err("trailing", Length) = FromSlice(size)
    <3>1. ~(size < need) /\ size > need
      BY <2>1, <2>2, Typed
    <3> QED
      BY <2>2, <2>3, <3>1 DEF FromSlice
  <2>5. fed' \in 0..size /\ ReadBounded'
    BY <2>1, <2>2, Typed DEF ReadBounded, Return
  <2>6. Err("trailing", Length) \in {Value} \cup Errors
    <3>1. size \in 0..size
      BY Typed
    <3> QED
      BY <2>4, <3>1, SliceOutcome
  <2> QED
    BY <2>1, <2>4, <2>5, <2>6, ReturnPreserves
<1>9. CASE ReadInterrupted \/ ProbeInterrupted
  <2>1. pc # "returned"
    BY <1>9 DEF ReadInterrupted, ProbeInterrupted
  <2> QED
    BY <1>9, <2>1, IdlePreserves DEF ReadInterrupted, ProbeInterrupted
<1>10. CASE ReadFails \/ ProbeFails
  <2>1. /\ pc \in {"read", "probe"} /\ Return(Err("io", Length))
        /\ answer' = "error" /\ fed' = fed
    BY <1>10 DEF ReadFails, ProbeFails
  <2>2. Length = fed
    BY <2>1, Typed DEF IInv, Length
  <2>3. Err("io", Length) \in {Value} \cup Errors
    <3>1. fed \in 0..size
      BY Typed
    <3> QED
      BY <2>2, <3>1, IoOutcome
  <2>4. fed' \in 0..size /\ ReadBounded'
    BY <2>1, Typed DEF IInv, ReadBounded, Return
  <2> QED
    BY <2>1, <2>2, <2>3, <2>4, ReturnPreserves
<1> QED
  BY <1>1, <1>2, <1>3, <1>4, <1>5, <1>6, <1>7, <1>8, <1>9, <1>10 DEF Next, Progress

-----------------------------------------------------------------------------
(* Whatever the reader, the item and the size of the first chunk, the        *)
(* invariant holds throughout a call.                                        *)
THEOREM InductiveInvariant == Safety => []IInv
<1>1. Init => IInv
  BY InitIInv
<1>2. IInv /\ [Next]_vars => IInv'
  <2>1. ASSUME IInv, UNCHANGED vars PROVE IInv'
    <3>1. UNCHANGED <<size, need, ok, pc, stale, held, before, chunk, fed, answer, outcome>>
      BY <2>1 DEF vars, input
    <3>2. TypeOK' /\ ReadBounded' /\ OutcomeOfWhole'
      BY <2>1, <3>1, OneShotAssumption
         DEF IInv, TypeOK, ReadBounded, OutcomeOfWhole, FromSlice
    <3>3. pc' \in {"read", "decode"} => chunk' = Max({before', InitialChunkSize})
      BY <2>1, <3>1 DEF IInv
    <3> QED
      BY <2>1, <3>1, <3>2, <3>3 DEF IInv
  <2> QED
    BY <2>1, StepPreserves
<1> QED
  BY <1>1, <1>2, PTL DEF Safety

(* Every variable keeps its type.                                            *)
THEOREM TypeInvariant == Safety => []TypeOK
<1>1. IInv => TypeOK
  BY DEF IInv
<1> QED
  BY <1>1, InductiveInvariant, PTL

(* from_reader decodes the whole of what its reader delivers, as from_slice  *)
(* would, or reports the reader's error behind the last byte delivered.      *)
THEOREM WholeDecoded == Safety => []OutcomeOfWhole
<1>1. IInv => OutcomeOfWhole
  BY DEF IInv
<1> QED
  BY <1>1, InductiveInvariant, PTL

(* from_reader never reads more than about twice the item, or one first      *)
(* chunk beyond it.                                                          *)
THEOREM BoundedReading == Safety => []ReadBounded
<1>1. IInv => ReadBounded
  BY DEF IInv
<1> QED
  BY <1>1, InductiveInvariant, PTL
=============================================================================
