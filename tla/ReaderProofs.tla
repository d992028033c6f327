---------------------------- MODULE ReaderProofs ----------------------------
(* Proofs about ReaderStream for every stream, decoder and size of a read.  *)
EXTENDS ReaderStream, TLAPS

Byte == {Zero} \cup 0..(size - 1)

(* s holds the bytes from o up to f.                                        *)
Holds(s, o, f) ==
  /\ Len(s) = f - o
  /\ \A i \in 1..Len(s) : s[i] = o + i - 1

-----------------------------------------------------------------------------
(* Sequences.                                                               *)

LEMMA Slice ==
  ASSUME NEW S, NEW s \in Seq(S), NEW m \in 1..(Len(s) + 1),
         NEW n \in (m - 1)..Len(s)
  PROVE  /\ SubSeq(s, m, n) \in Seq(S)
         /\ Len(SubSeq(s, m, n)) = n - m + 1
         /\ \A i \in 1..(n - m + 1) : SubSeq(s, m, n)[i] = s[m + i - 1]
  OBVIOUS

LEMMA WholeSlice ==
  ASSUME NEW S, NEW s \in Seq(S)
  PROVE  SubSeq(s, 1, Len(s)) = s
  OBVIOUS

LEMMA Concat ==
  ASSUME NEW S, NEW s \in Seq(S), NEW t \in Seq(S)
  PROVE  /\ s \o t \in Seq(S)
         /\ Len(s \o t) = Len(s) + Len(t)
         /\ \A i \in 1..Len(s) : (s \o t)[i] = s[i]
         /\ \A i \in 1..Len(t) : (s \o t)[Len(s) + i] = t[i]
  OBVIOUS

LEMMA PrefixOfConcat ==
  ASSUME NEW S, NEW s \in Seq(S), NEW t \in Seq(S)
  PROVE  SubSeq(s \o t, 1, Len(s)) = s
<1>1. s \o t \in Seq(S) /\ Len(s) \in 0..Len(s \o t)
  BY Concat
<1>2. /\ SubSeq(s \o t, 1, Len(s)) \in Seq(S)
      /\ Len(SubSeq(s \o t, 1, Len(s))) = Len(s)
      /\ \A i \in 1..Len(s) : SubSeq(s \o t, 1, Len(s))[i] = (s \o t)[i]
  BY <1>1
<1> QED
  BY <1>2, Concat

LEMMA MinOfTwo ==
  ASSUME NEW a \in Int, NEW b \in Int
  PROVE  /\ Min({a, b}) \in {a, b}
         /\ Min({a, b}) <= a
         /\ Min({a, b}) <= b
<1>1. CASE a <= b
  BY <1>1 DEF Min
<1>2. CASE b <= a
  BY <1>2 DEF Min
<1> QED
  BY <1>1, <1>2

-----------------------------------------------------------------------------
(* What the type invariant and the phases say in each phase.                *)

LEMMA TypedState ==
  ASSUME TypeOK
  PROVE  /\ size \in Nat /\ size <= MaxBytes /\ MaxBytes \in Nat
         /\ fed \in 0..size /\ offset \in 0..size
         /\ buffer \in Seq(Byte) /\ Len(buffer) \in Nat
         /\ pc = "read" => before \in 0..Len(buffer)
         /\ pc # "taken" => start \in 0..Len(buffer)
         /\ type \in Types
BY ReaderAssumption DEF TypeOK, Byte

LEMMA HeldUnread ==
  ASSUME TypeOK, Accounting, pc \in {"idle", "decode"}
  PROVE  /\ Unread \in Seq(Byte)
         /\ Len(Unread) = Len(buffer) - start
         /\ \A i \in 1..Len(Unread) : Unread[i] = buffer[start + i]
         /\ Holds(Unread, offset, fed)
<1>1. /\ buffer \in Seq(Byte) /\ start \in 0..Len(buffer)
  BY TypedState
<1>2. start + 1 \in 1..(Len(buffer) + 1) /\ Len(buffer) \in start..Len(buffer)
  BY <1>1
<1>3. /\ Unread \in Seq(Byte)
      /\ Len(Unread) = Len(buffer) - (start + 1) + 1
      /\ \A i \in 1..(Len(buffer) - (start + 1) + 1) :
           Unread[i] = buffer[start + 1 + i - 1]
  BY <1>1, <1>2, Slice DEF Unread
<1>4. Holds(Unread, offset, fed)
  BY DEF Accounting, Held, Holds
<1> QED
  BY <1>1, <1>3, <1>4

LEMMA HeldRead ==
  ASSUME TypeOK, Accounting, pc = "read"
  PROVE  /\ SubSeq(buffer, 1, before) \in Seq(Byte)
         /\ Len(SubSeq(buffer, 1, before)) = before
         /\ Holds(SubSeq(buffer, 1, before), offset, fed)
<1>1. buffer \in Seq(Byte) /\ before \in 0..Len(buffer)
  BY TypedState
<1>2. /\ SubSeq(buffer, 1, before) \in Seq(Byte)
      /\ Len(SubSeq(buffer, 1, before)) = before - 1 + 1
  BY <1>1, Slice
<1>3. Holds(SubSeq(buffer, 1, before), offset, fed)
  BY DEF Accounting, Held, Holds
<1> QED
  BY <1>1, <1>2, <1>3

(* The decoder sees the bytes from offset on, so it answers with the        *)
(* verdict of that offset.                                                  *)
LEMMA DecodedHere ==
  ASSUME TypeOK, Accounting, pc = "decode", Unread # <<>>
  PROVE  /\ offset < fed
         /\ Len(Unread) = fed - offset
         /\ Head(Unread) = offset
         /\ Decoded = verdict[type][offset]
         /\ Decoded \in Verdicts
         /\ Decoded \in Verdict
         /\ Decoded.at < Decoded.need
<1>1. /\ Unread \in Seq(Byte) /\ Len(Unread) = fed - offset
      /\ \A i \in 1..Len(Unread) : Unread[i] = offset + i - 1
  BY HeldUnread DEF Holds
<1>2. fed \in 0..size /\ offset \in 0..size /\ size \in Nat
  BY TypedState
<1>3. Len(Unread) > 0
  BY <1>1
<1>4. Head(Unread) = Unread[1]
  BY <1>1, <1>3
<1>5. Head(Unread) = offset /\ offset < fed
  BY <1>1, <1>2, <1>3, <1>4
<1>6. Decoded = verdict[type][offset]
  BY <1>2, <1>5 DEF Decoded, Zero
<1>7. offset \in 0..(size - 1)
  BY <1>2, <1>5
<1>8. verdict \in [Types -> [0..(size - 1) -> Verdicts]] /\ type \in Types
  BY DEF TypeOK
<1>9. Decoded \in Verdicts
  BY <1>6, <1>7, <1>8
<1> QED
  BY <1>1, <1>5, <1>6, <1>9, ReaderAssumption

(* Where nothing is unread, everything delivered has been consumed.         *)
LEMMA AllConsumed ==
  ASSUME TypeOK, Accounting, pc = "decode", Unread = <<>>
  PROVE  offset = fed
BY HeldUnread, TypedState DEF Holds

-----------------------------------------------------------------------------
(* One lemma per step of a call: the step preserves the invariant.          *)

(* A step that returns r, or begins a call, and leaves the data alone.      *)
LEMMA DataStays ==
  ASSUME IInv, pc \in {"idle", "decode"}, pc' \in {"idle", "decode"},
         UNCHANGED <<input, fed, answer, buffer, before, start, offset, eof>>,
         type' \in Types, OutcomeOK',
         outcome' = Pending <=> pc' = "decode",
         outcome'.tag # "io"
  PROVE  IInv'
<1>1. TypeOK'
  BY DEF IInv, TypeOK, input
<1>2. Phases'
  BY DEF IInv, Phases, input
<1>3. Accounting'
  BY DEF IInv, Accounting, Held, Unread
<1>4. IoErrorPosition'
  BY DEF IoErrorPosition
<1> QED
  BY <1>1, <1>2, <1>3, <1>4 DEF IInv

LEMMA CallStep == ASSUME IInv, NEW t \in Types, Call(t) PROVE IInv'
<1>1. outcome' = Pending /\ outcome'.tag # "io"
  BY DEF Call, Pending, Items!Pending
<1>2. OutcomeOK'
  BY <1>1 DEF OutcomeOK
<1> QED
  BY <1>1, <1>2, DataStays DEF Call

LEMMA DecodeFailsStep == ASSUME IInv, DecodeFails PROVE IInv'
<1> DEFINE at == offset + Decoded.at
<1>1. pc = "decode" /\ Complete /\ outcome' = Err("malformed", at)
  BY DEF DecodeFails, Return
<1>2. /\ Decoded \in Verdict /\ Decoded.at < Decoded.need
      /\ Decoded.need <= fed - offset
  BY <1>1, DecodedHere DEF IInv, Complete
<1>3. at \in 0..size
  BY <1>2, TypedState DEF IInv, Verdict
<1>4. OutcomeOK'
  <2>1. size' = size
    BY DEF DecodeFails, input
  <2> HIDE DEF at
  <2> QED
    BY <1>1, <1>3, <2>1 DEF OutcomeOK
<1>5. outcome' # Pending /\ outcome'.tag # "io"
  BY <1>1 DEF Pending, Err, Items!Pending, Items!Err
<1> QED
  BY <1>1, <1>4, <1>5, DataStays DEF DecodeFails, Return, IInv, TypeOK

LEMMA ItemCutShortStep == ASSUME IInv, ItemCutShort PROVE IInv'
<1> DEFINE at == offset + Min({Decoded.at, Len(Unread)})
<1>1. pc = "decode" /\ Short /\ outcome' = Err("eof", at)
  BY DEF ItemCutShort, Return
<1>2. Decoded \in Verdict /\ Len(Unread) = fed - offset
  BY <1>1, DecodedHere DEF IInv, Short
<1>3. Decoded.at \in Nat /\ fed \in 0..size /\ offset \in 0..size /\ size \in Nat
  BY <1>2, TypedState DEF IInv, Verdict
<1>4. Len(Unread) \in Nat
  <2>1. Unread \in Seq(Byte)
    BY <1>1, HeldUnread DEF IInv
  <2> QED
    BY <2>1
<1>5. /\ Min({Decoded.at, Len(Unread)}) \in {Decoded.at, Len(Unread)}
      /\ Min({Decoded.at, Len(Unread)}) <= Len(Unread)
  <2>1. Decoded.at \in Int /\ Len(Unread) \in Int
    BY <1>3, <1>4
  <2> QED
    BY <2>1, MinOfTwo, Zenon
<1>6. at \in 0..size
  BY <1>2, <1>3, <1>4, <1>5
<1>7. OutcomeOK'
  <2>1. size' = size
    BY DEF ItemCutShort, input
  <2> HIDE DEF at
  <2> QED
    BY <1>1, <1>6, <2>1 DEF OutcomeOK
<1>8. outcome' # Pending /\ outcome'.tag # "io"
  BY <1>1 DEF Pending, Err, Items!Pending, Items!Err
<1> QED
  BY <1>1, <1>7, <1>8, DataStays DEF ItemCutShort, Return, IInv, TypeOK

LEMMA StreamEndsStep == ASSUME IInv, StreamEnds PROVE IInv'
<1>1. outcome' = Nothing /\ outcome' # Pending /\ outcome'.tag # "io"
  BY DEF StreamEnds, Return, Nothing, Pending, Items!Nothing, Items!Pending
<1>2. OutcomeOK'
  BY <1>1 DEF OutcomeOK
<1> QED
  BY <1>1, <1>2, DataStays DEF StreamEnds, Return, IInv, TypeOK

LEMMA DecodeItemStep == ASSUME IInv, DecodeItem PROVE IInv'
<1> DEFINE need == Decoded.need
<1>1. /\ pc = "decode" /\ pc' = "idle" /\ Complete
      /\ outcome' = Value(Head(Unread))
      /\ offset' = offset + need
      /\ IF start + need = Len(buffer)
         THEN buffer' = <<>> /\ start' = 0
         ELSE start' = start + need /\ UNCHANGED buffer
      /\ UNCHANGED <<input, type, fed, answer, before, eof>>
  BY DEF DecodeItem, Return
<1>2. /\ TypeOK /\ Phases /\ Accounting
      /\ Unread # <<>> /\ need <= Len(Unread)
  BY <1>1 DEF IInv, Complete
<1>3. need \in Nat \ {0}
  BY <1>1, <1>2, DecodedHere DEF Verdict
<1> HIDE DEF need
<1>4. /\ Len(Unread) = fed - offset /\ Head(Unread) = offset
      /\ offset < fed /\ fed \in 0..size /\ offset \in 0..size /\ size \in Nat
  BY <1>1, <1>2, DecodedHere, TypedState
<1>5. /\ Len(Unread) = Len(buffer) - start
      /\ \A i \in 1..Len(Unread) : Unread[i] = buffer[start + i]
      /\ \A i \in 1..Len(Unread) : Unread[i] = offset + i - 1
      /\ buffer \in Seq(Byte) /\ start \in 0..Len(buffer) /\ Len(buffer) \in Nat
  BY <1>1, <1>2, HeldUnread, TypedState DEF Holds
<1>6. /\ offset' \in 0..size
      /\ fed - offset' = Len(buffer) - (start + need)
      /\ Len(buffer) - (start + need) \in Nat
  <2>1. offset' = offset + need
    BY <1>1
  <2>2. /\ Len(Unread) = Len(buffer) - start
        /\ start \in Nat /\ Len(buffer) \in Nat
    BY <1>5
  <2>3. need <= Len(Unread)
    BY <1>2
  <2> HIDE DEF Unread
  <2> QED
    BY <1>3, <1>4, <2>1, <2>2, <2>3
<1>7. OutcomeOK' /\ outcome' # Pending /\ outcome'.tag # "io"
  <2>1. outcome' = Value(offset) /\ offset \in 0..(size - 1) /\ size' = size
    BY <1>1, <1>4 DEF input
  <2> QED
    BY <2>1 DEF OutcomeOK, Value, Pending, Items!Value, Items!Pending
<1>8. buffer' \in Seq(Byte) /\ start' \in 0..Len(buffer')
  <2>1. CASE start + need = Len(buffer)
    BY <1>1, <2>1
  <2>2. CASE start + need # Len(buffer)
    BY <1>1, <1>2, <1>3, <1>5, <2>2
  <2> QED
    BY <2>1, <2>2
<1>9. TypeOK'
  BY <1>1, <1>2, <1>6, <1>7, <1>8 DEF TypeOK, Byte, input
<1>10. Phases'
  BY <1>1, <1>2, <1>7 DEF Phases, input
<1>11. Holds(Unread', offset', fed')
  <2>1. CASE start + need = Len(buffer)
    <3>1. Unread' = <<>>
      BY <1>1, <2>1 DEF Unread
    <3> QED
      BY <1>1, <1>6, <2>1, <3>1 DEF Holds
  <2>2. CASE start + need # Len(buffer)
    <3>1. start + need + 1 \in 1..(Len(buffer) + 1)
      BY <1>2, <1>3, <1>5
    <3>2. Len(buffer) \in ((start + need + 1) - 1)..Len(buffer)
      BY <1>2, <1>3, <1>5
    <3>3. Unread' = SubSeq(buffer, start + need + 1, Len(buffer))
      BY <1>1, <2>2 DEF Unread
    <3>4. /\ Len(Unread') = Len(buffer) - (start + need)
          /\ \A i \in 1..(Len(buffer) - (start + need)) :
               Unread'[i] = buffer[start + need + i]
      <4>1. start \in Nat /\ Len(buffer) \in Nat /\ buffer \in Seq(Byte)
        BY <1>5
      <4>2. /\ Len(Unread') = Len(buffer) - (start + need + 1) + 1
            /\ \A i \in 1..(Len(buffer) - (start + need + 1) + 1) :
                 Unread'[i] = buffer[start + need + 1 + i - 1]
        BY <4>1, <3>1, <3>2, <3>3, Slice
      <4> QED
        BY <1>3, <4>1, <4>2
    <3>5. \A i \in 1..(Len(buffer) - (start + need)) :
             buffer[start + need + i] = offset + need + i - 1
      <4> SUFFICES ASSUME NEW i \in 1..(Len(buffer) - (start + need))
                   PROVE  buffer[start + need + i] = offset + need + i - 1
        OBVIOUS
      <4>1. /\ Len(Unread) = Len(buffer) - start
            /\ start \in Nat /\ Len(buffer) \in Nat /\ offset \in Nat
        BY <1>4, <1>5
      <4>2. need + i \in 1..Len(Unread)
        BY <1>3, <4>1
      <4>3. /\ Unread[need + i] = buffer[start + (need + i)]
            /\ Unread[need + i] = offset + (need + i) - 1
        BY <1>5, <4>2
      <4>4. /\ start + (need + i) = start + need + i
            /\ offset + (need + i) - 1 = offset + need + i - 1
        BY <1>3, <4>1
      <4>5. buffer[start + need + i] = buffer[start + (need + i)]
        BY <4>4
      <4> QED
        BY <4>3, <4>4, <4>5
    <3> QED
      BY <1>1, <1>6, <3>4, <3>5 DEF Holds
  <2> QED
    BY <2>1, <2>2
<1>12. Accounting'
  BY <1>1, <1>11 DEF Accounting, Held, Holds
<1>13. IoErrorPosition'
  BY <1>7 DEF IoErrorPosition
<1> QED
  BY <1>9, <1>10, <1>12, <1>13 DEF IInv

-----------------------------------------------------------------------------
(* The steps of a refill.                                                   *)

LEMMA RoomTyped ==
  /\ [i \in 1..Room |-> Zero] \in Seq(Byte)
  /\ Len([i \in 1..Room |-> Zero]) = Room
BY ReaderAssumption DEF Byte

LEMMA MakeRoomStep == ASSUME IInv, MakeRoom PROVE IInv'
<1> DEFINE room == [i \in 1..Room |-> Zero]
<1>1. /\ pc = "decode" /\ pc' = "read" /\ ~eof
      /\ before' = Len(Unread) /\ buffer' = Unread \o room /\ start' = 0
      /\ UNCHANGED <<input, type, fed, answer, offset, eof, outcome>>
  BY DEF MakeRoom
<1>2. TypeOK /\ Phases /\ Accounting /\ IoErrorPosition
  BY DEF IInv
<1>3. Unread \in Seq(Byte) /\ Holds(Unread, offset, fed)
  BY <1>1, <1>2, HeldUnread
<1>4. room \in Seq(Byte)
  BY RoomTyped
<1> HIDE DEF room
<1>5. buffer' \in Seq(Byte) /\ before' \in 0..Len(buffer')
  BY <1>1, <1>3, <1>4, Concat
<1>6. SubSeq(buffer', 1, before') = Unread
  BY <1>1, <1>3, <1>4, PrefixOfConcat
<1>7. TypeOK'
  <2>1. start' \in 0..Len(buffer')
    BY <1>1, <1>5
  <2> QED
    BY <1>1, <1>2, <1>5, <2>1 DEF TypeOK, OutcomeOK, Byte, input
<1>8. Phases'
  BY <1>1, <1>2 DEF Phases, input
<1>9. Accounting'
  BY <1>1, <1>3, <1>6 DEF Accounting, Held, Holds
<1>10. IoErrorPosition'
  BY <1>1, <1>2 DEF IoErrorPosition
<1> QED
  BY <1>7, <1>8, <1>9, <1>10 DEF IInv

LEMMA ReadInterruptedStep == ASSUME IInv, ReadInterrupted PROVE IInv'
<1>1. TypeOK'
  BY DEF IInv, ReadInterrupted, TypeOK, OutcomeOK, input
<1>2. Phases'
  BY DEF IInv, ReadInterrupted, Phases, input
<1>3. Accounting'
  BY DEF IInv, ReadInterrupted, Accounting, Held, Unread
<1>4. IoErrorPosition'
  BY DEF IInv, ReadInterrupted, Phases, IoErrorPosition, Pending, Items!Pending
<1> QED
  BY <1>1, <1>2, <1>3, <1>4 DEF IInv

(* The n bytes of one read.                                                 *)
LEMMA ReadTyped ==
  ASSUME TypeOK, NEW n \in 0..(size - fed)
  PROVE  /\ [i \in 1..n |-> fed + i - 1] \in Seq(Byte)
         /\ Len([i \in 1..n |-> fed + i - 1]) = n
<1>1. fed \in Nat /\ size \in Nat /\ n \in Nat /\ n <= size - fed
  BY TypedState
<1>2. \A i \in 1..n : fed + i - 1 \in Byte
  BY <1>1 DEF Byte
<1> QED
  BY <1>1, <1>2

LEMMA ReadBytesStep == ASSUME IInv, ReadBytes PROVE IInv'
<1>1. PICK n \in 0..Min({Room, size - fed}) :
        /\ n = 0 <=> fed = size
        /\ buffer' = SubSeq(buffer, 1, before) \o [i \in 1..n |-> fed + i - 1]
        /\ fed' = fed + n
        /\ eof' = (n = 0)
        /\ answer' = IF n = 0 THEN "end" ELSE "bytes"
  BY DEF ReadBytes
<1> DEFINE held == SubSeq(buffer, 1, before)
           new == [i \in 1..n |-> fed + i - 1]
<1>2. /\ pc = "read" /\ pc' = "decode"
      /\ UNCHANGED <<input, type, before, start, offset, outcome>>
  BY DEF ReadBytes
<1>3. TypeOK /\ Phases /\ Accounting /\ IoErrorPosition
  BY DEF IInv
<1>4. size \in Nat /\ fed \in 0..size /\ offset \in 0..size
  BY <1>3, TypedState
<1>5. n \in 0..(size - fed)
  <2>1. Room \in Int /\ size - fed \in Int
    BY <1>4, ReaderAssumption
  <2>2. /\ Min({Room, size - fed}) <= size - fed
        /\ Min({Room, size - fed}) \in {Room, size - fed}
    BY <2>1, MinOfTwo, Zenon
  <2> QED
    BY <2>1, <2>2
<1>6. held \in Seq(Byte) /\ Holds(held, offset, fed)
  BY <1>2, <1>3, HeldRead
<1>7. new \in Seq(Byte) /\ Len(new) = n /\ \A i \in 1..n : new[i] = fed + i - 1
  BY <1>3, <1>5, ReadTyped
<1>8. buffer' = held \o new /\ start' = 0
  BY <1>1, <1>2, <1>3 DEF Phases
<1> HIDE DEF held, new
<1>9. /\ buffer' \in Seq(Byte)
      /\ Len(buffer') = Len(held) + n
      /\ \A i \in 1..Len(held) : buffer'[i] = held[i]
      /\ \A i \in 1..n : buffer'[Len(held) + i] = new[i]
  <2>1. held \in Seq(Byte) /\ new \in Seq(Byte) /\ Len(new) = n
    BY <1>6, <1>7
  <2>2. /\ held \o new \in Seq(Byte)
        /\ Len(held \o new) = Len(held) + Len(new)
        /\ \A i \in 1..Len(held) : (held \o new)[i] = held[i]
        /\ \A i \in 1..Len(new) : (held \o new)[Len(held) + i] = new[i]
    <3>1. held \in Seq(Byte) /\ new \in Seq(Byte)
      BY <2>1
    <3> QED
      BY <3>1
  <2> QED
    BY <1>8, <2>1, <2>2, Zenon
<1>10. fed' \in 0..size /\ fed' = fed + n
  BY <1>1, <1>4, <1>5
<1>11. Unread' = buffer'
  BY <1>8, <1>9, WholeSlice DEF Unread
<1>12. Holds(buffer', offset', fed')
  <2>1. Len(held) = fed - offset /\ Len(held) \in Nat
    BY <1>6 DEF Holds
  <2>2. Len(buffer') = fed' - offset
    BY <1>4, <1>5, <1>9, <1>10, <2>1
  <2>3. ASSUME NEW i \in 1..Len(buffer') PROVE buffer'[i] = offset + i - 1
    <3>1. CASE i <= Len(held)
      <4>1. i \in 1..Len(held)
        BY <3>1, <2>1
      <4> QED
        BY <1>6, <1>9, <4>1 DEF Holds
    <3>2. CASE i > Len(held)
      <4>1. i - Len(held) \in 1..n
        BY <3>2, <1>5, <1>9, <2>1
      <4>2. buffer'[Len(held) + (i - Len(held))] = fed + (i - Len(held)) - 1
        BY <1>7, <1>9, <4>1
      <4>3. /\ Len(held) + (i - Len(held)) = i
            /\ fed + (i - Len(held)) - 1 = offset + i - 1
        BY <1>4, <2>1
      <4> QED
        BY <4>2, <4>3
    <3> QED
      BY <3>1, <3>2, <2>1
  <2> QED
    BY <1>2, <2>2, <2>3 DEF Holds
<1>13. TypeOK'
  <2>1. start' \in 0..Len(buffer')
    BY <1>8, <1>9
  <2>2. eof' \in BOOLEAN /\ answer' \in {"bytes", "end"}
    BY <1>1
  <2> QED
    BY <1>2, <1>3, <1>9, <1>10, <2>1, <2>2 DEF TypeOK, OutcomeOK, Byte, input
<1>14. Phases'
  <2>1. eof' <=> answer' = "end"
    BY <1>1
  <2>2. eof' => fed' = size'
    <3>1. ASSUME n = 0 PROVE fed' = fed /\ fed = size
      <4>1. fed = size
        BY <1>1, <3>1
      <4>2. fed' = fed + 0
        BY <1>1, <3>1
      <4> QED
        BY <1>4, <4>1, <4>2
    <3> QED
      BY <1>1, <1>2, <3>1 DEF input
  <2>3. outcome' = Pending
    BY <1>2, <1>3 DEF Phases
  <2> QED
    BY <1>2, <2>1, <2>2, <2>3 DEF Phases
<1>15. Accounting'
  BY <1>2, <1>11, <1>12 DEF Accounting, Held, Holds
<1>16. IoErrorPosition'
  BY <1>2, <1>3 DEF Phases, IoErrorPosition, Pending, Items!Pending
<1> QED
  BY <1>13, <1>14, <1>15, <1>16 DEF IInv

LEMMA ReadFailsStep == ASSUME IInv, ReadFails PROVE IInv'
<1>1. /\ pc = "read" /\ pc' = "idle" /\ answer' = "error"
      /\ buffer' = SubSeq(buffer, 1, before)
      /\ outcome' = Err("io", offset + before)
      /\ UNCHANGED <<input, type, fed, before, start, offset, eof>>
  BY DEF ReadFails, Return
<1>2. TypeOK /\ Phases /\ Accounting /\ IoErrorPosition
  BY DEF IInv
<1>3. /\ buffer' \in Seq(Byte)
      /\ Len(buffer') = before
      /\ Holds(buffer', offset, fed)
  BY <1>1, <1>2, HeldRead
<1>4. size \in Nat /\ fed \in 0..size /\ offset \in 0..size
  BY <1>2, TypedState
<1>5. offset + before = fed
  BY <1>3, <1>4 DEF Holds
<1>6. start' = 0 /\ ~eof
  BY <1>1, <1>2 DEF Phases
<1>7. Unread' = buffer'
  BY <1>3, <1>6, WholeSlice DEF Unread
<1>8. outcome' = Err("io", fed)
  BY <1>1, <1>5
<1>9. OutcomeOK'
  <2>1. size' = size
    BY <1>1 DEF input
  <2> QED
    BY <1>4, <1>8, <2>1 DEF OutcomeOK
<1>10. TypeOK'
  <2>1. start' \in 0..Len(buffer')
    BY <1>3, <1>6
  <2> QED
    BY <1>1, <1>2, <1>3, <1>9, <2>1 DEF TypeOK, Byte, input
<1>11. Phases'
  <2>1. outcome' # Pending
    BY <1>8 DEF Err, Pending, Items!Err, Items!Pending
  <2> QED
    BY <1>1, <1>2, <1>6, <2>1 DEF Phases, input
<1>12. Accounting'
  BY <1>1, <1>3, <1>7 DEF Accounting, Held, Holds
<1>13. IoErrorPosition'
  BY <1>1, <1>8 DEF IoErrorPosition, Err, Items!Err
<1> QED
  BY <1>10, <1>11, <1>12, <1>13 DEF IInv

LEMMA IntoInnerStep == ASSUME IInv, IntoInner PROVE IInv'
<1>1. TypeOK'
  BY DEF IInv, IntoInner, TypeOK, OutcomeOK, input
<1>2. Phases'
  BY DEF IInv, IntoInner, Phases, input
<1>3. Accounting'
  BY DEF IntoInner, Accounting
<1>4. IoErrorPosition'
  BY DEF IInv, IntoInner, IoErrorPosition
<1> QED
  BY <1>1, <1>2, <1>3, <1>4 DEF IInv

LEMMA InitIInv == Init => IInv
<1> SUFFICES ASSUME Init PROVE IInv
  OBVIOUS
<1>1. TypeOK
  <2>1. /\ size \in 0..MaxBytes /\ fed \in 0..size /\ offset \in 0..size
    BY ReaderAssumption DEF Init
  <2>2. buffer \in Seq({Zero} \cup 0..(size - 1)) /\ start \in 0..Len(buffer)
    BY DEF Init
  <2> QED
    BY <2>1, <2>2 DEF Init, TypeOK, OutcomeOK
<1>2. Phases
  BY DEF Init, Phases, Pending, Nothing, Items!Pending, Items!Nothing
<1>3. Unread = <<>>
  BY DEF Init, Unread
<1>4. Accounting
  BY <1>3 DEF Init, Accounting, Held
<1>5. IoErrorPosition
  BY DEF Init, IoErrorPosition, Nothing, Items!Nothing
<1> QED
  BY <1>1, <1>2, <1>4, <1>5 DEF IInv

LEMMA StepIInv == IInv /\ [Next]_vars => IInv'
<1> SUFFICES ASSUME IInv, [Next]_vars PROVE IInv'
  OBVIOUS
<1>1. CASE Next
  BY <1>1, CallStep, DecodeItemStep, DecodeFailsStep, ItemCutShortStep,
     StreamEndsStep, MakeRoomStep, ReadInterruptedStep, ReadBytesStep,
     ReadFailsStep, IntoInnerStep DEF Next, Running
<1>2. CASE UNCHANGED vars
  BY <1>2 DEF vars, IInv, TypeOK, OutcomeOK, Phases, Accounting, Held, Unread,
              IoErrorPosition
<1> QED
  BY <1>1, <1>2

-----------------------------------------------------------------------------
(* The inductive invariant holds in every reachable state: what is buffered  *)
(* between the two offsets is what ties each refill to the calls before it.  *)
THEOREM InductiveInvariant == Safety => []IInv
  BY InitIInv, StepIInv, PTL DEF Safety

(* Every variable of the reader decoder keeps its type.                     *)
THEOREM TypeInvariant == Safety => []TypeOK
<1>1. IInv => TypeOK
  BY DEF IInv
<1> QED
  BY <1>1, InductiveInvariant, PTL

(* Compaction, refills, failed reads and their retries lose, repeat and     *)
(* reorder no byte, whatever the reader delivers and however it fails.      *)
THEOREM NothingLost == Safety => []Accounting
<1>1. IInv => Accounting
  BY DEF IInv
<1> QED
  BY <1>1, InductiveInvariant, PTL

(* An I/O error the caller sees is one the reader reported, and is placed   *)
(* after the last byte delivered.                                           *)
THEOREM IoErrorsPlaced == Safety => []IoErrorPosition
<1>1. IInv => IoErrorPosition
  BY DEF IInv
<1> QED
  BY <1>1, InductiveInvariant, PTL

(* The buffer never holds a whole item more than one read can add: memory   *)
(* is bounded by the longest item, not by the stream.                       *)
THEOREM BoundedBuffer == Safety => []BufferBounded
<1> DEFINE Bound == BufferBounded /\ RefillBounded
<1> USE ReaderAssumption
<1>1. Init => Bound
  BY DEF Init, BufferBounded, RefillBounded
<1>2. IInv /\ Bound /\ [Next]_vars => Bound'
  <2> SUFFICES ASSUME IInv, Bound, [Next]_vars PROVE Bound'
    OBVIOUS
  <2>1. CASE MakeRoom
    <3>1. /\ pc = "decode" /\ ~Complete /\ before' = Len(Unread)
          /\ buffer' = Unread \o [i \in 1..Room |-> Zero]
      BY <2>1 DEF MakeRoom
    <3>2. Unread \in Seq(Byte) /\ Len(Unread) \in Nat
      BY <3>1, HeldUnread DEF IInv
    <3>3. Len(Unread) <= Longest - 1
      <4>1. CASE Unread = <<>>
        BY <4>1
      <4>2. CASE Unread # <<>>
        <5>1. Decoded \in Verdict /\ Decoded.need <= Longest
          BY <3>1, <4>2, DecodedHere DEF IInv
        <5>2. Decoded.need > Len(Unread)
          BY <3>1, <3>2, <4>2, <5>1 DEF Complete, Verdict
        <5> QED
          BY <3>2, <5>1, <5>2 DEF Verdict
      <4> QED
        BY <4>1, <4>2
    <3>4. Len(buffer') = Len(Unread) + Room
      BY <3>1, <3>2, RoomTyped, Concat
    <3> QED
      BY <3>1, <3>2, <3>3, <3>4 DEF BufferBounded, RefillBounded
  <2>2. CASE ReadBytes
    <3>1. PICK n \in 0..Min({Room, size - fed}) :
            buffer' = SubSeq(buffer, 1, before) \o [i \in 1..n |-> fed + i - 1]
      BY <2>2 DEF ReadBytes
    <3>2. pc = "read" /\ pc' = "decode"
      BY <2>2 DEF ReadBytes
    <3>3. /\ SubSeq(buffer, 1, before) \in Seq(Byte)
          /\ Len(SubSeq(buffer, 1, before)) = before
          /\ before \in Nat
      BY <3>2, HeldRead, TypedState DEF IInv
    <3>4. size - fed \in Int /\ Room \in Int
      BY TypedState DEF IInv
    <3>5. /\ Min({Room, size - fed}) \in {Room, size - fed}
          /\ Min({Room, size - fed}) <= Room /\ Min({Room, size - fed}) <= size - fed
      BY <3>4, MinOfTwo, Zenon
    <3>6. n \in 0..(size - fed) /\ n <= Room
      BY <3>4, <3>5
    <3>7. /\ [i \in 1..n |-> fed + i - 1] \in Seq(Byte)
          /\ Len([i \in 1..n |-> fed + i - 1]) = n
      BY <3>6, ReadTyped DEF IInv
    <3>8. Len(buffer') = before + n
      BY <3>1, <3>3, <3>7, Concat
    <3>9. before <= Longest - 1
      BY <3>2 DEF RefillBounded
    <3> QED
      BY <3>2, <3>3, <3>6, <3>8, <3>9 DEF BufferBounded, RefillBounded
  <2>3. CASE ReadFails
    <3>1. pc = "read" /\ pc' = "idle" /\ buffer' = SubSeq(buffer, 1, before)
      BY <2>3 DEF ReadFails, Return
    <3>2. Len(buffer') = before /\ before \in Nat
      BY <3>1, HeldRead, TypedState DEF IInv
    <3>3. before <= Longest - 1
      BY <3>1 DEF RefillBounded
    <3> QED
      BY <3>1, <3>2, <3>3 DEF BufferBounded, RefillBounded
  <2>4. CASE DecodeItem
    BY <2>4 DEF DecodeItem, Return, BufferBounded, RefillBounded
  <2>5. CASE IntoInner
    BY <2>5 DEF IntoInner, BufferBounded, RefillBounded
  <2>6. CASE DecodeFails \/ ItemCutShort \/ StreamEnds \/ ReadInterrupted
             \/ UNCHANGED vars
    BY <2>6 DEF DecodeFails, ItemCutShort, StreamEnds, ReadInterrupted, Return,
                vars, BufferBounded, RefillBounded
  <2>7. ASSUME NEW t \in Types, Call(t) PROVE Bound'
    BY <2>7 DEF Call, BufferBounded, RefillBounded
  <2> QED
    BY <2>1, <2>2, <2>3, <2>4, <2>5, <2>6, <2>7 DEF Next, Running
<1>3. Bound => BufferBounded
  OBVIOUS
<1> QED
  BY <1>1, <1>2, <1>3, InductiveInvariant, PTL DEF Safety

(* Once the reader has reported its end, no call asks it again.             *)
THEOREM NeverReadAfterEnd == Safety => NoReadAfterEnd
<1>1. IInv /\ [Next]_vars
        => [answer = "end" => answer' = "end" /\ pc' # "read"]_vars
  BY DEF IInv, Phases, Next, Running, Call, DecodeItem, DecodeFails,
         ItemCutShort, StreamEnds, MakeRoom, ReadInterrupted, ReadBytes,
         ReadFails, IntoInner, Return, vars
<1> QED
  BY <1>1, InductiveInvariant, PTL DEF Safety, NoReadAfterEnd

-----------------------------------------------------------------------------
(* How the steps map to the abstract stream.                                *)

LEMMA MapItem == ASSUME IInv, DecodeItem PROVE Items!GiveItem
<1>1. /\ pc = "decode" /\ Complete /\ Decoded.ok
      /\ outcome' = Value(Head(Unread)) /\ offset' = offset + Decoded.need
      /\ UNCHANGED <<size, verdict, type>>
  BY DEF DecodeItem, Return, input
<1>2. /\ Decoded = verdict[type][offset] /\ Decoded \in Verdict
      /\ Head(Unread) = offset
      /\ offset < fed /\ Decoded.need <= fed - offset
  BY <1>1, DecodedHere DEF IInv, Complete
<1>3. size \in Nat /\ fed \in 0..size /\ offset \in 0..size
  BY TypedState DEF IInv
<1>4. offset < size /\ Decoded.need <= size - offset
  BY <1>2, <1>3 DEF Verdict
<1>5. outcome = Pending
  BY <1>1 DEF IInv, Phases
<1> QED
  BY <1>1, <1>2, <1>4, <1>5
     DEF Items!GiveItem, Items!Here, Items!Rest, Items!Return, Value, Pending

LEMMA MapError == ASSUME IInv, DecodeFails PROVE Items!GiveError
<1>1. /\ pc = "decode" /\ Complete /\ ~Decoded.ok
      /\ outcome' = Err("malformed", offset + Decoded.at)
      /\ UNCHANGED <<size, verdict, type, offset>>
  BY DEF DecodeFails, Return, input
<1>2. /\ Decoded = verdict[type][offset] /\ Decoded \in Verdict
      /\ offset < fed /\ Decoded.need <= fed - offset
  BY <1>1, DecodedHere DEF IInv, Complete
<1>3. size \in Nat /\ fed \in 0..size /\ offset \in 0..size
  BY TypedState DEF IInv
<1>4. offset < size /\ Decoded.need <= size - offset
  BY <1>2, <1>3 DEF Verdict
<1>5. outcome = Pending
  BY <1>1 DEF IInv, Phases
<1> QED
  BY <1>1, <1>2, <1>4, <1>5
     DEF Items!GiveError, Items!Here, Items!Rest, Items!Return, Err, Pending

LEMMA MapEof == ASSUME IInv, ItemCutShort PROVE Items!GiveEof
<1>1. /\ pc = "decode" /\ Unread # <<>> /\ Decoded.need > Len(Unread) /\ eof
      /\ outcome' = Err("eof", offset + Min({Decoded.at, Len(Unread)}))
      /\ UNCHANGED <<size, verdict, type, offset>>
  BY DEF ItemCutShort, Short, Return, input
<1>2. /\ Decoded = verdict[type][offset]
      /\ Len(Unread) = fed - offset /\ offset < fed
  BY <1>1, DecodedHere DEF IInv
<1>3. size \in Nat /\ fed = size /\ outcome = Pending
  BY <1>1, TypedState DEF IInv, Phases
<1> QED
  BY <1>1, <1>2, <1>3
     DEF Items!GiveEof, Items!Here, Items!Rest, Items!Return, Err, Pending,
         Min, Items!Min

LEMMA MapEnd == ASSUME IInv, StreamEnds PROVE Items!GiveEnd
<1>1. /\ pc = "decode" /\ Unread = <<>> /\ eof /\ outcome' = Nothing
      /\ UNCHANGED <<size, verdict, type, offset>>
  BY DEF StreamEnds, Return, input
<1>2. offset = fed /\ fed = size /\ outcome = Pending
  BY <1>1, AllConsumed DEF IInv, Phases
<1> QED
  BY <1>1, <1>2 DEF Items!GiveEnd, Items!Return, Nothing, Pending

LEMMA MapIoError == ASSUME IInv, ReadFails PROVE Items!GiveIoError
<1>1. /\ pc = "read" /\ outcome' = Err("io", offset + before)
      /\ UNCHANGED <<size, verdict, type, offset>>
  BY DEF ReadFails, Return, input
<1>2. /\ before \in Nat /\ before = fed - offset
      /\ size \in Nat /\ fed \in 0..size /\ offset \in 0..size
  BY <1>1, HeldRead, TypedState DEF IInv, Holds
<1>3. offset + before \in offset..size
  BY <1>2
<1>4. outcome = Pending
  BY <1>1 DEF IInv, Phases
<1> QED
  BY <1>1, <1>3, <1>4 DEF Items!GiveIoError, Items!Return, Err, Pending

(* ReaderDeserializer implements the decoder that never sees a buffer: a     *)
(* call's answer depends on the offset and the type alone, not on how the    *)
(* stream was cut into reads nor on the errors of earlier calls.             *)
THEOREM Refinement == Safety => Items!Safety
<1>1. Init => Items!Init
  BY DEF Init, Items!Init, Nothing
<1>2. IInv /\ [Next]_vars => [Items!Next]_(Items!vars)
  <2> SUFFICES ASSUME IInv, [Next]_vars PROVE [Items!Next]_(Items!vars)
    OBVIOUS
  <2>1. ASSUME NEW t \in Types, Call(t) PROVE Items!Next
    <3>1. outcome # Pending
      BY <2>1 DEF Call, IInv, Phases
    <3> QED
      BY <2>1, <3>1 DEF Call, Items!Next, Items!Call, Pending, input
  <2>2. CASE Running \/ ReadFails
    <3>1. CASE DecodeItem \/ DecodeFails \/ ItemCutShort \/ StreamEnds \/ ReadFails
      BY <3>1, MapItem, MapError, MapEof, MapEnd, MapIoError
         DEF Items!Next, Items!Answer
    <3>2. CASE MakeRoom
      BY <3>2 DEF MakeRoom, Items!vars, input
    <3> QED
      BY <2>2, <3>1, <3>2 DEF Running
  <2>3. CASE ReadInterrupted \/ ReadBytes \/ IntoInner \/ UNCHANGED vars
    BY <2>3 DEF ReadInterrupted, ReadBytes, IntoInner, vars, Items!vars, input
  <2> QED
    BY <2>1, <2>2, <2>3 DEF Next
<1> QED
  BY <1>1, <1>2, InductiveInvariant, PTL DEF Safety, Items!Safety
=============================================================================
