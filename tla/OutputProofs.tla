---------------------------- MODULE OutputProofs ----------------------------
(* Proofs about ByteOutput for every script of calls, every way to cut them  *)
(* into pieces and every output.                                             *)
EXTENDS ByteOutput, TLAPS

-----------------------------------------------------------------------------
(* Sequences.                                                               *)

LEMMA Slice ==
  ASSUME NEW S, NEW s \in Seq(S), NEW m \in 1..(Len(s) + 1),
         NEW n \in (m - 1)..Len(s)
  PROVE  /\ SubSeq(s, m, n) \in Seq(S)
         /\ Len(SubSeq(s, m, n)) = n - m + 1
         /\ \A i \in 1..(n - m + 1) : SubSeq(s, m, n)[i] = s[m + i - 1]
  OBVIOUS

LEMMA WholeSlice ==
  ASSUME NEW S, NEW s \in Seq(S)
  PROVE  SubSeq(s, 1, Len(s)) = s
  OBVIOUS

LEMMA Concat ==
  ASSUME NEW S, NEW s \in Seq(S), NEW t \in Seq(S)
  PROVE  /\ s \o t \in Seq(S)
         /\ Len(s \o t) = Len(s) + Len(t)
         /\ \A i \in 1..Len(s) : (s \o t)[i] = s[i]
         /\ \A i \in 1..Len(t) : (s \o t)[Len(s) + i] = t[i]
  OBVIOUS

LEMMA SameSequence ==
  ASSUME NEW S, NEW s \in Seq(S), NEW t \in Seq(S), Len(s) = Len(t),
         \A i \in 1..Len(s) : s[i] = t[i]
  PROVE  s = t
  OBVIOUS

LEMMA ConcatAssociative ==
  ASSUME NEW S, NEW s \in Seq(S), NEW t \in Seq(S), NEW u \in Seq(S)
  PROVE  (s \o t) \o u = s \o (t \o u)
  OBVIOUS

LEMMA Front ==
  ASSUME NEW S, NEW s \in Seq(S), NEW n \in 0..Len(s)
  PROVE  /\ SubSeq(s, 1, n) \in Seq(S)
         /\ Len(SubSeq(s, 1, n)) = n
         /\ \A i \in 1..n : SubSeq(s, 1, n)[i] = s[i]
  OBVIOUS

(* A front of a sequence grows by the slice that follows it.                *)
LEMMA FrontGrows ==
  ASSUME NEW S, NEW s \in Seq(S), NEW a \in 0..Len(s), NEW b \in a..Len(s)
  PROVE  SubSeq(s, 1, a) \o SubSeq(s, a + 1, b) = SubSeq(s, 1, b)
<1> DEFINE f == SubSeq(s, 1, a)
           g == SubSeq(s, a + 1, b)
           h == SubSeq(s, 1, b)
<1>0. Len(s) \in Nat /\ b \in 0..Len(s)
  OBVIOUS
<1>1. /\ f \in Seq(S) /\ Len(f) = a
      /\ \A i \in 1..a : f[i] = s[i]
  BY Front
<1>2. /\ g \in Seq(S) /\ Len(g) = b - a
      /\ \A i \in 1..(b - a) : g[i] = s[a + i]
  <2>1. a + 1 \in 1..(Len(s) + 1) /\ b \in ((a + 1) - 1)..Len(s)
    OBVIOUS
  <2>2. /\ g \in Seq(S) /\ Len(g) = b - (a + 1) + 1
        /\ \A i \in 1..(b - (a + 1) + 1) : g[i] = s[(a + 1) + i - 1]
    BY <2>1, Slice
  <2> HIDE DEF g
  <2> QED
    BY <2>2
<1>3. /\ h \in Seq(S) /\ Len(h) = b
      /\ \A i \in 1..b : h[i] = s[i]
  BY <1>0, Front
<1> HIDE DEF f, g, h
<1>4. /\ f \o g \in Seq(S) /\ Len(f \o g) = Len(f) + Len(g)
      /\ \A i \in 1..Len(f) : (f \o g)[i] = f[i]
      /\ \A i \in 1..Len(g) : (f \o g)[Len(f) + i] = g[i]
  <2>1. f \in Seq(S) /\ g \in Seq(S)
    BY <1>1, <1>2
  <2> QED
    BY <2>1, Concat
<1>5. ASSUME NEW i \in 1..b PROVE (f \o g)[i] = h[i]
  <2>0. i \in Nat /\ a \in Nat /\ b \in Nat
    BY <1>0
  <2>1. CASE i <= a
    <3>1. i \in 1..a
      BY <2>0, <2>1
    <3> QED
      BY <3>1, <1>1, <1>3, <1>4
  <2>2. CASE ~(i <= a)
    <3>1. i - a \in 1..(b - a) /\ a + (i - a) = i
      BY <2>0, <2>2
    <3>2. (f \o g)[a + (i - a)] = g[i - a]
      BY <3>1, <1>1, <1>2, <1>4
    <3>3. g[i - a] = s[a + (i - a)]
      BY <3>1, <1>2
    <3> QED
      BY <3>1, <3>2, <3>3, <1>3
  <2> QED
    BY <2>1, <2>2
<1>6. Len(f \o g) = b /\ Len(h) = b
  <2>1. Len(f \o g) = a + (b - a)
    BY <1>1, <1>2, <1>4
  <2> QED
    BY <2>1, <1>0, <1>3
<1>7. f \o g = h
  <2>1. \A i \in 1..Len(f \o g) : (f \o g)[i] = h[i]
    BY <1>5, <1>6
  <2> QED
    BY <1>3, <1>4, <1>6, <2>1, SameSequence
<1> QED
  BY <1>7 DEF f, g, h
-----------------------------------------------------------------------------
(* One call.                                                                *)

LEMMA CallOK ==
  ASSUME TypeOK, made < Len(script)
  PROVE  /\ Bytes \in Seq(Byte) /\ Len(Bytes) \in Nat
         /\ Current.cuts \subseteq 1..Len(Bytes)
         /\ Bytes # <<>> => Len(Bytes) \in Current.cuts
         /\ Current.refusal \notin {"write_zero", "io"}
<1>1. made + 1 \in 1..Len(script)
  BY DEF TypeOK, IsScript
<1>2. IsCall(Current)
  BY <1>1 DEF TypeOK, IsScript, Current
<1>3. Bytes \in Seq(Byte)
  BY <1>2 DEF IsCall, Bytes
<1>4. Len(Bytes) \in Nat
  BY <1>3
<1> QED
  BY <1>2, <1>3, <1>4 DEF IsCall, Bytes

(* During a call the output holds what it held and a front of the call.     *)
LEMMA WithinCall ==
  ASSUME IInv, phase = "writing"
  PROVE  /\ made \in Nat /\ Len(script) \in Nat /\ made < Len(script)
         /\ Bytes \in Seq(Byte) /\ Len(Bytes) \in Nat
         /\ given \in 0..Len(Bytes)
         /\ taken = settled \o SubSeq(Bytes, 1, given)
         /\ Len(taken) = Len(settled) + given
         /\ Len(taken) \in Nat /\ Len(settled) \in Nat
<1>1. TypeOK /\ made < Len(script) /\ given <= Len(Bytes)
      /\ taken = settled \o SubSeq(Bytes, 1, given)
  BY DEF IInv, Accounting
<1>2. Bytes \in Seq(Byte) /\ Len(Bytes) \in Nat
  BY <1>1, CallOK
<1>3. given \in 0..Len(Bytes) /\ settled \in Seq(Byte)
      /\ made \in Nat /\ Len(script) \in Nat
  BY <1>1, <1>2 DEF TypeOK, IsScript
<1>4. SubSeq(Bytes, 1, given) \in Seq(Byte) /\ Len(SubSeq(Bytes, 1, given)) = given
  BY <1>2, <1>3, Front
<1>5. Len(taken) = Len(settled) + given
  BY <1>1, <1>3, <1>4, Concat
<1>6. Len(settled) \in Nat
  BY <1>3
<1> QED
  BY <1>1, <1>2, <1>3, <1>5, <1>6

(* The next bytes of the call, however many, keep it so.                    *)
LEMMA MoreGiven ==
  ASSUME IInv, phase = "writing", NEW m \in given..Len(Bytes)
  PROVE  /\ taken \o SubSeq(Bytes, given + 1, m) = settled \o SubSeq(Bytes, 1, m)
         /\ taken \o SubSeq(Bytes, given + 1, m) \in Seq(Byte)
         /\ Len(taken \o SubSeq(Bytes, given + 1, m)) = Len(taken) + (m - given)
<1> DEFINE f == SubSeq(Bytes, 1, given)
           g == SubSeq(Bytes, given + 1, m)
<1>1. /\ Bytes \in Seq(Byte) /\ Len(Bytes) \in Nat /\ given \in 0..Len(Bytes)
      /\ taken = settled \o f
  BY WithinCall
<1>2. settled \in Seq(Byte) /\ taken \in Seq(Byte)
  BY DEF IInv, TypeOK
<1>3. f \in Seq(Byte)
  BY <1>1, Front
<1>4. g \in Seq(Byte) /\ Len(g) = m - given
  <2>1. given + 1 \in 1..(Len(Bytes) + 1) /\ m \in ((given + 1) - 1)..Len(Bytes)
    BY <1>1
  <2>2. g \in Seq(Byte) /\ Len(g) = m - (given + 1) + 1
    BY <1>1, <2>1, Slice
  <2> HIDE DEF g
  <2> QED
    BY <2>2, <1>1
<1>5. f \o g = SubSeq(Bytes, 1, m)
  BY <1>1, FrontGrows
<1> HIDE DEF f, g
<1>6. (settled \o f) \o g = settled \o (f \o g)
  BY SMTT(30), <1>2, <1>3, <1>4, ConcatAssociative
<1>7. taken \o g \in Seq(Byte) /\ Len(taken \o g) = Len(taken) + Len(g)
  BY <1>2, <1>4, Concat
<1> QED
  BY <1>1, <1>4, <1>5, <1>6, <1>7 DEF g

LEMMA PieceEnds ==
  ASSUME IInv, NEW end, Writing(end)
  PROVE  /\ phase = "writing"
         /\ end \in (given + 1)..Len(Bytes)
         /\ given \in Nat /\ end \in Nat
<1>1. phase = "writing" /\ end \in Current.cuts /\ end > given
  BY DEF Writing
<1>2. /\ made < Len(script) /\ Len(Bytes) \in Nat /\ given \in 0..Len(Bytes)
  BY <1>1, WithinCall
<1>3. end \in 1..Len(Bytes)
  BY <1>1, <1>2, CallOK DEF IInv
<1> QED
  BY <1>1, <1>2, <1>3

-----------------------------------------------------------------------------
(* The invariant, action by action.                                         *)

LEMMA InitInvariant == Init => IInv
<1> SUFFICES ASSUME Init PROVE IInv
  OBVIOUS
<1>1. IsScript(script) /\ front \in Fronts /\ room \in 0..MaxRoom /\ MaxRoom \in Nat
  BY OutputAssumption DEF Init
<1>2. kind \in {"vec", "slice", "count", "io"}
  <2>1. front \in DOMAIN Outputs /\ kind \in Outputs[front]
    BY OutputAssumption DEF Init
  <2> QED
    BY <2>1 DEF Outputs
<1>3. TypeOK
  <2>1. taken = <<>> /\ settled = <<>> /\ made = 0 /\ given = 0 /\ offset = 0 /\ at = 0
        /\ full = FALSE /\ phase = "idle"
    BY DEF Init
  <2>2. <<>> \in Seq(Byte)
    OBVIOUS
  <2>3. 0 \in 0..Len(script)
    BY <1>1 DEF IsScript
  <2> QED
    BY <1>1, <1>2, <2>1, <2>2, <2>3 DEF TypeOK
<1>4. Accounting
  <2>1. offset = 0 /\ taken = <<>> /\ settled = <<>> /\ phase = "idle" /\ answer = "none"
    BY DEF Init
  <2>2. room \in Nat
    BY <1>1
  <2> QED
    BY <2>1, <2>2 DEF Accounting
<1> QED
  BY <1>3, <1>4 DEF IInv

LEMMA BeginInvariant == ASSUME IInv, Begin PROVE IInv'
<1>1. /\ phase = "idle" /\ made < Len(script) /\ phase' = "writing" /\ given' = 0
      /\ UNCHANGED <<front, kind, room, script, made, taken, offset, full,
                     settled, answer, at>>
  BY DEF Begin, setup
<1>2. Bytes \in Seq(Byte) /\ Len(Bytes) \in Nat /\ settled \in Seq(Byte)
  BY <1>1, CallOK DEF IInv, TypeOK
<1>3. Bytes' = Bytes
  BY <1>1 DEF Bytes, Current
<1>4. TypeOK'
  BY <1>1 DEF IInv, TypeOK
<1>5. settled \o SubSeq(Bytes, 1, 0) = settled
  BY <1>2
<1>6. Accounting'
  <2>1. /\ (kind # "vec" => offset = Len(taken)) /\ (kind = "slice" => Len(taken) <= room)
        /\ taken = settled /\ (answer \in {"write_zero", "io"} => at = Len(settled))
    BY <1>1 DEF IInv, Accounting
  <2> QED
    BY <1>1, <1>2, <1>3, <1>5, <2>1 DEF Accounting
<1> QED
  BY <1>4, <1>6 DEF IInv

(* The output takes the bytes up to m.                                      *)
LEMMA TookInvariant ==
  ASSUME IInv, phase = "writing", NEW m \in given..Len(Bytes),
         taken' = taken \o SubSeq(Bytes, given + 1, m), given' = m,
         offset' = IF kind = "vec" THEN offset ELSE offset + (m - given),
         kind = "slice" => offset + (m - given) <= room,
         UNCHANGED <<setup, made, phase, full, settled, answer, at>>
  PROVE  IInv'
<1> DEFINE more == taken \o SubSeq(Bytes, given + 1, m)
<1>1. /\ made < Len(script) /\ Len(Bytes) \in Nat /\ given \in 0..Len(Bytes)
      /\ Len(taken) \in Nat
  BY WithinCall
<1>2. /\ more = settled \o SubSeq(Bytes, 1, m) /\ more \in Seq(Byte)
      /\ Len(more) = Len(taken) + (m - given)
  BY MoreGiven
<1>3. m \in Nat /\ m <= Len(Bytes) /\ given \in Nat /\ m - given \in Nat
  BY <1>1
<1>4. UNCHANGED <<front, kind, room, script>> /\ Bytes' = Bytes
  BY DEF setup, Bytes, Current
<1> HIDE DEF more
<1>5. taken' = more
  BY DEF more
<1>6. TypeOK'
  <2>1. TypeOK /\ offset \in Nat
    BY DEF IInv, TypeOK
  <2>2. offset' \in Nat
    BY <1>3, <2>1
  <2> QED
    BY <1>2, <1>3, <1>4, <1>5, <2>1, <2>2 DEF TypeOK
<1>7. Accounting'
  <2>1. /\ kind # "vec" => offset = Len(taken)
        /\ answer \in {"write_zero", "io"} => at = Len(settled)
    BY DEF IInv, Accounting
  <2>2. kind # "vec" => offset' = Len(more)
    BY <1>2, <2>1
  <2>3. kind = "slice" => Len(more) <= room
    BY <1>2, <2>1
  <2> QED
    BY <1>1, <1>2, <1>3, <1>4, <1>5, <2>1, <2>2, <2>3 DEF Accounting
<1> QED
  BY <1>6, <1>7 DEF IInv

LEMMA ExtendInvariant == ASSUME IInv, NEW end, Extend(end) PROVE IInv'
<1>1. Writing(end) /\ kind \in {"vec", "count"}
      /\ taken' = taken \o SubSeq(Bytes, given + 1, end) /\ given' = end
      /\ UNCHANGED <<setup, made, phase, full, settled, answer, at>>
  BY DEF Extend, Piece
<1>2. offset' = IF kind = "vec" THEN offset ELSE offset + (end - given)
  BY <1>1 DEF Extend
<1>3. phase = "writing" /\ end \in given..Len(Bytes)
  BY <1>1, PieceEnds
<1> QED
  BY <1>1, <1>2, <1>3, TookInvariant

LEMMA CopyInvariant == ASSUME IInv, NEW end, Copy(end) PROVE IInv'
<1>1. Writing(end) /\ kind = "slice" /\ offset + (end - given) <= room
      /\ taken' = SubSeq(taken, 1, offset) \o SubSeq(Bytes, given + 1, end)
      /\ given' = end /\ offset' = offset + (end - given)
      /\ UNCHANGED <<setup, made, phase, full, settled, answer, at>>
  BY DEF Copy, Piece
<1>2. SubSeq(taken, 1, offset) = taken
  <2>1. taken \in Seq(Byte) /\ offset = Len(taken)
    BY <1>1 DEF IInv, TypeOK, Accounting
  <2> QED
    BY <2>1, WholeSlice
<1>3. phase = "writing" /\ end \in given..Len(Bytes)
  BY <1>1, PieceEnds
<1>4. taken' = taken \o SubSeq(Bytes, given + 1, end)
  BY <1>1, <1>2
<1>5. offset' = IF kind = "vec" THEN offset ELSE offset + (end - given)
  BY <1>1
<1> QED
  BY <1>1, <1>3, <1>4, <1>5, TookInvariant

LEMMA WritePartInvariant == ASSUME IInv, NEW end, WritePart(end) PROVE IInv'
<1>1. Writing(end) /\ kind = "io"
      /\ UNCHANGED <<setup, made, phase, full, settled, answer, at>>
  BY DEF WritePart
<1>2. PICK n \in 1..(end - given) :
        /\ taken' = taken \o SubSeq(Bytes, given + 1, given + n)
        /\ given' = given + n
        /\ offset' = offset + n
  BY DEF WritePart
<1>3. phase = "writing" /\ end \in (given + 1)..Len(Bytes) /\ given \in Nat /\ end \in Nat
      /\ Len(Bytes) \in Nat
  BY <1>1, PieceEnds, WithinCall
<1>4. given + n \in given..Len(Bytes) /\ (given + n) - given = n
  BY <1>3
<1>5. offset' = IF kind = "vec" THEN offset ELSE offset + ((given + n) - given)
  BY <1>1, <1>2, <1>4
<1> QED
  BY <1>1, <1>2, <1>3, <1>4, <1>5, TookInvariant

(* A call that returns leaves what it gave.                                 *)
LEMMA ReturnInvariant ==
  ASSUME IInv, phase = "writing", NEW result, NEW place \in Nat,
         result \in {"write_zero", "io"} => place = Len(taken),
         UNCHANGED <<setup, given, taken, offset, full>>, Return(result, place)
  PROVE  IInv'
<1>1. /\ UNCHANGED <<front, kind, room, script, given, taken, offset, full>>
      /\ phase' = "idle" /\ made' = made + 1 /\ settled' = taken
      /\ answer' = result /\ at' = place
  BY DEF setup, Return
<1>2. made \in Nat /\ Len(script) \in Nat /\ made < Len(script)
  BY WithinCall
<1>3. made + 1 \in 0..Len(script)
  BY <1>2
<1>4. TypeOK'
  BY <1>1, <1>3 DEF IInv, TypeOK
<1>5. Accounting'
  BY <1>1 DEF IInv, Accounting
<1> QED
  BY <1>4, <1>5 DEF IInv

LEMMA Failures ==
  ASSUME IInv, NEW end, CopyFails(end) \/ WriteZero(end) \/ WriteFails(end)
  PROVE  IInv'
<1>1. offset \in Nat
  BY DEF IInv, TypeOK
<1>2. CASE CopyFails(end)
  <2>1. Writing(end) /\ UNCHANGED <<setup, given, taken, offset, full>>
    BY <1>2 DEF CopyFails
  <2>2. PICK place \in Nat : Return("too_small", place)
    BY <1>1, <1>2 DEF CopyFails
  <2> QED
    BY <2>1, <2>2, PieceEnds, ReturnInvariant
<1>3. CASE WriteZero(end)
  <2>1. Writing(end) /\ UNCHANGED <<setup, given, taken, offset, full>>
        /\ kind = "io" /\ Return("write_zero", offset)
    BY <1>3 DEF WriteZero
  <2>2. offset = Len(taken)
    BY <2>1 DEF IInv, Accounting
  <2> QED
    BY <1>1, <2>1, <2>2, PieceEnds, ReturnInvariant
<1>4. CASE WriteFails(end)
  <2>1. Writing(end) /\ UNCHANGED <<setup, given, taken, offset, full>>
        /\ kind = "io" /\ Return("io", offset)
    BY <1>4 DEF WriteFails
  <2>2. offset = Len(taken)
    BY <2>1 DEF IInv, Accounting
  <2> QED
    BY <1>1, <2>1, <2>2, PieceEnds, ReturnInvariant
<1> QED
  BY <1>2, <1>3, <1>4

LEMMA FinishInvariant == ASSUME IInv, Finish PROVE IInv'
<1>1. phase = "writing" /\ UNCHANGED <<setup, given, taken, offset, full>>
      /\ Return(Current.refusal, 0)
  BY DEF Finish
<1>2. Current.refusal \notin {"write_zero", "io"}
  BY <1>1, WithinCall, CallOK DEF IInv
<1> QED
  BY <1>1, <1>2, ReturnInvariant

LEMMA UnchangedInvariant == ASSUME IInv, UNCHANGED vars PROVE IInv'
<1>1. UNCHANGED <<front, kind, room, script, made, phase, given, taken, offset,
                  full, settled, answer, at>>
  BY DEF vars, setup
<1>2. Bytes' = Bytes
  BY <1>1 DEF Bytes, Current
<1> QED
  BY <1>1, <1>2 DEF IInv, TypeOK, Accounting

LEMMA FillsInvariant == ASSUME IInv, Fills PROVE IInv'
<1>1. UNCHANGED <<front, kind, room, script, made, phase, given, taken, offset,
                  settled, answer, at>> /\ full' = TRUE
  BY DEF Fills, setup
<1>2. Bytes' = Bytes
  BY <1>1 DEF Bytes, Current
<1> QED
  BY <1>1, <1>2 DEF IInv, TypeOK, Accounting

LEMMA StepInvariant == IInv /\ [Next]_vars => IInv'
<1> SUFFICES ASSUME IInv, [Next]_vars PROVE IInv'
  OBVIOUS
<1>1. CASE Begin
  BY <1>1, BeginInvariant
<1>2. CASE Finish
  BY <1>2, FinishInvariant
<1>3. CASE Taking
  <2>1. PICK end \in Current.cuts :
          Extend(end) \/ Copy(end) \/ CopyFails(end) \/ WritePart(end) \/ WriteZero(end)
    BY <1>3 DEF Taking
  <2> QED
    BY <2>1, ExtendInvariant, CopyInvariant, WritePartInvariant, Failures
<1>4. CASE Disturbed
  <2>1. PICK end \in Current.cuts : WriteFails(end) \/ Interrupted(end)
    BY <1>4 DEF Disturbed
  <2>2. Interrupted(end) => UNCHANGED vars
    BY DEF Interrupted
  <2> QED
    BY <2>1, <2>2, Failures, UnchangedInvariant
<1>5. CASE Fills
  BY <1>5, FillsInvariant
<1>6. CASE Over \/ UNCHANGED vars
  BY <1>6, UnchangedInvariant DEF Over
<1> QED
  BY <1>1, <1>2, <1>3, <1>4, <1>5, <1>6 DEF Next, Progress

-----------------------------------------------------------------------------
(* What an output says it has taken it has taken, and that is all that was   *)
(* encoded up to the byte where the call is or failed, for every script of   *)
(* calls and every behaviour of the writer.                                  *)
THEOREM InductiveInvariant == Safety => []IInv
<1> QED
  BY InitInvariant, StepInvariant, PTL DEF Safety

-----------------------------------------------------------------------------
(* The refinement.                                                          *)

LEMMA FinishComplete == ASSUME IInv, Finish PROVE Abstract!Complete
<1>1. phase = "writing" /\ given = Len(Bytes)
      /\ UNCHANGED <<front, kind, room, script, given, taken, offset, full>>
      /\ settled' = taken' /\ made' = made + 1 /\ answer' = Current.refusal
  BY DEF Finish, Return, setup
<1>2. /\ made < Len(script) /\ Bytes \in Seq(Byte) /\ Len(Bytes) \in Nat
      /\ taken = settled \o SubSeq(Bytes, 1, given)
      /\ Len(taken) = Len(settled) + given
  BY <1>1, WithinCall
<1>3. taken = settled \o Bytes
  BY <1>1, <1>2, WholeSlice
<1>4. kind = "slice" => Len(settled) + Len(Bytes) <= room
  BY <1>1, <1>2 DEF IInv, Accounting
<1>5. Abstract!Fits
  BY <1>4 DEF Abstract!Fits, Abstract!Current, Bytes, Current
<1>6. Abstract!Answered(Bytes, Current.refusal)
  BY <1>1, <1>3 DEF Abstract!Answered
<1> QED
  BY <1>2, <1>5, <1>6 DEF Abstract!Complete, Abstract!Current, Bytes, Current

(* A call that fails gave a proper front of its bytes.                      *)
LEMMA FailurePartial ==
  ASSUME IInv, NEW end, Writing(end), NEW result, NEW place, Return(result, place),
         UNCHANGED <<setup, given, taken, offset, full>>
  PROVE  Abstract!Partial(result)
<1>1. phase = "writing" /\ end \in (given + 1)..Len(Bytes) /\ given \in Nat /\ end \in Nat
  BY PieceEnds
<1>2. /\ made < Len(script) /\ Len(Bytes) \in Nat
      /\ taken = settled \o SubSeq(Bytes, 1, given)
  BY <1>1, WithinCall
<1>3. given \in 0..(Len(Bytes) - 1)
  BY <1>1, <1>2
<1>4. UNCHANGED <<kind, room, script>> /\ settled' = taken /\ made' = made + 1
      /\ answer' = result
  BY DEF Return, setup
<1>5. Abstract!Answered(SubSeq(Bytes, 1, given), result)
  BY <1>2, <1>4 DEF Abstract!Answered
<1>6. Bytes = Abstract!Current.bytes
  BY DEF Bytes, Current, Abstract!Current
<1> QED
  BY <1>2, <1>3, <1>5, <1>6 DEF Abstract!Partial

LEMMA CopyFailsFull == ASSUME IInv, NEW end, CopyFails(end) PROVE Abstract!Full
<1>1. Writing(end) /\ kind = "slice" /\ offset + (end - given) > room
      /\ UNCHANGED <<setup, given, taken, offset, full>>
  BY DEF CopyFails
<1>2. PICK place : Return("too_small", place)
  BY DEF CopyFails
<1>3. Abstract!Partial("too_small")
  BY <1>1, <1>2, FailurePartial
<1>4. phase = "writing" /\ end \in (given + 1)..Len(Bytes) /\ given \in Nat /\ end \in Nat
  BY <1>1, PieceEnds
<1>5. /\ made < Len(script) /\ Len(Bytes) \in Nat /\ Len(settled) \in Nat
      /\ Len(taken) = Len(settled) + given
  BY <1>4, WithinCall
<1>6. offset = Len(taken) /\ room \in Nat
  BY <1>1, OutputAssumption DEF IInv, TypeOK, Accounting
<1>7. Len(settled) + Len(Bytes) > room
  BY <1>1, <1>4, <1>5, <1>6
<1>8. ~Abstract!Fits
  <2>1. Bytes = Abstract!Current.bytes
    BY DEF Bytes, Current, Abstract!Current
  <2> QED
    BY <1>1, <1>5, <1>6, <1>7, <2>1 DEF Abstract!Fits
<1> QED
  BY <1>3, <1>5, <1>8 DEF Abstract!Full

LEMMA WriterBroken ==
  ASSUME IInv, NEW end, WriteZero(end) \/ WriteFails(end)
  PROVE  Abstract!Broken
<1>1. Writing(end) /\ kind = "io" /\ UNCHANGED <<setup, given, taken, offset, full>>
      /\ (Return("write_zero", offset) \/ Return("io", offset))
  BY DEF WriteZero, WriteFails
<1>2. Abstract!Partial("write_zero") \/ Abstract!Partial("io")
  BY <1>1, FailurePartial
<1> QED
  BY <1>1, <1>2 DEF Abstract!Broken

LEMMA StepRefines == IInv /\ [Next]_vars => [Abstract!Next]_(Abstract!vars)
<1> SUFFICES ASSUME IInv, [Next]_vars
             PROVE  Abstract!Next \/ UNCHANGED Abstract!vars
  OBVIOUS
<1> DEFINE Quiet == UNCHANGED <<kind, room, script, made, settled, answer>>
<1>1. CASE Quiet
  BY <1>1 DEF Abstract!vars
<1>2. Begin \/ Fills \/ Over \/ UNCHANGED vars => Quiet
  BY DEF Begin, Fills, Over, vars, setup
<1>3. CASE Finish
  BY <1>3, FinishComplete DEF Abstract!Next
<1>4. CASE Taking
  <2>1. PICK end \in Current.cuts :
          Extend(end) \/ Copy(end) \/ CopyFails(end) \/ WritePart(end) \/ WriteZero(end)
    BY <1>4 DEF Taking
  <2>2. Extend(end) \/ Copy(end) \/ WritePart(end) => Quiet
    BY DEF Extend, Copy, WritePart, setup
  <2>3. CopyFails(end) => Abstract!Next
    BY CopyFailsFull DEF Abstract!Next
  <2>4. WriteZero(end) => Abstract!Next
    BY WriterBroken DEF Abstract!Next
  <2> QED
    BY <1>1, <2>1, <2>2, <2>3, <2>4
<1>5. CASE Disturbed
  <2>1. PICK end \in Current.cuts : WriteFails(end) \/ Interrupted(end)
    BY <1>5 DEF Disturbed
  <2>2. Interrupted(end) => Quiet
    BY DEF Interrupted, vars, setup
  <2>3. WriteFails(end) => Abstract!Next
    BY WriterBroken DEF Abstract!Next
  <2> QED
    BY <1>1, <2>1, <2>2, <2>3
<1> HIDE DEF Quiet
<1> QED
  BY <1>1, <1>2, <1>3, <1>4, <1>5 DEF Next, Progress

(* Every call adds all its bytes or, with an error, a proper front of them;  *)
(* a slice fails exactly when the bytes do not fit: for every script of      *)
(* calls, every way to cut them and every way a writer takes them.           *)
THEOREM Refinement == Safety => Implements
<1>1. Init => Abstract!Init
  BY DEF Init, Abstract!Init
<1> QED
  BY <1>1, StepRefines, InductiveInvariant, PTL DEF Safety, Implements, Abstract!Spec
=============================================================================
