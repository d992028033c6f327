----------------------------- MODULE SkipProofs -----------------------------
(***************************************************************************)
(* Proofs about SkipItem, SkipLanguage and TypedArrays for every input       *)
(* length, alphabet and limits.  The walkers stay within their types and     *)
(* limits, and accept the language of WellFormed.  The second part goes      *)
(* through that grammar from the bottom: recursive definitions, sequences of *)
(* items, heads, strings, floats, keys, levels of nesting; the third follows *)
(* the walkers, with a lemma for each way an action ends and one for each    *)
(* action.  The last is about the bulk decoders of arrays: where the         *)
(* elements begin, what an integer of the vector means, which items are      *)
(* taken for elements, one by one and in blocks, and again the actions.      *)
(***************************************************************************)
EXTENDS SliceReading, TLAPS, WellFoundedInduction, NaturalsInduction

-----------------------------------------------------------------------------
(* The input and its heads.                                                 *)

LEMMA InputIsSeq ==
  ASSUME IsInput(input)
  PROVE  /\ input \in Seq(Bytes)
         /\ Len(input) \in 0..MaxLen
<1>1. input \in Seq(Bytes) /\ Len(input) <= MaxLen /\ MaxLen \in Nat
  BY SkipAssumption DEF IsInput
<1> QED
  BY <1>1

LEMMA ByteRange ==
  ASSUME IsInput(input), NEW p \in Nat, p < Len(input)
  PROVE  Byte(p) \in 0..255 /\ Byte(p) \in Bytes
<1>1. /\ input \in Seq(Bytes) /\ Len(input) \in Nat
  BY InputIsSeq, SkipAssumption
<1>2. p + 1 \in 1..Len(input)
  BY <1>1
<1>3. input[p + 1] \in Bytes
  BY <1>1, <1>2
<1> QED
  BY <1>3, SkipAssumption DEF Byte

(* A head that was read lies within the input and its argument is a number   *)
(* or the mark of an indefinite length.                                      *)
LEMMA HeadRead ==
  ASSUME IsInput(input), NEW p \in Nat, HeadError(p) = NoError
  PROVE  /\ p < Len(input) /\ HeadEnd(p) \in (p + 1)..Len(input)
         /\ Byte(p) \in 0..255
         /\ Major(p) \in 0..7
         /\ Argument(p) \in Nat \cup {Indefinite}
<1>0. Len(input) \in Nat
  BY InputIsSeq, SkipAssumption
<1>1. p < Len(input) /\ Info(p) \notin 28..30 /\ ~(HeadEnd(p) > Len(input))
  BY <1>0 DEF HeadError, NoError, Error
<1>2. Byte(p) \in 0..255
  BY <1>1, ByteRange
<1>3. Info(p) \in 0..31 /\ Major(p) \in 0..7
  BY <1>2 DEF Info, Major
<1>4. Width(p) \in {0, 1, 2, 4, 8}
  BY DEF Width
<1>5. HeadEnd(p) = p + 1 + Width(p) /\ HeadEnd(p) \in (p + 1)..Len(input)
  BY <1>0, <1>1, <1>4 DEF HeadEnd
<1>6. \A q \in (p + 1)..(HeadEnd(p) - 1) : Byte(q) \in Nat
  <2>1. SUFFICES ASSUME NEW q \in (p + 1)..(HeadEnd(p) - 1)
                 PROVE  Byte(q) \in Nat
    OBVIOUS
  <2>2. q \in Nat /\ q < Len(input)
    BY <1>0, <1>5
  <2>3. Byte(q) \in 0..255
    BY <2>2, ByteRange
  <2> QED
    BY <2>3
<1>7. Argument(p) \in Nat \cup {Indefinite}
  <2>1. CASE Info(p) = 24
    <3>1. Width(p) = 1 /\ Argument(p) = Byte(p + 1)
      BY <2>1 DEF Width, Argument
    <3> QED
      BY <1>5, <1>6, <3>1
  <2>2. CASE Info(p) = 25
    <3>1. Width(p) = 2 /\ Argument(p) = Two(p + 1)
      BY <2>2 DEF Width, Argument
    <3>2. Byte(p + 1) \in Nat /\ Byte(p + 1 + 1) \in Nat
      BY <1>5, <1>6, <3>1
    <3> QED
      BY <3>1, <3>2 DEF Two
  <2>3. CASE Info(p) = 26
    <3>1. Width(p) = 4 /\ Argument(p) = Four(p + 1)
      BY <2>3 DEF Width, Argument
    <3>2. /\ Byte(p + 1) \in Nat /\ Byte(p + 1 + 1) \in Nat
          /\ Byte(p + 1 + 2) \in Nat /\ Byte(p + 1 + 2 + 1) \in Nat
      BY <1>5, <1>6, <3>1
    <3> QED
      BY <3>1, <3>2 DEF Four, Two
  <2>4. CASE Info(p) = 27
    <3>1. Width(p) = 8 /\ Argument(p) = Four(p + 1) * 65536 * 65536 + Four(p + 5)
      BY <2>4 DEF Width, Argument
    <3>2. /\ Byte(p + 1) \in Nat /\ Byte(p + 1 + 1) \in Nat
          /\ Byte(p + 1 + 2) \in Nat /\ Byte(p + 1 + 2 + 1) \in Nat
          /\ Byte(p + 5) \in Nat /\ Byte(p + 5 + 1) \in Nat
          /\ Byte(p + 5 + 2) \in Nat /\ Byte(p + 5 + 2 + 1) \in Nat
      BY <1>5, <1>6, <3>1
    <3>3. Four(p + 1) \in Nat /\ Four(p + 5) \in Nat
      BY <3>2 DEF Four, Two
    <3> QED
      BY <3>1, <3>3
  <2>5. CASE Info(p) = 31
    BY <2>5 DEF Argument
  <2>6. CASE Info(p) \notin {24, 25, 26, 27, 31}
    <3>1. Argument(p) = Info(p)
      BY <2>6 DEF Argument
    <3> QED
      BY <1>3, <3>1
  <2> QED
    BY <2>1, <2>2, <2>3, <2>4, <2>5, <2>6
<1> QED
  BY <1>1, <1>2, <1>3, <1>5, <1>7

(* An error of a head is one of the errors, within the input.               *)
LEMMA HeadErrorPlaced ==
  ASSUME IsInput(input), NEW p \in 0..Len(input), HeadError(p) # NoError
  PROVE  \E kind \in ErrorKinds, at \in 0..Len(input) :
           HeadError(p) = Error(kind, at)
<1>0. Len(input) \in Nat
  BY InputIsSeq, SkipAssumption
<1>1. CASE p >= Len(input)
  <2>1. HeadError(p) = Error("eof", p)
    BY <1>1 DEF HeadError
  <2> QED
    BY <2>1 DEF ErrorKinds
<1>2. CASE p < Len(input)
  <2>1. p + 1 \in 0..Len(input)
    BY <1>0, <1>2
  <2>2. HeadError(p) \in {Error("additional", p), Error("eof", p + 1),
                          Error("nondeterministic", p), NoError}
    BY <1>0, <1>2 DEF HeadError
  <2> QED
    BY <2>1, <2>2 DEF ErrorKinds
<1> QED
  BY <1>0, <1>1, <1>2

-----------------------------------------------------------------------------
(* The stack.                                                               *)

LEMMA Pushed ==
  ASSUME NEW S, NEW s \in Seq(S), NEW e \in S
  PROVE  /\ Append(s, e) \in Seq(S)
         /\ Len(Append(s, e)) = Len(s) + 1
         /\ \A i \in 1..Len(s) : Append(s, e)[i] = s[i]
         /\ Append(s, e)[Len(s) + 1] = e
  OBVIOUS

LEMMA Slice ==
  ASSUME NEW S, NEW s \in Seq(S), NEW n \in 0..Len(s)
  PROVE  /\ SubSeq(s, 1, n) \in Seq(S)
         /\ Len(SubSeq(s, 1, n)) = n
         /\ \A i \in 1..n : SubSeq(s, 1, n)[i] = s[i]
  OBVIOUS

LEMMA NonEmpty ==
  ASSUME NEW S, NEW s \in Seq(S), s # <<>>
  PROVE  Len(s) \in Nat /\ Len(s) >= 1
  OBVIOUS

LEMMA Popped ==
  ASSUME NEW S, NEW s \in Seq(S), s # <<>>
  PROVE  /\ SubSeq(s, 1, Len(s) - 1) \in Seq(S)
         /\ Len(SubSeq(s, 1, Len(s) - 1)) = Len(s) - 1
         /\ \A i \in 1..(Len(s) - 1) : SubSeq(s, 1, Len(s) - 1)[i] = s[i]
<1>0. Len(s) \in Nat /\ Len(s) >= 1
  BY NonEmpty
<1>1. Len(s) - 1 \in 0..Len(s)
  BY <1>0
<1> QED
  BY <1>1, Slice

LEMMA Replaced ==
  ASSUME NEW S, NEW s \in Seq(S), s # <<>>, NEW e \in S
  PROVE  /\ [s EXCEPT ![Len(s)] = e] \in Seq(S)
         /\ Len([s EXCEPT ![Len(s)] = e]) = Len(s)
         /\ \A i \in 1..(Len(s) - 1) : [s EXCEPT ![Len(s)] = e][i] = s[i]
         /\ [s EXCEPT ![Len(s)] = e][Len(s)] = e
<1> DEFINE n == Len(s)
           t == [s EXCEPT ![Len(s)] = e]
<1>1. n \in Nat /\ n >= 1 /\ s \in [1..n -> S] /\ DOMAIN s = 1..n
  BY NonEmpty
<1>2. t \in [1..n -> S]
  BY <1>1
<1>3. t \in Seq(S) /\ Len(t) = n
  BY <1>1, <1>2
<1>4. \A i \in 1..n : t[i] = IF i = n THEN e ELSE s[i]
  BY <1>1
<1>5. t[n] = e /\ \A i \in 1..(n - 1) : t[i] = s[i]
  <2> HIDE DEF t, n
  <2> QED
    BY <1>1, <1>4
<1> QED
  BY <1>3, <1>5

LEMMA TopFrame ==
  ASSUME IInv, stack # <<>>
  PROVE  /\ Depth \in Nat \ {0}
         /\ Top \in FrameRecord
         /\ FrameOK(Top)
         /\ phase \in {"item", "chunks", "done"} => RoomForOne(Top)
<1>1. stack \in Seq(FrameRecord)
  BY DEF IInv, TypeOK
<1>2. Depth \in Nat \ {0}
  BY <1>1 DEF Depth
<1>3. Depth \in 1..Depth /\ Depth \in 1..Len(stack)
  BY <1>2 DEF Depth
<1>4. Top \in FrameRecord
  BY <1>1, <1>3 DEF Top
<1>5. FrameOK(Top) /\ (phase \in {"item", "chunks", "done"} => RoomForOne(Top))
  BY <1>3 DEF IInv, StackOK, Top
<1> QED
  BY <1>2, <1>4, <1>5

-----------------------------------------------------------------------------
(* What the actions do to the invariant, one lemma for each way they end.   *)

LEMMA FailPreserves ==
  ASSUME IInv, NEW error,
         \E kind \in ErrorKinds, at \in 0..Len(input) : error = Error(kind, at),
         Fail(error), UNCHANGED <<input, mode>>
  PROVE  IInv'
<1> USE DEF Fail
<1>1. TypeOK'
  BY DEF IInv, TypeOK, OutcomeOK
<1>2. DepthBounded'
  BY DEF IInv, DepthBounded, Depth
<1>3. StackOK'
  BY DEF IInv, StackOK, FrameOK, RoomForOne, MostItems, PerEntry, Depth
<1> QED
  BY <1>1, <1>2, <1>3 DEF IInv

LEMMA CompletePreserves ==
  ASSUME IInv, phase \in {"item", "chunks"},
         NEW p \in 0..Len(input), Complete(p), UNCHANGED <<input, mode>>
  PROVE  IInv'
<1> USE DEF Complete
<1>1. TypeOK'
  BY DEF IInv, TypeOK, OutcomeOK, Running
<1>2. DepthBounded'
  BY DEF IInv, DepthBounded, Depth
<1>3. StackOK'
  BY DEF IInv, StackOK, FrameOK, RoomForOne, MostItems, PerEntry, Depth
<1> QED
  BY <1>1, <1>2, <1>3 DEF IInv

LEMMA OpenPreserves ==
  ASSUME IInv, phase = "item", ~Deep, HeadEnd(pos) \in 0..Len(input),
         NEW frame \in FrameRecord, FrameOK(frame),
         Open(frame), UNCHANGED <<input, mode>>
  PROVE  IInv'
<1>1. /\ stack \in Seq(FrameRecord) /\ Depth = Len(stack) /\ Depth \in Nat
  BY DEF IInv, TypeOK, Depth
<1>2. /\ stack' = Append(stack, frame) /\ phase' = "next" /\ pos' = HeadEnd(pos)
      /\ UNCHANGED <<string, outcome, input, mode>>
  BY DEF Open
<1>3. /\ stack' \in Seq(FrameRecord) /\ Depth' = Depth + 1
      /\ \A i \in 1..Depth : stack'[i] = stack[i]
      /\ stack'[Depth + 1] = frame
  BY <1>1, <1>2, Pushed DEF Depth
<1>4. TypeOK'
  BY <1>2, <1>3 DEF IInv, TypeOK, OutcomeOK, Running
<1>5. DepthBounded'
  BY <1>1, <1>3, SkipAssumption DEF Deep, DepthBounded
<1>6. StackOK'
  <2>1. ASSUME NEW i \in 1..Depth
        PROVE  FrameOK(stack[i])' /\ RoomForOne(stack[i])'
    <3>1. FrameOK(stack[i]) /\ RoomForOne(stack[i])
      BY DEF IInv, StackOK
    <3>2. stack'[i] = stack[i]
      BY <1>3
    <3> QED
      BY <1>2, <3>1, <3>2 DEF FrameOK, RoomForOne, MostItems, PerEntry
  <2>2. ASSUME NEW i \in Nat, i = Depth + 1
        PROVE  FrameOK(stack[i])'
    BY <1>2, <1>3, <2>2 DEF FrameOK, MostItems, PerEntry
  <2> QED
    BY <1>1, <1>2, <1>3, <2>1, <2>2 DEF StackOK
<1>7. stack' # <<>>
  BY <1>1, <1>3 DEF Depth
<1> QED
  BY <1>2, <1>4, <1>5, <1>6, <1>7 DEF IInv

LEMMA ClosePreserves ==
  ASSUME IInv, phase = "next",
         NEW p \in 0..Len(input), Close(p), UNCHANGED <<input, mode>>
  PROVE  IInv'
<1>1. /\ stack \in Seq(FrameRecord) /\ Depth = Len(stack) /\ Depth \in Nat
      /\ stack # <<>>
  BY DEF IInv, TypeOK, Depth
<1>2. /\ stack' = SubSeq(stack, 1, Depth - 1) /\ phase' = "done" /\ pos' = p
      /\ UNCHANGED <<string, outcome, input, mode>>
  BY DEF Close, Pop
<1>3. /\ stack' \in Seq(FrameRecord) /\ Depth' = Depth - 1
      /\ \A i \in 1..(Depth - 1) : stack'[i] = stack[i]
  BY <1>1, <1>2, Popped DEF Depth
<1>4. TypeOK'
  BY <1>2, <1>3 DEF IInv, TypeOK, OutcomeOK, Running
<1>5. DepthBounded'
  BY <1>1, <1>3, SkipAssumption DEF IInv, DepthBounded
<1>6. StackOK'
  <2>1. ASSUME NEW i \in 1..(Depth - 1)
        PROVE  FrameOK(stack[i])' /\ RoomForOne(stack[i])'
    <3>1. i \in 1..Depth /\ i < Depth
      BY <1>1
    <3>2. FrameOK(stack[i]) /\ RoomForOne(stack[i])
      BY <3>1 DEF IInv, StackOK
    <3>3. stack'[i] = stack[i]
      BY <1>3
    <3> QED
      BY <1>2, <3>2, <3>3 DEF FrameOK, RoomForOne, MostItems, PerEntry
  <2> QED
    BY <1>2, <1>3, <2>1 DEF StackOK
<1> QED
  BY <1>2, <1>4, <1>5, <1>6 DEF IInv

(* The innermost frame is replaced, and the frames under it stay.           *)
LEMMA TopPreserves ==
  ASSUME IInv, stack # <<>>, phase \in {"next", "done"},
         NEW frame \in FrameRecord, FrameOK(frame),
         phase' = "item" => RoomForOne(frame),
         phase' \in {"item", "next"}, stack' = WithTop(frame),
         UNCHANGED <<input, mode, pos, string, outcome>>
  PROVE  IInv'
<1>1. /\ stack \in Seq(FrameRecord) /\ Depth = Len(stack) /\ Depth \in Nat \ {0}
  BY TopFrame DEF IInv, TypeOK, Depth
<1>2. /\ stack' \in Seq(FrameRecord) /\ Depth' = Depth
      /\ \A i \in 1..(Depth - 1) : stack'[i] = stack[i]
      /\ stack'[Depth] = frame
  BY <1>1, Replaced DEF Depth, WithTop
<1>3. TypeOK'
  BY <1>2 DEF IInv, TypeOK, OutcomeOK, Running
<1>4. DepthBounded'
  BY <1>2 DEF IInv, DepthBounded
<1>5. StackOK'
  <2>1. ASSUME NEW i \in 1..(Depth - 1)
        PROVE  FrameOK(stack[i])' /\ RoomForOne(stack[i])'
    <3>1. i \in 1..Depth /\ i < Depth
      BY <1>1
    <3>2. FrameOK(stack[i]) /\ RoomForOne(stack[i])
      BY <3>1 DEF IInv, StackOK
    <3>3. stack'[i] = stack[i]
      BY <1>2
    <3> QED
      BY <3>2, <3>3 DEF FrameOK, RoomForOne, MostItems, PerEntry
  <2>2. ASSUME NEW i \in Nat, i = Depth
        PROVE  FrameOK(stack[i])' /\ (phase' = "item" => RoomForOne(stack[i])')
    BY <1>2, <2>2 DEF FrameOK, RoomForOne, MostItems, PerEntry
  <2> QED
    BY <1>1, <1>2, <2>1, <2>2 DEF StackOK
<1>6. stack' # <<>>
  BY <1>1, <1>2 DEF Depth
<1> QED
  BY <1>3, <1>4, <1>5, <1>6 DEF IInv

-----------------------------------------------------------------------------
(* The actions.                                                             *)

LEMMA State ==
  ASSUME IInv
  PROVE  /\ IsInput(input)
         /\ Len(input) \in Nat /\ Len(input) <= MaxLen /\ MaxLen \in Nat
         /\ pos \in 0..Len(input) /\ pos \in Nat /\ pos \in 0..MaxLen
         /\ MaxCollection \in Nat
         /\ string \in [major: {2, 3}, total: Nat]
BY InputIsSeq, SkipAssumption DEF IInv, TypeOK

LEMMA FailAt ==
  ASSUME IInv, NEW kind \in ErrorKinds, NEW at \in 0..Len(input),
         Fail(Error(kind, at)), UNCHANGED <<input, mode>>
  PROVE  IInv'
<1>1. \E k \in ErrorKinds, a \in 0..Len(input) : Error(kind, at) = Error(k, a)
  OBVIOUS
<1> QED
  BY <1>1, FailPreserves

LEMMA FailHead ==
  ASSUME IInv, HeadError(pos) # NoError, Fail(HeadError(pos)),
         UNCHANGED <<input, mode>>
  PROVE  IInv'
<1>1. \E kind \in ErrorKinds, at \in 0..Len(input) : HeadError(pos) = Error(kind, at)
  BY State, HeadErrorPlaced
<1> QED
  BY <1>1, FailPreserves

LEMMA ReadHead ==
  ASSUME IInv, HeadError(pos) = NoError
  PROVE  /\ pos < Len(input) /\ HeadEnd(pos) \in (pos + 1)..Len(input)
         /\ HeadEnd(pos) \in 0..Len(input)
         /\ Argument(pos) \in Nat \cup {Indefinite}
<1>1. /\ pos < Len(input) /\ HeadEnd(pos) \in (pos + 1)..Len(input)
      /\ Argument(pos) \in Nat \cup {Indefinite}
  BY State, HeadRead
<1> QED
  BY <1>1, State

LEMMA NewFrame ==
  ASSUME IInv, pos < Len(input), NEW kind \in {"tag", "array", "map"},
         NEW items \in Nat \cup {Indefinite},
         IF kind = "tag" THEN items = 1
         ELSE items <= MaxCollection * PerEntry(kind)
  PROVE  Frame(kind, pos, items) \in FrameRecord /\ FrameOK(Frame(kind, pos, items))
<1>1. PerEntry(kind) \in {1, 2}
  BY DEF PerEntry
<1>2. <<>> \in Seq(Bytes)
  OBVIOUS
<1>3. Frame(kind, pos, items) \in FrameRecord
  BY <1>2, State DEF Frame, FrameRecord
<1>4. 0 <= MaxCollection * PerEntry(kind)
  BY <1>1, State
<1>5. FrameOK(Frame(kind, pos, items))
  BY <1>4, State DEF Frame, FrameOK, MostItems, Indefinite
<1> QED
  BY <1>3, <1>5

LEMMA CutKey ==
  ASSUME NEW S, NEW s \in Seq(S), NEW m \in Nat, m >= 1, NEW n \in 0..Len(s)
  PROVE  SubSeq(s, m, n) \in Seq(S)
OBVIOUS

LEMMA Counted ==
  ASSUME NEW frame \in FrameRecord, NEW last \in Seq(Bytes), NEW g,
         g = [frame EXCEPT !.done = frame.done + 1, !.previous = last]
  PROVE  /\ g \in FrameRecord
         /\ g.kind = frame.kind /\ g.at = frame.at /\ g.from = frame.from
         /\ g.items = frame.items /\ g.done = frame.done + 1
<1>1. frame.done + 1 \in Nat
  BY DEF FrameRecord
<1> QED
  BY <1>1 DEF FrameRecord

LEMMA ItemDonePreserves ==
  ASSUME IInv, ItemDone, UNCHANGED <<input, mode>>
  PROVE  IInv'
<1> DEFINE key == SubSeq(input, Top.from + 1, pos)
           ordered == mode = "deterministic" /\ IsKey(Top)
           last == IF ordered THEN key ELSE Top.previous
           counted == [Top EXCEPT !.done = @ + 1,
                                  !.previous = IF ordered THEN key ELSE @]
<1>1. phase = "done" /\ stack # <<>>
  BY DEF ItemDone
<1>2. Top \in FrameRecord /\ FrameOK(Top) /\ RoomForOne(Top)
  BY <1>1, TopFrame
<1>3. Top.from \in 0..Len(input) /\ Top.at \in 0..Len(input)
  BY <1>2, State DEF FrameRecord, FrameOK
<1>4. CASE Fail(Error("nondeterministic", Top.from))
  BY <1>3, <1>4, FailAt DEF ErrorKinds
<1>5. CASE Fail(Error("limit", Top.at))
  BY <1>3, <1>5, FailAt DEF ErrorKinds
<1>6. CASE /\ ~(/\ Top.items = Indefinite /\ mode # "value"
                /\ counted.done > MaxCollection * PerEntry(Top.kind))
           /\ stack' = WithTop(counted)
           /\ phase' = "next"
           /\ UNCHANGED <<pos, string, outcome>>
  <2>1. key \in Seq(Bytes)
    <3>1. input \in Seq(Bytes) /\ Top.from + 1 \in Nat /\ Top.from + 1 >= 1
      BY <1>3, State, InputIsSeq
    <3> QED
      BY <3>1, CutKey, State
  <2>2. last \in Seq(Bytes)
    <3> HIDE DEF key, ordered
    <3> QED
      BY <1>2, <2>1 DEF FrameRecord
  <2>3. counted = [Top EXCEPT !.done = Top.done + 1, !.previous = last]
    <3> HIDE DEF key, ordered
    <3> QED
      OBVIOUS
  <2>4. /\ counted \in FrameRecord
        /\ counted.kind = Top.kind /\ counted.at = Top.at /\ counted.from = Top.from
        /\ counted.items = Top.items /\ counted.done = Top.done + 1
    <3> HIDE DEF last, counted
    <3> QED
      BY ZenonT(60), <1>2, <2>2, <2>3, Counted
  <2>5. Top.done \in Nat /\ Top.items \in Nat \cup {Indefinite}
        /\ PerEntry(Top.kind) \in {1, 2}
    BY <1>2 DEF FrameRecord, PerEntry
  <2> HIDE DEF counted
  <2>6. FrameOK(counted)
    BY SMTT(30), <1>2, <1>6, <2>4, <2>5, State DEF FrameOK, RoomForOne, MostItems, Indefinite
  <2> QED
    BY <1>1, <1>6, <2>4, <2>6, TopPreserves
<1> QED
  BY <1>4, <1>5, <1>6 DEF ItemDone

LEMMA NextItemPreserves ==
  ASSUME IInv, NextItem, UNCHANGED <<input, mode>>
  PROVE  IInv'
<1> DEFINE begun == [Top EXCEPT !.from = pos]
<1>1. phase = "next" /\ stack # <<>>
  BY DEF NextItem, IInv
<1>2. Top \in FrameRecord /\ FrameOK(Top)
  BY <1>1, TopFrame
<1>3. CASE Fail(Error("limit", Top.at))
  <2>1. Top.at \in 0..Len(input)
    BY <1>2, State DEF FrameRecord, FrameOK
  <2> QED
    BY <1>3, <2>1, FailAt DEF ErrorKinds
<1>4. CASE /\ ~(/\ Top.items = Indefinite /\ mode = "value"
                /\ Top.done = MaxCollection * PerEntry(Top.kind))
           /\ stack' = WithTop(begun)
           /\ phase' = "item"
           /\ UNCHANGED <<pos, string, outcome>>
  <2>1. /\ begun \in FrameRecord
        /\ begun.kind = Top.kind /\ begun.at = Top.at /\ begun.from = pos
        /\ begun.items = Top.items /\ begun.done = Top.done
    BY <1>2, State DEF FrameRecord
  <2>2. Top.items # Indefinite => Top.done < Top.items
    BY DEF NextItem
  <2>3. /\ Top.done \in Nat /\ Top.items \in Nat \cup {Indefinite}
        /\ PerEntry(Top.kind) \in {1, 2}
    BY <1>2 DEF FrameRecord, PerEntry
  <2> HIDE DEF begun
  <2>4. FrameOK(begun) /\ RoomForOne(begun)
    BY <1>2, <1>4, <2>1, <2>2, <2>3, State
       DEF FrameOK, RoomForOne, MostItems, Indefinite
  <2> QED
    BY <1>1, <1>4, <2>1, <2>4, TopPreserves
<1> QED
  BY <1>3, <1>4 DEF NextItem

LEMMA StepPreserves ==
  ASSUME IInv, Step
  PROVE  IInv'
<1> USE DEF AtHead
<1>0. UNCHANGED <<input, mode>>
  BY DEF Step
<1>1. CASE TooDeep
  <2>1. "depth" \in ErrorKinds /\ Fail(Error("depth", pos))
    BY <1>1 DEF TooDeep, ErrorKinds
  <2> QED
    BY <1>0, <2>1, FailAt, State
<1>2. CASE HeadFails
  BY <1>0, <1>2, FailHead DEF HeadFails
<1>3. CASE Integer
  <2>1. phase = "item" /\ HeadError(pos) = NoError
    BY <1>3 DEF Integer
  <2>2. CASE Fail(Error("additional", pos))
    BY <1>0, <2>2, FailAt, State DEF ErrorKinds
  <2>3. CASE Complete(HeadEnd(pos))
    BY <1>0, <2>1, <2>3, CompletePreserves, ReadHead
  <2> QED
    BY <1>3, <2>2, <2>3 DEF Integer
<1>4. CASE DefiniteString
  <2> DEFINE start == HeadEnd(pos)
             to == start + Argument(pos)
  <2>1. /\ phase = "item" /\ HeadError(pos) = NoError
        /\ Argument(pos) # Indefinite
    BY <1>4 DEF DefiniteString
  <2>2. start \in 0..Len(input) /\ Argument(pos) \in Nat
    BY <2>1, ReadHead
  <2>3. CASE \E kind \in {"limit", "utf8"} : Fail(Error(kind, pos))
    BY <1>0, <2>3, FailAt, State DEF ErrorKinds
  <2>4. CASE Fail(Error("eof", start))
    BY <1>0, <2>2, <2>4, FailAt DEF ErrorKinds
  <2>5. CASE ~(to > Len(input)) /\ Complete(to)
    <3>1. to \in 0..Len(input)
      BY <2>2, <2>5, State
    <3> QED
      BY <1>0, <2>1, <2>5, <3>1, CompletePreserves
  <2> QED
    BY <1>4, <2>3, <2>4, <2>5 DEF DefiniteString
<1>5. CASE IndefiniteString
  <2>1. phase = "item" /\ HeadError(pos) = NoError /\ Major(pos) \in {2, 3}
    BY <1>5 DEF IndefiniteString
  <2>2. CASE Fail(Error("nondeterministic", pos))
    BY <1>0, <2>2, FailAt, State DEF ErrorKinds
  <2>3. CASE /\ string' = [major |-> Major(pos), total |-> 0]
             /\ pos' = HeadEnd(pos)
             /\ phase' = "chunks"
             /\ UNCHANGED <<stack, outcome>>
    <3>1. TypeOK'
      BY <1>0, <2>1, <2>3, ReadHead DEF IInv, TypeOK, OutcomeOK, Running
    <3>2. StackOK'
      BY <1>0, <2>1, <2>3
         DEF IInv, StackOK, FrameOK, RoomForOne, MostItems, PerEntry, Depth
    <3>3. DepthBounded'
      BY <2>3 DEF IInv, DepthBounded, Depth
    <3> QED
      BY <1>0, <2>3, <3>1, <3>2, <3>3, State, <2>1 DEF IInv
  <2> QED
    BY <1>5, <2>2, <2>3 DEF IndefiniteString
<1>6. CASE Container
  <2> DEFINE n == Argument(pos)
             kind == IF Major(pos) = 5 THEN "map" ELSE "array"
  <2>1. phase = "item" /\ ~Deep /\ HeadError(pos) = NoError
    BY <1>6 DEF Container
  <2>2. n \in Nat \cup {Indefinite} /\ HeadEnd(pos) \in 0..Len(input) /\ pos < Len(input)
    BY <2>1, ReadHead
  <2>3. CASE \E k \in {"limit", "nondeterministic"} : Fail(Error(k, pos))
    BY <1>0, <2>3, FailAt, State DEF ErrorKinds
  <2>4. kind \in {"array", "map"} /\ PerEntry(kind) \in {1, 2}
    BY DEF PerEntry
  <2>5. CASE ~(n > MaxCollection) /\ n # Indefinite
             /\ Open(Frame(kind, pos, n * PerEntry(kind)))
    <3>1. n * PerEntry(kind) \in Nat /\ n * PerEntry(kind) <= MaxCollection * PerEntry(kind)
      BY <2>2, <2>4, <2>5, State
    <3> HIDE DEF n, kind
    <3>2. /\ Frame(kind, pos, n * PerEntry(kind)) \in FrameRecord
          /\ FrameOK(Frame(kind, pos, n * PerEntry(kind)))
      BY <2>2, <2>4, <3>1, NewFrame
    <3> QED
      BY <1>0, <2>1, <2>2, <2>5, <3>2, OpenPreserves
  <2>6. CASE Open(Frame(kind, pos, Indefinite))
    <3>1. Indefinite <= MaxCollection * PerEntry(kind)
      BY <2>4, State DEF Indefinite
    <3> HIDE DEF n, kind
    <3>2. /\ Frame(kind, pos, Indefinite) \in FrameRecord
          /\ FrameOK(Frame(kind, pos, Indefinite))
      BY <2>2, <2>4, <3>1, NewFrame
    <3> QED
      BY <1>0, <2>1, <2>2, <2>6, <3>2, OpenPreserves
  <2> QED
    BY <1>6, <2>3, <2>5, <2>6 DEF Container
<1>7. CASE Tag
  <2>1. phase = "item" /\ ~Deep /\ HeadError(pos) = NoError
    BY <1>7 DEF Tag
  <2>2. HeadEnd(pos) \in 0..Len(input) /\ pos < Len(input)
    BY <2>1, ReadHead
  <2>3. CASE Fail(Error("additional", pos))
    BY <1>0, <2>3, FailAt, State DEF ErrorKinds
  <2>4. CASE Open(Frame("tag", pos, 1))
    <3>1. Frame("tag", pos, 1) \in FrameRecord /\ FrameOK(Frame("tag", pos, 1))
      BY <2>2, NewFrame
    <3> QED
      BY <1>0, <2>1, <2>2, <2>4, <3>1, OpenPreserves
  <2> QED
    BY <1>7, <2>3, <2>4 DEF Tag
<1>8. CASE Simple
  <2>1. phase = "item" /\ HeadError(pos) = NoError
    BY <1>8 DEF Simple
  <2>2. CASE \E kind \in {"break", "additional", "nondeterministic"} : Fail(Error(kind, pos))
    BY <1>0, <2>2, FailAt, State DEF ErrorKinds
  <2>3. CASE Complete(HeadEnd(pos))
    BY <1>0, <2>1, <2>3, CompletePreserves, ReadHead
  <2> QED
    BY <1>8, <2>2, <2>3 DEF Simple
<1>9. CASE ChunkCut
  <2>1. "eof" \in ErrorKinds /\ Fail(Error("eof", pos))
    BY <1>9 DEF ChunkCut, ErrorKinds
  <2> QED
    BY <1>0, <2>1, FailAt, State
<1>10. CASE ChunksEnd
  <2>1. phase = "chunks" /\ pos < Len(input) /\ Complete(pos + 1)
    BY <1>10 DEF ChunksEnd
  <2>2. pos + 1 \in 0..Len(input)
    BY <2>1, State
  <2> QED
    BY <1>0, <2>1, <2>2, CompletePreserves
<1>11. CASE ChunkHeadFails
  BY <1>0, <1>11, FailHead DEF ChunkHeadFails
<1>12. CASE Chunk
  <2> DEFINE n == Argument(pos)
             start == HeadEnd(pos)
             to == start + n
             large == mode = "value" /\ string.total + n > MaxCollection
  <2>1. phase = "chunks" /\ HeadError(pos) = NoError
    BY <1>12 DEF Chunk
  <2>2. start \in 0..Len(input) /\ n \in Nat \cup {Indefinite}
    BY <2>1, ReadHead
  <2>3. CASE \E kind \in {"type", "limit", "utf8"} : Fail(Error(kind, pos))
    BY <1>0, <2>3, FailAt, State DEF ErrorKinds
  <2>4. CASE Fail(Error("eof", start))
    BY <1>0, <2>2, <2>4, FailAt DEF ErrorKinds
  <2>5. CASE /\ n # Indefinite /\ ~large /\ ~(to > Len(input))
             /\ pos' = to
             /\ string' = [string EXCEPT !.total = @ + n]
             /\ UNCHANGED <<phase, stack, outcome>>
    <3>1. n \in Nat /\ to \in 0..Len(input)
      BY <2>2, <2>5, State
    <3>2. /\ string' \in [major: {2, 3}, total: Nat]
          /\ string'.total = string.total + n
      <4> HIDE DEF n
      <4> QED
        BY SMTT(30), <2>5, <3>1, State
    <3>3. mode = "value" => string'.total <= MaxCollection
      <4> HIDE DEF n
      <4> QED
        BY <2>5, <3>1, <3>2, State
    <3>4. TypeOK'
      BY <1>0, <2>1, <2>5, <3>1, <3>2 DEF IInv, TypeOK, OutcomeOK, Running
    <3>5. StackOK'
      BY <1>0, <2>5
         DEF IInv, StackOK, FrameOK, RoomForOne, MostItems, PerEntry, Depth
    <3>6. DepthBounded'
      BY <2>5 DEF IInv, DepthBounded, Depth
    <3> QED
      BY <1>0, <2>1, <2>5, <3>3, <3>4, <3>5, <3>6 DEF IInv
  <2> QED
    BY <1>12, <2>3, <2>4, <2>5 DEF Chunk
<1>13. CASE Finish
  <2>1. /\ phase' = "stop" /\ outcome' = Ok(pos) /\ UNCHANGED <<pos, string, stack>>
    BY <1>13 DEF Finish
  <2>2. TypeOK'
    BY <1>0, <2>1 DEF IInv, TypeOK, OutcomeOK
  <2>3. StackOK'
    BY <1>0, <2>1 DEF IInv, StackOK, FrameOK, RoomForOne, MostItems, PerEntry, Depth
  <2>4. DepthBounded'
    BY <2>1 DEF IInv, DepthBounded, Depth
  <2> QED
    BY <1>0, <2>1, <2>2, <2>3, <2>4 DEF IInv
<1>14. CASE ItemDone
  BY <1>0, <1>14, ItemDonePreserves
<1>15. CASE ContainerEnds
  <2>1. phase = "next" /\ Close(pos)
    BY <1>15 DEF ContainerEnds
  <2> QED
    BY <1>0, <2>1, ClosePreserves, State
<1>16. CASE ContainerCut
  <2>1. "eof" \in ErrorKinds /\ Fail(Error("eof", pos))
    BY <1>16 DEF ContainerCut, ErrorKinds
  <2> QED
    BY <1>0, <2>1, FailAt, State
<1>17. CASE ContainerBreak
  <2>1. phase = "next" /\ pos < Len(input)
    BY <1>17 DEF ContainerBreak
  <2>2. pos + 1 \in 0..Len(input)
    BY <2>1, State
  <2>3. CASE Fail(Error("break", pos))
    BY <1>0, <2>3, FailAt, State DEF ErrorKinds
  <2>4. CASE Close(pos + 1)
    BY <1>0, <2>1, <2>2, <2>4, ClosePreserves
  <2> QED
    BY <1>17, <2>3, <2>4 DEF ContainerBreak
<1>18. CASE NextItem
  BY <1>0, <1>18, NextItemPreserves
<1> QED
  BY <1>1, <1>2, <1>3, <1>4, <1>5, <1>6, <1>7, <1>8, <1>9, <1>10, <1>11, <1>12,
     <1>13, <1>14, <1>15, <1>16, <1>17, <1>18 DEF Step, Walk

-----------------------------------------------------------------------------
(* IInv holds at the start of every walk.                                    *)
LEMMA InitIInv ==
  ASSUME Init
  PROVE  IInv
<1>1. IsInput(input) /\ Len(input) \in Nat
  BY InputIsSeq, SkipAssumption DEF Init
<1>2. TypeOK
  BY <1>1, SkipAssumption DEF Init, TypeOK, OutcomeOK
<1>3. StackOK /\ DepthBounded
  BY SkipAssumption DEF Init, StackOK, DepthBounded, Depth
<1> QED
  BY <1>2, <1>3, SkipAssumption DEF Init, IInv

(* Whatever the input, the walker and the limits, the invariant holds in     *)
(* every state of a walk.                                                    *)
THEOREM InductiveInvariant == Safety => []IInv
<1>1. Init => IInv
  BY InitIInv
<1>2. IInv /\ [Next]_vars => IInv'
  <2>1. CASE Step
    BY <2>1, StepPreserves
  <2>2. ASSUME IInv, UNCHANGED vars PROVE IInv'
    BY <2>2 DEF vars, IInv, TypeOK, OutcomeOK, DepthBounded, StackOK, FrameOK,
                RoomForOne, MostItems, PerEntry, Depth
  <2> QED
    BY <2>1, <2>2 DEF Next, Returned
<1> QED
  BY <1>1, <1>2, PTL DEF Safety

(* Every variable keeps its type; in particular the position never leaves   *)
(* the slice, so no read of skip, raw_structural or a value decoder is out   *)
(* of bounds, and every error names an offset of the slice.                  *)
THEOREM TypeInvariant == Safety => []TypeOK
<1>1. IInv => TypeOK
  BY DEF IInv
<1> QED
  BY <1>1, InductiveInvariant, PTL

(* No input makes a walker recurse deeper than max_depth allows, or count,   *)
(* or a decoder collect, more entries of one collection or bytes of one      *)
(* chunked string than max_collection_len.                                   *)
THEOREM Limits == Safety => []WithinLimits
<1>1. ASSUME IInv PROVE CollectionsBounded
  <2>1. SUFFICES ASSUME NEW i \in 1..Depth, stack[i].kind # "tag"
                 PROVE  stack[i].done <= MaxCollection * PerEntry(stack[i].kind)
    BY <1>1 DEF IInv, CollectionsBounded
  <2>2. FrameOK(stack[i])
    BY <1>1 DEF IInv, StackOK
  <2> QED
    BY <2>1, <2>2 DEF FrameOK, MostItems
<1>2. IInv => WithinLimits
  BY <1>1 DEF IInv, WithinLimits
<1> QED
  BY <1>2, InductiveInvariant, PTL

-----------------------------------------------------------------------------
(* Induction over the natural numbers, by the least counterexample, and the  *)
(* functions that are defined by recursion.                                 *)

LEMMA Least ==
  ASSUME NEW T, T \subseteq Nat, T # {}
  PROVE  \E m \in T : \A k \in T : m <= k
<1> DEFINE less == {pair \in Nat \X Nat : pair[1] < pair[2]}
<1>1. IsWellFoundedOn(less, Nat)
  BY NatLessThanWellFounded DEF OpToRel
<1>2. PICK m \in T : \A k \in T : <<k, m>> \notin less
  BY <1>1, WFMin
<1>3. \A k \in T : <<k, m>> \in Nat \X Nat
  OBVIOUS
<1>4. \A k \in T : ~(k < m)
  BY <1>2, <1>3
<1> QED
  BY <1>4

Steps(s, G, Val) == s \in Val /\ G \in [Nat \X Val -> Val]

(* f begins with s and goes on with steps of G up to n.                     *)
Iterates(f, s, G, n) ==
  f = [k \in 0..n |-> IF k = 0 THEN s ELSE G[<<k, f[k - 1]>>]]

LEMMA IterationExists ==
  ASSUME NEW Val, NEW s \in Val, NEW G \in [Nat \X Val -> Val], NEW n \in Nat
  PROVE  \E f \in [0..n -> Val] : Iterates(f, s, G, n)
<1> DEFINE Found(k) == \E f \in [0..k -> Val] : Iterates(f, s, G, k)
           bad == {k \in Nat : ~Found(k)}
<1> SUFFICES ASSUME bad # {} PROVE FALSE
  OBVIOUS
<1> HIDE DEF Found
<1>1. PICK m \in bad : \A k \in bad : m <= k
  BY Least
<1>2. CASE m = 0
  <2> DEFINE f == [k \in 0..0 |-> s]
  <2>1. f \in [0..0 -> Val] /\ Iterates(f, s, G, 0)
    BY DEF Iterates
  <2>2. Found(0)
    BY <2>1 DEF Found
  <2> QED
    BY <1>1, <1>2, <2>2
<1>3. CASE m # 0
  <2>1. m - 1 \in Nat /\ Found(m - 1)
    BY <1>1, <1>3
  <2>2. PICK g \in [0..(m - 1) -> Val] : Iterates(g, s, G, m - 1)
    BY <2>1 DEF Found
  <2>3. \A k \in 0..(m - 1) : g[k] = IF k = 0 THEN s ELSE G[<<k, g[k - 1]>>]
    BY <2>2 DEF Iterates
  <2> DEFINE v == G[<<m, g[m - 1]>>]
             f == [k \in 0..m |-> IF k = m THEN v ELSE g[k]]
  <2>4. v \in Val
    <3>1. g[m - 1] \in Val
      BY <2>1, <2>2
    <3> QED
      BY <1>1, <3>1
  <2>5. f \in [0..m -> Val]
    <3>1. \A k \in 0..m : k # m => g[k] \in Val
      BY <1>1, <2>1, <2>2
    <3> QED
      BY <2>4, <3>1
  <2>6. ASSUME NEW k \in 0..m
        PROVE  f[k] = IF k = 0 THEN s ELSE G[<<k, f[k - 1]>>]
    <3>1. CASE k = m
      <4>1. m - 1 \in 0..m /\ m - 1 # m /\ f[m - 1] = g[m - 1]
        BY <1>1, <1>3, <2>1
      <4> QED
        BY <1>3, <3>1, <4>1
    <3>2. CASE k # m
      <4>1. k \in 0..(m - 1) /\ f[k] = g[k]
        BY <1>1, <2>1, <3>2
      <4>2. k # 0 => k - 1 \in 0..m /\ k - 1 # m /\ f[k - 1] = g[k - 1]
        BY <1>1, <4>1
      <4> QED
        BY <2>3, <4>1, <4>2
    <3> QED
      BY <3>1, <3>2
  <2>7. Iterates(f, s, G, m)
    BY <2>6 DEF Iterates
  <2>8. Found(m)
    BY <2>5, <2>7 DEF Found
  <2> QED
    BY <1>1, <2>8
<1> QED
  BY <1>2, <1>3

(* What is chosen satisfies the equation it is chosen by.                   *)
Iteration(s, G, n) == CHOOSE f : Iterates(f, s, G, n)

Iterated(f, s, G, n, Val) ==
  /\ f[0] = s
  /\ \A k \in 1..n : f[k] = G[<<k, f[k - 1]>>]
  /\ \A k \in 0..n : f[k] \in Val

LEMMA IterationIs ==
  ASSUME NEW Val, NEW s, NEW G, Steps(s, G, Val), NEW n \in Nat
  PROVE  Iterated(Iteration(s, G, n), s, G, n, Val)
<1>0. s \in Val /\ G \in [Nat \X Val -> Val]
  BY DEF Steps
<1>1. \E g : Iterates(g, s, G, n)
  BY <1>0, IterationExists
<1>2. PICK f : f = Iteration(s, G, n)
  OBVIOUS
<1>a. Iterates(f, s, G, n)
  BY <1>1, <1>2 DEF Iteration
<1>3. \A k \in 0..n : f[k] = IF k = 0 THEN s ELSE G[<<k, f[k - 1]>>]
  BY <1>a DEF Iterates
<1>4. f[0] = s
  <2>1. 0 \in 0..n
    OBVIOUS
  <2> QED
    BY <1>3, <2>1
<1>5. ASSUME NEW k \in 1..n PROVE f[k] = G[<<k, f[k - 1]>>]
  <2>1. k \in 0..n /\ k # 0
    OBVIOUS
  <2> QED
    BY <1>3, <2>1
<1>6. \A k \in 0..n : f[k] \in Val
  <2> DEFINE bad == {k \in 0..n : f[k] \notin Val}
  <2>1. SUFFICES ASSUME bad # {} PROVE FALSE
    OBVIOUS
  <2>2. bad \subseteq Nat
    OBVIOUS
  <2>3. PICK m \in bad : \A k \in bad : m <= k
    BY <2>1, <2>2, Least
  <2>4. m # 0 /\ m \in 1..n
    BY <1>0, <1>4, <2>3
  <2>5. m - 1 \in 0..n /\ m - 1 \notin bad
    BY <2>3, <2>4
  <2>6. <<m, f[m - 1]>> \in Nat \X Val
    BY <2>4, <2>5
  <2>7. f[m] \in Val
    BY <1>0, <1>5, <2>4, <2>6
  <2> QED
    BY <2>3, <2>7
<1> QED
  BY <1>2, <1>4, <1>5, <1>6 DEF Iterated

(* Two iterations from the same start agree as far as both go.              *)
LEMMA IterationAgrees ==
  ASSUME NEW Val, NEW s, NEW G, Steps(s, G, Val),
         NEW n \in Nat, NEW m \in Nat, n <= m
  PROVE  Iteration(s, G, n)[n] = Iteration(s, G, m)[n]
<1>a. PICK f : f = Iteration(s, G, n)
  OBVIOUS
<1>b. PICK g : g = Iteration(s, G, m)
  OBVIOUS
<1>c. Iterated(f, s, G, n, Val) /\ Iterated(g, s, G, m, Val)
  BY <1>a, <1>b, IterationIs
<1>1. f[0] = s /\ g[0] = s
  BY <1>c DEF Iterated
<1>2. /\ \A k \in 1..n : f[k] = G[<<k, f[k - 1]>>]
      /\ \A k \in 1..m : g[k] = G[<<k, g[k - 1]>>]
  BY <1>c DEF Iterated
<1>d. SUFFICES f[n] = g[n]
  BY <1>a, <1>b
<1> DEFINE bad == {k \in 0..n : f[k] # g[k]}
<1>3. SUFFICES ASSUME bad # {} PROVE FALSE
  OBVIOUS
<1>4. PICK b \in bad : \A k \in bad : b <= k
  <2>1. bad \subseteq Nat
    OBVIOUS
  <2> QED
    BY <1>3, <2>1, Least
<1>5. b \in 1..n /\ b \in 1..m
  BY <1>1, <1>4
<1>6. b - 1 \in 0..n /\ b - 1 \notin bad
  BY <1>4, <1>5
<1>7. f[b - 1] = g[b - 1]
  BY <1>6
<1> QED
  BY <1>2, <1>4, <1>5, <1>7

LEMMA IterationBegins ==
  ASSUME NEW Val, NEW s, NEW G, Steps(s, G, Val)
  PROVE  Iteration(s, G, 0)[0] = s
<1>1. Iterated(Iteration(s, G, 0), s, G, 0, Val)
  BY IterationIs
<1> QED
  BY <1>1 DEF Iterated

LEMMA IterationStep ==
  ASSUME NEW Val, NEW s, NEW G, Steps(s, G, Val), NEW n \in Nat
  PROVE  /\ Iteration(s, G, n)[n] \in Val
         /\ Iteration(s, G, n + 1)[n + 1] = G[<<n + 1, Iteration(s, G, n)[n]>>]
<1>2. Iteration(s, G, n)[n] \in Val
  <2>1. n \in 0..n
    OBVIOUS
  <2> QED
    BY <2>1, IterationIs DEF Iterated
<1>3. Iteration(s, G, n + 1)[n + 1] = G[<<n + 1, Iteration(s, G, n + 1)[n]>>]
  <2>1. n + 1 \in Nat /\ n + 1 \in 1..(n + 1) /\ (n + 1) - 1 = n
    OBVIOUS
  <2>2. Iterated(Iteration(s, G, n + 1), s, G, n + 1, Val)
    BY <2>1, IterationIs
  <2> QED
    BY <2>1, <2>2 DEF Iterated
<1>4. Iteration(s, G, n)[n] = Iteration(s, G, n + 1)[n]
  <2>1. n + 1 \in Nat /\ n <= n + 1
    OBVIOUS
  <2> QED
    BY <2>1, IterationAgrees
<1> QED
  BY <1>2, <1>3, <1>4

(* A function that takes the same steps ends at the same value.              *)
Stepping(f, s, G, n, Val) ==
  f[0] = s /\ \A k \in 1..n : f[k - 1] \in Val => f[k] = G[<<k, f[k - 1]>>]

LEMMA IterationUnique ==
  ASSUME NEW Val, NEW s, NEW G, Steps(s, G, Val), NEW n \in Nat,
         NEW f, Stepping(f, s, G, n, Val)
  PROVE  f[n] = Iteration(s, G, n)[n]
<1>1. PICK g : g = Iteration(s, G, n)
  OBVIOUS
<1>2. Iterated(g, s, G, n, Val)
  BY <1>1, IterationIs
<1>3. g[0] = s /\ f[0] = s
  BY <1>2 DEF Iterated, Stepping
<1>4. /\ \A k \in 1..n : g[k] = G[<<k, g[k - 1]>>]
      /\ \A k \in 0..n : g[k] \in Val
      /\ \A k \in 1..n : f[k - 1] \in Val => f[k] = G[<<k, f[k - 1]>>]
  BY <1>2 DEF Iterated, Stepping
<1> DEFINE bad == {k \in 0..n : f[k] # g[k]}
<1>5. SUFFICES ASSUME bad # {} PROVE FALSE
  BY <1>1
<1>6. PICK b \in bad : \A k \in bad : b <= k
  <2>1. bad \subseteq Nat
    OBVIOUS
  <2> QED
    BY <1>5, <2>1, Least
<1>7. b \in 1..n
  BY <1>3, <1>6
<1>8. b - 1 \in 0..n /\ b - 1 \notin bad
  BY <1>6, <1>7
<1>9. f[b - 1] = g[b - 1] /\ f[b - 1] \in Val
  BY <1>4, <1>8
<1> QED
  BY <1>4, <1>6, <1>7, <1>9

-----------------------------------------------------------------------------
(* What is reached from a set in n steps, when g says what one step reaches. *)

Spread(g, S) == UNION {g[x] : x \in S}

Spreading(g, U) == [y \in Nat \X SUBSET U |-> Spread(g, y[2])]

Reached(g, U, S, n) == Iteration(S, Spreading(g, U), n)[n]

Reaching(g, U, S) == g \in [U -> SUBSET U] /\ S \in SUBSET U

LEMMA SpreadIs ==
  ASSUME NEW g, NEW U, NEW S, Reaching(g, U, S)
  PROVE  Spread(g, S) \in SUBSET U /\ Reaching(g, U, Spread(g, S))
BY DEF Spread, Reaching

LEMMA SpreadingSteps ==
  ASSUME NEW g, NEW U, NEW S, Reaching(g, U, S)
  PROVE  Steps(S, Spreading(g, U), SUBSET U)
<1>1. ASSUME NEW y \in Nat \X SUBSET U PROVE Spread(g, y[2]) \in SUBSET U
  BY DEF Spread, Reaching
<1> QED
  BY <1>1 DEF Steps, Spreading, Reaching

LEMMA ReachedStep ==
  ASSUME NEW g, NEW U, NEW S, Reaching(g, U, S), NEW n \in Nat
  PROVE  /\ Reached(g, U, S, 0) = S
         /\ Reached(g, U, S, n) \in SUBSET U
         /\ Reached(g, U, S, n + 1) = Spread(g, Reached(g, U, S, n))
<1>0. Steps(S, Spreading(g, U), SUBSET U)
  BY SpreadingSteps
<1>1. Iteration(S, Spreading(g, U), 0)[0] = S
  BY <1>0, IterationBegins
<1>2. PICK v \in SUBSET U : v = Iteration(S, Spreading(g, U), n)[n]
  BY <1>0, IterationStep
<1>3. Iteration(S, Spreading(g, U), n + 1)[n + 1] = Spreading(g, U)[<<n + 1, v>>]
  BY <1>0, <1>2, IterationStep
<1>4. Spreading(g, U)[<<n + 1, v>>] = Spread(g, v)
  BY DEF Spreading
<1> QED
  BY <1>1, <1>2, <1>3, <1>4 DEF Reached

LEMMA ReachedUnion ==
  ASSUME NEW g, NEW U, NEW S, Reaching(g, U, S), NEW n \in Nat
  PROVE  Reached(g, U, S, n) = UNION {Reached(g, U, {x}, n) : x \in S}
<1> DEFINE After(Q, k) == Reached(g, U, Q, k)
           Good(k) == \A Q \in SUBSET U : After(Q, k) = UNION {After({x}, k) : x \in Q}
           bad == {k \in Nat : ~Good(k)}
<1>0. S \in SUBSET U /\ g \in [U -> SUBSET U]
  BY DEF Reaching
<1>1. SUFFICES ASSUME bad # {} PROVE FALSE
  BY <1>0
<1>2. PICK m \in bad : \A k \in bad : m <= k
  BY <1>1, Least
<1>3. ASSUME NEW Q \in SUBSET U, NEW k \in Nat
      PROVE  After(Q, 0) = Q /\ After(Q, k + 1) = Spread(g, After(Q, k))
  <2>1. Reaching(g, U, Q)
    BY <1>0 DEF Reaching
  <2> QED
    BY <2>1, ReachedStep
<1>4. ASSUME NEW Q \in SUBSET U, NEW x \in Q
      PROVE  {x} \in SUBSET U
  OBVIOUS
<1> HIDE DEF After
<1>5. CASE m = 0
  <2>1. ASSUME NEW Q \in SUBSET U
        PROVE  After(Q, 0) = UNION {After({x}, 0) : x \in Q}
    <3>1. After(Q, 0) = Q /\ \A x \in Q : After({x}, 0) = {x}
      BY <1>3, <1>4
    <3>2. ASSUME NEW q
          PROVE  q \in Q <=> \E x \in Q : q \in After({x}, 0)
      BY <3>1
    <3>3. Q = UNION {After({x}, 0) : x \in Q}
      BY <3>2
    <3> QED
      BY <3>1, <3>3
  <2> QED
    BY <1>2, <1>5, <2>1
<1>6. CASE m # 0
  <2>1. PICK k \in Nat : m = k + 1
    <3>1. m - 1 \in Nat /\ m = (m - 1) + 1
      BY <1>2, <1>6
    <3> QED
      BY <3>1
  <2>2. Good(k)
    <3>1. k \notin bad
      <4> HIDE DEF bad
      <4> QED
        BY <1>2, <2>1
    <3> QED
      BY <3>1
  <2>3. ASSUME NEW Q \in SUBSET U
        PROVE  After(Q, m) = UNION {After({x}, m) : x \in Q}
    <3>1. After(Q, m) = Spread(g, After(Q, k))
      BY <1>3, <2>1
    <3>2. \A x \in Q : After({x}, m) = Spread(g, After({x}, k))
      BY <1>3, <1>4, <2>1
    <3>3. After(Q, k) = UNION {After({x}, k) : x \in Q}
      BY <2>2
    <3>4. Spread(g, UNION {After({x}, k) : x \in Q})
            = UNION {Spread(g, After({x}, k)) : x \in Q}
      <4>1. ASSUME NEW q
            PROVE  q \in Spread(g, UNION {After({x}, k) : x \in Q})
                     <=> \E x \in Q : q \in Spread(g, After({x}, k))
        <5>1. q \in Spread(g, UNION {After({x}, k) : x \in Q})
                <=> \E y \in UNION {After({x}, k) : x \in Q} : q \in g[y]
          BY DEF Spread
        <5>2. \A x \in Q : q \in Spread(g, After({x}, k))
                <=> \E y \in After({x}, k) : q \in g[y]
          BY DEF Spread
        <5> QED
          BY <5>1, <5>2
      <4> QED
        BY <4>1
    <3> QED
      BY <3>1, <3>2, <3>3, <3>4
  <2> QED
    BY <1>2, <2>3
<1> QED
  BY <1>5, <1>6

LEMMA ReachedFirst ==
  ASSUME NEW g, NEW U, NEW S, Reaching(g, U, S), NEW n \in Nat
  PROVE  Reached(g, U, S, n + 1) = Reached(g, U, Spread(g, S), n)
<1> DEFINE After(Q, k) == Reached(g, U, Q, k)
           first == Spread(g, S)
           bad == {k \in Nat : ~(After(S, k + 1) = After(first, k))}
<1>1. SUFFICES ASSUME bad # {} PROVE FALSE
  OBVIOUS
<1>2. PICK m \in bad : \A k \in bad : m <= k
  BY <1>1, Least
<1>3. ASSUME NEW k \in Nat
      PROVE  After(S, 0) = S /\ After(S, k + 1) = Spread(g, After(S, k))
  BY ReachedStep
<1>4. ASSUME NEW k \in Nat
      PROVE  After(first, 0) = first /\ After(first, k + 1) = Spread(g, After(first, k))
  BY SpreadIs, ReachedStep
<1> HIDE DEF After
<1>5. CASE m = 0
  <2>1. After(S, 0 + 1) = Spread(g, After(S, 0)) /\ After(S, 0) = S
    BY <1>3
  <2>2. After(first, 0) = first
    BY <1>4
  <2> QED
    BY <1>2, <1>5, <2>1, <2>2
<1>6. CASE m # 0
  <2>1. PICK k \in Nat : m = k + 1
    <3>1. m - 1 \in Nat /\ m = (m - 1) + 1
      BY <1>2, <1>6
    <3> QED
      BY <3>1
  <2>2. After(S, k + 1) = After(first, k)
    BY <1>2, <2>1
  <2>3. After(S, m + 1) = Spread(g, After(S, k + 1))
    BY <1>2, <1>3, <2>1
  <2>4. After(first, m) = Spread(g, After(first, k))
    BY <1>4, <2>1
  <2> QED
    BY <1>2, <2>2, <2>3, <2>4
<1> QED
  BY <1>5, <1>6

(* A set that is chosen by such a recursion is what is reached.              *)
LEMMA ReachedExists ==
  ASSUME NEW g, NEW U, NEW S, Reaching(g, U, S), NEW n \in Nat
  PROVE  \E f \in [0..n -> SUBSET U] :
           \A k \in 0..n : f[k] = IF k = 0 THEN S ELSE Spread(g, f[k - 1])
<1>1. S \in SUBSET U /\ Spreading(g, U) \in [Nat \X SUBSET U -> SUBSET U]
  BY SpreadingSteps DEF Steps
<1>2. PICK f \in [0..n -> SUBSET U] : Iterates(f, S, Spreading(g, U), n)
  BY <1>1, IterationExists
<1>3. ASSUME NEW k \in 0..n, k # 0
      PROVE  Spreading(g, U)[<<k, f[k - 1]>>] = Spread(g, f[k - 1])
  <2>1. k \in Nat /\ f[k - 1] \in SUBSET U
    BY <1>2, <1>3
  <2> QED
    BY <2>1 DEF Spreading
<1>4. ASSUME NEW k \in 0..n
      PROVE  f[k] = IF k = 0 THEN S ELSE Spread(g, f[k - 1])
  <2>1. f[k] = IF k = 0 THEN S ELSE Spreading(g, U)[<<k, f[k - 1]>>]
    BY <1>2 DEF Iterates
  <2> QED
    BY <1>3, <2>1
<1> QED
  BY <1>4

Grows(f, S, g, n, U) ==
  f[0] = S /\ \A k \in 1..n : f[k - 1] \in SUBSET U => f[k] = Spread(g, f[k - 1])

LEMMA GrowsReached ==
  ASSUME NEW g, NEW U, NEW S, Reaching(g, U, S), NEW n \in Nat,
         NEW f, Grows(f, S, g, n, U)
  PROVE  f[n] = Reached(g, U, S, n)
<1>0. Steps(S, Spreading(g, U), SUBSET U)
  BY SpreadingSteps
<1>1. f[0] = S
  BY DEF Grows
<1>2. ASSUME NEW k \in 1..n, f[k - 1] \in SUBSET U
      PROVE  f[k] = Spreading(g, U)[<<k, f[k - 1]>>]
  <2>1. f[k] = Spread(g, f[k - 1])
    BY <1>2 DEF Grows
  <2> QED
    BY <1>2, <2>1 DEF Spreading
<1>3. Stepping(f, S, Spreading(g, U), n, SUBSET U)
  BY <1>1, <1>2 DEF Stepping
<1> QED
  BY <1>0, <1>3, IterationUnique DEF Reached

-----------------------------------------------------------------------------
(* Parts that follow one another.                                           *)

Positions == 0..Len(input)
Rows == [1..(Len(input) + 1) -> SUBSET Positions]

(* What begins at an offset ends in its row.                                *)
RowOf(R) == [p \in Positions |-> Grammar(mode)!At(R, p)]

LEMMA AtRow ==
  ASSUME Len(input) \in Nat, NEW R \in Rows, NEW p \in Positions
  PROVE  Grammar(mode)!At(R, p) \in SUBSET Positions
<1>1. p + 1 \in 1..(Len(input) + 1)
  BY DEF Positions
<1> QED
  BY <1>1 DEF Rows, Grammar!At

LEMMA RowsReach ==
  ASSUME Len(input) \in Nat, NEW R \in Rows, NEW P \in SUBSET Positions
  PROVE  /\ Reaching(RowOf(R), Positions, P)
         /\ Grammar(mode)!Following(R, P) = Spread(RowOf(R), P)
<1>1. RowOf(R) \in [Positions -> SUBSET Positions]
  BY AtRow DEF RowOf
<1>2. \A p \in P : RowOf(R)[p] = Grammar(mode)!At(R, p)
  BY DEF RowOf
<1>3. Grammar(mode)!Following(R, P) = Spread(RowOf(R), P)
  BY <1>2 DEF Grammar!Following, Spread
<1> QED
  BY <1>1, <1>3 DEF Reaching

LEMMA AfterIs ==
  ASSUME Len(input) \in Nat, NEW R \in Rows, NEW P \in SUBSET Positions, NEW n \in Nat
  PROVE  Grammar(mode)!After(R, P, n) = Reached(RowOf(R), Positions, P, n)
<1> DEFINE more(f, k) == IF k = 0 THEN P ELSE Grammar(mode)!Following(R, f[k - 1])
           chosen == CHOOSE f : f = [k \in 0..n |-> more(f, k)]
<1>1. Reaching(RowOf(R), Positions, P)
  BY RowsReach
<1>2. PICK f \in [0..n -> SUBSET Positions] :
        \A k \in 0..n : f[k] = IF k = 0 THEN P ELSE Spread(RowOf(R), f[k - 1])
  BY <1>1, ReachedExists, SMTT(60)
<1>3. f = [k \in 0..n |-> more(f, k)]
  <2>1. ASSUME NEW k \in 0..n
        PROVE  f[k] = more(f, k)
    <3>1. CASE k = 0
      BY <1>2, <3>1
    <3>2. CASE k # 0
      <4>1. f[k - 1] \in SUBSET Positions
        BY <1>2, <3>2
      <4>2. Grammar(mode)!Following(R, f[k - 1]) = Spread(RowOf(R), f[k - 1])
        BY <4>1, RowsReach
      <4> QED
        BY <1>2, <3>2, <4>2
    <3> QED
      BY <3>1, <3>2
  <2> HIDE DEF more
  <2> QED
    BY <1>2, <2>1
<1>4. chosen = [k \in 0..n |-> more(chosen, k)]
  BY <1>3
<1> HIDE DEF chosen
<1>5. chosen[0] = P
  BY <1>4
<1>6. ASSUME NEW k \in 1..n, chosen[k - 1] \in SUBSET Positions
      PROVE  chosen[k] = Spread(RowOf(R), chosen[k - 1])
  <2>1. chosen[k] = Grammar(mode)!Following(R, chosen[k - 1])
    BY <1>4
  <2> QED
    BY <1>6, <2>1, RowsReach
<1>7. Grows(chosen, P, RowOf(R), n, Positions)
  BY <1>5, <1>6 DEF Grows
<1>8. chosen[n] = Reached(RowOf(R), Positions, P, n)
  BY <1>1, <1>7, GrowsReached
<1> QED
  BY <1>8 DEF chosen, Grammar!After

LEMMA AfterNone ==
  ASSUME Len(input) \in Nat, NEW R \in Rows, NEW P \in SUBSET Positions
  PROVE  Grammar(mode)!After(R, P, 0) = P
BY AfterIs, RowsReach, ReachedStep

LEMMA AfterOffsets ==
  ASSUME Len(input) \in Nat, NEW R \in Rows, NEW P \in SUBSET Positions, NEW n \in Nat
  PROVE  Grammar(mode)!After(R, P, n) \in SUBSET Positions
<1>1. Grammar(mode)!After(R, P, n) = Reached(RowOf(R), Positions, P, n)
  BY AfterIs
<1>2. Reached(RowOf(R), Positions, P, n) \in SUBSET Positions
  BY RowsReach, ReachedStep
<1> QED
  BY <1>1, <1>2

LEMMA AfterUnion ==
  ASSUME Len(input) \in Nat, NEW R \in Rows, NEW P \in SUBSET Positions, NEW n \in Nat
  PROVE  Grammar(mode)!After(R, P, n) = UNION {Grammar(mode)!After(R, {p}, n) : p \in P}
<1>1. Grammar(mode)!After(R, P, n) = Reached(RowOf(R), Positions, P, n)
  BY AfterIs
<1>2. ASSUME NEW p \in P
      PROVE  Grammar(mode)!After(R, {p}, n) = Reached(RowOf(R), Positions, {p}, n)
  BY AfterIs
<1>3. Reached(RowOf(R), Positions, P, n) = UNION {Reached(RowOf(R), Positions, {p}, n) : p \in P}
  BY RowsReach, ReachedUnion
<1> QED
  BY <1>1, <1>2, <1>3

(* One part, then the others.                                               *)
LEMMA AfterOne ==
  ASSUME Len(input) \in Nat, NEW R \in Rows, NEW p \in Positions, NEW n \in Nat
  PROVE  Grammar(mode)!After(R, {p}, n + 1)
           = UNION {Grammar(mode)!After(R, {q}, n) : q \in Grammar(mode)!At(R, p)}
<1>1. Spread(RowOf(R), {p}) = Grammar(mode)!At(R, p)
  BY DEF Spread, RowOf
<1>2. Grammar(mode)!At(R, p) \in SUBSET Positions /\ {p} \in SUBSET Positions
  BY AtRow
<1>3. Grammar(mode)!After(R, {p}, n + 1)
        = Reached(RowOf(R), Positions, Grammar(mode)!At(R, p), n)
  <2>1. n + 1 \in Nat
    OBVIOUS
  <2> QED
    BY <1>1, <1>2, <2>1, AfterIs, RowsReach, ReachedFirst
<1>4. Reached(RowOf(R), Positions, Grammar(mode)!At(R, p), n)
        = Grammar(mode)!After(R, Grammar(mode)!At(R, p), n)
  BY <1>2, AfterIs
<1> QED
  BY <1>2, <1>3, <1>4, AfterUnion

-----------------------------------------------------------------------------
(* Entries with sorted keys that follow one another.                        *)

Found == [to: Positions, key: Seq(Bytes)]

Key(p, q) == SubSeq(input, p + 1, q)

LEMMA KeyIs ==
  ASSUME IsInput(input), NEW p \in Positions, NEW q \in Positions
  PROVE  Key(p, q) \in Seq(Bytes) /\ (p < q => Len(Key(p, q)) = q - p)
                                  /\ (p >= q => Key(p, q) = <<>>)
<1>1. input \in Seq(Bytes) /\ Len(input) \in Nat
  BY InputIsSeq, SkipAssumption
<1>2. p \in Nat /\ q \in Nat /\ p <= Len(input) /\ q <= Len(input)
  BY <1>1 DEF Positions
<1>3. CASE p < q
  <2>1. \A i \in (p + 1)..q : input[i] \in Bytes
    BY <1>1, <1>2
  <2>2. SubSeq(input, p + 1, q) \in Seq(Bytes)
    BY <1>1, <1>2, <2>1
  <2>3. Len(SubSeq(input, p + 1, q)) = q - p
    BY <1>1, <1>2, <1>3
  <2> QED
    BY <1>2, <1>3, <2>2, <2>3 DEF Key
<1>4. CASE p >= q
  <2>1. SubSeq(input, p + 1, q) = <<>>
    BY <1>1, <1>2, <1>4
  <2> QED
    BY <1>2, <1>4, <2>1 DEF Key
<1> QED
  BY <1>2, <1>3, <1>4

Entering(R, e) ==
  UNION {Grammar(mode)!Entry(input, R, e, q) : q \in Grammar(mode)!Greater(input, R, e)}

NextOf(R) == [e \in Found |-> Entering(R, e)]

LEMMA EntriesReach ==
  ASSUME IsInput(input), NEW R \in Rows, NEW S \in SUBSET Found
  PROVE  /\ Reaching(NextOf(R), Found, S)
         /\ Grammar(mode)!Sorted(input, R, S) = Spread(NextOf(R), S)
<1>0. Len(input) \in Nat
  BY InputIsSeq, SkipAssumption
<1>1. ASSUME NEW e \in Found PROVE Entering(R, e) \in SUBSET Found
  <2>1. ASSUME NEW q \in Grammar(mode)!Greater(input, R, e)
        PROVE  Grammar(mode)!Entry(input, R, e, q) \in SUBSET Found
    <3>1. e.to \in Positions
      BY DEF Found
    <3>2. q \in Positions
      BY <1>0, <3>1, AtRow DEF Grammar!Greater
    <3>3. Grammar(mode)!At(R, q) \in SUBSET Positions
      BY <1>0, <3>2, AtRow
    <3>4. PICK k \in Seq(Bytes) : k = SubSeq(input, e.to + 1, q)
      BY <3>1, <3>2, KeyIs DEF Key
    <3>5. \A v \in Positions : [to |-> v, key |-> k] \in Found
      BY DEF Found
    <3>6. Grammar(mode)!Entry(input, R, e, q)
            = {[to |-> v, key |-> k] : v \in Grammar(mode)!At(R, q)}
      BY <3>4 DEF Grammar!Entry
    <3> QED
      BY <3>3, <3>5, <3>6
  <2> QED
    BY <2>1 DEF Entering
<1>2. NextOf(R) \in [Found -> SUBSET Found]
  BY <1>1 DEF NextOf
<1>3. \A e \in S : NextOf(R)[e] = Entering(R, e)
  BY DEF NextOf
<1>4. Grammar(mode)!Sorted(input, R, S) = UNION {Entering(R, e) : e \in S}
  BY DEF Grammar!Sorted, Entering
<1>5. UNION {Entering(R, e) : e \in S} = Spread(NextOf(R), S)
  BY <1>3 DEF Spread
<1> QED
  BY <1>2, <1>4, <1>5 DEF Reaching

LEMMA EntriesIs ==
  ASSUME IsInput(input), NEW R \in Rows, NEW S \in SUBSET Found, NEW n \in Nat
  PROVE  Grammar(mode)!Entries(input, R, S, n) = Reached(NextOf(R), Found, S, n)
<1> DEFINE more(f, k) == IF k = 0 THEN S ELSE Grammar(mode)!Sorted(input, R, f[k - 1])
           chosen == CHOOSE f : f = [k \in 0..n |-> more(f, k)]
<1>1. Reaching(NextOf(R), Found, S)
  BY EntriesReach
<1>2. PICK f \in [0..n -> SUBSET Found] :
        \A k \in 0..n : f[k] = IF k = 0 THEN S ELSE Spread(NextOf(R), f[k - 1])
  BY <1>1, ReachedExists, SMTT(60)
<1>3. f = [k \in 0..n |-> more(f, k)]
  <2>1. ASSUME NEW k \in 0..n
        PROVE  f[k] = more(f, k)
    <3>1. CASE k = 0
      BY <1>2, <3>1
    <3>2. CASE k # 0
      <4>1. f[k - 1] \in SUBSET Found
        BY <1>2, <3>2
      <4>2. Grammar(mode)!Sorted(input, R, f[k - 1]) = Spread(NextOf(R), f[k - 1])
        BY <4>1, EntriesReach
      <4> QED
        BY <1>2, <3>2, <4>2
    <3> QED
      BY <3>1, <3>2
  <2> HIDE DEF more
  <2> QED
    BY <1>2, <2>1
<1>4. chosen = [k \in 0..n |-> more(chosen, k)]
  BY <1>3
<1> HIDE DEF chosen
<1>5. chosen[0] = S
  BY <1>4
<1>6. ASSUME NEW k \in 1..n, chosen[k - 1] \in SUBSET Found
      PROVE  chosen[k] = Spread(NextOf(R), chosen[k - 1])
  <2>1. chosen[k] = Grammar(mode)!Sorted(input, R, chosen[k - 1])
    BY <1>4
  <2> QED
    BY <1>6, <2>1, EntriesReach
<1>7. Grows(chosen, S, NextOf(R), n, Found)
  BY <1>5, <1>6 DEF Grows
<1>8. chosen[n] = Reached(NextOf(R), Found, S, n)
  BY <1>1, <1>7, GrowsReached
<1> QED
  BY <1>8 DEF chosen, Grammar!Entries

LEMMA EntriesNone ==
  ASSUME IsInput(input), NEW R \in Rows, NEW S \in SUBSET Found
  PROVE  Grammar(mode)!Entries(input, R, S, 0) = S
BY EntriesIs, EntriesReach, ReachedStep

LEMMA EntriesFound ==
  ASSUME IsInput(input), NEW R \in Rows, NEW S \in SUBSET Found, NEW n \in Nat
  PROVE  Grammar(mode)!Entries(input, R, S, n) \in SUBSET Found
<1>1. Grammar(mode)!Entries(input, R, S, n) = Reached(NextOf(R), Found, S, n)
  BY EntriesIs
<1>2. Reached(NextOf(R), Found, S, n) \in SUBSET Found
  BY EntriesReach, ReachedStep
<1> QED
  BY <1>1, <1>2

LEMMA EntriesUnion ==
  ASSUME IsInput(input), NEW R \in Rows, NEW S \in SUBSET Found, NEW n \in Nat
  PROVE  Grammar(mode)!Entries(input, R, S, n)
           = UNION {Grammar(mode)!Entries(input, R, {e}, n) : e \in S}
<1>1. Grammar(mode)!Entries(input, R, S, n) = Reached(NextOf(R), Found, S, n)
  BY EntriesIs
<1>2. ASSUME NEW e \in S
      PROVE  Grammar(mode)!Entries(input, R, {e}, n) = Reached(NextOf(R), Found, {e}, n)
  BY EntriesIs
<1>3. Reached(NextOf(R), Found, S, n) = UNION {Reached(NextOf(R), Found, {e}, n) : e \in S}
  BY EntriesReach, ReachedUnion
<1> QED
  BY <1>1, <1>2, <1>3

LEMMA EntriesOne ==
  ASSUME IsInput(input), NEW R \in Rows, NEW e \in Found, NEW n \in Nat
  PROVE  Grammar(mode)!Entries(input, R, {e}, n + 1)
           = UNION {Grammar(mode)!Entries(input, R, Grammar(mode)!Entry(input, R, e, q), n) :
                      q \in Grammar(mode)!Greater(input, R, e)}
<1>0. Reaching(NextOf(R), Found, {e})
  BY EntriesReach
<1>1. Spread(NextOf(R), {e}) = Entering(R, e)
  BY DEF Spread, NextOf
<1>2. Entering(R, e) \in SUBSET Found
  <2>1. Spread(NextOf(R), {e}) \in SUBSET Found
    BY <1>0, SpreadIs
  <2> QED
    BY <1>1, <2>1
<1>3. Grammar(mode)!Entries(input, R, {e}, n + 1) = Reached(NextOf(R), Found, Entering(R, e), n)
  <2>1. n + 1 \in Nat /\ {e} \in SUBSET Found
    OBVIOUS
  <2>2. Grammar(mode)!Entries(input, R, {e}, n + 1) = Reached(NextOf(R), Found, {e}, n + 1)
    BY <2>1, EntriesIs
  <2> QED
    BY <1>0, <1>1, <2>2, ReachedFirst
<1>4. Reached(NextOf(R), Found, Entering(R, e), n)
        = Grammar(mode)!Entries(input, R, Entering(R, e), n)
  BY <1>2, EntriesIs
<1>5. Grammar(mode)!Entries(input, R, Entering(R, e), n)
        = UNION {Grammar(mode)!Entries(input, R, {d}, n) : d \in Entering(R, e)}
  BY <1>2, EntriesUnion
<1>6. ASSUME NEW q \in Grammar(mode)!Greater(input, R, e)
      PROVE  Grammar(mode)!Entries(input, R, Grammar(mode)!Entry(input, R, e, q), n)
               = UNION {Grammar(mode)!Entries(input, R, {d}, n) :
                          d \in Grammar(mode)!Entry(input, R, e, q)}
  <2>1. Grammar(mode)!Entry(input, R, e, q) \in SUBSET Found
    BY <1>2 DEF Entering
  <2> QED
    BY <2>1, EntriesUnion
<1>7. ASSUME NEW x
      PROVE  (\E d \in Entering(R, e) : x \in Grammar(mode)!Entries(input, R, {d}, n))
               <=> \E q \in Grammar(mode)!Greater(input, R, e) :
                     \E d \in Grammar(mode)!Entry(input, R, e, q) :
                       x \in Grammar(mode)!Entries(input, R, {d}, n)
  BY DEF Entering
<1>8. UNION {Grammar(mode)!Entries(input, R, {d}, n) : d \in Entering(R, e)}
        = UNION {Grammar(mode)!Entries(input, R, Grammar(mode)!Entry(input, R, e, q), n) :
                   q \in Grammar(mode)!Greater(input, R, e)}
  <2>1. ASSUME NEW x
        PROVE  x \in UNION {Grammar(mode)!Entries(input, R, {d}, n) : d \in Entering(R, e)}
                 <=> \E q \in Grammar(mode)!Greater(input, R, e) :
                       x \in Grammar(mode)!Entries(input, R, Grammar(mode)!Entry(input, R, e, q), n)
    <3>1. ASSUME NEW q \in Grammar(mode)!Greater(input, R, e)
          PROVE  x \in Grammar(mode)!Entries(input, R, Grammar(mode)!Entry(input, R, e, q), n)
                   <=> \E d \in Grammar(mode)!Entry(input, R, e, q) :
                         x \in Grammar(mode)!Entries(input, R, {d}, n)
      <4>1. Grammar(mode)!Entries(input, R, Grammar(mode)!Entry(input, R, e, q), n)
              = UNION {Grammar(mode)!Entries(input, R, {d}, n) :
                         d \in Grammar(mode)!Entry(input, R, e, q)}
        BY <1>6
      <4> QED
        BY <4>1
    <3>2. x \in UNION {Grammar(mode)!Entries(input, R, {d}, n) : d \in Entering(R, e)}
            <=> \E d \in Entering(R, e) : x \in Grammar(mode)!Entries(input, R, {d}, n)
      OBVIOUS
    <3> QED
      BY <1>7, <3>1, <3>2
  <2> QED
    BY <2>1
<1> QED
  BY <1>3, <1>4, <1>5, <1>8

-----------------------------------------------------------------------------
(* Heads.                                                                   *)

LEMMA SameBytes ==
  ASSUME NEW p
  PROVE  /\ Grammar(mode)!Byte(input, p) = Byte(p)
         /\ Grammar(mode)!Major(input, p) = Major(p)
         /\ Grammar(mode)!Info(input, p) = Info(p)
         /\ Grammar(mode)!Open(input, p) <=> Info(p) = 31
BY DEF Grammar!Byte, Grammar!Major, Grammar!Info, Grammar!Open, Byte, Major, Info

LEMMA InfoRange ==
  ASSUME IsInput(input), NEW p \in Nat, p < Len(input)
  PROVE  Info(p) \in 0..31 /\ Major(p) \in 0..7 /\ Byte(p) \in 0..255
         /\ Byte(p) = 32 * Major(p) + Info(p)
<1>1. PICK b \in 0..255 : b = Byte(p)
  BY ByteRange
<1>2. b \div 32 \in 0..7 /\ b % 32 \in 0..31 /\ b = 32 * (b \div 32) + (b % 32)
  OBVIOUS
<1> QED
  BY <1>1, <1>2 DEF Info, Major

LEMMA ExtraIs ==
  ASSUME IsInput(input), NEW p \in Nat, p < Len(input)
  PROVE  /\ Grammar(mode)!Extra(input, p) = Width(p)
         /\ Grammar(mode)!End(input, p) = HeadEnd(p)
         /\ Width(p) \in {0, 1, 2, 4, 8}
         /\ Width(p) = 0 <=> Info(p) \notin 24..27
<1>1. PICK i \in 0..31 : i = Info(p)
  BY InfoRange
<1>2. Grammar(mode)!Extra(input, p) = IF i \in 24..27 THEN 2 ^ (i - 24) ELSE 0
  BY <1>1, SameBytes DEF Grammar!Extra
<1>3. 2 ^ 0 = 1 /\ 2 ^ 1 = 2 /\ 2 ^ 2 = 4 /\ 2 ^ 3 = 8
  OBVIOUS
<1>4. /\ i = 24 => 2 ^ (i - 24) = 1
      /\ i = 25 => 2 ^ (i - 24) = 2
      /\ i = 26 => 2 ^ (i - 24) = 4
      /\ i = 27 => 2 ^ (i - 24) = 8
  <2>1. CASE i = 24
    BY <1>3, <2>1
  <2>2. CASE i = 25
    BY <1>3, <2>2
  <2>3. CASE i = 26
    BY <1>3, <2>3
  <2>4. CASE i = 27
    BY <1>3, <2>4
  <2>5. CASE i \notin 24..27
    BY <2>5
  <2> QED
    BY <2>1, <2>2, <2>3, <2>4, <2>5
<1>5. Width(p) = CASE i = 24 -> 1 [] i = 25 -> 2 [] i = 26 -> 4 [] i = 27 -> 8
                   [] OTHER -> 0
  BY <1>1 DEF Width
<1>6. Grammar(mode)!Extra(input, p) = Width(p)
  <2>1. CASE i = 24
    BY <1>2, <1>4, <1>5, <2>1
  <2>2. CASE i = 25
    BY <1>2, <1>4, <1>5, <2>2
  <2>3. CASE i = 26
    BY <1>2, <1>4, <1>5, <2>3
  <2>4. CASE i = 27
    BY <1>2, <1>4, <1>5, <2>4
  <2>5. CASE i \notin 24..27
    BY <1>2, <1>5, <2>5
  <2> QED
    BY <2>1, <2>2, <2>3, <2>4, <2>5
<1>7. Width(p) \in {0, 1, 2, 4, 8} /\ (Width(p) = 0 <=> i \notin 24..27)
  BY <1>5
<1> QED
  BY <1>1, <1>6, <1>7 DEF Grammar!End, HeadEnd

(* Bytes read as a number.                                                  *)
NumberSteps(p) ==
  [y \in Nat \X Nat |->
     256 * y[2] + (IF y[1] > 0 /\ p + y[1] - 1 < Len(input) THEN Byte(p + y[1] - 1)
                   ELSE 0)]

LEMMA ReadingSteps ==
  ASSUME IsInput(input), NEW p \in Nat
  PROVE  /\ Steps(0, NumberSteps(p), Nat)
         /\ \A k \in Nat \ {0}, v \in Nat :
              p + k <= Len(input) => NumberSteps(p)[<<k, v>>] = 256 * v + Byte(p + k - 1)
<1>0. Len(input) \in Nat
  BY InputIsSeq, SkipAssumption
<1> DEFINE value(k, v) ==
             256 * v + (IF k > 0 /\ p + k - 1 < Len(input) THEN Byte(p + k - 1) ELSE 0)
<1>1. ASSUME NEW k \in Nat, NEW v \in Nat
      PROVE  value(k, v) \in Nat
  <2>1. CASE k > 0 /\ p + k - 1 < Len(input)
    <3>1. PICK b \in 0..255 : b = Byte(p + k - 1)
      <4>1. p + k - 1 \in Nat
        BY <2>1
      <4> QED
        BY <2>1, <4>1, ByteRange
    <3>2. value(k, v) = 256 * v + b
      BY <2>1, <3>1
    <3> HIDE DEF value
    <3> QED
      BY <3>1, <3>2
  <2>2. CASE ~(k > 0 /\ p + k - 1 < Len(input))
    BY <2>2
  <2> QED
    BY <2>1, <2>2
<1>2. ASSUME NEW y \in Nat \X Nat
      PROVE  NumberSteps(p)[y] = value(y[1], y[2]) /\ value(y[1], y[2]) \in Nat
  <2>1. y[1] \in Nat /\ y[2] \in Nat
    OBVIOUS
  <2>2. NumberSteps(p)[y] = value(y[1], y[2])
    BY DEF NumberSteps
  <2> HIDE DEF value
  <2> QED
    BY <1>1, <2>1, <2>2
<1>3. NumberSteps(p) \in [Nat \X Nat -> Nat]
  <2>1. NumberSteps(p) = [y \in Nat \X Nat |-> NumberSteps(p)[y]]
    BY DEF NumberSteps
  <2>2. \A y \in Nat \X Nat : NumberSteps(p)[y] \in Nat
    BY <1>2
  <2> QED
    BY <2>1, <2>2
<1>4. ASSUME NEW k \in Nat \ {0}, NEW v \in Nat, p + k <= Len(input)
      PROVE  NumberSteps(p)[<<k, v>>] = 256 * v + Byte(p + k - 1)
  <2>1. <<k, v>> \in Nat \X Nat /\ <<k, v>>[1] = k /\ <<k, v>>[2] = v
    OBVIOUS
  <2>2. NumberSteps(p)[<<k, v>>] = value(k, v)
    BY <1>2, <2>1
  <2>3. k > 0 /\ p + k - 1 < Len(input)
    BY <1>0, <1>4
  <2> QED
    BY <2>2, <2>3
<1> QED
  BY <1>3, <1>4 DEF Steps

LEMMA NumberIs ==
  ASSUME IsInput(input), NEW p \in Nat, NEW n \in Nat, p + n <= Len(input)
  PROVE  Grammar(mode)!Number(input, p, n) = Iteration(0, NumberSteps(p), n)[n]
<1>0. Steps(0, NumberSteps(p), Nat)
  BY ReadingSteps
<1>1. ASSUME NEW k \in 1..n, NEW v \in Nat
      PROVE  NumberSteps(p)[<<k, v>>] = 256 * v + Byte(p + k - 1)
  <2>1. k \in Nat \ {0} /\ p + k <= Len(input)
    BY InputIsSeq, SkipAssumption
  <2> QED
    BY <2>1, ReadingSteps
<1> DEFINE more(f, k) ==
             IF k = 0 THEN 0 ELSE 256 * f[k - 1] + Grammar(mode)!Byte(input, p + k - 1)
           chosen == CHOOSE f : f = [k \in 0..n |-> more(f, k)]
<1>2. PICK f \in [0..n -> Nat] : Iterates(f, 0, NumberSteps(p), n)
  <2>1. 0 \in Nat /\ NumberSteps(p) \in [Nat \X Nat -> Nat]
    BY <1>0 DEF Steps
  <2> QED
    BY <2>1, IterationExists
<1>3. f = [k \in 0..n |-> more(f, k)]
  <2>1. ASSUME NEW k \in 0..n
        PROVE  f[k] = more(f, k)
    <3>1. f[k] = IF k = 0 THEN 0 ELSE NumberSteps(p)[<<k, f[k - 1]>>]
      BY <1>2 DEF Iterates
    <3>2. CASE k = 0
      BY <3>1, <3>2
    <3>3. CASE k # 0
      <4>1. k \in 1..n /\ f[k - 1] \in Nat
        BY <1>2, <3>3
      <4> QED
        BY <1>1, <3>1, <3>3, <4>1, SameBytes
    <3> QED
      BY <3>2, <3>3
  <2> HIDE DEF more
  <2> QED
    BY <1>2, <2>1
<1>4. chosen = [k \in 0..n |-> more(chosen, k)]
  BY ZenonT(60), <1>3
<1> HIDE DEF chosen
<1>5. chosen[0] = 0
  BY <1>4
<1>6. ASSUME NEW k \in 1..n, chosen[k - 1] \in Nat
      PROVE  chosen[k] = NumberSteps(p)[<<k, chosen[k - 1]>>]
  <2>1. chosen[k] = 256 * chosen[k - 1] + Byte(p + k - 1)
    BY SMTT(30), <1>4, SameBytes
  <2> QED
    BY SMTT(30), <1>1, <1>6, <2>1
<1>7. Stepping(chosen, 0, NumberSteps(p), n, Nat)
  BY <1>5, <1>6 DEF Stepping
<1>8. chosen[n] = Iteration(0, NumberSteps(p), n)[n]
  BY <1>0, <1>7, IterationUnique
<1> QED
  BY <1>8 DEF chosen, Grammar!Number

LEMMA NumberNone ==
  ASSUME IsInput(input), NEW p \in Nat, p <= Len(input)
  PROVE  Grammar(mode)!Number(input, p, 0) = 0
<1>1. Grammar(mode)!Number(input, p, 0) = Iteration(0, NumberSteps(p), 0)[0]
  BY NumberIs, InputIsSeq, SkipAssumption
<1> QED
  BY <1>1, ReadingSteps, IterationBegins

LEMMA NumberStep ==
  ASSUME IsInput(input), NEW p \in Nat, NEW n \in Nat, p + n < Len(input)
  PROVE  /\ Grammar(mode)!Number(input, p, n) \in Nat
         /\ Grammar(mode)!Number(input, p, n + 1)
              = 256 * Grammar(mode)!Number(input, p, n) + Byte(p + n)
<1>0. Steps(0, NumberSteps(p), Nat) /\ Len(input) \in Nat
  BY ReadingSteps, InputIsSeq, SkipAssumption
<1>1. PICK v \in Nat : v = Iteration(0, NumberSteps(p), n)[n]
  BY <1>0, IterationStep
<1>2. Iteration(0, NumberSteps(p), n + 1)[n + 1] = NumberSteps(p)[<<n + 1, v>>]
  BY <1>0, <1>1, IterationStep
<1>3. NumberSteps(p)[<<n + 1, v>>] = 256 * v + Byte(p + n)
  <2>1. n + 1 \in Nat \ {0} /\ p + (n + 1) <= Len(input) /\ p + (n + 1) - 1 = p + n
    BY <1>0
  <2> QED
    BY <2>1, ReadingSteps
<1>4. Grammar(mode)!Number(input, p, n) = v
  <2>1. p + n <= Len(input)
    BY <1>0
  <2> QED
    BY <1>1, <2>1, NumberIs
<1>5. Grammar(mode)!Number(input, p, n + 1) = Iteration(0, NumberSteps(p), n + 1)[n + 1]
  <2>1. n + 1 \in Nat /\ p + (n + 1) <= Len(input)
    BY <1>0
  <2> QED
    BY <2>1, NumberIs
<1> QED
  BY <1>1, <1>2, <1>3, <1>4, <1>5

LEMMA ShortNumbers ==
  ASSUME IsInput(input), NEW p \in Nat
  PROVE  /\ p + 1 <= Len(input) => Grammar(mode)!Number(input, p, 1) = Byte(p)
         /\ p + 2 <= Len(input) => Grammar(mode)!Number(input, p, 2) = Two(p)
         /\ p + 4 <= Len(input) => Grammar(mode)!Number(input, p, 4) = Four(p)
<1>0. Len(input) \in Nat
  BY InputIsSeq, SkipAssumption
<1>1. ASSUME p + 1 <= Len(input)
      PROVE  Byte(p) \in Nat /\ Grammar(mode)!Number(input, p, 1) = Byte(p)
  <2>0. p < Len(input)
    BY <1>0, <1>1
  <2>1. Byte(p) \in 0..255
    BY <2>0, ByteRange
  <2>2. Grammar(mode)!Number(input, p, 0) = 0
    BY <1>0, <1>1, NumberNone
  <2>3. Grammar(mode)!Number(input, p, 0 + 1)
          = 256 * Grammar(mode)!Number(input, p, 0) + Byte(p + 0)
    BY <1>0, <1>1, NumberStep
  <2> QED
    BY <2>1, <2>2, <2>3
<1>2. ASSUME p + 2 <= Len(input)
      PROVE  Two(p) \in Nat /\ Grammar(mode)!Number(input, p, 2) = Two(p)
  <2>1. Byte(p) \in Nat /\ Grammar(mode)!Number(input, p, 1) = Byte(p)
    BY <1>0, <1>1, <1>2
  <2>2. PICK b \in 0..255 : b = Byte(p + 1)
    <3>1. p + 1 \in Nat /\ p + 1 < Len(input)
      BY <1>0, <1>2
    <3> QED
      BY <3>1, ByteRange, Zenon
  <2>3. Grammar(mode)!Number(input, p, 1 + 1)
          = 256 * Grammar(mode)!Number(input, p, 1) + Byte(p + 1)
    BY <1>0, <1>2, NumberStep
  <2> QED
    BY <2>1, <2>2, <2>3 DEF Two
<1>3. ASSUME p + 4 <= Len(input)
      PROVE  Grammar(mode)!Number(input, p, 4) = Four(p)
  <2>1. PICK v \in Nat : v = Two(p) /\ Grammar(mode)!Number(input, p, 2) = v
    BY <1>0, <1>2, <1>3
  <2>2. PICK b \in 0..255 : b = Byte(p + 2)
    <3>1. p + 2 \in Nat /\ p + 2 < Len(input)
      BY <1>0, <1>3
    <3> QED
      BY <3>1, ByteRange, Zenon
  <2>3. PICK c \in 0..255 : c = Byte(p + 3)
    <3>1. p + 3 \in Nat /\ p + 3 < Len(input)
      BY <1>0, <1>3
    <3> QED
      BY <3>1, ByteRange, Zenon
  <2>4. Grammar(mode)!Number(input, p, 2 + 1)
          = 256 * Grammar(mode)!Number(input, p, 2) + Byte(p + 2)
    BY <1>0, <1>3, NumberStep
  <2>5. Grammar(mode)!Number(input, p, 3 + 1)
          = 256 * Grammar(mode)!Number(input, p, 3) + Byte(p + 3)
    BY <1>0, <1>3, NumberStep
  <2>6. Grammar(mode)!Number(input, p, 4) = 256 * (256 * v + b) + c
    BY <2>1, <2>2, <2>3, <2>4, <2>5
  <2>7. Two(p + 2) = b * 256 + c
    BY <2>2, <2>3 DEF Two
  <2>8. Four(p) = v * 65536 + (b * 256 + c)
    BY <2>1, <2>7 DEF Four
  <2> QED
    BY <2>6, <2>8
<1> QED
  BY <1>1, <1>2, <1>3

LEMMA TwoNat ==
  ASSUME IsInput(input), NEW p \in Nat, p + 2 <= Len(input)
  PROVE  Two(p) \in Nat
<1>0. Len(input) \in Nat
  BY InputIsSeq, SkipAssumption
<1>1. PICK b \in 0..255 : b = Byte(p)
  <2>1. p \in Nat /\ p < Len(input)
    BY <1>0
  <2> QED
    BY <2>1, ByteRange, Zenon
<1>2. PICK c \in 0..255 : c = Byte(p + 1)
  <2>1. p + 1 \in Nat /\ p + 1 < Len(input)
    BY <1>0
  <2> QED
    BY <2>1, ByteRange, Zenon
<1>3. Two(p) = b * 256 + c
  BY <1>1, <1>2 DEF Two
<1>4. b * 256 + c \in Nat
  OBVIOUS
<1> QED
  BY <1>3, <1>4

LEMMA FourNat ==
  ASSUME IsInput(input), NEW p \in Nat, p + 4 <= Len(input)
  PROVE  Four(p) \in Nat
<1>0. Len(input) \in Nat
  BY InputIsSeq, SkipAssumption
<1>1. Two(p) \in Nat
  <2>1. p + 2 <= Len(input)
    BY <1>0
  <2> QED
    BY <2>1, TwoNat
<1>2. Two(p + 2) \in Nat
  <2>1. p + 2 \in Nat /\ (p + 2) + 2 <= Len(input)
    BY <1>0
  <2> QED
    BY <2>1, TwoNat
<1> QED
  BY <1>1, <1>2 DEF Four

LEMMA LongNumber ==
  ASSUME IsInput(input), NEW p \in Nat, p + 8 <= Len(input)
  PROVE  Grammar(mode)!Number(input, p, 8) = Four(p) * 65536 * 65536 + Four(p + 4)
<1>0. Len(input) \in Nat
  BY InputIsSeq, SkipAssumption
<1>1. PICK v \in Nat : v = Four(p) /\ Grammar(mode)!Number(input, p, 4) = v
  <2>1. p + 4 <= Len(input)
    BY <1>0
  <2>2. Four(p) \in Nat
    BY <2>1, FourNat
  <2>3. Grammar(mode)!Number(input, p, 4) = Four(p)
    BY <2>1, ShortNumbers
  <2> QED
    BY <2>2, <2>3, Zenon
<1>2. PICK a \in 0..255 : a = Byte(p + 4)
  <2>1. p + 4 \in Nat /\ p + 4 < Len(input)
    BY <1>0
  <2> QED
    BY <2>1, ByteRange, Zenon
<1>3. PICK b \in 0..255 : b = Byte(p + 5)
  <2>1. p + 5 \in Nat /\ p + 5 < Len(input)
    BY <1>0
  <2> QED
    BY <2>1, ByteRange, Zenon
<1>4. PICK c \in 0..255 : c = Byte(p + 6)
  <2>1. p + 6 \in Nat /\ p + 6 < Len(input)
    BY <1>0
  <2> QED
    BY <2>1, ByteRange, Zenon
<1>5. PICK d \in 0..255 : d = Byte(p + 7)
  <2>1. p + 7 \in Nat /\ p + 7 < Len(input)
    BY <1>0
  <2> QED
    BY <2>1, ByteRange, Zenon
<1>6. PICK u1 \in Nat : u1 = 256 * v + a /\ Grammar(mode)!Number(input, p, 5) = u1
  <2>1. p + 4 < Len(input)
    BY <1>0
  <2>2. Grammar(mode)!Number(input, p, 4 + 1) = 256 * v + a
    BY <1>1, <1>2, <2>1, NumberStep
  <2>3. 256 * v + a \in Nat /\ 4 + 1 = 5
    OBVIOUS
  <2> QED
    BY <2>2, <2>3
<1>7. PICK u2 \in Nat : u2 = 256 * u1 + b /\ Grammar(mode)!Number(input, p, 6) = u2
  <2>1. p + 5 < Len(input)
    BY <1>0
  <2>2. Grammar(mode)!Number(input, p, 5 + 1) = 256 * u1 + b
    BY <1>3, <1>6, <2>1, NumberStep
  <2>3. 256 * u1 + b \in Nat /\ 5 + 1 = 6
    OBVIOUS
  <2> QED
    BY <2>2, <2>3
<1>8. PICK u3 \in Nat : u3 = 256 * u2 + c /\ Grammar(mode)!Number(input, p, 7) = u3
  <2>1. p + 6 < Len(input)
    BY <1>0
  <2>2. Grammar(mode)!Number(input, p, 6 + 1) = 256 * u2 + c
    BY <1>4, <1>7, <2>1, NumberStep
  <2>3. 256 * u2 + c \in Nat /\ 6 + 1 = 7
    OBVIOUS
  <2> QED
    BY <2>2, <2>3
<1>9. Grammar(mode)!Number(input, p, 8) = 256 * u3 + d
  <2>1. p + 7 < Len(input)
    BY <1>0
  <2>2. Grammar(mode)!Number(input, p, 7 + 1) = 256 * u3 + d
    BY <1>5, <1>8, <2>1, NumberStep
  <2> QED
    BY <2>2
<1>10. Four(p + 4) = (256 * a + b) * 65536 + (256 * c + d)
  <2>1. Two(p + 4) = 256 * a + b
    BY <1>2, <1>3 DEF Two
  <2>2. Two((p + 4) + 2) = 256 * c + d
    BY <1>4, <1>5 DEF Two
  <2> QED
    BY <2>1, <2>2 DEF Four
<1>11. 256 * u3 + d = v * 65536 * 65536 + ((256 * a + b) * 65536 + (256 * c + d))
  BY <1>6, <1>7, <1>8
<1> QED
  BY <1>1, <1>9, <1>10, <1>11

LEMMA ArgumentIs ==
  ASSUME IsInput(input), NEW p \in Nat, p < Len(input), HeadEnd(p) <= Len(input)
  PROVE  /\ Info(p) # 31 => /\ Grammar(mode)!N(input, p) = Argument(p)
                            /\ Argument(p) \in Nat
         /\ Info(p) = 31 => Argument(p) = Indefinite
<1>0. Len(input) \in Nat
  BY InputIsSeq, SkipAssumption
<1>1. PICK i \in 0..31 : i = Info(p) /\ Grammar(mode)!Info(input, p) = i
  <2>1. Info(p) \in 0..31
    BY InfoRange
  <2>2. Grammar(mode)!Info(input, p) = Info(p)
    BY SameBytes
  <2> QED
    BY <2>1, <2>2, Zenon
<1>2. /\ Grammar(mode)!Extra(input, p) = Width(p)
      /\ HeadEnd(p) = p + 1 + Width(p)
  BY ExtraIs DEF HeadEnd
<1>w. /\ i = 24 => Width(p) = 1
      /\ i = 25 => Width(p) = 2
      /\ i = 26 => Width(p) = 4
      /\ i = 27 => Width(p) = 8
      /\ i \notin 24..27 => Width(p) = 0
  BY <1>1 DEF Width
<1>n. Grammar(mode)!N(input, p)
        = IF Width(p) = 0 THEN i ELSE Grammar(mode)!Number(input, p + 1, Width(p))
  BY <1>1, <1>2 DEF Grammar!N
<1>a. Argument(p) =
        CASE i = 24 -> Byte(p + 1)
          [] i = 25 -> Two(p + 1)
          [] i = 26 -> Four(p + 1)
          [] i = 27 -> Four(p + 1) * 65536 * 65536 + Four(p + 5)
          [] i = 31 -> Indefinite
          [] OTHER -> i
  BY <1>1 DEF Argument
<1>p. p + 1 \in Nat /\ (p + 1) + 4 = p + 5
  OBVIOUS
<1>3. CASE i = 24
  <2>0. p + 1 \in Nat /\ p + 1 < Len(input)
    BY <1>0, <1>2, <1>w, <1>3
  <2>1. Byte(p + 1) \in Nat
    <3>1. Byte(p + 1) \in 0..255
      BY <2>0, ByteRange, Zenon
    <3>2. \A b \in 0..255 : b \in Nat
      OBVIOUS
    <3> QED
      BY <3>1, <3>2, Zenon
  <2>2. Grammar(mode)!Number(input, p + 1, 1) = Byte(p + 1)
    BY <1>0, <1>2, <1>p, <1>w, <1>3, ShortNumbers
  <2> QED
    BY <1>1, <1>n, <1>a, <1>w, <1>3, <2>1, <2>2
<1>4. CASE i = 25
  <2>0. (p + 1) + 2 <= Len(input)
    BY <1>0, <1>2, <1>w, <1>4
  <2>1. Two(p + 1) \in Nat
    BY <1>p, <2>0, TwoNat
  <2>2. Grammar(mode)!Number(input, p + 1, 2) = Two(p + 1)
    BY <1>0, <1>2, <1>p, <1>w, <1>4, ShortNumbers
  <2> QED
    BY <1>1, <1>n, <1>a, <1>w, <1>4, <2>1, <2>2
<1>5. CASE i = 26
  <2>1. Four(p + 1) \in Nat
    BY <1>0, <1>p, <1>2, <1>w, <1>5, FourNat
  <2>2. Grammar(mode)!Number(input, p + 1, 4) = Four(p + 1)
    BY <1>0, <1>2, <1>p, <1>w, <1>5, ShortNumbers
  <2> QED
    BY <1>1, <1>n, <1>a, <1>w, <1>5, <2>1, <2>2
<1>6. CASE i = 27
  <2>0. (p + 1) + 8 <= Len(input) /\ p + 5 \in Nat /\ (p + 5) + 4 <= Len(input)
        /\ (p + 1) + 4 <= Len(input)
    BY <1>0, <1>2, <1>w, <1>6
  <2>1. Four(p + 1) \in Nat /\ Four(p + 5) \in Nat
    BY <1>p, <2>0, FourNat
  <2>2. Grammar(mode)!Number(input, p + 1, 8)
          = Four(p + 1) * 65536 * 65536 + Four(p + 5)
    BY <1>p, <2>0, LongNumber
  <2>3. Argument(p) = Four(p + 1) * 65536 * 65536 + Four(p + 5)
    BY <1>a, <1>6
  <2>4. Argument(p) \in Nat
    BY <2>1, <2>3
  <2> QED
    BY <1>1, <1>n, <1>w, <1>6, <2>2, <2>3, <2>4
<1>7. CASE i \notin 24..27
  <2>1. Grammar(mode)!N(input, p) = i
    BY <1>n, <1>w, <1>7
  <2>2. Argument(p) = IF i = 31 THEN Indefinite ELSE i
    BY <1>a, <1>7
  <2>3. i \in Nat
    OBVIOUS
  <2>4. Info(p) = i
    BY <1>1
  <2> QED
    BY <2>1, <2>2, <2>3, <2>4
<1> QED
  BY <1>3, <1>4, <1>5, <1>6, <1>7

LEMMA PreferredIs ==
  ASSUME IsInput(input), NEW p \in Nat, p < Len(input), HeadEnd(p) <= Len(input)
  PROVE  Preferred(p) <=> ~Grammar(mode)!Shortened(input, p)
<1>0. Len(input) \in Nat
  BY InputIsSeq, SkipAssumption
<1>1. PICK i \in 0..31 : i = Info(p) /\ Grammar(mode)!Info(input, p) = i
  <2>1. Info(p) \in 0..31
    BY InfoRange
  <2>2. Grammar(mode)!Info(input, p) = Info(p)
    BY SameBytes
  <2> QED
    BY <2>1, <2>2, Zenon
<1>2. /\ Grammar(mode)!Extra(input, p) = Width(p)
      /\ HeadEnd(p) = p + 1 + Width(p)
  BY ExtraIs DEF HeadEnd
<1>w. /\ i = 24 => Width(p) = 1
      /\ i = 25 => Width(p) = 2
      /\ i = 26 => Width(p) = 4
      /\ i = 27 => Width(p) = 8
  BY <1>1 DEF Width
<1>3. i = 24 => /\ Grammar(mode)!N(input, p) = Argument(p)
                /\ Argument(p) \in Nat
  <2>1. Info(p) # 31 => /\ Grammar(mode)!N(input, p) = Argument(p)
                        /\ Argument(p) \in Nat
    BY ArgumentIs
  <2> QED
    BY <1>1, <2>1
<1>p. Preferred(p) <=>
        CASE i = 24 -> Argument(p) > 23
          [] i = 25 -> Argument(p) > 255
          [] i = 26 -> Two(p + 1) > 0
          [] i = 27 -> Two(p + 1) > 0 \/ Two(p + 3) > 0
          [] OTHER -> TRUE
  BY <1>1 DEF Preferred
<1>s. Grammar(mode)!Shortened(input, p) <=>
        CASE i = 24 -> Grammar(mode)!N(input, p) < 24
          [] i \in 25..27 ->
               \A j \in 1..(Width(p) \div 2) : Byte(p + j) = 0
          [] OTHER -> FALSE
  BY <1>1, <1>2, SameBytes DEF Grammar!Shortened
<1>4. CASE i = 24
  BY <1>3, <1>4, <1>p, <1>s
<1>5. CASE i = 25
  <2>1. PICK b \in 0..255 : b = Byte(p + 1)
    <3>1. p + 1 \in Nat /\ p + 1 < Len(input)
      BY <1>0, <1>2, <1>w, <1>5
    <3> QED
      BY <3>1, ByteRange, Zenon
  <2>2. PICK c \in 0..255 : c = Byte(p + 2)
    <3>1. p + 2 \in Nat /\ p + 2 < Len(input)
      BY <1>0, <1>2, <1>w, <1>5
    <3> QED
      BY <3>1, ByteRange, Zenon
  <2>3. Argument(p) = b * 256 + c
    BY <1>1, <1>5, <2>1, <2>2 DEF Argument, Two
  <2>4. (\A j \in 1..(2 \div 2) : Byte(p + j) = 0) <=> b = 0
    BY <2>1
  <2>7. Preferred(p) <=> Argument(p) > 255
    BY <1>p, <1>5
  <2>8. Grammar(mode)!Shortened(input, p) <=>
          \A j \in 1..(2 \div 2) : Byte(p + j) = 0
    BY <1>s, <1>w, <1>5
  <2> QED
    BY <2>3, <2>4, <2>7, <2>8
<1>6. CASE i = 26
  <2>1. PICK b \in 0..255 : b = Byte(p + 1)
    <3>1. p + 1 \in Nat /\ p + 1 < Len(input)
      BY <1>0, <1>2, <1>w, <1>6
    <3> QED
      BY <3>1, ByteRange, Zenon
  <2>2. PICK c \in 0..255 : c = Byte(p + 2)
    <3>1. p + 2 \in Nat /\ p + 2 < Len(input)
      BY <1>0, <1>2, <1>w, <1>6
    <3> QED
      BY <3>1, ByteRange, Zenon
  <2>3. Two(p + 1) = b * 256 + c
    BY <2>1, <2>2 DEF Two
  <2>4. (\A j \in 1..(4 \div 2) : Byte(p + j) = 0) <=> b = 0 /\ c = 0
    BY <2>1, <2>2
  <2>7. Preferred(p) <=> Two(p + 1) > 0
    BY <1>p, <1>6
  <2>8. Grammar(mode)!Shortened(input, p) <=>
          \A j \in 1..(4 \div 2) : Byte(p + j) = 0
    BY <1>s, <1>w, <1>6
  <2> QED
    BY <2>3, <2>4, <2>7, <2>8
<1>7. CASE i = 27
  <2>1. PICK b \in 0..255 : b = Byte(p + 1)
    <3>1. p + 1 \in Nat /\ p + 1 < Len(input)
      BY <1>0, <1>2, <1>w, <1>7
    <3> QED
      BY <3>1, ByteRange, Zenon
  <2>2. PICK c \in 0..255 : c = Byte(p + 2)
    <3>1. p + 2 \in Nat /\ p + 2 < Len(input)
      BY <1>0, <1>2, <1>w, <1>7
    <3> QED
      BY <3>1, ByteRange, Zenon
  <2>3. PICK d \in 0..255 : d = Byte(p + 3)
    <3>1. p + 3 \in Nat /\ p + 3 < Len(input)
      BY <1>0, <1>2, <1>w, <1>7
    <3> QED
      BY <3>1, ByteRange, Zenon
  <2>4. PICK e \in 0..255 : e = Byte(p + 4)
    <3>1. p + 4 \in Nat /\ p + 4 < Len(input)
      BY <1>0, <1>2, <1>w, <1>7
    <3> QED
      BY <3>1, ByteRange, Zenon
  <2>5. Two(p + 1) = b * 256 + c /\ Two(p + 3) = d * 256 + e
    BY <2>1, <2>2, <2>3, <2>4 DEF Two
  <2>6. (\A j \in 1..(8 \div 2) : Byte(p + j) = 0) <=> b = 0 /\ c = 0 /\ d = 0 /\ e = 0
    BY <2>1, <2>2, <2>3, <2>4
  <2>7. Preferred(p) <=> Two(p + 1) > 0 \/ Two(p + 3) > 0
    BY <1>p, <1>7
  <2>8. Grammar(mode)!Shortened(input, p) <=>
          \A j \in 1..(8 \div 2) : Byte(p + j) = 0
    BY SMTT(30), <1>s, <1>w, <1>7
  <2>9. b * 256 + c > 0 \/ d * 256 + e > 0 <=> ~(b = 0 /\ c = 0 /\ d = 0 /\ e = 0)
    OBVIOUS
  <2> QED
    BY <2>5, <2>6, <2>7, <2>8, <2>9
<1>8. CASE i \notin 24..27
  BY <1>p, <1>s, <1>8
<1> QED
  BY <1>4, <1>5, <1>6, <1>7, <1>8

LEMMA HeadEndNat ==
  ASSUME NEW p \in Nat
  PROVE  HeadEnd(p) \in Nat
<1>1. Width(p) \in Nat
  BY DEF Width
<1> QED
  BY <1>1 DEF HeadEnd

(* SliceDecoder::header refuses a head (decode.rs) exactly when the grammar  *)
(* has no whole head there: one that is cut, of a reserved form, or, for the *)
(* deterministic validation, longer than its argument needs.                 *)
THEOREM HeadIs ==
  ASSUME IsInput(input), NEW p \in Nat
  PROVE  HeadError(p) = NoError <=> Grammar(mode)!Whole(input, p)
<1>0. Len(input) \in Nat
  BY InputIsSeq, SkipAssumption
<1>1. HeadError(p) = NoError <=>
        /\ p < Len(input) /\ Info(p) \notin 28..30 /\ HeadEnd(p) <= Len(input)
        /\ mode = "deterministic" /\ Major(p) # 7 => Preferred(p)
  <2>1. HeadEnd(p) \in Nat
    BY HeadEndNat
  <2>2. \A kind, at : Error(kind, at) # NoError
    BY DEF Error, NoError
  <2> QED
    BY <1>0, <2>1, <2>2 DEF HeadError
<1>2. CASE p < Len(input) /\ HeadEnd(p) <= Len(input)
  <2>1. p + Width(p) < Len(input) /\ Width(p) \in Nat
    <3>1. Width(p) \in Nat
      BY <1>2, ExtraIs
    <3> QED
      BY <1>0, <1>2, <3>1 DEF HeadEnd
  <2>2. Preferred(p) <=> ~Grammar(mode)!Shortened(input, p)
    BY <1>2, PreferredIs
  <2> QED
    BY <1>1, <1>2, <2>1, <2>2, SameBytes, ExtraIs DEF Grammar!Whole
<1>3. CASE p < Len(input) /\ ~(HeadEnd(p) <= Len(input))
  <2>1. Width(p) \in Nat /\ Grammar(mode)!Extra(input, p) = Width(p)
    BY <1>3, ExtraIs
  <2>2. ~(p + Width(p) < Len(input))
    BY <1>0, <1>3, <2>1 DEF HeadEnd
  <2> QED
    BY <1>1, <1>3, <2>1, <2>2 DEF Grammar!Whole
<1>4. CASE ~(p < Len(input))
  BY <1>1, <1>4 DEF Grammar!Whole
<1> QED
  BY <1>2, <1>3, <1>4

-----------------------------------------------------------------------------
(* Characters.                                                              *)

LEMMA CodePointIs ==
  ASSUME NEW p \in Nat, NEW n \in 2..4
  PROVE  LET c0 == Byte(p) % 2 ^ (7 - n)
             c1 == 64 * c0 + (Byte(p + 1) % 64)
             c2 == 64 * c1 + (Byte(p + 2) % 64)
             c3 == 64 * c2 + (Byte(p + 3) % 64)
         IN  Grammar(mode)!CodePoint(input, p, n)
               = CASE n = 2 -> c1 [] n = 3 -> c2 [] n = 4 -> c3
<1> DEFINE c0 == Byte(p) % 2 ^ (7 - n)
           c1 == 64 * c0 + (Byte(p + 1) % 64)
           c2 == 64 * c1 + (Byte(p + 2) % 64)
           c3 == 64 * c2 + (Byte(p + 3) % 64)
           more(f, i) == IF i = 0 THEN Grammar(mode)!Byte(input, p) % 2 ^ (7 - n)
                         ELSE 64 * f[i - 1] + (Grammar(mode)!Byte(input, p + i) % 64)
           chosen == CHOOSE f : f = [i \in 0..(n - 1) |-> more(f, i)]
           f == [i \in 0..(n - 1) |->
                   IF i = 0 THEN c0 ELSE IF i = 1 THEN c1 ELSE IF i = 2 THEN c2 ELSE c3]
<1>1. \A g : /\ more(g, 0) = c0
             /\ more(g, 1) = 64 * g[0] + (Byte(p + 1) % 64)
             /\ more(g, 2) = 64 * g[1] + (Byte(p + 2) % 64)
             /\ more(g, 3) = 64 * g[2] + (Byte(p + 3) % 64)
  BY SameBytes
<1> HIDE DEF c0, more
<1>2. f = [i \in 0..(n - 1) |-> more(f, i)]
  <2>1. ASSUME NEW i \in 0..(n - 1)
        PROVE  f[i] = more(f, i)
    <3>1. CASE i = 0
      BY <1>1, <3>1
    <3>2. CASE i = 1
      <4>1. f[0] = c0 /\ f[1] = c1
        BY <3>2
      <4> QED
        BY <1>1, <3>2, <4>1
    <3>3. CASE i = 2
      <4>1. f[1] = c1 /\ f[2] = c2
        BY <3>3
      <4> QED
        BY <1>1, <3>3, <4>1
    <3>4. CASE i = 3
      <4>1. f[2] = c2 /\ f[3] = c3
        BY <3>4
      <4> QED
        BY <1>1, <3>4, <4>1
    <3>5. i \in {0, 1, 2, 3}
      OBVIOUS
    <3> QED
      BY <3>1, <3>2, <3>3, <3>4, <3>5
  <2> QED
    BY <2>1
<1> HIDE DEF f
<1>3. chosen = [i \in 0..(n - 1) |-> more(chosen, i)]
  BY <1>2
<1> HIDE DEF chosen
<1>4. chosen[0] = c0
  BY <1>1, <1>3
<1>5. chosen[1] = c1
  <2>1. chosen[1] = more(chosen, 1)
    BY <1>3
  <2> QED
    BY <1>1, <1>4, <2>1
<1>6. n >= 3 => chosen[2] = c2
  <2>1. n >= 3 => chosen[2] = more(chosen, 2)
    BY <1>3
  <2> QED
    BY <1>1, <1>5, <2>1
<1>7. n = 4 => chosen[3] = c3
  <2>1. n = 4 => chosen[3] = more(chosen, 3)
    BY <1>3
  <2> QED
    BY <1>1, <1>6, <2>1
<1>8. Grammar(mode)!CodePoint(input, p, n) = chosen[n - 1]
  BY DEF chosen, more, Grammar!CodePoint
<1>9. chosen[n - 1] = CASE n = 2 -> c1 [] n = 3 -> c2 [] n = 4 -> c3
  <2>1. CASE n = 2
    BY <1>5, <2>1
  <2>2. CASE n = 3
    BY <1>6, <2>2
  <2>3. CASE n = 4
    BY <1>7, <2>3
  <2> QED
    BY <2>1, <2>2, <2>3
<1> QED
  BY <1>8, <1>9 DEF c0


Leads(n) ==
  CASE n = 1 -> 0..127 [] n = 2 -> 194..223 [] n = 3 -> 224..239 [] n = 4 -> 240..244

Seconds(lead) ==
  LET least == CASE lead = 224 -> 160 [] lead = 240 -> 144 [] OTHER -> 128
      most == CASE lead = 237 -> 159 [] lead = 244 -> 143 [] OTHER -> 191
  IN  least..most

Continued(p, q) == \A r \in (p + 2)..(q - 1) : Byte(r) \in 128..191
Marked(p, q) == \A i \in (p + 1)..(q - 1) : Byte(i) \div 64 = 2

LEMMA CharacterByLead ==
  ASSUME NEW p \in Nat, NEW q \in Nat, NEW n \in Nat, n = q - p
  PROVE  Character(p, q) <=>
           /\ Byte(p) \in Leads(n)
           /\ q > p + 1 => Byte(p + 1) \in Seconds(Byte(p))
           /\ Continued(p, q)
BY DEF Character, Leads, Seconds, Continued

LEMMA LeadsAre ==
  ASSUME NEW b \in Nat
  PROVE  /\ b \in Leads(1) <=> b <= 127
         /\ b \in Leads(2) <=> 194 <= b /\ b <= 223
         /\ b \in Leads(3) <=> 224 <= b /\ b <= 239
         /\ b \in Leads(4) <=> 240 <= b /\ b <= 244
BY DEF Leads

LEMMA SecondsAre ==
  ASSUME NEW b \in Nat, NEW c \in Nat
  PROVE  c \in Seconds(b) <=>
           /\ (IF b = 224 THEN 160 ELSE IF b = 240 THEN 144 ELSE 128) <= c
           /\ c <= IF b = 237 THEN 159 ELSE IF b = 244 THEN 143 ELSE 191
<1> DEFINE least == CASE b = 224 -> 160 [] b = 240 -> 144 [] OTHER -> 128
           most == CASE b = 237 -> 159 [] b = 244 -> 143 [] OTHER -> 191
<1>1. /\ least = IF b = 224 THEN 160 ELSE IF b = 240 THEN 144 ELSE 128
      /\ most = IF b = 237 THEN 159 ELSE IF b = 244 THEN 143 ELSE 191
  OBVIOUS
<1>2. least \in Nat /\ most \in Nat
  BY <1>1
<1>3. Seconds(b) = least..most
  BY DEF Seconds
<1> HIDE DEF least, most
<1>4. c \in Seconds(b) <=> least <= c /\ c <= most
  BY <1>2, <1>3
<1> QED
  BY <1>1, <1>4

(* What the grammar asks of the first byte of n, and of the code point.      *)
LeastOf(n) == CASE n = 2 -> 128 [] n = 3 -> 2048 [] n = 4 -> 65536
Leading(b, n) == b \div 2 ^ (7 - n) = 2 ^ (n + 1) - 2

LEMMA LeadingIs ==
  ASSUME NEW b \in Nat
  PROVE  /\ Leading(b, 2) <=> b \div 32 = 6
         /\ Leading(b, 3) <=> b \div 16 = 14
         /\ Leading(b, 4) <=> b \div 8 = 30
<1>1. 7 - 2 = 5 /\ 7 - 3 = 4 /\ 7 - 4 = 3 /\ 2 + 1 = 3 /\ 3 + 1 = 4 /\ 4 + 1 = 5
  OBVIOUS
<1>2. 2 ^ 5 = 32 /\ 2 ^ 4 = 16 /\ 2 ^ 3 = 8
  OBVIOUS
<1>3. Leading(b, 2) <=> b \div 32 = 8 - 2
  BY <1>1, <1>2 DEF Leading
<1>4. Leading(b, 3) <=> b \div 16 = 16 - 2
  BY <1>1, <1>2 DEF Leading
<1>5. Leading(b, 4) <=> b \div 8 = 32 - 2
  BY <1>1, <1>2 DEF Leading
<1> QED
  BY <1>3, <1>4, <1>5

LEMMA CharacterByCode ==
  ASSUME NEW p \in Nat, NEW q \in Nat, NEW n \in Nat, n = q - p
  PROVE  Grammar(mode)!Character(input, p, q) <=>
           \/ n = 1 /\ Byte(p) < 128
           \/ /\ n \in 2..4 /\ Leading(Byte(p), n)
              /\ Marked(p, q)
              /\ Grammar(mode)!CodePoint(input, p, n) >= LeastOf(n)
              /\ Grammar(mode)!Scalar(Grammar(mode)!CodePoint(input, p, n))
BY SameBytes DEF Grammar!Character, Leading, LeastOf, Marked


LEMMA ByteHere ==
  ASSUME IsInput(input), NEW p \in Nat, p < Len(input)
  PROVE  \E b \in 0..255 : b = Byte(p)
<1>1. Byte(p) \in 0..255
  BY ByteRange
<1> QED
  BY <1>1, Zenon

LEMMA PlainIs ==
  ASSUME IsInput(input), NEW p \in Nat, NEW q \in Nat, q = p + 1, q <= Len(input)
  PROVE  Character(p, q) <=> Grammar(mode)!Character(input, p, q)
<1>0. Len(input) \in Nat
  BY InputIsSeq, SkipAssumption
<1>1. PICK b \in 0..255 : b = Byte(p)
  <2>1. p < Len(input)
    BY <1>0
  <2> QED
    BY <2>1, ByteHere
<1>2. 1 = q - p /\ ~(q > p + 1) /\ Continued(p, q) /\ 1 \notin 2..4
  BY DEF Continued
<1>3. Character(p, q) <=> b <= 127
  <2>1. Character(p, q) <=> Byte(p) \in Leads(1)
    BY <1>2, CharacterByLead
  <2>2. b \in Nat
    OBVIOUS
  <2>3. b \in Leads(1) <=> b <= 127
    BY <2>2, LeadsAre
  <2> QED
    BY <1>1, <2>1, <2>3
<1>4. Grammar(mode)!Character(input, p, q) <=> b < 128
  BY <1>1, <1>2, CharacterByCode
<1> QED
  BY <1>3, <1>4

ByLead2(b, c) == 194 <= b /\ b <= 223 /\ 128 <= c /\ c <= 191

Code2(b, c) == 64 * (b % 32) + (c % 64)

ByCode2(b, c) ==
  /\ b \div 32 = 6 /\ c \div 64 = 2
  /\ Code2(b, c) >= 128 /\ Grammar(mode)!Scalar(Code2(b, c))

LEMMA ByCode2Is ==
  ASSUME NEW b \in 0..255, NEW c \in 0..255
  PROVE  ByLead2(b, c) <=> ByCode2(b, c)
<1>1. PICK x \in 0..7, y \in 0..31 :
        b = 32 * x + y /\ b \div 32 = x /\ b % 32 = y
  <2>1. b \div 32 \in 0..7 /\ b % 32 \in 0..31 /\ b = 32 * (b \div 32) + (b % 32)
    OBVIOUS
  <2> QED
    BY <2>1, Zenon
<1>2. PICK z \in 0..3, w \in 0..63 :
        c = 64 * z + w /\ c \div 64 = z /\ c % 64 = w
  <2>1. c \div 64 \in 0..3 /\ c % 64 \in 0..63 /\ c = 64 * (c \div 64) + (c % 64)
    OBVIOUS
  <2> QED
    BY <2>1, Zenon
<1>3. PICK v \in Nat : v = 64 * y + w
  OBVIOUS
<1>v. Code2(b, c) = v
  BY <1>1, <1>2, <1>3 DEF Code2
<1>4. v >= 128 /\ Grammar(mode)!Scalar(v) <=> y >= 2
  BY <1>3 DEF Grammar!Scalar
<1>5. 194 <= b /\ b <= 223 <=> x = 6 /\ y >= 2
  BY <1>1
<1>6. 128 <= c /\ c <= 191 <=> z = 2
  BY <1>2
<1>7. ByCode2(b, c) <=> x = 6 /\ z = 2 /\ y >= 2
  BY <1>1, <1>2, <1>v, <1>4 DEF ByCode2
<1> QED
  BY <1>5, <1>6, <1>7 DEF ByLead2

LEMMA PairIs ==
  ASSUME IsInput(input), NEW p \in Nat, NEW q \in Nat, q = p + 2, q <= Len(input)
  PROVE  Character(p, q) <=> Grammar(mode)!Character(input, p, q)
<1>0. Len(input) \in Nat
  BY InputIsSeq, SkipAssumption
<1>1. PICK b \in 0..255 : b = Byte(p)
  <2>1. p < Len(input)
    BY <1>0
  <2> QED
    BY <2>1, ByteHere
<1>2. PICK c \in 0..255 : c = Byte(p + 1)
  <2>1. p + 1 \in Nat /\ p + 1 < Len(input)
    BY <1>0
  <2> QED
    BY <2>1, ByteHere
<1>3. 2 = q - p /\ q > p + 1 /\ Continued(p, q) /\ 2 \in 2..4 /\ 2 # 1
  BY DEF Continued
<1>n. b \in Nat /\ c \in Nat
  OBVIOUS
<1>4. Character(p, q) <=> ByLead2(b, c)
  <2>1. Character(p, q) <=> b \in Leads(2) /\ c \in Seconds(b)
    <3>1. Character(p, q) <=> Byte(p) \in Leads(2) /\ Byte(p + 1) \in Seconds(Byte(p))
      BY <1>3, CharacterByLead
    <3> QED
      BY <1>1, <1>2, <3>1
  <2>2. b \in Leads(2) <=> 194 <= b /\ b <= 223
    BY <1>n, LeadsAre
  <2>3. 194 <= b /\ b <= 223 => (c \in Seconds(b) <=> 128 <= c /\ c <= 191)
    BY <1>n, SecondsAre
  <2> QED
    BY <2>1, <2>2, <2>3 DEF ByLead2
<1>5. Grammar(mode)!CodePoint(input, p, 2) = Code2(b, c)
  <2>1. 2 \in 2..4 /\ 7 - 2 = 5 /\ 2 ^ 5 = 32
    OBVIOUS
  <2> QED
    BY <1>1, <1>2, <2>1, CodePointIs DEF Code2
<1>6. Grammar(mode)!Character(input, p, q) <=> ByCode2(b, c)
  <2>1. Leading(Byte(p), 2) <=> b \div 32 = 6
    <3>1. Leading(b, 2) <=> b \div 32 = 6
      BY <1>n, LeadingIs
    <3> QED
      BY <1>1, <3>1
  <2>2. Marked(p, q) <=> c \div 64 = 2
    BY <1>2 DEF Marked
  <2>3. LeastOf(2) = 128
    BY DEF LeastOf
  <2>4. Grammar(mode)!Character(input, p, q) <=>
          /\ Leading(Byte(p), 2)
          /\ Marked(p, q)
          /\ Grammar(mode)!CodePoint(input, p, 2) >= LeastOf(2)
          /\ Grammar(mode)!Scalar(Grammar(mode)!CodePoint(input, p, 2))
    BY <1>3, CharacterByCode
  <2> QED
    BY <1>5, <2>1, <2>2, <2>3, <2>4 DEF ByCode2
<1>7. ByLead2(b, c) <=> ByCode2(b, c)
  BY ByCode2Is, Zenon
<1> QED
  BY <1>4, <1>6, <1>7, Zenon

ByLead3(b, c, d) ==
  /\ 224 <= b /\ b <= 239
  /\ (IF b = 224 THEN 160 ELSE 128) <= c /\ c <= (IF b = 237 THEN 159 ELSE 191)
  /\ 128 <= d /\ d <= 191

Code3(b, c, d) == 64 * (64 * (b % 16) + (c % 64)) + (d % 64)

ByCode3(b, c, d) ==
  /\ b \div 16 = 14
  /\ c \div 64 = 2
  /\ d \div 64 = 2
  /\ Code3(b, c, d) >= 2048 /\ Grammar(mode)!Scalar(Code3(b, c, d))

LEMMA ByCode3Is ==
  ASSUME NEW b \in 0..255, NEW c \in 0..255, NEW d \in 0..255
  PROVE  ByLead3(b, c, d) <=> ByCode3(b, c, d)
<1>1. PICK x \in Nat, y \in Nat :
        x <= 15 /\ y <= 15 /\ b = 16 * x + y /\ b \div 16 = x /\ b % 16 = y
  <2>1. b \div 16 \in Nat /\ b % 16 \in Nat /\ b \div 16 <= 15 /\ b % 16 <= 15 /\
            b = 16 * (b \div 16) + (b % 16)
    OBVIOUS
  <2> QED
    BY <2>1, Zenon
<1>2. PICK z0 \in 0..3, w0 \in 0..63 :
        c = 64 * z0 + w0 /\ c \div 64 = z0 /\ c % 64 = w0
  <2>1. c \div 64 \in 0..3 /\ c % 64 \in 0..63 /\ c = 64 * (c \div 64) + (c % 64)
    OBVIOUS
  <2> QED
    BY <2>1, Zenon
<1>3. PICK z1 \in 0..3, w1 \in 0..63 :
        d = 64 * z1 + w1 /\ d \div 64 = z1 /\ d % 64 = w1
  <2>1. d \div 64 \in 0..3 /\ d % 64 \in 0..63 /\ d = 64 * (d \div 64) + (d % 64)
    OBVIOUS
  <2> QED
    BY <2>1, Zenon
<1>4. PICK v \in Nat : v = 64 * (64 * y + w0) + w1
  BY <1>1
<1>l. PICK m \in Nat : m <= 63 /\ v = 4096 * y + 64 * w0 + m
  BY <1>4
<1>v. Code3(b, c, d) = v
  BY <1>1, <1>2, <1>3, <1>4 DEF Code3
<1>a. v >= 2048 /\ Grammar(mode)!Scalar(v) <=> (y >= 1 \/ w0 >= 32) /\ ~(y = 13 /\ w0 >= 32)
  <2>1. v >= 2048 <=> y >= 1 \/ w0 >= 32
    BY <1>1, <1>l
  <2>2. v <= 1114111 <=> TRUE
    <3>1. CASE y < 4
      <4>1. 4096 * y <= 4096 * 3 /\ 64 * w0 <= 64 * 63
        BY <3>1
      <4> QED
        BY <1>1, <1>l, <3>1, <4>1
    <3>2. CASE y = 4
      BY <1>1, <1>l, <3>2
    <3>3. CASE y > 4
      BY <1>1, <1>l, <3>3
    <3> QED
      BY <3>1, <3>2, <3>3
  <2>3. v >= 2048 => (55296 <= v /\ v <= 57343 <=> y = 13 /\ w0 >= 32)
    BY <1>1, <1>4
  <2> QED
    BY <2>1, <2>2, <2>3 DEF Grammar!Scalar
<1>b. 224 <= b /\ b <= 239 <=> x = 14
  BY <1>1
<1>c. x = 14 => (b = 224 <=> y = 0) /\ (b = 237 <=> y = 13)
  BY <1>1
<1>d. /\ 160 <= c /\ c <= 191 <=> z0 = 2 /\ w0 >= 32
      /\ 128 <= c /\ c <= 191 <=> z0 = 2
      /\ 128 <= c /\ c <= 159 <=> z0 = 2 /\ w0 < 32
  <2>1. 160 <= c /\ c <= 191 <=> z0 = 2 /\ w0 >= 32
    BY <1>2
  <2>2. 128 <= c /\ c <= 191 <=> z0 = 2
    BY <1>2
  <2>3. 128 <= c /\ c <= 159 <=> z0 = 2 /\ w0 < 32
    BY <1>2
  <2> QED
    BY <2>1, <2>2, <2>3
<1>e0. 128 <= d /\ d <= 191 <=> z1 = 2
  BY <1>3
<1>f. ByCode3(b, c, d) <=> x = 14 /\ z0 = 2 /\ z1 = 2 /\ (y >= 1 \/ w0 >= 32) /\
          ~(y = 13 /\ w0 >= 32)
  BY <1>1, <1>2, <1>3, <1>v, <1>a DEF ByCode3
<1>h. x = 14 => ((IF b = 224 THEN 160 ELSE 128) <= c /\
          c <= (IF b = 237 THEN 159 ELSE 191) <=>
              z0 = 2 /\ (y >= 1 \/ w0 >= 32) /\ ~(y = 13 /\ w0 >= 32))
  <2>1. CASE y = 0
    <3>1. x = 14 => b = 224 /\ b # 237
      BY <1>c, <2>1
    <3>2. x = 14 => ((IF b = 224 THEN 160 ELSE 128) <= c /\
              c <= (IF b = 237 THEN 159 ELSE 191) <=> 160 <= c /\ c <= 191)
      BY <3>1
    <3>3. ((y >= 1 \/ w0 >= 32) /\ ~(y = 13 /\ w0 >= 32)) <=> w0 >= 32
      BY <2>1
    <3> QED
      BY <1>1, <1>d, <2>1, <3>2, <3>3
  <2>2. CASE y = 13
    <3>1. x = 14 => b # 224 /\ b = 237
      BY <1>c, <2>2
    <3>2. x = 14 => ((IF b = 224 THEN 160 ELSE 128) <= c /\
              c <= (IF b = 237 THEN 159 ELSE 191) <=> 128 <= c /\ c <= 159)
      BY <3>1
    <3>3. ((y >= 1 \/ w0 >= 32) /\ ~(y = 13 /\ w0 >= 32)) <=> w0 < 32
      BY <2>2
    <3> QED
      BY <1>1, <1>d, <2>2, <3>2, <3>3
  <2>3. CASE y # 0 /\ y # 13
    <3>1. x = 14 => b # 224 /\ b # 237
      BY <1>c, <2>3
    <3>2. x = 14 => ((IF b = 224 THEN 160 ELSE 128) <= c /\
              c <= (IF b = 237 THEN 159 ELSE 191) <=> 128 <= c /\ c <= 191)
      BY <3>1
    <3>3. ((y >= 1 \/ w0 >= 32) /\ ~(y = 13 /\ w0 >= 32)) <=> TRUE
      BY <2>3
    <3> QED
      BY <1>1, <1>d, <2>3, <3>2, <3>3
  <2> QED
    BY <2>1, <2>2, <2>3
<1>g. ByLead3(b, c, d) <=> x = 14 /\ z0 = 2 /\ z1 = 2 /\ (y >= 1 \/ w0 >= 32) /\
          ~(y = 13 /\ w0 >= 32)
  BY <1>b, <1>h, <1>e0 DEF ByLead3
<1> QED
  BY <1>f, <1>g, Zenon

LEMMA Row3Is ==
  ASSUME IsInput(input), NEW p \in Nat, NEW q \in Nat, q = p + 3, q <= Len(input)
  PROVE  Character(p, q) <=> Grammar(mode)!Character(input, p, q)
<1>0. Len(input) \in Nat
  BY InputIsSeq, SkipAssumption
<1>1. PICK b \in 0..255 : b = Byte(p)
  <2>1. p \in Nat /\ p < Len(input)
    BY <1>0
  <2> QED
    BY <2>1, ByteHere
<1>2. PICK c \in 0..255 : c = Byte(p + 1)
  <2>1. p + 1 \in Nat /\ p + 1 < Len(input)
    BY <1>0
  <2> QED
    BY <2>1, ByteHere
<1>3. PICK d \in 0..255 : d = Byte(p + 2)
  <2>1. p + 2 \in Nat /\ p + 2 < Len(input)
    BY <1>0
  <2> QED
    BY <2>1, ByteHere
<1>5. 3 = q - p /\ q > p + 1 /\ 3 \in 2..4 /\ 3 # 1
  OBVIOUS
<1>r. \A r : r \in (p + 2)..(q - 1) <=> r = p + 2
  OBVIOUS
<1>s. \A r : r \in (p + 1)..(q - 1) <=> r = p + 1 \/ r = p + 2
  OBVIOUS
<1>n. b \in Nat /\ c \in Nat /\ d \in Nat
  OBVIOUS
<1>6. Character(p, q) <=> ByLead3(b, c, d)
  <2>1. Character(p, q) <=> b \in Leads(3) /\ c \in Seconds(b) /\ Continued(p, q)
    <3>1. Character(p, q) <=> /\ Byte(p) \in Leads(3) /\ Byte(p + 1) \in Seconds(Byte(p))
                              /\ Continued(p, q)
      BY <1>5, CharacterByLead
    <3> QED
      BY <1>1, <1>2, <3>1
  <2>2. b \in Leads(3) <=> 224 <= b /\ b <= 239
    BY <1>n, LeadsAre
  <2>3. 224 <= b /\ b <= 239 => (c \in Seconds(b) <=>
            (IF b = 224 THEN 160 ELSE 128) <= c /\ c <= (IF b = 237 THEN 159 ELSE 191))
    BY <1>n, SecondsAre
  <2>4. Continued(p, q) <=> 128 <= d /\ d <= 191
    <3>1. Continued(p, q) <=> Byte(p + 2) \in 128..191
      BY <1>r, Zenon DEF Continued
    <3>2. (d \in 128..191 <=> 128 <= d /\ d <= 191)
      OBVIOUS
    <3> QED
      BY <1>3, <3>1, <3>2, Zenon
  <2> QED
    BY <2>1, <2>2, <2>3, <2>4 DEF ByLead3
<1>7. Grammar(mode)!CodePoint(input, p, 3) = Code3(b, c, d)
  <2>1. 3 \in 2..4 /\ 7 - 3 = 4 /\ 2 ^ 4 = 16
    OBVIOUS
  <2> QED
    BY <1>1, <1>2, <1>3, <2>1, CodePointIs DEF Code3
<1>8. Grammar(mode)!Character(input, p, q) <=> ByCode3(b, c, d)
  <2>1. Leading(Byte(p), 3) <=> b \div 16 = 14
    <3>1. Leading(b, 3) <=> b \div 16 = 14
      BY <1>n, LeadingIs
    <3> QED
      BY <1>1, <3>1
  <2>2. Marked(p, q) <=> c \div 64 = 2 /\ d \div 64 = 2
    <3>1. Marked(p, q) <=> Byte(p + 1) \div 64 = 2 /\ Byte(p + 2) \div 64 = 2
      BY <1>s, Zenon DEF Marked
    <3> QED
      BY <1>2, <1>3, <3>1
  <2>3. LeastOf(3) = 2048
    BY DEF LeastOf
  <2>4. Grammar(mode)!Character(input, p, q) <=>
          /\ Leading(Byte(p), 3)
          /\ Marked(p, q)
          /\ Grammar(mode)!CodePoint(input, p, 3) >= LeastOf(3)
          /\ Grammar(mode)!Scalar(Grammar(mode)!CodePoint(input, p, 3))
    BY <1>5, CharacterByCode
  <2> QED
    BY <1>7, <2>1, <2>2, <2>3, <2>4 DEF ByCode3
<1>9. ByLead3(b, c, d) <=> ByCode3(b, c, d)
  BY ByCode3Is, Zenon
<1> QED
  BY <1>6, <1>8, <1>9, Zenon

ByLead4(b, c, d, e) ==
  /\ 240 <= b /\ b <= 244
  /\ (IF b = 240 THEN 144 ELSE 128) <= c /\ c <= (IF b = 244 THEN 143 ELSE 191)
  /\ 128 <= d /\ d <= 191
  /\ 128 <= e /\ e <= 191

Code4(b, c, d, e) == 64 * (64 * (64 * (b % 8) + (c % 64)) + (d % 64)) + (e % 64)

ByCode4(b, c, d, e) ==
  /\ b \div 8 = 30
  /\ c \div 64 = 2
  /\ d \div 64 = 2
  /\ e \div 64 = 2
  /\ Code4(b, c, d, e) >= 65536 /\ Grammar(mode)!Scalar(Code4(b, c, d, e))

LEMMA ByCode4Is ==
  ASSUME NEW b \in 0..255, NEW c \in 0..255, NEW d \in 0..255, NEW e \in 0..255
  PROVE  ByLead4(b, c, d, e) <=> ByCode4(b, c, d, e)
<1>1. PICK x \in Nat, y \in Nat :
        x <= 31 /\ y <= 7 /\ b = 8 * x + y /\ b \div 8 = x /\ b % 8 = y
  <2>1. b \div 8 \in Nat /\ b % 8 \in Nat /\ b \div 8 <= 31 /\ b % 8 <= 7 /\
            b = 8 * (b \div 8) + (b % 8)
    OBVIOUS
  <2> QED
    BY <2>1, Zenon
<1>2. PICK z0 \in 0..3, w0 \in 0..63 :
        c = 64 * z0 + w0 /\ c \div 64 = z0 /\ c % 64 = w0
  <2>1. c \div 64 \in 0..3 /\ c % 64 \in 0..63 /\ c = 64 * (c \div 64) + (c % 64)
    OBVIOUS
  <2> QED
    BY <2>1, Zenon
<1>3. PICK z1 \in 0..3, w1 \in 0..63 :
        d = 64 * z1 + w1 /\ d \div 64 = z1 /\ d % 64 = w1
  <2>1. d \div 64 \in 0..3 /\ d % 64 \in 0..63 /\ d = 64 * (d \div 64) + (d % 64)
    OBVIOUS
  <2> QED
    BY <2>1, Zenon
<1>4. PICK z2 \in 0..3, w2 \in 0..63 :
        e = 64 * z2 + w2 /\ e \div 64 = z2 /\ e % 64 = w2
  <2>1. e \div 64 \in 0..3 /\ e % 64 \in 0..63 /\ e = 64 * (e \div 64) + (e % 64)
    OBVIOUS
  <2> QED
    BY <2>1, Zenon
<1>5. PICK v \in Nat : v = 64 * (64 * (64 * y + w0) + w1) + w2
  BY <1>1
<1>l. PICK m \in Nat : m <= 4095 /\ v = 262144 * y + 4096 * w0 + m
  BY <1>5
<1>v. Code4(b, c, d, e) = v
  BY <1>1, <1>2, <1>3, <1>4, <1>5 DEF Code4
<1>a. v >= 65536 /\ Grammar(mode)!Scalar(v) <=> (y >= 1 \/ w0 >= 16) /\
          (y < 4 \/ (y = 4 /\ w0 < 16))
  <2>1. v >= 65536 <=> y >= 1 \/ w0 >= 16
    BY <1>1, <1>l
  <2>2. v <= 1114111 <=> y < 4 \/ (y = 4 /\ w0 < 16)
    <3>1. CASE y < 4
      <4>1. 262144 * y <= 262144 * 3 /\ 4096 * w0 <= 4096 * 63
        BY <3>1
      <4> QED
        BY <1>1, <1>l, <3>1, <4>1
    <3>2. CASE y = 4
      BY <1>1, <1>l, <3>2
    <3>3. CASE y > 4
      BY <1>1, <1>l, <3>3
    <3> QED
      BY <3>1, <3>2, <3>3
  <2>3. v >= 65536 => (55296 <= v /\ v <= 57343 <=> FALSE)
    BY <1>1, <1>5
  <2> QED
    BY <2>1, <2>2, <2>3 DEF Grammar!Scalar
<1>b. 240 <= b /\ b <= 244 <=> x = 30 /\ y <= 4
  BY <1>1
<1>c. x = 30 => (b = 240 <=> y = 0) /\ (b = 244 <=> y = 4)
  BY <1>1
<1>d. /\ 144 <= c /\ c <= 191 <=> z0 = 2 /\ w0 >= 16
      /\ 128 <= c /\ c <= 191 <=> z0 = 2
      /\ 128 <= c /\ c <= 143 <=> z0 = 2 /\ w0 < 16
  <2>1. 144 <= c /\ c <= 191 <=> z0 = 2 /\ w0 >= 16
    BY <1>2
  <2>2. 128 <= c /\ c <= 191 <=> z0 = 2
    BY <1>2
  <2>3. 128 <= c /\ c <= 143 <=> z0 = 2 /\ w0 < 16
    BY <1>2
  <2> QED
    BY <2>1, <2>2, <2>3
<1>e0. 128 <= d /\ d <= 191 <=> z1 = 2
  BY <1>3
<1>e1. 128 <= e /\ e <= 191 <=> z2 = 2
  BY <1>4
<1>f. ByCode4(b, c, d, e) <=> x = 30 /\ z0 = 2 /\ z1 = 2 /\ z2 = 2 /\
          (y >= 1 \/ w0 >= 16) /\ (y < 4 \/ (y = 4 /\ w0 < 16))
  BY <1>1, <1>2, <1>3, <1>4, <1>v, <1>a DEF ByCode4
<1>h. x = 30 /\ y <= 4 => ((IF b = 240 THEN 144 ELSE 128) <= c /\
          c <= (IF b = 244 THEN 143 ELSE 191) <=>
              z0 = 2 /\ (y >= 1 \/ w0 >= 16) /\ (y < 4 \/ (y = 4 /\ w0 < 16)))
  <2>1. CASE y = 0
    <3>1. x = 30 => b = 240 /\ b # 244
      BY <1>c, <2>1
    <3>2. x = 30 => ((IF b = 240 THEN 144 ELSE 128) <= c /\
              c <= (IF b = 244 THEN 143 ELSE 191) <=> 144 <= c /\ c <= 191)
      BY <3>1
    <3>3. ((y >= 1 \/ w0 >= 16) /\ (y < 4 \/ (y = 4 /\ w0 < 16))) <=> w0 >= 16
      BY <2>1
    <3> QED
      BY <1>1, <1>d, <2>1, <3>2, <3>3
  <2>2. CASE y = 4
    <3>1. x = 30 => b # 240 /\ b = 244
      BY <1>c, <2>2
    <3>2. x = 30 => ((IF b = 240 THEN 144 ELSE 128) <= c /\
              c <= (IF b = 244 THEN 143 ELSE 191) <=> 128 <= c /\ c <= 143)
      BY <3>1
    <3>3. ((y >= 1 \/ w0 >= 16) /\ (y < 4 \/ (y = 4 /\ w0 < 16))) <=> w0 < 16
      BY <2>2
    <3> QED
      BY <1>1, <1>d, <2>2, <3>2, <3>3
  <2>3. CASE y # 0 /\ y # 4
    <3>1. x = 30 => b # 240 /\ b # 244
      BY <1>c, <2>3
    <3>2. x = 30 => ((IF b = 240 THEN 144 ELSE 128) <= c /\
              c <= (IF b = 244 THEN 143 ELSE 191) <=> 128 <= c /\ c <= 191)
      BY <3>1
    <3>3. ((y >= 1 \/ w0 >= 16) /\ (y < 4 \/ (y = 4 /\ w0 < 16))) <=> y < 4
      BY <2>3
    <3> QED
      BY <1>1, <1>d, <2>3, <3>2, <3>3
  <2> QED
    BY <2>1, <2>2, <2>3
<1>g. ByLead4(b, c, d, e) <=> x = 30 /\ z0 = 2 /\ z1 = 2 /\ z2 = 2 /\
          (y >= 1 \/ w0 >= 16) /\ (y < 4 \/ (y = 4 /\ w0 < 16))
  BY <1>b, <1>h, <1>e0, <1>e1 DEF ByLead4
<1> QED
  BY <1>f, <1>g, Zenon

LEMMA Row4Is ==
  ASSUME IsInput(input), NEW p \in Nat, NEW q \in Nat, q = p + 4, q <= Len(input)
  PROVE  Character(p, q) <=> Grammar(mode)!Character(input, p, q)
<1>0. Len(input) \in Nat
  BY InputIsSeq, SkipAssumption
<1>1. PICK b \in 0..255 : b = Byte(p)
  <2>1. p \in Nat /\ p < Len(input)
    BY <1>0
  <2> QED
    BY <2>1, ByteHere
<1>2. PICK c \in 0..255 : c = Byte(p + 1)
  <2>1. p + 1 \in Nat /\ p + 1 < Len(input)
    BY <1>0
  <2> QED
    BY <2>1, ByteHere
<1>3. PICK d \in 0..255 : d = Byte(p + 2)
  <2>1. p + 2 \in Nat /\ p + 2 < Len(input)
    BY <1>0
  <2> QED
    BY <2>1, ByteHere
<1>4. PICK e \in 0..255 : e = Byte(p + 3)
  <2>1. p + 3 \in Nat /\ p + 3 < Len(input)
    BY <1>0
  <2> QED
    BY <2>1, ByteHere
<1>5. 4 = q - p /\ q > p + 1 /\ 4 \in 2..4 /\ 4 # 1
  OBVIOUS
<1>r. \A r : r \in (p + 2)..(q - 1) <=> r = p + 2 \/ r = p + 3
  OBVIOUS
<1>s. \A r : r \in (p + 1)..(q - 1) <=> r = p + 1 \/ r = p + 2 \/ r = p + 3
  OBVIOUS
<1>n. b \in Nat /\ c \in Nat /\ d \in Nat /\ e \in Nat
  OBVIOUS
<1>6. Character(p, q) <=> ByLead4(b, c, d, e)
  <2>1. Character(p, q) <=> b \in Leads(4) /\ c \in Seconds(b) /\ Continued(p, q)
    <3>1. Character(p, q) <=> /\ Byte(p) \in Leads(4) /\ Byte(p + 1) \in Seconds(Byte(p))
                              /\ Continued(p, q)
      BY <1>5, CharacterByLead
    <3> QED
      BY <1>1, <1>2, <3>1
  <2>2. b \in Leads(4) <=> 240 <= b /\ b <= 244
    BY <1>n, LeadsAre
  <2>3. 240 <= b /\ b <= 244 => (c \in Seconds(b) <=>
            (IF b = 240 THEN 144 ELSE 128) <= c /\ c <= (IF b = 244 THEN 143 ELSE 191))
    BY <1>n, SecondsAre
  <2>4. Continued(p, q) <=> 128 <= d /\ d <= 191 /\ 128 <= e /\ e <= 191
    <3>1. Continued(p, q) <=> Byte(p + 2) \in 128..191 /\ Byte(p + 3) \in 128..191
      BY <1>r, Zenon DEF Continued
    <3>2. (d \in 128..191 <=> 128 <= d /\ d <= 191) /\ (e \in 128..191 <=> 128 <= e /\ e <= 191)
      OBVIOUS
    <3> QED
      BY <1>3, <1>4, <3>1, <3>2, ZenonT(60)
  <2> QED
    BY <2>1, <2>2, <2>3, <2>4 DEF ByLead4
<1>7. Grammar(mode)!CodePoint(input, p, 4) = Code4(b, c, d, e)
  <2>1. 4 \in 2..4 /\ 7 - 4 = 3 /\ 2 ^ 3 = 8
    OBVIOUS
  <2> QED
    BY <1>1, <1>2, <1>3, <1>4, <2>1, CodePointIs DEF Code4
<1>8. Grammar(mode)!Character(input, p, q) <=> ByCode4(b, c, d, e)
  <2>1. Leading(Byte(p), 4) <=> b \div 8 = 30
    <3>1. Leading(b, 4) <=> b \div 8 = 30
      BY <1>n, LeadingIs
    <3> QED
      BY <1>1, <3>1
  <2>2. Marked(p, q) <=> c \div 64 = 2 /\ d \div 64 = 2 /\ e \div 64 = 2
    <3>1. Marked(p, q) <=> Byte(p + 1) \div 64 = 2 /\ Byte(p + 2) \div 64 = 2 /\
              Byte(p + 3) \div 64 = 2
      BY <1>s, Zenon DEF Marked
    <3> QED
      BY <1>2, <1>3, <1>4, <3>1
  <2>3. LeastOf(4) = 65536
    BY DEF LeastOf
  <2>4. Grammar(mode)!Character(input, p, q) <=>
          /\ Leading(Byte(p), 4)
          /\ Marked(p, q)
          /\ Grammar(mode)!CodePoint(input, p, 4) >= LeastOf(4)
          /\ Grammar(mode)!Scalar(Grammar(mode)!CodePoint(input, p, 4))
    BY <1>5, CharacterByCode
  <2> QED
    BY <1>7, <2>1, <2>2, <2>3, <2>4 DEF ByCode4
<1>9. ByLead4(b, c, d, e) <=> ByCode4(b, c, d, e)
  BY ByCode4Is, Zenon
<1> QED
  BY <1>6, <1>8, <1>9, Zenon

LEMMA CharacterIs ==
  ASSUME IsInput(input), NEW p \in Nat, NEW q \in {p + 1, p + 2, p + 3, p + 4},
         q <= Len(input)
  PROVE  Character(p, q) <=> Grammar(mode)!Character(input, p, q)
<1>1. q \in Nat
  OBVIOUS
<1> QED
  BY <1>1, PlainIs, PairIs, Row3Is, Row4Is

(* A text is taken by the ranges of its bytes, as core::str::from_utf8 takes  *)
(* it, exactly when it is a row of shortest encodings of code points that    *)
(* are no surrogates.                                                        *)
THEOREM TextIs ==
  ASSUME IsInput(input), NEW start \in Nat, NEW to \in Nat, start <= to, to <= Len(input)
  PROVE  TextAccepted(start, to)
           <=> (mode # "structural" => Grammar(mode)!Text(input, start, to))
<1> DEFINE byLead(f, p) ==
             \/ p = to
             \/ \E q \in {p + 1, p + 2, p + 3, p + 4} :
                  q <= to /\ Character(p, q) /\ f[q]
           byCode(f, p) ==
             p = to \/ \E q \in (p + 1)..to :
                         q - p <= 4 /\ Grammar(mode)!Character(input, p, q) /\ f[q]
           leads(f) == f = [p \in start..to |-> byLead(f, p)]
           codes(f) == f = [p \in start..to |-> byCode(f, p)]
<1>0. Len(input) \in Nat
  BY InputIsSeq, SkipAssumption
<1>1. ASSUME NEW f, NEW p \in start..to
      PROVE  byLead(f, p) <=> byCode(f, p)
  <2>0. p \in Nat /\ p <= Len(input)
    BY <1>0
  <2>1. ASSUME NEW q, q \in {p + 1, p + 2, p + 3, p + 4}, q <= to
        PROVE  q \in (p + 1)..to /\ q - p <= 4
               /\ (Character(p, q) <=> Grammar(mode)!Character(input, p, q))
    <3>1. q <= Len(input)
      BY <1>0, <2>0, <2>1
    <3>2. Character(p, q) <=> Grammar(mode)!Character(input, p, q)
      BY <2>0, <2>1, <3>1, CharacterIs
    <3> QED
      BY <2>0, <2>1, <3>2
  <2>2. ASSUME NEW q, q \in (p + 1)..to, q - p <= 4
        PROVE  q \in {p + 1, p + 2, p + 3, p + 4} /\ q <= to
    BY <2>0, <2>2
  <2> QED
    BY <2>1, <2>2, Zenon
<1>2. ASSUME NEW f PROVE leads(f) <=> codes(f)
  <2>1. ASSUME NEW p \in start..to PROVE byLead(f, p) = byCode(f, p)
    <3>1. byLead(f, p) <=> byCode(f, p)
      BY <1>1
    <3>2. byLead(f, p) \in BOOLEAN /\ byCode(f, p) \in BOOLEAN
      OBVIOUS
    <3> HIDE DEF byLead, byCode
    <3> QED
      BY <3>1, <3>2
  <2> HIDE DEF byLead, byCode
  <2>2. [p \in start..to |-> byLead(f, p)] = [p \in start..to |-> byCode(f, p)]
    BY <2>1
  <2> QED
    BY <2>2
<1> HIDE DEF leads, codes
<1>3. (CHOOSE f : leads(f)) = (CHOOSE f : codes(f))
  BY <1>2
<1>4. TextAccepted(start, to) <=> (mode = "structural" \/ (CHOOSE f : leads(f))[start])
  BY DEF TextAccepted, leads, byLead
<1>5. Grammar(mode)!Text(input, start, to) <=> (CHOOSE f : codes(f))[start]
  BY DEF Grammar!Text, codes, byCode
<1> HIDE DEF leads, codes
<1>6. PICK g : g = (CHOOSE f : leads(f))
  OBVIOUS
<1>7. TextAccepted(start, to) <=> (mode = "structural" \/ g[start])
  BY <1>4, <1>6
<1>8. Grammar(mode)!Text(input, start, to) <=> g[start]
  BY <1>3, <1>5, <1>6
<1> QED
  BY <1>7, <1>8

-----------------------------------------------------------------------------
(* Strings.                                                                 *)

(* A definite string that is read at p.                                     *)
RunRead(major, p) ==
  /\ HeadError(p) = NoError /\ Major(p) = major /\ Argument(p) # Indefinite
  /\ HeadEnd(p) + Argument(p) <= Len(input)
  /\ major = 3 => TextAccepted(HeadEnd(p), HeadEnd(p) + Argument(p))

LEMMA OpenIs ==
  ASSUME IsInput(input), NEW p \in Nat, HeadError(p) = NoError
  PROVE  /\ Info(p) = 31 <=> Argument(p) = Indefinite
         /\ Grammar(mode)!Open(input, p) <=> Argument(p) = Indefinite
         /\ Argument(p) # Indefinite => /\ Grammar(mode)!N(input, p) = Argument(p)
                                        /\ Argument(p) \in Nat
         /\ Grammar(mode)!End(input, p) = HeadEnd(p)
         /\ HeadEnd(p) \in Nat /\ p < HeadEnd(p) /\ HeadEnd(p) <= Len(input)
         /\ p < Len(input) /\ Len(input) \in Nat
<1>0. Len(input) \in Nat
  BY InputIsSeq, SkipAssumption
<1>1. p < Len(input) /\ HeadEnd(p) \in (p + 1)..Len(input)
  BY HeadRead
<1>2. HeadEnd(p) \in Nat /\ p < HeadEnd(p) /\ HeadEnd(p) <= Len(input)
  BY <1>0, <1>1
<1>3. /\ Info(p) # 31 => /\ Grammar(mode)!N(input, p) = Argument(p)
                         /\ Argument(p) \in Nat
      /\ Info(p) = 31 => Argument(p) = Indefinite
  BY <1>1, <1>2, ArgumentIs
<1>4. Indefinite \notin Nat
  BY DEF Indefinite
<1>5. Grammar(mode)!End(input, p) = HeadEnd(p)
  BY <1>1, ExtraIs
<1> QED
  BY <1>0, <1>1, <1>2, <1>3, <1>4, <1>5, SameBytes

LEMMA RunIs ==
  ASSUME IsInput(input), NEW major, NEW p \in Nat
  PROVE  Grammar(mode)!Run(input, major, p)
           = IF RunRead(major, p) THEN {HeadEnd(p) + Argument(p)} ELSE {}
<1>1. CASE HeadError(p) = NoError /\ Major(p) = major /\ Argument(p) # Indefinite
  <2> DEFINE start == HeadEnd(p)
             to == start + Argument(p)
  <2>1. /\ start \in Nat /\ to \in Nat /\ start <= to
        /\ Grammar(mode)!N(input, p) = Argument(p)
        /\ Grammar(mode)!End(input, p) = start
        /\ ~Grammar(mode)!Open(input, p)
    BY <1>1, OpenIs
  <2>2. Grammar(mode)!Whole(input, p) /\ Grammar(mode)!Major(input, p) = major
    BY <1>1, HeadIs, SameBytes
  <2>3. to <= Len(input) =>
          (TextAccepted(start, to)
             <=> (mode # "structural" => Grammar(mode)!Text(input, start, to)))
    BY <2>1, TextIs
  <2> HIDE DEF start, to
  <2>4. Grammar(mode)!Run(input, major, p)
          = {q \in {to} : /\ q <= Len(input)
                          /\ mode # "structural" /\ major = 3 =>
                               Grammar(mode)!Text(input, start, q)}
    BY <2>1, <2>2 DEF Grammar!Run, to, start
  <2>5. RunRead(major, p) <=> to <= Len(input) /\ (major = 3 => TextAccepted(start, to))
    BY <1>1 DEF RunRead, to, start
  <2>6. {q \in {to} : /\ q <= Len(input)
                      /\ mode # "structural" /\ major = 3 =>
                           Grammar(mode)!Text(input, start, q)}
          = IF to <= Len(input) /\ (major = 3 => TextAccepted(start, to)) THEN {to} ELSE {}
    BY <2>3
  <2> QED
    BY <2>4, <2>5, <2>6 DEF to, start
<1>2. CASE ~(HeadError(p) = NoError /\ Major(p) = major /\ Argument(p) # Indefinite)
  <2>1. ~RunRead(major, p)
    BY <1>2 DEF RunRead
  <2>2. ~(Grammar(mode)!Whole(input, p) /\ Grammar(mode)!Major(input, p) = major)
        \/ Grammar(mode)!Open(input, p)
    BY <1>2, HeadIs, SameBytes, OpenIs
  <2>3. Grammar(mode)!Run(input, major, p) = {}
    BY <2>2 DEF Grammar!Run
  <2> QED
    BY <2>1, <2>3
<1> QED
  BY <1>1, <1>2

LEMMA RunForward ==
  ASSUME IsInput(input), NEW major, NEW p \in Positions,
         NEW q \in Grammar(mode)!Run(input, major, p)
  PROVE  /\ q \in Positions /\ p < q
         /\ Grammar(mode)!N(input, p) \in Nat
         /\ Grammar(mode)!End(input, p) <= q
<1>0. Len(input) \in Nat /\ p \in Nat
  BY InputIsSeq, SkipAssumption DEF Positions
<1>1. RunRead(major, p) /\ q = HeadEnd(p) + Argument(p)
  BY <1>0, RunIs
<1>2. HeadError(p) = NoError /\ Argument(p) # Indefinite /\ q <= Len(input)
  BY <1>1 DEF RunRead
<1> QED
  BY <1>0, <1>1, <1>2, OpenIs DEF Positions

(* The chunks from an offset on, by the chunks from later ones.              *)
Joined(major, f, p) ==
  {<<q, 0>> : q \in Grammar(mode)!Stop(input, p)} \cup
  UNION {{<<c[1], c[2] + Grammar(mode)!N(input, p)>> : c \in f[q]} :
           q \in Grammar(mode)!Run(input, major, p)}

Joins(f, major, p) == f = [i \in p..Len(input) |-> Joined(major, f, i)]

LEMMA JoinedLater ==
  ASSUME IsInput(input), NEW major, NEW p \in Positions, NEW f, NEW g,
         \A q \in Positions : p < q => f[q] = g[q]
  PROVE  Joined(major, f, p) = Joined(major, g, p)
<1>1. \A q \in Grammar(mode)!Run(input, major, p) : f[q] = g[q]
  BY RunForward
<1>2. {{<<c[1], c[2] + Grammar(mode)!N(input, p)>> : c \in f[q]} :
           q \in Grammar(mode)!Run(input, major, p)}
        = {{<<c[1], c[2] + Grammar(mode)!N(input, p)>> : c \in g[q]} :
           q \in Grammar(mode)!Run(input, major, p)}
  BY <1>1
<1> QED
  BY <1>2 DEF Joined

LEMMA JoinsAgree ==
  ASSUME IsInput(input), NEW major, NEW p \in Positions, NEW r \in Positions,
         NEW f, NEW g, Joins(f, major, p), Joins(g, major, r)
  PROVE  \A i \in Positions : p <= i /\ r <= i => f[i] = g[i]
<1>0. Len(input) \in Nat
  BY InputIsSeq, SkipAssumption
<1> DEFINE L == Len(input)
           bad == {k \in Nat : k <= L /\ p <= L - k /\ r <= L - k /\ f[L - k] # g[L - k]}
<1>1. ASSUME bad # {}
      PROVE  FALSE
  <2>1. PICK m \in bad : \A k \in bad : m <= k
    BY <1>1, Least
  <2>2. PICK i \in Positions : i = L - m /\ p <= i /\ r <= i /\ f[i] # g[i]
    <3>1. m \in Nat /\ m <= L /\ p <= L - m /\ r <= L - m /\ f[L - m] # g[L - m]
      BY <2>1
    <3>2. L - m \in Positions
      BY <1>0, <3>1 DEF Positions
    <3> QED
      BY <3>1, <3>2
  <2>3. \A q \in Positions : i < q => f[q] = g[q]
    <3>1. ASSUME NEW q \in Positions, i < q, f[q] # g[q]
          PROVE  FALSE
      <4>1. L - q \in Nat /\ L - q <= L /\ L - (L - q) = q
        BY <1>0 DEF Positions
      <4>2. p <= q /\ r <= q
        BY <1>0, <2>2, <3>1 DEF Positions
      <4>3. L - q \in bad
        BY <3>1, <4>1, <4>2
      <4>4. m <= L - q
        BY <2>1, <4>3
      <4>5. m \in Nat
        BY <2>1
      <4> HIDE DEF bad
      <4> QED
        BY <1>0, <2>2, <3>1, <4>4, <4>5 DEF Positions
    <3> QED
      BY <3>1
  <2>4. i \in p..Len(input) /\ i \in r..Len(input)
    BY <1>0, <2>2 DEF Positions
  <2>5. f[i] = Joined(major, f, i) /\ g[i] = Joined(major, g, i)
    BY <2>4 DEF Joins
  <2>6. Joined(major, f, i) = Joined(major, g, i)
    BY <2>3, JoinedLater
  <2> QED
    BY <2>2, <2>5, <2>6
<1>2. ASSUME NEW i \in Positions, p <= i, r <= i
      PROVE  f[i] = g[i]
  <2>1. L - i \in Nat /\ L - i <= L /\ L - (L - i) = i
    BY <1>0 DEF Positions
  <2>2. L - i \notin bad
    BY <1>1
  <2> QED
    BY <1>2, <2>1, <2>2
<1> QED
  BY <1>2

LEMMA JoinsExists ==
  ASSUME IsInput(input), NEW major, NEW p \in Positions
  PROVE  \E f : Joins(f, major, p)
<1>0. Len(input) \in Nat
  BY InputIsSeq, SkipAssumption
<1> DEFINE L == Len(input)
           Good(k) == \E f : Joins(f, major, L - k)
           bad == {k \in Nat : k <= L /\ ~Good(k)}
<1> HIDE DEF Good
<1>1. ASSUME bad # {}
      PROVE  FALSE
  <2>1. PICK m \in bad : \A k \in bad : m <= k
    BY <1>1, Least
  <2>2. m \in Nat /\ m <= L /\ ~Good(m)
    BY <2>1
  <2>3. PICK i \in Positions : i = L - m
    <3>1. L - m \in Positions
      BY <1>0, <2>2 DEF Positions
    <3> QED
      BY <3>1
  <2>4. \E g : \A q \in Positions : i < q => g[q] = Joined(major, g, q)
    <3>1. CASE m = 0
      BY <1>0, <2>3, <3>1 DEF Positions
    <3>2. CASE m # 0
      <4>1. m - 1 \in Nat /\ m - 1 <= L /\ m - 1 \notin bad
        <5>1. m - 1 \notin bad
          <6> HIDE DEF bad
          <6> QED
            BY <2>1, <2>2
        <5> QED
          BY <1>0, <2>2, <3>2, <5>1
      <4>2. Good(m - 1)
        BY <4>1
      <4>3. L - (m - 1) = i + 1
        BY <1>0, <2>2, <2>3
      <4>4. PICK g : Joins(g, major, i + 1)
        BY <4>2, <4>3 DEF Good
      <4>5. ASSUME NEW q \in Positions, i < q
            PROVE  g[q] = Joined(major, g, q)
        <5>1. q \in (i + 1)..Len(input)
          BY <1>0, <4>5 DEF Positions
        <5> QED
          BY <4>4, <5>1 DEF Joins
      <4> QED
        BY <4>5
    <3> QED
      BY <3>1, <3>2
  <2>5. PICK g : \A q \in Positions : i < q => g[q] = Joined(major, g, q)
    BY <2>4
  <2> DEFINE v == Joined(major, g, i)
             f == [q \in i..L |-> IF q = i THEN v ELSE g[q]]
  <2>6. \A q \in Positions : i < q => f[q] = g[q]
    BY <1>0 DEF Positions
  <2>7. f[i] = v
    BY <1>0 DEF Positions
  <2>8. f = [q \in i..L |-> f[q]]
    OBVIOUS
  <2> HIDE DEF f, v
  <2>9. ASSUME NEW q \in i..L
        PROVE  f[q] = Joined(major, f, q)
    <3>1. q \in Positions /\ i <= q
      BY <1>0, <2>9 DEF Positions
    <3>2. \A r \in Positions : q < r => f[r] = g[r]
      BY <1>0, <2>6, <3>1 DEF Positions
    <3>3. Joined(major, f, q) = Joined(major, g, q)
      BY <3>1, <3>2, JoinedLater
    <3>4. CASE q = i
      BY <2>7, <3>3, <3>4 DEF v
    <3>5. CASE q # i
      <4>1. i < q
        BY <1>0, <3>1, <3>5 DEF Positions
      <4> QED
        BY <2>5, <2>6, <3>1, <3>3, <4>1
    <3> QED
      BY <3>4, <3>5
  <2>10. Joins(f, major, i)
    BY <2>8, <2>9 DEF Joins
  <2> QED
    BY <2>2, <2>3, <2>10 DEF Good
<1>2. L - p \in Nat /\ L - p <= L /\ L - (L - p) = p
  BY <1>0 DEF Positions
<1>3. Good(L - p)
  BY <1>1, <1>2
<1> QED
  BY <1>2, <1>3 DEF Good

LEMMA ChunksStep ==
  ASSUME IsInput(input), NEW major, NEW p \in Positions
  PROVE  Grammar(mode)!Chunks(input, major, p)
           = {<<q, 0>> : q \in Grammar(mode)!Stop(input, p)} \cup
             UNION {{<<c[1], c[2] + Grammar(mode)!N(input, p)>> :
                       c \in Grammar(mode)!Chunks(input, major, q)} :
                      q \in Grammar(mode)!Run(input, major, p)}
<1>0. Len(input) \in Nat
  BY InputIsSeq, SkipAssumption
<1> DEFINE chosen(r) == CHOOSE f : Joins(f, major, r)
<1>1. ASSUME NEW r \in Positions
      PROVE  Joins(chosen(r), major, r) /\ Grammar(mode)!Chunks(input, major, r) = chosen(r)[r]
  <2>1. Joins(chosen(r), major, r)
    BY JoinsExists
  <2>2. Grammar(mode)!Chunks(input, major, r) = chosen(r)[r]
    BY DEF Grammar!Chunks, Joins, Joined
  <2> QED
    BY <2>1, <2>2
<1> HIDE DEF chosen
<1>2. p \in p..Len(input)
  BY <1>0 DEF Positions
<1>3. chosen(p)[p] = Joined(major, chosen(p), p)
  <2>1. Joins(chosen(p), major, p)
    BY <1>1
  <2>2. PICK f : f = chosen(p)
    OBVIOUS
  <2> QED
    BY <1>2, <2>1, <2>2 DEF Joins
<1>4. ASSUME NEW q \in Grammar(mode)!Run(input, major, p)
      PROVE  chosen(p)[q] = Grammar(mode)!Chunks(input, major, q)
  <2>1. q \in Positions /\ p <= q /\ q <= q
    BY <1>0, RunForward DEF Positions
  <2>2. chosen(p)[q] = chosen(q)[q]
    BY <1>1, <2>1, JoinsAgree
  <2> QED
    BY <1>1, <2>1, <2>2
<1>5. Joined(major, chosen(p), p)
        = {<<q, 0>> : q \in Grammar(mode)!Stop(input, p)} \cup
          UNION {{<<c[1], c[2] + Grammar(mode)!N(input, p)>> :
                       c \in Grammar(mode)!Chunks(input, major, q)} :
                      q \in Grammar(mode)!Run(input, major, p)}
  BY <1>4 DEF Joined
<1> QED
  BY <1>1, <1>3, <1>5

LEMMA StopIs ==
  ASSUME IsInput(input), NEW p \in Positions
  PROVE  /\ Grammar(mode)!Stop(input, p)
              = IF p < Len(input) /\ Byte(p) = Break THEN {p + 1} ELSE {}
         /\ Grammar(mode)!Stop(input, p) \in SUBSET Positions
<1>0. Len(input) \in Nat
  BY InputIsSeq, SkipAssumption
<1>1. Grammar(mode)!Stop(input, p)
        = IF p < Len(input) /\ Byte(p) = Break THEN {p + 1} ELSE {}
  BY SameBytes DEF Grammar!Stop, Break
<1>2. p < Len(input) => p + 1 \in Positions
  BY <1>0 DEF Positions
<1> QED
  BY <1>1, <1>2

LEMMA ChunksTyped ==
  ASSUME IsInput(input), NEW major, NEW p \in Positions,
         NEW c \in Grammar(mode)!Chunks(input, major, p)
  PROVE  c = <<c[1], c[2]>> /\ c[1] \in Positions /\ p < c[1] /\ c[2] \in Nat
<1>0. Len(input) \in Nat
  BY InputIsSeq, SkipAssumption
<1> DEFINE L == Len(input)
           Fine(r, d) == d = <<d[1], d[2]>> /\ d[1] \in Positions /\ r < d[1] /\ d[2] \in Nat
           Good(r) == \A d \in Grammar(mode)!Chunks(input, major, r) : Fine(r, d)
           bad == {k \in Nat : k <= L /\ ~Good(L - k)}
<1> HIDE DEF Good
<1>1. ASSUME bad # {}
      PROVE  FALSE
  <2>1. PICK m \in bad : \A k \in bad : m <= k
    BY <1>1, Least
  <2>2. m \in Nat /\ m <= L /\ ~Good(L - m)
    BY <2>1
  <2>3. PICK i \in Positions : i = L - m
    <3>1. L - m \in Positions
      BY <1>0, <2>2 DEF Positions
    <3> QED
      BY <3>1
  <2>4. ASSUME NEW q \in Positions, i < q
        PROVE  Good(q)
    <3>1. L - q \in Nat /\ L - q <= L /\ L - (L - q) = q /\ ~(m <= L - q)
      BY <1>0, <2>2, <2>3, <2>4 DEF Positions
    <3>2. L - q \notin bad
      <4> HIDE DEF bad
      <4> QED
        BY <2>1, <3>1
    <3> QED
      BY <3>1, <3>2
  <2>5. ASSUME NEW d \in Grammar(mode)!Chunks(input, major, i)
        PROVE  Fine(i, d)
    <3>1. CASE \E q \in Grammar(mode)!Stop(input, i) : d = <<q, 0>>
      BY <1>0, <3>1, StopIs DEF Positions
    <3>2. CASE \E q \in Grammar(mode)!Run(input, major, i) :
                 \E e \in Grammar(mode)!Chunks(input, major, q) :
                   d = <<e[1], e[2] + Grammar(mode)!N(input, i)>>
      <4>1. PICK q \in Grammar(mode)!Run(input, major, i) :
                 \E e \in Grammar(mode)!Chunks(input, major, q) :
                   d = <<e[1], e[2] + Grammar(mode)!N(input, i)>>
        BY <3>2
      <4>2. PICK e \in Grammar(mode)!Chunks(input, major, q) :
                   d = <<e[1], e[2] + Grammar(mode)!N(input, i)>>
        BY <4>1
      <4>3. q \in Positions /\ i < q /\ Grammar(mode)!N(input, i) \in Nat
        BY RunForward
      <4>4. Fine(q, e)
        BY <2>4, <4>3 DEF Good
      <4> QED
        BY <1>0, <4>2, <4>3, <4>4 DEF Positions
    <3>3. \/ \E q \in Grammar(mode)!Stop(input, i) : d = <<q, 0>>
          \/ \E q \in Grammar(mode)!Run(input, major, i) :
                 \E e \in Grammar(mode)!Chunks(input, major, q) :
                   d = <<e[1], e[2] + Grammar(mode)!N(input, i)>>
      BY <2>5, ChunksStep
    <3> QED
      BY <3>1, <3>2, <3>3
  <2> QED
    BY <2>2, <2>3, <2>5 DEF Good
<1>2. L - p \in Nat /\ L - p <= L /\ L - (L - p) = p
  BY <1>0 DEF Positions
<1>3. Good(p)
  <2>1. L - p \notin bad
    BY <1>1
  <2> QED
    BY <1>2, <2>1
<1> QED
  BY <1>3 DEF Good

-----------------------------------------------------------------------------
(* Floats.                                                                  *)

LEMMA SameFloats ==
  /\ \A in : in[1] \in {249, 250, 251} =>
       Grammar(mode)!Data!ReadFloat(in) = Data!ReadFloat(in)
  /\ \A d : Grammar(mode)!Data!Preferred(d) = Data!Preferred(d)
<1>0. /\ Grammar(mode)!Data!None = Data!None
      /\ Grammar(mode)!Data!HalfNaN = Data!HalfNaN
  BY DEF Grammar!Data!None, Data!None, Grammar!Data!HalfNaN, Data!HalfNaN
<1>1. /\ \A s, e, f : Grammar(mode)!Data!Single(s, e, f) = Data!Single(s, e, f)
      /\ \A s, e, f, g : Grammar(mode)!Data!Double(s, e, f, g) = Data!Double(s, e, f, g)
  BY DEF Grammar!Data!Single, Data!Single, Grammar!Data!Double, Data!Double
<1>2. Grammar(mode)!Data!NotSingle = Data!NotSingle
  BY <1>0, <1>1 DEF Grammar!Data!NotSingle, Data!NotSingle
<1>3. ASSUME NEW d
      PROVE  /\ Grammar(mode)!Data!Narrowed(d) = Data!Narrowed(d)
             /\ Grammar(mode)!Data!IsNaN(d) <=> Data!IsNaN(d)
             /\ Grammar(mode)!Data!FloatDouble(d) = Data!FloatDouble(d)
  <2>1. Grammar(mode)!Data!Narrowed(d) = Data!Narrowed(d)
    BY <1>1, <1>2 DEF Grammar!Data!Narrowed, Data!Narrowed
  <2>2. Grammar(mode)!Data!IsNaN(d) <=> Data!IsNaN(d)
    BY DEF Grammar!Data!IsNaN, Data!IsNaN
  <2>3. Grammar(mode)!Data!FloatDouble(d) = Data!FloatDouble(d)
    BY DEF Grammar!Data!FloatDouble, Data!FloatDouble, Grammar!Data!DoubleBytes,
           Data!DoubleBytes
  <2> QED
    BY <2>1, <2>2, <2>3
<1>4. ASSUME NEW s
      PROVE  /\ Grammar(mode)!Data!ExactHalf(s) = Data!ExactHalf(s)
             /\ Grammar(mode)!Data!Widened(s) = Data!Widened(s)
             /\ Grammar(mode)!Data!FloatSingle(s) = Data!FloatSingle(s)
  <2>1. Grammar(mode)!Data!ExactHalf(s) = Data!ExactHalf(s)
    BY <1>0 DEF Grammar!Data!ExactHalf, Data!ExactHalf
  <2>2. Grammar(mode)!Data!Widened(s) = Data!Widened(s)
    BY <1>1 DEF Grammar!Data!Widened, Data!Widened
  <2>3. Grammar(mode)!Data!FloatSingle(s) = Data!FloatSingle(s)
    BY DEF Grammar!Data!FloatSingle, Data!FloatSingle, Grammar!Data!SingleBytes,
           Data!SingleBytes
  <2> QED
    BY <2>1, <2>2, <2>3
<1>5. ASSUME NEW h
      PROVE  /\ Grammar(mode)!Data!HalfToSingle(h) = Data!HalfToSingle(h)
             /\ Grammar(mode)!Data!FloatHalf(h) = Data!FloatHalf(h)
  <2>1. Grammar(mode)!Data!HalfToSingle(h) = Data!HalfToSingle(h)
    BY <1>1 DEF Grammar!Data!HalfToSingle, Data!HalfToSingle
  <2>2. Grammar(mode)!Data!FloatHalf(h) = Data!FloatHalf(h)
    BY DEF Grammar!Data!FloatHalf, Data!FloatHalf, Grammar!Data!HalfBytes, Data!HalfBytes
  <2> QED
    BY <2>1, <2>2
<1>6. ASSUME NEW in
      PROVE  /\ Grammar(mode)!Data!SingleOf(in) = Data!SingleOf(in)
             /\ Grammar(mode)!Data!DoubleOf(in) = Data!DoubleOf(in)
  BY <1>1 DEF Grammar!Data!SingleOf, Data!SingleOf, Grammar!Data!DoubleOf, Data!DoubleOf
<1>7. ASSUME NEW in, in[1] \in {249, 250, 251}
      PROVE  Grammar(mode)!Data!ReadFloat(in) = Data!ReadFloat(in)
  BY <1>4, <1>5, <1>6, <1>7 DEF Grammar!Data!ReadFloat, Data!ReadFloat
<1>8. ASSUME NEW d PROVE Grammar(mode)!Data!Preferred(d) = Data!Preferred(d)
  BY <1>0, <1>2, <1>3, <1>4, <1>5 DEF Grammar!Data!Preferred, Data!Preferred
<1> QED
  BY <1>7, <1>8

Octets == 0..255

LEMMA SameSequence ==
  ASSUME NEW S, NEW s \in Seq(S), NEW t \in Seq(S), Len(s) = Len(t),
         \A i \in 1..Len(s) : s[i] = t[i]
  PROVE  s = t
OBVIOUS

LEMMA Prefixed ==
  ASSUME NEW S, NEW a \in S, NEW s \in Seq(S), NEW t \in Seq(S), Len(t) = Len(s) + 1,
         t[1] = a, \A i \in 1..Len(s) : t[i + 1] = s[i]
  PROVE  <<a>> \o s = t
<1>1. /\ <<a>> \o s \in Seq(S) /\ Len(<<a>> \o s) = Len(s) + 1 /\ (<<a>> \o s)[1] = a
      /\ \A i \in 1..Len(s) : (<<a>> \o s)[i + 1] = s[i]
  OBVIOUS
<1>2. ASSUME NEW i \in 1..Len(t)
      PROVE  (<<a>> \o s)[i] = t[i]
  <2>1. CASE i = 1
    BY <1>1, <2>1
  <2>2. CASE i # 1
    <3>1. i - 1 \in 1..Len(s) /\ (i - 1) + 1 = i
      BY <2>2
    <3> QED
      BY <1>1, <3>1
  <2> QED
    BY <2>1, <2>2
<1> QED
  BY <1>1, <1>2, SameSequence

LEMMA Unprefixed ==
  ASSUME NEW S, NEW s \in Seq(S), NEW t \in Seq(S), Len(s) = Len(t) + 1,
         \A i \in 1..Len(t) : s[i + 1] = t[i]
  PROVE  SubSeq(s, 2, Len(t) + 1) = t
<1>1. /\ SubSeq(s, 2, Len(t) + 1) \in Seq(S)
      /\ Len(SubSeq(s, 2, Len(t) + 1)) = Len(t)
      /\ \A i \in 1..Len(t) : SubSeq(s, 2, Len(t) + 1)[i] = s[i + 1]
  OBVIOUS
<1> QED
  BY <1>1, SameSequence

(* Floats as tuples: what comes first and what follows.                     *)
LEMMA HalfTuple ==
  ASSUME NEW a, NEW x1, NEW x2
  PROVE  <<a>> \o <<x1, x2>> = <<a, x1, x2>>
<1> DEFINE S == {a, x1, x2}
           s == <<x1, x2>>
           t == <<a, x1, x2>>
<1>1. s \in Seq(S) /\ t \in Seq(S) /\ Len(t) = Len(s) + 1 /\ t[1] = a
  OBVIOUS
<1>2. \A i \in 1..Len(s) : t[i + 1] = s[i]
  OBVIOUS
<1> HIDE DEF S, s, t
<1>3. <<a>> \o s = t
  BY SMTT(30), <1>1, <1>2, Prefixed
<1> QED
  BY <1>3 DEF s, t

LEMMA SingleTuple ==
  ASSUME NEW a, NEW x1, NEW x2, NEW x3, NEW x4
  PROVE  <<a>> \o <<x1, x2, x3, x4>>
           = <<a, x1, x2, x3, x4>>
<1> DEFINE S == {a, x1, x2, x3, x4}
           s == <<x1, x2, x3, x4>>
           t == <<a, x1, x2, x3, x4>>
<1>1. /\ s \in Seq(S) /\ t \in Seq(S) /\ Len(t) = Len(s) + 1 /\ t[1] = a
      /\ Len(s) + 1 = 5
  OBVIOUS
<1>2. \A i \in 1..Len(s) : t[i + 1] = s[i]
  OBVIOUS
<1> HIDE DEF S, s, t
<1>3. <<a>> \o s = t
  BY SMTT(30), <1>1, <1>2, Prefixed
<1> QED
  BY <1>3 DEF s, t

LEMMA SingleRest ==
  ASSUME NEW a, NEW x1, NEW x2, NEW x3, NEW x4
  PROVE  SubSeq(<<a, x1, x2, x3, x4>>, 2, 5)
           = <<x1, x2, x3, x4>>
<1> DEFINE S == {a, x1, x2, x3, x4}
           s == <<x1, x2, x3, x4>>
           t == <<a, x1, x2, x3, x4>>
<1>1. /\ s \in Seq(S) /\ t \in Seq(S) /\ Len(t) = Len(s) + 1 /\ t[1] = a
      /\ Len(s) + 1 = 5
  OBVIOUS
<1>2. \A i \in 1..Len(s) : t[i + 1] = s[i]
  OBVIOUS
<1> HIDE DEF S, s, t
<1>4. SubSeq(t, 2, Len(s) + 1) = s
  BY <1>1, <1>2, Unprefixed
<1>5. SubSeq(t, 2, 5) = s
  BY <1>1, <1>4
<1> QED
  BY <1>5 DEF s, t

LEMMA DoubleTuple ==
  ASSUME NEW a, NEW x1, NEW x2, NEW x3, NEW x4, NEW x5, NEW x6, NEW x7, NEW x8
  PROVE  <<a>> \o <<x1, x2, x3, x4, x5, x6, x7, x8>>
           = <<a, x1, x2, x3, x4, x5, x6, x7, x8>>
<1> DEFINE S == {a, x1, x2, x3, x4, x5, x6, x7, x8}
           s == <<x1, x2, x3, x4, x5, x6, x7, x8>>
           t == <<a, x1, x2, x3, x4, x5, x6, x7, x8>>
<1>1. /\ s \in Seq(S) /\ t \in Seq(S) /\ Len(t) = Len(s) + 1 /\ t[1] = a
      /\ Len(s) + 1 = 9
  OBVIOUS
<1>2. \A i \in 1..Len(s) : t[i + 1] = s[i]
  OBVIOUS
<1> HIDE DEF S, s, t
<1>3. <<a>> \o s = t
  BY <1>1, <1>2, Prefixed
<1> QED
  BY <1>3 DEF s, t

LEMMA DoubleRest ==
  ASSUME NEW a, NEW x1, NEW x2, NEW x3, NEW x4, NEW x5, NEW x6, NEW x7, NEW x8
  PROVE  SubSeq(<<a, x1, x2, x3, x4, x5, x6, x7, x8>>, 2, 9)
           = <<x1, x2, x3, x4, x5, x6, x7, x8>>
<1> DEFINE S == {a, x1, x2, x3, x4, x5, x6, x7, x8}
           s == <<x1, x2, x3, x4, x5, x6, x7, x8>>
           t == <<a, x1, x2, x3, x4, x5, x6, x7, x8>>
<1>1. /\ s \in Seq(S) /\ t \in Seq(S) /\ Len(t) = Len(s) + 1 /\ t[1] = a
      /\ Len(s) + 1 = 9
  OBVIOUS
<1>2. \A i \in 1..Len(s) : t[i + 1] = s[i]
  OBVIOUS
<1> HIDE DEF S, s, t
<1>4. SubSeq(t, 2, Len(s) + 1) = s
  BY <1>1, <1>2, Unprefixed
<1>5. SubSeq(t, 2, 9) = s
  BY <1>1, <1>4
<1> QED
  BY <1>5 DEF s, t

(* A double holds the bytes it is read from.                                *)
LEMMA DoubleHolds ==
  ASSUME NEW b \in [1..8 -> Octets]
  PROVE  Data!DoubleBytes(Data!DoubleOf(b))
           = <<b[1], b[2], b[3], b[4], b[5], b[6], b[7], b[8]>>
<1>1. PICK b1 \in Octets, b2 \in Octets, b3 \in Octets, b4 \in Octets,
           b5 \in Octets, b6 \in Octets, b7 \in Octets, b8 \in Octets :
        /\ b1 = b[1] /\ b2 = b[2] /\ b3 = b[3] /\ b4 = b[4]
        /\ b5 = b[5] /\ b6 = b[6] /\ b7 = b[7] /\ b8 = b[8]
  OBVIOUS
<1> DEFINE s == b1 \div 128
           e == (b1 % 128) * 16 + b2 \div 16
           h == (b2 % 16) * 524288 + b3 * 2048 + b4 * 8 + b5 \div 32
           l == (b5 % 32) * 16777216 + b6 * 65536 + b7 * 256 + b8
<1>2. Data!DoubleOf(b) = [sign |-> s, exponent |-> e, high |-> h, low |-> l]
  BY <1>1 DEF Data!DoubleOf, Data!Double
<1>3. s * 128 + e \div 16 = b1
  BY DEF Octets
<1>4. (e % 16) * 16 + h \div 524288 = b2
  <2>1. e % 16 = b2 \div 16
    BY DEF Octets
  <2>2. h \div 524288 = b2 % 16
    BY DEF Octets
  <2> HIDE DEF e, h
  <2> QED
    BY <2>1, <2>2 DEF Octets
<1>5. (h \div 2048) % 256 = b3
  <2>1. h \div 2048 = (b2 % 16) * 256 + b3
    BY DEF Octets
  <2>2. ((b2 % 16) * 256 + b3) % 256 = b3
    BY DEF Octets
  <2> HIDE DEF h
  <2> QED
    BY <2>1, <2>2
<1>6. (h \div 8) % 256 = b4
  <2>1. h \div 8 = (b2 % 16) * 65536 + b3 * 256 + b4
    BY DEF Octets
  <2>2. ((b2 % 16) * 65536 + b3 * 256 + b4) % 256 = b4
    BY DEF Octets
  <2> HIDE DEF h
  <2> QED
    BY <2>1, <2>2
<1>7. (h % 8) * 32 + l \div 16777216 = b5
  <2>1. h % 8 = b5 \div 32
    BY DEF Octets
  <2>2. l \div 16777216 = b5 % 32
    BY DEF Octets
  <2> HIDE DEF l, h
  <2> QED
    BY <2>1, <2>2 DEF Octets
<1>8. (l \div 65536) % 256 = b6
  <2>1. l \div 65536 = (b5 % 32) * 256 + b6
    BY DEF Octets
  <2>2. ((b5 % 32) * 256 + b6) % 256 = b6
    BY DEF Octets
  <2> HIDE DEF l
  <2> QED
    BY <2>1, <2>2
<1>9. (l \div 256) % 256 = b7
  <2>1. l \div 256 = (b5 % 32) * 65536 + b6 * 256 + b7
    BY DEF Octets
  <2>2. ((b5 % 32) * 65536 + b6 * 256 + b7) % 256 = b7
    BY DEF Octets
  <2> HIDE DEF l
  <2> QED
    BY <2>1, <2>2
<1>10. l % 256 = b8
  BY DEF Octets
<1> HIDE DEF s, e, h, l
<1>11. Data!DoubleBytes([sign |-> s, exponent |-> e, high |-> h, low |-> l])
         = <<b1, b2, b3, b4, b5, b6, b7, b8>>
  BY <1>3, <1>4, <1>5, <1>6, <1>7, <1>8, <1>9, <1>10 DEF Data!DoubleBytes
<1> QED
  BY <1>1, <1>2, <1>11

Wellformed(s) ==
  /\ s = [sign |-> s.sign, exponent |-> s.exponent, fraction |-> s.fraction]
  /\ s.sign \in {0, 1} /\ s.exponent \in Octets
  /\ s.fraction \in Nat /\ s.fraction < 8388608

LEMMA SingleHolds ==
  ASSUME NEW b \in [1..4 -> Octets]
  PROVE  /\ Data!SingleBytes(Data!SingleOf(b)) = <<b[1], b[2], b[3], b[4]>>
         /\ Wellformed(Data!SingleOf(b))
<1>1. PICK b1 \in Octets, b2 \in Octets, b3 \in Octets, b4 \in Octets :
        b1 = b[1] /\ b2 = b[2] /\ b3 = b[3] /\ b4 = b[4]
  OBVIOUS
<1> DEFINE s == b1 \div 128
           e == (b1 % 128) * 2 + b2 \div 128
           f == (b2 % 128) * 65536 + b3 * 256 + b4
<1>2. Data!SingleOf(b) = [sign |-> s, exponent |-> e, fraction |-> f]
  BY <1>1 DEF Data!SingleOf, Data!Single
<1>3. s * 128 + e \div 2 = b1
  BY DEF Octets
<1>4. (e % 2) * 128 + f \div 65536 = b2
  <2>1. e % 2 = b2 \div 128
    BY DEF Octets
  <2>2. f \div 65536 = b2 % 128
    BY DEF Octets
  <2> HIDE DEF e, f
  <2> QED
    BY <2>1, <2>2 DEF Octets
<1>5. (f \div 256) % 256 = b3
  <2>1. f \div 256 = (b2 % 128) * 256 + b3
    BY DEF Octets
  <2>2. ((b2 % 128) * 256 + b3) % 256 = b3
    BY DEF Octets
  <2> HIDE DEF f
  <2> QED
    BY <2>1, <2>2
<1>6. f % 256 = b4
  BY DEF Octets
<1>7. s \in {0, 1} /\ e \in Octets /\ f \in Nat /\ f < 8388608
  BY SMTT(30) DEF Octets
<1> HIDE DEF s, e, f
<1>8. Data!SingleBytes([sign |-> s, exponent |-> e, fraction |-> f])
         = <<b1, b2, b3, b4>>
  BY <1>3, <1>4, <1>5, <1>6 DEF Data!SingleBytes
<1>9. Wellformed([sign |-> s, exponent |-> e, fraction |-> f])
  BY <1>7 DEF Wellformed
<1> QED
  BY <1>1, <1>2, <1>8, <1>9

LEMMA Powers ==
  /\ 2 ^ 0 = 1 /\ 2 ^ 1 = 2 /\ 2 ^ 2 = 4 /\ 2 ^ 3 = 8 /\ 2 ^ 4 = 16 /\ 2 ^ 5 = 32
  /\ 2 ^ 6 = 64 /\ 2 ^ 7 = 128 /\ 2 ^ 8 = 256 /\ 2 ^ 9 = 512 /\ 2 ^ 10 = 1024
  /\ 2 ^ 11 = 2048 /\ 2 ^ 12 = 4096 /\ 2 ^ 13 = 8192 /\ 2 ^ 14 = 16384
  /\ 2 ^ 15 = 32768 /\ 2 ^ 16 = 65536 /\ 2 ^ 17 = 131072 /\ 2 ^ 18 = 262144
  /\ 2 ^ 19 = 524288 /\ 2 ^ 20 = 1048576 /\ 2 ^ 21 = 2097152 /\ 2 ^ 22 = 4194304
  /\ 2 ^ 23 = 8388608
OBVIOUS

Power(k) == 2 ^ k

LEMMA PowerOf ==
  ASSUME NEW k \in 0..22
  PROVE  /\ Power(k) \in Nat /\ Power(k) > 0 /\ Power(k + 1) = 2 * Power(k)
         /\ Power(23 - k) \in Nat /\ Power(23 - k) > 0
         /\ Power(k) * Power(23 - k) = 8388608
<1>0. CASE k = 0
  BY <1>0, Powers, 0 + 1 = 1, 23 - 0 = 23 DEF Power
<1>1. CASE k = 1
  BY <1>1, Powers, 1 + 1 = 2, 23 - 1 = 22 DEF Power
<1>2. CASE k = 2
  BY <1>2, Powers, 2 + 1 = 3, 23 - 2 = 21 DEF Power
<1>3. CASE k = 3
  BY <1>3, Powers, 3 + 1 = 4, 23 - 3 = 20 DEF Power
<1>4. CASE k = 4
  BY <1>4, Powers, 4 + 1 = 5, 23 - 4 = 19 DEF Power
<1>5. CASE k = 5
  BY <1>5, Powers, 5 + 1 = 6, 23 - 5 = 18 DEF Power
<1>6. CASE k = 6
  BY <1>6, Powers, 6 + 1 = 7, 23 - 6 = 17 DEF Power
<1>7. CASE k = 7
  BY <1>7, Powers, 7 + 1 = 8, 23 - 7 = 16 DEF Power
<1>8. CASE k = 8
  BY <1>8, Powers, 8 + 1 = 9, 23 - 8 = 15 DEF Power
<1>9. CASE k = 9
  BY <1>9, Powers, 9 + 1 = 10, 23 - 9 = 14 DEF Power
<1>10. CASE k = 10
  BY <1>10, Powers, 10 + 1 = 11, 23 - 10 = 13 DEF Power
<1>11. CASE k = 11
  BY <1>11, Powers, 11 + 1 = 12, 23 - 11 = 12 DEF Power
<1>12. CASE k = 12
  BY <1>12, Powers, 12 + 1 = 13, 23 - 12 = 11 DEF Power
<1>13. CASE k = 13
  BY <1>13, Powers, 13 + 1 = 14, 23 - 13 = 10 DEF Power
<1>14. CASE k = 14
  BY <1>14, Powers, 14 + 1 = 15, 23 - 14 = 9 DEF Power
<1>15. CASE k = 15
  BY <1>15, Powers, 15 + 1 = 16, 23 - 15 = 8 DEF Power
<1>16. CASE k = 16
  BY <1>16, Powers, 16 + 1 = 17, 23 - 16 = 7 DEF Power
<1>17. CASE k = 17
  BY <1>17, Powers, 17 + 1 = 18, 23 - 17 = 6 DEF Power
<1>18. CASE k = 18
  BY <1>18, Powers, 18 + 1 = 19, 23 - 18 = 5 DEF Power
<1>19. CASE k = 19
  BY <1>19, Powers, 19 + 1 = 20, 23 - 19 = 4 DEF Power
<1>20. CASE k = 20
  BY <1>20, Powers, 20 + 1 = 21, 23 - 20 = 3 DEF Power
<1>21. CASE k = 21
  BY <1>21, Powers, 21 + 1 = 22, 23 - 21 = 2 DEF Power
<1>22. CASE k = 22
  BY <1>22, Powers, 22 + 1 = 23, 23 - 22 = 1 DEF Power
<1> QED
  BY <1>0, <1>1, <1>2, <1>3, <1>4, <1>5, <1>6, <1>7, <1>8, <1>9, <1>10, <1>11,
      <1>12, <1>13, <1>14, <1>15, <1>16, <1>17, <1>18, <1>19, <1>20, <1>21, <1>22

LEMMA Division ==
  ASSUME NEW c \in Nat, c > 0, NEW n \in Nat
  PROVE  /\ n = c * (n \div c) + (n % c)
         /\ n % c \in Nat /\ n % c < c /\ n \div c \in Nat
OBVIOUS

(* The quotient is what fits.                                               *)
LEMMA Divided ==
  ASSUME NEW c \in Nat, NEW n \in Nat, NEW r \in Nat, r < c
  PROVE  /\ (n * c + r) \div c = n
         /\ (n * c + r) % c = r
<1>0. PICK m \in Nat : m = n * c + r
  <2>1. n * c + r \in Nat
    OBVIOUS
  <2> QED
    BY <2>1
<1>1. PICK q \in Nat, s \in Nat : q = m \div c /\ s = m % c /\ m = c * q + s /\ s < c
  BY Division
<1>2. s - r = c * (n - q)
  BY <1>0, <1>1
<1>3. ~(n - q >= 1) /\ ~(n - q <= -1)
  <2>1. n - q >= 1 => c * (n - q) >= c
    OBVIOUS
  <2>2. n - q <= -1 => c * (n - q) <= -c
    OBVIOUS
  <2> QED
    BY <1>1, <1>2, <2>1, <2>2
<1>4. q = n /\ s = r
  BY <1>1, <1>2, <1>3
<1> QED
  BY <1>0, <1>1, <1>4

LEMMA PowerZero == Power(0) = 1
BY Powers DEF Power

(* The highest bit of a fraction.                                           *)
LEMMA TopBit ==
  ASSUME NEW f \in Nat, NEW n \in 0..22, f > 0, f < Power(n + 1)
  PROVE  \E k \in 0..n : f \div Power(k) = 1
<1> DEFINE T == {k \in Nat : k <= n /\ f < Power(k + 1)}
<1>1. n \in T
  OBVIOUS
<1>2. T \subseteq Nat /\ T # {} /\ \A k \in T : k <= n /\ f < Power(k + 1)
  BY <1>1
<1>a. \A k \in Nat : k <= n /\ f < Power(k + 1) => k \in T
  OBVIOUS
<1> HIDE DEF T
<1>b. PICK m \in T : \A k \in T : m <= k
  BY <1>2, Least
<1>3. m \in 0..n /\ m \in 0..22 /\ f < Power(m + 1)
  BY <1>2, <1>b
<1>4. PICK a \in Nat : a = Power(m) /\ f < 2 * a
  <2>1. m \in 0..22
    BY <1>3
  <2>2. Power(m) \in Nat /\ Power(m + 1) = 2 * Power(m)
    BY <2>1, PowerOf
  <2> QED
    BY <1>3, <2>2
<1>5. a <= f
  <2>1. CASE m = 0
    BY <1>4, <2>1, PowerZero
  <2>2. CASE m # 0
    <3>1. m - 1 \in Nat /\ m - 1 <= n /\ (m - 1) + 1 = m
      BY <1>3, <2>2
    <3>2. m - 1 \notin T
      BY <1>b, <1>3, <3>1
    <3> QED
      BY <1>a, <1>4, <3>1, <3>2
  <2> QED
    BY <2>1, <2>2
<1>6. f \div a = 1
  <2>1. f - a \in Nat /\ f - a < a /\ f = 1 * a + (f - a)
    BY <1>4, <1>5
  <2> QED
    BY <2>1, Divided
<1> QED
  BY <1>3, <1>4, <1>6

(* Shifted up, the bits under it make a fraction that is shifted back.       *)
(* The bit a decoder chooses for a fraction.                                *)
LEMMA ChosenBit ==
  ASSUME NEW f \in Nat, NEW n \in 0..22, f > 0, f < Power(n + 1),
         NEW k, k = CHOOSE i \in 0..n : f \div (2 ^ i) = 1
  PROVE  k \in 0..n /\ f \div Power(k) = 1
<1>1. \E i \in 0..n : f \div Power(i) = 1
  BY TopBit
<1>2. k = CHOOSE i \in 0..n : f \div Power(i) = 1
  BY DEF Power
<1> QED
  BY <1>1, <1>2, Zenon

LEMMA ShiftedBack ==
  ASSUME NEW f \in Nat, NEW k \in 0..22, f \div Power(k) = 1,
         NEW high, high = (f - Power(k)) * Power(23 - k)
  PROVE  /\ high \in Nat /\ high < 8388608
         /\ (8388608 + high) % Power(23 - k) = 0
         /\ (8388608 + high) \div Power(23 - k) = f
<1>1. PICK a \in Nat, c \in Nat :
        a = Power(k) /\ c = Power(23 - k) /\ a > 0 /\ c > 0 /\ a * c = 8388608
  <2>1. /\ Power(k) \in Nat /\ Power(k) > 0
        /\ Power(23 - k) \in Nat /\ Power(23 - k) > 0
        /\ Power(k) * Power(23 - k) = 8388608
    BY PowerOf
  <2> QED
    BY <2>1
<1>2. a <= f /\ f < 2 * a
  <2>0. a > 0
    BY <1>1
  <2>1. f = a * (f \div a) + (f % a) /\ f % a \in Nat /\ f % a < a
    BY <2>0, Division
  <2>2. f \div a = 1
    BY <1>1
  <2> QED
    BY <2>1, <2>2
<1>3. high = (f - a) * c /\ f - a \in Nat /\ f - a < a
  BY <1>1, <1>2
<1>4. high \in Nat /\ high < 8388608
  BY <1>1, <1>3
<1>5. 8388608 + high = f * c + 0
  BY <1>1, <1>3
<1>6. (f * c + 0) \div c = f /\ (f * c + 0) % c = 0
  <2>1. 0 \in Nat /\ 0 < c
    BY <1>1
  <2> QED
    BY <2>1, Divided
<1> QED
  BY <1>1, <1>4, <1>5, <1>6

LEMMA WidenedIs ==
  ASSUME NEW s, Wellformed(s)
  PROVE  /\ Data!IsNaN(Data!Widened(s)) <=> s.exponent = 255 /\ s.fraction # 0
         /\ ~Data!IsNaN(Data!Widened(s)) => Data!Narrowed(Data!Widened(s)) = s
<1> DEFINE d == Data!Widened(s)
           double(e, h) == [sign |-> s.sign, exponent |-> e, high |-> h, low |-> 0]
<1>0. /\ s = [sign |-> s.sign, exponent |-> s.exponent, fraction |-> s.fraction]
      /\ s.exponent \in Nat /\ s.exponent <= 255
      /\ s.fraction \in Nat /\ s.fraction < 8388608
  BY DEF Wellformed, Octets
<1>1. CASE s.exponent = 255
  <2>1. d = double(2047, s.fraction)
    BY <1>1 DEF Data!Widened, Data!Double
  <2>2. Data!IsNaN(d) <=> s.fraction # 0
    BY <2>1 DEF Data!IsNaN
  <2>3. s.fraction = 0 => Data!Narrowed(d) = s
    BY <1>0, <1>1, <2>1 DEF Data!Narrowed, Data!Single
  <2> QED
    BY <1>1, <2>2, <2>3
<1>2. CASE s.exponent # 255 /\ s.exponent > 0
  <2>1. d = double(s.exponent + 896, s.fraction)
    BY <1>2 DEF Data!Widened, Data!Double
  <2>2. ~Data!IsNaN(d)
    BY <1>0, <1>2, <2>1 DEF Data!IsNaN
  <2>3. Data!Narrowed(d) = [sign |-> s.sign, exponent |-> (s.exponent + 896) - 896,
                            fraction |-> s.fraction]
    <3>1. s.exponent + 896 \in 897..1150 /\ s.exponent + 896 # 2047
      BY <1>0, <1>2
    <3> QED
      BY SMTT(30), <2>1, <3>1 DEF Data!Narrowed, Data!Single
  <2>4. (s.exponent + 896) - 896 = s.exponent
    BY <1>0
  <2> QED
    BY <1>0, <1>2, <2>2, <2>3, <2>4
<1>3. CASE s.exponent = 0 /\ s.fraction = 0
  <2>1. d = double(0, 0)
    BY <1>3 DEF Data!Widened, Data!Double
  <2>2. ~Data!IsNaN(d)
    BY <2>1 DEF Data!IsNaN
  <2>3. Data!Narrowed(d) = [sign |-> s.sign, exponent |-> 0, fraction |-> 0]
    BY <2>1 DEF Data!Narrowed, Data!Single
  <2> QED
    BY <1>0, <1>3, <2>2, <2>3
<1>4. CASE s.exponent = 0 /\ s.fraction # 0
  <2> DEFINE k == CHOOSE k \in 0..22 : s.fraction \div (2 ^ k) = 1
  <2>1. d = double(874 + k, (s.fraction - 2 ^ k) * 2 ^ (23 - k))
    BY <1>4 DEF Data!Widened, Data!Double
  <2>2. k \in 0..22 /\ s.fraction \div Power(k) = 1
    <3>1. 22 \in 0..22 /\ s.fraction > 0 /\ s.fraction < Power(22 + 1)
      BY <1>0, <1>4, Powers DEF Power
    <3>2. k = CHOOSE i \in 0..22 : s.fraction \div (2 ^ i) = 1
      OBVIOUS
    <3> HIDE DEF k
    <3>3. s.fraction \in Nat
      BY <1>0
    <3> QED
      BY <3>1, <3>2, <3>3, ChosenBit
  <2> HIDE DEF k
  <2>3. PICK high : high = (s.fraction - 2 ^ k) * 2 ^ (23 - k)
    OBVIOUS
  <2>4. /\ (8388608 + high) % 2 ^ (23 - k) = 0
        /\ (8388608 + high) \div 2 ^ (23 - k) = s.fraction
    <3>1. /\ s.fraction \div Power(k) = 1
          /\ high = (s.fraction - Power(k)) * Power(23 - k)
      BY <2>2, <2>3 DEF Power
    <3>2. /\ (8388608 + high) % Power(23 - k) = 0
          /\ (8388608 + high) \div Power(23 - k) = s.fraction
      BY <1>0, <2>2, <3>1, ShiftedBack
    <3> QED
      BY <3>2 DEF Power
  <2>5. d = double(874 + k, high)
    BY <2>1, <2>3
  <2>6. 874 + k \in 874..896 /\ 897 - (874 + k) = 23 - k /\ 874 + k # 2047
    BY <2>2
  <2>7. ~Data!IsNaN(d)
    BY <2>5, <2>6 DEF Data!IsNaN
  <2>8. Data!Narrowed(d) = [sign |-> s.sign, exponent |-> 0, fraction |-> s.fraction]
    BY <2>4, <2>5, <2>6 DEF Data!Narrowed, Data!Single
  <2> QED
    BY <1>0, <1>4, <2>7, <2>8
<1> QED
  BY <1>0, <1>1, <1>2, <1>3, <1>4

LEMMA HalfPower ==
  ASSUME NEW k \in 0..9
  PROVE  /\ Power(k) \in Nat /\ Power(k) > 0
         /\ Power(10 - k) \in Nat /\ Power(10 - k) > 0
         /\ Power(k) * Power(10 - k) = 1024
         /\ Power(23 - k) = Power(10 - k) * 8192
<1>0. CASE k = 0
  BY <1>0, Powers, 10 - 0 = 10, 23 - 0 = 23 DEF Power
<1>1. CASE k = 1
  BY <1>1, Powers, 10 - 1 = 9, 23 - 1 = 22 DEF Power
<1>2. CASE k = 2
  BY <1>2, Powers, 10 - 2 = 8, 23 - 2 = 21 DEF Power
<1>3. CASE k = 3
  BY <1>3, Powers, 10 - 3 = 7, 23 - 3 = 20 DEF Power
<1>4. CASE k = 4
  BY <1>4, Powers, 10 - 4 = 6, 23 - 4 = 19 DEF Power
<1>5. CASE k = 5
  BY <1>5, Powers, 10 - 5 = 5, 23 - 5 = 18 DEF Power
<1>6. CASE k = 6
  BY <1>6, Powers, 10 - 6 = 4, 23 - 6 = 17 DEF Power
<1>7. CASE k = 7
  BY <1>7, Powers, 10 - 7 = 3, 23 - 7 = 16 DEF Power
<1>8. CASE k = 8
  BY <1>8, Powers, 10 - 8 = 2, 23 - 8 = 15 DEF Power
<1>9. CASE k = 9
  BY <1>9, Powers, 10 - 9 = 1, 23 - 9 = 14 DEF Power
<1> QED
  BY <1>0, <1>1, <1>2, <1>3, <1>4, <1>5, <1>6, <1>7, <1>8, <1>9

LEMMA SubnormalHalf ==
  ASSUME NEW f \in Nat, NEW k \in 0..9, f \div Power(k) = 1
  PROVE  ((f * Power(10 - k)) % 1024) * 8192 = (f - Power(k)) * Power(23 - k)
<1>1. PICK a \in Nat, c \in Nat :
        /\ a = Power(k) /\ c = Power(10 - k) /\ a > 0 /\ c > 0 /\ a * c = 1024
        /\ Power(23 - k) = c * 8192
  <2>1. /\ Power(k) \in Nat /\ Power(k) > 0
        /\ Power(10 - k) \in Nat /\ Power(10 - k) > 0
        /\ Power(k) * Power(10 - k) = 1024
        /\ Power(23 - k) = Power(10 - k) * 8192
    BY HalfPower
  <2> QED
    BY <2>1
<1>2. PICK r \in Nat : r < a /\ f = a + r
  <2>0. a > 0
    BY <1>1
  <2>1. f = a * (f \div a) + (f % a) /\ f % a \in Nat /\ f % a < a
    BY <2>0, Division
  <2>2. f \div a = 1
    BY <1>1
  <2> QED
    BY <2>1, <2>2
<1>3. PICK x \in Nat : x = r * c /\ x < 1024
  <2>1. r * c \in Nat /\ r * c < a * c
    BY <1>1, <1>2
  <2> QED
    BY <1>1, <2>1
<1>4. f * c = 1024 + x
  BY <1>1, <1>2, <1>3
<1>5. (f * c) % 1024 = x
  BY <1>3, <1>4
<1>6. (f - a) * (c * 8192) = x * 8192
  <2>1. f - a = r
    BY <1>2
  <2> QED
    BY <1>3, <2>1
<1> QED
  BY <1>1, <1>5, <1>6

SixteenBits(h) == h < 65536

LEMMA HalfIs ==
  ASSUME NEW h \in Nat, SixteenBits(h)
  PROVE  LET s == Data!HalfToSingle(h)
         IN  /\ Wellformed(s)
             /\ ~(s.exponent = 255 /\ s.fraction # 0) => Data!ExactHalf(s) = h
<1> DEFINE sign == h \div 32768
           e == (h \div 1024) % 32
           f == h % 1024
           s == Data!HalfToSingle(h)
           single(x, g) == [sign |-> sign, exponent |-> x, fraction |-> g]
<1>0. /\ sign \in {0, 1} /\ e \in Nat /\ e <= 31 /\ f \in Nat /\ f < 1024
      /\ h = sign * 32768 + e * 1024 + f
  BY DEF SixteenBits
<1>s. /\ e = 0 /\ f = 0 => s = single(0, 0)
      /\ e = 31 => s = single(255, f * 8192)
      /\ e # 0 /\ e # 31 => s = single(e + 112, f * 8192)
  BY DEF Data!HalfToSingle, Data!Single
<1>t. e = 0 /\ f # 0 =>
        LET top == CHOOSE k \in 0..9 : f \div (2 ^ k) = 1
            shift == 10 - top
        IN  s = single(113 - shift, ((f * 2 ^ shift) % 1024) * 8192)
  BY DEF Data!HalfToSingle, Data!Single
<1> HIDE DEF sign, e, f, s
<1>1. CASE e = 0 /\ f = 0
  <2>1. s = single(0, 0)
    BY <1>1, <1>s
  <2>2. Wellformed(s)
    BY <1>0, <2>1 DEF Wellformed, Octets
  <2>3. Data!ExactHalf(s) = sign * 32768
    BY <2>1 DEF Data!ExactHalf
  <2> QED
    BY <1>0, <1>1, <2>2, <2>3 DEF s
<1>2. CASE e = 31
  <2>1. s = single(255, f * 8192)
    BY <1>2, <1>s
  <2>2. Wellformed(s)
    BY <1>0, <2>1 DEF Wellformed, Octets
  <2>3. f = 0 => Data!ExactHalf(s) = sign * 32768 + 31744
    BY <2>1 DEF Data!ExactHalf
  <2>4. s.exponent = 255 /\ s.fraction = f * 8192
    BY <2>1
  <2> QED
    BY <1>0, <1>2, <2>2, <2>3, <2>4 DEF s
<1>3. CASE e # 0 /\ e # 31
  <2>1. s = single(e + 112, f * 8192)
    BY <1>3, <1>s
  <2>2. Wellformed(s)
    BY <1>0, <1>3, <2>1 DEF Wellformed, Octets
  <2>3. Data!ExactHalf(s) = sign * 32768 + e * 1024 + f
    <3>1. (f * 8192) % 8192 = 0 /\ (f * 8192) \div 8192 = f
      BY <1>0
    <3>2. e + 112 - 127 + 15 = e /\ e \in 1..30 /\ e + 112 # 255 /\ e + 112 # 0
          /\ e \notin -10..0
      BY <1>0, <1>3
    <3> QED
      BY <2>1, <3>1, <3>2 DEF Data!ExactHalf
  <2> QED
    BY <1>0, <2>2, <2>3 DEF s
<1>4. CASE e = 0 /\ f # 0
  <2> DEFINE k == CHOOSE k \in 0..9 : f \div (2 ^ k) = 1
  <2>1. s = single(113 - (10 - k), ((f * 2 ^ (10 - k)) % 1024) * 8192)
    BY <1>4, <1>t
  <2>2. k \in 0..9 /\ f \div Power(k) = 1
    <3>1. 9 \in 0..22 /\ f > 0 /\ f < Power(9 + 1)
      BY <1>0, <1>4, Powers DEF Power
    <3>2. k = CHOOSE i \in 0..9 : f \div (2 ^ i) = 1
      OBVIOUS
    <3> HIDE DEF k
    <3>3. f \in Nat
      BY <1>0
    <3>4. PICK g \in Nat : g = f
      BY <3>3, Zenon
    <3>5. g > 0 /\ g < Power(9 + 1) /\ k = CHOOSE i \in 0..9 : g \div (2 ^ i) = 1
      BY <3>1, <3>2, <3>4, Zenon
    <3>6. k \in 0..9 /\ g \div Power(k) = 1
      BY <3>1, <3>5, ChosenBit
    <3> QED
      BY <3>4, <3>6, Zenon
  <2> HIDE DEF k
  <2>3. PICK g : g = (f - Power(k)) * Power(23 - k)
    OBVIOUS
  <2>4. f \div Power(k) = 1 /\ g = (f - Power(k)) * Power(23 - k) /\ k \in 0..22
    BY <2>2, <2>3
  <2>5. /\ g \in Nat /\ g < 8388608
        /\ (8388608 + g) % Power(23 - k) = 0
        /\ (8388608 + g) \div Power(23 - k) = f
    BY <1>0, <2>4, ShiftedBack
  <2>6. ((f * Power(10 - k)) % 1024) * 8192 = g
    BY <1>0, <2>2, <2>4, SubnormalHalf
  <2>7. s = single(103 + k, g)
    <3>1. 113 - (10 - k) = 103 + k
      BY <2>2
    <3>2. Power(10 - k) = 2 ^ (10 - k)
      BY DEF Power
    <3> QED
      BY <2>1, <2>6, <3>1, <3>2
  <2>8. Wellformed(s)
    BY <1>0, <2>2, <2>5, <2>7 DEF Wellformed, Octets
  <2>9. Data!ExactHalf(s) = sign * 32768 + f
    <3>1. /\ 103 + k - 127 + 15 = k - 9 /\ k - 9 \in -10..0 /\ 14 - (k - 9) = 23 - k
          /\ 103 + k # 255 /\ 103 + k # 0
      BY <2>2
    <3>2. /\ (8388608 + g) % 2 ^ (23 - k) = 0
          /\ (8388608 + g) \div 2 ^ (23 - k) = f
      BY <2>5 DEF Power
    <3> QED
      BY <2>7, <3>1, <3>2 DEF Data!ExactHalf
  <2> QED
    BY <1>0, <1>4, <2>8, <2>9 DEF s
<1> QED
  BY <1>1, <1>2, <1>3, <1>4

(* A float is preferred exactly when the deterministic validation takes it.  *)
LEMMA DoublePreferred ==
  ASSUME NEW b \in [1..8 -> Octets]
  PROVE  LET d == Data!DoubleOf(b)
         IN  Data!Preferred(d) = <<251, b[1], b[2], b[3], b[4], b[5], b[6], b[7], b[8]>>
               <=> ~Data!IsNaN(d) /\ Data!Narrowed(d) = Data!NotSingle
<1> DEFINE d == Data!DoubleOf(b)
           word == <<251, b[1], b[2], b[3], b[4], b[5], b[6], b[7], b[8]>>
<1>1. Data!FloatDouble(d) = word
  <2>2. <<251>> \o <<b[1], b[2], b[3], b[4], b[5], b[6], b[7], b[8]>> = word
    BY DoubleTuple
  <2>3. Data!DoubleBytes(d) = <<b[1], b[2], b[3], b[4], b[5], b[6], b[7], b[8]>>
    BY DoubleHolds
  <2> HIDE DEF d, word
  <2> QED
    BY <2>2, <2>3 DEF Data!FloatDouble
<1>2. \A h : Data!FloatHalf(h) # word
  BY DEF Data!FloatHalf, Data!HalfBytes
<1>3. \A s : Data!FloatSingle(s) # word
  BY DEF Data!FloatSingle, Data!SingleBytes
<1> HIDE DEF d, word
<1>4. Data!Preferred(d) = word <=> ~Data!IsNaN(d) /\ Data!Narrowed(d) = Data!NotSingle
  BY <1>1, <1>2, <1>3 DEF Data!Preferred
<1> QED
  BY <1>4 DEF d, word

LEMMA SinglePreferred ==
  ASSUME NEW b \in [1..4 -> Octets]
  PROVE  LET s == Data!SingleOf(b)
         IN  Data!Preferred(Data!Widened(s)) = <<250, b[1], b[2], b[3], b[4]>>
               <=> Data!ExactHalf(s) = Data!None
<1> DEFINE s == Data!SingleOf(b)
           d == Data!Widened(s)
           word == <<250, b[1], b[2], b[3], b[4]>>
<1>1. Data!FloatSingle(s) = word /\ Wellformed(s)
  <2>2. <<250>> \o <<b[1], b[2], b[3], b[4]>> = word
    BY SingleTuple
  <2>3. Data!SingleBytes(s) = <<b[1], b[2], b[3], b[4]>> /\ Wellformed(s)
    BY SingleHolds
  <2> HIDE DEF s, word
  <2> QED
    BY <2>2, <2>3 DEF Data!FloatSingle
<1>2. \A h : Data!FloatHalf(h) # word
  BY DEF Data!FloatHalf, Data!HalfBytes
<1> HIDE DEF s, word
<1>3. /\ Data!IsNaN(d) <=> s.exponent = 255 /\ s.fraction # 0
      /\ ~Data!IsNaN(d) => Data!Narrowed(d) = s
  BY <1>1, WidenedIs
<1> HIDE DEF d
<1>4. s # Data!NotSingle
  <2>1. s.exponent \in 0..255
    BY <1>1 DEF Wellformed, Octets
  <2>2. Data!NotSingle.exponent = -1
    BY DEF Data!NotSingle, Data!Single, Data!None
  <2> QED
    BY <2>1, <2>2
<1>5. CASE Data!IsNaN(d)
  <2>1. Data!Preferred(d) # word
    BY <1>2, <1>5 DEF Data!Preferred
  <2>2. Data!ExactHalf(s) # Data!None
    <3>1. s.exponent = 255 /\ s.fraction # 0 /\ s.sign \in {0, 1}
      BY <1>1, <1>3, <1>5 DEF Wellformed
    <3>2. Data!ExactHalf(s) = s.sign * 32768 + 32256
      BY <3>1 DEF Data!ExactHalf, Data!HalfNaN
    <3> QED
      BY <3>1, <3>2 DEF Data!None
  <2> QED
    BY <2>1, <2>2 DEF s, d, word
<1>6. CASE ~Data!IsNaN(d)
  <2>1. Data!Preferred(d) = word <=> Data!ExactHalf(s) = Data!None
    BY <1>1, <1>2, <1>3, <1>4, <1>6 DEF Data!Preferred
  <2> QED
    BY <2>1 DEF s, d, word
<1> QED
  BY <1>5, <1>6

LEMMA HalfPreferred ==
  ASSUME NEW x \in Octets, NEW y \in Octets
  PROVE  LET h == x * 256 + y
             d == Data!Widened(Data!HalfToSingle(h))
         IN  Data!Preferred(d) = <<249, x, y>> <=> (Data!IsNaN(d) => h = Data!HalfNaN)
<1> DEFINE h == x * 256 + y
           s == Data!HalfToSingle(h)
           d == Data!Widened(s)
           word == <<249, x, y>>
<1>1. h \in Nat /\ h < 65536 /\ h \div 256 = x /\ h % 256 = y
  BY DEF Octets
<1>2. Data!FloatHalf(h) = word
  <2>1. <<249>> \o <<x, y>> = word
    BY HalfTuple
  <2> QED
    BY <1>1, <2>1 DEF Data!FloatHalf, Data!HalfBytes
<1>3. Data!FloatHalf(Data!HalfNaN) = <<249, 126, 0>>
  <2>1. <<249>> \o <<126, 0>> = <<249, 126, 0>>
    BY HalfTuple
  <2>2. 32256 \div 256 = 126 /\ 32256 % 256 = 0
    OBVIOUS
  <2> QED
    BY <2>1, <2>2 DEF Data!FloatHalf, Data!HalfBytes, Data!HalfNaN
<1>4. word = <<249, 126, 0>> <=> h = 32256
  <2>1. word = <<249, 126, 0>> <=> x = 126 /\ y = 0
    OBVIOUS
  <2>2. x = 126 /\ y = 0 <=> h = 32256
    BY DEF Octets
  <2> QED
    BY <2>1, <2>2
<1> HIDE DEF h, word
<1>5. Wellformed(s) /\ (~(s.exponent = 255 /\ s.fraction # 0) => Data!ExactHalf(s) = h)
  BY <1>1, HalfIs DEF SixteenBits
<1> HIDE DEF s
<1>6. /\ Data!IsNaN(d) <=> s.exponent = 255 /\ s.fraction # 0
      /\ ~Data!IsNaN(d) => Data!Narrowed(d) = s
  BY <1>5, WidenedIs
<1> HIDE DEF d
<1>7. s # Data!NotSingle
  <2>1. s.exponent \in 0..255
    BY <1>5 DEF Wellformed, Octets
  <2>2. Data!NotSingle.exponent = -1
    BY DEF Data!NotSingle, Data!Single, Data!None
  <2> QED
    BY <2>1, <2>2
<1>8. CASE Data!IsNaN(d)
  <2>1. Data!Preferred(d) = <<249, 126, 0>>
    BY <1>3, <1>8 DEF Data!Preferred
  <2>2. Data!Preferred(d) = word <=> h = Data!HalfNaN
    BY <1>4, <2>1 DEF Data!HalfNaN
  <2> QED
    BY <1>8, <2>2 DEF h, s, d, word
<1>9. CASE ~Data!IsNaN(d)
  <2>1. Data!ExactHalf(s) = h /\ h # Data!None
    BY <1>1, <1>5, <1>6, <1>9 DEF Data!None
  <2>2. Data!Preferred(d) = word
    BY <1>2, <1>6, <1>7, <1>9, <2>1 DEF Data!Preferred
  <2> QED
    BY <1>9, <2>2 DEF h, s, d, word
<1> QED
  BY <1>8, <1>9

(* validate_deterministic_float takes the bytes of a float exactly when they *)
(* are the bytes Encoder::f64_preferred writes for the float they are read   *)
(* as, whatever its width: no shorter float is equal to it.                  *)
THEOREM FloatIs ==
  ASSUME IsInput(input), NEW p \in Nat, p < Len(input), HeadEnd(p) <= Len(input),
         Major(p) = 7
  PROVE  FloatAccepted(p)
           <=> (mode = "deterministic" => Grammar(mode)!Shortest(input, p))
<1> DEFINE float == SubSeq(input, p + 1, HeadEnd(p))
<1>0. Len(input) \in Nat /\ input \in Seq(Bytes) /\ HeadEnd(p) \in Nat
  BY InputIsSeq, HeadEndNat, SkipAssumption
<1>1. PICK i \in 0..31 : i = Info(p) /\ Byte(p) = 224 + i
  <2>1. Info(p) \in 0..31 /\ Byte(p) = 32 * Major(p) + Info(p)
    BY InfoRange
  <2>2. Byte(p) = 224 + Info(p)
    BY <2>1
  <2> QED
    BY <2>1, <2>2, Zenon
<1>2. /\ Grammar(mode)!Info(input, p) = i
      /\ Grammar(mode)!End(input, p) = HeadEnd(p)
  BY <1>1, ExtraIs, SameBytes
<1>3. HeadEnd(p) = p + 1 + Width(p)
  BY DEF HeadEnd
<1>4. /\ i = 25 => Width(p) = 2
      /\ i = 26 => Width(p) = 4
      /\ i = 27 => Width(p) = 8
  BY <1>1 DEF Width
<1>o. \A x \in Bytes : x \in Octets
  BY SkipAssumption DEF Octets
<1>5. ASSUME i \in 25..27
      PROVE  Len(float) = 1 + Width(p) /\ float \in Seq(Bytes) /\ float[1] = 224 + i
  <2>1. Width(p) \in Nat
    BY <1>4, <1>5
  <2>2. p + 1 \in Nat /\ p + 1 >= 1 /\ p + 1 <= HeadEnd(p) /\ HeadEnd(p) <= Len(input)
    BY <1>0, <1>3, <2>1
  <2>3. Len(float) = HeadEnd(p) - (p + 1) + 1
    BY <1>0, <2>2
  <2>4. float \in Seq(Bytes)
    BY <1>0, <2>2
  <2>5. float[1] = input[p + 1]
    BY <1>0, <2>2
  <2>6. input[p + 1] = 224 + i
    BY <1>1 DEF Byte
  <2>7. HeadEnd(p) - (p + 1) + 1 = 1 + Width(p)
    BY <1>3, <2>1
  <2> HIDE DEF float
  <2> QED
    BY <2>3, <2>4, <2>5, <2>6, <2>7
<1> HIDE DEF float
<1>6. ASSUME i \in 25..27
      PROVE  Data!FloatAccepted(float) <=> Data!Preferred(Data!ReadFloat(float)) = float
  <2>1. CASE i = 25
    <3>1. PICK x \in Octets, y \in Octets : float = <<249, x, y>>
      <4>0. Width(p) = 2 /\ i \in 25..27
        BY <1>4, <2>1
      <4>1. Len(float) = 3 /\ float \in Seq(Bytes) /\ float[1] = 249
        BY <1>5, <2>1, <4>0
      <4>2. float = <<float[1], float[2], float[3]>>
        BY <4>1
      <4>3. float[2] \in Bytes /\ float[3] \in Bytes
        BY SMTT(30), <4>1
      <4> QED
        BY <1>o, <4>1, <4>2, <4>3
    <3>2. /\ Data!ReadFloat(float) = Data!Widened(Data!HalfToSingle(x * 256 + y))
          /\ Data!FloatAccepted(float) <=>
               (Data!IsNaN(Data!Widened(Data!HalfToSingle(x * 256 + y)))
                  => x * 256 + y = Data!HalfNaN)
      BY <3>1 DEF Data!ReadFloat, Data!FloatAccepted
    <3> QED
      BY <3>1, <3>2, HalfPreferred
  <2>2. CASE i = 26
    <3>1. PICK b \in [1..4 -> Octets] : float = <<250, b[1], b[2], b[3], b[4]>>
      <4>0. Width(p) = 4 /\ i \in 25..27
        BY <1>4, <2>2
      <4>1. Len(float) = 5 /\ float \in Seq(Bytes) /\ float[1] = 250
        BY <1>5, <2>2, <4>0
      <4>2. float = <<250, float[2], float[3], float[4], float[5]>>
        BY <4>1
      <4>3. \A j \in 1..4 : float[j + 1] \in Octets
        <5>1. \A j \in 1..4 : j + 1 \in 1..Len(float)
          BY <4>1
        <5>2. \A j \in 1..Len(float) : float[j] \in Bytes
          <6>1. PICK t \in Seq(Bytes) : t = float
            <7> HIDE DEF float
            <7> QED
              BY <4>1, Zenon
          <6>2. \A j \in 1..Len(t) : t[j] \in Bytes
            OBVIOUS
          <6> QED
            <7> HIDE DEF float
            <7> QED
              BY <6>1, <6>2, Zenon
        <5>3. \A j \in 1..4 : float[j + 1] \in Bytes
          BY <5>1, <5>2, Zenon
        <5> QED
          BY <1>o, <5>3
      <4> DEFINE b == [j \in 1..4 |-> float[j + 1]]
      <4>4. /\ b \in [1..4 -> Octets]
            /\ b[1] = float[2] /\ b[2] = float[3] /\ b[3] = float[4] /\ b[4] = float[5]
        BY <4>3
      <4> HIDE DEF b
      <4> QED
        BY <4>2, <4>4
    <3>2. SubSeq(float, 2, 5) = <<b[1], b[2], b[3], b[4]>>
      BY <3>1, SingleRest
    <3>3. Data!SingleOf(<<b[1], b[2], b[3], b[4]>>) = Data!SingleOf(b)
      BY DEF Data!SingleOf
    <3>4. /\ Data!ReadFloat(float) = Data!Widened(Data!SingleOf(b))
          /\ Data!FloatAccepted(float) <=> Data!ExactHalf(Data!SingleOf(b)) = Data!None
      <4>1. float[1] = 250
        BY <3>1
      <4>2. Data!SingleOf(SubSeq(float, 2, 5)) = Data!SingleOf(b)
        BY <3>2, <3>3
      <4> QED
        BY <4>1, <4>2 DEF Data!ReadFloat, Data!FloatAccepted
    <3> QED
      BY <3>1, <3>4, SinglePreferred
  <2>3. CASE i = 27
    <3>1. PICK b \in [1..8 -> Octets] :
            float = <<251, b[1], b[2], b[3], b[4], b[5], b[6], b[7], b[8]>>
      <4>0. Width(p) = 8 /\ i \in 25..27
        BY <1>4, <2>3
      <4>1. Len(float) = 9 /\ float \in Seq(Bytes) /\ float[1] = 251
        BY <1>5, <2>3, <4>0
      <4>2. float = <<251, float[2], float[3], float[4], float[5],
                       float[6], float[7], float[8], float[9]>>
        BY <4>1
      <4>3. \A j \in 1..8 : float[j + 1] \in Octets
        <5>1. \A j \in 1..8 : j + 1 \in 1..Len(float)
          BY <4>1
        <5>2. \A j \in 1..Len(float) : float[j] \in Bytes
          <6>1. PICK t \in Seq(Bytes) : t = float
            <7> HIDE DEF float
            <7> QED
              BY <4>1, Zenon
          <6>2. \A j \in 1..Len(t) : t[j] \in Bytes
            OBVIOUS
          <6> QED
            <7> HIDE DEF float
            <7> QED
              BY <6>1, <6>2, Zenon
        <5>3. \A j \in 1..8 : float[j + 1] \in Bytes
          BY <5>1, <5>2, Zenon
        <5> QED
          BY <1>o, <5>3
      <4> DEFINE b == [j \in 1..8 |-> float[j + 1]]
      <4>4. /\ b \in [1..8 -> Octets]
            /\ b[1] = float[2] /\ b[2] = float[3] /\ b[3] = float[4] /\ b[4] = float[5]
            /\ b[5] = float[6] /\ b[6] = float[7] /\ b[7] = float[8] /\ b[8] = float[9]
        BY <4>3
      <4> HIDE DEF b
      <4> QED
        BY <4>2, <4>4
    <3>2. SubSeq(float, 2, 9) = <<b[1], b[2], b[3], b[4], b[5], b[6], b[7], b[8]>>
      BY <3>1, DoubleRest
    <3>3. Data!DoubleOf(<<b[1], b[2], b[3], b[4], b[5], b[6], b[7], b[8]>>) = Data!DoubleOf(b)
      BY DEF Data!DoubleOf
    <3>4. /\ Data!ReadFloat(float) = Data!DoubleOf(b)
          /\ Data!FloatAccepted(float) <=>
               ~Data!IsNaN(Data!DoubleOf(b))
               /\ Data!Narrowed(Data!DoubleOf(b)) = Data!NotSingle
      <4>1. float[1] = 251
        BY <3>1
      <4>2. Data!DoubleOf(SubSeq(float, 2, 9)) = Data!DoubleOf(b)
        BY <3>2, <3>3
      <4> QED
        BY <4>1, <4>2 DEF Data!ReadFloat, Data!FloatAccepted
    <3> QED
      BY <3>1, <3>4, DoublePreferred
  <2> QED
    BY <1>6, <2>1, <2>2, <2>3
<1>7. FloatAccepted(p) <=>
        mode # "deterministic" \/ i \notin 25..27 \/ Data!FloatAccepted(float)
  BY <1>1 DEF FloatAccepted, float
<1>8. Grammar(mode)!Shortest(input, p) <=>
        (i \in 25..27 => Data!Preferred(Data!ReadFloat(float)) = float)
  <2>1. Grammar(mode)!Shortest(input, p) <=>
          (i \in 25..27 => Grammar(mode)!Data!Preferred(
                             Grammar(mode)!Data!ReadFloat(float)) = float)
    BY <1>2 DEF Grammar!Shortest, float
  <2>2. i \in 25..27 => float[1] \in {249, 250, 251}
    BY <1>5
  <2> QED
    BY <2>1, <2>2, SameFloats
<1> QED
  BY <1>6, <1>7, <1>8

-----------------------------------------------------------------------------
(* The order of the keys.                                                   *)

(* s and t go on alike from n on, if they go on.                            *)
Parted(s, t, n) == n = Len(s) \/ n >= Len(t) \/ s[n + 1] # t[n + 1]

LEMMA PartedFirst ==
  ASSUME NEW s \in Seq(Bytes), NEW t \in Seq(Bytes)
  PROVE  \E m \in 0..Len(s) :
           /\ Parted(s, t, m) /\ m <= Len(t)
           /\ \A i \in 1..m : s[i] = t[i]
<1>0. Len(s) \in Nat /\ Len(t) \in Nat
  OBVIOUS
<1> DEFINE T == {n \in Nat : n <= Len(s) /\ Parted(s, t, n)}
<1>1. Len(s) \in T
  BY <1>0 DEF Parted
<1>2. T \subseteq Nat /\ T # {}
  BY <1>1
<1>3. \A n \in Nat : n \in T <=> n <= Len(s) /\ Parted(s, t, n)
  OBVIOUS
<1> HIDE DEF T
<1>4. PICK m \in T : \A k \in T : m <= k
  BY <1>2, Least
<1>5. m \in Nat /\ m <= Len(s) /\ Parted(s, t, m)
  BY <1>2, <1>3, <1>4
<1>6. ASSUME NEW i \in 1..m
      PROVE  i <= Len(t) /\ s[i] = t[i]
  <2>1. i - 1 \in Nat /\ i - 1 <= Len(s) /\ i - 1 # Len(s) /\ ~(m <= i - 1) /\ (i - 1) + 1 = i
    BY <1>0, <1>5
  <2>2. ~Parted(s, t, i - 1)
    BY <1>3, <1>4, <2>1
  <2> QED
    BY <1>0, <2>1, <2>2 DEF Parted
<1>7. m <= Len(t)
  <2>1. m = 0 \/ m \in 1..m
    BY <1>5
  <2> QED
    BY <1>0, <1>6, <2>1
<1>8. m \in 0..Len(s)
  BY <1>0, <1>5
<1> QED
  BY <1>5, <1>6, <1>7, <1>8

LEMMA BytesAre ==
  ASSUME NEW s \in Seq(Bytes), NEW i \in Nat, i > 0, i <= Len(s)
  PROVE  s[i] \in Nat
<1>1. s[i] \in Bytes
  OBVIOUS
<1>2. \A b \in Bytes : b \in Nat
  BY SkipAssumption
<1> QED
  BY <1>1, <1>2, Zenon

(* The order the deterministic validation asks of the keys is the order of   *)
(* the grammar: no key twice, each greater than the one before bytewise.     *)
THEOREM OrderIs ==
  ASSUME NEW s \in Seq(Bytes), NEW t \in Seq(Bytes)
  PROVE  Before(s, t) <=> Grammar(mode)!Less(s, t)
<1>0. Len(s) \in Nat /\ Len(t) \in Nat
  OBVIOUS
<1>1. ASSUME Before(s, t)
      PROVE  Grammar(mode)!Less(s, t)
  <2>1. PICK n \in 0..Len(s) : /\ n < Len(t)
                               /\ \A i \in 1..n : s[i] = t[i]
                               /\ n = Len(s) \/ s[n + 1] < t[n + 1]
    BY <1>1 DEF Before
  <2>2. n \in Nat /\ n <= Len(s) /\ n + 1 <= Len(t)
    BY <1>0, <2>1
  <2>3. n # Len(s) => s[n + 1] \in Nat /\ t[n + 1] \in Nat /\ s[n + 1] # t[n + 1]
    <3>1. ASSUME n # Len(s)
          PROVE  n + 1 \in Nat /\ n + 1 > 0 /\ n + 1 <= Len(s) /\ n + 1 <= Len(t)
      BY <1>0, <2>2, <3>1
    <3>2. ASSUME n # Len(s)
          PROVE  s[n + 1] \in Nat /\ t[n + 1] \in Nat
      BY <3>1, <3>2, BytesAre
    <3> QED
      BY <2>1, <3>2
  <2>4. s # t
    BY <1>0, <2>1, <2>2, <2>3
  <2>5. ASSUME NEW i \in 1..Len(s), \A j \in 1..(i - 1) : j <= Len(t) /\ s[j] = t[j]
        PROVE  i <= Len(t) /\ s[i] <= t[i]
    <3>1. CASE i <= n
      <4>1. i \in Nat /\ i > 0 /\ i <= Len(s) /\ i <= Len(t) /\ i \in 1..n
        BY <1>0, <2>2, <3>1
      <4>2. s[i] \in Nat /\ s[i] = t[i]
        BY <2>1, <4>1, BytesAre
      <4> QED
        BY <4>1, <4>2
    <3>2. CASE i = n + 1
      <4>1. n # Len(s) /\ s[n + 1] < t[n + 1]
        BY <1>0, <2>1, <3>2
      <4> QED
        BY <2>2, <2>3, <3>2, <4>1
    <3>3. CASE i > n + 1
      <4>1. n + 1 \in 1..(i - 1) /\ n # Len(s)
        BY <1>0, <2>2, <3>3
      <4> QED
        BY <2>3, <2>5, <4>1
    <3> QED
      BY <2>2, <3>1, <3>2, <3>3
  <2> QED
    BY <2>4, <2>5 DEF Grammar!Less
<1>2. ASSUME Grammar(mode)!Less(s, t)
      PROVE  Before(s, t)
  <2>1. PICK m \in 0..Len(s) : /\ Parted(s, t, m) /\ m <= Len(t)
                               /\ \A i \in 1..m : s[i] = t[i]
    BY PartedFirst
  <2>2. s # t /\ \A i \in 1..Len(s) :
          (\A j \in 1..(i - 1) : j <= Len(t) /\ s[j] = t[j]) => i <= Len(t) /\ s[i] <= t[i]
    BY <1>2 DEF Grammar!Less
  <2>3. CASE m = Len(s)
    <3>1. m # Len(t)
      <4>1. ASSUME m = Len(t)
            PROVE  s = t
        BY <2>1, <2>3, <4>1, SameSequence
      <4> QED
        BY <2>2, <4>1
    <3>2. m < Len(t)
      BY <1>0, <2>1, <3>1
    <3> QED
      BY <2>1, <2>3, <3>2 DEF Before
  <2>4. CASE m # Len(s)
    <3>1. m + 1 \in 1..Len(s) /\ (m + 1) - 1 = m /\ m \in Nat /\ m + 1 > 0 /\ m + 1 <= Len(s)
      BY <1>0, <2>1, <2>4
    <3>2. \A j \in 1..m : j <= Len(t)
      BY <1>0, <2>1
    <3>3. m + 1 <= Len(t) /\ s[m + 1] <= t[m + 1]
      BY <2>1, <2>2, <3>1, <3>2
    <3>4. m < Len(t) /\ s[m + 1] # t[m + 1]
      BY <1>0, <2>1, <2>4, <3>1, <3>3 DEF Parted
    <3>5. s[m + 1] \in Nat /\ t[m + 1] \in Nat
      BY <3>1, <3>3, BytesAre
    <3>6. s[m + 1] < t[m + 1]
      BY <3>3, <3>4, <3>5
    <3> QED
      BY <2>1, <3>4, <3>6 DEF Before
  <2> QED
    BY <2>3, <2>4
<1> QED
  BY <1>1, <1>2

-----------------------------------------------------------------------------
(* What the grammar says of an item by its head.                            *)

Around(R, p) == Grammar(mode)!Around(input, R, p)

LEMMA AroundNone ==
  ASSUME IsInput(input), NEW R, NEW p \in Nat, HeadError(p) # NoError
  PROVE  Around(R, p) = {}
<1>1. ~Grammar(mode)!Whole(input, p)
  BY HeadIs
<1> QED
  BY <1>1 DEF Around, Grammar!Around

LEMMA HeadOpen ==
  ASSUME IsInput(input), NEW p \in Nat, HeadError(p) = NoError
  PROVE  /\ Grammar(mode)!Whole(input, p)
         /\ Major(p) \in 0..7 /\ Grammar(mode)!Major(input, p) = Major(p)
         /\ Grammar(mode)!Info(input, p) = Info(p)
         /\ Grammar(mode)!Open(input, p) <=> Info(p) = 31
         /\ Grammar(mode)!End(input, p) = HeadEnd(p)
BY HeadIs, HeadRead, OpenIs, SameBytes

LEMMA AroundLeaf ==
  ASSUME IsInput(input), NEW R, NEW p \in Nat, HeadError(p) = NoError,
         Major(p) \in {0, 1, 2, 3, 7}
  PROVE  Around(R, p) = Grammar(mode)!Leaf(input, p)
<1>1. Major(p) # 6 /\ Major(p) \notin {4, 5}
  OBVIOUS
<1> QED
  BY <1>1, HeadOpen DEF Around, Grammar!Around

LEMMA AroundInteger ==
  ASSUME IsInput(input), NEW R, NEW p \in Nat, HeadError(p) = NoError,
         Major(p) \in {0, 1}
  PROVE  Around(R, p) = IF Info(p) = 31 THEN {} ELSE {HeadEnd(p)}
<1>1. Grammar(mode)!Leaf(input, p) = {q \in {HeadEnd(p)} : Info(p) # 31}
  <2>1. Major(p) \notin {2, 3} /\ Major(p) # 7
    OBVIOUS
  <2> QED
    BY <2>1, HeadOpen DEF Grammar!Leaf
<1> QED
  BY <1>1, AroundLeaf

LEMMA AroundSimple ==
  ASSUME IsInput(input), NEW R, NEW p \in Nat, HeadError(p) = NoError,
         Major(p) = 7
  PROVE  Around(R, p) = IF \/ Info(p) = 31 \/ (Info(p) = 24 /\ Argument(p) < 32)
                           \/ ~FloatAccepted(p)
                        THEN {} ELSE {HeadEnd(p)}
<1>1. Grammar(mode)!Leaf(input, p)
        = {q \in {HeadEnd(p)} :
             /\ Info(p) # 31
             /\ Info(p) = 24 => Grammar(mode)!N(input, p) >= 32
             /\ mode = "deterministic" => Grammar(mode)!Shortest(input, p)}
  <2>1. Major(p) \notin {2, 3} /\ Major(p) \notin {0, 1}
    OBVIOUS
  <2> QED
    BY <2>1, HeadOpen DEF Grammar!Leaf
<1>2. Info(p) = 24 => Grammar(mode)!N(input, p) = Argument(p) /\ Argument(p) \in Nat
  <2>1. Info(p) = 24 => Argument(p) # Indefinite
    BY OpenIs
  <2> QED
    BY <2>1, OpenIs
<1>3. FloatAccepted(p) <=> (mode = "deterministic" => Grammar(mode)!Shortest(input, p))
  BY OpenIs, FloatIs
<1>4. (Info(p) = 24 => Grammar(mode)!N(input, p) >= 32)
        <=> ~(Info(p) = 24 /\ Argument(p) < 32)
  BY <1>2
<1> DEFINE refused == \/ Info(p) = 31 \/ (Info(p) = 24 /\ Argument(p) < 32)
                       \/ ~FloatAccepted(p)
<1>5. refused <=> ~(/\ Info(p) # 31
                    /\ Info(p) = 24 => Grammar(mode)!N(input, p) >= 32
                    /\ mode = "deterministic" => Grammar(mode)!Shortest(input, p))
  BY <1>3, <1>4, Zenon
<1> HIDE DEF refused
<1>6. Grammar(mode)!Leaf(input, p) = IF refused THEN {} ELSE {HeadEnd(p)}
  <2>1. CASE refused
    BY <1>1, <1>5, <2>1
  <2>2. CASE ~refused
    BY <1>1, <1>5, <2>2
  <2> QED
    BY <2>1, <2>2
<1> QED
  BY <1>6, AroundLeaf DEF refused

LEMMA AroundString ==
  ASSUME IsInput(input), NEW R, NEW p \in Nat, HeadError(p) = NoError,
         Major(p) \in {2, 3}, Argument(p) # Indefinite
  PROVE  Around(R, p) = IF RunRead(Major(p), p) /\ Argument(p) <= MaxCollection
                        THEN {HeadEnd(p) + Argument(p)} ELSE {}
<1>1. /\ Info(p) # 31 /\ Grammar(mode)!N(input, p) = Argument(p)
      /\ ~Grammar(mode)!Open(input, p)
  BY OpenIs, HeadOpen
<1>2. Grammar(mode)!Leaf(input, p) = {q \in Grammar(mode)!String(input, p) : TRUE}
  <2>1. Major(p) # 7 /\ Major(p) \notin {0, 1}
    OBVIOUS
  <2> QED
    BY <1>1, <2>1, HeadOpen DEF Grammar!Leaf
<1>3. Grammar(mode)!String(input, p)
        = {q \in Grammar(mode)!Run(input, Major(p), p) : Argument(p) <= MaxCollection}
  BY <1>1, HeadOpen DEF Grammar!String
<1>4. Grammar(mode)!Run(input, Major(p), p)
        = IF RunRead(Major(p), p) THEN {HeadEnd(p) + Argument(p)} ELSE {}
  BY RunIs
<1> QED
  BY <1>2, <1>3, <1>4, AroundLeaf

LEMMA AroundChunks ==
  ASSUME IsInput(input), NEW R, NEW p \in Nat, HeadError(p) = NoError,
         Major(p) \in {2, 3}, Argument(p) = Indefinite
  PROVE  Around(R, p) = IF mode = "deterministic" THEN {}
                        ELSE Ending(mode, input, Major(p), 0, HeadEnd(p))
<1>1. Grammar(mode)!Open(input, p)
  BY OpenIs
<1>2. Grammar(mode)!Leaf(input, p)
        = {q \in Grammar(mode)!String(input, p) : ~(mode = "deterministic")}
  <2>1. Major(p) # 7 /\ Major(p) \notin {0, 1}
    OBVIOUS
  <2> QED
    BY <1>1, <2>1, HeadOpen DEF Grammar!Leaf
<1>3. Grammar(mode)!String(input, p)
        = {c[1] : c \in {c \in Grammar(mode)!Chunks(input, Major(p), HeadEnd(p)) :
                           mode = "value" => c[2] <= MaxCollection}}
  BY <1>1, HeadOpen DEF Grammar!String, Grammar!Bounded
<1>4. ASSUME NEW c \in Grammar(mode)!Chunks(input, Major(p), HeadEnd(p))
      PROVE  0 + c[2] <= MaxCollection <=> c[2] <= MaxCollection
  <2>1. HeadEnd(p) \in Positions
    BY OpenIs DEF Positions
  <2>2. c[2] \in Nat
    BY <2>1, ChunksTyped
  <2> QED
    BY <2>2
<1>5. Grammar(mode)!String(input, p) = Ending(mode, input, Major(p), 0, HeadEnd(p))
  <2>1. {c \in Grammar(mode)!Chunks(input, Major(p), HeadEnd(p)) :
           mode = "value" => c[2] <= MaxCollection}
          = {c \in Grammar(mode)!Chunks(input, Major(p), HeadEnd(p)) :
               mode = "value" => 0 + c[2] <= MaxCollection}
    BY <1>4
  <2> QED
    BY <1>3, <2>1, Zenon DEF Ending
<1> QED
  BY <1>2, <1>5, AroundLeaf

LEMMA AroundTag ==
  ASSUME IsInput(input), NEW R, NEW p \in Nat, HeadError(p) = NoError,
         Major(p) = 6
  PROVE  Around(R, p) = IF Info(p) = 31 THEN {} ELSE Grammar(mode)!At(R, HeadEnd(p))
<1>1. Around(R, p) = {q \in Grammar(mode)!At(R, HeadEnd(p)) : Info(p) # 31}
  <2>1. Major(p) \notin {4, 5}
    OBVIOUS
  <2> QED
    BY <2>1, HeadOpen DEF Around, Grammar!Around
<1> QED
  BY <1>1

LEMMA AroundContainer ==
  ASSUME IsInput(input), NEW R, NEW p \in Nat, HeadError(p) = NoError,
         Major(p) \in {4, 5}
  PROVE  Around(R, p) = Grammar(mode)!Container(input, R, p)
<1>1. Major(p) # 6
  OBVIOUS
<1> QED
  BY <1>1, HeadOpen DEF Around, Grammar!Around

-----------------------------------------------------------------------------
(* The levels of nesting.                                                   *)

LEMMA ContainerOffsets ==
  ASSUME IsInput(input), NEW R \in Rows, NEW p \in Nat, HeadError(p) = NoError,
         Major(p) \in {4, 5}
  PROVE  Grammar(mode)!Container(input, R, p) \in SUBSET Positions
<1>0. /\ Len(input) \in Nat /\ MaxCollection \in Nat
      /\ HeadEnd(p) \in Positions /\ {HeadEnd(p)} \in SUBSET Positions
  BY OpenIs, SkipAssumption DEF Positions
<1>1. Grammar(mode)!PerEntry(input, p) \in {1, 2}
  BY DEF Grammar!PerEntry
<1>2. CASE Grammar(mode)!Open(input, p)
  <2> DEFINE counts == {n \in 0..MaxCollection : ~(mode = "deterministic")}
  <2>1. Grammar(mode)!Container(input, R, p)
          = UNION {Grammar(mode)!Stop(input, q) : q \in
              UNION {Grammar(mode)!After(R, {HeadEnd(p)}, n * Grammar(mode)!PerEntry(input, p)) :
                       n \in counts}}
    BY <1>2, HeadOpen DEF Grammar!Container
  <2>2. ASSUME NEW n \in counts
        PROVE  Grammar(mode)!After(R, {HeadEnd(p)}, n * Grammar(mode)!PerEntry(input, p))
                 \in SUBSET Positions
    <3>1. n * Grammar(mode)!PerEntry(input, p) \in Nat
      BY <1>0, <1>1
    <3> QED
      BY <1>0, <3>1, AfterOffsets
  <2>3. \A q \in Positions : Grammar(mode)!Stop(input, q) \in SUBSET Positions
    BY StopIs
  <2> HIDE DEF counts
  <2> QED
    BY <2>1, <2>2, <2>3
<1>3. CASE ~Grammar(mode)!Open(input, p)
  <2>1. Grammar(mode)!N(input, p) = Argument(p) /\ Argument(p) \in Nat
    BY <1>3, OpenIs
  <2>2. CASE Grammar(mode)!N(input, p) > MaxCollection
    <3>1. ~(Grammar(mode)!N(input, p) <= MaxCollection)
      BY <1>0, <2>1, <2>2
    <3>2. Grammar(mode)!Container(input, R, p) = {}
      BY <1>3, <2>2, <3>1 DEF Grammar!Container
    <3> QED
      BY <3>2
  <2> DEFINE sorted == mode = "deterministic" /\ Grammar(mode)!Major(input, p) = 5
  <2>3. CASE ~(Grammar(mode)!N(input, p) > MaxCollection) /\ sorted
    <3> DEFINE first == [to |-> HeadEnd(p), key |-> <<>>]
    <3>0. Grammar(mode)!N(input, p) <= MaxCollection
      BY <1>0, <2>1, <2>3
    <3>1. Grammar(mode)!Container(input, R, p)
            = {e.to : e \in Grammar(mode)!Entries(input, R, {first}, Argument(p))}
      <4>1. Grammar(mode)!Container(input, R, p)
            = {e.to : e \in Grammar(mode)!Entries(input, R,
                               {[to |-> Grammar(mode)!End(input, p), key |-> <<>>]},
                               Grammar(mode)!N(input, p))}
        BY <1>3, <2>3, <3>0 DEF Grammar!Container
      <4> QED
        BY <2>1, <4>1, HeadOpen, Zenon
    <3>2. {first} \in SUBSET Found
      BY <1>0 DEF Found
    <3> HIDE DEF first
    <3>3. Grammar(mode)!Entries(input, R, {first}, Argument(p)) \in SUBSET Found
      BY <2>1, <3>2, EntriesFound
    <3>4. \A e \in Found : e.to \in Positions
      BY DEF Found
    <3> QED
      BY <3>1, <3>3, <3>4
  <2>4. CASE ~(Grammar(mode)!N(input, p) > MaxCollection) /\ ~sorted
    <3>1. Grammar(mode)!Container(input, R, p)
            = Grammar(mode)!After(R, {HeadEnd(p)}, Argument(p) * Grammar(mode)!PerEntry(input, p))
      BY <1>0, <1>3, <2>1, <2>4, HeadOpen DEF Grammar!Container
    <3>2. Argument(p) * Grammar(mode)!PerEntry(input, p) \in Nat
      BY <1>1, <2>1
    <3> QED
      BY <1>0, <3>1, <3>2, AfterOffsets
  <2> QED
    BY <2>2, <2>3, <2>4
<1> QED
  BY <1>2, <1>3

LEMMA AroundOffsets ==
  ASSUME IsInput(input), NEW R \in Rows, NEW p \in Nat
  PROVE  Around(R, p) \in SUBSET Positions
<1>0. Len(input) \in Nat
  BY InputIsSeq, SkipAssumption
<1>1. CASE HeadError(p) # NoError
  BY <1>1, AroundNone
<1>2. CASE HeadError(p) = NoError
  <2>1. HeadEnd(p) \in Positions /\ Major(p) \in 0..7
    BY <1>2, OpenIs, HeadOpen DEF Positions
  <2>2. CASE Major(p) \in {0, 1}
    BY <1>2, <2>1, <2>2, AroundInteger
  <2>3. CASE Major(p) \in {2, 3} /\ Argument(p) # Indefinite
    <3>1. RunRead(Major(p), p) => HeadEnd(p) + Argument(p) \in Positions
      BY <1>0, <1>2, <2>3, OpenIs DEF Positions, RunRead
    <3> QED
      BY <1>2, <2>3, <3>1, AroundString
  <2>4. CASE Major(p) \in {2, 3} /\ Argument(p) = Indefinite
    <3>1. Ending(mode, input, Major(p), 0, HeadEnd(p)) \in SUBSET Positions
      BY <2>1, ChunksTyped DEF Ending
    <3> QED
      BY <1>2, <2>4, <3>1, AroundChunks
  <2>5. CASE Major(p) \in {4, 5}
    BY <1>2, <2>5, AroundContainer, ContainerOffsets
  <2>6. CASE Major(p) = 6
    BY <1>0, <1>2, <2>1, <2>6, AroundTag, AtRow
  <2>7. CASE Major(p) = 7
    BY <1>2, <2>1, <2>7, AroundSimple
  <2> QED
    BY <2>1, <2>2, <2>3, <2>4, <2>5, <2>6, <2>7
<1> QED
  BY <1>1, <1>2

LevelOf(R) == [i \in 1..(Len(input) + 1) |-> Around(R, i - 1)]

LEMMA LevelIs ==
  ASSUME IsInput(input), NEW R \in Rows
  PROVE  /\ LevelOf(R) \in Rows
         /\ Grammar(mode)!Level(input, R) = LevelOf(R)
<1>0. Len(input) \in Nat
  BY InputIsSeq, SkipAssumption
<1>1. ASSUME NEW i \in 1..(Len(input) + 1)
      PROVE  Around(R, i - 1) \in SUBSET Positions
  <2>1. i - 1 \in Nat
    BY <1>0
  <2> QED
    BY <2>1, AroundOffsets
<1>2. LevelOf(R) \in Rows
  BY <1>1 DEF LevelOf, Rows
<1>3. LevelOf(R) \in Seq(SUBSET Positions)
  BY <1>0, <1>2 DEF Rows
<1>4. LevelOf(R) \o <<>> = LevelOf(R)
  BY <1>3
<1>5. Grammar(mode)!Level(input, R) = LevelOf(R) \o <<>>
  BY DEF Grammar!Level, LevelOf, Around
<1> QED
  BY <1>2, <1>4, <1>5

Levels == [y \in Nat \X Rows |-> LevelOf(y[2])]

Bottom == [i \in 1..(Len(input) + 1) |-> {}]

LEMMA LevelsSteps ==
  ASSUME IsInput(input)
  PROVE  Steps(Bottom, Levels, Rows)
<1>1. Bottom \in Rows
  BY DEF Bottom, Rows
<1>2. ASSUME NEW y \in Nat \X Rows PROVE LevelOf(y[2]) \in Rows
  <2>1. y[2] \in Rows
    OBVIOUS
  <2> QED
    BY <2>1, LevelIs
<1>3. Levels \in [Nat \X Rows -> Rows]
  BY <1>2 DEF Levels
<1> QED
  BY <1>1, <1>3 DEF Steps

LEMMA NestedIs ==
  ASSUME IsInput(input), NEW n \in Nat
  PROVE  Grammar(mode)!Nested(input, n) = Iteration(Bottom, Levels, n)[n]
<1>0. Steps(Bottom, Levels, Rows)
  BY LevelsSteps
<1>b. Grammar(mode)!Nothing(input) = Bottom
  BY DEF Grammar!Nothing, Bottom
<1>1. ASSUME NEW k \in Nat, NEW R \in Rows
      PROVE  Levels[<<k, R>>] = Grammar(mode)!Level(input, R)
  <2>1. Levels[<<k, R>>] = LevelOf(R)
    BY DEF Levels
  <2> QED
    BY <2>1, LevelIs
<1> DEFINE more(f, k) ==
             IF k = 0 THEN Grammar(mode)!Nothing(input)
             ELSE Grammar(mode)!Level(input, f[k - 1])
           chosen == CHOOSE f : f = [k \in 0..n |-> more(f, k)]
<1>2. PICK f \in [0..n -> Rows] : Iterates(f, Bottom, Levels, n)
  <2>1. Bottom \in Rows /\ Levels \in [Nat \X Rows -> Rows]
    BY <1>0 DEF Steps
  <2> QED
    BY <2>1, IterationExists
<1>3. f = [k \in 0..n |-> more(f, k)]
  <2>1. ASSUME NEW k \in 0..n
        PROVE  f[k] = more(f, k)
    <3>1. f[k] = IF k = 0 THEN Bottom ELSE Levels[<<k, f[k - 1]>>]
      BY <1>2 DEF Iterates
    <3>2. CASE k = 0
      BY <1>b, <3>1, <3>2
    <3>3. CASE k # 0
      <4>1. k \in Nat /\ f[k - 1] \in Rows
        BY <1>2, <3>3
      <4> QED
        BY <1>1, <3>1, <3>3, <4>1
    <3> QED
      BY <3>2, <3>3
  <2> HIDE DEF more
  <2> QED
    BY <1>2, <2>1
<1>4. chosen = [k \in 0..n |-> more(chosen, k)]
  BY <1>3
<1> HIDE DEF chosen
<1>5. chosen[0] = Bottom
  BY <1>b, <1>4
<1>6. ASSUME NEW k \in 1..n, chosen[k - 1] \in Rows
      PROVE  chosen[k] = Levels[<<k, chosen[k - 1]>>]
  <2>1. chosen[k] = Grammar(mode)!Level(input, chosen[k - 1])
    BY <1>4
  <2> QED
    BY <1>1, <1>6, <2>1
<1>7. Stepping(chosen, Bottom, Levels, n, Rows)
  BY <1>5, <1>6 DEF Stepping
<1>8. chosen[n] = Iteration(Bottom, Levels, n)[n]
  BY <1>0, <1>7, IterationUnique
<1> QED
  BY <1>8 DEF chosen, Grammar!Nested

LEMMA NestedStep ==
  ASSUME IsInput(input), NEW n \in Nat
  PROVE  /\ Grammar(mode)!Nested(input, 0) = Bottom
         /\ Grammar(mode)!Nested(input, n) \in Rows
         /\ Grammar(mode)!Nested(input, n + 1) = LevelOf(Grammar(mode)!Nested(input, n))
<1>0. Steps(Bottom, Levels, Rows)
  BY LevelsSteps
<1>1. Iteration(Bottom, Levels, 0)[0] = Bottom
  BY <1>0, IterationBegins
<1>2. PICK R \in Rows : R = Iteration(Bottom, Levels, n)[n]
  BY <1>0, IterationStep
<1>3. Iteration(Bottom, Levels, n + 1)[n + 1] = Levels[<<n + 1, R>>]
  BY <1>0, <1>2, IterationStep
<1>4. Levels[<<n + 1, R>>] = LevelOf(R)
  BY DEF Levels
<1>5. Grammar(mode)!Nested(input, n + 1) = Iteration(Bottom, Levels, n + 1)[n + 1]
  BY NestedIs
<1> QED
  BY <1>1, <1>2, <1>3, <1>4, <1>5, NestedIs

(* What begins at p, around the items of fewer levels.                       *)
LEMMA NestedAt ==
  ASSUME IsInput(input), NEW n \in Nat, NEW p \in Positions
  PROVE  /\ Grammar(mode)!At(Grammar(mode)!Nested(input, 0), p) = {}
         /\ Grammar(mode)!At(Grammar(mode)!Nested(input, n + 1), p)
              = Around(Grammar(mode)!Nested(input, n), p)
<1>0. Len(input) \in Nat
  BY InputIsSeq, SkipAssumption
<1>1. p + 1 \in 1..(Len(input) + 1) /\ (p + 1) - 1 = p
  BY <1>0 DEF Positions
<1>2. Bottom[p + 1] = {}
  BY <1>1 DEF Bottom
<1>3. ASSUME NEW R \in Rows
      PROVE  LevelOf(R)[p + 1] = Around(R, p)
  BY <1>1 DEF LevelOf
<1>4. PICK R \in Rows : R = Grammar(mode)!Nested(input, n)
  BY NestedStep
<1>5. Grammar(mode)!Nested(input, n + 1) = LevelOf(R)
  BY <1>4, NestedStep
<1> QED
  BY <1>2, <1>3, <1>4, <1>5, NestedStep DEF Grammar!At

(* Nothing begins with a break or at the end.                                *)
LEMMA NestedNone ==
  ASSUME IsInput(input), NEW n \in Nat, NEW p \in Positions,
         p = Len(input) \/ Byte(p) = Break
  PROVE  Grammar(mode)!At(Grammar(mode)!Nested(input, n), p) = {}
<1>0. Len(input) \in Nat /\ p \in Nat
  BY InputIsSeq, SkipAssumption DEF Positions
<1>1. CASE n = 0
  BY <1>1, NestedAt
<1>2. CASE n # 0
  <2>1. PICK m \in Nat : n = m + 1
    <3>1. n - 1 \in Nat /\ n = (n - 1) + 1
      BY <1>2
    <3> QED
      BY <3>1
  <2>2. PICK R \in Rows : R = Grammar(mode)!Nested(input, m)
    BY NestedStep
  <2>3. Around(R, p) = {}
    <3>1. CASE HeadError(p) # NoError
      BY <1>0, <3>1, AroundNone
    <3>2. CASE HeadError(p) = NoError
      <4>1. Byte(p) = Break
        BY <1>0, <3>2, OpenIs
      <4>2. Major(p) = 7 /\ Info(p) = 31
        BY <4>1 DEF Major, Info, Break
      <4> QED
        BY <1>0, <3>2, <4>2, AroundSimple
    <3> QED
      BY <3>1, <3>2
  <2> QED
    BY <2>1, <2>2, <2>3, NestedAt
<1> QED
  BY <1>1, <1>2

-----------------------------------------------------------------------------
LEMMA FrameIs ==
  ASSUME NEW f \in FrameRecord
  PROVE  /\ f.kind \in {"tag", "array", "map"} /\ f.done \in Nat
         /\ f.items \in Nat \cup {Indefinite} /\ f.previous \in Seq(Bytes)
         /\ PerEntry(f.kind) \in {1, 2} /\ (f.kind # "map" => PerEntry(f.kind) = 1)
         /\ MostItems(f) \in Nat
<1>1. /\ f.kind \in {"tag", "array", "map"} /\ f.done \in Nat
      /\ f.items \in Nat \cup {Indefinite} /\ f.previous \in Seq(Bytes)
  BY DEF FrameRecord
<1>2. PerEntry(f.kind) \in {1, 2} /\ (f.kind # "map" => PerEntry(f.kind) = 1)
  BY DEF PerEntry
<1>3. MostItems(f) \in Nat
  BY <1>2, SkipAssumption DEF MostItems
<1> QED
  BY <1>1, <1>2, <1>3

LEMMA AdvancedIs ==
  ASSUME NEW f \in FrameRecord, NEW e
  PROVE  /\ Advanced(mode, input, f, e).kind = f.kind
         /\ Advanced(mode, input, f, e).items = f.items
         /\ Advanced(mode, input, f, e).at = f.at
         /\ Advanced(mode, input, f, e).from = f.from
         /\ Advanced(mode, input, f, e).done = f.done + 1
         /\ Advanced(mode, input, f, e).previous
              = IF mode = "deterministic" /\ IsKey(f)
                THEN SubSeq(input, f.from + 1, e) ELSE f.previous
BY DEF Advanced, FrameRecord

(* It ends where its items end, when they are all there.                     *)
LEMMA RemainingNone ==
  ASSUME IsInput(input), NEW R \in Rows, NEW f \in FrameRecord, NEW q \in Positions,
         f.items # Indefinite, f.done = f.items, Paired(f)
  PROVE  Remaining(mode, input, R, f, q) = {q}
<1>0. Len(input) \in Nat /\ {q} \in SUBSET Positions
  BY InputIsSeq, SkipAssumption
<1>1. f.items - f.done = 0 /\ f.items \in Nat
  BY FrameIs DEF Indefinite
<1>2. CASE mode = "deterministic" /\ f.kind = "map"
  <2> DEFINE first == [to |-> q, key |-> f.previous]
  <2>1. Begun(mode, R, f, q) = {first}
    BY <1>2 DEF Paired, Begun
  <2>2. 0 \div 2 = 0
    OBVIOUS
  <2>3. {first} \in SUBSET Found
    BY FrameIs DEF Found
  <2>4. first.to = q
    OBVIOUS
  <2> HIDE DEF first
  <2>5. Grammar(mode)!Entries(input, R, {first}, 0) = {first}
    BY <2>3, EntriesNone
  <2>6. Remaining(mode, input, R, f, q) = {e.to : e \in {first}}
    BY <1>1, <1>2, <2>1, <2>2, <2>5 DEF Remaining
  <2> QED
    BY <2>4, <2>6
<1>3. CASE ~(mode = "deterministic" /\ f.kind = "map")
  <2>1. Remaining(mode, input, R, f, q) = Grammar(mode)!After(R, {q}, 0)
    BY <1>1, <1>3 DEF Remaining
  <2> QED
    BY <1>0, <2>1, AfterNone
<1> QED
  BY <1>2, <1>3

(* The items of a given number, one and then the others.                     *)
LEMMA RemainingKey ==
  ASSUME IsInput(input), NEW R \in Rows, NEW f \in FrameRecord, NEW q \in Positions,
         f.items # Indefinite, f.done < f.items, Paired(f), f.from = q,
         mode = "deterministic", f.kind = "map", f.done % 2 = 0
  PROVE  Remaining(mode, input, R, f, q)
           = UNION {Beyond(mode, input, R, f, e) : e \in Grammar(mode)!At(R, q)}
<1>0. Len(input) \in Nat
  BY InputIsSeq, SkipAssumption
<1>1. PICK k \in Nat : (f.items - f.done) \div 2 = k + 1
                       /\ (f.items - (f.done + 1)) \div 2 = k
  <2>1. f.items \in Nat /\ f.done \in Nat /\ f.items % 2 = 0
    BY FrameIs DEF Indefinite, Paired
  <2>2. PICK i \in Nat, d \in Nat : f.items = 2 * i /\ f.done = 2 * d
    <3>1. f.items = 2 * (f.items \div 2) /\ f.done = 2 * (f.done \div 2)
          /\ f.items \div 2 \in Nat /\ f.done \div 2 \in Nat
      BY <2>1
    <3> QED
      BY <3>1
  <2>3. i - d - 1 \in Nat
    BY <2>2
  <2>4. (2 * i - 2 * d) \div 2 = (i - d - 1) + 1 /\ (2 * i - (2 * d + 1)) \div 2 = i - d - 1
    BY <2>2, <2>3
  <2> QED
    BY <2>2, <2>3, <2>4
<1> DEFINE first == [to |-> q, key |-> f.previous]
           key(x) == SubSeq(input, q + 1, x)
           entry(x) == Grammar(mode)!Entry(input, R, first, x)
           ends(S, n) == Grammar(mode)!Entries(input, R, S, n)
<1>2. IsKey(f)
  BY DEF IsKey
<1>3. Begun(mode, R, f, q) = {first}
  BY DEF Begun
<1>4. first \in Found /\ first.to = q /\ first.key = f.previous
  BY FrameIs DEF Found
<1>5. ASSUME NEW x
      PROVE  Begun(mode, R, Advanced(mode, input, f, x), x) = entry(x)
  <2>1. /\ Advanced(mode, input, f, x).done = f.done + 1
        /\ Advanced(mode, input, f, x).previous = key(x)
    BY <1>2, AdvancedIs
  <2>2. (f.done + 1) % 2 # 0
    BY FrameIs
  <2>3. entry(x) = {[to |-> v, key |-> key(x)] : v \in Grammar(mode)!At(R, x)}
    BY <1>4 DEF Grammar!Entry
  <2> HIDE DEF entry, key
  <2> QED
    BY <2>1, <2>2, <2>3 DEF Begun
<1>6. ASSUME NEW x
      PROVE  Remaining(mode, input, R, Advanced(mode, input, f, x), x)
               = {e.to : e \in ends(entry(x), k)}
  <2>1. /\ Advanced(mode, input, f, x).items = f.items
        /\ Advanced(mode, input, f, x).kind = "map"
        /\ Advanced(mode, input, f, x).done = f.done + 1
    BY AdvancedIs
  <2> HIDE DEF entry
  <2> QED
    BY <1>1, <1>5, <2>1 DEF Remaining
<1>7. Remaining(mode, input, R, f, q) = {e.to : e \in ends({first}, k + 1)}
  <2> HIDE DEF first
  <2> QED
    BY <1>1, <1>3 DEF Remaining
<1>8. Grammar(mode)!Greater(input, R, first)
        = {x \in Grammar(mode)!At(R, q) : Grammar(mode)!Less(f.previous, key(x))}
  BY <1>4 DEF Grammar!Greater
<1>9. ends({first}, k + 1)
        = UNION {ends(entry(x), k) : x \in Grammar(mode)!Greater(input, R, first)}
  <2> HIDE DEF first
  <2> QED
    BY <1>4, EntriesOne
<1>10. ASSUME NEW x
       PROVE  Beyond(mode, input, R, f, x)
                = IF Grammar(mode)!Less(f.previous, key(x))
                  THEN {e.to : e \in ends(entry(x), k)} ELSE {}
  <2> HIDE DEF entry, ends
  <2> QED
    BY <1>2, <1>6 DEF Beyond, Unordered
<1> HIDE DEF entry, ends, first, key
<1>11. ASSUME NEW y
       PROVE  y \in Remaining(mode, input, R, f, q) <=>
                \E x \in Grammar(mode)!At(R, q) : y \in Beyond(mode, input, R, f, x)
  <2>1. y \in Remaining(mode, input, R, f, q) <=> \E e \in ends({first}, k + 1) : y = e.to
    BY <1>7
  <2>2. ASSUME NEW e
        PROVE  e \in ends({first}, k + 1) <=>
                 \E x \in Grammar(mode)!At(R, q) :
                   Grammar(mode)!Less(f.previous, key(x)) /\ e \in ends(entry(x), k)
    BY <1>8, <1>9
  <2>3. ASSUME NEW x
        PROVE  y \in Beyond(mode, input, R, f, x) <=>
                 /\ Grammar(mode)!Less(f.previous, key(x))
                 /\ \E e \in ends(entry(x), k) : y = e.to
    BY <1>10
  <2> QED
    BY <2>1, <2>2, <2>3, Zenon
<1> QED
  BY <1>11


LEMMA RemainingValue ==
  ASSUME IsInput(input), NEW R \in Rows, NEW f \in FrameRecord, NEW q \in Positions,
         f.items # Indefinite, f.done < f.items, Paired(f), f.from = q,
         mode = "deterministic", f.kind = "map", f.done % 2 # 0
  PROVE  Remaining(mode, input, R, f, q)
           = UNION {Beyond(mode, input, R, f, e) : e \in Grammar(mode)!At(R, q)}
<1>0. Len(input) \in Nat
  BY InputIsSeq, SkipAssumption
<1>1. PICK k \in Nat : (f.items - f.done) \div 2 = k
                       /\ (f.items - (f.done + 1)) \div 2 = k
  <2>1. f.items \in Nat /\ f.done \in Nat /\ f.items % 2 = 0
    BY FrameIs DEF Indefinite, Paired
  <2>2. PICK i \in Nat, d \in Nat : f.items = 2 * i /\ f.done = 2 * d + 1
    <3>1. f.items = 2 * (f.items \div 2) /\ f.done = 2 * (f.done \div 2) + 1
          /\ f.items \div 2 \in Nat /\ f.done \div 2 \in Nat
      BY <2>1
    <3> QED
      BY <3>1
  <2>3. i - d - 1 \in Nat
    BY <2>2
  <2>4. /\ (2 * i - (2 * d + 1)) \div 2 = i - d - 1
        /\ (2 * i - (2 * d + 1 + 1)) \div 2 = i - d - 1
    BY <2>2, <2>3
  <2> QED
    BY <2>2, <2>3, <2>4
<1> DEFINE begun(v) == [to |-> v, key |-> f.previous]
           ends(S) == Grammar(mode)!Entries(input, R, S, k)
           S0 == {begun(v) : v \in Grammar(mode)!At(R, q)}
<1>2. ~IsKey(f)
  BY DEF IsKey
<1>3. Begun(mode, R, f, q) = S0
  BY DEF Begun
<1>4. \A v \in Positions : begun(v) \in Found
  BY FrameIs DEF Found
<1>5. S0 \in SUBSET Found
  <2>1. Grammar(mode)!At(R, q) \in SUBSET Positions
    BY <1>0, AtRow
  <2> QED
    BY <1>4, <2>1
<1>6. Remaining(mode, input, R, f, q) = {e.to : e \in ends(S0)}
  <2> HIDE DEF S0
  <2> QED
    BY <1>1, <1>3 DEF Remaining
<1>7. ends(S0) = UNION {ends({d}) : d \in S0}
  <2> HIDE DEF S0
  <2> QED
    BY <1>5, EntriesUnion
<1>8. ASSUME NEW v
      PROVE  Beyond(mode, input, R, f, v) = {e.to : e \in ends({begun(v)})}
  <2>1. /\ Advanced(mode, input, f, v).done = f.done + 1
        /\ Advanced(mode, input, f, v).previous = f.previous
        /\ Advanced(mode, input, f, v).items = f.items
        /\ Advanced(mode, input, f, v).kind = "map"
    BY <1>2, AdvancedIs
  <2>2. (f.done + 1) % 2 = 0
    BY FrameIs
  <2>3. Begun(mode, R, Advanced(mode, input, f, v), v) = {begun(v)}
    BY <2>1, <2>2 DEF Begun
  <2>4. Remaining(mode, input, R, Advanced(mode, input, f, v), v)
          = {e.to : e \in ends({begun(v)})}
    <3> HIDE DEF begun
    <3> QED
      BY <1>1, <2>1, <2>3 DEF Remaining
  <2> HIDE DEF begun, ends
  <2> QED
    BY <1>2, <2>4 DEF Beyond, Unordered
<1> HIDE DEF ends
<1>9. ASSUME NEW y
      PROVE  y \in Remaining(mode, input, R, f, q) <=>
               \E v \in Grammar(mode)!At(R, q) : y \in Beyond(mode, input, R, f, v)
  <2>1. y \in Remaining(mode, input, R, f, q) <=> \E d \in S0 : \E e \in ends({d}) : y = e.to
    <3> HIDE DEF S0
    <3> QED
      BY <1>6, <1>7
  <2>2. (\E d \in S0 : \E e \in ends({d}) : y = e.to) <=>
          \E v \in Grammar(mode)!At(R, q) : \E e \in ends({begun(v)}) : y = e.to
    <3> HIDE DEF begun
    <3> QED
      OBVIOUS
  <2>3. ASSUME NEW v
        PROVE  y \in Beyond(mode, input, R, f, v) <=> \E e \in ends({begun(v)}) : y = e.to
    BY <1>8
  <2> HIDE DEF S0, begun
  <2> QED
    BY <2>1, <2>2, <2>3, Zenon
<1> QED
  BY <1>9

LEMMA RemainingPart ==
  ASSUME IsInput(input), NEW R \in Rows, NEW f \in FrameRecord, NEW q \in Positions,
         f.items # Indefinite, f.done < f.items,
         ~(mode = "deterministic" /\ f.kind = "map")
  PROVE  Remaining(mode, input, R, f, q)
           = UNION {Beyond(mode, input, R, f, e) : e \in Grammar(mode)!At(R, q)}
<1>0. Len(input) \in Nat
  BY InputIsSeq, SkipAssumption
<1>1. PICK k \in Nat : f.items - f.done = k + 1 /\ f.items - (f.done + 1) = k
  <2>1. f.items \in Nat /\ f.done \in Nat
    BY FrameIs DEF Indefinite
  <2>2. f.items - (f.done + 1) \in Nat
    BY <2>1
  <2> QED
    BY <2>1, <2>2
<1>2. Remaining(mode, input, R, f, q) = Grammar(mode)!After(R, {q}, k + 1)
  BY <1>1 DEF Remaining
<1>3. ASSUME NEW v
      PROVE  Beyond(mode, input, R, f, v) = Grammar(mode)!After(R, {v}, k)
  <2>1. /\ Advanced(mode, input, f, v).done = f.done + 1
        /\ Advanced(mode, input, f, v).items = f.items
        /\ Advanced(mode, input, f, v).kind = f.kind
    BY AdvancedIs
  <2>2. ~Unordered(mode, input, f, v)
    BY DEF Unordered, IsKey
  <2> QED
    BY <1>1, <2>1, <2>2 DEF Beyond, Remaining
<1>4. Grammar(mode)!After(R, {q}, k + 1)
        = UNION {Grammar(mode)!After(R, {v}, k) : v \in Grammar(mode)!At(R, q)}
  BY <1>0, AfterOne
<1>5. ASSUME NEW y
      PROVE  y \in Remaining(mode, input, R, f, q) <=>
               \E v \in Grammar(mode)!At(R, q) : y \in Beyond(mode, input, R, f, v)
  <2>1. y \in Grammar(mode)!After(R, {q}, k + 1) <=>
          \E v \in Grammar(mode)!At(R, q) : y \in Grammar(mode)!After(R, {v}, k)
    BY <1>4
  <2> QED
    BY <1>2, <1>3, <2>1, Zenon
<1> QED
  BY <1>5

LEMMA RemainingItem ==
  ASSUME IsInput(input), NEW R \in Rows, NEW f \in FrameRecord, NEW q \in Positions,
         f.items # Indefinite, f.done < f.items, Paired(f), f.from = q
  PROVE  Remaining(mode, input, R, f, q)
           = UNION {Beyond(mode, input, R, f, e) : e \in Grammar(mode)!At(R, q)}
BY RemainingKey, RemainingValue, RemainingPart

-----------------------------------------------------------------------------
(* Containers without a length.                                             *)

LEMMA RemainingOver ==
  ASSUME NEW f \in FrameRecord, f.items = Indefinite, f.done > MostItems(f), NEW R, NEW q
  PROVE  Remaining(mode, input, R, f, q) = {}
<1>1. OpenCounts(f) = {}
  BY FrameIs DEF OpenCounts
<1> QED
  BY <1>1 DEF Remaining

LEMMA RemainingOpenly ==
  ASSUME NEW f, f.items = Indefinite, NEW R, NEW q, NEW y
  PROVE  y \in Remaining(mode, input, R, f, q) <=>
           \E n \in OpenCounts(f) : \E e \in Grammar(mode)!After(R, {q}, n) :
             y \in Grammar(mode)!Stop(input, e)
BY DEF Remaining

LEMMA RemainingBreak ==
  ASSUME IsInput(input), NEW R \in Rows, NEW f \in FrameRecord, NEW q \in Positions,
         f.items = Indefinite, f.done <= MostItems(f), Grammar(mode)!At(R, q) = {}
  PROVE  Remaining(mode, input, R, f, q)
           = IF f.done % PerEntry(f.kind) = 0 THEN Grammar(mode)!Stop(input, q) ELSE {}
<1>0. Len(input) \in Nat /\ {q} \in SUBSET Positions
  BY InputIsSeq, SkipAssumption
<1>1. Grammar(mode)!After(R, {q}, 0) = {q}
  BY <1>0, AfterNone
<1>2. ASSUME NEW n \in Nat, n # 0
      PROVE  Grammar(mode)!After(R, {q}, n) = {}
  <2>1. PICK k \in Nat : n = k + 1
    <3>1. n - 1 \in Nat /\ n = (n - 1) + 1
      BY <1>2
    <3> QED
      BY <3>1
  <2>2. Grammar(mode)!After(R, {q}, k + 1)
          = UNION {Grammar(mode)!After(R, {v}, k) : v \in Grammar(mode)!At(R, q)}
    BY <1>0, AfterOne
  <2> QED
    BY <2>1, <2>2
<1>3. 0 \in OpenCounts(f) <=> f.done % PerEntry(f.kind) = 0
  BY FrameIs DEF OpenCounts
<1>4. ASSUME NEW y
      PROVE  y \in Remaining(mode, input, R, f, q) <=>
               f.done % PerEntry(f.kind) = 0 /\ y \in Grammar(mode)!Stop(input, q)
  <2>1. \A n \in OpenCounts(f) : n \in Nat
    BY DEF OpenCounts
  <2>2. y \in Remaining(mode, input, R, f, q) <=>
          \E n \in OpenCounts(f) : \E e \in Grammar(mode)!After(R, {q}, n) :
            y \in Grammar(mode)!Stop(input, e)
    BY RemainingOpenly
  <2>3. \A n \in OpenCounts(f) : n = 0 \/ Grammar(mode)!After(R, {q}, n) = {}
    BY <1>2, <2>1
  <2>4. (\E n \in OpenCounts(f) : \E e \in Grammar(mode)!After(R, {q}, n) :
          y \in Grammar(mode)!Stop(input, e))
          <=> 0 \in OpenCounts(f) /\ y \in Grammar(mode)!Stop(input, q)
    BY <1>1, <2>3
  <2> QED
    BY <1>3, <2>2, <2>4
<1> QED
  BY <1>4

LEMMA RemainingOpen ==
  ASSUME IsInput(input), NEW R \in Rows, NEW f \in FrameRecord, NEW q \in Positions,
         f.items = Indefinite, Grammar(mode)!Stop(input, q) = {}
  PROVE  Remaining(mode, input, R, f, q)
           = UNION {Beyond(mode, input, R, f, e) : e \in Grammar(mode)!At(R, q)}
<1>0. Len(input) \in Nat /\ {q} \in SUBSET Positions
  BY InputIsSeq, SkipAssumption
<1> DEFINE ends(S, n) == Grammar(mode)!After(R, S, n)
           next(v) == Advanced(mode, input, f, v)
<1>1. ends({q}, 0) = {q}
  BY <1>0, AfterNone
<1>2. ASSUME NEW k \in Nat
      PROVE  ends({q}, k + 1) = UNION {ends({v}, k) : v \in Grammar(mode)!At(R, q)}
  BY <1>0, AfterOne
<1>3. ASSUME NEW v
      PROVE  /\ next(v).items = Indefinite /\ next(v).done = f.done + 1
             /\ next(v).kind = f.kind /\ MostItems(next(v)) = MostItems(f)
  BY AdvancedIs DEF MostItems
<1>4. ASSUME NEW v
      PROVE  Beyond(mode, input, R, f, v) = Remaining(mode, input, R, next(v), v)
  BY DEF Beyond, Unordered, IsKey
<1>5. ASSUME NEW v, NEW k \in Nat
      PROVE  k \in OpenCounts(next(v)) <=> k + 1 \in OpenCounts(f)
  <2>1. /\ f.done \in Nat /\ f.done + 1 + k = f.done + (k + 1)
        /\ MostItems(f) \in Nat
    BY FrameIs
  <2>2. f.done + (k + 1) <= MostItems(f) => k \in 0..MostItems(f) /\ k + 1 \in 0..MostItems(f)
    BY <2>1
  <2> HIDE DEF next
  <2>3. k \in OpenCounts(next(v)) <=>
          /\ f.done + (k + 1) <= MostItems(f) /\ (f.done + (k + 1)) % PerEntry(f.kind) = 0
          /\ k \in 0..MostItems(f)
    BY <1>3, <2>1 DEF OpenCounts
  <2>4. k + 1 \in OpenCounts(f) <=>
          /\ f.done + (k + 1) <= MostItems(f) /\ (f.done + (k + 1)) % PerEntry(f.kind) = 0
          /\ k + 1 \in 0..MostItems(f)
    BY DEF OpenCounts
  <2> QED
    BY <2>2, <2>3, <2>4, Zenon
<1> HIDE DEF ends, next
<1>6. ASSUME NEW y
      PROVE  y \in Remaining(mode, input, R, f, q) <=>
               \E v \in Grammar(mode)!At(R, q) : y \in Beyond(mode, input, R, f, v)
  <2>1. y \in Remaining(mode, input, R, f, q) <=>
          \E n \in OpenCounts(f) : \E e \in ends({q}, n) : y \in Grammar(mode)!Stop(input, e)
    BY RemainingOpenly DEF ends
  <2>2. ASSUME NEW v
        PROVE  y \in Beyond(mode, input, R, f, v) <=>
                 \E k \in OpenCounts(next(v)) : \E e \in ends({v}, k) :
                   y \in Grammar(mode)!Stop(input, e)
    BY <1>3, <1>4, RemainingOpenly DEF ends
  <2>3. ASSUME NEW n \in OpenCounts(f), NEW e \in ends({q}, n),
               y \in Grammar(mode)!Stop(input, e)
        PROVE  \E v \in Grammar(mode)!At(R, q) : y \in Beyond(mode, input, R, f, v)
    <3>1. n # 0
      BY <1>1, <2>3
    <3>2. PICK k \in Nat : n = k + 1
      <4>1. n \in Nat
        BY DEF OpenCounts
      <4>2. n - 1 \in Nat /\ n = (n - 1) + 1
        BY <3>1, <4>1
      <4> QED
        BY <4>2
    <3>3. PICK v \in Grammar(mode)!At(R, q) : e \in ends({v}, k)
      <4>1. e \in ends({q}, k + 1)
        BY <3>2
      <4>2. ends({q}, k + 1) = UNION {ends({v}, k) : v \in Grammar(mode)!At(R, q)}
        BY <1>2, <3>2
      <4> QED
        BY <4>1, <4>2, Zenon
    <3>4. k \in OpenCounts(next(v))
      BY <1>5, <3>2
    <3> QED
      BY <2>2, <2>3, <3>3, <3>4
  <2>4. ASSUME NEW v \in Grammar(mode)!At(R, q), y \in Beyond(mode, input, R, f, v)
        PROVE  \E n \in OpenCounts(f) : \E e \in ends({q}, n) : y \in Grammar(mode)!Stop(input, e)
    <3>1. PICK k \in OpenCounts(next(v)) :
            \E e \in ends({v}, k) : y \in Grammar(mode)!Stop(input, e)
      BY <2>2, <2>4
    <3>2. k \in Nat
      BY DEF OpenCounts
    <3>3. k + 1 \in OpenCounts(f)
      BY <1>5, <3>1, <3>2
    <3>4. ends({v}, k) \subseteq ends({q}, k + 1)
      BY <1>2, <3>2
    <3> QED
      BY <3>1, <3>3, <3>4
  <2> QED
    BY <2>1, <2>3, <2>4
<1> QED
  BY <1>6

-----------------------------------------------------------------------------
(* Where what a head opens may end.                                         *)

LEMMA Fresh ==
  ASSUME NEW kind, NEW p, NEW n
  PROVE  /\ Frame(kind, p, n).kind = kind /\ Frame(kind, p, n).items = n
         /\ Frame(kind, p, n).done = 0 /\ Frame(kind, p, n).previous = <<>>
         /\ Frame(kind, p, n).at = p /\ Frame(kind, p, n).from = p
BY DEF Frame

LEMMA OpenTag ==
  ASSUME IsInput(input), NEW R \in Rows, NEW p \in Nat, HeadError(p) = NoError,
         Major(p) = 6, Info(p) # 31
  PROVE  Around(R, p) = Remaining(mode, input, R, Frame("tag", p, 1), HeadEnd(p))
<1>0. /\ Len(input) \in Nat /\ HeadEnd(p) \in Positions /\ Indefinite # 1
  BY OpenIs DEF Positions, Indefinite
<1>1. Around(R, p) = Grammar(mode)!At(R, HeadEnd(p))
  BY AroundTag
<1>2. Remaining(mode, input, R, Frame("tag", p, 1), HeadEnd(p))
        = Grammar(mode)!After(R, {HeadEnd(p)}, 0 + 1)
  <2>1. 1 - 0 = 0 + 1 /\ "tag" # "map"
    OBVIOUS
  <2> QED
    BY <1>0, <2>1, Fresh DEF Remaining
<1>3. Grammar(mode)!After(R, {HeadEnd(p)}, 0 + 1)
        = UNION {Grammar(mode)!After(R, {q}, 0) : q \in Grammar(mode)!At(R, HeadEnd(p))}
  <2>1. 0 \in Nat
    OBVIOUS
  <2> QED
    BY <1>0, <2>1, AfterOne
<1>4. Grammar(mode)!At(R, HeadEnd(p)) \in SUBSET Positions
  BY <1>0, AtRow
<1>5. ASSUME NEW q \in Grammar(mode)!At(R, HeadEnd(p))
      PROVE  Grammar(mode)!After(R, {q}, 0) = {q}
  BY <1>0, <1>4, AfterNone
<1>6. UNION {Grammar(mode)!After(R, {q}, 0) : q \in Grammar(mode)!At(R, HeadEnd(p))}
        = Grammar(mode)!At(R, HeadEnd(p))
  BY <1>5
<1> QED
  BY <1>1, <1>2, <1>3, <1>6

KindOf(p) == IF Major(p) = 5 THEN "map" ELSE "array"

LEMMA OpenLong ==
  ASSUME IsInput(input), NEW R \in Rows, NEW p \in Nat, HeadError(p) = NoError,
         Major(p) \in {4, 5}, Argument(p) > MaxCollection
  PROVE  Around(R, p) = {}
<1>0. MaxCollection \in Nat
  BY SkipAssumption
<1>1. Argument(p) # Indefinite
  BY <1>0 DEF Indefinite
<1>2. ~Grammar(mode)!Open(input, p) /\ Grammar(mode)!N(input, p) = Argument(p)
      /\ Argument(p) \in Nat
  BY <1>1, OpenIs
<1>3. /\ Grammar(mode)!N(input, p) > MaxCollection
      /\ ~(Grammar(mode)!N(input, p) <= MaxCollection)
  BY <1>0, <1>2
<1>4. Grammar(mode)!Container(input, R, p) = {}
  BY <1>2, <1>3 DEF Grammar!Container
<1> QED
  BY <1>4, AroundContainer

LEMMA OpenCounted ==
  ASSUME IsInput(input), NEW R \in Rows, NEW p \in Nat, HeadError(p) = NoError,
         Major(p) \in {4, 5}, Argument(p) # Indefinite, ~(Argument(p) > MaxCollection),
         NEW f, f = Frame(KindOf(p), p, Argument(p) * PerEntry(KindOf(p)))
  PROVE  Around(R, p) = Remaining(mode, input, R, f, HeadEnd(p))
<1>0. MaxCollection \in Nat
  BY SkipAssumption
<1>1. /\ ~Grammar(mode)!Open(input, p) /\ Grammar(mode)!N(input, p) = Argument(p)
      /\ Grammar(mode)!End(input, p) = HeadEnd(p)
      /\ Argument(p) \in Nat /\ Grammar(mode)!Major(input, p) = Major(p)
  BY OpenIs, HeadOpen
<1>2. /\ Grammar(mode)!N(input, p) <= MaxCollection
      /\ ~(Grammar(mode)!N(input, p) > MaxCollection)
  BY <1>0, <1>1
<1>3. Grammar(mode)!PerEntry(input, p) = PerEntry(KindOf(p))
  BY <1>1 DEF Grammar!PerEntry, PerEntry, KindOf
<1>4. /\ f.kind = KindOf(p) /\ f.items = Argument(p) * PerEntry(KindOf(p))
      /\ f.done = 0 /\ f.previous = <<>>
  BY Fresh
<1>5. f.items \in Nat /\ f.items # Indefinite /\ f.items - f.done = f.items
  <2>1. PerEntry(KindOf(p)) \in {1, 2}
    BY DEF PerEntry
  <2>2. f.items \in Nat
    BY <1>1, <1>4, <2>1
  <2> QED
    BY <1>4, <2>2 DEF Indefinite
<1>6. CASE mode = "deterministic" /\ Major(p) = 5
  <2>1. Grammar(mode)!Container(input, R, p)
          = {e.to : e \in Grammar(mode)!Entries(input, R,
                      {[to |-> Grammar(mode)!End(input, p), key |-> <<>>]},
                      Grammar(mode)!N(input, p))}
    BY <1>1, <1>2, <1>6 DEF Grammar!Container
  <2>2. KindOf(p) = "map" /\ PerEntry(KindOf(p)) = 2
    BY <1>6 DEF KindOf, PerEntry
  <2>3. (f.items - f.done) \div 2 = Argument(p)
    BY <1>1, <1>4, <1>5, <2>2
  <2>4. Begun(mode, R, f, HeadEnd(p)) = {[to |-> HeadEnd(p), key |-> <<>>]}
    BY <1>4 DEF Begun
  <2>5. Remaining(mode, input, R, f, HeadEnd(p))
          = {e.to : e \in Grammar(mode)!Entries(input, R,
                      {[to |-> HeadEnd(p), key |-> <<>>]}, Argument(p))}
    BY <1>4, <1>5, <1>6, <2>2, <2>3, <2>4 DEF Remaining
  <2>6. Grammar(mode)!Container(input, R, p) = Remaining(mode, input, R, f, HeadEnd(p))
    BY <1>1, <2>1, <2>5, Zenon
  <2> QED
    BY <2>6, AroundContainer
<1>7. CASE ~(mode = "deterministic" /\ Major(p) = 5)
  <2>1. Grammar(mode)!Container(input, R, p)
          = Grammar(mode)!After(R, {Grammar(mode)!End(input, p)},
              Grammar(mode)!N(input, p) * Grammar(mode)!PerEntry(input, p))
    BY <1>1, <1>2, <1>7 DEF Grammar!Container
  <2>2. ~(mode = "deterministic" /\ f.kind = "map")
    BY <1>4, <1>7 DEF KindOf
  <2>3. Remaining(mode, input, R, f, HeadEnd(p))
          = Grammar(mode)!After(R, {HeadEnd(p)}, f.items)
    BY <1>5, <2>2 DEF Remaining
  <2>4. Grammar(mode)!Container(input, R, p) = Remaining(mode, input, R, f, HeadEnd(p))
    BY <1>1, <1>3, <1>4, <2>1, <2>3, Zenon
  <2> QED
    BY <2>4, AroundContainer
<1> QED
  BY <1>6, <1>7

LEMMA OpenIndefinite ==
  ASSUME IsInput(input), NEW R \in Rows, NEW p \in Nat, HeadError(p) = NoError,
         Major(p) \in {4, 5}, Argument(p) = Indefinite
  PROVE  Around(R, p) = IF mode = "deterministic" THEN {}
                        ELSE Remaining(mode, input, R, Frame(KindOf(p), p, Indefinite),
                                       HeadEnd(p))
<1>0. MaxCollection \in Nat
  BY SkipAssumption
<1>1. /\ Grammar(mode)!Open(input, p) /\ Grammar(mode)!Major(input, p) = Major(p)
      /\ Grammar(mode)!End(input, p) = HeadEnd(p)
  BY OpenIs, HeadOpen
<1>2. Grammar(mode)!PerEntry(input, p) = PerEntry(KindOf(p))
  BY <1>1 DEF Grammar!PerEntry, PerEntry, KindOf
<1> DEFINE f == Frame(KindOf(p), p, Indefinite)
           ends(n) == Grammar(mode)!After(R, {HeadEnd(p)}, n)
           numbers == {n \in 0..MaxCollection : ~(mode = "deterministic")}
<1>3. /\ f.kind = KindOf(p) /\ f.items = Indefinite /\ f.done = 0
      /\ MostItems(f) = MaxCollection * PerEntry(KindOf(p))
  BY Fresh DEF MostItems
<1>4. Grammar(mode)!Container(input, R, p)
        = UNION {Grammar(mode)!Stop(input, q) : q \in
            UNION {ends(n * PerEntry(KindOf(p))) : n \in numbers}}
  BY <1>1, <1>2 DEF Grammar!Container
<1>5. ASSUME NEW n
      PROVE  n \in OpenCounts(f) <=> \E m \in 0..MaxCollection : n = m * PerEntry(KindOf(p))
  <2>1. n \in OpenCounts(f) <=> /\ n \in Nat /\ 0 + n <= MaxCollection * PerEntry(KindOf(p))
                                /\ (0 + n) % PerEntry(KindOf(p)) = 0
    BY <1>3 DEF OpenCounts
  <2>2. CASE PerEntry(KindOf(p)) = 1
    <3>1. n \in Nat => n % 1 = 0 /\ n = n * 1
      OBVIOUS
    <3>2. \A m \in Nat : m * 1 = m
      OBVIOUS
    <3> QED
      BY <1>0, <2>1, <2>2, <3>1, <3>2
  <2>3. CASE PerEntry(KindOf(p)) = 2
    <3>1. ASSUME n \in OpenCounts(f)
          PROVE  \E m \in 0..MaxCollection : n = m * PerEntry(KindOf(p))
      <4>1. n \in Nat /\ n <= MaxCollection * 2 /\ n % 2 = 0
        BY <2>1, <2>3, <3>1
      <4>2. n \div 2 \in 0..MaxCollection /\ n = (n \div 2) * 2
        BY <1>0, <4>1
      <4> QED
        BY <2>3, <4>2
    <3>2. ASSUME NEW m \in 0..MaxCollection, n = m * PerEntry(KindOf(p))
          PROVE  n \in OpenCounts(f)
      BY <1>0, <2>1, <2>3, <3>2
    <3> QED
      BY <3>1, <3>2
  <2> QED
    BY <2>2, <2>3 DEF PerEntry
<1> HIDE DEF ends, f
<1>6. CASE mode = "deterministic"
  <2>1. numbers = {}
    BY <1>6
  <2>2. Grammar(mode)!Container(input, R, p) = {}
    BY <1>4, <2>1
  <2> QED
    BY <1>6, <2>2, AroundContainer
<1>7. CASE mode # "deterministic"
  <2>0. numbers = 0..MaxCollection
    BY <1>7
  <2> HIDE DEF numbers
  <2>1. Remaining(mode, input, R, f, HeadEnd(p))
          = UNION {Grammar(mode)!Stop(input, e) : e \in UNION {ends(n) : n \in OpenCounts(f)}}
    BY <1>3 DEF Remaining, ends
  <2>2. UNION {ends(n) : n \in OpenCounts(f)}
          = UNION {ends(n * PerEntry(KindOf(p))) : n \in numbers}
    <3>1. ASSUME NEW e
          PROVE  (\E n \in OpenCounts(f) : e \in ends(n))
                   <=> \E m \in numbers : e \in ends(m * PerEntry(KindOf(p)))
      BY <1>5, <2>0, Zenon
    <3> QED
      BY <3>1
  <2>3. Grammar(mode)!Container(input, R, p) = Remaining(mode, input, R, f, HeadEnd(p))
    BY <1>4, <2>1, <2>2, Zenon
  <2> QED
    BY <1>7, <2>3, AroundContainer DEF f
<1> QED
  BY <1>6, <1>7

-----------------------------------------------------------------------------
(* The grammar below the open frames.                                       *)

LEMMA InnerRows ==
  ASSUME IsInput(input), NEW d \in 0..(MaxDepth + 1)
  PROVE  Inner(mode, input, d) \in Rows
<1>1. MaxDepth + 1 - d \in Nat
  BY SkipAssumption
<1> QED
  BY <1>1, NestedStep DEF Inner

LEMMA ReachNone ==
  ASSUME IsInput(input), NEW d \in 0..(MaxDepth + 1), NEW p \in Positions,
         d > MaxDepth \/ p = Len(input) \/ Byte(p) = Break
  PROVE  Reach(mode, input, d, p) = {}
<1>1. MaxDepth + 1 - d \in Nat /\ (d > MaxDepth => MaxDepth + 1 - d = 0)
  BY SkipAssumption
<1> QED
  BY <1>1, NestedAt, NestedNone DEF Reach, Inner

LEMMA ReachAround ==
  ASSUME IsInput(input), NEW d \in 0..MaxDepth, NEW p \in Positions
  PROVE  /\ Reach(mode, input, d, p) = Around(Inner(mode, input, d + 1), p)
         /\ d \in 0..(MaxDepth + 1) /\ d + 1 \in 0..(MaxDepth + 1)
<1>0. MaxDepth \in Nat
  BY SkipAssumption
<1>1. PICK n \in Nat : MaxDepth + 1 - (d + 1) = n /\ MaxDepth + 1 - d = n + 1
  <2>1. MaxDepth - d \in Nat /\ MaxDepth + 1 - (d + 1) = MaxDepth - d
        /\ MaxDepth + 1 - d = (MaxDepth - d) + 1
    BY <1>0
  <2> QED
    BY <2>1
<1>2. d \in 0..(MaxDepth + 1) /\ d + 1 \in 0..(MaxDepth + 1)
  BY <1>0
<1>3. Grammar(mode)!At(Grammar(mode)!Nested(input, n + 1), p)
        = Around(Grammar(mode)!Nested(input, n), p)
  BY NestedAt
<1> QED
  BY <1>1, <1>2, <1>3 DEF Reach, Inner

LEMMA ReachPositions ==
  ASSUME IsInput(input), NEW d \in 0..(MaxDepth + 1), NEW p \in Positions
  PROVE  Reach(mode, input, d, p) \in SUBSET Positions
BY InputIsSeq, SkipAssumption, InnerRows, AtRow DEF Reach

LEMMA AcceptedIs == Accepted = EndsOf(0, 0)
<1>1. MaxDepth + 1 - 0 = MaxDepth + 1
  BY SkipAssumption
<1> QED
  BY <1>1 DEF Accepted, EndsOf, Reach, Inner, Start, Grammar!Ends, Grammar!Items

LInv(b) == IInv /\ WalkIInv(b)

LEMMA Placed ==
  ASSUME IInv
  PROVE  /\ IsInput(input) /\ Len(input) \in Nat
         /\ pos \in Nat /\ pos \in Positions
         /\ Depth \in Nat /\ Depth \in 0..(MaxDepth + 1) /\ MaxDepth \in Nat
         /\ (~Deep => Depth \in 0..MaxDepth)
         /\ (stack # <<>> <=> Depth # 0)
<1>1. stack \in Seq(FrameRecord) /\ Depth <= MaxDepth + 1 /\ MaxDepth \in Nat
  BY SkipAssumption DEF IInv, TypeOK, DepthBounded
<1>2. Depth \in Nat /\ (stack # <<>> <=> Depth # 0)
  BY <1>1 DEF Depth
<1>3. Depth \in 0..(MaxDepth + 1) /\ (~Deep => Depth \in 0..MaxDepth)
  BY <1>1, <1>2 DEF Deep
<1> QED
  BY <1>1, <1>2, <1>3, State DEF Positions

LEMMA FramePlaced ==
  ASSUME IInv, NEW i \in 1..Depth
  PROVE  /\ stack[i] \in FrameRecord /\ FrameOK(stack[i])
         /\ stack[i].at \in Positions /\ stack[i].from \in Positions
<1>1. stack \in Seq(FrameRecord) /\ Len(input) \in Nat /\ MaxLen \in Nat
  BY State DEF IInv, TypeOK
<1>2. stack[i] \in FrameRecord
  BY <1>1 DEF Depth
<1>3. FrameOK(stack[i])
  BY DEF IInv, StackOK
<1>4. /\ stack[i].at \in 0..MaxLen /\ stack[i].from \in 0..MaxLen
      /\ stack[i].at <= Len(input) /\ stack[i].from <= Len(input)
  BY <1>2, <1>3 DEF FrameRecord, FrameOK
<1> QED
  BY <1>1, <1>2, <1>3, <1>4 DEF Positions

LEMMA StartPlaced ==
  ASSUME IInv, NEW b \in Positions, NEW i \in 0..Depth
  PROVE  Start(b, i) \in Positions
<1>1. CASE i = 0
  BY <1>1, State DEF Start, Positions
<1>2. CASE i # 0
  <2>1. i \in 1..Depth
    BY <1>2, Placed
  <2> QED
    BY <1>2, <2>1, FramePlaced DEF Start
<1> QED
  BY <1>1, <1>2

(* When nothing is left of an inner frame, nothing is left of the outer ones. *)
LEMMA Collapse ==
  ASSUME IInv, NEW b, NEW d \in 0..Depth,
         \A i \in 1..d : Linked(b, i), EndsOf(b, d) = {}
  PROVE  EndsOf(b, 0) = {}
<1>0. Depth \in Nat
  BY Placed
<1> DEFINE T == {k \in Nat : k <= d /\ EndsOf(b, k) = {}}
<1>1. d \in T /\ T \subseteq Nat /\ T # {}
  BY <1>0
<1>2. \A k \in Nat : k \in T <=> k <= d /\ EndsOf(b, k) = {}
  OBVIOUS
<1> HIDE DEF T
<1>3. PICK m \in T : \A k \in T : m <= k
  BY <1>1, Least
<1>4. m \in Nat /\ m <= d /\ EndsOf(b, m) = {}
  BY <1>1, <1>2, <1>3
<1>5. m = 0
  <2>1. SUFFICES ASSUME m # 0 PROVE FALSE
    OBVIOUS
  <2>2. m \in 1..d /\ m - 1 \in Nat /\ m - 1 <= d /\ ~(m <= m - 1)
    BY <1>0, <1>4, <2>1
  <2>3. EndsOf(b, m - 1) = UNION {LeftBeyond(mode, input, m, stack[m], e) : e \in EndsOf(b, m)}
    BY <2>2 DEF Linked
  <2>4. EndsOf(b, m - 1) = {}
    BY <1>4, <2>3
  <2> QED
    BY <1>2, <1>3, <2>2, <2>4
<1> QED
  BY <1>4, <1>5, AcceptedIs

(* What the frames say of the state stays when stack and slice do.           *)
LEMMA SameLinks ==
  ASSUME IInv, NEW b, NEW n \in Nat, n <= Len(stack), UNCHANGED <<input, mode>>,
         \A i \in 1..n : stack'[i] = stack[i]
  PROVE  /\ \A i \in 0..n : Start(b, i)' = Start(b, i) /\ EndsOf(b, i)' = EndsOf(b, i)
         /\ \A i \in 1..n : Linked(b, i)' <=> Linked(b, i)
<1>1. ASSUME NEW i \in 0..n
      PROVE  Start(b, i)' = Start(b, i)
  <2>1. i # 0 => i \in 1..n
    OBVIOUS
  <2> QED
    BY <2>1 DEF Start
<1>2. ASSUME NEW i \in 0..n
      PROVE  EndsOf(b, i)' = EndsOf(b, i)
  BY <1>1 DEF EndsOf
<1>3. ASSUME NEW i \in 1..n
      PROVE  Linked(b, i)' <=> Linked(b, i)
  <2>1. i \in 0..n /\ i - 1 \in 0..n
    OBVIOUS
  <2>2. EndsOf(b, i)' = EndsOf(b, i) /\ EndsOf(b, i - 1)' = EndsOf(b, i - 1)
    BY <1>2, <2>1
  <2> QED
    BY <2>2 DEF Linked
<1> QED
  BY <1>1, <1>2, <1>3

-----------------------------------------------------------------------------
(* What the endings of the actions do to the invariant.                     *)

LEMMA LinksOf ==
  ASSUME NEW b, WalkIInv(b), NEW i \in 1..Depth
  PROVE  /\ Paired(stack[i]) /\ stack[i].at = Start(b, i - 1)
         /\ i < Depth \/ phase \in {"item", "chunks", "done"} =>
              stack[i].at < stack[i].from /\ Linked(b, i)
BY DEF WalkIInv, FramesLinked

LEMMA BaseStays ==
  ASSUME NEW b, LInv(b), UNCHANGED input
  PROVE  (b \in 0..Len(input))'
BY DEF LInv, WalkIInv

(* A walk fails where the grammar has nothing.                              *)
LEMMA FailLanguage ==
  ASSUME NEW b, LInv(b), phase # "stop", EndsOf(b, 0) = {}, NEW error, error.tag # "ok",
         Fail(error), UNCHANGED <<input, mode>>
  PROVE  WalkIInv(b)'
<1>0. Depth \in Nat
  BY Placed DEF LInv
<1>1. phase' = "stop" /\ outcome' = error /\ stack' = stack /\ pos' = pos
  BY DEF Fail
<1>2. /\ \A i \in 0..Depth : Start(b, i)' = Start(b, i) /\ EndsOf(b, i)' = EndsOf(b, i)
      /\ \A i \in 1..Depth : Linked(b, i)' <=> Linked(b, i)
  <2>1. Depth <= Len(stack)
    BY <1>0 DEF Depth
  <2> QED
    BY <1>0, <1>1, <2>1, SameLinks DEF LInv
<1>3. FramesLinked(b)'
  <2>1. ASSUME NEW i \in 1..Depth
        PROVE  /\ Paired(stack[i]) /\ stack[i].at = Start(b, i - 1)'
               /\ i < Depth => stack[i].at < stack[i].from /\ Linked(b, i)'
    <3>1. i - 1 \in 0..Depth
      BY <1>0
    <3> QED
      BY <1>2, <3>1, LinksOf DEF LInv
  <2>2. Depth' = Depth
    BY <1>1 DEF Depth
  <2> QED
    BY <1>1, <2>1, <2>2 DEF FramesLinked
<1>5. EndsOf(b, 0)' = {}
  BY <1>0, <1>2
<1>4. Decided(b)'
  BY <1>1, <1>5 DEF Decided
<1> QED
  BY <1>1, <1>3, <1>4, BaseStays DEF WalkIInv

InItem == phase \in {"item", "chunks", "done"}

LEMMA FailInside ==
  ASSUME NEW b, LInv(b), InItem, EndsOf(b, Depth) = {}, NEW error, error.tag # "ok",
         Fail(error), UNCHANGED <<input, mode>>
  PROVE  WalkIInv(b)'
<1>1. \A i \in 1..Depth : Linked(b, i)
  BY LinksOf DEF LInv, InItem
<1>2. Depth \in 0..Depth
  BY Placed DEF LInv
<1>3. EndsOf(b, 0) = {}
  BY <1>1, <1>2, Collapse DEF LInv
<1> QED
  BY <1>3, FailLanguage DEF InItem

LEMMA FailBetween ==
  ASSUME NEW b, LInv(b), stack # <<>>, phase # "stop", EndsOf(b, Depth - 1) = {}, NEW error,
         error.tag # "ok", Fail(error), UNCHANGED <<input, mode>>
  PROVE  WalkIInv(b)'
<1>0. Depth \in Nat /\ Depth # 0
  BY Placed DEF LInv
<1>1. \A i \in 1..(Depth - 1) : Linked(b, i)
  <2>1. ASSUME NEW i \in 1..(Depth - 1)
        PROVE  i \in 1..Depth /\ i < Depth
    BY <1>0
  <2> QED
    BY <2>1, LinksOf DEF LInv
<1>2. Depth - 1 \in 0..Depth
  BY <1>0
<1>3. EndsOf(b, 0) = {}
  BY <1>1, <1>2, Collapse DEF LInv
<1> QED
  BY <1>3, FailLanguage

(* An item ends where the grammar ends it.                                  *)
LEMMA CompleteLanguage ==
  ASSUME NEW b, LInv(b), InItem, NEW p \in Nat, EndsOf(b, Depth) = {p}, p > Start(b, Depth),
         Complete(p), UNCHANGED <<input, mode>>
  PROVE  WalkIInv(b)'
<1>0. Depth \in Nat
  BY Placed DEF LInv
<1>1. phase' = "done" /\ pos' = p /\ stack' = stack
  BY DEF Complete
<1>2. /\ \A i \in 0..Depth : Start(b, i)' = Start(b, i) /\ EndsOf(b, i)' = EndsOf(b, i)
      /\ \A i \in 1..Depth : Linked(b, i)' <=> Linked(b, i)
  <2>1. Depth <= Len(stack)
    BY <1>0 DEF Depth
  <2> QED
    BY <1>0, <1>1, <2>1, SameLinks DEF LInv
<1>d. Depth' = Depth
  BY <1>1 DEF Depth
<1>3. FramesLinked(b)'
  <2>1. ASSUME NEW i \in 1..Depth
        PROVE  /\ Paired(stack[i]) /\ stack[i].at = Start(b, i - 1)'
               /\ stack[i].at < stack[i].from /\ Linked(b, i)'
    <3>1. i - 1 \in 0..Depth
      BY <1>0
    <3> QED
      BY <1>2, <3>1, LinksOf DEF LInv, InItem
  <2> QED
    BY <1>1, <1>d, <2>1 DEF FramesLinked
<1>4. (Start(b, Depth))' = Start(b, Depth) /\ (EndsOf(b, Depth))' = EndsOf(b, Depth)
  <2>1. (Start(b, Depth))' = Start(b, Depth)
    BY <1>1, <1>d DEF Start
  <2> QED
    BY <1>d, <2>1 DEF EndsOf
<1> QED
  BY <1>1, <1>3, <1>4, BaseStays DEF WalkIInv, Decided

LEMMA OpenLanguage ==
  ASSUME NEW b, LInv(b), phase = "item", NEW f, f.at = pos, Paired(f), HeadEnd(pos) > pos,
         EndsOf(b, Depth) = Left(mode, input, Depth + 1, f, HeadEnd(pos)),
         f \in FrameRecord, Open(f), UNCHANGED <<input, mode>>
  PROVE  WalkIInv(b)'
<1>0. Depth \in Nat /\ Depth = Len(stack) /\ stack \in Seq(FrameRecord)
  BY Placed DEF LInv, Depth, IInv, TypeOK
<1>1. phase' = "next" /\ pos' = HeadEnd(pos) /\ stack' = Append(stack, f)
  BY DEF Open
<1>2. /\ Depth' = Depth + 1 /\ Top' = f /\ stack'[Depth + 1] = f
      /\ \A i \in 1..Depth : stack'[i] = stack[i]
  BY <1>0, <1>1, Pushed DEF Depth, Top
<1>3. /\ \A i \in 0..Depth : Start(b, i)' = Start(b, i) /\ EndsOf(b, i)' = EndsOf(b, i)
      /\ \A i \in 1..Depth : Linked(b, i)' <=> Linked(b, i)
  <2>1. Depth <= Len(stack)
    BY <1>0
  <2> QED
    BY <1>0, <1>2, <2>1, SameLinks DEF LInv
<1>4. FramesLinked(b)'
  <2>1. ASSUME NEW i \in 1..(Depth + 1)
        PROVE  /\ Paired(stack'[i]) /\ stack'[i].at = Start(b, i - 1)'
               /\ i < Depth + 1 => stack'[i].at < stack'[i].from /\ Linked(b, i)'
    <3>1. CASE i \in 1..Depth
      <4>1. i - 1 \in 0..Depth
        BY <1>0
      <4> QED
        BY <1>2, <1>3, <3>1, <4>1, LinksOf DEF LInv
    <3>2. CASE i = Depth + 1
      <4>1. i - 1 = Depth
        BY <1>0, <3>2
      <4>2. pos = Start(b, Depth)
        BY DEF LInv, WalkIInv
      <4>3. Start(b, i - 1)' = Start(b, Depth)
        <5>1. i - 1 \in 0..Depth
          BY <1>0, <3>2
        <5> QED
          BY <1>3, <4>1, <5>1
      <4> QED
        BY <1>0, <1>2, <3>2, <4>2, <4>3
    <3> QED
      BY <1>0, <3>1, <3>2
  <2> QED
    BY <1>1, <1>2, <2>1 DEF FramesLinked
<1>5. (EndsOf(b, Depth - 1))' = EndsOf(b, Depth)
  <2>1. Depth \in 0..Depth /\ Depth + 1 - 1 = Depth
    BY <1>0
  <2>2. PICK n \in 0..Depth : n = Depth
    BY <2>1
  <2>3. Depth' - 1 = n
    BY <1>2, <2>1, <2>2
  <2>4. (EndsOf(b, Depth - 1))' = EndsOf(b, n)'
    BY <2>3 DEF EndsOf, Start
  <2> QED
    BY <1>3, <2>2, <2>4
<1>6. (Left(mode, input, Depth, Top, pos))' = Left(mode, input, Depth + 1, f, HeadEnd(pos))
  BY <1>1, <1>2
<1>7. Top'.at < pos'
  BY <1>0, <1>1, <1>2, Placed, HeadEndNat DEF LInv
<1> QED
  BY <1>1, <1>4, <1>5, <1>6, <1>7, BaseStays DEF WalkIInv, Decided

LEMMA CloseLanguage ==
  ASSUME NEW b, LInv(b), phase = "next", stack # <<>>, NEW p \in Nat, p >= pos,
         EndsOf(b, Depth - 1) = {p}, Close(p), UNCHANGED <<input, mode>>
  PROVE  WalkIInv(b)'
<1>0. /\ Depth \in Nat /\ Depth # 0 /\ Depth = Len(stack) /\ stack \in Seq(FrameRecord)
      /\ pos \in Nat
  BY Placed DEF LInv, Depth, IInv, TypeOK
<1> DEFINE n == Depth - 1
<1>1. phase' = "done" /\ pos' = p /\ stack' = SubSeq(stack, 1, n)
  BY DEF Close, Pop
<1>2. /\ n \in Nat /\ Depth' = n
      /\ \A i \in 1..n : stack'[i] = stack[i]
  <2>1. n \in Nat
    BY <1>0
  <2>2. n = Len(stack) - 1
    BY <1>0
  <2> HIDE DEF n
  <2> QED
    BY <1>0, <1>1, <2>1, <2>2, Popped DEF Depth
<1>3. /\ \A i \in 0..n : Start(b, i)' = Start(b, i) /\ EndsOf(b, i)' = EndsOf(b, i)
      /\ \A i \in 1..n : Linked(b, i)' <=> Linked(b, i)
  <2>1. n <= Len(stack)
    BY <1>0
  <2> HIDE DEF n
  <2> QED
    BY <1>2, <2>1, SameLinks DEF LInv
<1>4. FramesLinked(b)'
  <2>1. ASSUME NEW i \in 1..n
        PROVE  /\ Paired(stack'[i]) /\ stack'[i].at = Start(b, i - 1)'
               /\ stack'[i].at < stack'[i].from /\ Linked(b, i)'
    <3>1. i - 1 \in 0..n /\ i \in 1..Depth /\ i < Depth
      BY <1>0
    <3>2. /\ Paired(stack[i]) /\ stack[i].at = Start(b, i - 1)
          /\ stack[i].at < stack[i].from /\ Linked(b, i)
      BY <3>1, LinksOf DEF LInv
    <3> HIDE DEF n
    <3> QED
      BY <1>2, <1>3, <3>1, <3>2
  <2> HIDE DEF n
  <2> QED
    BY <1>1, <1>2, <2>1 DEF FramesLinked
<1>5. PICK m \in 0..n : m = n
  BY <1>2
<1>6. (Start(b, Depth))' = Start(b, n) /\ (EndsOf(b, Depth))' = EndsOf(b, n)
  <2>1. Start(b, m)' = Start(b, m) /\ EndsOf(b, m)' = EndsOf(b, m)
    BY <1>3
  <2>2. (Start(b, Depth))' = Start(b, m)'
    BY <1>2, <1>5 DEF Start
  <2>3. (EndsOf(b, Depth))' = EndsOf(b, m)'
    BY <1>2, <1>5, <2>2 DEF EndsOf
  <2> QED
    BY <1>5, <2>1, <2>2, <2>3
<1>7. Start(b, n) < p
  <2>1. Top.at < pos
    BY <1>0, FramePlaced DEF LInv, WalkIInv
  <2>2. Top.at = Start(b, n) /\ Top.at \in Nat
    <3>1. Depth \in 1..Depth
      BY <1>0
    <3>2. stack[Depth].at \in Nat
      BY <3>1, FramePlaced DEF LInv, Positions
    <3> QED
      BY <3>1, <3>2, LinksOf DEF LInv, Top
  <2> HIDE DEF n
  <2> QED
    BY <1>0, <2>1, <2>2
<1> HIDE DEF n
<1> QED
  BY <1>1, <1>2, <1>4, <1>6, <1>7, BaseStays DEF WalkIInv, Decided, n

(* What is left of a container does not depend on where its item began.      *)
LEMMA RemainingSame ==
  ASSUME NEW R, NEW q, NEW f, NEW g, g.kind = f.kind, g.items = f.items,
         g.done = f.done, g.previous = f.previous
  PROVE  Remaining(mode, input, R, f, q) = Remaining(mode, input, R, g, q)
<1>1. OpenCounts(f) = OpenCounts(g)
  BY DEF OpenCounts, MostItems
<1>2. Begun(mode, R, f, q) = Begun(mode, R, g, q)
  BY DEF Begun
<1> QED
  BY <1>1, <1>2 DEF Remaining

(* The innermost frame is replaced by one of the same item.                  *)
LEMMA TopReplaced ==
  ASSUME NEW b, LInv(b), stack # <<>>, NEW g \in FrameRecord, g.at = Top.at, Paired(g),
         stack' = WithTop(g), UNCHANGED <<input, mode>>
  PROVE  /\ Depth' = Depth /\ Top' = g /\ stack'[Depth] = g
         /\ Depth \in Nat /\ Depth # 0
         /\ (EndsOf(b, Depth - 1))' = EndsOf(b, Depth - 1)
         /\ \A i \in 1..Depth :
              /\ Paired(stack'[i]) /\ stack'[i].at = Start(b, i - 1)'
              /\ i < Depth => stack'[i].at < stack'[i].from /\ Linked(b, i)'
<1>0. /\ Depth \in Nat /\ Depth # 0 /\ Depth = Len(stack) /\ stack \in Seq(FrameRecord)
  BY Placed DEF LInv, Depth, IInv, TypeOK
<1> DEFINE n == Depth - 1
<1>n. n \in Nat /\ n <= Len(stack) /\ n + 1 = Depth
  BY <1>0
<1>1. stack' = [stack EXCEPT ![Len(stack)] = g]
  BY <1>0 DEF WithTop
<1>2. /\ Depth' = Depth /\ Top' = g /\ stack'[Depth] = g
      /\ \A i \in 1..n : stack'[i] = stack[i]
  BY <1>0, <1>1, Replaced DEF Depth, Top
<1>3. /\ \A i \in 0..n : Start(b, i)' = Start(b, i) /\ EndsOf(b, i)' = EndsOf(b, i)
      /\ \A i \in 1..n : Linked(b, i)' <=> Linked(b, i)
  <2> HIDE DEF n
  <2> QED
    BY <1>2, <1>n, SameLinks DEF LInv
<1>4. ASSUME NEW i \in 1..Depth
      PROVE  /\ Paired(stack'[i]) /\ stack'[i].at = Start(b, i - 1)'
             /\ i < Depth => stack'[i].at < stack'[i].from /\ Linked(b, i)'
  <2>1. i - 1 \in 0..n
    BY <1>0
  <2>2. /\ Paired(stack[i]) /\ stack[i].at = Start(b, i - 1)
        /\ i < Depth => stack[i].at < stack[i].from /\ Linked(b, i)
    BY LinksOf DEF LInv
  <2>3. CASE i \in 1..n
    <3> HIDE DEF n
    <3> QED
      BY <1>2, <1>3, <2>1, <2>2, <2>3
  <2>4. CASE i = Depth
    <3> HIDE DEF n
    <3> QED
      BY <1>2, <1>3, <2>1, <2>2, <2>4 DEF Top
  <2> QED
    BY <1>0, <2>3, <2>4
<1>5. (EndsOf(b, Depth - 1))' = EndsOf(b, Depth - 1)
  <2>1. PICK m \in 0..n : m = n
    BY <1>n
  <2>2. Depth' - 1 = m
    BY <1>2, <2>1
  <2>3. (EndsOf(b, Depth - 1))' = EndsOf(b, m)'
    BY <2>2 DEF EndsOf, Start
  <2> QED
    BY <1>3, <2>1, <2>3
<1> QED
  BY <1>0, <1>2, <1>4, <1>5

LEMMA TopNext ==
  ASSUME NEW b, LInv(b), stack # <<>>, NEW g \in FrameRecord, g.at = Top.at, Paired(g),
         g.at < pos, EndsOf(b, Depth - 1) = Left(mode, input, Depth, g, pos),
         stack' = WithTop(g), phase' = "next",
         UNCHANGED <<input, mode, pos, string, outcome>>
  PROVE  WalkIInv(b)'
<1>1. /\ Depth' = Depth /\ Top' = g /\ stack'[Depth] = g
      /\ (EndsOf(b, Depth - 1))' = EndsOf(b, Depth - 1)
      /\ \A i \in 1..Depth :
              /\ Paired(stack'[i]) /\ stack'[i].at = Start(b, i - 1)'
              /\ i < Depth => stack'[i].at < stack'[i].from /\ Linked(b, i)'
  BY TopReplaced
<1>2. FramesLinked(b)'
  BY <1>1 DEF FramesLinked
<1>3. (Left(mode, input, Depth, Top, pos))' = Left(mode, input, Depth, g, pos)
  BY <1>1
<1> QED
  BY <1>1, <1>2, <1>3, BaseStays DEF WalkIInv, Decided

LEMMA TopItem ==
  ASSUME NEW b, LInv(b), stack # <<>>, NEW g \in FrameRecord, g.at = Top.at, Paired(g),
         g.at < pos, g.from = pos,
         EndsOf(b, Depth - 1) = UNION {LeftBeyond(mode, input, Depth, g, e) :
                                     e \in Reach(mode, input, Depth, pos)},
         stack' = WithTop(g), phase' = "item",
         UNCHANGED <<input, mode, pos, string, outcome>>
  PROVE  WalkIInv(b)'
<1>1. /\ Depth' = Depth /\ Top' = g /\ stack'[Depth] = g
      /\ Depth \in Nat /\ Depth # 0
      /\ (EndsOf(b, Depth - 1))' = EndsOf(b, Depth - 1)
      /\ \A i \in 1..Depth :
              /\ Paired(stack'[i]) /\ stack'[i].at = Start(b, i - 1)'
              /\ i < Depth => stack'[i].at < stack'[i].from /\ Linked(b, i)'
  BY TopReplaced
<1>2. PICK d \in 1..Depth : d = Depth
  BY <1>1
<1>3. d # 0
  BY <1>2
<1>4. Start(b, d)' = pos
  BY <1>1, <1>2, <1>3 DEF Start
<1>5. EndsOf(b, d)' = Reach(mode, input, d, pos)
  BY <1>4 DEF EndsOf
<1>6. EndsOf(b, d - 1)' = EndsOf(b, Depth - 1)
  <2>1. EndsOf(b, d - 1)' = (EndsOf(b, Depth - 1))'
    BY <1>1, <1>2 DEF EndsOf, Start
  <2> QED
    BY <1>1, <2>1
<1>7. Linked(b, d)'
  <2>1. EndsOf(b, d - 1)' = UNION {LeftBeyond(mode, input, d, g, e) : e \in EndsOf(b, d)'}
    BY <1>2, <1>5, <1>6
  <2>2. stack'[d] = g
    BY <1>1, <1>2
  <2> QED
    BY <2>1, <2>2 DEF Linked
<1>8. FramesLinked(b)'
  <2>1. stack'[d].at < stack'[d].from
    BY <1>1, <1>2
  <2>2. ASSUME NEW i \in 1..Depth'
        PROVE  /\ Paired(stack'[i]) /\ stack'[i].at = Start(b, i - 1)'
               /\ stack'[i].at < stack'[i].from /\ Linked(b, i)'
    BY <1>1, <1>2, <1>7, <2>1, <2>2
  <2> QED
    BY <2>2 DEF FramesLinked
<1>9. pos' = (Start(b, Depth))'
  <2>1. (Start(b, Depth))' = Start(b, d)'
    BY <1>1, <1>2 DEF Start
  <2> QED
    BY <1>4, <2>1
<1> QED
  BY <1>1, <1>8, <1>9, BaseStays DEF WalkIInv, Decided

(* The loop of a container: what its innermost frame was linked with.        *)
LEMMA TopLinked ==
  ASSUME NEW b, LInv(b), stack # <<>>
  PROVE  /\ Depth \in Nat /\ Depth # 0 /\ Depth \in 1..Depth
         /\ Top \in FrameRecord /\ FrameOK(Top) /\ Paired(Top)
         /\ Top.at \in Nat /\ Top.from \in Nat
         /\ Top.at \in Positions /\ Top.from \in Positions
         /\ Start(b, Depth) = Top.from
         /\ (phase = "done" \/ phase = "item") => Top.at < Top.from
         /\ phase = "done" =>
              EndsOf(b, Depth - 1)
                = UNION {LeftBeyond(mode, input, Depth, Top, e) : e \in EndsOf(b, Depth)}
<1>1. Depth \in Nat /\ Depth # 0
  BY Placed DEF LInv
<1>2. Depth \in 1..Depth
  BY <1>1
<1>3. /\ Top \in FrameRecord /\ FrameOK(Top)
      /\ Top.at \in Positions /\ Top.from \in Positions
  BY <1>2, FramePlaced DEF LInv, Top
<1>4. Top.at \in Nat /\ Top.from \in Nat
  BY <1>3, State DEF Positions, LInv
<1>5. Paired(Top)
  BY <1>2, LinksOf DEF LInv, Top
<1>6. Start(b, Depth) = Top.from
  BY <1>1 DEF Start, Top
<1>7. (phase = "done" \/ phase = "item") => Top.at < Top.from /\ Linked(b, Depth)
  BY <1>2, LinksOf DEF LInv, Top
<1> QED
  BY <1>1, <1>2, <1>3, <1>4, <1>5, <1>6, <1>7 DEF Linked, Top

LEMMA ItemDoneLanguage ==
  ASSUME NEW b, LInv(b), ItemDone, UNCHANGED <<input, mode>>
  PROVE  WalkIInv(b)'
<1> DEFINE key == SubSeq(input, Top.from + 1, pos)
           ordered == mode = "deterministic" /\ IsKey(Top)
           last == IF ordered THEN key ELSE Top.previous
           counted == [Top EXCEPT !.done = @ + 1,
                                  !.previous = IF ordered THEN key ELSE @]
           over == /\ Top.items = Indefinite /\ mode # "value"
                   /\ counted.done > MaxCollection * PerEntry(Top.kind)
           wrong == ordered /\ Top.previous # <<>> /\ ~Before(Top.previous, key)
<1>1. phase = "done" /\ stack # <<>>
  BY DEF ItemDone
<1>2. /\ Depth \in Nat /\ Depth # 0
      /\ Top \in FrameRecord /\ Paired(Top)
      /\ Top.at \in Nat /\ Top.from \in Nat /\ Top.from \in Positions
      /\ Top.at < Top.from /\ Start(b, Depth) = Top.from
      /\ EndsOf(b, Depth - 1)
           = UNION {LeftBeyond(mode, input, Depth, Top, e) : e \in EndsOf(b, Depth)}
  BY <1>1, TopLinked
<1>3. EndsOf(b, Depth) = {pos} /\ Top.from < pos /\ pos \in Nat /\ pos \in Positions
  BY <1>1, <1>2, Placed DEF LInv, WalkIInv
<1>4. EndsOf(b, Depth - 1) = LeftBeyond(mode, input, Depth, Top, pos)
  BY <1>2, <1>3
<1>5. key \in Seq(Bytes) /\ key # <<>>
  <2>1. key = Key(Top.from, pos)
    BY DEF Key
  <2>2. Key(Top.from, pos) \in Seq(Bytes) /\ Len(Key(Top.from, pos)) = pos - Top.from
    BY <1>2, <1>3, KeyIs, Placed DEF LInv
  <2>3. pos - Top.from # 0
    BY <1>2, <1>3
  <2> HIDE DEF key
  <2> QED
    BY <2>1, <2>2, <2>3
<1>6. last \in Seq(Bytes)
  <2> HIDE DEF key, ordered
  <2> QED
    BY <1>2, <1>5 DEF FrameRecord
<1>7. /\ counted \in FrameRecord
      /\ counted.kind = Top.kind /\ counted.at = Top.at /\ counted.from = Top.from
      /\ counted.items = Top.items /\ counted.done = Top.done + 1
  <2>1. counted = [Top EXCEPT !.done = Top.done + 1, !.previous = last]
    <3> HIDE DEF key, ordered
    <3> QED
      OBVIOUS
  <2> HIDE DEF last, counted
  <2> QED
    BY ZenonT(60), <1>2, <1>6, <2>1, Counted
<1>8. counted = Advanced(mode, input, Top, pos)
  BY DEF Advanced
<1>9. Unordered(mode, input, Top, pos) <=> wrong
  <2>1. Top.previous \in Seq(Bytes)
    BY <1>2 DEF FrameRecord
  <2>2. Before(Top.previous, key) <=> Grammar(mode)!Less(Top.previous, key)
    <3> HIDE DEF key
    <3> QED
      BY <1>5, <2>1, OrderIs
  <2>3. Top.previous = <<>> => Grammar(mode)!Less(Top.previous, key)
    <3>1. SUFFICES ASSUME Top.previous = <<>>
                   PROVE  Grammar(mode)!Less(<<>>, key)
      BY <3>1
    <3> HIDE DEF key
    <3> QED
      BY <1>5 DEF Grammar!Less
  <2>4. Unordered(mode, input, Top, pos) <=> ordered /\ ~Grammar(mode)!Less(Top.previous, key)
    BY DEF Unordered
  <2> HIDE DEF key, ordered
  <2> QED
    BY <2>2, <2>3, <2>4
<1>10. CASE wrong
  <2>1. EndsOf(b, Depth - 1) = {}
    BY <1>4, <1>9, <1>10 DEF LeftBeyond, Beyond
  <2>2. Fail(Error("nondeterministic", Top.from))
    BY <1>10 DEF ItemDone
  <2>3. Error("nondeterministic", Top.from).tag # "ok"
    BY DEF Error
  <2> HIDE DEF wrong
  <2> QED
    BY <1>1, <2>1, <2>2, <2>3, FailBetween
<1> DEFINE R == Inner(mode, input, Depth)
<1>11. EndsOf(b, Depth - 1) = Remaining(mode, input, R, counted, pos) \/ wrong
  <2> HIDE DEF wrong, counted
  <2> QED
    BY <1>4, <1>8, <1>9 DEF LeftBeyond, Beyond
<1>12. CASE ~wrong /\ over
  <2>1. counted.items = Indefinite /\ counted.done > MostItems(counted)
    <3> HIDE DEF counted
    <3> QED
      BY <1>7, <1>12 DEF MostItems
  <2>2. EndsOf(b, Depth - 1) = {}
    <3> HIDE DEF counted, wrong, over
    <3> QED
      BY <1>7, <1>11, <1>12, <2>1, RemainingOver
  <2>3. Fail(Error("limit", Top.at))
    BY <1>12 DEF ItemDone
  <2>4. Error("limit", Top.at).tag # "ok"
    BY DEF Error
  <2> HIDE DEF wrong, over
  <2> QED
    BY <1>1, <2>2, <2>3, <2>4, FailBetween
<1>13. CASE ~wrong /\ ~over
  <2>1. /\ stack' = WithTop(counted) /\ phase' = "next"
        /\ UNCHANGED <<pos, string, outcome>>
    BY <1>13 DEF ItemDone
  <2>2. Paired(counted)
    <3> HIDE DEF counted
    <3> QED
      BY <1>2, <1>7 DEF Paired
  <2>3. EndsOf(b, Depth - 1) = Left(mode, input, Depth, counted, pos)
    BY <1>11, <1>13 DEF Left
  <2>4. counted.at < pos
    <3> HIDE DEF counted
    <3> QED
      BY <1>2, <1>3, <1>7
  <2> HIDE DEF counted, wrong, over
  <2> QED
    BY <1>1, <1>7, <2>1, <2>2, <2>3, <2>4, TopNext
<1> QED
  BY <1>10, <1>12, <1>13

(* At the head of the loop of a container.                                   *)
LEMMA LoopHead ==
  ASSUME NEW b, LInv(b), phase = "next"
  PROVE  /\ IsInput(input) /\ stack # <<>> /\ Depth \in 0..(MaxDepth + 1)
         /\ pos \in Nat /\ pos \in Positions /\ Len(input) \in Nat
         /\ Top \in FrameRecord /\ FrameOK(Top) /\ Paired(Top) /\ Top.at < pos
         /\ Inner(mode, input, Depth) \in Rows
         /\ EndsOf(b, Depth - 1) = Remaining(mode, input, Inner(mode, input, Depth), Top, pos)
         /\ Top.items = Indefinite => Top.kind # "tag" /\ Top.done <= MostItems(Top)
<1>1. stack # <<>>
  BY DEF LInv, IInv
<1>2. /\ IsInput(input) /\ Depth \in 0..(MaxDepth + 1)
      /\ pos \in Nat /\ pos \in Positions /\ Len(input) \in Nat
  BY Placed DEF LInv
<1>3. Top \in FrameRecord /\ FrameOK(Top) /\ Paired(Top) /\ Top.at \in Nat
  BY <1>1, TopLinked
<1>4. Top.at < pos /\ EndsOf(b, Depth - 1) = Left(mode, input, Depth, Top, pos)
  BY <1>2, <1>3 DEF LInv, WalkIInv
<1>5. Inner(mode, input, Depth) \in Rows
  BY <1>2, InnerRows
<1>6. Top.items = Indefinite => Top.kind # "tag" /\ Top.done <= MostItems(Top)
  BY <1>3 DEF FrameOK, Indefinite
<1> QED
  BY <1>1, <1>2, <1>3, <1>4, <1>5, <1>6 DEF Left

LEMMA ContainerEndsLanguage ==
  ASSUME NEW b, LInv(b), ContainerEnds, UNCHANGED <<input, mode>>
  PROVE  WalkIInv(b)'
<1>1. phase = "next" /\ Top.done = Top.items /\ Close(pos)
  BY DEF ContainerEnds
<1>2. Top.items # Indefinite
  BY <1>1, LoopHead, FrameIs DEF Indefinite
<1>3. EndsOf(b, Depth - 1) = {pos}
  BY <1>1, <1>2, LoopHead, RemainingNone
<1>4. pos >= pos
  BY <1>1, LoopHead
<1> QED
  BY <1>1, <1>3, <1>4, LoopHead, CloseLanguage

LEMMA ContainerCutLanguage ==
  ASSUME NEW b, LInv(b), ContainerCut, UNCHANGED <<input, mode>>
  PROVE  WalkIInv(b)'
<1>1. /\ phase = "next" /\ Top.items = Indefinite /\ pos = Len(input)
      /\ Fail(Error("eof", pos))
  BY DEF ContainerCut
<1>2. Reach(mode, input, Depth, pos) = {}
  BY <1>1, LoopHead, ReachNone
<1>3. Grammar(mode)!Stop(input, pos) = {}
  BY <1>1, LoopHead, StopIs
<1>4. EndsOf(b, Depth - 1) = {}
  BY <1>1, <1>2, <1>3, LoopHead, RemainingBreak DEF Reach
<1>5. Error("eof", pos).tag # "ok"
  BY DEF Error
<1> QED
  BY <1>1, <1>4, <1>5, LoopHead, FailBetween

LEMMA ContainerBreakLanguage ==
  ASSUME NEW b, LInv(b), ContainerBreak, UNCHANGED <<input, mode>>
  PROVE  WalkIInv(b)'
<1>1. /\ phase = "next" /\ Top.items = Indefinite
      /\ pos < Len(input) /\ Byte(pos) = Break
      /\ IF Top.kind = "map" /\ Top.done % 2 = 1
         THEN Fail(Error("break", pos))
         ELSE Close(pos + 1)
  BY DEF ContainerBreak
<1>2. Reach(mode, input, Depth, pos) = {}
  BY <1>1, LoopHead, ReachNone
<1>3. Grammar(mode)!Stop(input, pos) = {pos + 1}
  BY <1>1, LoopHead, StopIs
<1>4. EndsOf(b, Depth - 1) = IF Top.done % PerEntry(Top.kind) = 0 THEN {pos + 1} ELSE {}
  <2> DEFINE R == Inner(mode, input, Depth)
  <2>1. /\ EndsOf(b, Depth - 1) = Remaining(mode, input, R, Top, pos)
        /\ IsInput(input) /\ R \in Rows /\ Top \in FrameRecord /\ pos \in Positions
        /\ Top.done <= MostItems(Top)
    BY <1>1, LoopHead
  <2>2. Grammar(mode)!At(R, pos) = {}
    BY <1>2 DEF Reach
  <2> HIDE DEF R
  <2>3. Remaining(mode, input, R, Top, pos)
          = IF Top.done % PerEntry(Top.kind) = 0 THEN Grammar(mode)!Stop(input, pos) ELSE {}
    BY <1>1, <2>1, <2>2, RemainingBreak
  <2> QED
    BY <1>3, <2>1, <2>3
<1>5. Top.done \in Nat /\ pos \in Nat /\ stack # <<>>
  BY <1>1, LoopHead, FrameIs
<1>6. CASE Top.kind = "map" /\ Top.done % 2 = 1
  <2>1. PerEntry(Top.kind) = 2
    BY <1>6 DEF PerEntry
  <2>2. EndsOf(b, Depth - 1) = {}
    BY <1>4, <1>6, <2>1
  <2>3. Error("break", pos).tag # "ok"
    BY DEF Error
  <2> QED
    BY <1>1, <1>5, <1>6, <2>2, <2>3, FailBetween
<1>7. CASE ~(Top.kind = "map" /\ Top.done % 2 = 1)
  <2>1. Top.done % PerEntry(Top.kind) = 0
    BY <1>5, <1>7 DEF PerEntry
  <2>2. EndsOf(b, Depth - 1) = {pos + 1}
    BY <1>4, <2>1
  <2>3. pos + 1 \in Nat /\ pos + 1 >= pos
    BY <1>5
  <2> QED
    BY <1>1, <1>5, <1>7, <2>2, <2>3, CloseLanguage
<1> QED
  BY <1>6, <1>7

(* No item is read of a container that is full.                              *)
LEMMA FullRemaining ==
  ASSUME IsInput(input), NEW R \in Rows, NEW f \in FrameRecord, NEW q \in Positions,
         f.items = Indefinite, f.done = MostItems(f), Grammar(mode)!Stop(input, q) = {}
  PROVE  Remaining(mode, input, R, f, q) = {}
<1>1. ASSUME NEW e
      PROVE  Beyond(mode, input, R, f, e) = {}
  <2> DEFINE g == Advanced(mode, input, f, e)
  <2>1. ~IsKey(f)
    BY DEF IsKey
  <2>2. ~Unordered(mode, input, f, e)
    BY <2>1 DEF Unordered
  <2>3. g = [f EXCEPT !.done = f.done + 1, !.previous = f.previous]
    BY <2>1 DEF Advanced
  <2>4. f.previous \in Seq(Bytes)
    BY FrameIs
  <2>5. g \in FrameRecord /\ g.kind = f.kind /\ g.items = f.items /\ g.done = f.done + 1
    <3> HIDE DEF g
    <3> QED
      BY ZenonT(60), <2>3, <2>4, Counted
  <2>6. g.done > MostItems(g)
    <3> HIDE DEF g
    <3> QED
      BY <2>5, FrameIs DEF MostItems
  <2>7. Remaining(mode, input, R, g, e) = {}
    <3> HIDE DEF g
    <3> QED
      BY <2>5, <2>6, RemainingOver
  <2> QED
    BY <2>2, <2>7 DEF Beyond
<1>2. Remaining(mode, input, R, f, q)
        = UNION {Beyond(mode, input, R, f, e) : e \in Grammar(mode)!At(R, q)}
  BY RemainingOpen
<1> QED
  BY <1>1, <1>2

LEMMA NextItemLanguage ==
  ASSUME NEW b, LInv(b), NextItem, UNCHANGED <<input, mode>>
  PROVE  WalkIInv(b)'
<1> DEFINE g == [Top EXCEPT !.from = pos]
           R == Inner(mode, input, Depth)
           full == /\ Top.items = Indefinite /\ mode = "value"
                   /\ Top.done = MaxCollection * PerEntry(Top.kind)
<1>1. /\ phase = "next"
      /\ IF Top.items = Indefinite
         THEN pos < Len(input) /\ Byte(pos) # Break
         ELSE Top.done < Top.items
  BY DEF NextItem
<1>2. /\ IsInput(input) /\ stack # <<>>
      /\ pos \in Positions /\ pos \in Nat /\ pos \in 0..MaxLen
      /\ Top \in FrameRecord /\ Paired(Top) /\ Top.at < pos /\ R \in Rows
      /\ EndsOf(b, Depth - 1) = Remaining(mode, input, R, Top, pos)
  <2>1. pos \in 0..MaxLen
    BY State DEF LInv
  <2> QED
    BY <1>1, <2>1, LoopHead
<1>3. Top.items = Indefinite => Grammar(mode)!Stop(input, pos) = {}
  BY <1>1, <1>2, StopIs
<1>4. CASE full
  <2>1. Top.done = MostItems(Top)
    BY <1>4 DEF MostItems
  <2>2. EndsOf(b, Depth - 1) = {}
    <3> HIDE DEF R
    <3> QED
      BY <1>2, <1>3, <1>4, <2>1, FullRemaining
  <2>3. Fail(Error("limit", Top.at))
    BY <1>4 DEF NextItem
  <2>4. Error("limit", Top.at).tag # "ok"
    BY DEF Error
  <2> QED
    BY <1>1, <1>2, <2>2, <2>3, <2>4, FailBetween
<1>5. CASE ~full
  <2>1. /\ stack' = WithTop(g) /\ phase' = "item"
        /\ UNCHANGED <<pos, string, outcome>>
    BY <1>5 DEF NextItem
  <2>2. /\ g \in FrameRecord /\ g.kind = Top.kind /\ g.items = Top.items
        /\ g.done = Top.done /\ g.previous = Top.previous
        /\ g.at = Top.at /\ g.from = pos
    BY <1>2 DEF FrameRecord
  <2> HIDE DEF g, R
  <2>3. Paired(g)
    BY <1>2, <2>2 DEF Paired
  <2>4. Remaining(mode, input, R, g, pos) = Remaining(mode, input, R, Top, pos)
    BY <2>2, RemainingSame
  <2>5. Remaining(mode, input, R, g, pos)
          = UNION {Beyond(mode, input, R, g, e) : e \in Grammar(mode)!At(R, pos)}
    <3>1. CASE Top.items = Indefinite
      BY <1>2, <1>3, <2>2, <3>1, RemainingOpen
    <3>2. CASE Top.items # Indefinite
      BY <1>1, <1>2, <2>2, <2>3, <3>2, RemainingItem
    <3> QED
      BY <3>1, <3>2
  <2>6. EndsOf(b, Depth - 1) = UNION {LeftBeyond(mode, input, Depth, g, e) :
                                     e \in Reach(mode, input, Depth, pos)}
    BY <1>2, <2>4, <2>5 DEF R, LeftBeyond, Reach
  <2> QED
    BY <1>2, <2>1, <2>2, <2>3, <2>6, TopItem
<1> QED
  BY <1>4, <1>5

(* An item begins: what it is to end at is what the grammar has at pos.      *)
LEMMA ItemHead ==
  ASSUME NEW b, LInv(b), phase = "item"
  PROVE  /\ IsInput(input) /\ pos \in Nat /\ pos \in Positions /\ InItem
         /\ Depth \in Nat /\ Depth \in 0..(MaxDepth + 1)
         /\ pos = Start(b, Depth)
         /\ EndsOf(b, Depth) = Reach(mode, input, Depth, pos)
<1>1. pos = Start(b, Depth)
  BY DEF LInv, WalkIInv
<1> QED
  BY <1>1, Placed DEF LInv, EndsOf, InItem

LEMMA HeadAround ==
  ASSUME NEW b, LInv(b), phase = "item", ~Deep
  PROVE  /\ Inner(mode, input, Depth + 1) \in Rows
         /\ EndsOf(b, Depth) = Around(Inner(mode, input, Depth + 1), pos)
<1>1. Depth \in 0..MaxDepth
  BY Placed DEF LInv
<1>2. /\ Reach(mode, input, Depth, pos) = Around(Inner(mode, input, Depth + 1), pos)
      /\ Depth + 1 \in 0..(MaxDepth + 1)
  BY <1>1, ItemHead, ReachAround
<1>3. Inner(mode, input, Depth + 1) \in Rows
  BY <1>2, ItemHead, InnerRows
<1> QED
  BY <1>2, <1>3, ItemHead

LEMMA ErrorTag ==
  ASSUME NEW kind, NEW at
  PROVE  Error(kind, at).tag # "ok"
BY DEF Error

LEMMA HeadErrorTag ==
  ASSUME NEW b, LInv(b), HeadError(pos) # NoError
  PROVE  HeadError(pos).tag # "ok"
<1>1. \E kind \in ErrorKinds, at \in 0..Len(input) : HeadError(pos) = Error(kind, at)
  BY HeadErrorPlaced, State DEF LInv
<1> QED
  BY <1>1, ErrorTag

LEMMA TooDeepLanguage ==
  ASSUME NEW b, LInv(b), TooDeep, UNCHANGED <<input, mode>>
  PROVE  WalkIInv(b)'
<1>1. phase = "item" /\ Depth > MaxDepth /\ Fail(Error("depth", pos))
  BY DEF TooDeep, Deep
<1>2. EndsOf(b, Depth) = {}
  BY <1>1, ItemHead, ReachNone
<1> QED
  BY <1>1, <1>2, ItemHead, ErrorTag, FailInside

LEMMA HeadFailsLanguage ==
  ASSUME NEW b, LInv(b), HeadFails, UNCHANGED <<input, mode>>
  PROVE  WalkIInv(b)'
<1>1. phase = "item" /\ ~Deep /\ HeadError(pos) # NoError /\ Fail(HeadError(pos))
  BY DEF HeadFails
<1>2. EndsOf(b, Depth) = {}
  BY <1>1, ItemHead, HeadAround, AroundNone
<1> QED
  BY <1>1, <1>2, ItemHead, HeadErrorTag, FailInside

(* The head of an item was read.                                             *)
LEMMA HeadReached ==
  ASSUME NEW b, LInv(b), NEW majors, AtHead(majors)
  PROVE  /\ phase = "item" /\ InItem /\ HeadError(pos) = NoError /\ Major(pos) \in majors
         /\ IsInput(input) /\ pos \in Nat /\ pos = Start(b, Depth) /\ Depth \in Nat
         /\ Inner(mode, input, Depth + 1) \in Rows
         /\ EndsOf(b, Depth) = Around(Inner(mode, input, Depth + 1), pos)
         /\ HeadEnd(pos) \in Nat /\ pos < HeadEnd(pos) /\ HeadEnd(pos) > pos
         /\ HeadEnd(pos) > Start(b, Depth)
         /\ (Info(pos) = 31 <=> Argument(pos) = Indefinite)
         /\ (Argument(pos) # Indefinite => Argument(pos) \in Nat)
<1>1. phase = "item" /\ ~Deep /\ HeadError(pos) = NoError /\ Major(pos) \in majors
  BY DEF AtHead
<1>2. IsInput(input) /\ pos \in Nat /\ InItem /\ pos = Start(b, Depth) /\ Depth \in Nat
  BY <1>1, ItemHead
<1>3. HeadEnd(pos) \in Nat /\ pos < HeadEnd(pos)
  BY <1>1, <1>2, OpenIs
<1>4. HeadEnd(pos) > pos
  BY <1>2, <1>3
<1> QED
  BY <1>1, <1>2, <1>3, <1>4, OpenIs, HeadAround

LEMMA IntegerLanguage ==
  ASSUME NEW b, LInv(b), Integer, UNCHANGED <<input, mode>>
  PROVE  WalkIInv(b)'
<1>1. AtHead({0, 1})
  BY DEF Integer
<1>2. EndsOf(b, Depth) = IF Info(pos) = 31 THEN {} ELSE {HeadEnd(pos)}
  BY <1>1, HeadReached, AroundInteger
<1>3. CASE Info(pos) = 31
  BY <1>1, <1>2, <1>3, HeadReached, ErrorTag, FailInside DEF Integer
<1>4. CASE Info(pos) # 31
  BY <1>1, <1>2, <1>4, HeadReached, CompleteLanguage DEF Integer
<1> QED
  BY <1>3, <1>4

LEMMA SimpleLanguage ==
  ASSUME NEW b, LInv(b), Simple, UNCHANGED <<input, mode>>
  PROVE  WalkIInv(b)'
<1> DEFINE bad == \/ Info(pos) = 31 \/ (Info(pos) = 24 /\ Argument(pos) < 32)
                  \/ ~FloatAccepted(pos)
<1>1. AtHead({7})
  BY DEF Simple
<1>2. EndsOf(b, Depth) = IF bad THEN {} ELSE {HeadEnd(pos)}
  BY <1>1, HeadReached, AroundSimple
<1>3. CASE bad
  <2>1. PICK kind \in {"break", "additional", "nondeterministic"} : Fail(Error(kind, pos))
    BY <1>3 DEF Simple
  <2> QED
    BY <1>1, <1>2, <1>3, <2>1, HeadReached, ErrorTag, FailInside
<1>4. CASE ~bad
  <2>1. Complete(HeadEnd(pos))
    BY <1>4 DEF Simple
  <2> QED
    BY <1>1, <1>2, <1>4, <2>1, HeadReached, CompleteLanguage
<1> QED
  BY <1>3, <1>4

LEMMA DefiniteStringLanguage ==
  ASSUME NEW b, LInv(b), DefiniteString, UNCHANGED <<input, mode>>
  PROVE  WalkIInv(b)'
<1> DEFINE start == HeadEnd(pos)
           to == start + Argument(pos)
           good == RunRead(Major(pos), pos) /\ Argument(pos) <= MaxCollection
<1>1. AtHead({2, 3}) /\ Argument(pos) # Indefinite
  BY DEF DefiniteString
<1>2. EndsOf(b, Depth) = IF good THEN {to} ELSE {}
  BY <1>1, HeadReached, AroundString
<1>3. /\ Argument(pos) \in Nat /\ start \in Nat /\ to \in Nat /\ to > Start(b, Depth)
      /\ MaxCollection \in Nat /\ Len(input) \in Nat
  BY SMTT(30), <1>1, HeadReached, State DEF LInv
<1>4. CASE good
  <2>1. Complete(to)
    BY <1>3, <1>4 DEF DefiniteString, RunRead
  <2> HIDE DEF good, to
  <2> QED
    BY <1>1, <1>2, <1>3, <1>4, <2>1, HeadReached, CompleteLanguage
<1>5. CASE ~good
  <2>1. \E kind \in {"limit", "eof", "utf8"}, at \in {pos, start} : Fail(Error(kind, at))
    <3>1. HeadError(pos) = NoError
      BY <1>1, HeadReached
    <3>2. \/ Argument(pos) > MaxCollection \/ to > Len(input)
          \/ Major(pos) = 3 /\ ~TextAccepted(start, to)
      BY <1>1, <1>3, <1>5, <3>1 DEF RunRead
    <3> HIDE DEF good, start, to
    <3>3. \/ Fail(Error("limit", pos)) \/ Fail(Error("eof", start)) \/ Fail(Error("utf8", pos))
      BY <3>2 DEF DefiniteString, start, to
    <3> QED
      BY <3>3
  <2>2. PICK kind \in {"limit", "eof", "utf8"}, at \in {pos, start} : Fail(Error(kind, at))
    BY <2>1
  <2> HIDE DEF good, start, to
  <2> QED
    BY <1>1, <1>2, <1>5, <2>2, HeadReached, ErrorTag, FailInside
<1> QED
  BY <1>4, <1>5

(* A string is read on, its frames untouched.                                *)
LEMMA WalkOn ==
  ASSUME NEW b, LInv(b), InItem, phase' = "chunks", pos' > Start(b, Depth),
         EndsOf(b, Depth) = Ending(mode, input, string.major, string.total, pos)',
         UNCHANGED <<input, mode, stack, outcome>>
  PROVE  WalkIInv(b)'
<1>0. Depth \in Nat
  BY Placed DEF LInv
<1>2. /\ \A i \in 0..Depth : Start(b, i)' = Start(b, i) /\ EndsOf(b, i)' = EndsOf(b, i)
      /\ \A i \in 1..Depth : Linked(b, i)' <=> Linked(b, i)
  <2>1. Depth <= Len(stack)
    BY <1>0 DEF Depth
  <2> QED
    BY <1>0, <2>1, SameLinks DEF LInv
<1>d. Depth' = Depth
  BY DEF Depth
<1>3. FramesLinked(b)'
  <2>1. ASSUME NEW i \in 1..Depth
        PROVE  /\ Paired(stack[i]) /\ stack[i].at = Start(b, i - 1)'
               /\ stack[i].at < stack[i].from /\ Linked(b, i)'
    <3>1. i - 1 \in 0..Depth
      BY <1>0
    <3> QED
      BY <1>2, <3>1, LinksOf DEF LInv, InItem
  <2> QED
    BY <1>d, <2>1 DEF FramesLinked
<1>4. (Start(b, Depth))' = Start(b, Depth) /\ (EndsOf(b, Depth))' = EndsOf(b, Depth)
  <2>1. (Start(b, Depth))' = Start(b, Depth)
    BY <1>d DEF Start
  <2> QED
    BY <1>d, <2>1 DEF EndsOf
<1> QED
  BY <1>3, <1>4, BaseStays DEF WalkIInv, Decided

LEMMA IndefiniteStringLanguage ==
  ASSUME NEW b, LInv(b), IndefiniteString, UNCHANGED <<input, mode>>
  PROVE  WalkIInv(b)'
<1>1. AtHead({2, 3}) /\ Argument(pos) = Indefinite
  BY DEF IndefiniteString
<1>2. EndsOf(b, Depth) = IF mode = "deterministic" THEN {}
                      ELSE Ending(mode, input, Major(pos), 0, HeadEnd(pos))
  BY <1>1, HeadReached, AroundChunks
<1>3. CASE mode = "deterministic"
  BY <1>1, <1>2, <1>3, HeadReached, ErrorTag, FailInside DEF IndefiniteString
<1>4. CASE mode # "deterministic"
  <2>1. /\ string' = [major |-> Major(pos), total |-> 0] /\ pos' = HeadEnd(pos)
        /\ phase' = "chunks" /\ UNCHANGED <<stack, outcome>>
    BY <1>4 DEF IndefiniteString
  <2>2. string'.major = Major(pos) /\ string'.total = 0
    BY <2>1
  <2>3. HeadEnd(pos) > Start(b, Depth) /\ InItem
    BY <1>1, HeadReached
  <2>4. EndsOf(b, Depth) = Ending(mode, input, string.major, string.total, pos)'
    BY <1>2, <1>4, <2>1, <2>2
  <2> QED
    BY <2>1, <2>3, <2>4, WalkOn
<1> QED
  BY <1>3, <1>4

LEMMA ContainerLanguage ==
  ASSUME NEW b, LInv(b), Container, UNCHANGED <<input, mode>>
  PROVE  WalkIInv(b)'
<1> DEFINE n == Argument(pos)
           R == Inner(mode, input, Depth + 1)
<1>1. AtHead({4, 5})
  BY DEF Container
<1>2. /\ phase = "item" /\ InItem /\ HeadError(pos) = NoError /\ Major(pos) \in {4, 5}
      /\ IsInput(input) /\ pos \in Nat /\ R \in Rows
      /\ EndsOf(b, Depth) = Around(R, pos) /\ HeadEnd(pos) > pos
      /\ (n # Indefinite => n \in Nat) /\ MaxCollection \in Nat
  BY <1>1, HeadReached, State DEF LInv
<1>3. KindOf(pos) \in {"array", "map"} /\ PerEntry(KindOf(pos)) \in {1, 2}
  BY DEF KindOf, PerEntry
<1>4. pos < Len(input)
  BY <1>2, ReadHead DEF LInv
<1>5. CASE n > MaxCollection
  <2>1. EndsOf(b, Depth) = {}
    <3> HIDE DEF R
    <3> QED
      BY <1>2, <1>5, OpenLong
  <2>2. Fail(Error("limit", pos))
    BY <1>5 DEF Container
  <2> QED
    BY <1>2, <2>1, <2>2, ErrorTag, FailInside
<1>6. CASE ~(n > MaxCollection) /\ n # Indefinite
  <2> DEFINE items == n * PerEntry(KindOf(pos))
             f == Frame(KindOf(pos), pos, items)
  <2>1. Open(f)
    BY <1>6 DEF Container, KindOf
  <2>2. items \in Nat /\ items <= MaxCollection * PerEntry(KindOf(pos))
    BY <1>2, <1>3, <1>6
  <2>3. f \in FrameRecord
    <3> HIDE DEF items
    <3> QED
      BY <1>3, <1>4, <2>2, NewFrame DEF LInv
  <2>4. Paired(f)
    <3>1. f.kind = KindOf(pos) /\ f.items = items
      BY Fresh
    <3>2. KindOf(pos) = "map" => items % 2 = 0
      <4>1. KindOf(pos) = "map" => items = 2 * n
        BY <1>2, <1>6 DEF PerEntry
      <4>2. (2 * n) % 2 = 0
        BY <1>2, <1>6
      <4> QED
        BY <4>1, <4>2
    <3> HIDE DEF f, items
    <3> QED
      BY <3>1, <3>2 DEF Paired
  <2>5. f.at = pos
    BY Fresh
  <2>6. Around(R, pos) = Remaining(mode, input, R, f, HeadEnd(pos))
    <3> HIDE DEF R
    <3> QED
      BY <1>2, <1>6, OpenCounted
  <2>7. EndsOf(b, Depth) = Left(mode, input, Depth + 1, f, HeadEnd(pos))
    BY <1>2, <2>6 DEF Left
  <2> HIDE DEF f, R
  <2> QED
    BY <1>2, <2>1, <2>3, <2>4, <2>5, <2>7, OpenLanguage
<1>7. CASE ~(n > MaxCollection) /\ n = Indefinite
  <2> DEFINE f == Frame(KindOf(pos), pos, Indefinite)
  <2>1. Around(R, pos) = IF mode = "deterministic" THEN {}
                         ELSE Remaining(mode, input, R, f, HeadEnd(pos))
    <3> HIDE DEF R
    <3> QED
      BY <1>2, <1>7, OpenIndefinite
  <2>2. CASE mode = "deterministic"
    <3>1. Fail(Error("nondeterministic", pos))
      BY <1>7, <2>2 DEF Container
    <3>2. EndsOf(b, Depth) = {}
      BY <1>2, <2>1, <2>2
    <3> QED
      BY <1>2, <3>1, <3>2, ErrorTag, FailInside
  <2>3. CASE mode # "deterministic"
    <3>1. Open(f)
      BY <1>7, <2>3 DEF Container, KindOf
    <3>2. Indefinite <= MaxCollection * PerEntry(KindOf(pos)) /\
              Indefinite \in Nat \cup {Indefinite}
      BY <1>2, <1>3 DEF Indefinite
    <3>3. f \in FrameRecord
      BY <1>3, <1>4, <3>2, NewFrame DEF LInv
    <3>4. f.at = pos /\ Paired(f)
      BY Fresh DEF Paired
    <3>5. EndsOf(b, Depth) = Left(mode, input, Depth + 1, f, HeadEnd(pos))
      BY <1>2, <2>1, <2>3 DEF Left
    <3> HIDE DEF f, R
    <3> QED
      BY <1>2, <3>1, <3>3, <3>4, <3>5, OpenLanguage
  <2> QED
    BY <2>2, <2>3
<1> QED
  BY <1>5, <1>6, <1>7

LEMMA TagLanguage ==
  ASSUME NEW b, LInv(b), Tag, UNCHANGED <<input, mode>>
  PROVE  WalkIInv(b)'
<1> DEFINE R == Inner(mode, input, Depth + 1)
           f == Frame("tag", pos, 1)
<1>1. AtHead({6})
  BY DEF Tag
<1>2. /\ phase = "item" /\ InItem /\ HeadError(pos) = NoError /\ Major(pos) = 6
      /\ IsInput(input) /\ pos \in Nat /\ R \in Rows
      /\ EndsOf(b, Depth) = Around(R, pos) /\ HeadEnd(pos) > pos
  BY <1>1, HeadReached
<1>3. CASE Info(pos) = 31
  <2>1. EndsOf(b, Depth) = {}
    <3> HIDE DEF R
    <3> QED
      BY <1>2, <1>3, AroundTag
  <2> QED
    BY <1>2, <1>3, <2>1, ErrorTag, FailInside DEF Tag
<1>4. CASE Info(pos) # 31
  <2>1. Open(f)
    BY <1>4 DEF Tag
  <2>2. pos < Len(input)
    BY <1>2, ReadHead DEF LInv
  <2>3. f \in FrameRecord
    BY <2>2, NewFrame DEF LInv
  <2>4. f.at = pos /\ Paired(f)
    BY Fresh DEF Paired
  <2>5. Around(R, pos) = Remaining(mode, input, R, f, HeadEnd(pos))
    <3> HIDE DEF R
    <3> QED
      BY <1>2, <1>4, OpenTag
  <2>6. EndsOf(b, Depth) = Left(mode, input, Depth + 1, f, HeadEnd(pos))
    BY <1>2, <2>5 DEF Left
  <2> HIDE DEF f, R
  <2> QED
    BY <1>2, <2>1, <2>3, <2>4, <2>6, OpenLanguage
<1> QED
  BY <1>3, <1>4

(* Where chunks end from p on when total bytes were read before.             *)
LEMMA EndingStep ==
  ASSUME IsInput(input), NEW major, NEW p \in Positions, NEW total \in Nat, NEW y
  PROVE  y \in Ending(mode, input, major, total, p) <=>
           \/ y \in Grammar(mode)!Stop(input, p) /\ (mode = "value" => total <= MaxCollection)
           \/ \E q \in Grammar(mode)!Run(input, major, p) :
                y \in Ending(mode, input, major, total + Grammar(mode)!N(input, p), q)
<1> DEFINE N == Grammar(mode)!N(input, p)
           C(q) == Grammar(mode)!Chunks(input, major, q)
           Within(n) == mode = "value" => n <= MaxCollection
<1>1. ASSUME NEW t, NEW q
      PROVE  y \in Ending(mode, input, major, t, q) <=>
               \E c \in C(q) : y = c[1] /\ Within(t + c[2])
  BY DEF Ending
<1>2. \A c : c \in C(p) <=>
          \/ \E q \in Grammar(mode)!Stop(input, p) : c = <<q, 0>>
          \/ \E q \in Grammar(mode)!Run(input, major, p) :
               \E d \in C(q) : c = <<d[1], d[2] + N>>
  <2>1. C(p) = {<<q, 0>> : q \in Grammar(mode)!Stop(input, p)} \cup
                 UNION {{<<c[1], c[2] + N>> : c \in C(q)} :
                          q \in Grammar(mode)!Run(input, major, p)}
    BY ChunksStep
  <2> DEFINE T(a) == {<<c[1], c[2] + N>> : c \in C(a)}
             S == {<<q, 0>> : q \in Grammar(mode)!Stop(input, p)}
  <2>2. C(p) = S \cup UNION {T(q) : q \in Grammar(mode)!Run(input, major, p)}
    BY <2>1
  <2> HIDE DEF C, N
  <2>3. \A c : c \in S <=> \E q \in Grammar(mode)!Stop(input, p) : c = <<q, 0>>
    OBVIOUS
  <2>4. \A a : \A c : c \in T(a) <=> \E d \in C(a) : c = <<d[1], d[2] + N>>
    OBVIOUS
  <2> HIDE DEF S, T
  <2>5. \A c : c \in C(p) <=>
          c \in S \/ \E q \in Grammar(mode)!Run(input, major, p) : c \in T(q)
    BY <2>2, Zenon
  <2> QED
    BY <2>3, <2>4, <2>5
<1>3. \A q \in Grammar(mode)!Run(input, major, p) :
        /\ q \in Positions /\ N \in Nat
        /\ \A d \in C(q) : d[2] \in Nat
  BY RunForward, ChunksTyped
<1> HIDE DEF C, N
<1>4. (\E c \in C(p) : y = c[1] /\ Within(total + c[2])) <=>
        \/ \E q \in Grammar(mode)!Stop(input, p) : y = q /\ Within(total + 0)
        \/ \E q \in Grammar(mode)!Run(input, major, p) :
             \E d \in C(q) : y = d[1] /\ Within(total + (d[2] + N))
  <2> HIDE DEF Within
  <2>1. ASSUME NEW q
        PROVE  <<q, 0>>[1] = q /\ <<q, 0>>[2] = 0
    OBVIOUS
  <2>2. ASSUME NEW d
        PROVE  <<d[1], d[2] + N>>[1] = d[1] /\ <<d[1], d[2] + N>>[2] = d[2] + N
    OBVIOUS
  <2>3. ASSUME NEW c \in C(p), y = c[1], Within(total + c[2])
        PROVE  \/ \E q \in Grammar(mode)!Stop(input, p) : y = q /\ Within(total + 0)
               \/ \E q \in Grammar(mode)!Run(input, major, p) :
                    \E d \in C(q) : y = d[1] /\ Within(total + (d[2] + N))
    <3>1. CASE \E q \in Grammar(mode)!Stop(input, p) : c = <<q, 0>>
      <4>1. PICK q \in Grammar(mode)!Stop(input, p) : c = <<q, 0>>
        BY <3>1
      <4>2. y = q /\ Within(total + 0)
        BY <2>1, <2>3, <4>1
      <4> QED
        BY <4>2
    <3>2. CASE \E q \in Grammar(mode)!Run(input, major, p) :
                 \E d \in C(q) : c = <<d[1], d[2] + N>>
      <4>0. PICK q \in Grammar(mode)!Run(input, major, p) :
              \E d \in C(q) : c = <<d[1], d[2] + N>>
        BY <3>2
      <4>1. PICK d \in C(q) : c = <<d[1], d[2] + N>>
        BY <4>0
      <4>2. y = d[1] /\ Within(total + (d[2] + N))
        BY <2>2, <2>3, <4>1
      <4> QED
        BY <4>2
    <3> QED
      BY <1>2, <3>1, <3>2
  <2>4. ASSUME NEW q \in Grammar(mode)!Stop(input, p), y = q, Within(total + 0)
        PROVE  \E c \in C(p) : y = c[1] /\ Within(total + c[2])
    <3>1. <<q, 0>> \in C(p)
      BY <1>2
    <3> QED
      BY <2>1, <2>4, <3>1
  <2>5. ASSUME NEW q \in Grammar(mode)!Run(input, major, p), NEW d \in C(q),
               y = d[1], Within(total + (d[2] + N))
        PROVE  \E c \in C(p) : y = c[1] /\ Within(total + c[2])
    <3>1. <<d[1], d[2] + N>> \in C(p)
      BY <1>2
    <3> QED
      BY <2>2, <2>5, <3>1
  <2> QED
    BY <2>3, <2>4, <2>5
<1>5. total + 0 = total
  OBVIOUS
<1>6. \A q \in Grammar(mode)!Run(input, major, p) : \A d \in C(q) :
        total + (d[2] + N) = (total + N) + d[2]
  BY <1>3
<1>7. \A q \in Grammar(mode)!Run(input, major, p) :
        y \in Ending(mode, input, major, total + N, q) <=>
          \E d \in C(q) : y = d[1] /\ Within(total + (d[2] + N))
  <2>1. ASSUME NEW q \in Grammar(mode)!Run(input, major, p)
        PROVE  y \in Ending(mode, input, major, total + N, q) <=>
                 \E d \in C(q) : y = d[1] /\ Within(total + (d[2] + N))
    <3>1. y \in Ending(mode, input, major, total + N, q) <=>
            \E d \in C(q) : y = d[1] /\ Within((total + N) + d[2])
      BY <1>1
    <3> HIDE DEF Within
    <3> QED
      BY <1>6, <3>1
  <2> QED
    BY <2>1
<1>8. y \in Ending(mode, input, major, total, p) <=>
        \/ y \in Grammar(mode)!Stop(input, p) /\ Within(total)
        \/ \E q \in Grammar(mode)!Run(input, major, p) :
             y \in Ending(mode, input, major, total + N, q)
  <2> HIDE DEF Within
  <2> QED
    BY <1>1, <1>4, <1>5, <1>7
<1> QED
  BY <1>8 DEF N

(* The chunks that are left when the next is read, or cannot be.             *)
LEMMA EndingBreak ==
  ASSUME IsInput(input), NEW major \in {2, 3}, NEW p \in Positions, NEW total \in Nat,
         p < Len(input), Byte(p) = Break, mode = "value" => total <= MaxCollection
  PROVE  Ending(mode, input, major, total, p) = {p + 1}
<1>0. p \in Nat
  BY InputIsSeq, SkipAssumption DEF Positions
<1>1. Grammar(mode)!Stop(input, p) = {p + 1}
  BY StopIs
<1>2. Grammar(mode)!Run(input, major, p) = {}
  <2>1. Major(p) = 7
    BY DEF Major, Break
  <2>2. ~RunRead(major, p)
    BY <2>1 DEF RunRead
  <2> QED
    BY <1>0, <2>2, RunIs
<1>3. \A y : y \in Ending(mode, input, major, total, p) <=> y \in {p + 1}
  BY <1>1, <1>2, EndingStep
<1> QED
  BY <1>3

LEMMA EndingCut ==
  ASSUME IsInput(input), NEW major, NEW p \in Positions, NEW total \in Nat,
         p = Len(input) \/ Byte(p) # Break, ~RunRead(major, p)
  PROVE  Ending(mode, input, major, total, p) = {}
<1>0. p \in Nat /\ Len(input) \in Nat
  BY InputIsSeq, SkipAssumption DEF Positions
<1>1. Grammar(mode)!Stop(input, p) = {}
  BY <1>0, StopIs
<1>2. Grammar(mode)!Run(input, major, p) = {}
  BY <1>0, RunIs
<1>3. \A y : y \notin Ending(mode, input, major, total, p)
  BY <1>1, <1>2, EndingStep
<1> QED
  BY <1>3

LEMMA EndingChunk ==
  ASSUME IsInput(input), NEW major, NEW p \in Positions, NEW total \in Nat,
         Byte(p) # Break, RunRead(major, p)
  PROVE  Ending(mode, input, major, total, p)
           = Ending(mode, input, major, total + Argument(p), HeadEnd(p) + Argument(p))
<1>0. p \in Nat /\ Len(input) \in Nat
  BY InputIsSeq, SkipAssumption DEF Positions
<1>1. Grammar(mode)!Stop(input, p) = {}
  BY <1>0, StopIs
<1>2. Grammar(mode)!Run(input, major, p) = {HeadEnd(p) + Argument(p)}
  BY <1>0, RunIs
<1>3. Grammar(mode)!N(input, p) = Argument(p)
  BY <1>0, OpenIs DEF RunRead
<1>4. \A y : y \in Ending(mode, input, major, total, p) <=>
               y \in Ending(mode, input, major, total + Argument(p), HeadEnd(p) + Argument(p))
  BY <1>1, <1>2, <1>3, EndingStep
<1> QED
  BY <1>4

LEMMA EndingLarge ==
  ASSUME IsInput(input), NEW major, NEW p \in Positions, NEW total \in Nat,
         mode = "value", total > MaxCollection
  PROVE  Ending(mode, input, major, total, p) = {}
<1>1. \A c \in Grammar(mode)!Chunks(input, major, p) : c[2] \in Nat
  BY ChunksTyped
<1>2. \A c \in Grammar(mode)!Chunks(input, major, p) : ~(total + c[2] <= MaxCollection)
  BY <1>1, SkipAssumption
<1> QED
  BY <1>2 DEF Ending

(* Between two chunks.                                                       *)
LEMMA ChunkHead ==
  ASSUME NEW b, LInv(b), phase = "chunks"
  PROVE  /\ IsInput(input) /\ pos \in Nat /\ pos \in Positions /\ InItem
         /\ Len(input) \in Nat /\ MaxCollection \in Nat
         /\ pos > Start(b, Depth) /\ Start(b, Depth) \in Nat
         /\ string.major \in {2, 3} /\ string.total \in Nat
         /\ (mode = "value" => string.total <= MaxCollection)
         /\ EndsOf(b, Depth) = Ending(mode, input, string.major, string.total, pos)
<1>1. /\ pos > Start(b, Depth)
      /\ EndsOf(b, Depth) = Ending(mode, input, string.major, string.total, pos)
  BY DEF LInv, WalkIInv
<1>2. string.major \in {2, 3} /\ string.total \in Nat
  BY State DEF LInv
<1>3. mode = "value" => string.total <= MaxCollection
  BY DEF LInv, IInv
<1>4. Start(b, Depth) \in Nat
  <2>1. Depth \in Nat /\ Depth \in 0..Depth
    BY Placed DEF LInv
  <2>2. Start(b, Depth) \in Positions
    BY <2>1, StartPlaced DEF LInv, WalkIInv, Positions
  <2> QED
    BY <2>2, State DEF LInv, Positions
<1> QED
  BY <1>1, <1>2, <1>3, <1>4, Placed, State DEF LInv, InItem

LEMMA ChunkCutLanguage ==
  ASSUME NEW b, LInv(b), ChunkCut, UNCHANGED <<input, mode>>
  PROVE  WalkIInv(b)'
<1>1. phase = "chunks" /\ pos = Len(input) /\ Fail(Error("eof", pos))
  BY DEF ChunkCut
<1>2. ~RunRead(string.major, pos)
  <2>1. HeadError(pos) # NoError
    BY <1>1, ChunkHead, OpenIs
  <2> QED
    BY <2>1 DEF RunRead
<1>3. EndsOf(b, Depth) = {}
  BY <1>1, <1>2, ChunkHead, EndingCut
<1> QED
  BY <1>1, <1>3, ChunkHead, ErrorTag, FailInside

LEMMA ChunksEndLanguage ==
  ASSUME NEW b, LInv(b), ChunksEnd, UNCHANGED <<input, mode>>
  PROVE  WalkIInv(b)'
<1>1. phase = "chunks" /\ pos < Len(input) /\ Byte(pos) = Break /\ Complete(pos + 1)
  BY DEF ChunksEnd
<1>2. EndsOf(b, Depth) = {pos + 1}
  BY <1>1, ChunkHead, EndingBreak
<1>3. pos + 1 \in Nat /\ pos + 1 > Start(b, Depth)
  BY <1>1, ChunkHead
<1> QED
  BY <1>1, <1>2, <1>3, ChunkHead, CompleteLanguage

LEMMA ChunkHeadFailsLanguage ==
  ASSUME NEW b, LInv(b), ChunkHeadFails, UNCHANGED <<input, mode>>
  PROVE  WalkIInv(b)'
<1>1. /\ phase = "chunks" /\ pos < Len(input) /\ Byte(pos) # Break
      /\ HeadError(pos) # NoError /\ Fail(HeadError(pos))
  BY DEF ChunkHeadFails
<1>2. ~RunRead(string.major, pos)
  BY <1>1 DEF RunRead
<1>3. EndsOf(b, Depth) = {}
  BY <1>1, <1>2, ChunkHead, EndingCut
<1> QED
  BY <1>1, <1>3, ChunkHead, HeadErrorTag, FailInside

LEMMA ChunkLanguage ==
  ASSUME NEW b, LInv(b), Chunk, UNCHANGED <<input, mode>>
  PROVE  WalkIInv(b)'
<1> DEFINE n == Argument(pos)
           start == HeadEnd(pos)
           to == start + n
           large == mode = "value" /\ string.total + n > MaxCollection
           good == RunRead(string.major, pos)
<1>1. /\ phase = "chunks" /\ pos < Len(input) /\ Byte(pos) # Break
      /\ HeadError(pos) = NoError
  BY DEF Chunk
<1>2. /\ IsInput(input) /\ pos \in Nat /\ pos \in Positions /\ InItem
      /\ Len(input) \in Nat /\ MaxCollection \in Nat
      /\ pos > Start(b, Depth) /\ Start(b, Depth) \in Nat
      /\ string.major \in {2, 3} /\ string.total \in Nat
      /\ EndsOf(b, Depth) = Ending(mode, input, string.major, string.total, pos)
  BY <1>1, ChunkHead
<1>3. /\ n # Indefinite => n \in Nat
      /\ start \in Nat /\ pos < start
  BY <1>1, <1>2, OpenIs
<1>4. CASE ~good
  <2>1. EndsOf(b, Depth) = {}
    <3> HIDE DEF good
    <3> QED
      BY <1>1, <1>2, <1>4, EndingCut DEF good
  <2>2. \/ Major(pos) # string.major \/ n = Indefinite
        \/ to > Len(input) \/ (Major(pos) = 3 /\ ~TextAccepted(start, to))
    <3>1. \/ Major(pos) # string.major \/ n = Indefinite \/ ~(to <= Len(input))
          \/ (string.major = 3 /\ ~TextAccepted(start, to))
      BY <1>1, <1>4 DEF RunRead
    <3>2. n # Indefinite => (to <= Len(input) \/ to > Len(input))
      BY <1>2, <1>3
    <3> HIDE DEF start, to, n
    <3> QED
      BY <3>1, <3>2
  <2> HIDE DEF good, start, to, n
  <2>3. \/ Fail(Error("type", pos)) \/ Fail(Error("limit", pos))
        \/ Fail(Error("eof", start)) \/ Fail(Error("utf8", pos))
    BY <2>2 DEF Chunk, start, to, n
  <2>4. PICK kind \in {"type", "limit", "eof", "utf8"}, at \in {pos, start} : Fail(Error(kind, at))
    BY <2>3
  <2> QED
    BY <1>2, <2>1, <2>4, ErrorTag, FailInside
<1>5. CASE good
  <2>1. /\ Major(pos) = string.major /\ n # Indefinite /\ ~(to > Len(input))
        /\ ~(Major(pos) = 3 /\ ~TextAccepted(start, to))
        /\ n \in Nat /\ to \in Nat /\ to \in Positions /\ to > Start(b, Depth)
        /\ string.total + n \in Nat
    <3>1. /\ Major(pos) = string.major /\ n # Indefinite /\ to <= Len(input)
          /\ (string.major = 3 => TextAccepted(start, to))
      BY <1>5 DEF RunRead
    <3>2. n \in Nat /\ to \in Nat /\ to > Start(b, Depth) /\ string.total + n \in Nat
      BY <1>2, <1>3, <3>1
    <3>3. to \in Positions /\ ~(to > Len(input))
      BY <1>2, <3>1, <3>2 DEF Positions
    <3> HIDE DEF n, to, start
    <3> QED
      BY <3>1, <3>2, <3>3
  <2>2. EndsOf(b, Depth) = Ending(mode, input, string.major, string.total + n, to)
    <3> HIDE DEF good
    <3> QED
      BY <1>1, <1>2, <1>5, EndingChunk DEF good
  <2>3. CASE large
    <3>1. EndsOf(b, Depth) = {}
      <4> HIDE DEF n, to
      <4> QED
        BY <1>2, <2>1, <2>2, <2>3, EndingLarge
    <3>2. Fail(Error("limit", pos))
      <4> HIDE DEF good, start, to, n
      <4> QED
        BY <2>1, <2>3 DEF Chunk, start, to, n
    <3> QED
      BY <1>2, <3>1, <3>2, ErrorTag, FailInside
  <2>4. CASE ~large
    <3>1. /\ pos' = to /\ string' = [string EXCEPT !.total = @ + n]
          /\ UNCHANGED <<phase, stack, outcome>>
      <4> HIDE DEF good, start, to, n
      <4> QED
        BY <2>1, <2>4 DEF Chunk, start, to, n
    <3>2. string'.major = string.major /\ string'.total = string.total + n
      <4>1. string \in [major: {2, 3}, total: Nat]
        BY State DEF LInv
      <4> HIDE DEF n
      <4> QED
        BY <3>1, <4>1
    <3>3. EndsOf(b, Depth) = Ending(mode, input, string.major, string.total, pos)'
      <4> HIDE DEF to, n
      <4> QED
        BY <2>2, <3>1, <3>2
    <3>4. pos' > Start(b, Depth) /\ phase' = "chunks"
      <4> HIDE DEF to, n
      <4> QED
        BY <1>1, <2>1, <3>1
    <3> QED
      BY <1>2, <3>1, <3>3, <3>4, WalkOn
  <2> QED
    BY <2>3, <2>4
<1> QED
  BY <1>4, <1>5

LEMMA FinishLanguage ==
  ASSUME NEW b, LInv(b), Finish, UNCHANGED <<input, mode>>
  PROVE  WalkIInv(b)'
<1>1. /\ phase = "done" /\ stack = <<>> /\ outcome' = Ok(pos) /\ phase' = "stop"
      /\ UNCHANGED <<pos, string, stack>>
  BY DEF Finish
<1>2. Depth = 0
  BY <1>1 DEF Depth
<1>3. EndsOf(b, Depth) = {pos}
  BY <1>1 DEF LInv, WalkIInv
<1>4. EndsOf(b, 0) = {pos}
  BY <1>2, <1>3, Placed, AcceptedIs DEF LInv
<1>7. EndsOf(b, 0)' = EndsOf(b, 0)
  BY <1>1 DEF EndsOf, Start
<1>5. Decided(b)'
  BY <1>1, <1>4, <1>7 DEF Decided, Ok
<1>6. FramesLinked(b)'
  BY <1>1 DEF FramesLinked, Depth
<1> QED
  BY <1>1, <1>5, <1>6, BaseStays DEF WalkIInv

LEMMA StepLanguage ==
  ASSUME NEW b, LInv(b), Step
  PROVE  WalkIInv(b)'
<1>0. UNCHANGED <<input, mode>>
  BY DEF Step
<1>1. CASE TooDeep \/ HeadFails \/ Integer \/ DefiniteString \/ IndefiniteString
  BY <1>0, <1>1, TooDeepLanguage, HeadFailsLanguage, IntegerLanguage,
     DefiniteStringLanguage, IndefiniteStringLanguage
<1>2. CASE Container \/ Tag \/ Simple
  BY <1>0, <1>2, ContainerLanguage, TagLanguage, SimpleLanguage
<1>3. CASE ChunkCut \/ ChunksEnd \/ ChunkHeadFails \/ Chunk
  BY <1>0, <1>3, ChunkCutLanguage, ChunksEndLanguage, ChunkHeadFailsLanguage, ChunkLanguage
<1>4. CASE Finish \/ ItemDone \/ NextItem
  BY <1>0, <1>4, FinishLanguage, ItemDoneLanguage, NextItemLanguage
<1>5. CASE ContainerEnds \/ ContainerCut \/ ContainerBreak
  BY SMTT(30), <1>0, <1>5, ContainerEndsLanguage, ContainerCutLanguage, ContainerBreakLanguage
<1> QED
  BY <1>1, <1>2, <1>3, <1>4, <1>5 DEF Step, Walk

(* A walk begins.                                                            *)
LEMMA BeginLanguage ==
  ASSUME NEW b, phase = "item", stack = <<>>, pos = b, b \in 0..Len(input)
  PROVE  WalkIInv(b)
<1>1. Depth = 0
  BY DEF Depth
<1>2. FramesLinked(b)
  BY <1>1 DEF FramesLinked
<1>3. pos = Start(b, Depth)
  BY <1>1 DEF Start
<1> QED
  BY <1>2, <1>3 DEF WalkIInv, Decided

LEMMA Idle ==
  ASSUME NEW b, LInv(b), UNCHANGED vars
  PROVE  LInv(b)'
<1>0. Depth \in Nat /\ IInv
  BY Placed DEF LInv
<1>u. UNCHANGED <<input, mode, phase, pos, string, stack, outcome>>
  BY DEF vars
<1>1. IInv'
  BY <1>0, <1>u DEF IInv, TypeOK, OutcomeOK, DepthBounded, StackOK, FrameOK,
                RoomForOne, MostItems, PerEntry, Depth
<1>2. WalkIInv(b)'
  <2>1. WalkIInv(b)
    BY DEF LInv
  <2>2. Depth <= Len(stack) /\ Depth' = Depth
    BY <1>0, <1>u DEF Depth
  <2>3. /\ \A i \in 0..Depth : Start(b, i)' = Start(b, i)
        /\ \A i \in 1..Depth : Linked(b, i)' <=> Linked(b, i)
    BY <1>0, <1>u, <2>2, SameLinks
  <2>4. FramesLinked(b)'
    <3>1. ASSUME NEW i \in 1..Depth
          PROVE  Start(b, i - 1)' = Start(b, i - 1)
      <4>1. i - 1 \in 0..Depth
        BY <1>0
      <4> QED
        BY <2>3, <4>1
    <3>2. FramesLinked(b)
      BY <2>1 DEF WalkIInv
    <3> QED
      BY <1>u, <2>2, <2>3, <3>1, <3>2 DEF FramesLinked
  <2>5. (Start(b, Depth))' = Start(b, Depth)
    BY <1>u, <2>2 DEF Start
  <2>6. (EndsOf(b, Depth))' = EndsOf(b, Depth)
    BY <1>u, <2>2, <2>5 DEF EndsOf
  <2>7. (EndsOf(b, Depth - 1))' = EndsOf(b, Depth - 1)
    BY <1>u, <2>2 DEF EndsOf, Start
  <2>8. Top' = Top
    BY <1>u, <2>2 DEF Top
  <2>9. (Left(mode, input, Depth, Top, pos))' = Left(mode, input, Depth, Top, pos)
    BY <1>u, <2>2, <2>8
  <2>10. Decided(b)' /\ (b \in 0..Len(input))'
    <3>1. (EndsOf(b, 0))' = EndsOf(b, 0)
      BY <1>u DEF EndsOf, Start
    <3> QED
      BY <1>u, <2>1, <3>1 DEF WalkIInv, Decided
  <2>11. phase = "chunks" => (EndsOf(b, Depth))' = Ending(mode, input, string.major,
             string.total, pos)'
    BY <1>u, <2>1, <2>6 DEF WalkIInv
  <2> QED
    BY <1>u, <2>1, <2>4, <2>5, <2>6, <2>7, <2>8, <2>9, <2>10, <2>11 DEF WalkIInv
<1> QED
  BY <1>1, <1>2 DEF LInv

(* In every state of every walk each open frame stands for the item the      *)
(* grammar has where its head is: what may still end the container is what   *)
(* the grammar has left of it, and before its first and after its last item  *)
(* that is where the item and the container end.                             *)
THEOREM LanguageInvariant == Safety => []LanguageIInv
<1>1. Init => LInv(0)
  <2>1. ASSUME Init
        PROVE  IInv /\ phase = "item" /\ stack = <<>> /\ pos = 0 /\ 0 \in 0..Len(input)
    <3>1. IInv
      BY <2>1, InitIInv
    <3> QED
      BY <2>1, <3>1, State DEF Init
  <2> QED
    BY <2>1, BeginLanguage DEF LInv
<1>2. LInv(0) /\ [Next]_vars => LInv(0)'
  <2>1. ASSUME LInv(0), Step
        PROVE  LInv(0)'
    <3>1. IInv'
      BY <2>1, StepPreserves DEF LInv
    <3>2. WalkIInv(0)'
      BY <2>1, StepLanguage
    <3> QED
      BY <3>1, <3>2 DEF LInv
  <2>2. ASSUME LInv(0), UNCHANGED vars
        PROVE  LInv(0)'
    BY <2>2, Idle
  <2> QED
    BY <2>1, <2>2 DEF Next, Returned
<1>3. LInv(0) => LanguageIInv
  BY DEF LInv, LanguageIInv
<1> QED
  BY <1>1, <1>2, <1>3, PTL DEF Safety

(* skip, raw_structural and the value decoders accept, of every input and    *)
(* under every limit, exactly the items the grammar of their mode has at its *)
(* front, and end where it ends them: heads, strings and their chunks, the   *)
(* text of strings, floats, containers with and without a length, tags, the  *)
(* order of keys, the depth and the length limits all together.              *)
THEOREM SafetyLanguage == Safety => []Language
<1>1. LanguageIInv => Language
  BY AcceptedIs DEF LanguageIInv, WalkIInv, Decided, Language
<1> QED
  BY <1>1, LanguageInvariant, PTL

-----------------------------------------------------------------------------
(* The bulk decoders: where the elements of an array begin.                 *)

LEMMA MaxIs ==
  ASSUME NEW S, S \subseteq Nat, NEW x \in S, \A y \in S : y <= x
  PROVE  Max(S) = x
<1>1. \A z \in S : z >= x => z = x
  OBVIOUS
<1>2. \A y \in S : x >= y
  OBVIOUS
<1> QED
  BY <1>1, <1>2 DEF Max

(* One step of the fold that Begin is.                                      *)
Longer(begin) ==
  IF IsElement(element, Last(begin)) THEN Append(begin, HeadEnd(Last(begin))) ELSE begin

LongerIn(S, g) ==
  g = [s \in SUBSET S |-> IF s = {} THEN <<HeadEnd(0)>> ELSE Longer(g[s \ {Max(s)}])]

LEMMA BeginIs ==
  Begin = (CHOOSE g : LongerIn(DOMAIN input, g))[DOMAIN input]
BY DEF Begin, FoldLeft, MapThenFoldSet, LongerIn, Longer

LEMMA LongerExists ==
  ASSUME NEW n \in Nat
  PROVE  \E g : LongerIn(1..n, g)
<1> DEFINE bad == {m \in Nat : ~ \E g : LongerIn(1..m, g)}
<1>1. ASSUME bad # {} PROVE FALSE
  <2>1. bad \subseteq Nat
    OBVIOUS
  <2>2. \A k \in Nat : k \notin bad => \E g : LongerIn(1..k, g)
    OBVIOUS
  <2>3. \A k \in bad : ~ \E g : LongerIn(1..k, g)
    OBVIOUS
  <2> HIDE DEF bad
  <2>4. PICK m \in bad : \A k \in bad : m <= k
    BY <1>1, <2>1, Least
  <2>5. m \in Nat /\ ~ \E g : LongerIn(1..m, g)
    BY <2>1, <2>3
  <2>6. CASE m = 0
    <3> DEFINE g == [s \in SUBSET (1..0) |-> <<HeadEnd(0)>>]
    <3>1. \A s \in SUBSET (1..0) : s = {}
      OBVIOUS
    <3>2. LongerIn(1..0, g)
      BY <3>1 DEF LongerIn
    <3> QED
      BY <2>5, <2>6, <3>2
  <2>7. CASE m # 0
    <3>1. PICK k \in Nat : m = k + 1
      <4>1. m - 1 \in Nat /\ m = (m - 1) + 1
        BY <2>5, <2>7
      <4> QED
        BY <4>1
    <3>2. PICK f : LongerIn(1..k, f)
      <4>1. ~(m <= k)
        BY <3>1
      <4>2. k \notin bad
        BY <2>4, <4>1
      <4> QED
        BY <2>2, <4>2
    <3> DEFINE g == [s \in SUBSET (1..m) |-> IF m \in s THEN Longer(f[s \ {m}]) ELSE f[s]]
               step(h, s) == IF s = {} THEN <<HeadEnd(0)>> ELSE Longer(h[s \ {Max(s)}])
    <3>3. \A j \in 1..m : j = m \/ j \in 1..k
      BY <3>1
    <3>4. m \in 1..m /\ m \notin 1..k /\ 1..k \subseteq 1..m
      BY <3>1
    <3>5. ASSUME NEW s \in SUBSET (1..m)
          PROVE  g[s] = step(g, s)
      <4>1. CASE m \in s
        <5>1. Max(s) = m
          <6>1. s \subseteq Nat /\ \A y \in s : y <= m
            BY <2>5
          <6> QED
            BY <4>1, <6>1, MaxIs
        <5>2. s \ {m} \in SUBSET (1..m) /\ m \notin s \ {m}
          OBVIOUS
        <5>3. g[s] = Longer(f[s \ {m}]) /\ g[s \ {m}] = f[s \ {m}]
          BY <4>1, <5>2
        <5>4. s # {}
          BY <4>1
        <5> HIDE DEF g
        <5> QED
          BY <5>1, <5>3, <5>4
      <4>2. CASE m \notin s
        <5>1. s \in SUBSET (1..k)
          BY <3>3, <4>2
        <5>2. f[s] = step(f, s)
          BY <3>2, <5>1 DEF LongerIn
        <5>3. s \ {Max(s)} \in SUBSET (1..m) /\ m \notin s \ {Max(s)}
          BY <4>2
        <5>4. g[s \ {Max(s)}] = f[s \ {Max(s)}] /\ g[s] = f[s]
          BY <4>2, <5>3
        <5> HIDE DEF g
        <5> QED
          BY <5>2, <5>4
      <4> QED
        BY <4>1, <4>2
    <3>6. g = [s \in SUBSET (1..m) |-> g[s]]
      OBVIOUS
    <3> HIDE DEF g
    <3>7. LongerIn(1..m, g)
      BY <3>5, <3>6 DEF LongerIn
    <3> QED
      BY <2>5, <3>7
  <2> QED
    BY <2>6, <2>7
<1> QED
  BY <1>1

LEMMA HeadForward ==
  ASSUME NEW p \in Nat
  PROVE  HeadEnd(p) \in Nat /\ p < HeadEnd(p)
<1>1. Width(p) \in {0, 1, 2, 4, 8}
  BY DEF Width
<1> QED
  BY <1>1 DEF HeadEnd

(* Elements one behind the other, k of them unless the last begin has none. *)
Elementwise(b, k) ==
  /\ b \in Seq(Nat) /\ Len(b) \in 1..(k + 1) /\ b[1] = HeadEnd(0)
  /\ \A i \in 1..Len(b) : i <= b[i]
  /\ \A i \in 1..(Len(b) - 1) : IsElement(element, b[i]) /\ b[i + 1] = HeadEnd(b[i])
  /\ Len(b) = k + 1 \/ ~IsElement(element, b[Len(b)])

LEMMA ElementwiseBegins == Elementwise(<<HeadEnd(0)>>, 0)
<1>1. HeadEnd(0) \in Nat /\ 1 <= HeadEnd(0)
  BY HeadForward
<1> DEFINE b == <<HeadEnd(0)>>
<1>2. b \in Seq(Nat) /\ Len(b) = 1 /\ b[1] = HeadEnd(0)
  BY <1>1
<1> HIDE DEF b
<1>3. \A i \in 1..1 : i = 1
  OBVIOUS
<1>4. 1..(1 - 1) = {}
  OBVIOUS
<1>5. Elementwise(b, 0)
  BY <1>1, <1>2, <1>3, <1>4 DEF Elementwise
<1> QED
  BY <1>5 DEF b

LEMMA ElementwiseGoesOn ==
  ASSUME NEW k \in Nat, NEW b, Elementwise(b, k)
  PROVE  Elementwise(Longer(b), k + 1)
<1> DEFINE n == Len(b)
           p == b[n]
<1>1. /\ b \in Seq(Nat) /\ n \in Nat /\ 1 <= n /\ n <= k + 1 /\ p \in Nat /\ n <= p
      /\ Last(b) = p
  BY DEF Elementwise, Last
<1>2. CASE ~IsElement(element, p)
  BY <1>1, <1>2 DEF Longer, Elementwise
<1>3. CASE IsElement(element, p)
  <2> DEFINE q == HeadEnd(p)
             c == Append(b, q)
  <2>1. q \in Nat /\ p < q
    BY <1>1, HeadForward
  <2>2. /\ c \in Seq(Nat) /\ Len(c) = n + 1 /\ c[n + 1] = q
        /\ \A i \in 1..n : c[i] = b[i]
    BY <1>1, <2>1
  <2>3. n = k + 1 /\ Longer(b) = c
    BY <1>1, <1>3 DEF Elementwise, Longer
  <2> HIDE DEF c
  <2>4. \A i \in 1..(n + 1) : i = n + 1 \/ i \in 1..n
    BY <1>1
  <2>5. ASSUME NEW i \in 1..(n + 1)
        PROVE  i <= c[i]
    <3>1. CASE i = n + 1
      <4>1. c[i] = q
        BY <2>2, <3>1
      <4> HIDE DEF q
      <4> QED
        BY <1>1, <2>1, <3>1, <4>1
    <3>2. CASE i \in 1..n
      BY <2>2, <3>2 DEF Elementwise
    <3> QED
      BY <2>4, <3>1, <3>2
  <2>6. ASSUME NEW i \in 1..((n + 1) - 1)
        PROVE  IsElement(element, c[i]) /\ c[i + 1] = HeadEnd(c[i])
    <3>1. i \in 1..n /\ (i = n \/ (i \in 1..(n - 1) /\ i + 1 \in 1..n))
      BY <1>1
    <3> QED
      BY <1>3, <2>2, <3>1 DEF Elementwise
  <2>7. n + 1 \in 1..((k + 1) + 1) /\ n + 1 = (k + 1) + 1 /\ 1 \in 1..n
    BY <1>1, <2>3
  <2> HIDE DEF n
  <2>8. Elementwise(c, k + 1)
    BY <2>2, <2>5, <2>6, <2>7 DEF Elementwise, n
  <2> QED
    BY <2>3, <2>8
<1> QED
  BY <1>2, <1>3

LEMMA BeginIsCut ==
  ASSUME IsInput(input)
  PROVE  /\ Elementwise(Begin, Len(input))
         /\ ~IsElement(element, Begin[Len(Begin)])
<1> DEFINE n == Len(input)
           g == CHOOSE g : LongerIn(1..n, g)
<1>1. n \in Nat /\ DOMAIN input = 1..n
  BY InputIsSeq
<1>2. LongerIn(1..n, g)
  BY <1>1, LongerExists
<1>3. Begin = g[1..n]
  BY <1>1, BeginIs
<1> HIDE DEF g
<1>4. g[{}] = <<HeadEnd(0)>>
  BY <1>2 DEF LongerIn
<1>5. ASSUME NEW k \in Nat, k + 1 <= n
      PROVE  g[1..(k + 1)] = Longer(g[1..k])
  <2>1. 1..(k + 1) \in SUBSET (1..n) /\ 1..(k + 1) # {}
    BY <1>1, <1>5
  <2>2. Max(1..(k + 1)) = k + 1
    <3>1. 1..(k + 1) \subseteq Nat /\ k + 1 \in 1..(k + 1) /\ \A y \in 1..(k + 1) : y <= k + 1
      OBVIOUS
    <3> QED
      BY <3>1, MaxIs
  <2>3. (1..(k + 1)) \ {k + 1} = 1..k
    OBVIOUS
  <2> QED
    BY <1>2, <2>1, <2>2, <2>3 DEF LongerIn
<1> DEFINE bad == {k \in Nat : k <= n /\ ~Elementwise(g[1..k], k)}
<1>6. ASSUME bad # {} PROVE FALSE
  <2>1. bad \subseteq Nat
    OBVIOUS
  <2> HIDE DEF bad
  <2>2. PICK k \in bad : \A j \in bad : k <= j
    BY <1>6, <2>1, Least
  <2>3. k \in Nat /\ k <= n /\ ~Elementwise(g[1..k], k)
    BY DEF bad
  <2>4. CASE k = 0
    <3>1. 1..0 = {}
      OBVIOUS
    <3> QED
      BY <1>4, <2>3, <2>4, <3>1, ElementwiseBegins
  <2>5. CASE k # 0
    <3>1. PICK j \in Nat : k = j + 1
      <4>1. k - 1 \in Nat /\ k = (k - 1) + 1
        BY <2>3, <2>5
      <4> QED
        BY <4>1
    <3>2. j <= n /\ ~(k <= j)
      BY <1>1, <2>3, <3>1
    <3>3. Elementwise(g[1..j], j)
      BY <2>2, <3>2 DEF bad
    <3> QED
      BY <1>5, <2>3, <3>1, <3>3, ElementwiseGoesOn
  <2> QED
    BY <2>4, <2>5
<1>7. Elementwise(Begin, n)
  BY <1>1, <1>3, <1>6
<1>8. ~IsElement(element, Begin[Len(Begin)])
  <2>1. CASE Len(Begin) = n + 1
    <3>1. n + 1 <= Begin[n + 1] /\ Begin[n + 1] \in Nat
      <4>1. n + 1 \in 1..Len(Begin)
        BY <1>1, <2>1
      <4> QED
        BY <1>7, <2>1, <4>1 DEF Elementwise
    <3>2. ~(Begin[n + 1] < n)
      BY <1>1, <3>1
    <3> QED
      BY <2>1, <3>2 DEF IsElement
  <2> QED
    BY <1>7, <2>1 DEF Elementwise
<1> QED
  BY <1>7, <1>8

(* Elements up to the first item that is none.                              *)
Cuts(b) == Elementwise(b, Len(input)) /\ ~IsElement(element, b[Len(b)])

LEMMA CutsNext ==
  ASSUME NEW b, input' = input, element' = element
  PROVE  Cuts(b)' <=> Cuts(b)
BY DEF Cuts, Elementwise, IsElement, Byte, Info, Major, HeadEnd, Width, Meaning, Cast,
       Said, Word, Encoded

LEMMA BeginNext ==
  (IsInput(input) => \E b : Cuts(b) /\ Begin = b)'
<1>1. IsInput(input) => \E b : Cuts(b) /\ Begin = b
  BY BeginIsCut DEF Cuts
<1> QED
  BY <1>1, PTL

LEMMA BeginUnique ==
  ASSUME NEW b, NEW c, Cuts(b), Cuts(c)
  PROVE  b = c
<1> DEFINE n == Len(b)
           m == Len(c)
<1>1. /\ n \in Nat /\ m \in Nat /\ 1 <= n /\ 1 <= m
      /\ b \in Seq(Nat) /\ c \in Seq(Nat)
  BY DEF Cuts, Elementwise
<1> DEFINE bad == {i \in Nat : 1 <= i /\ i <= n /\ i <= m /\ b[i] # c[i]}
<1>2. ASSUME bad # {} PROVE FALSE
  <2>1. bad \subseteq Nat
    OBVIOUS
  <2> HIDE DEF bad
  <2>2. PICK i \in bad : \A j \in bad : i <= j
    BY <1>2, <2>1, Least
  <2>3. i \in Nat /\ 1 <= i /\ i <= n /\ i <= m /\ b[i] # c[i]
    BY DEF bad
  <2>4. b[1] = c[1]
    BY DEF Cuts, Elementwise
  <2>5. i - 1 \in Nat /\ 1 <= i - 1 /\ i - 1 <= n - 1 /\ i - 1 <= m - 1 /\ i = (i - 1) + 1
    BY <1>1, <2>3, <2>4
  <2>6. b[i - 1] = c[i - 1]
    <3>1. i - 1 \notin bad
      BY <2>2, <2>3
    <3> QED
      BY <1>1, <2>5, <3>1 DEF bad
  <2> DEFINE j == i - 1
  <2>7. j \in 1..(n - 1) /\ j \in 1..(m - 1) /\ j + 1 = i
    BY <1>1, <2>5
  <2> HIDE DEF j
  <2>8. b[j + 1] = HeadEnd(b[j]) /\ c[j + 1] = HeadEnd(c[j])
    BY <2>7 DEF Cuts, Elementwise
  <2> QED
    BY <2>3, <2>6, <2>7, <2>8 DEF j
<1>3. \A i \in Nat : 1 <= i /\ i <= n /\ i <= m => b[i] = c[i]
  BY <1>2
<1>4. ~(n < m)
  <2>1. SUFFICES ASSUME n < m PROVE FALSE
    OBVIOUS
  <2>2. n \in 1..(m - 1) /\ b[n] = c[n]
    BY <1>1, <1>3, <2>1
  <2> QED
    BY <2>2 DEF Cuts, Elementwise
<1>5. ~(m < n)
  <2>1. SUFFICES ASSUME m < n PROVE FALSE
    OBVIOUS
  <2>2. m \in Nat /\ 1 <= m /\ m <= n /\ m <= m
    BY <1>1, <2>1
  <2>3. b[m] = c[m]
    BY <1>3, <2>2
  <2>4. m \in 1..(n - 1)
    BY <1>1, <2>1
  <2> QED
    BY <2>3, <2>4 DEF Cuts, Elementwise
<1>6. n = m
  BY <1>1, <1>4, <1>5
<1>7. b = [i \in 1..n |-> b[i]] /\ c = [i \in 1..n |-> c[i]]
  BY <1>1, <1>6
<1>8. \A i \in 1..n : b[i] = c[i]
  BY <1>1, <1>3, <1>6
<1> QED
  BY <1>7, <1>8

LEMMA BeginSame ==
  ASSUME IsInput(input), input' = input, element' = element
  PROVE  Begin' = Begin
<1>1. PICK b : Cuts(b)' /\ Begin' = b
  BY BeginNext DEF IsInput
<1>2. Cuts(b)
  BY <1>1, CutsNext
<1>3. Cuts(Begin)
  BY BeginIsCut DEF Cuts
<1> QED
  BY <1>1, <1>2, <1>3, BeginUnique

-----------------------------------------------------------------------------
(* What an integer of the vector means.                                     *)

IsWord(w) == w \in Seq(0..255) /\ Len(w) = 8

LEMMA MemberOf ==
  ASSUME NEW S, NEW v \in Seq(S), NEW i \in 1..Len(v)
  PROVE  v[i] \in S
OBVIOUS

LEMMA ExtendedIs ==
  ASSUME NEW v \in Seq(0..255), Len(v) \in 1..8
  PROVE  /\ IsWord(Data!Extended(v, 8))
         /\ \A i \in 1..(8 - Len(v)) : Data!Extended(v, 8)[i] = 0
         /\ \A i \in (9 - Len(v))..8 : Data!Extended(v, 8)[i] = v[i - (8 - Len(v))]
<1>0. PICK n \in 1..8 : n = Len(v)
  OBVIOUS
<1> DEFINE z == Data!Zeros(8 - n)
           w == Data!Extended(v, 8)
<1>1. 8 - n \in Nat
  OBVIOUS
<1>2. z \in Seq(0..255) /\ Len(z) = 8 - n /\ \A i \in 1..(8 - n) : z[i] = 0
  BY <1>1 DEF Data!Zeros
<1>3. w = z \o v
  BY <1>0 DEF Data!Extended
<1> HIDE DEF z, w
<1>4. w \in Seq(0..255) /\ Len(w) = 8
  <2>1. z \o v \in Seq(0..255)
    BY <1>2
  <2>2. Len(z \o v) = Len(z) + Len(v)
    BY <1>2
  <2>3. (8 - n) + n = 8
    OBVIOUS
  <2> QED
    BY <1>0, <1>2, <1>3, <2>1, <2>2, <2>3
<1>5. \A i \in 1..(8 - n) : w[i] = z[i]
  BY <1>2, <1>3
<1>6. ASSUME NEW i \in (9 - n)..8
      PROVE  w[i] = v[i - (8 - n)]
  <2>1. i \in 1..((8 - n) + n) /\ ~(i <= 8 - n)
    OBVIOUS
  <2> QED
    BY <1>0, <1>2, <1>3, <2>1
<1> QED
  BY <1>0, <1>2, <1>4, <1>5, <1>6 DEF IsWord, w

LEMMA LowIs ==
  ASSUME NEW w, IsWord(w), NEW s \in 1..8
  PROVE  /\ Data!Low(w, s) \in Seq(0..255) /\ Len(Data!Low(w, s)) = s
         /\ \A i \in 1..s : Data!Low(w, s)[i] = w[8 - s + i]
<1> DEFINE start == 8 - s + 1
           v == SubSeq(w, start, 8)
<1>1. Data!Low(w, s) = v
  BY DEF Data!Low, IsWord
<1>2. start \in 1..8 /\ 8 - start + 1 = s /\ w \in Seq(0..255) /\ Len(w) = 8
  BY DEF IsWord
<1>3. v \in Seq(0..255) /\ Len(v) = s
  <2>1. ASSUME NEW S, NEW t \in Seq(S), NEW m \in 1..Len(t)
        PROVE  SubSeq(t, m, Len(t)) \in Seq(S) /\ Len(SubSeq(t, m, Len(t))) = Len(t) - m + 1
    OBVIOUS
  <2> HIDE DEF start
  <2> QED
    BY <1>2, <2>1
<1>4. ASSUME NEW i \in 1..s
      PROVE  v[i] = w[8 - s + i]
  <2>1. start + i - 1 = 8 - s + i /\ i \in 1..(8 - start + 1)
    OBVIOUS
  <2> QED
    BY <1>2, <2>1
<1> QED
  BY <1>1, <1>3, <1>4

LEMMA NotIs ==
  ASSUME NEW v \in Seq(0..255)
  PROVE  /\ Data!Not(v) \in Seq(0..255) /\ Len(Data!Not(v)) = Len(v)
         /\ \A i \in 1..Len(v) : Data!Not(v)[i] = 255 - v[i]
         /\ Data!Not(Data!Not(v)) = v
<1>0. PICK n \in Nat : n = Len(v)
  OBVIOUS
<1> DEFINE u == Data!Not(v)
           t == Data!Not(u)
<1>1. u = [i \in 1..n |-> 255 - v[i]]
  BY <1>0 DEF Data!Not
<1>2. \A i \in 1..n : v[i] \in 0..255 /\ 255 - v[i] \in 0..255 /\ 255 - (255 - v[i]) = v[i]
  <2>1. \A b \in 0..255 : 255 - b \in 0..255 /\ 255 - (255 - b) = b
    OBVIOUS
  <2>2. \A i \in 1..n : v[i] \in 0..255
    BY <1>0, MemberOf, Zenon
  <2> QED
    BY <2>1, <2>2
<1> HIDE DEF u
<1>3. u \in Seq(0..255) /\ Len(u) = n /\ \A i \in 1..n : u[i] = 255 - v[i]
  BY <1>1, <1>2
<1>4. t = [i \in 1..n |-> 255 - u[i]]
  BY <1>3 DEF Data!Not
<1> HIDE DEF t
<1>5. \A i \in 1..n : 255 - u[i] = v[i]
  BY <1>2, <1>3
<1>6. t = [i \in 1..n |-> v[i]]
  BY <1>4, <1>5
<1>7. v = [i \in 1..n |-> v[i]]
  BY <1>0
<1> QED
  BY <1>0, <1>3, <1>6, <1>7 DEF t, u

(* The low bytes of a word give it back when it needs no others.            *)
LEMMA LowExtended ==
  ASSUME NEW w, IsWord(w), NEW s \in 1..8
  PROVE  Data!Extended(Data!Low(w, s), 8) = w <=> Data!Narrow(w, s)
<1> DEFINE v == Data!Low(w, s)
           x == Data!Extended(v, 8)
<1>1. v \in Seq(0..255) /\ Len(v) = s /\ \A i \in 1..s : v[i] = w[8 - s + i]
  BY LowIs
<1>2. /\ IsWord(x)
      /\ \A i \in 1..(8 - s) : x[i] = 0
      /\ \A i \in (9 - s)..8 : x[i] = v[i - (8 - s)]
  <2> HIDE DEF v
  <2> QED
    BY <1>1, ExtendedIs
<1> HIDE DEF v, x
<1>3. ASSUME NEW i \in (9 - s)..8
      PROVE  x[i] = w[i]
  <2>1. i - (8 - s) \in 1..s /\ 8 - s + (i - (8 - s)) = i
    OBVIOUS
  <2> QED
    BY <1>1, <1>2, <2>1
<1>4. \A i \in 1..8 : i \in 1..(8 - s) \/ i \in (9 - s)..8
  OBVIOUS
<1>5. Data!Narrow(w, s) <=> \A i \in 1..(8 - s) : w[i] = 0
  BY DEF Data!Narrow, IsWord
<1>6. ASSUME x = w PROVE Data!Narrow(w, s)
  BY <1>2, <1>5, <1>6
<1>7. ASSUME Data!Narrow(w, s) PROVE x = w
  <2>1. \A i \in 1..8 : x[i] = w[i]
    BY <1>2, <1>3, <1>4, <1>5, <1>7
  <2>2. x = [i \in 1..8 |-> x[i]] /\ w = [i \in 1..8 |-> w[i]]
    BY <1>2 DEF IsWord
  <2> QED
    BY <2>1, <2>2
<1> QED
  BY <1>6, <1>7 DEF v, x

LEMMA SizeIs ==
  ASSUME NEW type \in Unsigned \cup Signed
  PROVE  /\ Size(type) \in {1, 2, 4, 8} /\ Size(type) \in 1..8
         /\ type \notin Floats /\ type # "bool" /\ type \in Elements
         /\ type \in Signed <=> type \notin Unsigned
         /\ Majors(type) = IF type \in Signed THEN {0, 1} ELSE {0}
BY DEF Size, Unsigned, Signed, Floats, Majors, Elements

LEMMA SeqWider ==
  ASSUME NEW S, NEW T, S \subseteq T, NEW s \in Seq(S)
  PROVE  s \in Seq(T)
<1>1. \A i \in 1..Len(s) : s[i] \in T
  OBVIOUS
<1>2. s = [i \in 1..Len(s) |-> s[i]] /\ Len(s) \in Nat
  OBVIOUS
<1> QED
  BY <1>1, <1>2

(* The argument of a whole head as a word.                                  *)
LEMMA WordIs ==
  ASSUME IsInput(input), NEW p \in Nat, p < Len(input), HeadEnd(p) <= Len(input)
  PROVE  /\ IsWord(Word(p))
         /\ Width(p) \in {0, 1, 2, 4, 8} /\ HeadEnd(p) = p + 1 + Width(p)
         /\ Width(p) = 0 => \A i \in 1..7 : Word(p)[i] = 0
         /\ Width(p) # 0 => /\ \A i \in 1..(8 - Width(p)) : Word(p)[i] = 0
                            /\ Word(p)[9 - Width(p)] = Byte(p + 1)
<1> DEFINE n == Width(p)
           e == Encoded(p)
<1>1. n \in {0, 1, 2, 4, 8} /\ HeadEnd(p) = p + 1 + n
  BY DEF Width, HeadEnd
<1>2. Len(input) \in Nat /\ input \in Seq(0..255)
  <2>1. input \in Seq(Bytes) /\ Bytes \subseteq 0..255 /\ Len(input) \in Nat
    BY InputIsSeq, SkipAssumption
  <2> QED
    BY <2>1, SeqWider
<1> HIDE DEF n
<1>3. CASE n = 0
  <2>1. Info(p) \in 0..255
    <3>1. Info(p) \in 0..31
      BY InfoRange
    <3> QED
      BY <3>1
  <2>2. <<Info(p)>> \in Seq(0..255) /\ Len(<<Info(p)>>) = 1 /\ 1 \in 1..8 /\ 8 - 1 = 7
    BY <2>1
  <2>3. Word(p) = Data!Extended(<<Info(p)>>, 8)
    BY <1>3 DEF Word, n
  <2>4. IsWord(Word(p)) /\ \A i \in 1..7 : Word(p)[i] = 0
    BY <2>2, <2>3, ExtendedIs
  <2> QED
    BY <1>1, <1>3, <2>4 DEF n
<1>4. CASE n # 0
  <2>1. n \in 1..8
    BY <1>1, <1>4
  <2>2. e = SubSeq(input, p + 1, p + 1 + n)
    BY <1>1 DEF Encoded
  <2>3. p + 1 \in 1..Len(input) /\ p + 1 + n \in 1..Len(input) /\ p + 2 \in 1..Len(input)
    BY <1>1, <1>2, <2>1
  <2>4. e \in Seq(0..255) /\ Len(e) = n + 1 /\ e[2] = input[p + 2]
    <3>1. (p + 1 + n) - (p + 1) + 1 = n + 1 /\ 2 \in 1..(n + 1) /\ (p + 1) + 2 - 1 = p + 2
      BY <2>1
    <3>2. e \in Seq(0..255)
      <4>1. p + 1 \in Nat /\ p + 1 >= 1 /\ p + 1 + n \in 0..Len(input)
        BY <2>3
      <4> QED
        BY <1>2, <2>2, <4>1, CutKey
    <3>3. Len(e) = n + 1
      BY <1>2, <2>2, <2>3, <3>1
    <3>4. e[2] = input[p + 2]
      BY <1>2, <2>2, <2>3, <3>1
    <3> QED
      BY <3>2, <3>3, <3>4
  <2> HIDE DEF e
  <2> DEFINE v == Tail(e)
  <2>5. v \in Seq(0..255) /\ Len(v) = n /\ v[1] = input[p + 2]
    <3>1. e # <<>> /\ 1 \in 1..(Len(e) - 1)
      BY <2>1, <2>4
    <3>2. v \in Seq(0..255) /\ Len(v) = Len(e) - 1
      BY <2>4, <3>1
    <3>3. v[1] = e[1 + 1]
      BY <2>4, <3>1
    <3> QED
      BY <2>1, <2>4, <3>2, <3>3
  <2> HIDE DEF v
  <2>6. Word(p) = Data!Extended(v, 8)
    BY <1>4 DEF Word, n, e, v
  <2>7. /\ IsWord(Word(p))
        /\ \A i \in 1..(8 - n) : Word(p)[i] = 0
        /\ \A i \in (9 - n)..8 : Word(p)[i] = v[i - (8 - n)]
    BY <2>1, <2>5, <2>6, ExtendedIs
  <2>8. 9 - n \in (9 - n)..8 /\ (9 - n) - (8 - n) = 1 /\ p + 1 + 1 = p + 2
    BY <2>1
  <2>9. Word(p)[9 - n] = Byte(p + 1)
    BY <2>5, <2>7, <2>8 DEF Byte
  <2> QED
    BY <1>1, <1>4, <2>7, <2>9 DEF n
<1> QED
  BY <1>3, <1>4

(* A number of the vector is the one in the slice exactly when the checked    *)
(* conversion has room for it.                                               *)
LEMMA MeantIs ==
  ASSUME NEW type \in Unsigned \cup Signed, NEW p, IsWord(Word(p)),
         Major(p) \in Majors(type)
  PROVE  Meaning(type, Cast(type, p)) = Said(type, p) <=> InRange(type, p)
<1> DEFINE w == Word(p)
           s == Size(type)
           low == Data!Low(w, s)
<1>1. /\ s \in 1..8 /\ type \notin Floats \cup {"bool"}
      /\ type \in Signed <=> type \notin Unsigned
      /\ Majors(type) = IF type \in Signed THEN {0, 1} ELSE {0}
  BY SizeIs
<1>2. IsWord(w)
  OBVIOUS
<1>3. Said(type, p) = [negative |-> Major(p) = 1, magnitude |-> w]
  BY <1>1 DEF Said
<1>4. InRange(type, p) <=> Data!Narrow(w, s) /\ (type \in Signed => w[9 - s] < 128)
  BY DEF InRange
<1>5. Cast(type, p) = IF type \in Signed /\ Major(p) = 1 THEN Data!Not(low) ELSE low
  BY <1>1 DEF Cast
<1>6. Meaning(type, Cast(type, p))
        = IF type \in Signed /\ Cast(type, p)[1] >= 128
          THEN [negative |-> TRUE, magnitude |-> Data!Extended(Data!Not(Cast(type, p)), 8)]
          ELSE [negative |-> FALSE, magnitude |-> Data!Extended(Cast(type, p), 8)]
  BY <1>1 DEF Meaning
<1> HIDE DEF w, s
<1>7. /\ low \in Seq(0..255) /\ Len(low) = s /\ low[1] = w[9 - s] /\ low[1] \in 0..255
      /\ Data!Extended(low, 8) = w <=> Data!Narrow(w, s)
  <2>1. low \in Seq(0..255) /\ Len(low) = s /\ \A i \in 1..s : low[i] = w[8 - s + i]
    BY <1>1, <1>2, LowIs
  <2>2. 1 \in 1..s /\ 8 - s + 1 = 9 - s
    BY <1>1
  <2>3. low[1] \in 0..255
    <3> HIDE DEF low
    <3> QED
      BY <2>1, <2>2, MemberOf
  <2> QED
    BY <1>1, <1>2, <2>1, <2>2, <2>3, LowExtended
<1>8. Data!Not(low)[1] = 255 - low[1] /\ Data!Not(Data!Not(low)) = low
  <2>1. 1 \in 1..s
    BY <1>1
  <2> HIDE DEF low
  <2> QED
    BY <1>7, <2>1, NotIs
<1> HIDE DEF low
<1> DEFINE P(x) == [negative |-> FALSE, magnitude |-> x]
           N(x) == [negative |-> TRUE, magnitude |-> x]
<1>9. /\ \A x, y : P(x) = P(y) <=> x = y
      /\ \A x, y : N(x) = N(y) <=> x = y
      /\ \A x, y : P(x) # N(y)
  <2>1. \A x : P(x).magnitude = x /\ N(x).magnitude = x /\ ~P(x).negative /\ N(x).negative
    OBVIOUS
  <2> HIDE DEF P, N
  <2> QED
    BY <2>1
<1>10. \A b \in 0..255 : (255 - b >= 128 <=> b < 128) /\ (b >= 128 <=> ~(b < 128))
  OBVIOUS
<1>11. CASE ~(type \in Signed /\ Major(p) = 1)
  <2>1. Cast(type, p) = low
    BY <1>5, <1>11
  <2>2. Said(type, p) = P(w)
    <3>1. Major(p) # 1
      BY <1>1, <1>11
    <3> QED
      BY <1>3, <3>1
  <2>3. Meaning(type, Cast(type, p))
          = IF type \in Signed /\ ~(low[1] < 128) THEN N(Data!Extended(Data!Not(low), 8))
            ELSE P(Data!Extended(low, 8))
    <3>1. low[1] >= 128 <=> ~(low[1] < 128)
      BY <1>7, <1>10
    <3> QED
      BY <1>6, <2>1, <3>1
  <2> HIDE DEF P, N
  <2> QED
    BY <1>4, <1>7, <1>9, <2>2, <2>3
<1>12. CASE type \in Signed /\ Major(p) = 1
  <2>1. Cast(type, p) = Data!Not(low)
    BY <1>5, <1>12
  <2>2. Said(type, p) = N(w)
    BY <1>3, <1>12
  <2>3. Meaning(type, Cast(type, p))
          = IF low[1] < 128 THEN N(Data!Extended(low, 8))
            ELSE P(Data!Extended(Data!Not(low), 8))
    <3>1. Data!Not(low)[1] >= 128 <=> low[1] < 128
      <4>1. PICK b \in 0..255 : b = low[1]
        BY <1>7
      <4> QED
        BY <1>8, <1>10, <4>1
    <3> QED
      BY <1>6, <1>8, <1>12, <2>1, <3>1
  <2> HIDE DEF P, N
  <2> QED
    BY <1>4, <1>7, <1>9, <1>12, <2>2, <2>3
<1> QED
  BY <1>11, <1>12

-----------------------------------------------------------------------------
(* Which items the decoders take for elements.                              *)

(* Where the refusal of the item at p is placed.                            *)
Within(error, p) ==
  /\ error.tag = "error" /\ error.at \in p..Len(input)
  /\ p < Len(input) => error.at <= HeadEnd(p)

Judges(error, p) ==
  /\ error = NoError <=> IsElement(element, p)
  /\ error # NoError => Within(error, p)

LEMMA ErrorWithin ==
  ASSUME NEW kind, NEW p \in Nat, NEW at \in p..Len(input), at <= HeadEnd(p)
  PROVE  Error(kind, at) # NoError /\ Within(Error(kind, at), p)
BY DEF Error, NoError, Within

LEMMA HeadPlaced ==
  ASSUME IsInput(input), NEW p \in 0..Len(input), mode # "deterministic"
  PROVE  /\ HeadError(p) = NoError <=>
              p < Len(input) /\ Info(p) \notin 28..30 /\ HeadEnd(p) <= Len(input)
         /\ HeadError(p) # NoError => Within(HeadError(p), p)
<1>1. Len(input) \in Nat
  BY InputIsSeq, SkipAssumption
<1>2. HeadEnd(p) \in Nat /\ p < HeadEnd(p)
  BY HeadForward
<1>3. p \in p..Len(input) /\ p <= HeadEnd(p)
  BY <1>1, <1>2
<1>4. \A kind : Error(kind, p) # NoError /\ Within(Error(kind, p), p)
  BY <1>3, ErrorWithin
<1>5. p < Len(input) => \A kind : Error(kind, p + 1) # NoError /\ Within(Error(kind, p + 1), p)
  <2>1. p < Len(input) => p + 1 \in p..Len(input) /\ p + 1 <= HeadEnd(p)
    BY <1>1, <1>2
  <2> QED
    BY <2>1, ErrorWithin
<1>6. /\ p >= Len(input) <=> ~(p < Len(input))
      /\ HeadEnd(p) > Len(input) <=> ~(HeadEnd(p) <= Len(input))
  BY <1>1, <1>2
<1> HIDE DEF Error, NoError
<1> QED
  BY <1>4, <1>5, <1>6 DEF HeadError

LEMMA ElementMeant ==
  ASSUME NEW p, IsElement(element, p), element \in Elements
  PROVE  Meaning(element, Cast(element, p)) = Said(element, p)
<1>1. CASE element \in Floats \cup {"bool"}
  BY <1>1 DEF Meaning, Said
<1>2. CASE element \notin Floats \cup {"bool"}
  BY <1>2 DEF IsElement, Elements
<1> QED
  BY <1>1, <1>2

(* The integers of the type.                                                *)
LEMMA IntegerIs ==
  ASSUME IsInput(input), NEW p \in Nat, p < Len(input), HeadEnd(p) <= Len(input),
         Info(p) \notin 28..31, element \in Unsigned \cup Signed
  PROVE  IsElement(element, p) <=> Major(p) \in Majors(element) /\ InRange(element, p)
<1>1. element \notin Floats /\ element # "bool"
  BY SizeIs
<1>2. IsWord(Word(p))
  BY WordIs
<1>3. Major(p) \in Majors(element) =>
        (Meaning(element, Cast(element, p)) = Said(element, p) <=> InRange(element, p))
  BY <1>2, MeantIs
<1> QED
  BY <1>1, <1>3 DEF IsElement

LEMMA IntegersJudged ==
  ASSUME IsInput(input), NEW p \in 0..Len(input), mode # "deterministic",
         element \in Unsigned \cup Signed
  PROVE  Judges(BodyError(p), p) /\ Judges(IntegerError(p), p)
<1>1. Len(input) \in Nat
  BY InputIsSeq, SkipAssumption
<1>2. HeadEnd(p) \in Nat /\ p < HeadEnd(p)
  BY HeadForward
<1>3. \A kind : Error(kind, p) # NoError /\ Within(Error(kind, p), p)
  <2>1. p \in p..Len(input) /\ p <= HeadEnd(p)
    BY <1>1, <1>2
  <2> QED
    BY <2>1, ErrorWithin
<1>4. CASE HeadError(p) # NoError
  <2>1. ~IsElement(element, p)
    <3>1. \A i : i \notin 28..31 => i \notin 28..30
      OBVIOUS
    <3> QED
      BY <1>4, <3>1, HeadPlaced DEF IsElement
  <2>2. Within(HeadError(p), p)
    BY <1>4, HeadPlaced
  <2> QED
    BY <1>3, <1>4, <2>1, <2>2 DEF BodyError, IntegerError, Judges
<1>5. CASE HeadError(p) = NoError
  <2>1. p < Len(input) /\ Info(p) \notin 28..30 /\ HeadEnd(p) <= Len(input)
    BY <1>5, HeadPlaced
  <2>2. ~(p >= Len(input)) /\ (Info(p) # 31 <=> Info(p) \notin 28..31) /\ p \in Nat
    <3>1. Info(p) \in 0..31
      BY <2>1, InfoRange
    <3> QED
      BY <1>1, <2>1, <3>1
  <2>3. Info(p) # 31 =>
          (IsElement(element, p) <=> Major(p) \in Majors(element) /\ InRange(element, p))
    BY <2>1, <2>2, IntegerIs
  <2>4. Info(p) = 31 => ~IsElement(element, p)
    BY DEF IsElement
  <2>5. \A kind : Error(kind, HeadEnd(p)) # NoError /\ Within(Error(kind, HeadEnd(p)), p)
    <3>1. HeadEnd(p) \in p..Len(input) /\ HeadEnd(p) <= HeadEnd(p)
      BY <1>1, <1>2, <2>1
    <3> QED
      BY <3>1, ErrorWithin
  <2>6. Judges(BodyError(p), p)
    BY <1>3, <1>5, <2>2, <2>3, <2>4, <2>5 DEF BodyError, Judges
  <2>7. Judges(IntegerError(p), p)
    BY <1>3, <1>5, <2>2, <2>3, <2>4, <2>5 DEF IntegerError, Judges
  <2> QED
    BY <2>6, <2>7
<1> QED
  BY <1>4, <1>5

LEMMA FloatsJudged ==
  ASSUME IsInput(input), NEW p \in 0..Len(input), mode # "deterministic",
         element \in Floats
  PROVE  Judges(FloatError(p), p)
<1>1. Len(input) \in Nat
  BY InputIsSeq, SkipAssumption
<1>2. HeadEnd(p) \in Nat /\ p < HeadEnd(p)
  BY HeadForward
<1>3. \A kind : Error(kind, p) # NoError /\ Within(Error(kind, p), p)
  <2>1. p \in p..Len(input) /\ p <= HeadEnd(p)
    BY <1>1, <1>2
  <2> QED
    BY <2>1, ErrorWithin
<1>4. element # "bool"
  BY DEF Floats
<1>5. CASE HeadError(p) # NoError
  <2>1. ~IsElement(element, p)
    <3>1. \A i : i \notin 28..31 => i \notin 28..30
      OBVIOUS
    <3> QED
      BY <1>5, <3>1, HeadPlaced DEF IsElement
  <2>2. Within(HeadError(p), p)
    BY <1>5, HeadPlaced
  <2> QED
    BY <1>3, <1>5, <2>1, <2>2 DEF FloatError, Judges
<1>6. CASE HeadError(p) = NoError
  <2>1. p < Len(input) /\ Info(p) \notin 28..30 /\ HeadEnd(p) <= Len(input) /\ p \in Nat
    BY <1>1, <1>6, HeadPlaced
  <2>2. Info(p) \in 0..31 /\ Major(p) \in 0..7 /\ Byte(p) = 32 * Major(p) + Info(p)
    BY <2>1, InfoRange
  <2>3. ~(p >= Len(input)) /\ (Info(p) # 31 <=> Info(p) \notin 28..31)
    BY <1>1, <2>1, <2>2
  <2>4. Byte(p) \in 249..251 <=> Major(p) = 7 /\ Info(p) \in 25..27
    <3>1. \A m \in 0..7, i \in 0..31 : 32 * m + i \in 249..251 <=> m = 7 /\ i \in 25..27
      OBVIOUS
    <3>2. PICK m \in 0..7, i \in 0..31 : Major(p) = m /\ Info(p) = i
      BY <2>2
    <3>3. Byte(p) = 32 * m + i
      BY <2>2, <3>2
    <3>4. 32 * m + i \in 249..251 <=> m = 7 /\ i \in 25..27
      BY <3>1
    <3> QED
      BY <3>2, <3>3, <3>4
  <2>5. IsElement(element, p) <=>
          Info(p) # 31 /\ (Major(p) \in {0, 1} \/ (Major(p) = 7 /\ Info(p) \in 25..27))
    BY <1>4, <2>1, <2>3, <2>4 DEF IsElement
  <2> QED
    BY <1>3, <1>6, <2>3, <2>5 DEF FloatError, Judges
<1> QED
  BY <1>5, <1>6

LEMMA BoolIs ==
  ASSUME IsInput(input), NEW p \in Nat, p < Len(input), element = "bool"
  PROVE  /\ IsElement(element, p) <=> Byte(p) \in {244, 245}
         /\ Byte(p) \in {244, 245} => HeadEnd(p) = p + 1
<1>1. Info(p) \in 0..31 /\ Major(p) \in 0..7 /\ Byte(p) = 32 * Major(p) + Info(p)
  BY InfoRange
<1>2. Byte(p) \in {244, 245} => Info(p) \in {20, 21}
  <2>1. \A m \in 0..7, i \in 0..31 : 32 * m + i \in {244, 245} => i \in {20, 21}
    OBVIOUS
  <2>2. PICK m \in 0..7, i \in 0..31 : Major(p) = m /\ Info(p) = i
    BY <1>1
  <2>3. Byte(p) = 32 * m + i
    BY <1>1, <2>2
  <2>4. 32 * m + i \in {244, 245} => i \in {20, 21}
    BY <2>1
  <2> QED
    BY <2>2, <2>3, <2>4
<1>3. Byte(p) \in {244, 245} => HeadEnd(p) = p + 1
  BY <1>2 DEF HeadEnd, Width
<1>4. Byte(p) \in {244, 245} => HeadEnd(p) <= Len(input) /\ Info(p) \notin 28..31
  <2>1. Len(input) \in Nat
    BY InputIsSeq, SkipAssumption
  <2> QED
    BY <1>2, <1>3, <2>1
<1>5. IsElement(element, p)
        <=> Info(p) \notin 28..31 /\ HeadEnd(p) <= Len(input) /\ Byte(p) \in {244, 245}
  BY DEF IsElement, Floats
<1> QED
  BY <1>3, <1>4, <1>5

LEMMA EntriesJudged ==
  ASSUME IsInput(input), NEW p \in 0..Len(input), p < Len(input), mode # "deterministic",
         element \in Elements
  PROVE  Judges(EntryError(p), p)
<1>1. CASE element = "bool"
  <2>1. p \in p..Len(input) /\ p <= HeadEnd(p) /\ p \in Nat
    <3>1. Len(input) \in Nat /\ HeadEnd(p) \in Nat /\ p < HeadEnd(p)
      BY InputIsSeq, SkipAssumption, HeadForward
    <3> QED
      BY <3>1
  <2>2. Error("type", p) # NoError /\ Within(Error("type", p), p)
    BY <2>1, ErrorWithin
  <2>3. EntryError(p) = IF Byte(p) \in {244, 245} THEN NoError ELSE Error("type", p)
    BY <1>1 DEF EntryError, Floats
  <2>4. IsElement(element, p) <=> Byte(p) \in {244, 245}
    BY <1>1, <2>1, BoolIs
  <2> QED
    BY <2>2, <2>3, <2>4 DEF Judges
<1>2. CASE element \in Floats
  <2>1. element # "bool"
    BY <1>2 DEF Floats
  <2> QED
    BY <1>2, <2>1, FloatsJudged DEF EntryError
<1>3. CASE element \in Unsigned \cup Signed
  <2>1. element # "bool" /\ element \notin Floats
    BY <1>3, SizeIs
  <2> QED
    BY <1>3, <2>1, IntegersJudged DEF EntryError
<1> QED
  BY <1>1, <1>2, <1>3 DEF Elements

-----------------------------------------------------------------------------
(* Elements that are read together.                                         *)

(* Elements one behind the other are the next ones of the array.            *)
Row(at, n) ==
  \A j \in 0..(n - 1) : IsElement(element, at[j]) /\ HeadEnd(at[j]) = at[j + 1]

LEMMA InARow ==
  ASSUME NEW b, Cuts(b), NEW m \in Nat, m < Len(b), NEW n \in Nat, NEW at,
         at[0] = b[m + 1], Row(at, n)
  PROVE  m + n < Len(b) /\ \A j \in 0..n : b[m + 1 + j] = at[j]
<1>1. Len(b) \in Nat /\ b \in Seq(Nat)
  BY DEF Cuts, Elementwise
<1> DEFINE Good(k) == m + k < Len(b) /\ b[m + 1 + k] = at[k]
           bad == {k \in 0..n : ~Good(k)}
<1>2. ASSUME bad # {} PROVE FALSE
  <2>1. bad \subseteq Nat
    OBVIOUS
  <2>2. \A k \in 0..n : k \notin bad => Good(k)
    OBVIOUS
  <2>3. \A k \in bad : k \in 0..n /\ ~Good(k)
    OBVIOUS
  <2> HIDE DEF bad
  <2>4. PICK k \in bad : \A i \in bad : k <= i
    BY <1>2, <2>1, Least
  <2>5. k \in 0..n /\ ~Good(k)
    BY <2>3
  <2>6. k # 0
    <3>1. Good(0)
      OBVIOUS
    <3> HIDE DEF Good
    <3> QED
      BY <2>5, <3>1
  <2>7. PICK j \in 0..(n - 1) : k = j + 1
    <3>1. k - 1 \in 0..(n - 1) /\ k = (k - 1) + 1
      BY <2>5, <2>6
    <3> QED
      BY <3>1
  <2>8. Good(j)
    <3>1. j \in 0..n /\ ~(k <= j)
      BY <2>7
    <3>2. j \notin bad
      BY <2>4, <3>1
    <3> QED
      BY <2>2, <3>1, <3>2
  <2>9. IsElement(element, at[j]) /\ HeadEnd(at[j]) = at[k]
    BY <2>7 DEF Row
  <2> DEFINE i == m + 1 + j
  <2>10. i \in 1..Len(b) /\ b[i] = at[j]
    BY <1>1, <2>7, <2>8
  <2>11. i # Len(b)
    BY <2>9, <2>10 DEF Cuts
  <2>12. i \in 1..(Len(b) - 1)
    <3> HIDE DEF i
    <3> QED
      BY <1>1, <2>10, <2>11
  <2>13. b[i + 1] = HeadEnd(b[i])
    <3> HIDE DEF i
    <3> QED
      BY <2>12 DEF Cuts, Elementwise
  <2>14. i + 1 = m + 1 + k /\ m + k = i
    BY <2>7
  <2>15. m + k < Len(b)
    BY <1>1, <2>12, <2>14
  <2>16. b[m + 1 + k] = at[k]
    BY <2>9, <2>10, <2>13, <2>14
  <2> QED
    BY <2>5, <2>15, <2>16
<1>3. \A k \in 0..n : Good(k)
  BY <1>2
<1>4. n \in 0..n
  OBVIOUS
<1>5. \A k \in 0..n : m + k < Len(b) /\ b[m + 1 + k] = at[k]
  BY <1>3
<1>6. m + n < Len(b)
  BY <1>4, <1>5
<1>7. \A j \in 0..n : b[m + 1 + j] = at[j]
  BY <1>5
<1> QED
  BY <1>6, <1>7

LEMMA Ascending ==
  ASSUME NEW st \in {1, 2, 3, 5, 9}, NEW place_ \in Nat, NEW j \in Nat
  PROVE  /\ place_ + j * st \in Nat
         /\ (place_ + j * st) + st = place_ + (j + 1) * st
<1>1. CASE st = 1
  BY <1>1
<1>2. CASE st = 2
  BY <1>2
<1>3. CASE st = 3
  BY <1>3
<1>4. CASE st = 5
  BY <1>4
<1>5. CASE st = 9
  BY <1>5
<1> QED
  BY <1>1, <1>2, <1>3, <1>4, <1>5

LEMMA Stepwise ==
  ASSUME NEW st \in {1, 2, 3, 5, 9}, NEW j \in Nat, NEW n \in Nat, j < n
  PROVE  j * st + st <= n * st
<1>1. CASE st = 1
  BY <1>1
<1>2. CASE st = 2
  BY <1>2
<1>3. CASE st = 3
  BY <1>3
<1>4. CASE st = 5
  BY <1>4
<1>5. CASE st = 9
  BY <1>5
<1> QED
  BY <1>1, <1>2, <1>3, <1>4, <1>5

(* Elements of the same width.                                              *)
Strides(q, st, n) ==
  \A j \in 0..(n - 1) : IsElement(element, q + j * st)
                        /\ HeadEnd(q + j * st) = (q + j * st) + st

Follow(b, m, q, st, n) ==
  m + n < Len(b) /\ \A j \in 0..n : b[m + 1 + j] = q + j * st

LEMMA StrideRead ==
  ASSUME NEW b, Cuts(b), NEW m \in Nat, m < Len(b), NEW n \in Nat,
         NEW st \in {1, 2, 3, 5, 9}, NEW q \in Nat, b[m + 1] = q,
         Strides(q, st, n)
  PROVE  Follow(b, m, q, st, n)
<1>1. PICK at : \A j \in 0..n : at[j] = q + j * st
  <2>1. \A j \in 0..n : [i \in 0..n |-> q + i * st][j] = q + j * st
    OBVIOUS
  <2> QED
    BY <2>1
<1>2. at[0] = q
  <2>1. q + 0 * st = q /\ 0 \in 0..n
    OBVIOUS
  <2> QED
    BY <1>1, <2>1
<1>3. Row(at, n)
  <2> SUFFICES ASSUME NEW j \in 0..(n - 1)
               PROVE  IsElement(element, at[j]) /\ HeadEnd(at[j]) = at[j + 1]
    BY DEF Row
  <2>1. j \in 0..n /\ j + 1 \in 0..n /\ j \in Nat
    OBVIOUS
  <2>2. at[j] = q + j * st /\ at[j + 1] = q + (j + 1) * st
    BY <1>1, <2>1
  <2>3. (q + j * st) + st = q + (j + 1) * st
    BY <2>1, Ascending
  <2>4. IsElement(element, q + j * st) /\ HeadEnd(q + j * st) = (q + j * st) + st
    BY DEF Strides
  <2> QED
    BY <2>2, <2>3, <2>4
<1>4. at[0] = b[m + 1]
  BY <1>2
<1>5. m + n < Len(b) /\ \A j \in 0..n : b[m + 1 + j] = at[j]
  BY <1>3, <1>4, InARow
<1> QED
  BY <1>1, <1>5 DEF Follow

Blocks == {Short, 24, 25, 26, 27}

LEMMA StrideIs ==
  ASSUME NEW info \in Blocks
  PROVE  /\ Stride(info) \in {1, 2, 3, 5, 9} /\ Members(info) \in Nat /\ Members(info) > 0
         /\ Stride(info) - 1 \in Nat
BY DEF Blocks, Stride, Members, Short

(* A block fits only when its integers need no check of their own.          *)
Wide(info) ==
  /\ Stride(info) <= 1 + Size(element)
  /\ info = Short => Size(element) = 8

LEMMA InBlock ==
  ASSUME IsInput(input), element \in Unsigned \cup Signed, NEW info \in Blocks, Wide(info),
         NEW p \in Nat, p + Stride(info) <= Len(input),
         Major(p) \in Majors(element),
         IF info = Short THEN Info(p) < 24 ELSE Info(p) = info,
         element \in Signed /\ Stride(info) = 1 + Size(element) => Byte(p + 1) < 128
  PROVE  IsElement(element, p) /\ HeadEnd(p) = p + Stride(info)
<1> DEFINE n == Width(p)
           s == Size(element)
<1>1. Len(input) \in Nat /\ Stride(info) \in {1, 2, 3, 5, 9}
  BY StrideIs, InputIsSeq, SkipAssumption
<1>2. p < Len(input)
  BY <1>1
<1>3. Info(p) \in 0..31
  BY <1>2, InfoRange
<1>4. Info(p) \notin 28..31 /\ Stride(info) = n + 1 /\ (n = 0 <=> info = Short)
  <2>1. CASE info = Short
    BY <1>3, <2>1 DEF Width, Stride, Short
  <2>2. CASE info # Short
    BY <2>2 DEF Width, Stride, Short, Blocks
  <2> QED
    BY <2>1, <2>2
<1>5. n \in {0, 1, 2, 4, 8} /\ HeadEnd(p) = p + 1 + n
  BY DEF Width, HeadEnd
<1>6. HeadEnd(p) = p + Stride(info) /\ HeadEnd(p) <= Len(input)
  BY <1>1, <1>4, <1>5
<1>7. /\ IsWord(Word(p))
      /\ n = 0 => \A i \in 1..7 : Word(p)[i] = 0
      /\ n # 0 => /\ \A i \in 1..(8 - n) : Word(p)[i] = 0
                  /\ Word(p)[9 - n] = Byte(p + 1)
  BY <1>2, <1>6, WordIs
<1>8. s \in {1, 2, 4, 8} /\ n <= s /\ (n = 0 => s = 8)
  BY <1>1, <1>4, <1>5, SizeIs DEF Wide
<1> HIDE DEF n, s
<1>9. \A i \in 1..(8 - s) : Word(p)[i] = 0
  <2>1. \A i \in 1..(8 - s) : i \in 1..(8 - n) /\ i \in 1..7
    BY <1>5, <1>8
  <2> QED
    BY <1>7, <2>1
<1>10. element \in Signed => Word(p)[9 - s] < 128
  <2>1. CASE n = s
    BY <1>4, <1>7, <1>8, <2>1 DEF s
  <2>2. CASE n # s
    <3>1. 9 - s \in 1..(8 - n) /\ (n = 0 => 9 - s \in 1..7)
      BY <1>5, <1>8, <2>2
    <3>2. Word(p)[9 - s] = 0
      BY <1>7, <3>1
    <3> QED
      BY <3>2
  <2> QED
    BY <2>1, <2>2
<1>11. InRange(element, p)
  <2>1. Len(Word(p)) = 8
    BY <1>7 DEF IsWord
  <2> QED
    BY <1>9, <1>10, <2>1 DEF InRange, Data!Narrow, s
<1> QED
  BY <1>2, <1>4, <1>6, <1>11, IntegerIs

LEMMA BlockRead ==
  ASSUME IsInput(input), element \in Unsigned \cup Signed, NEW info \in Blocks, Wide(info),
         place \in Nat, Fits(info), NEW j \in 0..(Members(info) - 1)
  PROVE  /\ IsElement(element, place + j * Stride(info))
         /\ HeadEnd(place + j * Stride(info)) = (place + j * Stride(info)) + Stride(info)
<1> DEFINE st == Stride(info)
           n == Members(info)
           p == place + j * st
<1>1. Len(input) \in Nat /\ st \in {1, 2, 3, 5, 9} /\ n \in Nat /\ n > 0
  BY StrideIs, InputIsSeq, SkipAssumption
<1>2. p \in Block(info)
  BY DEF Block
<1>3. /\ place + n * st <= Len(input)
      /\ Major(p) \in Majors(element)
      /\ IF info = Short THEN Info(p) < 24 ELSE Info(p) = info
      /\ element \in Signed /\ st = 1 + Size(element) => Byte(p + 1) < 128
  BY <1>2 DEF Fits
<1>4. p \in Nat /\ p + st <= Len(input)
  <2>1. j \in Nat /\ j < n
    BY <1>1
  <2> HIDE DEF st, n
  <2>2. j * st + st <= n * st
    BY <1>1, <2>1, Stepwise
  <2>3. j * st \in Nat /\ n * st \in Nat
    BY <1>1, <2>1
  <2> QED
    BY <1>1, <1>3, <2>2, <2>3
<1> HIDE DEF p
<1>5. IsElement(element, p) /\ HeadEnd(p) = p + Stride(info)
  BY <1>3, <1>4, InBlock
<1> QED
  BY <1>5 DEF p

(* The floats of an array whose elements are all as wide as the type.       *)
LEMMA FixedRead ==
  ASSUME IsInput(input), element \in Floats, place \in Nat, left \in Nat, Fixed,
         NEW j \in 0..(left - 1)
  PROVE  /\ 1 + Size(element) \in {5, 9}
         /\ IsElement(element, place + j * (1 + Size(element)))
         /\ HeadEnd(place + j * (1 + Size(element)))
              = (place + j * (1 + Size(element))) + (1 + Size(element))
<1> DEFINE st == 1 + Size(element)
           p == place + j * st
<1>1. Len(input) \in Nat
  BY InputIsSeq, SkipAssumption
<1>2. /\ element \in {"f32", "f64"} /\ element # "bool"
      /\ st = IF element = "f32" THEN 5 ELSE 9
  BY DEF Floats, Size, Unsigned
<1>3. /\ place + left * st <= Len(input)
      /\ Byte(p) = IF element = "f32" THEN 250 ELSE 251
  BY DEF Fixed
<1> HIDE DEF st
<1>4. st \in {5, 9} /\ st \in {1, 2, 3, 5, 9}
  BY <1>2
<1>5. p \in Nat /\ p + st <= Len(input)
  <2>1. j \in Nat /\ j < left
    OBVIOUS
  <2>2. j * st + st <= left * st
    BY <1>4, <2>1, Stepwise
  <2>3. j * st \in Nat /\ left * st \in Nat
    BY <1>4, <2>1
  <2> QED
    BY <1>1, <1>3, <1>4, <2>2, <2>3
<1> HIDE DEF p
<1>6. Info(p) = IF element = "f32" THEN 26 ELSE 27
  BY <1>3 DEF Info
<1>7. HeadEnd(p) = p + st
  <2>1. Width(p) = IF element = "f32" THEN 4 ELSE 8
    BY <1>6 DEF Width
  <2> QED
    BY <1>2, <1>5, <2>1 DEF HeadEnd
<1>8. p < Len(input) /\ Byte(p) \in 249..251 /\ Info(p) \notin 28..31
  BY <1>1, <1>3, <1>4, <1>5, <1>6
<1>9. IsElement(element, p)
  BY <1>2, <1>5, <1>7, <1>8 DEF IsElement
<1> QED
  BY <1>4, <1>7, <1>9 DEF p, st

-----------------------------------------------------------------------------
(* The vector after a step.                                                 *)

(* ElementsRead and ArraysRead of a vector, a place and an answer.          *)
ElementsAre(out, at, missing) ==
  LET begin == Begin
      read == Len(out)
      next == begin[read + 1]
  IN  /\ out \in Seq(Range(out))
      /\ read < Len(begin)
      /\ \A i \in 1..read : Meaning(element, out[i]) = Said(element, begin[i])
      /\ IF Argument(0) # Indefinite
         THEN missing \in Nat /\ read + missing = Argument(0) /\ at = next
         ELSE /\ read <= ArrayLimit
              /\ \/ missing = Indefinite /\ at = next
                 \/ /\ missing = 0 /\ at = next + 1
                    /\ next < Len(input) /\ Byte(next) = Break

Judged(given, out, begin) ==
  IF HeadError(0) # NoError \/ Major(0) # 4
  THEN given.tag = "error" /\ given.at <= 1 /\ out = <<>>
  ELSE
  LET announced == Argument(0)
      good == Len(begin) - 1
      count == IF announced \in 0..good THEN announced ELSE good
      end == begin[count + 1]
      broken == announced = Indefinite /\ end < Len(input) /\ Byte(end) = Break
      complete == announced = count \/ broken
      after == IF broken THEN end + 1 ELSE end
  IN  IF complete /\ count <= ArrayLimit /\ after = Len(input)
      THEN /\ given = Done
           /\ Len(out) = count
           /\ \A i \in 1..count : Meaning(element, out[i]) = Said(element, begin[i])
      ELSE /\ given.tag = "error" /\ out = <<>>
           /\ CASE announced > ArrayLimit \/ count > ArrayLimit ->
                     given = Error("limit", 0)
                [] complete /\ count <= ArrayLimit /\ announced <= ArrayLimit ->
                     given = Error("trailing", after)
                [] OTHER ->
                     \/ given.at \in end..Len(input)
                        /\ (end < Len(input) => given.at <= HeadEnd(end))
                     \/ element = "bool" /\ announced # Indefinite
                        /\ given = Error("eof", Len(input))
                     \/ announced = Indefinite /\ count = ArrayLimit
                        /\ given = Error("limit", 0)

LEMMA AtSame ==
  ASSUME input' = input, mode' = mode, NEW p, NEW type
  PROVE  /\ HeadError(p)' = HeadError(p) /\ Major(p)' = Major(p)
         /\ Argument(p)' = Argument(p) /\ HeadEnd(p)' = HeadEnd(p)
         /\ Byte(p)' = Byte(p) /\ Said(type, p)' = Said(type, p)
BY DEF HeadError, Major, Argument, HeadEnd, Width, Byte, Info, Said, Cast, Word, Encoded,
       Two, Four, Preferred

LEMMA ReadNext ==
  ASSUME IsInput(input), input' = input, mode' = mode, element' = element
  PROVE  ElementsRead' <=> ElementsAre(output', place', left')
<1>1. Begin' = Begin
  BY BeginSame
<1>2. \A p, type : Said(type, p)' = Said(type, p) /\ Byte(p)' = Byte(p)
  BY AtSame
<1>3. Argument(0)' = Argument(0)
  BY AtSame
<1> QED
  BY <1>1, <1>2, <1>3 DEF ElementsRead, ElementsAre

LEMMA JudgedNext ==
  ASSUME IsInput(input), input' = input, mode' = mode, element' = element
  PROVE  ArraysRead' <=> (answer' \notin {NotCalled, Running} => Judged(answer', output', Begin))
<1>1. Begin' = Begin
  BY BeginSame
<1>2. \A p, type : /\ Said(type, p)' = Said(type, p) /\ Byte(p)' = Byte(p)
                   /\ HeadEnd(p)' = HeadEnd(p)
  BY AtSame
<1>3. Argument(0)' = Argument(0) /\ HeadError(0)' = HeadError(0) /\ Major(0)' = Major(0)
  BY AtSame
<1> QED
  BY <1>1, <1>2, <1>3 DEF ArraysRead, Judged

LEMMA CutsWithin ==
  ASSUME IsInput(input), HeadError(0) = NoError, NEW b, Cuts(b), NEW i \in 1..Len(b)
  PROVE  b[i] \in 0..Len(input)
<1>1. Len(input) \in Nat /\ b \in Seq(Nat) /\ Len(b) \in Nat
  BY InputIsSeq, SkipAssumption DEF Cuts, Elementwise
<1>2. b[i] \in Nat
  BY <1>1
<1>3. CASE i = 1
  <2>1. b[i] = HeadEnd(0) /\ HeadEnd(0) <= Len(input)
    <3>1. HeadEnd(0) \in (0 + 1)..Len(input)
      BY HeadRead
    <3> QED
      BY <1>1, <1>3, <3>1 DEF Cuts, Elementwise
  <2> QED
    BY <1>1, <1>2, <2>1
<1>4. CASE i # 1
  <2>1. PICK j \in 1..(Len(b) - 1) : i = j + 1
    <3>1. i - 1 \in 1..(Len(b) - 1) /\ i = (i - 1) + 1
      BY <1>1, <1>4
    <3> QED
      BY <3>1
  <2>2. IsElement(element, b[j]) /\ b[j + 1] = HeadEnd(b[j])
    BY DEF Cuts, Elementwise
  <2>3. b[i] <= Len(input)
    BY <2>1, <2>2 DEF IsElement
  <2> QED
    BY <1>1, <1>2, <2>3
<1> QED
  BY <1>3, <1>4

LEMMA ReadState ==
  ASSUME ArrayIInv, answer = Running
  PROVE  /\ IsInput(input) /\ mode # "deterministic" /\ element \in Elements
         /\ HeadError(0) = NoError /\ Major(0) = 4
         /\ Argument(0) \in Nat \cup {Indefinite} /\ ~(Argument(0) > ArrayLimit)
         /\ Len(input) \in Nat
         /\ Cuts(Begin) /\ Len(Begin) \in Nat /\ Begin \in Seq(Nat)
         /\ \A i \in 1..Len(Begin) : Begin[i] \in 0..Len(input)
         /\ ElementsAre(output, place, left)
         /\ Len(output) \in Nat /\ Len(output) < Len(Begin)
         /\ \A i \in 1..(Len(Begin) - 1) : IsElement(element, Begin[i])
<1>1. answer # NotCalled
  BY DEF Running, NotCalled
<1>2. /\ IsInput(input) /\ mode # "deterministic" /\ element \in Elements
      /\ HeadError(0) = NoError /\ Major(0) = 4 /\ ~(Argument(0) > ArrayLimit)
      /\ ElementsRead
  BY <1>1 DEF ArrayIInv
<1>3. Argument(0) \in Nat \cup {Indefinite}
  BY <1>2, HeadRead
<1>4. Len(input) \in Nat
  BY <1>2, InputIsSeq, SkipAssumption
<1>5. Cuts(Begin)
  BY <1>2, BeginIsCut DEF Cuts
<1>6. /\ Len(Begin) \in Nat /\ Begin \in Seq(Nat)
      /\ \A i \in 1..(Len(Begin) - 1) : IsElement(element, Begin[i])
  BY <1>5 DEF Cuts, Elementwise
<1>7. \A i \in 1..Len(Begin) : Begin[i] \in 0..Len(input)
  BY <1>2, <1>5, CutsWithin
<1>8. ElementsAre(output, place, left)
  BY <1>2 DEF ElementsRead, ElementsAre
<1>9. Len(output) \in Nat /\ Len(output) < Len(Begin)
  BY <1>8 DEF ElementsAre
<1> QED
  BY <1>2, <1>3, <1>4, <1>5, <1>6, <1>7, <1>8, <1>9

(* Where the decoder is while there is something to read.                   *)
LEMMA AtElement ==
  ASSUME ArrayIInv, answer = Running, left # 0
  PROVE  /\ place = Begin[Len(output) + 1] /\ place \in 0..Len(input)
         /\ left \in Nat \cup {Indefinite}
         /\ left = Indefinite <=> Argument(0) = Indefinite
         /\ left # Indefinite => left > 0 /\ Argument(0) = Len(output) + left
         /\ left = Indefinite => Len(output) <= ArrayLimit
<1>1. /\ place = Begin[Len(output) + 1] /\ left \in Nat \cup {Indefinite}
      /\ left = Indefinite <=> Argument(0) = Indefinite
      /\ left # Indefinite => left \in Nat /\ Argument(0) = Len(output) + left
      /\ left = Indefinite => Len(output) <= ArrayLimit
  <2>1. ElementsAre(output, place, left)
    BY ReadState
  <2>2. \A n \in Nat : n # Indefinite
    BY DEF Indefinite
  <2> QED
    BY <2>1, <2>2 DEF ElementsAre
<1>2. Len(output) + 1 \in 1..Len(Begin)
  BY ReadState
<1>3. place \in 0..Len(input)
  BY <1>1, <1>2, ReadState
<1> QED
  BY <1>1, <1>3

LEMMA VectorEnds ==
  ASSUME ArrayIInv, answer = Running, UNCHANGED iteratorVars, element' = element,
         answer' \notin {NotCalled, Running}, Judged(answer', output', Begin)
  PROVE  ArrayIInv'
<1>1. input' = input /\ mode' = mode
  BY DEF iteratorVars, vars
<1>2. IsInput(input) /\ mode # "deterministic"
  BY ReadState
<1>3. IsInput(input)'
  BY <1>1, <1>2 DEF IsInput
<1>4. ArraysRead'
  BY <1>1, <1>2, JudgedNext
<1>5. answer' # Running /\ mode' # "deterministic"
  BY <1>1, <1>2
<1> QED
  BY <1>3, <1>4, <1>5 DEF ArrayIInv

LEMMA VectorGrows ==
  ASSUME ArrayIInv, answer = Running, UNCHANGED iteratorVars, element' = element,
         answer' = answer, ElementsAre(output', place', left')
  PROVE  ArrayIInv'
<1>1. input' = input /\ mode' = mode
  BY DEF iteratorVars, vars
<1>2. /\ IsInput(input) /\ mode # "deterministic" /\ HeadError(0) = NoError /\ Major(0) = 4
      /\ ~(Argument(0) > ArrayLimit) /\ element \in Elements
  BY ReadState
<1>3. IsInput(input)'
  BY <1>1, <1>2 DEF IsInput
<1>4. HeadError(0)' = HeadError(0) /\ Major(0)' = Major(0) /\ Argument(0)' = Argument(0)
  BY <1>1, AtSame
<1>5. ElementsRead'
  BY <1>1, <1>2, ReadNext
<1>6. ArraysRead'
  BY DEF ArraysRead
<1> QED
  BY <1>1, <1>2, <1>3, <1>4, <1>5, <1>6 DEF ArrayIInv

(* The vector is given up at the first item that is no element.             *)
LEMMA RefusedAt ==
  ASSUME ArrayIInv, answer = Running, left # 0, UNCHANGED iteratorVars,
         NEW x, x = Begin[Len(Begin)], NEW error, Within(error, x), Refuse(error),
         left # Indefinite => Len(Begin) - 1 < Argument(0),
         left = Indefinite => /\ Len(Begin) - 1 <= ArrayLimit
                              /\ x = Len(input) \/ Byte(x) # Break
  PROVE  ArrayIInv'
<1> DEFINE good == Len(Begin) - 1
<1>1. /\ HeadError(0) = NoError /\ Major(0) = 4 /\ Len(Begin) \in Nat /\ good \in Nat
      /\ Argument(0) \in Nat \cup {Indefinite} /\ ~(Argument(0) > ArrayLimit)
      /\ good + 1 = Len(Begin) /\ Len(input) \in Nat
  BY ReadState
<1>2. left = Indefinite <=> Argument(0) = Indefinite
  BY AtElement
<1>3. answer' = error /\ output' = <<>> /\ element' = element
  BY DEF Refuse
<1>4. /\ error.tag = "error" /\ error.at \in x..Len(input)
      /\ x < Len(input) => error.at <= HeadEnd(x)
  BY DEF Within
<1>5. error \notin {NotCalled, Running}
  BY <1>4 DEF NotCalled, Running
<1> HIDE DEF good
<1>6. Argument(0) \notin 0..good /\ Argument(0) # good
  BY <1>1, <1>2 DEF good, Indefinite
<1>7. good <= ArrayLimit /\ ~(good > ArrayLimit)
  BY <1>1, <1>2, ArrayAssumption DEF good, Indefinite
<1>8. ~(Argument(0) = Indefinite /\ x < Len(input) /\ Byte(x) = Break)
  BY <1>1, <1>2
<1>9. Begin[good + 1] = x
  BY <1>1
<1>10. Judged(error, <<>>, Begin)
  <2>1. Len(Begin) - 1 = good
    BY DEF good
  <2> QED
    BY <1>1, <1>4, <1>6, <1>7, <1>8, <1>9, <2>1 DEF Judged
<1>11. Judged(answer', output', Begin) /\ answer' \notin {NotCalled, Running}
  BY <1>3, <1>5, <1>10
<1> QED
  BY <1>3, <1>11, VectorEnds

LEMMA Concatenated ==
  ASSUME NEW s, s \in Seq(Range(s)), NEW S, NEW t \in Seq(S)
  PROVE  /\ s \o t \in Seq(Range(s \o t)) /\ Len(s \o t) = Len(s) + Len(t)
         /\ \A i \in 1..Len(s) : (s \o t)[i] = s[i]
         /\ \A i \in 1..Len(t) : (s \o t)[Len(s) + i] = t[i]
<1> DEFINE T == Range(s) \cup S
           u == s \o t
<1>1. s \in Seq(T) /\ t \in Seq(T)
  BY SeqWider
<1> HIDE DEF T
<1>2. u \in Seq(T) /\ Len(u) = Len(s) + Len(t)
  BY <1>1
<1>3. /\ \A i \in 1..Len(s) : u[i] = s[i]
      /\ \A i \in 1..Len(t) : u[Len(s) + i] = t[i]
  BY <1>1
<1> HIDE DEF u
<1>4. u \in Seq(Range(u))
  <2>1. u = [i \in 1..Len(u) |-> u[i]] /\ Len(u) \in Nat /\ DOMAIN u = 1..Len(u)
    BY <1>2
  <2>2. \A i \in 1..Len(u) : u[i] \in Range(u)
    BY <2>1 DEF Range
  <2> HIDE DEF u
  <2> QED
    BY <2>1, <2>2
<1> QED
  BY <1>2, <1>3, <1>4 DEF u

(* The next elements are added.                                             *)
LEMMA PushGrows ==
  ASSUME ArrayIInv, answer = Running, left # 0, UNCHANGED iteratorVars,
         NEW S, NEW values \in Seq(S), NEW n \in Nat, Len(values) = n, n > 0,
         NEW to, Push(values, to),
         Len(output) + n < Len(Begin), to = Begin[Len(output) + 1 + n],
         \A i \in 1..n : Meaning(element, values[i]) = Said(element, Begin[Len(output) + i]),
         IF left = Indefinite THEN n = 1 /\ Len(output) < ArrayLimit ELSE n <= left
  PROVE  ArrayIInv'
<1> DEFINE m == Len(output)
           out == output \o values
           missing == IF left = Indefinite THEN left ELSE left - n
<1>1. /\ output' = out /\ place' = to /\ left' = missing
      /\ element' = element /\ answer' = answer
  BY DEF Push
<1>2. /\ ElementsAre(output, place, left) /\ m \in Nat /\ Len(Begin) \in Nat
      /\ Argument(0) \in Nat \cup {Indefinite}
  BY ReadState
<1>3. /\ left \in Nat \cup {Indefinite}
      /\ left = Indefinite <=> Argument(0) = Indefinite
      /\ left # Indefinite => left > 0 /\ Argument(0) = m + left
  BY AtElement
<1>4. output \in Seq(Range(output))
  BY <1>2 DEF ElementsAre
<1>5. /\ out \in Seq(Range(out)) /\ Len(out) = m + n
      /\ \A i \in 1..m : out[i] = output[i]
      /\ \A i \in 1..n : out[m + i] = values[i]
  BY <1>4, Concatenated
<1>6. \A i \in 1..m : Meaning(element, output[i]) = Said(element, Begin[i])
  BY <1>2 DEF ElementsAre
<1> HIDE DEF m, out
<1>7. ASSUME NEW i \in 1..(m + n)
      PROVE  Meaning(element, out[i]) = Said(element, Begin[i])
  <2>1. CASE i \in 1..m
    BY <1>5, <1>6, <2>1
  <2>2. CASE i \notin 1..m
    <3>1. PICK j \in 1..n : i = m + j
      <4>1. i - m \in 1..n /\ i = m + (i - m)
        BY <1>2, <2>2
      <4> QED
        BY <4>1
    <3>2. Meaning(element, values[j]) = Said(element, Begin[m + j])
      BY DEF m
    <3> QED
      BY <1>5, <3>1, <3>2
  <2> QED
    BY <2>1, <2>2
<1>8. m + n < Len(Begin) /\ to = Begin[(m + n) + 1]
  <2>1. m + 1 + n = (m + n) + 1
    BY <1>2
  <2> QED
    BY <2>1 DEF m
<1>9. CASE left = Indefinite
  <2>1. m + n <= ArrayLimit
    BY <1>2, <1>9, ArrayAssumption DEF m
  <2> QED
    <3>1. ElementsAre(out, to, missing)
      BY <1>3, <1>5, <1>7, <1>8, <1>9, <2>1 DEF ElementsAre
    <3> QED
      BY <1>1, <3>1, VectorGrows
<1>10. CASE left # Indefinite
  <2>1. left - n \in Nat /\ (m + n) + (left - n) = Argument(0)
    BY <1>2, <1>3, <1>10
  <2> QED
    <3>1. ElementsAre(out, to, missing)
      BY <1>3, <1>5, <1>7, <1>8, <1>10, <2>1 DEF ElementsAre
    <3> QED
      BY <1>1, <3>1, VectorGrows
<1> QED
  BY <1>9, <1>10

(* Elements of the same width are added together.                           *)
LEMMA StridePushed ==
  ASSUME ArrayIInv, answer = Running, left # 0, left # Indefinite, UNCHANGED iteratorVars,
         NEW st \in {1, 2, 3, 5, 9}, NEW n \in Nat, n > 0, n <= left,
         Strides(place, st, n),
         Push([i \in 1..n |-> Cast(element, place + (i - 1) * st)], place + n * st)
  PROVE  ArrayIInv'
<1> DEFINE m == Len(output)
           values == [i \in 1..n |-> Cast(element, place + (i - 1) * st)]
           S == {values[i] : i \in 1..n}
<1>1. /\ Cuts(Begin) /\ m \in Nat /\ m < Len(Begin) /\ element \in Elements
  BY ReadState
<1>2. Begin[m + 1] = place /\ place \in Nat
  BY AtElement
<1>3. m + n < Len(Begin) /\ \A j \in 0..n : Begin[m + 1 + j] = place + j * st
  <2>1. Follow(Begin, m, place, st, n)
    BY <1>1, <1>2, StrideRead
  <2> QED
    BY <2>1 DEF Follow
<1>4. values \in Seq(S) /\ Len(values) = n
  <2>1. \A i \in 1..n : values[i] \in S
    OBVIOUS
  <2>2. values = [i \in 1..n |-> values[i]] /\ DOMAIN values = 1..n
    OBVIOUS
  <2> HIDE DEF values, S
  <2> QED
    BY <2>1, <2>2
<1>6. ASSUME NEW i \in 1..n
      PROVE  Meaning(element, values[i]) = Said(element, Begin[m + i])
  <2>1. PICK j \in 0..(n - 1) : i = j + 1
    <3>1. i - 1 \in 0..(n - 1) /\ i = (i - 1) + 1
      OBVIOUS
    <3> QED
      BY <3>1
  <2>2. j \in 0..n /\ i - 1 = j /\ m + i = m + 1 + j
    BY <1>1, <2>1
  <2>3. values[i] = Cast(element, place + j * st)
    BY <2>2
  <2>4. Begin[m + i] = place + j * st
    BY <1>3, <2>2
  <2>5. IsElement(element, place + j * st)
    BY DEF Strides
  <2> HIDE DEF values, m
  <2> QED
    BY <1>1, <2>3, <2>4, <2>5, ElementMeant
<1>7. place + n * st = Begin[m + 1 + n]
  <2>1. n \in 0..n
    OBVIOUS
  <2> QED
    BY <1>3, <2>1
<1> HIDE DEF values, S
<1>8. Push(values, place + n * st)
  BY DEF values
<1> QED
  BY <1>3, <1>4, <1>6, <1>7, <1>8, PushGrows

LEMMA OnePushed ==
  ASSUME ArrayIInv, answer = Running, left # 0, UNCHANGED iteratorVars,
         NEW error, Judges(error, place), PushOne(error),
         left = Indefinite => Byte(place) # Break /\ Len(output) < ArrayLimit
  PROVE  ArrayIInv'
<1> DEFINE m == Len(output)
<1>1. /\ Cuts(Begin) /\ m \in Nat /\ m < Len(Begin) /\ Len(Begin) \in Nat
      /\ element \in Elements
      /\ \A i \in 1..(Len(Begin) - 1) : IsElement(element, Begin[i])
  BY ReadState
<1>2. /\ place = Begin[m + 1] /\ place \in 0..Len(input)
      /\ left # Indefinite => left > 0 /\ Argument(0) = m + left
      /\ left \in Nat \cup {Indefinite}
  BY AtElement
<1>3. CASE error = NoError
  <2>1. IsElement(element, place) /\ Push(<<Cast(element, place)>>, HeadEnd(place))
    BY <1>3 DEF Judges, PushOne
  <2>2. m + 1 \in 1..(Len(Begin) - 1)
    <3>1. m + 1 # Len(Begin)
      BY <1>1, <1>2, <2>1 DEF Cuts
    <3> QED
      BY <1>1, <3>1
  <2>3. HeadEnd(place) = Begin[m + 1 + 1]
    BY <1>1, <1>2, <2>2 DEF Cuts, Elementwise
  <2> DEFINE values == <<Cast(element, place)>>
  <2>4. values \in Seq({Cast(element, place)}) /\ Len(values) = 1
        /\ values[1] = Cast(element, place)
    OBVIOUS
  <2> HIDE DEF values
  <2>5. \A i \in 1..1 : Meaning(element, values[i]) = Said(element, Begin[m + i])
    <3>1. \A i \in 1..1 : i = 1
      OBVIOUS
    <3>2. Meaning(element, Cast(element, place)) = Said(element, place)
      BY <1>1, <2>1, ElementMeant
    <3> QED
      BY <1>2, <2>4, <3>1, <3>2
  <2>6. Push(values, HeadEnd(place)) /\ m + 1 < Len(Begin) /\ 1 \in Nat /\ 1 > 0
    BY <1>1, <2>1, <2>2 DEF values
  <2>7. IF left = Indefinite THEN 1 = 1 /\ m < ArrayLimit ELSE 1 <= left
    BY <1>2
  <2> QED
    BY <2>3, <2>4, <2>5, <2>6, <2>7, PushGrows
<1>4. CASE error # NoError
  <2>1. ~IsElement(element, place) /\ Within(error, place) /\ Refuse(error)
    BY <1>4 DEF Judges, PushOne
  <2>2. m + 1 = Len(Begin)
    <3>1. m + 1 \notin 1..(Len(Begin) - 1)
      BY <1>1, <1>2, <2>1
    <3> QED
      BY <1>1, <3>1
  <2>3. Len(Begin) - 1 = m /\ place = Begin[Len(Begin)]
    BY <1>1, <1>2, <2>2
  <2>4. left # Indefinite => Len(Begin) - 1 < Argument(0)
    BY <1>1, <1>2, <2>3
  <2>5. left = Indefinite => Len(Begin) - 1 <= ArrayLimit
    BY <1>1, <2>3, ArrayAssumption
  <2> QED
    BY <2>1, <2>3, <2>4, <2>5, RefusedAt
<1> QED
  BY <1>3, <1>4

-----------------------------------------------------------------------------
(* The actions of the bulk decoders.                                        *)

LEMMA RoundPreserves ==
  ASSUME ArrayIInv, UNCHANGED iteratorVars,
         NEW type \in Unsigned \cup Signed, NEW infos, infos \subseteq Blocks,
         \A info \in infos : Stride(info) <= 1 + Size(type) /\ (info = Short => Size(type) = 8),
         Round(type, infos)
  PROVE  ArrayIInv'
<1>1. answer = Running /\ element = type /\ left > 0
  BY DEF Round, Reading
<1>2. left # 0 /\ left # Indefinite /\ left \in Nat
  <2>1. left # 0 /\ left # -1
    BY <1>1
  <2> QED
    BY <1>1, <2>1, AtElement DEF Indefinite
<1>3. IsInput(input) /\ mode # "deterministic" /\ place \in 0..Len(input) /\ place \in Nat
  BY <1>1, <1>2, ReadState, AtElement
<1>4. CASE \E info \in infos : Fits(info)
  <2> DEFINE info == CHOOSE i \in infos : Fits(i)
  <2>1. info \in infos /\ Fits(info) /\ ReadBlock(info)
    BY <1>4 DEF Round
  <2> HIDE DEF info
  <2> DEFINE st == Stride(info)
             n == Members(info)
  <2>2. info \in Blocks /\ Wide(info)
    BY <1>1, <2>1 DEF Wide
  <2>3. st \in {1, 2, 3, 5, 9} /\ n \in Nat /\ n > 0
    BY <2>2, StrideIs
  <2>4. n <= left
    <3>1. left >= n
      BY <2>1 DEF Fits
    <3> QED
      BY <1>2, <2>3, <3>1
  <2>5. Strides(place, st, n)
    BY <1>1, <1>3, <2>1, <2>2, BlockRead DEF Strides
  <2>6. Push([i \in 1..n |-> Cast(element, place + (i - 1) * st)], place + n * st)
    BY <2>1 DEF ReadBlock
  <2> QED
    BY <1>1, <1>2, <2>3, <2>4, <2>5, <2>6, StridePushed
<1>5. CASE ~ \E info \in infos : Fits(info)
  <2>1. PushOne(BodyError(place))
    BY <1>5 DEF Round
  <2>2. Judges(BodyError(place), place)
    BY <1>1, <1>3, IntegersJudged
  <2> QED
    BY <1>1, <1>2, <2>1, <2>2, OnePushed
<1> QED
  BY <1>4, <1>5

LEMMA IntegersPreserve ==
  ASSUME ArrayIInv, UNCHANGED iteratorVars,
         \/ RoundU8 \/ RoundU16 \/ RoundU32 \/ RoundU64
         \/ RoundI8 \/ RoundI16 \/ RoundI32 \/ RoundI64
  PROVE  ArrayIInv'
<1>1. /\ Stride(Short) = 1 /\ Stride(24) = 2 /\ Stride(25) = 3 /\ Stride(26) = 5
      /\ Stride(27) = 9 /\ Short \notin {24, 25, 26, 27}
  BY DEF Stride, Short
<1>2. /\ Size("u8") = 1 /\ Size("i8") = 1 /\ Size("u16") = 2 /\ Size("i16") = 2
      /\ Size("u32") = 4 /\ Size("i32") = 4 /\ Size("u64") = 8 /\ Size("i64") = 8
  BY DEF Size
<1>3. /\ Blocks = {Short, 24, 25, 26, 27}
      /\ {"u8", "u16", "u32", "u64", "i8", "i16", "i32", "i64"} = Unsigned \cup Signed
  BY DEF Blocks, Unsigned, Signed
<1>4. CASE RoundU8
  BY <1>1, <1>2, <1>3, <1>4, RoundPreserves DEF RoundU8
<1>5. CASE RoundU16
  BY <1>1, <1>2, <1>3, <1>5, RoundPreserves DEF RoundU16
<1>6. CASE RoundU32
  BY <1>1, <1>2, <1>3, <1>6, RoundPreserves DEF RoundU32
<1>7. CASE RoundU64
  BY <1>1, <1>2, <1>3, <1>7, RoundPreserves DEF RoundU64
<1>8. CASE RoundI8
  BY <1>1, <1>2, <1>3, <1>8, RoundPreserves DEF RoundI8
<1>9. CASE RoundI16
  BY <1>1, <1>2, <1>3, <1>9, RoundPreserves DEF RoundI16
<1>10. CASE RoundI32
  BY <1>1, <1>2, <1>3, <1>10, RoundPreserves DEF RoundI32
<1>11. CASE RoundI64
  BY <1>1, <1>2, <1>3, <1>11, RoundPreserves DEF RoundI64
<1> QED
  BY <1>4, <1>5, <1>6, <1>7, <1>8, <1>9, <1>10, <1>11

LEMMA FloatsPreserve ==
  ASSUME ArrayIInv, UNCHANGED iteratorVars, FixedBody \/ RoundFloat
  PROVE  ArrayIInv'
<1>1. answer = Running /\ element \in Floats /\ left > 0
  BY DEF FixedBody, RoundFloat, Reading
<1>2. left # 0 /\ left # Indefinite /\ left \in Nat
  <2>1. left # 0 /\ left # -1
    BY <1>1
  <2> QED
    BY <1>1, <2>1, AtElement DEF Indefinite
<1>3. IsInput(input) /\ mode # "deterministic" /\ place \in 0..Len(input) /\ place \in Nat
  BY <1>1, <1>2, ReadState, AtElement
<1>4. CASE FixedBody
  <2> DEFINE st == 1 + Size(element)
  <2>1. Fixed /\ Push([i \in 1..left |-> Cast(element, place + (i - 1) * st)], place + left * st)
    BY <1>4 DEF FixedBody
  <2>2. Strides(place, st, left) /\ st \in {1, 2, 3, 5, 9}
    <3>1. 0 \in 0..(left - 1)
      BY <1>1, <1>2
    <3>2. st \in {5, 9}
      BY <1>1, <1>2, <1>3, <2>1, <3>1, FixedRead
    <3>3. Strides(place, st, left)
      BY <1>1, <1>2, <1>3, <2>1, FixedRead DEF Strides
    <3> QED
      BY <3>2, <3>3
  <2>3. left <= left
    BY <1>2
  <2> QED
    BY <1>1, <1>2, <2>1, <2>2, <2>3, StridePushed
<1>5. CASE RoundFloat
  <2>1. PushOne(FloatError(place))
    BY <1>5 DEF RoundFloat
  <2>2. Judges(FloatError(place), place)
    BY <1>1, <1>3, FloatsJudged
  <2> QED
    BY <1>1, <1>2, <2>1, <2>2, OnePushed
<1> QED
  BY <1>4, <1>5

LEMMA LeftAt ==
  ASSUME ArrayIInv, answer = Running, left > 0
  PROVE  left # 0 /\ left # Indefinite /\ left \in Nat
<1>1. left # 0 /\ left # -1
  OBVIOUS
<1> QED
  BY <1>1, AtElement DEF Indefinite

LEMMA Climbs ==
  ASSUME NEW b, Cuts(b), NEW i \in 1..Len(b), NEW n \in Nat, i + n <= Len(b)
  PROVE  b[i] + n <= b[i + n]
<1>1. Len(b) \in Nat /\ b \in Seq(Nat)
  BY DEF Cuts, Elementwise
<1> DEFINE bad == {k \in 0..n : ~(b[i] + k <= b[i + k])}
<1>2. ASSUME bad # {} PROVE FALSE
  <2>1. bad \subseteq Nat
    OBVIOUS
  <2>2. \A k \in bad : k \in 0..n /\ ~(b[i] + k <= b[i + k])
    OBVIOUS
  <2>3. \A k \in 0..n : k \notin bad => b[i] + k <= b[i + k]
    OBVIOUS
  <2> HIDE DEF bad
  <2>4. PICK k \in bad : \A j \in bad : k <= j
    BY <1>2, <2>1, Least
  <2>5. k \in 0..n /\ ~(b[i] + k <= b[i + k])
    BY <2>2
  <2>6. k # 0
    <3>1. b[i] + 0 <= b[i + 0]
      <4>1. b[i] \in Nat /\ i + 0 = i
        BY <1>1
      <4> QED
        BY <4>1
    <3> QED
      BY <2>5, <3>1
  <2>7. PICK j \in 0..n : k = j + 1 /\ ~(k <= j)
    <3>1. k - 1 \in 0..n /\ k = (k - 1) + 1 /\ ~(k <= k - 1)
      BY <2>5, <2>6
    <3> QED
      BY <3>1
  <2>8. b[i] + j <= b[i + j]
    <3>1. j \notin bad
      BY <2>4, <2>7
    <3> QED
      BY <2>3, <3>1
  <2>9. i + j \in 1..(Len(b) - 1) /\ i + k = (i + j) + 1 /\ i + k \in 1..Len(b)
    BY <1>1, <2>5, <2>7
  <2>10. b[i + k] = HeadEnd(b[i + j])
    BY <2>9 DEF Cuts, Elementwise
  <2>11. b[i] \in Nat /\ b[i + j] \in Nat /\ b[i + k] \in Nat
    BY <1>1, <2>9
  <2>12. b[i + j] < b[i + k]
    BY <2>10, <2>11, HeadForward
  <2>13. b[i] + k <= b[i + k]
    BY <2>7, <2>8, <2>11, <2>12
  <2> QED
    BY <2>5, <2>13
<1> QED
  BY <1>2

LEMMA CutPreserves ==
  ASSUME ArrayIInv, UNCHANGED iteratorVars, BoolCut
  PROVE  ArrayIInv'
<1> DEFINE m == Len(output)
           good == Len(Begin) - 1
           error == Error("eof", Len(input))
<1>1. /\ answer = Running /\ element = "bool" /\ left > 0
      /\ place + left > Len(input) /\ Refuse(error)
  BY DEF BoolCut, Reading
<1>2. left # 0 /\ left # Indefinite /\ left \in Nat
  BY <1>1, LeftAt
<1>3. /\ HeadError(0) = NoError /\ Major(0) = 4 /\ Len(Begin) \in Nat /\ Cuts(Begin)
      /\ Argument(0) \in Nat \cup {Indefinite} /\ ~(Argument(0) > ArrayLimit)
      /\ Len(input) \in Nat /\ m \in Nat /\ m < Len(Begin)
      /\ \A i \in 1..Len(Begin) : Begin[i] \in 0..Len(input)
  BY <1>1, ReadState
<1>4. place = Begin[m + 1] /\ Argument(0) = m + left /\ place \in Nat
  BY <1>1, <1>2, AtElement
<1>5. ~(m + left <= good)
  <2>1. SUFFICES ASSUME m + left <= good PROVE FALSE
    OBVIOUS
  <2>2. m + 1 \in 1..Len(Begin) /\ (m + 1) + left <= Len(Begin)
        /\ (m + 1) + left \in 1..Len(Begin)
    BY <1>2, <1>3, <2>1
  <2>3. Begin[m + 1] + left <= Begin[(m + 1) + left]
    BY <1>2, <1>3, <2>2, Climbs
  <2>4. Begin[(m + 1) + left] \in 0..Len(input)
    BY <1>3, <2>2
  <2> QED
    BY <1>1, <1>2, <1>3, <1>4, <2>3, <2>4
<1>6. good \in Nat
  BY <1>3
<1> HIDE DEF good
<1>7. Argument(0) \notin 0..good /\ Argument(0) # good /\ Argument(0) # Indefinite
  BY <1>2, <1>3, <1>4, <1>5, <1>6 DEF Indefinite
<1>8. ~(good > ArrayLimit)
  BY <1>2, <1>3, <1>4, <1>5, <1>6, ArrayAssumption
<1>9. error.tag = "error" /\ error \notin {NotCalled, Running}
  BY DEF Error, NotCalled, Running
<1> HIDE DEF error
<1>10. Judged(error, <<>>, Begin)
  <2>1. Len(Begin) - 1 = good /\ error = Error("eof", Len(input))
    BY DEF good, error
  <2> QED
    BY <1>1, <1>3, <1>7, <1>8, <1>9, <2>1 DEF Judged
<1>11. answer' = error /\ output' = <<>> /\ element' = element
  BY <1>1 DEF Refuse
<1>12. Judged(answer', output', Begin) /\ answer' \notin {NotCalled, Running}
  BY <1>9, <1>10, <1>11
<1> QED
  BY <1>1, <1>11, <1>12, VectorEnds

LEMMA BoolsPreserve ==
  ASSUME ArrayIInv, UNCHANGED iteratorVars, RoundBool
  PROVE  ArrayIInv'
<1> DEFINE n == IF left >= 8 THEN 8 ELSE 1
           others == {p \in place..(place + n - 1) : Byte(p) \notin {244, 245}}
           m == Len(output)
<1>1. /\ answer = Running /\ element = "bool" /\ left > 0 /\ place + left <= Len(input)
      /\ IF others # {} THEN Refuse(Error("type", Min(others)))
         ELSE Push([i \in 1..n |-> Cast("bool", place + i - 1)], place + n)
  BY DEF RoundBool, Reading
<1>2. left # 0 /\ left # Indefinite /\ left \in Nat
  BY <1>1, LeftAt
<1>3. /\ IsInput(input) /\ Len(input) \in Nat /\ Len(Begin) \in Nat /\ Cuts(Begin)
      /\ m \in Nat /\ m < Len(Begin)
      /\ \A i \in 1..(Len(Begin) - 1) : IsElement(element, Begin[i])
  BY <1>1, ReadState
<1>4. place = Begin[m + 1] /\ Argument(0) = m + left /\ place \in Nat
  BY <1>1, <1>2, AtElement
<1>5. n \in 1..8 /\ n \in Nat /\ n > 0 /\ n <= left
  BY <1>1, <1>2
<1> HIDE DEF n
<1>6. \A p \in place..(place + n - 1) :
        /\ p \in Nat /\ p < Len(input)
        /\ IsElement(element, p) <=> Byte(p) \in {244, 245}
        /\ Byte(p) \in {244, 245} => HeadEnd(p) = p + 1
  <2>1. \A p \in place..(place + n - 1) : p \in Nat /\ p < Len(input)
    BY <1>1, <1>2, <1>3, <1>4, <1>5
  <2> QED
    BY <1>1, <1>3, <2>1, BoolIs
<1>7. ASSUME NEW k \in 0..n, \A p \in place..(place + k - 1) : p \notin others
      PROVE  Strides(place, 1, k)
  <2> SUFFICES ASSUME NEW j \in 0..(k - 1)
               PROVE  IsElement(element, place + j * 1)
                      /\ HeadEnd(place + j * 1) = (place + j * 1) + 1
    BY DEF Strides
  <2>1. place + j * 1 = place + j /\ place + j \in place..(place + k - 1)
        /\ place + j \in place..(place + n - 1)
    BY <1>4, <1>5
  <2>2. Byte(place + j) \in {244, 245}
    BY <1>7, <2>1
  <2> QED
    BY <1>6, <2>1, <2>2
<1>8. CASE others = {}
  <2>1. Strides(place, 1, n)
    <3>1. n \in 0..n
      BY <1>5
    <3> QED
      BY <1>7, <1>8, <3>1
  <2>2. Push([i \in 1..n |-> Cast("bool", place + i - 1)], place + n)
    BY <1>1, <1>8
  <2>3. \A i \in 1..n : Cast("bool", place + i - 1) = Cast(element, place + (i - 1) * 1)
    <3>1. \A i \in 1..n : place + i - 1 = place + (i - 1) * 1
      BY <1>4, <1>5
    <3> QED
      BY <1>1, <3>1
  <2>4. [i \in 1..n |-> Cast("bool", place + i - 1)]
          = [i \in 1..n |-> Cast(element, place + (i - 1) * 1)]
    BY <2>3
  <2>5. place + n = place + n * 1
    BY <1>4, <1>5
  <2>6. Push([i \in 1..n |-> Cast(element, place + (i - 1) * 1)], place + n * 1)
    BY <2>2, <2>4, <2>5
  <2>7. 1 \in {1, 2, 3, 5, 9}
    OBVIOUS
  <2> QED
    BY <1>1, <1>2, <1>5, <2>1, <2>6, <2>7, StridePushed
<1>9. CASE others # {}
  <2>1. others \subseteq Nat
    BY <1>4, <1>5
  <2>2. PICK x \in others : \A y \in others : x <= y
    <3> HIDE DEF others
    <3> QED
      BY <1>9, <2>1, Least
  <2>3. Min(others) = x
    <3>1. \A z \in others : x >= z => z = x
      <4>1. x \in Nat
        BY <2>1
      <4> HIDE DEF others
      <4> QED
        BY <2>1, <2>2, <4>1
    <3>2. \A z \in others : (\A y \in others : z <= y) => z = x
      <4> HIDE DEF others
      <4> QED
        BY <2>1, <2>2
    <3> HIDE DEF others
    <3> QED
      BY <2>2, <3>2 DEF Min
  <2>4. /\ x \in place..(place + n - 1) /\ Byte(x) \notin {244, 245}
        /\ ~IsElement(element, x) /\ x \in Nat /\ x < Len(input)
    BY <1>6
  <2> DEFINE k == x - place
  <2>5. k \in 0..n /\ k \in 0..(n - 1) /\ k \in Nat /\ place + k = x /\ place + k * 1 = x
    <3>1. x \in Nat /\ place <= x /\ x <= place + n - 1
      BY <1>4, <1>5, <2>4
    <3>2. k \in Nat /\ k <= n - 1
      BY <1>4, <1>5, <3>1
    <3>3. place + k = x
      BY <1>4, <3>1
    <3> HIDE DEF k
    <3>4. k \in 0..n /\ k \in 0..(n - 1) /\ k * 1 = k
      BY <1>5, <3>2
    <3> QED
      BY <3>2, <3>3, <3>4
  <2>6. \A p \in place..(place + k - 1) : p \notin others
    <3>1. \A p \in place..(place + k - 1) : ~(x <= p)
      BY <1>4, <2>4, <2>5
    <3> QED
      BY <2>2, <3>1
  <2>7. Strides(place, 1, k)
    <3> HIDE DEF k, others
    <3> QED
      BY <1>7, <2>5, <2>6
  <2> HIDE DEF k
  <2>8. Follow(Begin, m, place, 1, k)
    <3>1. 1 \in {1, 2, 3, 5, 9}
      OBVIOUS
    <3> QED
      BY <1>3, <1>4, <2>5, <2>7, <3>1, StrideRead
  <2>9. m + k < Len(Begin) /\ Begin[m + 1 + k] = x
    <3>1. k \in 0..k
      BY <2>5
    <3> QED
      BY <2>5, <2>8, <3>1 DEF Follow
  <2>10. m + 1 + k = Len(Begin)
    <3>1. m + 1 + k \notin 1..(Len(Begin) - 1)
      BY <1>3, <2>4, <2>9
    <3> QED
      BY <1>3, <2>5, <2>9, <3>1
  <2>11. x = Begin[Len(Begin)] /\ Len(Begin) - 1 < Argument(0)
    <3>1. Len(Begin) - 1 = m + k /\ m + k < m + left
      BY <1>2, <1>3, <1>5, <2>5, <2>10
    <3> QED
      BY <1>4, <2>9, <2>10, <3>1
  <2>12. Within(Error("type", x), x)
    <3>1. x \in x..Len(input) /\ x <= HeadEnd(x)
      <4>1. HeadEnd(x) \in Nat /\ x < HeadEnd(x)
        BY <2>4, HeadForward
      <4> QED
        BY <1>3, <2>4, <4>1
    <3> QED
      BY <2>4, <3>1, ErrorWithin
  <2>13. Refuse(Error("type", x))
    BY <1>1, <1>9, <2>3
  <2> QED
    BY <1>1, <1>2, <2>11, <2>12, <2>13, RefusedAt
<1> QED
  BY <1>8, <1>9

LEMMA EntriesPreserve ==
  ASSUME ArrayIInv, UNCHANGED iteratorVars,
         EntriesCut \/ EntriesBreak \/ EntriesFull \/ Entry
  PROVE  ArrayIInv'
<1> DEFINE m == Len(output)
           good == Len(Begin) - 1
<1>1. answer = Running /\ left = Indefinite
  BY DEF EntriesCut, EntriesBreak, EntriesFull, Entry, Reading
<1>2. left # 0
  BY <1>1 DEF Indefinite
<1>3. /\ IsInput(input) /\ mode # "deterministic" /\ element \in Elements
      /\ HeadError(0) = NoError /\ Major(0) = 4 /\ Len(Begin) \in Nat /\ Cuts(Begin)
      /\ Len(input) \in Nat /\ m \in Nat /\ m < Len(Begin)
      /\ \A i \in 1..(Len(Begin) - 1) : IsElement(element, Begin[i])
      /\ ElementsAre(output, place, left)
  BY <1>1, ReadState
<1>4. /\ place = Begin[m + 1] /\ Argument(0) = Indefinite /\ place \in 0..Len(input)
      /\ m <= ArrayLimit
  BY <1>1, <1>2, AtElement
<1>5. CASE EntriesCut
  <2>1. place = Len(input) /\ Refuse(Error("eof", place))
    BY <1>5 DEF EntriesCut
  <2>2. ~IsElement(element, place)
    BY <1>3, <2>1 DEF IsElement
  <2>3. m + 1 = Len(Begin)
    <3>1. m + 1 \notin 1..(Len(Begin) - 1)
      BY <1>3, <1>4, <2>2
    <3> QED
      BY <1>3, <3>1
  <2>4. place = Begin[Len(Begin)] /\ Len(Begin) - 1 <= ArrayLimit
    <3>1. Len(Begin) - 1 = m
      BY <1>3, <2>3
    <3> QED
      BY <1>4, <2>3, <3>1
  <2>5. Within(Error("eof", place), place)
    <3>1. place \in place..Len(input) /\ place <= HeadEnd(place) /\ place \in Nat
      <4>1. place \in Nat
        BY <1>3, <1>4
      <4>2. HeadEnd(place) \in Nat /\ place < HeadEnd(place)
        BY <4>1, HeadForward
      <4> QED
        BY <1>3, <2>1, <4>1, <4>2
    <3> QED
      BY <3>1, ErrorWithin
  <2> QED
    BY <1>1, <1>2, <2>1, <2>4, <2>5, RefusedAt
<1>6. CASE EntriesBreak
  <2>1. /\ place < Len(input) /\ Byte(place) = Break
        /\ place' = place + 1 /\ left' = 0 /\ element' = element
        /\ output' = output /\ answer' = answer
    BY <1>6 DEF EntriesBreak
  <2>2. ElementsAre(output, place + 1, 0)
    BY <1>3, <1>4, <2>1 DEF ElementsAre
  <2>3. ElementsAre(output', place', left')
    BY <2>1, <2>2
  <2> QED
    BY <1>1, <2>1, <2>3, VectorGrows
<1>7. CASE EntriesFull
  <2> DEFINE error == Error("limit", 0)
  <2>1. place < Len(input) /\ Byte(place) # Break /\ m = ArrayLimit /\ Refuse(error)
    BY <1>7 DEF EntriesFull
  <2>2. error.tag = "error" /\ error \notin {NotCalled, Running}
    BY DEF Error, NotCalled, Running
  <2>3. good \in Nat /\ m <= good /\ (m = good <=> ~(good > ArrayLimit)) /\ good # Indefinite
        /\ (good <= ArrayLimit <=> ~(good > ArrayLimit))
    BY <1>3, <2>1, ArrayAssumption DEF Indefinite
  <2>4. Argument(0) \notin 0..good /\ Argument(0) # good /\ ~(Argument(0) > ArrayLimit)
    BY <1>4, <2>3, ArrayAssumption DEF Indefinite
  <2> HIDE DEF good, error
  <2>5. Judged(error, <<>>, Begin)
    <3>1. Len(Begin) - 1 = good /\ error = Error("limit", 0)
      BY DEF good, error
    <3>2. CASE good > ArrayLimit
      BY <1>3, <2>2, <2>3, <2>4, <3>1, <3>2 DEF Judged
    <3>3. CASE ~(good > ArrayLimit)
      <4>1. Begin[good + 1] = place /\ good = ArrayLimit
        BY <1>4, <2>1, <2>3, <3>3
      <4> QED
        BY <1>3, <1>4, <2>1, <2>2, <2>3, <2>4, <3>1, <3>3, <4>1 DEF Judged
    <3> QED
      BY <3>2, <3>3
  <2>6. answer' = error /\ output' = <<>> /\ element' = element
    BY <2>1 DEF Refuse
  <2>7. Judged(answer', output', Begin) /\ answer' \notin {NotCalled, Running}
    BY <2>2, <2>5, <2>6
  <2> QED
    BY <1>1, <2>6, <2>7, VectorEnds
<1>8. CASE Entry
  <2>1. /\ place < Len(input) /\ Byte(place) # Break /\ m < ArrayLimit
        /\ PushOne(EntryError(place))
    BY <1>8 DEF Entry
  <2>2. Judges(EntryError(place), place)
    BY <1>3, <1>4, <2>1, EntriesJudged
  <2> QED
    BY <1>1, <1>2, <2>1, <2>2, OnePushed
<1> QED
  BY <1>5, <1>6, <1>7, <1>8

LEMMA FinishPreserves ==
  ASSUME ArrayIInv, UNCHANGED iteratorVars, FinishArray
  PROVE  ArrayIInv'
<1> DEFINE m == Len(output)
           good == Len(Begin) - 1
           next == Begin[m + 1]
           broken == Argument(0) = Indefinite
           error == Error("trailing", place)
<1>1. /\ answer = Running /\ left = 0
      /\ IF place = Len(input)
         THEN answer' = Done /\ UNCHANGED <<element, output, place, left>>
         ELSE Refuse(error)
  BY DEF FinishArray, Reading
<1>2. /\ HeadError(0) = NoError /\ Major(0) = 4 /\ Len(Begin) \in Nat /\ Cuts(Begin)
      /\ Argument(0) \in Nat \cup {Indefinite} /\ ~(Argument(0) > ArrayLimit)
      /\ Len(input) \in Nat /\ m \in Nat /\ m < Len(Begin)
      /\ \A i \in 1..(Len(Begin) - 1) : IsElement(element, Begin[i])
      /\ \A i \in 1..Len(Begin) : Begin[i] \in 0..Len(input)
      /\ ElementsAre(output, place, left) /\ IsInput(input)
  BY <1>1, ReadState
<1>3. \A i \in 1..m : Meaning(element, output[i]) = Said(element, Begin[i])
  BY <1>2 DEF ElementsAre
<1>4. /\ ~broken => m = Argument(0) /\ place = next
      /\ broken => /\ m <= ArrayLimit /\ place = next + 1
                   /\ next < Len(input) /\ Byte(next) = Break
  <2>1. /\ ~broken => left \in Nat /\ m + left = Argument(0) /\ place = next
        /\ broken => /\ m <= ArrayLimit
                     /\ \/ left = Indefinite /\ place = next
                        \/ /\ left = 0 /\ place = next + 1
                           /\ next < Len(input) /\ Byte(next) = Break
    BY <1>2 DEF ElementsAre
  <2>2. left # Indefinite /\ m + left = m
    BY <1>1, <1>2 DEF Indefinite
  <2> QED
    BY <2>1, <2>2
<1>5. m + 1 \in 1..Len(Begin) /\ next \in 0..Len(input)
  BY <1>2
<1>6. broken => m = good
  <2>1. SUFFICES ASSUME broken PROVE m = good
    OBVIOUS
  <2>2. next < Len(input) /\ Byte(next) = Break /\ next \in Nat
    BY <1>2, <1>4, <1>5, <2>1
  <2>3. Info(next) = 31
    BY <2>2 DEF Info, Break
  <2>4. ~IsElement(element, next)
    BY <2>3 DEF IsElement
  <2>5. m + 1 \notin 1..(Len(Begin) - 1)
    BY <1>2, <2>4
  <2> QED
    BY <1>2, <2>5
<1>7. good \in Nat /\ m <= good /\ good + 1 = Len(Begin)
  BY <1>2
<1> DEFINE count == IF Argument(0) \in 0..good THEN Argument(0) ELSE good
<1>8. count = m /\ m <= ArrayLimit /\ ~(m > ArrayLimit)
  <2>1. CASE broken
    BY <1>2, <1>4, <1>6, <1>7, <2>1, ArrayAssumption DEF Indefinite
  <2>2. CASE ~broken
    <3>1. m = Argument(0)
      BY <1>4, <2>2
    <3>2. Argument(0) \in 0..good
      <4>1. m \in 0..good
        BY <1>2, <1>7
      <4> QED
        BY <3>1, <4>1
    <3>3. ~(m > ArrayLimit)
      BY <1>2, <3>1
    <3>4. m <= ArrayLimit
      BY <1>2, <3>3, ArrayAssumption
    <3> QED
      BY <3>1, <3>2, <3>3, <3>4
  <2> QED
    BY <2>1, <2>2
<1>9. /\ (Argument(0) = Indefinite /\ next < Len(input) /\ Byte(next) = Break) <=> broken
      /\ Argument(0) = m \/ broken
      /\ place = IF broken THEN next + 1 ELSE next
      /\ Argument(0) <= ArrayLimit
  BY <1>2, <1>4, ArrayAssumption DEF Indefinite
<1>10. Done \notin {NotCalled, Running} /\ error \notin {NotCalled, Running}
       /\ error.tag = "error"
  BY DEF Done, Error, NotCalled, Running
<1>11. Begin[count + 1] = next
  BY <1>8
<1> HIDE DEF good, count, broken, next, error
<1>12. Len(Begin) - 1 = good /\ count = IF Argument(0) \in 0..good THEN Argument(0) ELSE good
  BY DEF good, count
<1>13. CASE place = Len(input)
  <2>1. Judged(Done, output, Begin)
    BY <1>2, <1>3, <1>8, <1>9, <1>11, <1>12, <1>13 DEF Judged
  <2>2. answer' = Done /\ output' = output /\ element' = element
    BY <1>1, <1>13
  <2>3. Judged(answer', output', Begin) /\ answer' \notin {NotCalled, Running}
    BY <1>10, <2>1, <2>2
  <2> QED
    BY <1>1, <2>2, <2>3, VectorEnds
<1>14. CASE place # Len(input)
  <2>1. Judged(error, <<>>, Begin)
    BY <1>2, <1>8, <1>9, <1>10, <1>11, <1>12, <1>14 DEF Judged, error
  <2>2. answer' = error /\ output' = <<>> /\ element' = element
    BY <1>1, <1>14 DEF Refuse
  <2>3. Judged(answer', output', Begin) /\ answer' \notin {NotCalled, Running}
    BY <1>10, <2>1, <2>2
  <2> QED
    BY <1>1, <2>2, <2>3, VectorEnds
<1> QED
  BY <1>13, <1>14

LEMMA ReadPreserves ==
  ASSUME ArrayIInv, ReadArrayOn
  PROVE  ArrayIInv'
BY IntegersPreserve, CutPreserves, BoolsPreserve, FloatsPreserve, EntriesPreserve,
   FinishPreserves DEF ReadArrayOn, ReadArray

LEMMA BeginHead ==
  ASSUME IsInput(input), input' = input
  PROVE  /\ 0 < Len(Begin') /\ Begin'[1] = HeadEnd(0)
<1>1. IsInput(input)'
  BY DEF IsInput
<1>2. PICK b : Cuts(b)' /\ Begin' = b
  BY <1>1, BeginNext
<1>3. Len(b) \in 1..(Len(input') + 1) /\ b[1] = HeadEnd(0)'
  BY <1>2 DEF Cuts, Elementwise
<1>4. HeadEnd(0)' = HeadEnd(0)
  BY DEF HeadEnd, Width, Info, Byte
<1> QED
  BY <1>2, <1>3, <1>4

LEMMA CallPreserves ==
  ASSUME ArrayIInv, NEW type \in Elements, CallArray(type)
  PROVE  ArrayIInv'
<1>1. /\ mode = "basic" /\ answer = NotCalled /\ element' = type /\ output' = <<>>
      /\ IF HeadError(0) # NoError
         THEN answer' = HeadError(0) /\ UNCHANGED <<place, left>>
         ELSE IF Major(0) # 4
         THEN answer' = Error("type", 0) /\ UNCHANGED <<place, left>>
         ELSE IF Argument(0) > ArrayLimit
         THEN answer' = Error("limit", 0) /\ UNCHANGED <<place, left>>
         ELSE answer' = Running /\ place' = HeadEnd(0) /\ left' = Argument(0)
      /\ input' = input /\ mode' = mode
  BY DEF CallArray, Call, iteratorVars, vars
<1>2. IsInput(input) /\ IsInput(input)' /\ mode' # "deterministic"
  BY <1>1 DEF ArrayIInv, IsInput
<1>3. /\ HeadError(0)' = HeadError(0) /\ Major(0)' = Major(0) /\ Argument(0)' = Argument(0)
  BY <1>1, AtSame
<1>4. output' = <<>>
  BY <1>1
<1>5. CASE HeadError(0) # NoError \/ Major(0) # 4
  <2>1. \/ answer' = Error("type", 0)
        \/ HeadError(0) # NoError /\ answer' = HeadError(0)
    BY <1>1, <1>5
  <2>2. HeadError(0) # NoError =>
          HeadError(0) \in {Error("eof", 0), Error("additional", 0), Error("eof", 0 + 1)}
    BY <1>1 DEF HeadError
  <2>3. PICK kind, at : answer' = Error(kind, at) /\ at \in {0, 0 + 1}
    BY <2>1, <2>2
  <2>4. answer'.tag = "error" /\ answer'.at <= 1
    BY <2>3 DEF Error
  <2>5. ArraysRead'
    BY <1>3, <1>4, <1>5, <2>4 DEF ArraysRead
  <2>6. answer' # Running
    BY <2>4 DEF Running
  <2> QED
    BY <1>2, <2>5, <2>6 DEF ArrayIInv
<1>6. CASE HeadError(0) = NoError /\ Major(0) = 4
  <2>1. Argument(0) \in Nat \cup {Indefinite}
    BY <1>2, <1>6, HeadRead
  <2>2. CASE Argument(0) > ArrayLimit
    <3>1. answer' = Error("limit", 0)
      BY <1>1, <1>6, <2>2
    <3>2. answer'.tag = "error" /\ answer' # Running
      BY <3>1 DEF Error, Running
    <3> DEFINE good == Len(Begin') - 1
               count == IF Argument(0) \in 0..good THEN Argument(0) ELSE good
    <3>3. ~(Argument(0) = count /\ count <= ArrayLimit) /\ Argument(0) # Indefinite
      BY <2>1, <2>2, ArrayAssumption DEF Indefinite
    <3>4. ~(Argument(0) <= ArrayLimit)
      BY <2>1, <2>2, ArrayAssumption DEF Indefinite
    <3>5. Len(Begin') - 1 = good /\ count = IF Argument(0) \in 0..good THEN Argument(0) ELSE good
      OBVIOUS
    <3> HIDE DEF good, count
    <3>6. ArraysRead'
      BY <1>3, <1>4, <1>6, <2>2, <3>1, <3>2, <3>3, <3>4, <3>5 DEF ArraysRead
    <3> QED
      BY <1>2, <3>2, <3>6 DEF ArrayIInv
  <2>3. CASE ~(Argument(0) > ArrayLimit)
    <3>1. answer' = Running /\ place' = HeadEnd(0) /\ left' = Argument(0)
      BY <1>1, <1>6, <2>3
    <3>2. 0 < Len(Begin') /\ Begin'[1] = HeadEnd(0)
      BY <1>1, <1>2, BeginHead
    <3>3. <<>> \in Seq(Range(<<>>)) /\ Len(<<>>) = 0 /\ 0 + 1 = 1 /\ 1..0 = {}
          /\ 0 <= ArrayLimit /\ 0 + Argument(0) = Argument(0)
      BY <2>1, ArrayAssumption DEF Indefinite
    <3>4. ElementsRead'
      BY <1>3, <1>4, <2>1, <3>1, <3>2, <3>3 DEF ElementsRead
    <3>5. ArraysRead'
      BY <3>1 DEF ArraysRead
    <3>6. element' \in Elements /\ HeadError(0)' = NoError /\ Major(0)' = 4
          /\ ~(Argument(0)' > ArrayLimit)
      BY <1>1, <1>3, <1>6, <2>3
    <3> QED
      BY <1>2, <3>4, <3>5, <3>6 DEF ArrayIInv
  <2> QED
    BY <2>2, <2>3
<1> QED
  BY <1>5, <1>6

LEMMA NotCalledHolds ==
  ASSUME IsInput(input), answer = NotCalled
  PROVE  ArrayIInv
<1>1. answer # Running
  BY DEF NotCalled, Running
<1> QED
  BY <1>1 DEF ArrayIInv, ArraysRead

LEMMA IteratePreserves ==
  ASSUME ArrayIInv, input' = input, answer' = NotCalled
  PROVE  ArrayIInv'
<1>1. IsInput(input)' /\ answer' # Running
  BY DEF ArrayIInv, IsInput, NotCalled, Running
<1> QED
  BY <1>1 DEF ArrayIInv, ArraysRead

LEMMA StillPreserves ==
  ASSUME ArrayIInv, UNCHANGED readingVars
  PROVE  ArrayIInv'
<1>1. /\ input' = input /\ mode' = mode /\ element' = element /\ output' = output
      /\ place' = place /\ left' = left /\ answer' = answer
  BY DEF readingVars, iteratorVars, vars, arrayVars
<1>2. UNCHANGED iteratorVars
  BY DEF readingVars
<1>3. CASE answer = Running
  <2>1. ElementsAre(output', place', left')
    BY <1>1, <1>3, ReadState
  <2> QED
    BY <1>1, <1>2, <1>3, <2>1, VectorGrows
<1>4. CASE answer # Running
  <2>1. IsInput(input) /\ ArraysRead /\ (answer # NotCalled => mode # "deterministic")
    BY DEF ArrayIInv
  <2>2. answer \notin {NotCalled, Running} => Judged(answer, output, Begin)
    BY <2>1 DEF ArraysRead, Judged
  <2>3. ArraysRead'
    BY <1>1, <2>1, <2>2, JudgedNext
  <2>4. IsInput(input)' /\ answer' # Running /\ (answer' # NotCalled => mode' # "deterministic")
    BY <1>1, <1>4, <2>1 DEF IsInput
  <2> QED
    BY <2>3, <2>4 DEF ArrayIInv
<1> QED
  BY <1>3, <1>4

LEMMA IteratorReads ==
  ASSUME NextItemCall \/ NextEventCall \/ Stopped
  PROVE  input' = input
<1>1. CASE NextItemCall
  BY <1>1 DEF NextItemCall, OneByteItem, BeginItem, WalkItem, Step, GiveItem, GiveItemError
<1>2. CASE NextEventCall
  BY <1>2 DEF NextEventCall, BreakEvent, EventHeadFails, IntegerEvent, StringEvent,
              ContainerEvent, TagEvent, SimpleEvent, RefuseEvent, ReadEvent, vars
<1>3. CASE Stopped
  BY <1>3 DEF Stopped, iteratorVars, vars
<1> QED
  BY <1>1, <1>2, <1>3

(* While a bulk decoder of decode.rs runs, the vector holds the values of    *)
(* the first elements the grammar cuts the array into, and the decoder is    *)
(* where the next one begins, or behind the break that follows them.         *)
THEOREM ArrayInvariant == ReadingSafety => []ArrayIInv
<1>1. ReadingInit => ArrayIInv
  BY NotCalledHolds, SkipAssumption DEF ReadingInit, IteratorInit, ArrayInit
<1>2. ArrayIInv /\ [ReadingNext]_readingVars => ArrayIInv'
  <2> SUFFICES ASSUME ArrayIInv, [ReadingNext]_readingVars PROVE ArrayIInv'
    OBVIOUS
  <2>1. CASE \E type \in Elements : CallArray(type)
    BY <2>1, CallPreserves
  <2>2. CASE ReadArrayOn
    BY <2>2, ReadPreserves
  <2>3. CASE Iterate(NextItemCall) \/ Iterate(NextEventCall) \/ Iterate(Stopped)
    <3>1. answer' = NotCalled /\ (NextItemCall \/ NextEventCall \/ Stopped)
      BY <2>3 DEF Iterate
    <3>2. input' = input
      BY <3>1, IteratorReads
    <3> QED
      BY <3>1, <3>2, IteratePreserves
  <2>4. CASE UNCHANGED readingVars
    BY <2>4, StillPreserves
  <2> QED
    BY <2>1, <2>2, <2>3, <2>4 DEF ReadingNext
<1> QED
  BY <1>1, <1>2, PTL DEF ReadingSafety

(* The bulk decoders leave the iterators alone: what holds of the iterators  *)
(* of a slice holds when decode_*_array_into is called between their calls.  *)
THEOREM ReadingIterates == ReadingSafety => IteratorSafety
<1>1. ReadingInit => IteratorInit
  BY DEF ReadingInit
<1>2. [ReadingNext]_readingVars => [IteratorNext]_iteratorVars
  BY DEF ReadingNext, readingVars, CallArray, ReadArrayOn, Iterate, IteratorNext
<1> QED
  BY <1>1, <1>2, PTL DEF ReadingSafety, IteratorSafety

(* Whatever the slice, the limits and what an earlier call left in it, the   *)
(* vector of decode_*_array_into, filled in blocks, one by one or both, ends *)
(* with the values of the array's elements in their order, all of them when  *)
(* it returns Ok; otherwise it is empty, and the error is placed in the      *)
(* first item that is no element, behind the array, or at its head.          *)
THEOREM ArraysAreRead == ReadingSafety => []ArraysRead
<1>1. ArrayIInv => ArraysRead
  BY DEF ArrayIInv
<1> QED
  BY <1>1, ArrayInvariant, PTL
=============================================================================
