---------------------------- MODULE SerdeProofs -----------------------------
(* Proofs about SerdeCursor for every set of types, input and limits: the    *)
(* depth and the entries, that a value visited to its end is one item of     *)
(* skip, and that from_slice finds out what was left behind.                 *)
EXTENDS SerdeCursor, FiniteSetTheorems, WellFoundedInduction, TLAPS

-----------------------------------------------------------------------------
LEMMA InputIsSeq ==
  ASSUME input \in Inputs
  PROVE  input \in Seq(Heads) /\ Len(input) \in Nat
<1>1. PICK n \in 0..MaxLen : input \in [1..n -> Heads]
  BY DEF Inputs
<1> QED
  BY <1>1, CursorAssumption

LEMMA HereIsHead ==
  ASSUME TypeOK, ~AtEnd
  PROVE  /\ Here.kind \in HeadKinds /\ Here.n \in Nat \cup {Indefinite}
         /\ pos + 1 \in 0..Len(input)
<1>1. input \in Seq(Heads) /\ Len(input) \in Nat /\ pos \in 0..Len(input)
  BY InputIsSeq DEF TypeOK
<1>2. pos + 1 \in 1..Len(input)
  BY <1>1 DEF AtEnd
<1>3. Here \in Heads
  BY <1>1, <1>2 DEF Here
<1>4. Here \in [kind: HeadKinds, n: Nat \cup {Indefinite}]
  BY <1>3, CursorAssumption
<1> QED
  BY <1>1, <1>2, <1>4

-----------------------------------------------------------------------------
(* The collections among the frames: their number follows the pushes and     *)
(* pops of the stack.                                                        *)

CollectionFrames(s) == {i \in DOMAIN s : s[i].kind \in Collections}

Counted(frame) == IF frame.kind \in Collections THEN 1 ELSE 0

LEMMA EnteredIsNat ==
  ASSUME NEW s \in Seq(FrameRecord)
  PROVE  IsFiniteSet(CollectionFrames(s)) /\ Entered(s) \in Nat
<1>1. IsFiniteSet(1..Len(s))
  BY FS_Interval
<1>2. CollectionFrames(s) \subseteq 1..Len(s)
  BY DEF CollectionFrames
<1>3. IsFiniteSet(CollectionFrames(s))
  BY <1>1, <1>2, FS_Subset
<1> QED
  BY <1>3, FS_CardinalityType DEF Entered, CollectionFrames

LEMMA EnteredEmpty == Entered(<<>>) = 0
<1>1. CollectionFrames(<<>>) = {}
  BY DEF CollectionFrames
<1> QED
  BY <1>1, FS_EmptySet DEF Entered, CollectionFrames

LEMMA EnteredAppend ==
  ASSUME NEW s \in Seq(FrameRecord), NEW frame \in FrameRecord
  PROVE  /\ Append(s, frame) \in Seq(FrameRecord)
         /\ Entered(Append(s, frame)) = Entered(s) + Counted(frame)
<1> DEFINE t == Append(s, frame)
           n == Len(s) + 1
<1>1. /\ t \in Seq(FrameRecord) /\ Len(t) = n /\ t[n] = frame /\ n \in Nat
      /\ \A i \in 1..Len(s) : t[i] = s[i]
  OBVIOUS
<1>2. IsFiniteSet(CollectionFrames(s)) /\ Entered(s) \in Nat
  BY EnteredIsNat
<1>3. n \notin CollectionFrames(s)
  BY DEF CollectionFrames
<1>4. CASE frame.kind \in Collections
  <2>1. CollectionFrames(t) = CollectionFrames(s) \cup {n}
    BY <1>1, <1>4 DEF CollectionFrames
  <2>2. Cardinality(CollectionFrames(t)) = Cardinality(CollectionFrames(s)) + 1
    BY <1>2, <1>3, <2>1, FS_AddElement
  <2> QED
    BY <1>1, <1>4, <2>2 DEF Entered, CollectionFrames, Counted
<1>5. CASE frame.kind \notin Collections
  <2>1. CollectionFrames(t) = CollectionFrames(s)
    BY <1>1, <1>5 DEF CollectionFrames
  <2>2. Entered(t) = Entered(s)
    BY <2>1 DEF Entered, CollectionFrames
  <2>3. Counted(frame) = 0
    BY <1>5 DEF Counted
  <2> QED
    BY <1>1, <1>2, <2>2, <2>3
<1> QED
  BY <1>4, <1>5

LEMMA EnteredPop ==
  ASSUME NEW s \in Seq(FrameRecord), s # <<>>
  PROVE  /\ SubSeq(s, 1, Len(s) - 1) \in Seq(FrameRecord)
         /\ s[Len(s)] \in FrameRecord
         /\ Entered(SubSeq(s, 1, Len(s) - 1)) = Entered(s) - Counted(s[Len(s)])
<1> DEFINE r == SubSeq(s, 1, Len(s) - 1)
           frame == s[Len(s)]
<1>1. Len(s) \in Nat \ {0} /\ frame \in FrameRecord
  OBVIOUS
<1>2. r \in Seq(FrameRecord) /\ Len(r) = Len(s) - 1
  BY <1>1
<1>3. \A i \in 1..Len(r) : r[i] = s[i]
  BY <1>1, <1>2
<1>4. Append(r, frame) = s
  BY <1>1, <1>2, <1>3
<1>5. Entered(s) = Entered(r) + Counted(frame)
  BY <1>1, <1>2, <1>4, EnteredAppend
<1>6. Entered(r) \in Nat /\ Counted(frame) \in Nat
  BY <1>2, EnteredIsNat DEF Counted
<1> QED
  BY <1>1, <1>2, <1>5, <1>6

LEMMA EnteredTop ==
  ASSUME NEW s \in Seq(FrameRecord), s # <<>>,
         NEW frame \in FrameRecord, frame.kind = s[Len(s)].kind
  PROVE  /\ [s EXCEPT ![Len(s)] = frame] \in Seq(FrameRecord)
         /\ Entered([s EXCEPT ![Len(s)] = frame]) = Entered(s)
<1> DEFINE t == [s EXCEPT ![Len(s)] = frame]
<1>1. /\ t \in Seq(FrameRecord) /\ Len(t) = Len(s)
      /\ \A i \in 1..Len(s) : t[i] = IF i = Len(s) THEN frame ELSE s[i]
  OBVIOUS
<1>2. CollectionFrames(t) = CollectionFrames(s)
  BY <1>1 DEF CollectionFrames
<1> QED
  BY <1>1, <1>2 DEF Entered, CollectionFrames

-----------------------------------------------------------------------------
(* The bound on the entries, frame by frame.                                 *)

FrameBounded(frame) == frame.kind \in Collections => Most(frame) <= MaxCollection

FramesBounded(s) == \A i \in DOMAIN s : FrameBounded(s[i])

LEMMA BoundedAppend ==
  ASSUME NEW s \in Seq(FrameRecord), FramesBounded(s),
         NEW frame \in FrameRecord, FrameBounded(frame)
  PROVE  FramesBounded(Append(s, frame)) /\ Append(s, frame) # <<>>
<1> DEFINE t == Append(s, frame)
<1>1. /\ DOMAIN t = 1..(Len(s) + 1) /\ Len(s) \in Nat /\ DOMAIN s = 1..Len(s)
      /\ \A i \in 1..(Len(s) + 1) : t[i] = IF i = Len(s) + 1 THEN frame ELSE s[i]
  OBVIOUS
<1> QED
  BY <1>1 DEF FramesBounded

LEMMA BoundedPop ==
  ASSUME NEW s \in Seq(FrameRecord), s # <<>>, FramesBounded(s)
  PROVE  FramesBounded(SubSeq(s, 1, Len(s) - 1)) /\ FrameBounded(s[Len(s)])
<1> DEFINE r == SubSeq(s, 1, Len(s) - 1)
<1>1. Len(s) \in Nat \ {0} /\ DOMAIN s = 1..Len(s)
  OBVIOUS
<1>2. DOMAIN r = 1..(Len(s) - 1) /\ \A i \in 1..(Len(s) - 1) : r[i] = s[i]
  BY <1>1
<1> QED
  BY <1>1, <1>2 DEF FramesBounded

LEMMA BoundedTop ==
  ASSUME NEW s \in Seq(FrameRecord), s # <<>>, FramesBounded(s),
         NEW frame \in FrameRecord, FrameBounded(frame)
  PROVE  FramesBounded([s EXCEPT ![Len(s)] = frame]) /\ [s EXCEPT ![Len(s)] = frame] # <<>>
<1> DEFINE t == [s EXCEPT ![Len(s)] = frame]
<1>1. /\ DOMAIN t = DOMAIN s /\ Len(s) \in DOMAIN s
      /\ \A i \in DOMAIN s : t[i] = IF i = Len(s) THEN frame ELSE s[i]
  OBVIOUS
<1> QED
  BY <1>1 DEF FramesBounded

-----------------------------------------------------------------------------
(* The three ways a step moves the stack.                                    *)

(* An error leaves it to the callers.                                        *)
LEMMA FailKeeps ==
  ASSUME IInv, NEW p \in 0..Len(input),
         NEW kind \in {"eof", "message", "break", "limit", "depth", "type", "skip"},
         Fail(kind, p)
  PROVE  IInv'
<1>1. /\ pos' = p /\ outcome' = Error(kind, p)
      /\ UNCHANGED <<input, depth, stack, type, first, whole>>
  BY DEF Fail
<1>2. OutcomeOK'
  BY <1>1 DEF OutcomeOK
<1>3. TypeOK'
  BY <1>1, <1>2 DEF IInv, TypeOK, Fail
<1>4. DepthBalanced' /\ EntriesBounded'
  BY <1>1 DEF IInv, DepthBalanced, EntriesBounded
<1>5. outcome'.tag = "error"
  BY <1>1 DEF Error
<1> QED
  BY <1>1, <1>3, <1>4, <1>5 DEF IInv, Fail

(* A value goes to the frames that are left.                                 *)
LEMMA GiveKeeps ==
  ASSUME IInv, NEW rest \in Seq(FrameRecord), FramesBounded(rest),
         NEW p \in 0..Len(input), Give(rest, p),
         depth' = Entered(rest), depth' <= MaxDepth,
         whole' \in BOOLEAN, UNCHANGED <<input, type, first>>
  PROVE  IInv'
<1>1. Entered(rest) \in Nat
  BY EnteredIsNat
<1>2. stack' = rest /\ pos' = p
  BY DEF Give
<1>3. OutcomeOK'
  BY DEF Give, IInv, TypeOK, OutcomeOK
<1>4. TypeOK'
  BY <1>1, <1>2, <1>3 DEF IInv, TypeOK, Give
<1>5. DepthBalanced'
  BY <1>2 DEF DepthBalanced
<1>6. EntriesBounded'
  BY <1>2 DEF EntriesBounded, FramesBounded, FrameBounded
<1>7. /\ phase' = "access" => stack' # <<>>
      /\ phase' = "idle" => stack' = <<>>
      /\ phase' # "error"
  BY <1>2 DEF Give
<1> QED
  BY <1>4, <1>5, <1>6, <1>7 DEF IInv

(* A frame is pushed or the innermost one is changed.                        *)
LEMMA MoveKeeps ==
  ASSUME IInv, NEW frames \in Seq(FrameRecord), frames # <<>>, FramesBounded(frames),
         stack' = frames, depth' = Entered(frames), depth' <= MaxDepth,
         phase' \in {"value", "access"}, type' \in Types,
         pos' \in 0..Len(input), UNCHANGED <<input, first, outcome, whole>>
  PROVE  IInv'
<1>1. Entered(frames) \in Nat
  BY EnteredIsNat
<1>2. OutcomeOK'
  BY DEF IInv, TypeOK, OutcomeOK
<1>3. TypeOK'
  BY <1>1, <1>2 DEF IInv, TypeOK
<1>4. DepthBalanced'
  BY DEF DepthBalanced
<1>5. EntriesBounded'
  BY DEF EntriesBounded, FramesBounded, FrameBounded
<1> QED
  BY <1>3, <1>4, <1>5 DEF IInv

-----------------------------------------------------------------------------
(* What the steps below use of the invariant.                                *)
LEMMA Facts ==
  ASSUME IInv
  PROVE  /\ stack \in Seq(FrameRecord) /\ FramesBounded(stack)
         /\ depth = Entered(stack) /\ depth \in Nat /\ depth <= MaxDepth
         /\ type \in Types /\ whole \in BOOLEAN
         /\ Len(input) \in Nat /\ pos \in 0..Len(input)
         /\ MaxDepth \in Nat /\ MaxCollection \in Nat
         /\ \A t \in Types : Elements[t] \subseteq Types
BY InputIsSeq, CursorAssumption
   DEF IInv, TypeOK, DepthBalanced, EntriesBounded, FramesBounded, FrameBounded

(* A value for the frames as they are.                                       *)
LEMMA ScalarKeeps ==
  ASSUME IInv, NEW p \in 0..Len(input), Give(stack, p),
         UNCHANGED <<input, depth, type, first, whole>>
  PROVE  IInv'
<1>1. depth' = Entered(stack) /\ depth' <= MaxDepth /\ whole' \in BOOLEAN
  BY Facts
<1> QED
  BY <1>1, Facts, GiveKeeps

(* A frame that is no collection goes.                                       *)
LEMMA PopKeeps ==
  ASSUME IInv, stack # <<>>, Top.kind \notin Collections,
         NEW p \in 0..Len(input), Give(Pop, p),
         UNCHANGED <<input, depth, type, first, whole>>
  PROVE  IInv'
<1>1. Pop \in Seq(FrameRecord) /\ Entered(Pop) = Entered(stack) - Counted(Top)
  BY Facts, EnteredPop DEF Pop, Top
<1>2. FramesBounded(Pop)
  BY Facts, BoundedPop DEF Pop
<1>3. Counted(Top) = 0
  BY DEF Counted
<1>4. depth' = Entered(Pop) /\ depth' <= MaxDepth /\ whole' \in BOOLEAN
  BY Facts, <1>1, <1>3
<1> QED
  BY <1>1, <1>2, <1>4, GiveKeeps

(* visit_seq or visit_map returns: the frame and one level of depth go.      *)
LEMMA ReturnKeeps ==
  ASSUME IInv, stack # <<>>, Top.kind \in Collections,
         NEW p \in 0..Len(input), NEW complete \in BOOLEAN, Return(p, complete)
  PROVE  IInv'
<1>1. Pop \in Seq(FrameRecord) /\ Entered(Pop) = Entered(stack) - Counted(Top)
  BY Facts, EnteredPop DEF Pop, Top
<1>2. FramesBounded(Pop)
  BY Facts, BoundedPop DEF Pop
<1>3. Counted(Top) = 1
  BY DEF Counted
<1>4. depth' = Entered(Pop) /\ depth' <= MaxDepth
  BY Facts, <1>1, <1>3 DEF Return
<1>5. whole' \in BOOLEAN
  BY Facts DEF Return
<1>6. Give(Pop, p) /\ UNCHANGED <<input, type, first>>
  BY DEF Return
<1> QED
  BY <1>1, <1>2, <1>4, <1>5, <1>6, GiveKeeps

(* A visitor asks for an entry: the frame changes and keeps its kind.        *)
LEMMA AskKeeps ==
  ASSUME IInv, stack # <<>>, NEW frame \in FrameRecord,
         frame.kind = Top.kind, FrameBounded(frame), Ask(frame)
  PROVE  IInv'
<1> DEFINE s == [stack EXCEPT ![Len(stack)] = frame]
<1>1. s \in Seq(FrameRecord) /\ Entered(s) = Entered(stack)
  BY Facts, EnteredTop DEF Top
<1>2. FramesBounded(s) /\ s # <<>>
  BY Facts, BoundedTop
<1>3. stack' = s /\ UNCHANGED <<input, pos, depth, first, outcome, whole>>
      /\ phase' = "value"
  BY DEF Ask, WithTop
<1>4. frame.type \in Types
  BY DEF FrameRecord
<1>5. type' \in Types
  BY <1>4, Facts DEF Ask
<1>6. depth' = Entered(s) /\ depth' <= MaxDepth /\ pos' \in 0..Len(input)
  BY <1>1, <1>3, Facts
<1> HIDE DEF s
<1> QED
  BY <1>1, <1>2, <1>3, <1>5, <1>6, MoveKeeps

(* A frame is pushed.                                                        *)
LEMMA PushKeeps ==
  ASSUME IInv, NEW frame \in FrameRecord, FrameBounded(frame),
         stack' = Append(stack, frame), depth' = depth + Counted(frame), depth' <= MaxDepth,
         phase' \in {"value", "access"}, type' \in Types,
         pos' \in 0..Len(input), UNCHANGED <<input, first, outcome, whole>>
  PROVE  IInv'
<1> DEFINE s == Append(stack, frame)
<1>1. s \in Seq(FrameRecord) /\ Entered(s) = Entered(stack) + Counted(frame)
  BY Facts, EnteredAppend
<1>2. FramesBounded(s) /\ s # <<>>
  BY Facts, BoundedAppend
<1>3. stack' = s /\ depth' = Entered(s)
  BY <1>1, Facts
<1> HIDE DEF s
<1> QED
  BY <1>1, <1>2, <1>3, MoveKeeps

-----------------------------------------------------------------------------
(* One lemma for the steps of each part of the code.                         *)

LEMMA ScalarSteps ==
  ASSUME IInv, Eof \/ Scalar \/ ScalarRefused \/ UnexpectedBreak \/ OptionNone
               \/ EnumName \/ EnumMismatch \/ Ignored \/ IgnoredFails
  PROVE  IInv'
<1>1. TypeOK
  BY DEF IInv
<1>2. CASE Eof
  BY <1>2, Facts, FailKeeps DEF Eof
<1>3. CASE Scalar
  <2>1. pos + 1 \in 0..Len(input)
    BY <1>1, <1>3, HereIsHead DEF Scalar, At
  <2> QED
    BY <1>3, <2>1, ScalarKeeps DEF Scalar
<1>10. CASE ScalarRefused
  <2>1. pos + 1 \in 0..Len(input)
    BY <1>1, <1>10, HereIsHead DEF ScalarRefused, At
  <2> QED
    BY <1>10, <2>1, FailKeeps DEF ScalarRefused
<1>4. CASE UnexpectedBreak
  <2>1. pos + 1 \in 0..Len(input)
    BY <1>1, <1>4, HereIsHead DEF UnexpectedBreak, At
  <2> QED
    BY <1>4, <2>1, FailKeeps DEF UnexpectedBreak
<1>5. CASE OptionNone
  <2>1. pos + 1 \in 0..Len(input)
    BY <1>1, <1>5, HereIsHead DEF OptionNone, At
  <2> QED
    BY <1>5, <2>1, ScalarKeeps DEF OptionNone
<1>6. CASE EnumName
  <2>1. pos + 1 \in 0..Len(input)
    BY <1>1, <1>6, HereIsHead DEF EnumName, At
  <2> QED
    BY <1>6, <2>1, ScalarKeeps DEF EnumName
<1>7. CASE EnumMismatch
  <2>1. pos + 1 \in 0..Len(input)
    BY <1>1, <1>7, HereIsHead DEF EnumMismatch
  <2> QED
    BY <1>7, <2>1, FailKeeps DEF EnumMismatch
<1>8. CASE Ignored
  <2>1. PICK p \in pos..Len(input) : Give(stack, p)
    BY <1>8 DEF Ignored
  <2>2. p \in 0..Len(input)
    BY Facts
  <2> QED
    BY <1>8, <2>1, <2>2, ScalarKeeps DEF Ignored
<1>9. CASE IgnoredFails
  <2>1. PICK p \in pos..Len(input) : Fail("skip", p)
    BY <1>9 DEF IgnoredFails
  <2>2. p \in 0..Len(input)
    BY Facts
  <2> QED
    BY <2>1, <2>2, FailKeeps
<1> QED
  BY <1>2, <1>3, <1>4, <1>5, <1>6, <1>7, <1>8, <1>9, <1>10

(* The requests that look at the event behind the first head.                *)
LEMMA DirectSteps ==
  ASSUME IInv, Direct \/ DirectRefused \/ EnumContentMismatch
  PROVE  IInv'
<1>1. ~AtEnd /\ TypeOK
  BY DEF IInv, Direct, DirectRefused, EnumContentMismatch, EnumMap, At
<1>2. pos + 1 \in 0..Len(input)
  BY <1>1, HereIsHead
<1>3. pos + 1 # Len(input) => pos + 2 \in 0..Len(input)
  BY <1>2, Facts
<1>4. CASE Direct
  <2>1. pos + 1 < Len(input) => pos + 1 # Len(input)
    BY <1>2, Facts
  <2>2. \E p \in 0..Len(input) : Give(stack, p)
    BY <1>2, <1>3, <1>4, <2>1 DEF Direct
  <2> QED
    BY <1>4, <2>2, ScalarKeeps DEF Direct
<1>5. CASE DirectRefused
  BY <1>2, <1>3, <1>5, FailKeeps DEF DirectRefused
<1>6. CASE EnumContentMismatch
  BY <1>2, <1>3, <1>6, FailKeeps DEF EnumContentMismatch
<1> QED
  BY <1>4, <1>5, <1>6

LEMMA OptionStep ==
  ASSUME IInv, OptionSome
  PROVE  IInv'
<1>1. type' \in Types
  BY Facts DEF OptionSome
<1>2. UNCHANGED <<input, pos, depth, stack, phase, first, outcome, whole>>
  BY DEF OptionSome
<1>3. TypeOK'
  BY <1>1, <1>2 DEF IInv, TypeOK, OutcomeOK
<1>4. DepthBalanced' /\ EntriesBounded'
  BY <1>2 DEF IInv, DepthBalanced, EntriesBounded
<1> QED
  BY <1>2, <1>3, <1>4 DEF IInv

LEMMA TagStep ==
  ASSUME IInv, Tag
  PROVE  IInv'
<1> DEFINE frame == Frame("tag", 1, type)
<1>1. frame \in FrameRecord /\ FrameBounded(frame) /\ Counted(frame) = 0
  BY Facts DEF Frame, FrameRecord, FrameBounded, Counted, Collections
<1>2. /\ stack' = Append(stack, frame) /\ pos' = pos + 1 /\ phase = "value"
      /\ UNCHANGED <<input, depth, phase, type, first, outcome, whole>>
  BY DEF Tag, Asked
<1>3. pos + 1 \in 0..Len(input)
  BY HereIsHead DEF IInv, Tag, At
<1> HIDE DEF frame
<1> QED
  BY <1>1, <1>2, <1>3, Facts, PushKeeps

LEMMA CollectionStep ==
  ASSUME IInv, Collection
  PROVE  IInv'
<1>1. /\ Here.kind \in Collections /\ Here.n \in Nat \cup {Indefinite}
      /\ pos + 1 \in 0..Len(input)
  BY HereIsHead DEF IInv, Collection, At
<1>2. CASE \E kind \in {"limit", "depth", "message"} : Fail(kind, pos + 1)
  BY <1>1, <1>2, FailKeeps
<1>3. CASE ~ \E kind \in {"limit", "depth", "message"} : Fail(kind, pos + 1)
  <2> DEFINE frame == Frame(Here.kind, Here.n, type)
  <2>1. /\ ~(Here.n > MaxCollection) /\ ~(depth >= MaxDepth)
        /\ stack' = Append(stack, frame) /\ pos' = pos + 1 /\ depth' = depth + 1
        /\ phase' = "access" /\ UNCHANGED <<input, type, first, outcome, whole>>
    BY <1>3 DEF Collection
  <2>2. frame \in FrameRecord
    BY <1>1, Facts DEF Frame, FrameRecord
  <2>3. Most(frame) <= MaxCollection
    BY <1>1, <2>1, Facts DEF Frame, Most, Indefinite
  <2>4. FrameBounded(frame) /\ Counted(frame) = 1
    BY <1>1, <2>3 DEF Frame, FrameBounded, Counted
  <2>5. depth + 1 <= MaxDepth
    BY <2>1, Facts
  <2> HIDE DEF frame
  <2> QED
    BY <1>1, <2>1, <2>2, <2>4, <2>5, Facts, PushKeeps
<1> QED
  BY <1>2, <1>3

LEMMA EnumStep ==
  ASSUME IInv, EnumContent
  PROVE  IInv'
<1>1. /\ Here.n \in Nat \cup {Indefinite}
      /\ pos + 1 \in 0..Len(input)
  BY HereIsHead DEF IInv, EnumContent, EnumMap, At
<1>2. pos + 2 \in 0..Len(input)
  BY <1>1, Facts DEF EnumContent
<1> DEFINE frame == Frame("variant", Here.n, type)
<1>3. /\ stack' = Append(stack, frame) /\ pos' = pos + 2 /\ phase = "value"
      /\ type' \in Elements[type]
      /\ UNCHANGED <<input, depth, phase, first, outcome, whole>>
  BY DEF EnumContent, Asked
<1>4. frame \in FrameRecord /\ FrameBounded(frame) /\ Counted(frame) = 0
  BY <1>1, Facts DEF Frame, FrameRecord, FrameBounded, Counted, Collections
<1> HIDE DEF frame
<1> QED
  BY <1>2, <1>3, <1>4, Facts, PushKeeps

LEMMA Returns ==
  ASSUME IInv, TagReturns \/ VariantEnds
  PROVE  IInv'
<1>1. stack # <<>> /\ Top.kind \notin Collections /\ TypeOK
  BY DEF IInv, TagReturns, VariantEnds, Collections
<1>2. CASE TagReturns
  BY <1>1, <1>2, Facts, PopKeeps DEF TagReturns
<1>3. CASE VariantEnds
  <2>1. AtEnd \/ pos + 1 \in 0..Len(input)
    BY <1>1, HereIsHead
  <2> QED
    BY <1>1, <1>3, <2>1, Facts, PopKeeps, FailKeeps DEF VariantEnds
<1> QED
  BY <1>2, <1>3

LEMMA AccessEnds ==
  ASSUME IInv, Leave \/ Exhausted \/ BreakEnds \/ Cut \/ VisitorFails
  PROVE  IInv'
<1>1. stack # <<>> /\ Top.kind \in Collections /\ TypeOK
  BY DEF IInv, Leave, Exhausted, BreakEnds, Cut, VisitorFails, Visiting
<1>2. ASSUME NEW p \in 0..Len(input), NoMore(p)
      PROVE  IInv'
  BY <1>1, <1>2, ReturnKeeps, FailKeeps DEF NoMore
<1>3. CASE Leave
  BY <1>1, <1>3, Facts, ReturnKeeps DEF Leave
<1>4. CASE Exhausted
  BY <1>2, <1>4, Facts DEF Exhausted
<1>5. CASE BreakEnds
  <2>1. pos + 1 \in 0..Len(input)
    BY <1>1, <1>5, HereIsHead DEF BreakEnds, At
  <2> QED
    BY <1>2, <1>5, <2>1 DEF BreakEnds
<1>6. CASE Cut
  BY <1>6, Facts, FailKeeps DEF Cut
<1>7. CASE VisitorFails
  BY <1>7, Facts, FailKeeps DEF VisitorFails
<1> QED
  BY <1>3, <1>4, <1>5, <1>6, <1>7

(* A definite access has one entry less to give and one more given; an       *)
(* indefinite one is asked only below the limit.                             *)
LEMMA EntrySteps ==
  ASSUME IInv, Entry \/ ValueOfEntry
  PROVE  IInv'
<1>1. stack # <<>> /\ Top.kind \in Collections
  BY DEF IInv, Entry, ValueOfEntry, Visiting, Collections
<1>2. Top \in FrameRecord /\ FrameBounded(Top)
  BY <1>1, Facts, EnteredPop, BoundedPop DEF Top
<1>3. /\ Top.seen \in Nat /\ Top.remaining \in Nat \cup {Indefinite}
      /\ Most(Top) <= MaxCollection
  BY <1>1, <1>2 DEF FrameRecord, FrameBounded
<1>4. CASE ValueOfEntry
  <2> DEFINE frame == [Top EXCEPT !.value = FALSE]
  <2>1. frame \in FrameRecord /\ frame.kind = Top.kind
    BY <1>2 DEF FrameRecord
  <2>2. frame.seen = Top.seen /\ frame.remaining = Top.remaining
    BY <1>2 DEF FrameRecord
  <2>3. FrameBounded(frame)
    BY <1>3, <2>2 DEF FrameBounded, Most
  <2>4. Ask(frame)
    BY <1>4 DEF ValueOfEntry
  <2> HIDE DEF frame
  <2> QED
    BY <1>1, <2>1, <2>3, <2>4, AskKeeps
<1>5. CASE Entry
  <2>1. CASE Top.remaining = Indefinite /\ Top.seen = MaxCollection
    BY <1>5, <2>1, Facts, FailKeeps DEF Entry
  <2>2. CASE ~(Top.remaining = Indefinite /\ Top.seen = MaxCollection)
    <3> DEFINE frame == [Top EXCEPT !.seen = @ + 1, !.value = (Top.kind = "map"),
                           !.remaining = IF @ = Indefinite THEN @ ELSE @ - 1]
    <3>1. Ask(frame)
      BY <1>5, <2>2 DEF Entry
    <3>2. Top.remaining # Indefinite => Top.remaining > 0
      BY <1>5 DEF Entry
    <3>3. frame.seen = Top.seen + 1 /\ frame.kind = Top.kind
          /\ frame.remaining = IF Top.remaining = Indefinite THEN Indefinite
                               ELSE Top.remaining - 1
      BY <1>2 DEF FrameRecord
    <3>4. frame \in FrameRecord
      <4>1. Top.seen + 1 \in Nat
        BY <1>3
      <4>2. (IF Top.remaining = Indefinite THEN Indefinite ELSE Top.remaining - 1)
              \in Nat \cup {Indefinite}
        BY <1>3, <3>2 DEF Indefinite
      <4> QED
        BY <1>2, <4>1, <4>2 DEF FrameRecord
    <3>5. Most(frame) <= MaxCollection
      <4>1. CASE Top.remaining = Indefinite
        <5>1. Top.seen <= MaxCollection
          BY <1>3, <4>1, Facts DEF Most
        <5> QED
          BY <1>3, <2>2, <3>3, <4>1, <5>1, Facts DEF Most
      <4>2. CASE Top.remaining # Indefinite
        <5>1. Top.remaining \in Nat /\ Top.seen + Top.remaining <= MaxCollection
          BY <1>3, <4>2 DEF Most
        <5>2. frame.remaining = Top.remaining - 1 /\ frame.remaining # Indefinite
          BY <3>2, <3>3, <4>2, <5>1 DEF Indefinite
        <5> QED
          BY <1>3, <3>3, <5>1, <5>2, Facts DEF Most
      <4> QED
        BY <4>1, <4>2
    <3>6. FrameBounded(frame)
      BY <3>5 DEF FrameBounded
    <3> HIDE DEF frame
    <3> QED
      BY <1>1, <3>1, <3>3, <3>4, <3>6, AskKeeps
  <2> QED
    BY <2>1, <2>2
<1> QED
  BY <1>4, <1>5

(* A caller that has the error goes, with its depth if it took any.          *)
LEMMA ErrorStep ==
  ASSUME IInv, ErrorReturns
  PROVE  IInv'
<1>1. /\ phase = "error" /\ stack # <<>> /\ outcome.tag = "error"
      /\ stack' = Pop /\ UNCHANGED <<input, pos, type, first, outcome, whole>>
  BY DEF ErrorReturns, IInv
<1>2. /\ Pop \in Seq(FrameRecord) /\ FramesBounded(Pop)
      /\ Entered(Pop) = Entered(stack) - Counted(Top)
  BY <1>1, Facts, EnteredPop, BoundedPop DEF Pop, Top
<1>3. Entered(Pop) \in Nat /\ Entered(stack) \in Nat
  BY <1>2, Facts, EnteredIsNat
<1>4. depth' = Entered(Pop) /\ depth' <= MaxDepth
  BY <1>2, <1>3, Facts DEF ErrorReturns, Counted
<1>5. OutcomeOK'
  BY <1>1 DEF IInv, TypeOK, OutcomeOK
<1>6. TypeOK'
  BY <1>1, <1>2, <1>3, <1>4, <1>5 DEF IInv, TypeOK, ErrorReturns
<1>7. DepthBalanced' /\ EntriesBounded'
  BY <1>1, <1>2, <1>4 DEF DepthBalanced, EntriesBounded, FramesBounded, FrameBounded
<1> QED
  BY <1>1, <1>6, <1>7 DEF IInv, ErrorReturns

LEMMA CallStep ==
  ASSUME IInv, NEW t \in Types, Call(t)
  PROVE  IInv'
<1>1. /\ phase' = "value" /\ type' = t /\ first' = pos /\ outcome' = Running
      /\ whole' = TRUE /\ UNCHANGED <<input, pos, depth, stack>>
  BY DEF Call
<1>2. TypeOK'
  BY <1>1 DEF IInv, TypeOK, OutcomeOK
<1>3. DepthBalanced' /\ EntriesBounded'
  BY <1>1 DEF IInv, DepthBalanced, EntriesBounded
<1> QED
  BY <1>1, <1>2, <1>3 DEF IInv

-----------------------------------------------------------------------------
(* No call has begun, and nothing is open.                                   *)
LEMMA InitIInv == Init => IInv
<1> SUFFICES ASSUME Init PROVE IInv
  OBVIOUS
<1>1. Len(input) \in Nat
  BY InputIsSeq DEF Init
<1>2. OutcomeOK
  BY <1>1 DEF Init, OutcomeOK
<1>3. type \in Types
  BY CursorAssumption DEF Init
<1>4. TypeOK
  BY <1>1, <1>2, <1>3 DEF Init, TypeOK
<1>5. DepthBalanced /\ EntriesBounded
  BY EnteredEmpty, CursorAssumption DEF Init, DepthBalanced, EntriesBounded
<1> QED
  BY <1>4, <1>5 DEF Init, IInv

LEMMA StutterIInv ==
  ASSUME IInv, UNCHANGED vars
  PROVE  IInv'
<1>1. UNCHANGED <<input, pos, depth, stack, phase, type, first, outcome, whole>>
  BY DEF vars
<1>2. TypeOK'
  BY <1>1 DEF IInv, TypeOK, OutcomeOK
<1>3. DepthBalanced' /\ EntriesBounded'
  BY <1>1 DEF IInv, DepthBalanced, EntriesBounded
<1> QED
  BY <1>1, <1>2, <1>3 DEF IInv

(* Depth, frames and the entries still due of each move together in every    *)
(* step of the Deserializer, errors included.                                *)
THEOREM InductiveInvariant == Safety => []IInv
<1>1. IInv /\ [Next]_vars => IInv'
  <2> SUFFICES ASSUME IInv, [Next]_vars PROVE IInv'
    OBVIOUS
  <2>1. CASE Asking
    BY <2>1, ScalarSteps, DirectSteps, OptionStep, TagStep, CollectionStep, EnumStep DEF Asking
  <2>2. CASE Answering
    BY <2>2, AccessEnds, EntrySteps, Returns DEF Answering
  <2>3. CASE VisitorFails \/ \E t \in Types : Call(t)
    BY <2>3, AccessEnds, CallStep
  <2>4. CASE UNCHANGED vars
    BY <2>4, StutterIInv
  <2>5. CASE ErrorReturns
    BY <2>5, ErrorStep
  <2> QED
    BY <2>1, <2>2, <2>3, <2>4, <2>5 DEF Next, Step
<1> QED
  BY <1>1, InitIInv, PTL DEF Safety

(* Every variable keeps its type.                                            *)
THEOREM TypeInvariant == Safety => []TypeOK
<1>1. IInv => TypeOK
  BY DEF IInv
<1> QED
  BY <1>1, InductiveInvariant, PTL

(* The depth counts exactly the collections whose visitors run, never        *)
(* exceeds the limit, and an ended call leaves nothing of it behind, however *)
(* deep its error was.                                                       *)
THEOREM BalancedDepth == Safety => [](DepthBalanced /\ (phase = "idle" => depth = 0))
<1>1. IInv => DepthBalanced /\ (phase = "idle" => depth = 0)
  BY EnteredEmpty DEF IInv, DepthBalanced
<1> QED
  BY <1>1, InductiveInvariant, PTL

(* However many entries a head announces or a break leaves open, and         *)
(* whatever was decoded before, no visitor gets more than the limit.         *)
THEOREM BoundedEntries == Safety => []EntriesBounded
<1>1. IInv => EntriesBounded
  BY DEF IInv
<1> QED
  BY <1>1, InductiveInvariant, PTL

-----------------------------------------------------------------------------
(* skip, head by head.  Each walk in another is of heads further on, so that *)
(* the function of all walks is determined from the last head backwards.     *)

LEMMA LeastNat ==
  ASSUME NEW T, T \subseteq Nat, T # {}
  PROVE  \E m \in T : \A k \in T : m <= k
<1> DEFINE less == {pair \in Nat \X Nat : pair[1] < pair[2]}
<1>1. IsWellFoundedOn(less, Nat)
  BY NatLessThanWellFounded DEF OpToRel
<1>2. PICK m \in T : \A k \in T : <<k, m>> \notin less
  BY <1>1, WFMin
<1>3. \A k \in T : <<k, m>> \in Nat \X Nat
  OBVIOUS
<1>4. \A k \in T : ~(k < m)
  BY <1>2, <1>3
<1> QED
  BY <1>4

IsItems(in) == in \in Seq(Heads) /\ Len(in) <= MaxLen

Ends(in, p) == {NoEnd} \cup p..Len(in)

(* The walk of what is inside the head here, and of what follows its item.  *)
Child(in, s) == Spot(s.levels - 1, s.at + 1, Inside(in[s.at + 1]), 0)

Sibling(s, end) ==
  Spot(s.levels, end, Following(s.items), IF s.items < 0 THEN s.count + 1 ELSE 0)

Nests(head) ==
  head.kind \in {"tag", "array", "map"} /\ ~(head.kind # "tag" /\ head.n > MaxCollection)

LEMMA SpotIs ==
  ASSUME NEW in, NEW s \in Spots(in), IsItems(in)
  PROVE  /\ s.levels \in -1..(MaxDepth + MaxLen) /\ s.at \in 0..Len(in)
         /\ s.items \in AtValue..(2 * MaxCollection + 1) /\ s.count \in 0..(2 * MaxCollection)
         /\ s.at \in Nat /\ Len(in) \in Nat /\ s.items \in Int /\ s.count \in Nat
         /\ s.levels \in Int /\ MaxCollection \in Nat /\ MaxDepth \in Nat /\ MaxLen \in Nat
         /\ Len(in) <= MaxLen
         /\ s = Spot(s.levels, s.at, s.items, s.count)
<1>1. MaxCollection \in Nat /\ MaxDepth \in Nat /\ MaxLen \in Nat /\ Len(in) \in Nat
      /\ Len(in) <= MaxLen
  BY CursorAssumption DEF IsItems
<1>2. /\ s.levels \in -1..(MaxDepth + MaxLen) /\ s.at \in 0..Len(in)
      /\ s.items \in AtValue..(2 * MaxCollection + 1) /\ s.count \in 0..(2 * MaxCollection)
      /\ s = Spot(s.levels, s.at, s.items, s.count)
  BY DEF Spots, Spot
<1> QED
  BY <1>1, <1>2 DEF AtValue

LEMMA HeadIs ==
  ASSUME NEW in, IsItems(in), NEW p \in 0..Len(in), p # Len(in)
  PROVE  /\ in[p + 1].kind \in HeadKinds
         /\ in[p + 1].n \in Nat \cup {Indefinite}
<1>1. in \in Seq(Heads) /\ p + 1 \in 1..Len(in)
  BY DEF IsItems
<1>2. in[p + 1] \in Heads
  BY <1>1
<1> QED
  BY <1>2, CursorAssumption

LEMMA InsideIs ==
  ASSUME NEW head, head.n \in Nat \cup {Indefinite}, Nests(head)
  PROVE  Inside(head) \in AtValue..(2 * MaxCollection + 1)
<1>1. MaxCollection \in Nat
  BY CursorAssumption
<1>2. CASE head.kind = "tag"
  <2>1. Inside(head) = 1
    BY <1>2 DEF Inside
  <2> QED
    BY <1>1, <2>1 DEF AtValue
<1>3. CASE head.kind # "tag" /\ head.n = Indefinite
  <2>1. Inside(head) = IF head.kind = "map" THEN AtKey ELSE InArray
    BY <1>3 DEF Inside
  <2> QED
    BY <1>1, <2>1 DEF AtValue, AtKey, InArray
<1>4. CASE head.kind # "tag" /\ head.n # Indefinite
  <2>1. head.n \in Nat /\ head.n <= MaxCollection
    BY <1>1, <1>4 DEF Nests
  <2>2. Inside(head) = IF head.kind = "map" THEN 2 * head.n ELSE head.n
    BY <1>4 DEF Inside
  <2> QED
    BY <1>1, <2>1, <2>2 DEF AtValue
<1> QED
  BY <1>2, <1>3, <1>4

LEMMA ChildIs ==
  ASSUME NEW in, IsItems(in), NEW s \in Spots(in), s.at # Len(in), s.levels # -1,
         Nests(in[s.at + 1])
  PROVE  /\ Child(in, s) \in Spots(in) /\ Child(in, s).at = s.at + 1
         /\ Child(in, s).levels = s.levels - 1
         /\ Child(in, s).items = Inside(in[s.at + 1])
<1>1. Inside(in[s.at + 1]) \in AtValue..(2 * MaxCollection + 1)
  BY SpotIs, HeadIs, InsideIs
<1>2. /\ s.levels - 1 \in -1..(MaxDepth + MaxLen) /\ s.at + 1 \in 0..Len(in)
      /\ 0 \in 0..(2 * MaxCollection)
  <2>1. /\ s.levels \in -1..(MaxDepth + MaxLen) /\ s.levels \in Int /\ s.at \in 0..Len(in)
        /\ s.at \in Nat /\ Len(in) \in Nat
        /\ MaxCollection \in Nat /\ MaxDepth \in Nat /\ MaxLen \in Nat
    BY SpotIs
  <2>2. s.levels - 1 \in -1..(MaxDepth + MaxLen)
    BY <2>1
  <2>3. s.at + 1 \in 0..Len(in)
    BY <2>1
  <2>4. 0 \in 0..(2 * MaxCollection)
    BY <2>1
  <2> QED
    BY <2>2, <2>3, <2>4
<1> QED
  BY <1>1, <1>2 DEF Child, Spot, Spots

Full(s) == s.items < 0 /\ s.count >= Limit(s.items)

LEMMA SiblingIs ==
  ASSUME NEW in, IsItems(in), NEW s \in Spots(in), s.items # 0, ~Full(s),
         NEW end \in 0..Len(in)
  PROVE  /\ Sibling(s, end) \in Spots(in) /\ Sibling(s, end).at = end
         /\ Sibling(s, end).levels = s.levels /\ Sibling(s, end).items = Following(s.items)
<1>1. Following(s.items) \in AtValue..(2 * MaxCollection + 1)
  BY SpotIs DEF Following, AtValue, AtKey, InArray
<1>2. (IF s.items < 0 THEN s.count + 1 ELSE 0) \in 0..(2 * MaxCollection)
  <2>1. s.items < 0 => s.count < Limit(s.items)
    BY SpotIs DEF Full, Limit
  <2>2. Limit(s.items) <= 2 * MaxCollection /\ Limit(s.items) \in Nat
    BY SpotIs DEF Limit
  <2> QED
    BY SpotIs, <2>1, <2>2
<1> QED
  BY SpotIs, <1>1, <1>2 DEF Sibling, Spot, Spots

(* The end of the item whose head is here.                                  *)
Item(in, f, s) ==
  IF in[s.at + 1].kind \in {"scalar", "null"} THEN s.at + 1
  ELSE IF Nests(in[s.at + 1]) THEN f[Child(in, s)] ELSE NoEnd

LEMMA WalkIs ==
  ASSUME NEW in, NEW f, IsItems(in), NEW s \in Spots(in)
  PROVE  Walk(in, f, s) =
           IF s.items = 0 THEN s.at
           ELSE IF s.at = Len(in) THEN NoEnd
           ELSE IF in[s.at + 1].kind = "break"
                THEN IF s.items \in {InArray, AtKey} THEN s.at + 1 ELSE NoEnd
           ELSE IF s.levels = -1 \/ Full(s) THEN NoEnd
           ELSE IF Item(in, f, s) = NoEnd THEN NoEnd
           ELSE f[Sibling(s, Item(in, f, s))]
<1>1. CASE s.items = 0 \/ s.at = Len(in)
  BY <1>1 DEF Walk
<1>2. CASE s.items # 0 /\ s.at # Len(in) /\ in[s.at + 1].kind = "break"
  BY <1>2 DEF Walk
<1>3. CASE s.items # 0 /\ s.at # Len(in) /\ in[s.at + 1].kind # "break"
  <2> DEFINE head == in[s.at + 1]
  <2>1. head.kind \in HeadKinds
    BY <1>3, SpotIs, HeadIs
  <2>2. Item(in, f, s) = IF head.kind \in {"scalar", "null"} THEN s.at + 1
                         ELSE IF head.kind # "tag" /\ head.n > MaxCollection THEN NoEnd
                         ELSE f[Spot(s.levels - 1, s.at + 1, Inside(head), 0)]
    BY <1>3, <2>1 DEF Item, Nests, Child, HeadKinds
  <2> QED
    BY <1>3, <2>2 DEF Walk, Full, Sibling
<1> QED
  BY <1>1, <1>2, <1>3

(* Walk looks at walks further on only, and ends behind them.                *)
LEMMA WalkLocal ==
  ASSUME NEW in, NEW f, NEW g, IsItems(in), NEW s \in Spots(in),
         \A t \in Spots(in) : t.at > s.at => f[t] = g[t] /\ f[t] \in Ends(in, t.at)
  PROVE  /\ Walk(in, f, s) = Walk(in, g, s) /\ Walk(in, f, s) \in Ends(in, s.at)
         /\ s.items # 0 => Walk(in, f, s) # s.at
<1>1. /\ s.at \in 0..Len(in) /\ s.at \in Nat /\ Len(in) \in Nat
  BY SpotIs
<1>2. s.at \in Ends(in, s.at) /\ NoEnd \in Ends(in, s.at) /\ NoEnd # s.at
  BY <1>1 DEF Ends, NoEnd
<1>3. CASE s.items = 0 \/ s.at = Len(in)
  BY <1>2, <1>3, WalkIs
<1>4. CASE s.items # 0 /\ s.at # Len(in) /\ in[s.at + 1].kind = "break"
  <2>1. s.at + 1 \in Ends(in, s.at) /\ s.at + 1 # s.at
    BY <1>1, <1>4 DEF Ends
  <2> QED
    BY <1>2, <1>4, <2>1, WalkIs
<1>5. CASE s.items # 0 /\ s.at # Len(in) /\ in[s.at + 1].kind # "break"
           /\ (s.levels = -1 \/ Full(s))
  BY <1>2, <1>5, WalkIs
<1>6. CASE s.items # 0 /\ s.at # Len(in) /\ in[s.at + 1].kind # "break"
           /\ ~(s.levels = -1 \/ Full(s))
  <2>1. Item(in, f, s) = Item(in, g, s) /\ Item(in, f, s) \in Ends(in, s.at + 1)
    <3>1. CASE in[s.at + 1].kind \in {"scalar", "null"}
      <4>1. s.at + 1 \in Ends(in, s.at + 1)
        BY <1>1, <1>6 DEF Ends
      <4> QED
        BY <3>1, <4>1 DEF Item
    <3>2. CASE in[s.at + 1].kind \notin {"scalar", "null"} /\ Nests(in[s.at + 1])
      <4>1. Child(in, s) \in Spots(in) /\ Child(in, s).at = s.at + 1
        BY <1>6, <3>2, ChildIs
      <4>2. Child(in, s).at > s.at
        BY <1>1, <4>1
      <4> QED
        BY <3>2, <4>1, <4>2 DEF Item
    <3>3. CASE in[s.at + 1].kind \notin {"scalar", "null"} /\ ~Nests(in[s.at + 1])
      BY <3>3 DEF Item, Ends
    <3> QED
      BY <3>1, <3>2, <3>3
  <2>2. CASE Item(in, f, s) = NoEnd
    BY <1>2, <1>6, <2>1, <2>2, WalkIs
  <2>3. CASE Item(in, f, s) # NoEnd
    <3> DEFINE end == Item(in, f, s)
    <3>1. end \in (s.at + 1)..Len(in)
      BY <2>1, <2>3 DEF Ends
    <3>2. end \in 0..Len(in) /\ end > s.at
      BY <1>1, <3>1
    <3> HIDE DEF end
    <3>3. Sibling(s, end) \in Spots(in) /\ Sibling(s, end).at = end
      BY <1>6, <3>2, SiblingIs
    <3>4. f[Sibling(s, end)] = g[Sibling(s, end)] /\ f[Sibling(s, end)] \in Ends(in, end)
      BY <3>2, <3>3
    <3>5. Walk(in, f, s) = f[Sibling(s, end)] /\ Walk(in, g, s) = g[Sibling(s, end)]
      BY <1>6, <2>1, <2>3, WalkIs DEF end
    <3>6. f[Sibling(s, end)] \in Ends(in, s.at) /\ f[Sibling(s, end)] # s.at
      BY <1>1, <1>2, <3>2, <3>4 DEF Ends
    <3> QED
      BY <3>4, <3>5, <3>6
  <2> QED
    BY <2>2, <2>3
<1> QED
  BY <1>3, <1>4, <1>5, <1>6

(* g tells of the walks from m on where they end.                           *)
Right(in, g, m) ==
  /\ g = [s \in Spots(in) |-> g[s]]
  /\ \A s \in Spots(in) : s.at >= m => g[s] = Walk(in, g, s)

LEMMA RightEnds ==
  ASSUME NEW in, IsItems(in), NEW m \in Nat, NEW g, Right(in, g, m),
         NEW s \in Spots(in), s.at >= m
  PROVE  g[s] \in Ends(in, s.at) /\ (s.items # 0 => g[s] # s.at)
<1> DEFINE wrong(t) == t.at >= m /\ ~(g[t] \in Ends(in, t.at) /\ (t.items # 0 => g[t] # t.at))
           T == {Len(in) - t.at : t \in {u \in Spots(in) : wrong(u)}}
<1>1. SUFFICES ASSUME T # {} PROVE FALSE
  BY DEF T
<1>2. T \subseteq Nat
  BY SpotIs
<1>3. PICK least \in T : \A k \in T : least <= k
  BY <1>1, <1>2, LeastNat
<1>4. PICK t \in Spots(in) : wrong(t) /\ least = Len(in) - t.at
  BY <1>3
<1>5. ASSUME NEW u \in Spots(in), u.at > t.at PROVE g[u] \in Ends(in, u.at)
  <2>1. u.at >= m /\ t.at \in Nat /\ u.at \in Nat /\ Len(in) \in Nat /\ t.at >= m
    BY <1>4, <1>5, SpotIs
  <2>2. ~(Len(in) - t.at <= Len(in) - u.at)
    BY <1>5, <2>1
  <2>3. Len(in) - u.at \notin T
    BY <1>3, <1>4, <2>2
  <2>4. ~wrong(u)
    BY <2>3
  <2> QED
    BY <2>1, <2>4
<1>6. /\ Walk(in, g, t) \in Ends(in, t.at) /\ (t.items # 0 => Walk(in, g, t) # t.at)
  BY <1>5, WalkLocal
<1>7. g[t] = Walk(in, g, t)
  BY <1>4 DEF Right
<1> QED
  BY <1>4, <1>6, <1>7

LEMMA RightExists ==
  ASSUME NEW in, IsItems(in)
  PROVE  \E g : Right(in, g, 0)
<1> DEFINE T == {m \in Nat : \E g : Right(in, g, m)}
<1>0. Len(in) \in Nat
  BY CursorAssumption DEF IsItems
<1>1. Len(in) + 1 \in T
  <2> DEFINE g == [s \in Spots(in) |-> 0]
  <2>1. \A s \in Spots(in) : ~(s.at >= Len(in) + 1)
    BY SpotIs
  <2>2. Right(in, g, Len(in) + 1)
    BY <2>1 DEF Right
  <2> QED
    BY <1>0, <2>2
<1>2. PICK m \in T : \A k \in T : m <= k
  BY <1>1, LeastNat
<1>3. PICK g : Right(in, g, m)
  BY <1>2
<1>4. CASE m = 0
  BY <1>3, <1>4
<1>5. CASE m # 0
  <2> DEFINE h == [s \in Spots(in) |-> IF s.at = m - 1 THEN Walk(in, g, s) ELSE g[s]]
  <2>1. m - 1 \in Nat /\ m \in Nat
    BY <1>2, <1>5
  <2>2. ASSUME NEW s \in Spots(in), s.at >= m - 1
        PROVE  h[s] = Walk(in, h, s)
    <3>1. ASSUME NEW t \in Spots(in), t.at > s.at
          PROVE  g[t] = h[t] /\ g[t] \in Ends(in, t.at)
      <4>1. t.at >= m /\ t.at # m - 1
        BY <2>1, <2>2, <3>1, SpotIs
      <4>2. g[t] \in Ends(in, t.at)
        BY <1>3, <2>1, <4>1, RightEnds
      <4> QED
        BY <4>1, <4>2
    <3> HIDE DEF h
    <3>2. Walk(in, g, s) = Walk(in, h, s)
      BY <3>1, WalkLocal
    <3>3. h[s] = Walk(in, g, s)
      <4>1. s.at # m - 1 => s.at >= m
        BY <2>1, <2>2, SpotIs
      <4>2. s.at >= m => g[s] = Walk(in, g, s)
        BY <1>3 DEF Right
      <4> QED
        BY <4>1, <4>2 DEF h
    <3> QED
      BY <3>2, <3>3
  <2>3. h = [s \in Spots(in) |-> h[s]]
    OBVIOUS
  <2> HIDE DEF h
  <2>4. Right(in, h, m - 1)
    BY <2>2, <2>3 DEF Right
  <2>5. m - 1 \in T
    BY <2>1, <2>4
  <2> QED
    BY <1>2, <2>1, <2>5
<1> QED
  BY <1>4, <1>5

LEMMA AfterRight ==
  ASSUME NEW in, IsItems(in)
  PROVE  Right(in, After(in), 0)
<1> DEFINE is(g) == g = [s \in Spots(in) |-> Walk(in, g, s)]
<1>1. PICK g : Right(in, g, 0)
  BY RightExists
<1>2. \A s \in Spots(in) : s.at >= 0
  BY SpotIs
<1>3. \A s \in Spots(in) : g[s] = Walk(in, g, s)
  BY <1>1, <1>2 DEF Right
<1>4. is(g)
  BY <1>1, <1>3 DEF Right
<1>5. After(in) = CHOOSE f : is(f)
  BY DEF After
<1> HIDE DEF is
<1>6. is(After(in))
  BY <1>4, <1>5
<1>7. After(in) = [s \in Spots(in) |-> Walk(in, After(in), s)]
  BY <1>6 DEF is
<1> DEFINE a == After(in)
<1>8. a = [s \in Spots(in) |-> Walk(in, a, s)]
  BY <1>7
<1> HIDE DEF a
<1>9. Right(in, a, 0)
  BY <1>8 DEF Right
<1> QED
  BY <1>9 DEF a

LEMMA AfterIs ==
  ASSUME NEW in, IsItems(in), NEW s \in Spots(in)
  PROVE  /\ After(in)[s] = Walk(in, After(in), s)
         /\ After(in)[s] \in Ends(in, s.at)
         /\ s.items # 0 => After(in)[s] # s.at
<1>1. s.at >= 0
  BY SpotIs
<1> QED
  BY <1>1, AfterRight, RightEnds DEF Right

-----------------------------------------------------------------------------
(* Walks with levels enough: a head takes one, so that the number of heads   *)
(* that are left is enough, and more do not matter.                         *)

LEMMA LevelsEnough ==
  ASSUME NEW in, IsItems(in), NEW s \in Spots(in), After(in)[s] # NoEnd,
         NEW t \in Spots(in), t.at = s.at, t.items = s.items, t.count = s.count,
         t.levels >= Len(in) - t.at
  PROVE  After(in)[t] = After(in)[s]
<1> DEFINE a == After(in)
           wrong(u, v) == /\ v.at = u.at /\ v.items = u.items /\ v.count = u.count
                          /\ v.levels >= Len(in) - v.at
                          /\ a[u] # NoEnd /\ a[v] # a[u]
           T == {Len(in) - pair[1].at :
                   pair \in {p \in Spots(in) \X Spots(in) : wrong(p[1], p[2])}}
<1>1. ASSUME T # {} PROVE FALSE
  <2>0. ASSUME NEW pair \in Spots(in) \X Spots(in)
        PROVE  Len(in) - pair[1].at \in Nat
    <3>1. pair[1] \in Spots(in)
      OBVIOUS
    <3> QED
      BY <3>1, SpotIs
  <2>1. T \subseteq Nat
    BY <2>0
  <2>2. PICK least \in T : \A k \in T : least <= k
    BY <1>1, <2>1, LeastNat
  <2>3. PICK pair \in Spots(in) \X Spots(in) :
               wrong(pair[1], pair[2]) /\ least = Len(in) - pair[1].at
    BY <2>2
  <2>4. PICK u \in Spots(in), v \in Spots(in) : wrong(u, v) /\ least = Len(in) - u.at
    BY <2>3
  <2>5. /\ u.at \in 0..Len(in) /\ u.at \in Nat /\ v.at = u.at /\ Len(in) \in Nat
        /\ v.levels \in Int /\ v.levels >= Len(in) - u.at
    BY <2>4, SpotIs
  <2>6. ASSUME NEW x \in Spots(in), NEW y \in Spots(in), wrong(x, y)
        PROVE  ~(x.at > u.at)
    <3>1. <<x, y>> \in Spots(in) \X Spots(in) /\ <<x, y>>[1] = x /\ <<x, y>>[2] = y
      OBVIOUS
    <3>2. Len(in) - x.at \in T
      BY <2>6, <3>1
    <3>3. Len(in) - u.at <= Len(in) - x.at
      BY <2>2, <2>4, <3>2
    <3> QED
      BY <3>3, SpotIs
  <2>7. /\ a[u] = Walk(in, a, u) /\ a[v] = Walk(in, a, v) /\ a[u] # NoEnd
    BY <2>4, AfterIs
  <2> HIDE DEF a
  <2>8. /\ u.items # 0 /\ u.at # Len(in) /\ in[u.at + 1].kind # "break"
        /\ u.levels # -1 /\ ~Full(u) /\ Item(in, a, u) # NoEnd
        /\ a[u] = a[Sibling(u, Item(in, a, u))]
    BY <2>4, <2>7, WalkIs DEF Full
  <2>9. v.items # 0 /\ v.at # Len(in) /\ v.at = u.at /\ ~Full(v) /\ v.levels # -1
    BY <2>4, <2>8, SpotIs DEF Full
  <2>10. Item(in, a, v) = Item(in, a, u)
    <3>1. CASE in[u.at + 1].kind \in {"scalar", "null"}
      BY <2>9, <3>1 DEF Item
    <3>2. CASE in[u.at + 1].kind \notin {"scalar", "null"}
      <4>1. Nests(in[u.at + 1]) /\ a[Child(in, u)] # NoEnd
        BY <2>8, <3>2 DEF Item
      <4>2. /\ Child(in, u) \in Spots(in) /\ Child(in, v) \in Spots(in)
            /\ Child(in, u).at = u.at + 1 /\ Child(in, v).at = v.at + 1
            /\ Child(in, v).levels = v.levels - 1
            /\ Child(in, v).items = Child(in, u).items
        BY <2>8, <2>9, <4>1, ChildIs
      <4>3. Child(in, v).count = Child(in, u).count
        BY DEF Child, Spot
      <4>4. u.at + 1 > u.at /\ v.levels - 1 >= Len(in) - (v.at + 1)
        BY <2>5
      <4>5. ~wrong(Child(in, u), Child(in, v))
        BY <2>6, <4>2, <4>4
      <4>6. a[Child(in, v)] = a[Child(in, u)]
        BY <2>9, <4>1, <4>2, <4>3, <4>4, <4>5
      <4> QED
        BY <2>9, <3>2, <4>1, <4>6 DEF Item
    <3> QED
      BY <3>1, <3>2
  <2> DEFINE end == Item(in, a, u)
  <2>11. end \in (u.at + 1)..Len(in)
    <3>1. CASE in[u.at + 1].kind \in {"scalar", "null"}
      <4>1. end = u.at + 1
        BY <3>1 DEF Item
      <4> QED
        BY <2>8, <2>5, <4>1
    <3>2. CASE in[u.at + 1].kind \notin {"scalar", "null"}
      <4>1. Nests(in[u.at + 1]) /\ end = a[Child(in, u)]
        BY <2>8, <3>2 DEF Item
      <4>2. Child(in, u) \in Spots(in) /\ Child(in, u).at = u.at + 1
        BY <2>8, <4>1, ChildIs
      <4>3. end \in Ends(in, u.at + 1)
        BY <4>1, <4>2, AfterIs DEF a
      <4> QED
        BY <2>8, <4>3 DEF Ends
    <3> QED
      BY <3>1, <3>2
  <2> HIDE DEF end
  <2>12. end \in 0..Len(in) /\ end > u.at
    BY <2>11, <2>5
  <2>13. a[v] = a[Sibling(v, end)]
    <3>1. in[v.at + 1].kind # "break" /\ end # NoEnd
      BY <2>8, <2>9 DEF end
    <3> QED
      BY <2>7, <2>9, <2>10, <3>1, WalkIs DEF end
  <2>14. /\ Sibling(u, end) \in Spots(in) /\ Sibling(v, end) \in Spots(in)
         /\ Sibling(u, end).at = end /\ Sibling(v, end).at = end
         /\ Sibling(v, end).levels = v.levels
         /\ Sibling(v, end).items = Sibling(u, end).items
    BY <2>4, <2>8, <2>9, <2>12, SiblingIs
  <2>15. Sibling(v, end).count = Sibling(u, end).count
    BY <2>4 DEF Sibling, Spot
  <2>16. v.levels >= Len(in) - end
    BY <2>5, <2>12
  <2>17. ~wrong(Sibling(u, end), Sibling(v, end))
    BY <2>6, <2>12, <2>14
  <2>18. a[Sibling(v, end)] = a[Sibling(u, end)]
    BY <2>7, <2>8, <2>14, <2>15, <2>16, <2>17 DEF end
  <2>19. a[v] = a[u]
    BY <2>8, <2>13, <2>18 DEF end
  <2> QED
    BY <2>4, <2>19
<1>2. ~wrong(s, t)
  <2>1. <<s, t>> \in Spots(in) \X Spots(in) /\ <<s, t>>[1] = s /\ <<s, t>>[2] = t
    OBVIOUS
  <2>2. wrong(s, t) => Len(in) - s.at \in T
    BY <2>1
  <2> QED
    BY <1>1, <2>2
<1> QED
  BY <1>2

-----------------------------------------------------------------------------
(* The walks of a value that is visited to its end.                         *)

(* Behind items of which count are walked, from p on, and behind one item.   *)
Rest(in, p, items, count) == After(in)[Spot(MaxLen, p, items, count)]

EndOf(in, p) == Rest(in, p, 1, 0)

IsRest(in, p, items, count) ==
  /\ IsItems(in) /\ p \in 0..Len(in)
  /\ items \in AtValue..(2 * MaxCollection + 1) /\ count \in 0..(2 * MaxCollection)

LEMMA RestSpot ==
  ASSUME NEW in, NEW p, NEW items, NEW count, IsRest(in, p, items, count)
  PROVE  /\ Spot(MaxLen, p, items, count) \in Spots(in)
         /\ Rest(in, p, items, count) \in Ends(in, p)
<1> DEFINE s == Spot(MaxLen, p, items, count)
<1>1. s \in Spots(in) /\ s.at = p
  BY CursorAssumption DEF IsRest, Spot, Spots
<1>2. After(in)[s] \in Ends(in, p)
  BY <1>1, AfterIs DEF IsRest
<1> QED
  BY <1>1, <1>2 DEF Rest

LEMMA RestNone ==
  ASSUME NEW in, NEW p, NEW count, IsRest(in, p, 0, count)
  PROVE  Rest(in, p, 0, count) = p
<1> DEFINE s == Spot(MaxLen, p, 0, count)
<1>1. s \in Spots(in) /\ s.at = p /\ s.items = 0
  BY RestSpot DEF Spot
<1>2. After(in)[s] = Walk(in, After(in), s)
  BY <1>1, AfterIs DEF IsRest
<1> QED
  BY <1>1, <1>2, WalkIs DEF Rest, IsRest

LEMMA RestBreak ==
  ASSUME NEW in, NEW p, NEW items, NEW count, IsRest(in, p, items, count),
         items # 0, p # Len(in) => in[p + 1].kind = "break"
  PROVE  Rest(in, p, items, count) =
           IF p # Len(in) /\ items \in {InArray, AtKey} THEN p + 1 ELSE NoEnd
<1> DEFINE s == Spot(MaxLen, p, items, count)
<1>1. s \in Spots(in) /\ s.at = p /\ s.items = items
  BY RestSpot DEF Spot
<1>2. After(in)[s] = Walk(in, After(in), s)
  BY <1>1, AfterIs DEF IsRest
<1> QED
  BY <1>1, <1>2, WalkIs DEF Rest, IsRest

(* What is left behind an item that ends at q, if it ends.                   *)
Then(in, q, items, count) == IF q = NoEnd THEN NoEnd ELSE Rest(in, q, items, count)

LEMMA RestOfNone ==
  ASSUME NEW in, NEW q, NEW count, IsRest(in, q, 0, count) \/ q = NoEnd
  PROVE  Then(in, q, 0, count) = q
BY RestNone DEF Then

(* Two walks of the same items with levels enough end alike.                 *)
LEMMA EnoughAlike ==
  ASSUME NEW in, IsItems(in), NEW s \in Spots(in), NEW t \in Spots(in),
         t.at = s.at, t.items = s.items, t.count = s.count,
         t.levels >= Len(in) - s.at, s.levels >= Len(in) - s.at
  PROVE  After(in)[t] = After(in)[s]
<1>1. After(in)[s] # NoEnd => After(in)[t] = After(in)[s]
  BY LevelsEnough
<1>2. After(in)[t] # NoEnd => After(in)[s] = After(in)[t]
  BY LevelsEnough
<1> QED
  BY <1>1, <1>2

(* A scalar is an item; a tag and a collection end with what is inside.      *)
LEMMA EndOfItem ==
  ASSUME NEW in, NEW p, IsItems(in), p \in 0..Len(in), p # Len(in)
  PROVE  /\ in[p + 1].kind \in {"scalar", "null"} => EndOf(in, p) = p + 1
         /\ Nests(in[p + 1]) => EndOf(in, p) = Rest(in, p + 1, Inside(in[p + 1]), 0)
<1> DEFINE s == Spot(MaxLen, p, 1, 0)
           a == After(in)
<1>1. IsRest(in, p, 1, 0)
  BY CursorAssumption DEF IsRest, AtValue
<1>2. /\ s \in Spots(in) /\ s.at = p /\ s.items = 1 /\ s.levels = MaxLen /\ s.count = 0
  BY <1>1, RestSpot DEF Spot
<1>3. /\ p \in Nat /\ Len(in) \in Nat /\ MaxLen \in Nat /\ Len(in) <= MaxLen
      /\ MaxCollection \in Nat /\ MaxDepth \in Nat
  BY <1>2, SpotIs
<1>4. ~Full(s) /\ s.levels # -1
  BY <1>2, <1>3 DEF Full
<1> HIDE DEF s
<1>5. in[p + 1].kind # "break" =>
        a[s] = IF Item(in, a, s) = NoEnd THEN NoEnd ELSE a[Sibling(s, Item(in, a, s))]
  <2>1. a[s] = Walk(in, a, s)
    BY <1>2, AfterIs
  <2> HIDE DEF a
  <2> QED
    BY <1>2, <1>4, <2>1, WalkIs
<1>6. ASSUME NEW end \in 0..Len(in)
      PROVE  a[Sibling(s, end)] = end
  <2>1. Sibling(s, end) = Spot(MaxLen, end, 0, 0)
    BY <1>2 DEF Sibling, Following, AtKey, AtValue, InArray
  <2>2. IsRest(in, end, 0, 0)
    BY <1>3 DEF IsRest, AtValue
  <2> QED
    BY <2>1, <2>2, RestNone DEF Rest
<1>7. EndOf(in, p) = a[s]
  BY DEF EndOf, Rest, s
<1>8. ASSUME in[p + 1].kind \in {"scalar", "null"} PROVE EndOf(in, p) = p + 1
  <2>1. Item(in, a, s) = p + 1 /\ p + 1 # NoEnd /\ p + 1 \in 0..Len(in)
    BY <1>2, <1>3, <1>8 DEF Item, NoEnd
  <2> HIDE DEF a
  <2> QED
    BY <1>5, <1>6, <1>7, <1>8, <2>1
<1>9. ASSUME Nests(in[p + 1]) PROVE EndOf(in, p) = Rest(in, p + 1, Inside(in[p + 1]), 0)
  <2> DEFINE n == Inside(in[p + 1])
             r == Spot(MaxLen, p + 1, n, 0)
  <2>1. /\ Child(in, s) \in Spots(in) /\ Child(in, s).at = p + 1
        /\ Child(in, s).levels = MaxLen - 1 /\ Child(in, s).items = n
    BY <1>2, <1>4, <1>9, ChildIs
  <2>2. Child(in, s).count = 0
    BY DEF Child, Spot
  <2>3. IsRest(in, p + 1, n, 0)
    <3>1. n \in AtValue..(2 * MaxCollection + 1)
      BY <1>9, HeadIs, InsideIs
    <3> QED
      BY <1>3, <3>1 DEF IsRest
  <2>4. /\ r \in Spots(in) /\ r.at = p + 1 /\ r.items = n /\ r.count = 0 /\ r.levels = MaxLen
        /\ a[r] \in Ends(in, p + 1)
    <3>1. r \in Spots(in) /\ Rest(in, p + 1, n, 0) \in Ends(in, p + 1)
      BY <2>3, RestSpot
    <3> QED
      BY <3>1 DEF Spot, Rest
  <2> HIDE DEF n, r
  <2>5. MaxLen >= Len(in) - (p + 1) /\ MaxLen - 1 >= Len(in) - (p + 1)
    BY <1>3
  <2>6. a[Child(in, s)] = a[r]
    BY <2>1, <2>2, <2>4, <2>5, EnoughAlike
  <2>7. in[p + 1].kind # "break" /\ in[p + 1].kind \notin {"scalar", "null"}
    BY <1>9 DEF Nests
  <2>8. Item(in, a, s) = a[r]
    BY <1>2, <1>9, <2>6, <2>7 DEF Item
  <2>9. a[r] # NoEnd => a[r] \in 0..Len(in)
    BY <1>3, <2>4 DEF Ends
  <2>10. a[r] = Rest(in, p + 1, Inside(in[p + 1]), 0)
    BY DEF Rest, r, n
  <2> HIDE DEF a
  <2>11. a[s] = a[r]
    BY <1>5, <1>6, <2>7, <2>8, <2>9
  <2> QED
    BY <1>7, <2>10, <2>11
<1> QED
  BY <1>8, <1>9

(* items from p on are one item and the others behind it.                   *)
LEMMA RestItem ==
  ASSUME NEW in, NEW p, NEW items, NEW count, IsRest(in, p, items, count), items # 0,
         ~(items < 0 /\ count >= Limit(items)),
         p # Len(in) => in[p + 1].kind # "break" \/ items \notin {InArray, AtKey}
  PROVE  Rest(in, p, items, count) =
           Then(in, EndOf(in, p), Following(items), IF items < 0 THEN count + 1 ELSE 0)
<1> DEFINE s == Spot(MaxLen, p, items, count)
           t == Spot(MaxLen, p, 1, 0)
           a == After(in)
<1>1. IsRest(in, p, 1, 0) /\ IsItems(in)
  BY CursorAssumption DEF IsRest, AtValue
<1>2. CASE p = Len(in) \/ in[p + 1].kind = "break"
  <2>1. Rest(in, p, items, count) = NoEnd
    BY <1>2, RestBreak
  <2>2. EndOf(in, p) = NoEnd
    BY <1>1, <1>2, RestBreak DEF EndOf, InArray, AtKey
  <2> QED
    BY <2>1, <2>2 DEF Then
<1>3. CASE p # Len(in) /\ in[p + 1].kind # "break"
  <2>1. /\ s \in Spots(in) /\ s.at = p /\ s.items = items /\ s.levels = MaxLen /\ s.count = count
        /\ t \in Spots(in) /\ t.at = p /\ t.items = 1 /\ t.levels = MaxLen /\ t.count = 0
    BY <1>1, RestSpot DEF Spot
  <2>2. MaxLen \in Nat /\ ~Full(s) /\ ~Full(t) /\ MaxLen # -1
    BY <2>1, CursorAssumption DEF Full
  <2>3. a[s] = Walk(in, a, s) /\ a[t] = Walk(in, a, t)
    BY <1>1, <2>1, AfterIs
  <2>4. Sibling(s, EndOf(in, p)) =
          Spot(MaxLen, EndOf(in, p), Following(items), IF items < 0 THEN count + 1 ELSE 0)
    BY <2>1 DEF Sibling
  <2>5. EndOf(in, p) = a[t] /\ Rest(in, p, items, count) = a[s]
    BY DEF EndOf, Rest
  <2>6. Item(in, a, s) = Item(in, a, t)
    BY <2>1 DEF Item, Child
  <2> HIDE DEF s, t, a
  <2>7. /\ a[s] = IF Item(in, a, s) = NoEnd THEN NoEnd ELSE a[Sibling(s, Item(in, a, s))]
        /\ a[t] = IF Item(in, a, s) = NoEnd THEN NoEnd ELSE a[Sibling(t, Item(in, a, s))]
    BY <1>1, <1>3, <2>1, <2>2, <2>3, <2>6, WalkIs
  <2>8. Item(in, a, s) # NoEnd => a[t] = Item(in, a, s)
    <3>1. CASE in[p + 1].kind \in {"scalar", "null"}
      BY <1>1, <1>3, <2>1, <2>5, <3>1, EndOfItem DEF Item, IsRest
    <3>2. CASE in[p + 1].kind \notin {"scalar", "null"} /\ Item(in, a, s) # NoEnd
      <4>1. Nests(in[p + 1]) /\ Item(in, a, s) = a[Child(in, s)]
        BY <2>1, <3>2 DEF Item
      <4>2. Child(in, s) \in Spots(in) /\ Child(in, s).at = p + 1
        BY <1>1, <1>3, <2>1, <2>2, <4>1, ChildIs
      <4>3. Item(in, a, s) \in Ends(in, p + 1)
        BY <1>1, <4>1, <4>2, AfterIs DEF a
      <4>4. Item(in, a, s) \in 0..Len(in)
        BY <2>1, <3>2, <4>3, SpotIs, <1>1 DEF Ends
      <4>5. Sibling(t, Item(in, a, s)) = Spot(MaxLen, Item(in, a, s), 0, 0)
        BY <2>1 DEF Sibling, Following, AtKey, AtValue, InArray
      <4>6. IsRest(in, Item(in, a, s), 0, 0)
        BY <1>1, <4>4, CursorAssumption DEF IsRest, AtValue
      <4>7. a[Spot(MaxLen, Item(in, a, s), 0, 0)] = Item(in, a, s)
        BY <4>6, RestNone DEF Rest, a
      <4> QED
        BY <2>7, <3>2, <4>5, <4>7
    <3> QED
      BY <3>1, <3>2
  <2>9. CASE Item(in, a, s) = NoEnd
    BY <2>5, <2>7, <2>9 DEF Then
  <2>10. CASE Item(in, a, s) # NoEnd
    <3>1. EndOf(in, p) = Item(in, a, s)
      BY <2>5, <2>8, <2>10
    <3>2. a[s] = a[Sibling(s, EndOf(in, p))]
      BY <2>7, <2>10, <3>1
    <3> QED
      BY <2>4, <2>5, <2>10, <3>1, <3>2 DEF Then, Rest, a
  <2> QED
    BY <2>9, <2>10
<1> QED
  BY <1>2, <1>3

-----------------------------------------------------------------------------
(* What the open frames are waiting for.  Behind the value that is asked for *)
(* or given, each frame still has Left items, and Given say how many of an   *)
(* open collection have been walked; behind those its own item ends.         *)

Left(frame) ==
  IF frame.kind = "tag" THEN 0
  ELSE IF frame.kind = "variant" THEN IF frame.remaining = Indefinite THEN AtKey ELSE 0
  ELSE IF frame.kind = "array"
       THEN IF frame.remaining = Indefinite THEN InArray ELSE frame.remaining
  ELSE IF frame.remaining = Indefinite THEN IF frame.value THEN AtValue ELSE AtKey
  ELSE 2 * frame.remaining + (IF frame.value THEN 1 ELSE 0)

Given(frame) ==
  IF frame.kind = "tag" \/ frame.remaining # Indefinite THEN 0
  ELSE IF frame.kind = "variant" THEN 2
  ELSE IF frame.kind = "array" THEN frame.seen
  ELSE 2 * frame.seen - (IF frame.value THEN 1 ELSE 0)

(* Where the item of a frame ends if the one it waits for ends at q.         *)
On(in, frame, q) == Then(in, q, Left(frame), Given(frame))

Ending(in) == [frame \in FrameRecord |-> [q \in Int |-> On(in, frame, q)]]

LEMMA EndingIs ==
  ASSUME NEW in, NEW frame \in FrameRecord, NEW q \in Int
  PROVE  Ending(in)[frame][q] = On(in, frame, q)
BY DEF Ending

(* f, which takes the value behind a frame to the one in front of it, goes    *)
(* from x behind the innermost frame of s to a in front of the outermost.     *)
Links(f, a, s, x, e) ==
  /\ e \in [0..Len(s) -> Int]
  /\ e[0] = a /\ e[Len(s)] = x
  /\ \A i \in 1..Len(s) : e[i - 1] = f[s[i]][e[i]]

Chained(f, a, s, x) == \E e : Links(f, a, s, x, e)

LEMMA PopIs ==
  ASSUME NEW s \in Seq(FrameRecord), s # <<>>
  PROVE  /\ Len(s) \in Nat \ {0} /\ SubSeq(s, 1, Len(s) - 1) \in Seq(FrameRecord)
         /\ Len(SubSeq(s, 1, Len(s) - 1)) = Len(s) - 1
         /\ \A i \in 1..(Len(s) - 1) : SubSeq(s, 1, Len(s) - 1)[i] = s[i]
<1> DEFINE r == SubSeq(s, 1, Len(s) - 1)
<1>1. Len(s) \in Nat \ {0} /\ s[Len(s)] \in FrameRecord
  OBVIOUS
<1>2. r \in Seq(FrameRecord) /\ Len(r) = Len(s) - 1
  BY <1>1
<1>3. \A i \in 1..Len(r) : r[i] = s[i]
  BY <1>1, <1>2
<1> QED
  BY <1>1, <1>2, <1>3

LEMMA ChainEmpty ==
  ASSUME NEW f, NEW a \in Int, NEW x
  PROVE  Chained(f, a, <<>>, x) <=> a = x
<1>1. ASSUME a = x PROVE Chained(f, a, <<>>, x)
  <2> DEFINE e == [i \in 0..0 |-> a]
  <2>1. Links(f, a, <<>>, x, e)
    BY <1>1 DEF Links
  <2> QED
    BY <2>1 DEF Chained
<1>2. ASSUME Chained(f, a, <<>>, x) PROVE a = x
  BY <1>2 DEF Chained, Links
<1> QED
  BY <1>1, <1>2

LEMMA ChainPush ==
  ASSUME NEW f, NEW a, NEW s \in Seq(FrameRecord), NEW y, Chained(f, a, s, y),
         NEW frame \in FrameRecord, NEW x \in Int, y = f[frame][x]
  PROVE  Chained(f, a, Append(s, frame), x)
<1> DEFINE t == Append(s, frame)
           n == Len(s)
<1>1. PICK e : Links(f, a, s, y, e)
  BY DEF Chained
<1>2. /\ n \in Nat /\ Len(t) = n + 1 /\ t[n + 1] = frame
      /\ \A i \in 1..n : t[i] = s[i]
  OBVIOUS
<1> DEFINE d == [i \in 0..(n + 1) |-> IF i = n + 1 THEN x ELSE e[i]]
<1>3. /\ e \in [0..n -> Int] /\ e[0] = a /\ e[n] = y
      /\ \A i \in 1..n : e[i - 1] = f[s[i]][e[i]]
  BY <1>1 DEF Links
<1> HIDE DEF t, n
<1>4. d \in [0..(n + 1) -> Int] /\ d[n + 1] = x /\ d[0] = a /\ d[n] = y
  BY <1>2, <1>3
<1>5. ASSUME NEW i \in 1..(n + 1) PROVE d[i - 1] = f[t[i]][d[i]]
  <2>1. CASE i = n + 1
    BY <1>2, <1>4, <2>1
  <2>2. CASE i # n + 1
    <3>1. i \in 1..n /\ i - 1 \in 0..n /\ i \in 0..(n + 1) /\ i - 1 # n + 1
      BY <1>2, <2>2
    <3>2. d[i] = e[i] /\ d[i - 1] = e[i - 1] /\ t[i] = s[i]
      BY <1>2, <2>2, <3>1
    <3> HIDE DEF d
    <3> QED
      BY <1>3, <3>1, <3>2
  <2> QED
    BY <2>1, <2>2
<1> HIDE DEF d
<1>6. Links(f, a, t, x, d)
  BY <1>2, <1>4, <1>5 DEF Links
<1> QED
  BY <1>6 DEF Chained, t

LEMMA ChainPop ==
  ASSUME NEW f, NEW a, NEW s \in Seq(FrameRecord), s # <<>>, NEW x, Chained(f, a, s, x)
  PROVE  /\ Chained(f, a, SubSeq(s, 1, Len(s) - 1), f[s[Len(s)]][x])
         /\ x \in Int
<1> DEFINE r == SubSeq(s, 1, Len(s) - 1)
           n == Len(s)
<1>1. PICK e : Links(f, a, s, x, e)
  BY DEF Chained
<1>2. /\ n \in Nat \ {0} /\ Len(r) = n - 1
      /\ \A i \in 1..(n - 1) : r[i] = s[i]
  BY PopIs
<1>3. /\ e \in [0..n -> Int] /\ e[0] = a /\ e[n] = x
      /\ \A i \in 1..n : e[i - 1] = f[s[i]][e[i]]
  BY <1>1 DEF Links
<1> DEFINE d == [i \in 0..(n - 1) |-> e[i]]
<1> HIDE DEF r, n
<1>4. d \in [0..(n - 1) -> Int] /\ d[0] = a
  BY <1>2, <1>3
<1>5. d[n - 1] = f[s[n]][x]
  <2>1. n \in 1..n /\ n - 1 \in 0..(n - 1)
    BY <1>2
  <2> QED
    BY <1>3, <2>1
<1>6. ASSUME NEW i \in 1..(n - 1) PROVE d[i - 1] = f[r[i]][d[i]]
  <2>1. i \in 1..n /\ i - 1 \in 0..(n - 1) /\ i \in 0..(n - 1)
    BY <1>2
  <2>2. d[i] = e[i] /\ d[i - 1] = e[i - 1] /\ r[i] = s[i]
    BY <1>2, <2>1
  <2> HIDE DEF d
  <2> QED
    BY <1>3, <2>1, <2>2
<1> HIDE DEF d
<1>7. Links(f, a, r, f[s[n]][x], d)
  BY <1>2, <1>4, <1>5, <1>6 DEF Links
<1>8. x \in Int
  <2>1. n \in 0..n
    BY <1>2
  <2> QED
    BY <1>3, <2>1
<1> QED
  BY <1>7, <1>8 DEF Chained, r, n

(* The innermost frame goes on to another item.                              *)
LEMMA ChainTop ==
  ASSUME NEW f, NEW a, NEW s \in Seq(FrameRecord), s # <<>>, NEW x, Chained(f, a, s, x),
         NEW frame \in FrameRecord, NEW z \in Int, f[frame][z] = f[s[Len(s)]][x]
  PROVE  Chained(f, a, [s EXCEPT ![Len(s)] = frame], z)
<1> DEFINE r == SubSeq(s, 1, Len(s) - 1)
<1>1. r \in Seq(FrameRecord) /\ Chained(f, a, r, f[frame][z])
  BY ChainPop, EnteredPop
<1>2. Append(r, frame) = [s EXCEPT ![Len(s)] = frame]
  <2>1. /\ Len(s) \in Nat \ {0} /\ Len(r) = Len(s) - 1
        /\ \A i \in 1..(Len(s) - 1) : r[i] = s[i]
    BY PopIs
  <2> QED
    BY <1>1, <2>1
<1>3. Chained(f, a, Append(r, frame), z)
  BY <1>1, ChainPush
<1> QED
  BY <1>2, <1>3

-----------------------------------------------------------------------------
(* Only a map waits for a value, and behind a key.                           *)
Fitting(frame) == frame.value => frame.kind = "map" /\ frame.seen >= 1

FramesFit(s) == \A i \in DOMAIN s : Fitting(s[i])

LEMMA FitAppend ==
  ASSUME NEW s \in Seq(FrameRecord), FramesFit(s), NEW frame \in FrameRecord, Fitting(frame)
  PROVE  FramesFit(Append(s, frame))
<1> DEFINE t == Append(s, frame)
<1>1. /\ DOMAIN t = 1..(Len(s) + 1) /\ Len(s) \in Nat /\ DOMAIN s = 1..Len(s)
      /\ \A i \in 1..(Len(s) + 1) : t[i] = IF i = Len(s) + 1 THEN frame ELSE s[i]
  OBVIOUS
<1> QED
  BY <1>1 DEF FramesFit

LEMMA FitPop ==
  ASSUME NEW s \in Seq(FrameRecord), s # <<>>, FramesFit(s)
  PROVE  FramesFit(SubSeq(s, 1, Len(s) - 1)) /\ Fitting(s[Len(s)])
<1> DEFINE r == SubSeq(s, 1, Len(s) - 1)
<1>1. Len(s) \in Nat \ {0} /\ DOMAIN s = 1..Len(s)
  OBVIOUS
<1>2. DOMAIN r = 1..(Len(s) - 1) /\ \A i \in 1..(Len(s) - 1) : r[i] = s[i]
  BY <1>1
<1> QED
  BY <1>1, <1>2 DEF FramesFit

LEMMA FitTop ==
  ASSUME NEW s \in Seq(FrameRecord), s # <<>>, FramesFit(s),
         NEW frame \in FrameRecord, Fitting(frame)
  PROVE  FramesFit([s EXCEPT ![Len(s)] = frame])
<1> DEFINE t == [s EXCEPT ![Len(s)] = frame]
<1>1. /\ DOMAIN t = DOMAIN s /\ Len(s) \in DOMAIN s
      /\ \A i \in DOMAIN s : t[i] = IF i = Len(s) THEN frame ELSE s[i]
  OBVIOUS
<1> QED
  BY <1>1 DEF FramesFit

(* What a frame waits for is within the domain of the walks.                 *)
LEMMA LeftIs ==
  ASSUME MaxCollection > 0, NEW in, IsItems(in), NEW p \in 0..Len(in),
         NEW frame \in FrameRecord, FrameBounded(frame), Fitting(frame)
  PROVE  /\ IsRest(in, p, Left(frame), Given(frame))
         /\ On(in, frame, p) = Rest(in, p, Left(frame), Given(frame))
<1>1. /\ frame.kind \in {"array", "map", "tag", "variant"} /\ frame.seen \in Nat
      /\ frame.remaining \in Nat \cup {Indefinite} /\ frame.value \in BOOLEAN
  BY DEF FrameRecord, Collections
<1>2. MaxCollection \in Nat
  BY CursorAssumption
<1>3. frame.kind \in {"array", "map"} => Most(frame) <= MaxCollection
  BY DEF FrameBounded, Collections
<1>4. /\ Left(frame) \in AtValue..(2 * MaxCollection + 1)
      /\ Given(frame) \in 0..(2 * MaxCollection)
  <2>1. CASE frame.kind \in {"tag", "variant"}
    BY <1>1, <1>2, <2>1 DEF Left, Given, AtValue, AtKey
  <2>2. CASE frame.kind = "array" /\ frame.remaining = Indefinite
    BY <1>1, <1>2, <1>3, <2>2 DEF Left, Given, AtValue, InArray, Most
  <2>3. CASE frame.kind = "array" /\ frame.remaining # Indefinite
    BY <1>1, <1>2, <1>3, <2>3 DEF Left, Given, AtValue, InArray, Most
  <2>4. CASE frame.kind = "map" /\ frame.remaining = Indefinite
    <3>1. frame.seen <= MaxCollection
      BY <1>1, <1>3, <2>4 DEF Most
    <3>2. CASE frame.value
      <4>1. Left(frame) = AtValue /\ Given(frame) = 2 * frame.seen - 1 /\ frame.seen >= 1
        BY <2>4, <3>2 DEF Left, Given, Fitting
      <4> QED
        BY <1>1, <1>2, <3>1, <4>1 DEF AtValue
    <3>3. CASE ~frame.value
      <4>1. Left(frame) = AtKey /\ Given(frame) = 2 * frame.seen
        BY <1>1, <2>4, <3>3 DEF Left, Given
      <4> QED
        BY <1>1, <1>2, <3>1, <4>1 DEF AtValue, AtKey
    <3> QED
      BY <3>2, <3>3
  <2>5. CASE frame.kind = "map" /\ frame.remaining # Indefinite
    <3>1. frame.remaining \in Nat /\ frame.remaining <= MaxCollection
      BY <1>1, <1>2, <1>3, <2>5 DEF Most
    <3>2. Left(frame) \in {2 * frame.remaining, 2 * frame.remaining + 1} /\ Given(frame) = 0
      BY <2>5, <3>1 DEF Left, Given
    <3> QED
      BY <1>2, <3>1, <3>2 DEF AtValue
  <2> QED
    BY <1>1, <2>1, <2>2, <2>3, <2>4, <2>5
<1>5. p # NoEnd
  BY DEF NoEnd
<1> QED
  BY <1>4, <1>5 DEF IsRest, On, Then

(* The invariant: while nothing was left behind, the item at which the call  *)
(* began ends where the open frames, one in another, will end.               *)
Ahead == IF phase = "value" THEN EndOf(input, pos) ELSE pos

ItemsAwaited ==
  /\ FramesFit(stack)
  /\ whole /\ phase \in {"value", "access"} =>
       Chained(Ending(input), EndOf(input, first), stack, Ahead)
  /\ WholeItem

LEMMA WaitFacts ==
  ASSUME IInv
  PROVE  /\ IsItems(input) /\ pos \in Nat /\ EndOf(input, pos) \in Int
         /\ EndOf(input, first) \in Int /\ first \in 0..Len(input)
<1>1. input \in Seq(Heads) /\ Len(input) <= MaxLen
  <2>1. PICK n \in 0..MaxLen : input \in [1..n -> Heads]
    BY DEF IInv, TypeOK, Inputs
  <2> QED
    BY <2>1, CursorAssumption
<1>2. IsItems(input)
  BY <1>1 DEF IsItems
<1>3. ASSUME NEW p \in 0..Len(input) PROVE EndOf(input, p) \in Int
  <2>1. IsRest(input, p, 1, 0)
    BY <1>2, CursorAssumption DEF IsRest, AtValue
  <2>2. EndOf(input, p) \in Ends(input, p)
    BY <2>1, RestSpot DEF EndOf
  <2> QED
    BY <2>2 DEF Ends, NoEnd
<1> QED
  BY <1>2, <1>3, Facts DEF IInv, TypeOK

(* After an error nothing is awaited.                                        *)
LEMMA FailAwaits ==
  ASSUME ItemsAwaited, NEW kind, NEW p, Fail(kind, p)
  PROVE  ItemsAwaited'
<1>1. stack' = stack /\ phase' \notin {"value", "access"} /\ outcome'.tag = "error"
  BY DEF Fail, Error
<1>2. FramesFit(stack')
  BY <1>1 DEF ItemsAwaited
<1> QED
  BY <1>1, <1>2 DEF ItemsAwaited, WholeItem

LEMMA ErrorReturnsAwaits ==
  ASSUME IInv, ItemsAwaited, ErrorReturns
  PROVE  ItemsAwaited'
<1>1. /\ stack # <<>> /\ stack' = Pop /\ phase' \notin {"value", "access"}
      /\ outcome'.tag = "error"
  BY DEF ErrorReturns, IInv
<1>2. FramesFit(stack')
  BY <1>1, Facts, FitPop DEF ItemsAwaited, Pop
<1> QED
  BY <1>1, <1>2 DEF ItemsAwaited, WholeItem

LEMMA GiveAwaits ==
  ASSUME IInv, ItemsAwaited, NEW rest, FramesFit(rest), NEW p, Give(rest, p),
         UNCHANGED <<input, first>>,
         whole' => Chained(Ending(input), EndOf(input, first), rest, p)
  PROVE  ItemsAwaited'
<1>1. stack' = rest /\ pos' = p /\ input' = input /\ first' = first
  BY DEF Give
<1>2. CASE rest = <<>>
  <2>1. phase' = "idle" /\ outcome' = Ok(first, p)
    BY <1>2 DEF Give
  <2>2. whole' => EndOf(input, first) = p
    BY <1>2, ChainEmpty, WaitFacts
  <2>3. outcome'.from = first /\ outcome'.to = p
    BY <2>1 DEF Ok
  <2>4. WholeItem'
    BY <1>1, <2>1, <2>2, <2>3 DEF WholeItem, ItemEnd, EndOf, Rest
  <2> QED
    BY <1>1, <2>1, <2>4 DEF ItemsAwaited
<1>3. CASE rest # <<>>
  <2>1. phase' = "access"
    BY <1>3 DEF Give
  <2> QED
    BY <1>1, <2>1 DEF ItemsAwaited, WholeItem, Ahead
<1> QED
  BY <1>2, <1>3

LEMMA MoveAwaits ==
  ASSUME ItemsAwaited, NEW frames, FramesFit(frames), stack' = frames,
         phase' \in {"value", "access"}, UNCHANGED <<input, first, outcome, whole>>,
         whole => Chained(Ending(input), EndOf(input, first), frames,
                          IF phase' = "value" THEN EndOf(input, pos') ELSE pos')
  PROVE  ItemsAwaited'
BY DEF ItemsAwaited, WholeItem, Ahead

-----------------------------------------------------------------------------
(* A value that is a whole item goes to the frames as they are.              *)
LEMMA GivenAwaits ==
  ASSUME IInv, ItemsAwaited, phase = "value", NEW p, EndOf(input, pos) = p, Give(stack, p),
         UNCHANGED <<input, first, whole>>
  PROVE  ItemsAwaited'
<1>1. FramesFit(stack)
  BY DEF ItemsAwaited
<1>2. whole' => Chained(Ending(input), EndOf(input, first), stack, p)
  BY DEF ItemsAwaited, Ahead
<1> QED
  BY <1>1, <1>2, GiveAwaits

LEMMA ScalarAwaits ==
  ASSUME IInv, ItemsAwaited, Scalar \/ OptionNone \/ EnumName
  PROVE  ItemsAwaited'
<1>1. /\ phase = "value" /\ At({"scalar", "null"}) /\ Give(stack, pos + 1)
      /\ UNCHANGED <<input, first, whole>>
  BY DEF Scalar, OptionNone, EnumName, Asked, At
<1>2. EndOf(input, pos) = pos + 1
  BY <1>1, WaitFacts, Facts, EndOfItem DEF At, AtEnd, Here
<1> QED
  BY <1>1, <1>2, GivenAwaits

LEMMA TagEnds ==
  ASSUME IInv, At({"tag"})
  PROVE  EndOf(input, pos) = EndOf(input, pos + 1) /\ pos + 1 \in 0..Len(input)
<1>1. Nests(Here) /\ Inside(Here) = 1
  BY DEF At, Nests, Inside
<1>2. pos + 1 \in 0..Len(input)
  BY Facts DEF At, AtEnd
<1> QED
  BY <1>1, <1>2, WaitFacts, Facts, EndOfItem DEF At, AtEnd, Here, EndOf

LEMMA DirectAwaits ==
  ASSUME IInv, ItemsAwaited, Direct
  PROVE  ItemsAwaited'
<1>1. phase = "value" /\ UNCHANGED <<input, first, whole>>
  BY DEF Direct, Asked
<1>2. CASE At({"scalar"}) /\ Give(stack, pos + 1)
  <2>1. EndOf(input, pos) = pos + 1
    BY <1>2, WaitFacts, Facts, EndOfItem DEF At, AtEnd, Here
  <2> QED
    BY <1>1, <1>2, <2>1, GivenAwaits
<1>3. CASE /\ At({"tag"}) /\ pos + 1 < Len(input) /\ input[pos + 2].kind = "scalar"
           /\ Give(stack, pos + 2)
  <2>1. EndOf(input, pos) = EndOf(input, pos + 1) /\ pos + 1 \in 0..Len(input)
    BY <1>3, TagEnds
  <2>2. (pos + 1) + 1 = pos + 2 /\ pos + 1 # Len(input)
    BY <1>3, Facts, WaitFacts
  <2>3. EndOf(input, pos + 1) = pos + 2
    BY <1>3, <2>1, <2>2, WaitFacts, EndOfItem
  <2> QED
    BY <1>1, <1>3, <2>1, <2>3, GivenAwaits
<1> QED
  BY <1>2, <1>3 DEF Direct

(* skip refuses what is too deep; where it does not, the depth tells nothing. *)
LEMMA IgnoredAwaits ==
  ASSUME IInv, ItemsAwaited, Ignored
  PROVE  ItemsAwaited'
<1>1. phase = "value" /\ UNCHANGED <<input, first, whole>>
  BY DEF Ignored, Asked
<1>2. PICK p \in pos..Len(input) : p = ItemEnd(pos, MaxDepth) /\ Give(stack, p)
  BY DEF Ignored
<1> DEFINE s == Spot(MaxDepth, pos, 1, 0)
           t == Spot(MaxLen, pos, 1, 0)
<1>3. IsRest(input, pos, 1, 0)
  BY WaitFacts, Facts, CursorAssumption DEF IsRest, AtValue
<1>4. /\ t \in Spots(input) /\ t.at = pos /\ t.items = 1 /\ t.count = 0 /\ t.levels = MaxLen
  BY <1>3, RestSpot DEF Spot
<1>5. /\ s \in Spots(input) /\ s.at = pos /\ s.items = 1 /\ s.count = 0
  BY <1>3, CursorAssumption DEF IsRest, Spot, Spots
<1>6. After(input)[s] = p /\ p # NoEnd
  BY <1>2, Facts, WaitFacts DEF ItemEnd, NoEnd
<1>7. MaxLen >= Len(input) - pos
  BY WaitFacts, Facts, CursorAssumption DEF IsItems
<1> HIDE DEF s, t
<1>8. After(input)[t] = After(input)[s]
  BY <1>4, <1>5, <1>6, <1>7, WaitFacts, LevelsEnough
<1>9. EndOf(input, pos) = p
  BY <1>6, <1>8 DEF EndOf, Rest, t
<1> QED
  BY <1>1, <1>2, <1>9, GivenAwaits

LEMMA OptionAwaits ==
  ASSUME ItemsAwaited, OptionSome
  PROVE  ItemsAwaited'
BY DEF OptionSome, ItemsAwaited, WholeItem, Ahead, Asked

LEMMA CallAwaits ==
  ASSUME IInv, NEW t \in Types, Call(t)
  PROVE  ItemsAwaited'
<1>1. /\ phase' = "value" /\ first' = pos /\ pos' = pos /\ input' = input /\ stack' = <<>>
  BY DEF Call, IInv
<1>2. Chained(Ending(input), EndOf(input, pos), <<>>, EndOf(input, pos))
  BY WaitFacts, ChainEmpty
<1>3. FramesFit(<<>>)
  BY DEF FramesFit
<1> QED
  BY <1>1, <1>2, <1>3 DEF ItemsAwaited, WholeItem, Ahead

LEMMA TagAwaits ==
  ASSUME IInv, ItemsAwaited, Tag
  PROVE  ItemsAwaited'
<1> DEFINE frame == Frame("tag", 1, type)
<1>1. frame \in FrameRecord /\ Fitting(frame) /\ Left(frame) = 0 /\ Given(frame) = 0
  BY Facts DEF Frame, FrameRecord, Fitting, Left, Given
<1>2. /\ phase = "value" /\ phase' = "value" /\ pos' = pos + 1
      /\ stack' = Append(stack, frame) /\ UNCHANGED <<input, first, outcome, whole>>
      /\ At({"tag"})
  BY DEF Tag, Asked
<1>3. EndOf(input, pos) = EndOf(input, pos + 1) /\ pos + 1 \in 0..Len(input)
  BY <1>2, TagEnds
<1> DEFINE end == EndOf(input, pos + 1)
<1> HIDE DEF frame
<1>4. On(input, frame, end) = end /\ end \in Int
  <2>1. end \in Ends(input, pos + 1)
    <3>1. IsRest(input, pos + 1, 1, 0)
      BY <1>3, WaitFacts, CursorAssumption DEF IsRest, AtValue
    <3> QED
      BY <3>1, RestSpot DEF EndOf
  <2>2. end # NoEnd => IsRest(input, end, 0, 0)
    <3>1. end # NoEnd => end \in 0..Len(input)
      BY <1>3, <2>1, WaitFacts, Facts DEF Ends
    <3> QED
      BY <3>1, WaitFacts, CursorAssumption DEF IsRest, AtValue
  <2> HIDE DEF end
  <2> QED
    BY <1>1, <2>1, <2>2, RestOfNone, Facts, <1>3 DEF On, Ends, NoEnd
<1>5. whole => Chained(Ending(input), EndOf(input, first), stack, end)
  BY <1>2, <1>3 DEF ItemsAwaited, Ahead
<1> HIDE DEF end
<1>6. whole => Chained(Ending(input), EndOf(input, first), Append(stack, frame), end)
  BY <1>1, <1>4, <1>5, Facts, ChainPush, EndingIs
<1>7. FramesFit(Append(stack, frame))
  BY <1>1, Facts, FitAppend DEF ItemsAwaited
<1> QED
  BY <1>2, <1>6, <1>7, MoveAwaits DEF end

LEMMA CollectionAwaits ==
  ASSUME IInv, ItemsAwaited, MaxCollection > 0, Collection
  PROVE  ItemsAwaited'
<1>1. CASE \E kind \in {"limit", "depth", "message"} : Fail(kind, pos + 1)
  BY <1>1, FailAwaits
<1>2. CASE ~ \E kind \in {"limit", "depth", "message"} : Fail(kind, pos + 1)
  <2> DEFINE frame == Frame(Here.kind, Here.n, type)
  <2>1. /\ ~(Here.n > MaxCollection) /\ stack' = Append(stack, frame) /\ pos' = pos + 1
        /\ phase = "value" /\ phase' = "access" /\ UNCHANGED <<input, first, outcome, whole>>
        /\ Here.kind \in Collections /\ ~AtEnd
    BY <1>2 DEF Collection, Asked, At
  <2>2. Here.n \in Nat \cup {Indefinite} /\ pos + 1 \in 0..Len(input)
    BY <2>1, HereIsHead DEF IInv
  <2>3. frame \in FrameRecord /\ Fitting(frame)
    BY <2>1, <2>2, Facts DEF Frame, FrameRecord, Fitting
  <2>4. FrameBounded(frame)
    BY <2>1, <2>2, Facts DEF Frame, FrameBounded, Most, Indefinite
  <2>5. Left(frame) = Inside(Here) /\ Given(frame) = 0
    <3>1. /\ frame.kind = Here.kind /\ frame.remaining = Here.n /\ frame.seen = 0
          /\ ~frame.value /\ Here.kind \in {"array", "map"}
      BY <2>1 DEF Frame, Collections
    <3> HIDE DEF frame
    <3>2. Left(frame) = Inside(Here)
      BY <2>2, <3>1 DEF Left, Inside
    <3>3. Given(frame) = 0
      <4>1. (IF frame.value THEN 1 ELSE 0) = 0 /\ 2 * 0 - 0 = 0
        BY <3>1
      <4> QED
        BY <3>1, <4>1 DEF Given
    <3> QED
      BY <3>2, <3>3
  <2>6. Nests(Here)
    BY <2>1 DEF Nests, Collections
  <2> HIDE DEF frame
  <2>7. EndOf(input, pos) = Rest(input, pos + 1, Inside(Here), 0)
    BY <2>1, <2>6, Facts, WaitFacts, EndOfItem DEF AtEnd, Here
  <2>8. On(input, frame, pos + 1) = EndOf(input, pos)
    BY <2>2, <2>3, <2>4, <2>5, <2>7, WaitFacts, LeftIs
  <2>9. whole => Chained(Ending(input), EndOf(input, first), stack, EndOf(input, pos))
    BY <2>1 DEF ItemsAwaited, Ahead
  <2>10. whole => Chained(Ending(input), EndOf(input, first), Append(stack, frame), pos + 1)
    BY <2>2, <2>3, <2>8, <2>9, Facts, ChainPush, EndingIs
  <2>11. FramesFit(Append(stack, frame))
    BY <2>3, Facts, FitAppend DEF ItemsAwaited
  <2> QED
    BY <2>1, <2>10, <2>11, MoveAwaits
<1> QED
  BY <1>1, <1>2

(* The name of the variant is the key of its map.                            *)
LEMMA EnumAwaits ==
  ASSUME IInv, ItemsAwaited, MaxCollection > 0, EnumContent
  PROVE  ItemsAwaited'
<1> DEFINE frame == Frame("variant", Here.n, type)
           end == EndOf(input, pos + 2)
<1>1. /\ phase = "value" /\ phase' = "value" /\ pos' = pos + 2
      /\ stack' = Append(stack, frame) /\ UNCHANGED <<input, first, outcome, whole>>
      /\ ~AtEnd /\ Here.kind = "map" /\ Here.n \in {1, Indefinite}
      /\ pos + 1 < Len(input) /\ input[pos + 2].kind = "scalar"
  BY DEF EnumContent, EnumMap, At, Asked
<1>2. /\ pos \in 0..Len(input) /\ pos # Len(input) /\ pos + 1 \in 0..Len(input)
      /\ pos + 1 # Len(input) /\ pos + 2 \in 0..Len(input) /\ (pos + 1) + 1 = pos + 2
      /\ MaxCollection \in Nat /\ pos \in Nat /\ Len(input) \in Nat
  BY <1>1, Facts, WaitFacts DEF AtEnd
<1>3. frame \in FrameRecord /\ Fitting(frame) /\ FrameBounded(frame)
  BY <1>1, Facts DEF Frame, FrameRecord, FrameBounded, Fitting, Collections
<1>4. /\ Left(frame) = IF Here.n = Indefinite THEN AtKey ELSE 0
      /\ Given(frame) = IF Here.n = Indefinite THEN 2 ELSE 0
  BY <1>1 DEF Frame, Left, Given
<1> HIDE DEF frame
<1>5. EndOf(input, pos + 1) = pos + 2
  BY <1>1, <1>2, WaitFacts, EndOfItem
<1>6. EndOf(input, pos) = Rest(input, pos + 1, Inside(Here), 0)
  <2>1. Nests(Here)
    BY <1>1, <1>2 DEF Nests, Indefinite
  <2> QED
    BY <1>2, <2>1, WaitFacts, EndOfItem DEF Here
<1>7. end \in Int /\ end \in Ends(input, pos + 2)
  <2>1. IsRest(input, pos + 2, 1, 0)
    BY <1>2, WaitFacts DEF IsRest, AtValue
  <2>2. end \in Ends(input, pos + 2)
    BY <2>1, RestSpot DEF EndOf
  <2> QED
    BY <1>2, <2>2 DEF Ends, NoEnd
<1>8. EndOf(input, pos) = On(input, frame, end)
  <2>1. CASE Here.n = Indefinite
    <3>1. Inside(Here) = AtKey /\ Left(frame) = AtKey /\ Given(frame) = 2
      BY <1>1, <1>4, <2>1 DEF Inside
    <3>2. /\ IsRest(input, pos + 1, AtKey, 0) /\ AtKey # 0 /\ AtKey < 0
          /\ ~(0 >= Limit(AtKey))
      BY <1>2, WaitFacts DEF IsRest, AtValue, AtKey, Limit, InArray
    <3>3. Rest(input, pos + 1, AtKey, 0) = Then(input, pos + 2, AtValue, 1)
      <4>1. Following(AtKey) = AtValue /\ 0 + 1 = 1 /\ input[(pos + 1) + 1].kind # "break"
        BY <1>1, <1>2 DEF Following, AtKey, AtValue, InArray
      <4> QED
        BY <1>2, <1>5, <3>2, <4>1, RestItem
    <3>4. /\ IsRest(input, pos + 2, AtValue, 1) /\ AtValue # 0 /\ AtValue < 0
          /\ ~(1 >= Limit(AtValue)) /\ AtValue \notin {InArray, AtKey}
      BY <1>2, WaitFacts DEF IsRest, AtValue, AtKey, Limit, InArray
    <3>5. Rest(input, pos + 2, AtValue, 1) = Then(input, end, AtKey, 2)
      <4>1. Following(AtValue) = AtKey /\ 1 + 1 = 2
        BY DEF Following, AtKey, AtValue, InArray
      <4> QED
        BY <3>4, <4>1, RestItem
    <3>6. Then(input, pos + 2, AtValue, 1) = Rest(input, pos + 2, AtValue, 1)
      BY <1>2 DEF Then, NoEnd
    <3> QED
      BY <1>6, <3>1, <3>3, <3>5, <3>6 DEF On
  <2>2. CASE Here.n # Indefinite
    <3>1. Inside(Here) = 2 /\ Left(frame) = 0 /\ Given(frame) = 0
      BY <1>1, <1>4, <2>2 DEF Inside
    <3>2. IsRest(input, pos + 1, 2, 0)
      BY <1>2, WaitFacts DEF IsRest, AtValue
    <3>3. Rest(input, pos + 1, 2, 0) = Then(input, pos + 2, 1, 0)
      <4>1. Following(2) = 1 /\ ~(2 < 0) /\ 2 \notin {InArray, AtKey} /\ 2 # 0
        BY DEF Following, AtKey, AtValue, InArray
      <4> QED
        BY <1>5, <3>2, <4>1, RestItem
    <3>4. Then(input, pos + 2, 1, 0) = end
      BY <1>2 DEF Then, NoEnd, EndOf
    <3>5. end # NoEnd => IsRest(input, end, 0, 0)
      <4>1. end # NoEnd => end \in 0..Len(input)
        BY <1>2, <1>7 DEF Ends
      <4> QED
        BY <1>2, <4>1, WaitFacts DEF IsRest, AtValue
    <3> HIDE DEF end
    <3>6. Then(input, end, 0, 0) = end
      BY <3>5, RestOfNone
    <3> QED
      BY <1>6, <3>1, <3>3, <3>4, <3>6 DEF On
  <2> QED
    BY <2>1, <2>2
<1> HIDE DEF end
<1>9. whole => Chained(Ending(input), EndOf(input, first), stack, EndOf(input, pos))
  BY <1>1 DEF ItemsAwaited, Ahead
<1>10. whole => Chained(Ending(input), EndOf(input, first), Append(stack, frame), end)
  BY <1>3, <1>7, <1>8, <1>9, Facts, ChainPush, EndingIs
<1>11. FramesFit(Append(stack, frame))
  BY <1>3, Facts, FitAppend DEF ItemsAwaited
<1> QED
  BY <1>1, <1>10, <1>11, MoveAwaits DEF end

-----------------------------------------------------------------------------
(* The innermost frame is done.                                              *)
LEMMA TopFacts ==
  ASSUME IInv, ItemsAwaited, phase = "access"
  PROVE  /\ stack # <<>> /\ Top \in FrameRecord /\ FrameBounded(Top) /\ Fitting(Top)
         /\ Pop \in Seq(FrameRecord) /\ FramesFit(Pop)
         /\ MaxCollection > 0 => /\ IsRest(input, pos, Left(Top), Given(Top))
                                 /\ On(input, Top, pos) =
                                      Rest(input, pos, Left(Top), Given(Top))
<1>1. stack # <<>> /\ FramesFit(stack)
  BY DEF IInv, ItemsAwaited
<1>2. /\ Top \in FrameRecord /\ FrameBounded(Top) /\ Fitting(Top)
      /\ Pop \in Seq(FrameRecord) /\ FramesFit(Pop)
  BY <1>1, Facts, EnteredPop, BoundedPop, FitPop DEF Top, Pop
<1>3. MaxCollection > 0 => /\ IsRest(input, pos, Left(Top), Given(Top))
                           /\ On(input, Top, pos) = Rest(input, pos, Left(Top), Given(Top))
  BY <1>2, Facts, WaitFacts, LeftIs
<1> QED
  BY <1>1, <1>2, <1>3

LEMMA PopAwaits ==
  ASSUME IInv, ItemsAwaited, phase = "access", NEW p, Give(Pop, p),
         UNCHANGED <<input, first>>,
         whole' => whole /\ On(input, Top, pos) = p
  PROVE  ItemsAwaited'
<1>1. whole => Chained(Ending(input), EndOf(input, first), stack, pos)
  BY DEF ItemsAwaited, Ahead
<1>2. whole => Chained(Ending(input), EndOf(input, first), Pop, On(input, Top, pos))
  BY <1>1, TopFacts, Facts, ChainPop, EndingIs DEF Pop, Top
<1> QED
  BY <1>2, TopFacts, GiveAwaits

(* With nothing left the frame ends here, at a break behind it.              *)
LEMMA TopEnds ==
  ASSUME IInv, ItemsAwaited, MaxCollection > 0, phase = "access"
  PROVE  /\ Left(Top) = 0 => On(input, Top, pos) = pos
         /\ Left(Top) \in {InArray, AtKey} /\ At({"break"}) => On(input, Top, pos) = pos + 1
<1>1. /\ IsRest(input, pos, Left(Top), Given(Top))
      /\ On(input, Top, pos) = Rest(input, pos, Left(Top), Given(Top))
  BY TopFacts
<1>2. CASE Left(Top) = 0
  BY <1>1, <1>2, RestNone DEF InArray, AtKey
<1>3. CASE Left(Top) \in {InArray, AtKey} /\ At({"break"})
  <2>1. Left(Top) # 0 /\ pos # Len(input) /\ input[pos + 1].kind = "break"
    BY <1>3 DEF At, AtEnd, Here, InArray, AtKey
  <2> QED
    BY <1>1, <1>3, <2>1, RestBreak
<1> QED
  BY <1>2, <1>3

LEMMA ReturnAwaits ==
  ASSUME IInv, ItemsAwaited, MaxCollection > 0, TagReturns \/ VariantEnds
  PROVE  ItemsAwaited'
<1>1. phase = "access"
  BY DEF TagReturns, VariantEnds
<1>2. CASE TagReturns
  <2>1. Left(Top) = 0 /\ Give(Pop, pos) /\ UNCHANGED <<input, first, whole>>
    BY <1>2 DEF TagReturns, Left
  <2> QED
    BY <1>1, <2>1, TopEnds, PopAwaits
<1>3. CASE VariantEnds /\ Top.remaining # Indefinite
  <2>1. Left(Top) = 0 /\ Give(Pop, pos) /\ UNCHANGED <<input, first, whole>>
    BY <1>3 DEF VariantEnds, Left
  <2> QED
    BY <1>1, <2>1, TopEnds, PopAwaits
<1>4. CASE VariantEnds /\ Top.remaining = Indefinite
  <2>1. CASE \E kind, p : Fail(kind, p)
    BY <2>1, FailAwaits
  <2>2. CASE At({"break"}) /\ Give(Pop, pos + 1) /\ UNCHANGED <<input, first, whole>>
    <3>1. Left(Top) = AtKey
      BY <1>4 DEF VariantEnds, Left
    <3> QED
      BY <1>1, <2>2, <3>1, TopEnds, PopAwaits
  <2> QED
    BY <1>4, <2>1, <2>2 DEF VariantEnds, At
<1> QED
  BY <1>2, <1>3, <1>4

(* A visitor that has left nothing behind has used its collection up.        *)
LEMMA AccessAwaits ==
  ASSUME IInv, ItemsAwaited, MaxCollection > 0, Leave \/ Exhausted \/ BreakEnds
  PROVE  ItemsAwaited'
<1>1. phase = "access" /\ Top.kind \in Collections /\ ~Top.value
  BY DEF Leave, Exhausted, BreakEnds, Visiting
<1>2. ASSUME NEW p, NEW complete, Return(p, complete), complete => On(input, Top, pos) = p,
             complete \in BOOLEAN
      PROVE  ItemsAwaited'
  <2>1. /\ Give(Pop, p) /\ UNCHANGED <<input, first>>
        /\ whole' => whole /\ complete
    BY <1>2 DEF Return
  <2> QED
    BY <1>1, <1>2, <2>1, PopAwaits
<1>3. ASSUME NEW p, NoMore(p), On(input, Top, pos) = p PROVE ItemsAwaited'
  BY <1>2, <1>3, FailAwaits DEF NoMore
<1>4. Top.remaining = 0 => On(input, Top, pos) = pos
  <2>1. Top.remaining = 0 => Left(Top) = 0
    BY <1>1 DEF Left, Indefinite, Collections
  <2> QED
    BY <1>1, <2>1, TopEnds
<1>5. CASE Leave
  BY <1>2, <1>4, <1>5 DEF Leave
<1>6. CASE Exhausted
  BY <1>3, <1>4, <1>6 DEF Exhausted
<1>7. CASE BreakEnds
  <2>1. Left(Top) \in {InArray, AtKey}
    BY <1>1, <1>7 DEF BreakEnds, Left, Collections
  <2>2. On(input, Top, pos) = pos + 1
    BY <1>1, <1>7, <2>1, TopEnds DEF BreakEnds
  <2> QED
    BY <1>3, <1>7, <2>2 DEF BreakEnds
<1> QED
  BY <1>5, <1>6, <1>7

(* The visitor asks for an item, and waits for one less behind it.           *)
LEMMA AskAwaits ==
  ASSUME IInv, ItemsAwaited, phase = "access", NEW frame \in FrameRecord, Fitting(frame),
         Ask(frame), On(input, frame, EndOf(input, pos)) = On(input, Top, pos)
  PROVE  ItemsAwaited'
<1> DEFINE end == EndOf(input, pos)
           s == [stack EXCEPT ![Len(stack)] = frame]
<1>1. /\ stack' = s /\ phase' = "value" /\ pos' = pos
      /\ UNCHANGED <<input, first, outcome, whole>>
  BY DEF Ask, WithTop
<1>2. end \in Int
  BY WaitFacts
<1>3. whole => Chained(Ending(input), EndOf(input, first), stack, pos)
  BY DEF ItemsAwaited, Ahead
<1> HIDE DEF end
<1>4. Ending(input)[frame][end] = Ending(input)[stack[Len(stack)]][pos]
  <2>1. pos \in Int /\ Top \in FrameRecord
    BY WaitFacts, TopFacts
  <2> QED
    BY <1>2, <2>1, EndingIs DEF end, Top
<1>5. whole => Chained(Ending(input), EndOf(input, first), s, end)
  BY <1>2, <1>3, <1>4, TopFacts, Facts, ChainTop
<1>6. FramesFit(s)
  BY TopFacts, Facts, FitTop DEF ItemsAwaited
<1> HIDE DEF s
<1> QED
  BY <1>1, <1>5, <1>6, MoveAwaits DEF end

LEMMA OneLess ==
  ASSUME IInv, ItemsAwaited, MaxCollection > 0, phase = "access", Left(Top) # 0,
         ~(Left(Top) < 0 /\ Given(Top) >= Limit(Left(Top))),
         Left(Top) \in {InArray, AtKey} => ~AtEnd /\ Here.kind # "break",
         NEW frame, Left(frame) = Following(Left(Top)),
         Given(frame) = IF Left(Top) < 0 THEN Given(Top) + 1 ELSE 0
  PROVE  On(input, frame, EndOf(input, pos)) = On(input, Top, pos)
<1>1. /\ IsRest(input, pos, Left(Top), Given(Top))
      /\ On(input, Top, pos) = Rest(input, pos, Left(Top), Given(Top))
  BY TopFacts
<1>2. pos # Len(input) => input[pos + 1].kind # "break" \/ Left(Top) \notin {InArray, AtKey}
  BY DEF Here
<1>3. Rest(input, pos, Left(Top), Given(Top)) =
        Then(input, EndOf(input, pos), Following(Left(Top)),
             IF Left(Top) < 0 THEN Given(Top) + 1 ELSE 0)
  BY <1>1, <1>2, RestItem
<1> QED
  BY <1>1, <1>3 DEF On

LEMMA ValueAwaits ==
  ASSUME IInv, ItemsAwaited, MaxCollection > 0, ValueOfEntry
  PROVE  ItemsAwaited'
<1> DEFINE frame == [Top EXCEPT !.value = FALSE]
<1>1. phase = "access" /\ Top.kind = "map" /\ Top.value /\ Ask(frame)
  BY DEF ValueOfEntry
<1>2. /\ Top \in FrameRecord /\ Top.seen >= 1 /\ Most(Top) <= MaxCollection
      /\ Top.seen \in Nat /\ Top.remaining \in Nat \cup {Indefinite}
      /\ MaxCollection \in Nat
  BY <1>1, TopFacts, Facts DEF Fitting, FrameBounded, FrameRecord, Collections
<1>3. /\ frame \in FrameRecord /\ ~frame.value /\ frame.seen = Top.seen
      /\ frame.kind = "map" /\ frame.remaining = Top.remaining
  BY <1>1, <1>2 DEF FrameRecord
<1>4. Fitting(frame)
  BY <1>3 DEF Fitting
<1> HIDE DEF frame
<1>5. CASE Top.remaining = Indefinite
  <2>1. Left(Top) = AtValue /\ Given(Top) = 2 * Top.seen - 1
    BY <1>1, <1>5 DEF Left, Given
  <2>2. Left(frame) = AtKey /\ Given(frame) = 2 * Top.seen
    <3>1. (IF frame.value THEN 1 ELSE 0) = 0
      BY <1>3
    <3>2. 2 * Top.seen - 0 = 2 * Top.seen
      BY <1>2
    <3> QED
      BY <1>3, <1>5, <3>1, <3>2 DEF Left, Given
  <2>3. Top.seen <= MaxCollection
    BY <1>2, <1>5 DEF Most
  <2>4. ~(Given(Top) >= Limit(Left(Top)))
    BY <1>2, <2>1, <2>3 DEF Limit, AtValue, InArray
  <2>5. Following(AtValue) = AtKey /\ AtValue # 0 /\ AtValue < 0 /\ AtValue \notin {InArray, AtKey}
    BY DEF Following, AtValue, AtKey, InArray
  <2>6. Given(Top) + 1 = Given(frame)
    BY <1>2, <2>1, <2>2
  <2>7. On(input, frame, EndOf(input, pos)) = On(input, Top, pos)
    BY <1>1, <2>1, <2>2, <2>4, <2>5, <2>6, OneLess
  <2> QED
    BY <1>1, <1>3, <1>4, <2>7, AskAwaits
<1>6. CASE Top.remaining # Indefinite
  <2>1. Left(Top) = 2 * Top.remaining + 1 /\ Given(Top) = 0 /\ Top.remaining \in Nat
    BY <1>1, <1>2, <1>6 DEF Left, Given
  <2>2. Left(frame) = 2 * Top.remaining /\ Given(frame) = 0
    <3>1. (IF frame.value THEN 1 ELSE 0) = 0
      BY <1>3
    <3>2. 2 * Top.remaining + 0 = 2 * Top.remaining
      BY <2>1
    <3> QED
      BY <1>3, <1>6, <3>1, <3>2 DEF Left, Given
  <2>3. /\ Left(Top) # 0 /\ ~(Left(Top) < 0) /\ Left(Top) \notin {InArray, AtKey}
        /\ Following(Left(Top)) = Left(frame)
    BY <2>1, <2>2 DEF Following, AtValue, AtKey, InArray
  <2>4. On(input, frame, EndOf(input, pos)) = On(input, Top, pos)
    BY <1>1, <2>2, <2>3, OneLess
  <2> QED
    BY <1>1, <1>3, <1>4, <2>4, AskAwaits
<1> QED
  BY <1>5, <1>6

LEMMA EntryAwaits ==
  ASSUME IInv, ItemsAwaited, MaxCollection > 0, Entry
  PROVE  ItemsAwaited'
<1> DEFINE frame == [Top EXCEPT !.seen = @ + 1, !.value = (Top.kind = "map"),
                       !.remaining = IF @ = Indefinite THEN @ ELSE @ - 1]
<1>1. CASE Fail("limit", pos)
  BY <1>1, FailAwaits
<1>2. CASE ~Fail("limit", pos)
  <2>1. /\ phase = "access" /\ Top.kind \in Collections /\ ~Top.value /\ Ask(frame)
        /\ Top.remaining = Indefinite => ~AtEnd /\ Here.kind # "break" /\ Top.seen # MaxCollection
        /\ Top.remaining # Indefinite => Top.remaining > 0
    BY <1>2 DEF Entry, Visiting
  <2>2. /\ Top \in FrameRecord /\ Most(Top) <= MaxCollection
        /\ Top.seen \in Nat /\ Top.remaining \in Nat \cup {Indefinite}
        /\ MaxCollection \in Nat
    BY <2>1, TopFacts, Facts DEF FrameBounded, FrameRecord, Collections
  <2>3. /\ frame.value <=> Top.kind = "map"
        /\ frame.seen = Top.seen + 1 /\ frame.kind = Top.kind
        /\ frame.remaining = IF Top.remaining = Indefinite THEN Indefinite
                             ELSE Top.remaining - 1
    BY <2>2 DEF FrameRecord
  <2>4. frame \in FrameRecord
    <3>1. Top.seen + 1 \in Nat
      BY <2>2
    <3>2. (IF Top.remaining = Indefinite THEN Indefinite ELSE Top.remaining - 1)
            \in Nat \cup {Indefinite}
      BY <2>1, <2>2 DEF Indefinite
    <3> QED
      BY <2>2, <3>1, <3>2 DEF FrameRecord
  <2>5. Fitting(frame)
    BY <2>2, <2>3 DEF Fitting
  <2> HIDE DEF frame
  <2>6. On(input, frame, EndOf(input, pos)) = On(input, Top, pos)
    <3>1. CASE Top.kind = "array" /\ Top.remaining = Indefinite
      <4>1. /\ Left(Top) = InArray /\ Given(Top) = Top.seen
            /\ Left(frame) = InArray /\ Given(frame) = Top.seen + 1
        BY <2>3, <3>1 DEF Left, Given
      <4>2. Top.seen < MaxCollection
        BY <2>1, <2>2, <3>1 DEF Most
      <4>3. /\ InArray # 0 /\ InArray < 0 /\ Following(InArray) = InArray
            /\ Limit(InArray) = MaxCollection
        BY DEF InArray, AtKey, AtValue, Following, Limit
      <4>4. ~(Given(Top) >= Limit(Left(Top)))
        BY <2>2, <4>1, <4>2, <4>3
      <4> QED
        BY <2>1, <3>1, <4>1, <4>3, <4>4, OneLess
    <3>2. CASE Top.kind = "array" /\ Top.remaining # Indefinite
      <4>1. /\ Top.remaining \in Nat /\ Top.remaining > 0
            /\ frame.remaining = Top.remaining - 1 /\ frame.remaining # Indefinite
        BY <2>1, <2>2, <2>3, <3>2 DEF Indefinite
      <4>2. /\ Left(Top) = Top.remaining /\ Left(frame) = Top.remaining - 1 /\ Given(frame) = 0
        BY <2>3, <3>2, <4>1 DEF Left, Given
      <4>3. /\ Left(Top) # 0 /\ ~(Left(Top) < 0) /\ Left(Top) \notin {InArray, AtKey}
            /\ Following(Left(Top)) = Left(frame)
        BY <4>1, <4>2 DEF Following, AtValue, AtKey, InArray
      <4> QED
        BY <2>1, <4>2, <4>3, OneLess
    <3>3. CASE Top.kind = "map" /\ Top.remaining = Indefinite
      <4>1. /\ Left(Top) = AtKey /\ Given(Top) = 2 * Top.seen - 0
            /\ Left(frame) = AtValue /\ Given(frame) = 2 * (Top.seen + 1) - 1
        <5>1. (IF Top.value THEN 1 ELSE 0) = 0
          BY <2>1
        <5>2. frame.value /\ (IF frame.value THEN 1 ELSE 0) = 1
          BY <2>3, <3>3
        <5> QED
          BY <2>1, <2>3, <3>3, <5>1, <5>2 DEF Left, Given
      <4>2. Top.seen < MaxCollection
        BY <2>1, <2>2, <3>3 DEF Most
      <4>3. AtKey # 0 /\ AtKey < 0 /\ Following(AtKey) = AtValue /\ Limit(AtKey) = 2 * MaxCollection
        BY DEF InArray, AtKey, AtValue, Following, Limit
      <4>4. ~(Given(Top) >= Limit(Left(Top))) /\ Given(frame) = Given(Top) + 1
        BY <2>2, <4>1, <4>2, <4>3
      <4> QED
        BY <2>1, <3>3, <4>1, <4>3, <4>4, OneLess
    <3>4. CASE Top.kind = "map" /\ Top.remaining # Indefinite
      <4>1. /\ Top.remaining \in Nat /\ Top.remaining > 0
            /\ frame.remaining = Top.remaining - 1 /\ frame.remaining # Indefinite
        BY <2>1, <2>2, <2>3, <3>4 DEF Indefinite
      <4>2. /\ Left(Top) = 2 * Top.remaining + 0 /\ Left(frame) = 2 * (Top.remaining - 1) + 1
            /\ Given(frame) = 0
        <5>1. (IF Top.value THEN 1 ELSE 0) = 0
          BY <2>1
        <5>2. frame.value /\ (IF frame.value THEN 1 ELSE 0) = 1
          BY <2>3, <3>4
        <5> QED
          BY <2>1, <2>3, <3>4, <4>1, <5>1, <5>2 DEF Left, Given
      <4>3. /\ Left(Top) # 0 /\ ~(Left(Top) < 0) /\ Left(Top) \notin {InArray, AtKey}
            /\ Following(Left(Top)) = Left(frame)
        BY <4>1, <4>2 DEF Following, AtValue, AtKey, InArray
      <4> QED
        BY <2>1, <4>2, <4>3, OneLess
    <3> QED
      BY <2>1, <3>1, <3>2, <3>3, <3>4 DEF Collections
  <2> QED
    BY <2>1, <2>4, <2>5, <2>6, AskAwaits
<1> QED
  BY <1>1, <1>2

LEMMA ErrorAwaits ==
  ASSUME ItemsAwaited,
         \/ Eof \/ ScalarRefused \/ DirectRefused \/ UnexpectedBreak
         \/ EnumMismatch \/ EnumContentMismatch \/ IgnoredFails \/ Cut \/ VisitorFails
  PROVE  ItemsAwaited'
<1>1. PICK kind, p : Fail(kind, p)
  BY DEF Eof, ScalarRefused, DirectRefused, UnexpectedBreak, EnumMismatch,
         EnumContentMismatch, IgnoredFails, Cut, VisitorFails
<1> QED
  BY <1>1, FailAwaits

(* However a value was asked for, by types that descend or ignore, with      *)
(* tags, enums and options on the way: if no visitor left entries behind, it *)
(* is one whole item and the call ends where skip ends.  Where no collection *)
(* may have an entry skip refuses the map of an enum, which is not counted.  *)
THEOREM EndsWithItem == MaxCollection > 0 => (Safety => []WholeItem)
<1> SUFFICES ASSUME MaxCollection > 0 PROVE Safety => []WholeItem
  OBVIOUS
<1>1. Init => ItemsAwaited
  <2> SUFFICES ASSUME Init PROVE ItemsAwaited
    OBVIOUS
  <2>1. FramesFit(stack) /\ WholeItem
    BY DEF Init, FramesFit, WholeItem, Ok
  <2> QED
    BY <2>1 DEF Init, ItemsAwaited
<1>2. IInv /\ ItemsAwaited /\ [Next]_vars => ItemsAwaited'
  <2> SUFFICES ASSUME IInv, ItemsAwaited, [Next]_vars PROVE ItemsAwaited'
    OBVIOUS
  <2>1. CASE Asking
    BY <2>1, ScalarAwaits, DirectAwaits, IgnoredAwaits, OptionAwaits, TagAwaits,
       CollectionAwaits, EnumAwaits, ErrorAwaits DEF Asking
  <2>2. CASE Answering
    BY <2>2, AccessAwaits, EntryAwaits, ValueAwaits, ReturnAwaits, ErrorAwaits DEF Answering
  <2>3. CASE VisitorFails \/ \E t \in Types : Call(t)
    BY <2>3, ErrorAwaits, CallAwaits
  <2>4. CASE UNCHANGED vars
    BY <2>4 DEF vars, ItemsAwaited, WholeItem, Ahead, ItemEnd
  <2>5. CASE ErrorReturns
    BY <2>5, ErrorReturnsAwaits
  <2> QED
    BY <2>1, <2>2, <2>3, <2>4, <2>5 DEF Next, Step
<1>3. ItemsAwaited => WholeItem
  BY DEF ItemsAwaited
<1> QED
  BY <1>1, <1>2, <1>3, InductiveInvariant, PTL DEF Safety

-----------------------------------------------------------------------------
(* An input without indefinite lengths tells at each head how many items are *)
(* to come.  A head takes one of them away and brings those inside it.       *)

Definite(in) == \A i \in DOMAIN in : in[i].n # Indefinite

Brought(head) == IF head.kind \in {"tag", "array", "map"} THEN Inside(head) ELSE 0

IsBalance(in, n, w) ==
  /\ w \in [0..n -> Int]
  /\ \A p \in 0..(n - 1) : w[p + 1] = w[p] + Brought(in[p + 1]) - 1

(* The items to come before each head, more or less than at the first.       *)
Balance(in) == CHOOSE w : IsBalance(in, Len(in), w)

LEMMA BalanceIs ==
  ASSUME NEW in, IsItems(in)
  PROVE  IsBalance(in, Len(in), Balance(in))
<1> DEFINE T == {n \in Nat : n <= Len(in) /\ ~ \E w : IsBalance(in, n, w)}
<1>1. Len(in) \in Nat
  BY CursorAssumption DEF IsItems
<1>2. ASSUME T # {} PROVE FALSE
  <2>1. PICK n \in T : \A k \in T : n <= k
    BY <1>2, LeastNat
  <2>2. n \in Nat /\ n <= Len(in) /\ ~ \E w : IsBalance(in, n, w)
    BY <2>1
  <2>3. n # 0
    <3> DEFINE w == [p \in 0..0 |-> 0]
    <3>1. IsBalance(in, 0, w)
      BY DEF IsBalance
    <3> QED
      BY <2>2, <3>1
  <2>4. n - 1 \in Nat /\ n - 1 <= Len(in) /\ ~(n <= n - 1)
    BY <1>1, <2>2, <2>3
  <2>5. PICK v : IsBalance(in, n - 1, v)
    BY <2>1, <2>4
  <2> DEFINE w == [p \in 0..n |-> IF p = n THEN v[n - 1] + Brought(in[n]) - 1 ELSE v[p]]
  <2>6. Brought(in[n]) \in Int
    <3>1. (n - 1) + 1 = n /\ n - 1 \in 0..Len(in) /\ n - 1 # Len(in)
      BY <1>1, <2>2, <2>3
    <3>2. in[n].kind \in HeadKinds /\ in[n].n \in Nat \cup {Indefinite}
      BY <3>1, HeadIs
    <3>3. in[n].n \in Int /\ 2 * in[n].n \in Int
      BY <3>2 DEF Indefinite
    <3> QED
      BY <3>3 DEF Brought, Inside, AtKey, InArray
  <2>7. v \in [0..(n - 1) -> Int] /\ \A p \in 0..(n - 2) : v[p + 1] = v[p] + Brought(in[p + 1]) - 1
    BY <2>2, <2>5 DEF IsBalance
  <2>8. w \in [0..n -> Int]
    BY <2>2, <2>3, <2>6, <2>7
  <2>9. ASSUME NEW p \in 0..(n - 1) PROVE w[p + 1] = w[p] + Brought(in[p + 1]) - 1
    <3>1. CASE p = n - 1
      <4>1. p + 1 = n /\ p # n /\ p \in 0..n /\ n \in 0..n
        BY <2>2, <3>1
      <4> QED
        BY <3>1, <4>1
    <3>2. CASE p # n - 1
      <4>1. p \in 0..(n - 2) /\ p + 1 # n /\ p # n /\ p \in 0..n /\ p + 1 \in 0..n
        BY <2>2, <3>2
      <4>2. w[p + 1] = v[p + 1] /\ w[p] = v[p]
        BY <4>1
      <4> HIDE DEF w
      <4> QED
        BY <2>7, <4>1, <4>2
    <3> QED
      BY <3>1, <3>2
  <2> HIDE DEF w
  <2>10. IsBalance(in, n, w)
    BY <2>8, <2>9 DEF IsBalance
  <2> QED
    BY <2>2, <2>10
<1>3. \E w : IsBalance(in, Len(in), w)
  BY <1>1, <1>2
<1> QED
  BY <1>3 DEF Balance

LEMMA BalanceFacts ==
  ASSUME NEW in, IsItems(in)
  PROVE  /\ \A p \in 0..Len(in) : Balance(in)[p] \in Int
         /\ \A p \in 0..Len(in) :
              p # Len(in) => Balance(in)[p + 1] = Balance(in)[p] + Brought(in[p + 1]) - 1
<1>1. Len(in) \in Nat
  BY CursorAssumption DEF IsItems
<1>2. Balance(in) \in [0..Len(in) -> Int]
  BY BalanceIs DEF IsBalance
<1>3. ASSUME NEW p \in 0..Len(in), p # Len(in)
      PROVE  Balance(in)[p + 1] = Balance(in)[p] + Brought(in[p + 1]) - 1
  <2>1. p \in 0..(Len(in) - 1)
    BY <1>1, <1>3
  <2> QED
    BY <2>1, BalanceIs DEF IsBalance
<1> QED
  BY <1>2, <1>3

LEMMA BroughtIs ==
  ASSUME NEW in, IsItems(in), Definite(in), NEW p \in 0..Len(in), p # Len(in)
  PROVE  /\ Brought(in[p + 1]) \in Nat
         /\ Nests(in[p + 1]) => Brought(in[p + 1]) = Inside(in[p + 1])
         /\ in[p + 1].kind \in {"scalar", "null"} => Brought(in[p + 1]) = 0
<1>1. p + 1 \in DOMAIN in
  BY CursorAssumption DEF IsItems
<1>2. in[p + 1].n \in Nat /\ 2 * in[p + 1].n \in Nat
  BY <1>1, HeadIs DEF Definite
<1>3. in[p + 1].n # Indefinite
  BY <1>1 DEF Definite
<1>4. Brought(in[p + 1]) \in Nat
  BY <1>2, <1>3 DEF Brought, Inside
<1> QED
  BY <1>4 DEF Brought, Nests

(* A walk of items uses up as many.                                          *)
LEMMA WalkBalance ==
  ASSUME NEW in, IsItems(in), Definite(in), NEW s \in Spots(in), s.items >= 0,
         After(in)[s] # NoEnd
  PROVE  Balance(in)[After(in)[s]] = Balance(in)[s.at] - s.items
<1> DEFINE a == After(in)
           w == Balance(in)
           wrong(u) == u.items >= 0 /\ a[u] # NoEnd /\ w[a[u]] # w[u.at] - u.items
           T == {Len(in) - u.at : u \in {v \in Spots(in) : wrong(v)}}
<1>1. ASSUME T # {} PROVE FALSE
  <2>1. T \subseteq Nat
    BY SpotIs
  <2>2. PICK least \in T : \A k \in T : least <= k
    BY <1>1, <2>1, LeastNat
  <2>3. PICK u \in Spots(in) : wrong(u) /\ least = Len(in) - u.at
    BY <2>2
  <2>4. ASSUME NEW v \in Spots(in), wrong(v) PROVE ~(v.at > u.at)
    <3>1. Len(in) - v.at \in T
      BY <2>4
    <3>2. Len(in) - u.at <= Len(in) - v.at
      BY <2>2, <2>3, <3>1
    <3> QED
      BY <3>2, SpotIs
  <2>5. /\ a[u] = Walk(in, a, u) /\ a[u] # NoEnd /\ a[u] \in Ends(in, u.at)
    BY <2>3, AfterIs
  <2>6. /\ u.at \in 0..Len(in) /\ u.at \in Nat /\ Len(in) \in Nat /\ u.items \in Int
        /\ u.items >= 0
    BY <2>3, SpotIs
  <2>7. /\ \A p \in 0..Len(in) : w[p] \in Int
        /\ u.at # Len(in) => w[u.at + 1] = w[u.at] + Brought(in[u.at + 1]) - 1
    BY <2>6, BalanceFacts
  <2> HIDE DEF w
  <2>8. u.items # 0
    <3>1. ASSUME u.items = 0 PROVE FALSE
      <4>1. a[u] = u.at
        BY <2>5, <3>1, WalkIs
      <4>2. w[u.at] \in Int /\ w[u.at] = w[u.at] - u.items
        BY <2>6, <2>7, <3>1
      <4> QED
        BY <2>3, <4>1, <4>2
    <3> QED
      BY <3>1
  <2> HIDE DEF a
  <2>9. /\ u.at # Len(in) /\ in[u.at + 1].kind # "break" /\ u.levels # -1 /\ ~Full(u)
        /\ Item(in, a, u) # NoEnd /\ a[u] = a[Sibling(u, Item(in, a, u))]
    BY <2>5, <2>6, <2>8, WalkIs DEF InArray, AtKey
  <2> DEFINE end == Item(in, a, u)
  <2>10. end \in (u.at + 1)..Len(in) /\ w[end] = w[u.at] - 1
    <3>1. CASE in[u.at + 1].kind \in {"scalar", "null"}
      <4>1. end = u.at + 1 /\ Brought(in[u.at + 1]) = 0
        BY <2>6, <2>9, <3>1, BroughtIs DEF Item
      <4>2. w[end] = w[u.at] - 1
        BY <2>6, <2>7, <2>9, <4>1
      <4> QED
        BY <2>6, <2>9, <4>1, <4>2
    <3>2. CASE in[u.at + 1].kind \notin {"scalar", "null"}
      <4>1. Nests(in[u.at + 1]) /\ end = a[Child(in, u)]
        BY <2>9, <3>2 DEF Item
      <4>2. /\ Child(in, u) \in Spots(in) /\ Child(in, u).at = u.at + 1
            /\ Child(in, u).items = Inside(in[u.at + 1])
        BY <2>9, <4>1, ChildIs
      <4>3. /\ Brought(in[u.at + 1]) = Inside(in[u.at + 1])
            /\ Brought(in[u.at + 1]) \in Nat
        BY <2>6, <2>9, <4>1, BroughtIs
      <4>4. end \in Ends(in, u.at + 1)
        BY <4>1, <4>2, AfterIs DEF a
      <4>5. end \in (u.at + 1)..Len(in)
        BY <2>9, <4>4 DEF Ends
      <4>6. ~wrong(Child(in, u))
        BY <2>4, <2>6, <4>2
      <4>7. w[end] = w[u.at + 1] - Inside(in[u.at + 1])
        BY <2>9, <4>1, <4>2, <4>3, <4>6
      <4>8. w[u.at] \in Int
        BY <2>6, <2>7
      <4>9. w[end] = w[u.at] - 1
        BY <2>7, <2>9, <4>3, <4>7, <4>8
      <4> QED
        BY <4>5, <4>9
    <3> QED
      BY <3>1, <3>2
  <2> HIDE DEF end
  <2>11. end \in 0..Len(in) /\ end > u.at
    BY <2>6, <2>10
  <2>12. /\ Sibling(u, end) \in Spots(in) /\ Sibling(u, end).at = end
         /\ Sibling(u, end).items = u.items - 1
    <3>1. Following(u.items) = u.items - 1
      BY <2>6, <2>8 DEF Following, AtKey, AtValue, InArray
    <3> QED
      BY <2>8, <2>9, <2>11, <3>1, SiblingIs
  <2>13. ~wrong(Sibling(u, end))
    BY <2>4, <2>11, <2>12
  <2>14. a[u] = a[Sibling(u, end)]
    BY <2>9 DEF end
  <2>15. w[a[u]] = w[end] - (u.items - 1)
    <3>1. u.items - 1 >= 0
      BY <2>6, <2>8
    <3> QED
      BY <2>5, <2>12, <2>13, <2>14, <3>1
  <2>16. w[u.at] \in Int
    BY <2>6, <2>7
  <2>17. w[a[u]] = w[u.at] - u.items
    BY <2>6, <2>10, <2>15, <2>16
  <2> QED
    BY <2>3, <2>17
<1>2. ~wrong(s)
  BY <1>1
<1> QED
  BY <1>2

-----------------------------------------------------------------------------
(* The frames of s are owed d items: what they have Left, taken together.    *)

Paid == [frame \in FrameRecord |-> [x \in Int |-> x - Left(frame)]]

Owed(s, d) == Chained(Paid, 0, s, d)

Counting(frame) == frame.remaining # Indefinite

AllCounting(s) == \A i \in DOMAIN s : Counting(s[i])

LEMMA LeftCounts ==
  ASSUME NEW frame \in FrameRecord, Counting(frame)
  PROVE  Left(frame) \in Nat
<1>1. frame.remaining \in Nat /\ 2 * frame.remaining \in Nat
  BY DEF FrameRecord, Counting
<1>2. frame.remaining # Indefinite
  BY DEF Counting
<1> QED
  BY <1>1, <1>2 DEF Left

LEMMA OwedAppend ==
  ASSUME NEW s \in Seq(FrameRecord), AllCounting(s), NEW d \in Int, Owed(s, d),
         NEW frame \in FrameRecord, Counting(frame)
  PROVE  Owed(Append(s, frame), d + Left(frame)) /\ AllCounting(Append(s, frame))
<1> DEFINE t == Append(s, frame)
<1>1. Left(frame) \in Int
  BY LeftCounts
<1>2. d + Left(frame) \in Int /\ Paid[frame][d + Left(frame)] = d
  BY <1>1 DEF Paid
<1>3. Owed(t, d + Left(frame))
  BY <1>2, ChainPush DEF Owed
<1>4. /\ DOMAIN t = 1..(Len(s) + 1) /\ Len(s) \in Nat /\ DOMAIN s = 1..Len(s)
      /\ \A i \in 1..(Len(s) + 1) : t[i] = IF i = Len(s) + 1 THEN frame ELSE s[i]
  OBVIOUS
<1>5. AllCounting(t)
  BY <1>4 DEF AllCounting
<1> QED
  BY <1>3, <1>5

LEMMA OwedPop ==
  ASSUME NEW s \in Seq(FrameRecord), s # <<>>, AllCounting(s), NEW d \in Int, Owed(s, d)
  PROVE  /\ Owed(SubSeq(s, 1, Len(s) - 1), d - Left(s[Len(s)]))
         /\ AllCounting(SubSeq(s, 1, Len(s) - 1)) /\ Counting(s[Len(s)])
<1> DEFINE r == SubSeq(s, 1, Len(s) - 1)
<1>1. s[Len(s)] \in FrameRecord
  BY EnteredPop
<1>2. Paid[s[Len(s)]][d] = d - Left(s[Len(s)])
  BY <1>1 DEF Paid
<1>3. Owed(r, d - Left(s[Len(s)]))
  BY <1>2, ChainPop DEF Owed
<1>4. Len(s) \in Nat \ {0} /\ DOMAIN s = 1..Len(s)
  OBVIOUS
<1>5. DOMAIN r = 1..(Len(s) - 1) /\ \A i \in 1..(Len(s) - 1) : r[i] = s[i]
  BY <1>4
<1> QED
  BY <1>3, <1>4, <1>5 DEF AllCounting

LEMMA OwedTop ==
  ASSUME NEW s \in Seq(FrameRecord), s # <<>>, AllCounting(s), NEW d \in Int, Owed(s, d),
         NEW frame \in FrameRecord, Counting(frame)
  PROVE  /\ Owed([s EXCEPT ![Len(s)] = frame], d - Left(s[Len(s)]) + Left(frame))
         /\ AllCounting([s EXCEPT ![Len(s)] = frame])
<1> DEFINE t == [s EXCEPT ![Len(s)] = frame]
           z == d - Left(s[Len(s)]) + Left(frame)
<1>1. s[Len(s)] \in FrameRecord /\ Counting(s[Len(s)])
  BY EnteredPop, OwedPop
<1>2. Left(s[Len(s)]) \in Int /\ Left(frame) \in Int
  BY <1>1, LeftCounts
<1>3. z \in Int /\ z - Left(frame) = d - Left(s[Len(s)])
  BY <1>2
<1> HIDE DEF z
<1>4. Paid[frame][z] = z - Left(frame) /\ Paid[s[Len(s)]][d] = d - Left(s[Len(s)])
  BY <1>1, <1>3 DEF Paid
<1>5. Owed(t, z)
  BY <1>3, <1>4, ChainTop DEF Owed
<1>6. /\ DOMAIN t = DOMAIN s /\ Len(s) \in DOMAIN s
      /\ \A i \in DOMAIN s : t[i] = IF i = Len(s) THEN frame ELSE s[i]
  OBVIOUS
<1>7. AllCounting(t)
  BY <1>6 DEF AllCounting
<1> QED
  BY <1>5, <1>7 DEF z

(* The invariant: what visitors are owed is to come, and once entries were   *)
(* left behind more is to come than anyone will take.                        *)
ToCome(in, from, to) == 1 + Balance(in)[to] - Balance(in)[from]

Suffices(owed, coming, all) == IF all THEN owed <= coming ELSE owed < coming

ItemsOwed ==
  /\ AllCounting(stack)
  /\ phase \in {"value", "access"} =>
       \E d \in Int : /\ Owed(stack, d)
                      /\ Suffices(d + (IF phase = "value" THEN 1 ELSE 0),
                                  ToCome(input, first, pos), whole)
  /\ phase = "idle" /\ outcome.tag = "ok" /\ ~whole =>
       ToCome(input, outcome.from, outcome.to) > 0

LEMMA ToComeIs ==
  ASSUME IInv
  PROVE  /\ \A p \in 0..Len(input) : ToCome(input, first, p) \in Int
         /\ \A p, q \in 0..Len(input) :
              ToCome(input, first, q) =
                ToCome(input, first, p) + Balance(input)[q] - Balance(input)[p]
         /\ \A p \in 0..Len(input) : Balance(input)[p] \in Int
         /\ ToCome(input, pos, pos) = 1
<1>1. /\ \A p \in 0..Len(input) : Balance(input)[p] \in Int
      /\ first \in 0..Len(input) /\ pos \in 0..Len(input)
  BY WaitFacts, Facts, BalanceFacts
<1> QED
  BY <1>1 DEF ToCome

(* After an error nobody takes anything any more.                            *)
LEMMA FailOwes ==
  ASSUME ItemsOwed, NEW kind, NEW p, Fail(kind, p)
  PROVE  ItemsOwed'
<1>1. stack' = stack /\ phase' \notin {"value", "access"} /\ outcome'.tag = "error"
  BY DEF Fail, Error
<1>2. AllCounting(stack')
  BY <1>1 DEF ItemsOwed
<1> QED
  BY <1>1, <1>2 DEF ItemsOwed

LEMMA ErrorReturnsOwes ==
  ASSUME IInv, ItemsOwed, ErrorReturns
  PROVE  ItemsOwed'
<1>1. /\ stack # <<>> /\ stack' = Pop /\ phase' \notin {"value", "access"}
      /\ outcome'.tag = "error"
  BY DEF ErrorReturns, IInv
<1>2. AllCounting(stack')
  <2>1. stack \in Seq(FrameRecord)
    BY Facts
  <2>2. \A i \in DOMAIN Pop : i \in DOMAIN stack /\ Pop[i] = stack[i]
    BY <1>1, <2>1 DEF Pop
  <2> QED
    BY <1>1, <2>2 DEF ItemsOwed, AllCounting
<1> QED
  BY <1>1, <1>2 DEF ItemsOwed

LEMMA GiveOwes ==
  ASSUME IInv, NEW rest, AllCounting(rest), NEW p, Give(rest, p),
         UNCHANGED <<input, first>>,
         NEW d \in Int, Owed(rest, d), Suffices(d, ToCome(input, first, p), whole')
  PROVE  ItemsOwed'
<1>1. stack' = rest /\ pos' = p /\ input' = input /\ first' = first
  BY DEF Give
<1>2. CASE rest = <<>>
  <2>1. phase' = "idle" /\ outcome' = Ok(first, p)
    BY <1>2 DEF Give
  <2>2. d = 0
    BY <1>2, ChainEmpty DEF Owed
  <2>3. outcome'.from = first /\ outcome'.to = p
    BY <2>1 DEF Ok
  <2>4. ~whole' => ToCome(input, first, p) > 0
    BY <2>2 DEF Suffices
  <2> QED
    BY <1>1, <2>1, <2>3, <2>4 DEF ItemsOwed
<1>3. CASE rest # <<>>
  <2>1. phase' = "access"
    BY <1>3 DEF Give
  <2>2. Suffices(d + 0, ToCome(input, first, p), whole')
    OBVIOUS
  <2> QED
    BY <1>1, <2>1, <2>2 DEF ItemsOwed
<1> QED
  BY <1>2, <1>3

LEMMA MoveOwes ==
  ASSUME NEW frames, AllCounting(frames), stack' = frames,
         phase' \in {"value", "access"}, UNCHANGED <<input, first, outcome, whole>>,
         NEW d \in Int, Owed(frames, d),
         Suffices(d + (IF phase' = "value" THEN 1 ELSE 0), ToCome(input, first, pos'), whole)
  PROVE  ItemsOwed'
BY DEF ItemsOwed

-----------------------------------------------------------------------------
(* A value that takes one item of those to come goes to the frames.          *)
LEMMA GivenOwes ==
  ASSUME IInv, ItemsOwed, phase = "value", NEW p \in 0..Len(input), Give(stack, p),
         UNCHANGED <<input, first, whole>>, Balance(input)[p] = Balance(input)[pos] - 1
  PROVE  ItemsOwed'
<1>1. PICK d \in Int : Owed(stack, d) /\ Suffices(d + 1, ToCome(input, first, pos), whole)
  BY DEF ItemsOwed
<1>2. ToCome(input, first, p) = ToCome(input, first, pos) - 1
      /\ ToCome(input, first, pos) \in Int
  <2>1. pos \in 0..Len(input) /\ Balance(input)[pos] \in Int
    BY Facts, ToComeIs
  <2>2. /\ ToCome(input, first, p) =
             ToCome(input, first, pos) + Balance(input)[p] - Balance(input)[pos]
        /\ ToCome(input, first, pos) \in Int
    BY <2>1, ToComeIs
  <2> QED
    BY <2>1, <2>2
<1>3. Suffices(d, ToCome(input, first, p), whole')
  BY <1>1, <1>2 DEF Suffices
<1>4. AllCounting(stack)
  BY DEF ItemsOwed
<1> QED
  BY <1>1, <1>3, <1>4, GiveOwes

LEMMA ScalarOwes ==
  ASSUME IInv, ItemsOwed, Definite(input), Scalar \/ OptionNone \/ EnumName
  PROVE  ItemsOwed'
<1>1. /\ phase = "value" /\ At({"scalar", "null"}) /\ Give(stack, pos + 1)
      /\ UNCHANGED <<input, first, whole>>
  BY DEF Scalar, OptionNone, EnumName, Asked, At
<1>2. pos \in 0..Len(input) /\ pos # Len(input) /\ pos + 1 \in 0..Len(input)
  BY <1>1, Facts, HereIsHead DEF At, AtEnd, IInv
<1>3. Brought(input[pos + 1]) = 0
  BY <1>1, <1>2, WaitFacts, BroughtIs DEF At, Here
<1>4. Balance(input)[pos] \in Int
  BY <1>2, ToComeIs
<1>5. Balance(input)[pos + 1] = Balance(input)[pos] + 0 - 1
  BY <1>2, <1>3, WaitFacts, BalanceFacts
<1> QED
  BY <1>1, <1>2, <1>4, <1>5, GivenOwes

(* A tag takes the place of its content.                                     *)
LEMMA TagBalance ==
  ASSUME IInv, Definite(input), At({"tag"})
  PROVE  /\ pos + 1 \in 0..Len(input) /\ Balance(input)[pos] \in Int
         /\ Balance(input)[pos + 1] = Balance(input)[pos]
<1>1. Brought(Here) = 1
  BY DEF At, Brought, Inside
<1>2. pos \in 0..Len(input) /\ pos # Len(input) /\ pos + 1 \in 0..Len(input)
  BY Facts, HereIsHead DEF At, AtEnd, IInv
<1>3. Balance(input)[pos] \in Int
  BY <1>2, ToComeIs
<1>4. Balance(input)[pos + 1] = Balance(input)[pos] + 1 - 1
  BY <1>1, <1>2, WaitFacts, BalanceFacts DEF Here
<1> QED
  BY <1>2, <1>3, <1>4

LEMMA DirectOwes ==
  ASSUME IInv, ItemsOwed, Definite(input), Direct
  PROVE  ItemsOwed'
<1>1. phase = "value" /\ UNCHANGED <<input, first, whole>> /\ ~AtEnd
  BY DEF Direct, Asked, At
<1>2. CASE At({"scalar"}) /\ Give(stack, pos + 1)
  <2>1. pos \in 0..Len(input) /\ pos # Len(input) /\ pos + 1 \in 0..Len(input)
    BY <1>1, Facts, HereIsHead DEF AtEnd, IInv
  <2>2. Brought(input[pos + 1]) = 0
    BY <1>2, <2>1, WaitFacts, BroughtIs DEF At, Here
  <2>3. Balance(input)[pos] \in Int
    BY <2>1, ToComeIs
  <2>4. Balance(input)[pos + 1] = Balance(input)[pos] + 0 - 1
    BY <2>1, <2>2, WaitFacts, BalanceFacts
  <2> QED
    BY <1>1, <1>2, <2>1, <2>3, <2>4, GivenOwes
<1>3. CASE /\ At({"tag"}) /\ pos + 1 < Len(input) /\ input[pos + 2].kind = "scalar"
           /\ Give(stack, pos + 2)
  <2>1. /\ pos + 1 \in 0..Len(input) /\ Balance(input)[pos] \in Int
        /\ Balance(input)[pos + 1] = Balance(input)[pos]
    BY <1>3, TagBalance
  <2>2. /\ (pos + 1) + 1 = pos + 2 /\ pos + 1 # Len(input) /\ pos + 2 \in 0..Len(input)
    BY <1>3, Facts, WaitFacts
  <2>3. Brought(input[pos + 2]) = 0
    BY <1>3, <2>1, <2>2, WaitFacts, BroughtIs
  <2>4. Balance(input)[pos + 2] = Balance(input)[pos + 1] + 0 - 1
    BY <2>1, <2>2, <2>3, WaitFacts, BalanceFacts
  <2> QED
    BY <1>1, <1>3, <2>1, <2>2, <2>4, GivenOwes
<1> QED
  BY <1>2, <1>3 DEF Direct

LEMMA IgnoredOwes ==
  ASSUME IInv, ItemsOwed, Definite(input), Ignored
  PROVE  ItemsOwed'
<1>1. phase = "value" /\ UNCHANGED <<input, first, whole>>
  BY DEF Ignored, Asked
<1>2. PICK p \in pos..Len(input) : p = ItemEnd(pos, MaxDepth) /\ Give(stack, p)
  BY DEF Ignored
<1> DEFINE s == Spot(MaxDepth, pos, 1, 0)
<1>3. s \in Spots(input) /\ s.at = pos /\ s.items = 1
  BY WaitFacts, Facts, CursorAssumption DEF IsItems, Spot, Spots, AtValue
<1>4. After(input)[s] = p /\ p # NoEnd /\ p \in 0..Len(input)
  BY <1>2, Facts, WaitFacts DEF ItemEnd, NoEnd
<1> HIDE DEF s
<1>5. Balance(input)[p] = Balance(input)[pos] - 1
  BY <1>3, <1>4, WaitFacts, WalkBalance
<1> QED
  BY <1>1, <1>2, <1>4, <1>5, GivenOwes

LEMMA OptionOwes ==
  ASSUME ItemsOwed, OptionSome
  PROVE  ItemsOwed'
BY DEF OptionSome, ItemsOwed, Asked

LEMMA CallOwes ==
  ASSUME IInv, NEW t \in Types, Call(t)
  PROVE  ItemsOwed'
<1>1. /\ phase' = "value" /\ first' = pos /\ pos' = pos /\ input' = input /\ stack' = <<>>
      /\ whole' = TRUE
  BY DEF Call, IInv
<1>2. Owed(<<>>, 0)
  BY ChainEmpty DEF Owed
<1>3. AllCounting(<<>>)
  BY DEF AllCounting
<1>4. Suffices(0 + 1, ToCome(input, pos, pos), TRUE)
  BY ToComeIs DEF Suffices
<1>5. Suffices(0 + (IF phase' = "value" THEN 1 ELSE 0), ToCome(input', first', pos'), whole')
  BY <1>1, <1>4
<1>6. Owed(stack', 0) /\ AllCounting(stack') /\ phase' # "idle"
  BY <1>1, <1>2, <1>3
<1> QED
  BY <1>5, <1>6 DEF ItemsOwed

(* A head is taken and its frame is owed what it brings.                     *)
LEMMA PushOwes ==
  ASSUME IInv, ItemsOwed, phase = "value",
         NEW frame \in FrameRecord, Counting(frame), stack' = Append(stack, frame),
         phase' \in {"value", "access"}, UNCHANGED <<input, first, outcome, whole>>,
         pos' \in 0..Len(input),
         Balance(input)[pos'] = Balance(input)[pos] + Left(frame)
                                  + (IF phase' = "value" THEN 0 ELSE -1)
  PROVE  ItemsOwed'
<1>1. PICK d \in Int : Owed(stack, d) /\ Suffices(d + 1, ToCome(input, first, pos), whole)
  BY DEF ItemsOwed
<1>2. /\ Owed(Append(stack, frame), d + Left(frame)) /\ AllCounting(Append(stack, frame))
      /\ Left(frame) \in Nat
  BY <1>1, Facts, OwedAppend, LeftCounts DEF ItemsOwed
<1>3. /\ ToCome(input, first, pos') =
           ToCome(input, first, pos) + Balance(input)[pos'] - Balance(input)[pos]
      /\ ToCome(input, first, pos) \in Int /\ Balance(input)[pos] \in Int
  BY Facts, ToComeIs
<1>4. Suffices(d + Left(frame) + (IF phase' = "value" THEN 1 ELSE 0),
               ToCome(input, first, pos'), whole)
  <2>1. CASE phase' = "value"
    <3>1. ToCome(input, first, pos') = ToCome(input, first, pos) + Left(frame)
      BY <1>2, <1>3, <2>1
    <3> QED
      BY <1>1, <1>2, <1>3, <2>1, <3>1 DEF Suffices
  <2>2. CASE phase' = "access"
    <3>1. ToCome(input, first, pos') = ToCome(input, first, pos) + Left(frame) - 1
      BY <1>2, <1>3, <2>2
    <3> QED
      BY <1>1, <1>2, <1>3, <2>2, <3>1 DEF Suffices
  <2> QED
    BY <2>1, <2>2
<1>5. d + Left(frame) \in Int
  BY <1>2
<1> QED
  BY <1>2, <1>4, <1>5, MoveOwes

LEMMA TagOwes ==
  ASSUME IInv, ItemsOwed, Definite(input), Tag
  PROVE  ItemsOwed'
<1> DEFINE frame == Frame("tag", 1, type)
<1>1. frame \in FrameRecord /\ Counting(frame) /\ Left(frame) = 0
  BY Facts DEF Frame, FrameRecord, Counting, Left, Indefinite
<1>2. /\ phase = "value" /\ phase' = "value" /\ pos' = pos + 1
      /\ stack' = Append(stack, frame) /\ UNCHANGED <<input, first, outcome, whole>>
      /\ At({"tag"})
  BY DEF Tag, Asked
<1> HIDE DEF frame
<1>3. /\ pos + 1 \in 0..Len(input) /\ Balance(input)[pos] \in Int
      /\ Balance(input)[pos + 1] = Balance(input)[pos]
  BY <1>2, TagBalance
<1>4. Balance(input)[pos'] = Balance(input)[pos] + Left(frame) + 0
  BY <1>1, <1>2, <1>3
<1> QED
  BY <1>1, <1>2, <1>3, <1>4, PushOwes

LEMMA CollectionOwes ==
  ASSUME IInv, ItemsOwed, Definite(input), Collection
  PROVE  ItemsOwed'
<1>1. CASE \E kind \in {"limit", "depth", "message"} : Fail(kind, pos + 1)
  BY <1>1, FailOwes
<1>2. CASE ~ \E kind \in {"limit", "depth", "message"} : Fail(kind, pos + 1)
  <2> DEFINE frame == Frame(Here.kind, Here.n, type)
  <2>1. /\ ~(Here.n > MaxCollection) /\ stack' = Append(stack, frame) /\ pos' = pos + 1
        /\ phase = "value" /\ phase' = "access" /\ UNCHANGED <<input, first, outcome, whole>>
        /\ Here.kind \in {"array", "map"} /\ ~AtEnd
    BY <1>2 DEF Collection, Asked, At, Collections
  <2>2. /\ Here.n \in Nat \cup {Indefinite} /\ pos + 1 \in 0..Len(input)
        /\ pos \in 0..Len(input) /\ pos # Len(input)
    BY <2>1, Facts, HereIsHead DEF IInv, AtEnd
  <2>3. Here.n # Indefinite
    BY <2>2, WaitFacts, Facts DEF Definite, Here, IsItems
  <2>4. /\ frame.kind = Here.kind /\ frame.remaining = Here.n /\ ~frame.value
        /\ frame \in FrameRecord
    BY <2>1, <2>2, Facts DEF Frame, FrameRecord, Collections
  <2> HIDE DEF frame
  <2>5. Counting(frame) /\ Left(frame) = Inside(Here)
    BY <2>1, <2>2, <2>3, <2>4 DEF Counting, Left, Inside
  <2>6. Brought(Here) = Inside(Here) /\ Left(frame) \in Nat
    BY <2>1, <2>4, <2>5, LeftCounts DEF Brought
  <2>7. /\ Balance(input)[pos + 1] = Balance(input)[pos] + Left(frame) - 1
        /\ Balance(input)[pos] \in Int
    BY <2>2, <2>5, <2>6, WaitFacts, BalanceFacts DEF Here
  <2>8. Balance(input)[pos'] = Balance(input)[pos] + Left(frame) + (-1)
    BY <2>1, <2>6, <2>7
  <2>9. phase' # "value"
    BY <2>1
  <2> QED
    BY <2>1, <2>2, <2>4, <2>5, <2>8, <2>9, PushOwes
<1> QED
  BY <1>1, <1>2

LEMMA EnumOwes ==
  ASSUME IInv, ItemsOwed, Definite(input), EnumContent
  PROVE  ItemsOwed'
<1> DEFINE frame == Frame("variant", Here.n, type)
<1>1. /\ phase = "value" /\ phase' = "value" /\ pos' = pos + 2
      /\ stack' = Append(stack, frame) /\ UNCHANGED <<input, first, outcome, whole>>
      /\ ~AtEnd /\ Here.kind = "map" /\ Here.n \in {1, Indefinite}
      /\ pos + 1 < Len(input) /\ input[pos + 2].kind = "scalar"
  BY DEF EnumContent, EnumMap, At, Asked
<1>2. /\ pos \in 0..Len(input) /\ pos # Len(input) /\ pos + 1 \in 0..Len(input)
      /\ pos + 1 # Len(input) /\ pos + 2 \in 0..Len(input) /\ (pos + 1) + 1 = pos + 2
  BY <1>1, Facts, WaitFacts DEF AtEnd
<1>3. Here.n = 1
  BY <1>1, <1>2, WaitFacts, Facts DEF Definite, Here, IsItems
<1>4. frame \in FrameRecord /\ Counting(frame) /\ Left(frame) = 0
  BY <1>1, <1>3, Facts DEF Frame, FrameRecord, Counting, Left, Indefinite
<1> HIDE DEF frame
<1>5. Brought(input[pos + 1]) = 2 /\ Brought(input[pos + 2]) = 0
  <2>1. Brought(Here) = 2
    BY <1>1, <1>3 DEF Brought, Inside, Indefinite
  <2>2. Brought(input[pos + 2]) = 0
    BY <1>1 DEF Brought
  <2> QED
    BY <2>1, <2>2 DEF Here
<1>6. /\ Balance(input)[pos + 1] = Balance(input)[pos] + 2 - 1
      /\ Balance(input)[pos + 2] = Balance(input)[pos + 1] + 0 - 1
      /\ Balance(input)[pos] \in Int
  BY <1>2, <1>5, WaitFacts, BalanceFacts
<1>7. Balance(input)[pos'] = Balance(input)[pos] + Left(frame) + 0
  BY <1>1, <1>4, <1>6
<1> QED
  BY <1>1, <1>2, <1>4, <1>7, PushOwes

-----------------------------------------------------------------------------
LEMMA TopCounts ==
  ASSUME IInv, ItemsOwed, phase = "access"
  PROVE  /\ stack # <<>> /\ Top \in FrameRecord /\ Counting(Top) /\ Left(Top) \in Nat
         /\ Top.remaining \in Nat /\ Top.remaining # Indefinite
<1>1. stack # <<>> /\ AllCounting(stack)
  BY DEF IInv, ItemsOwed
<1>2. PICK d \in Int : Owed(stack, d)
  BY DEF ItemsOwed
<1>3. Top \in FrameRecord /\ Counting(Top)
  BY <1>1, <1>2, Facts, EnteredPop, OwedPop DEF Top
<1>4. Top.remaining \in Nat /\ Top.remaining # Indefinite
  BY <1>3 DEF FrameRecord, Counting
<1> QED
  BY <1>1, <1>3, <1>4, LeftCounts

(* A frame goes; what it was still owed nobody will take.                    *)
LEMMA PopOwes ==
  ASSUME IInv, ItemsOwed, phase = "access", Give(Pop, pos),
         UNCHANGED <<input, first>>, whole' \in BOOLEAN,
         ~whole => ~whole', whole /\ ~whole' => Left(Top) > 0
  PROVE  ItemsOwed'
<1>1. PICK d \in Int : Owed(stack, d) /\ Suffices(d + 0, ToCome(input, first, pos), whole)
  BY DEF ItemsOwed
<1>2. Owed(Pop, d - Left(Top)) /\ AllCounting(Pop) /\ d - Left(Top) \in Int
  BY <1>1, TopCounts, Facts, OwedPop DEF Pop, Top, ItemsOwed
<1>3. ToCome(input, first, pos) \in Int /\ Left(Top) \in Nat
  BY Facts, ToComeIs, TopCounts
<1>4. Suffices(d - Left(Top), ToCome(input, first, pos), whole')
  <2>1. whole => d <= ToCome(input, first, pos)
    BY <1>1 DEF Suffices
  <2>2. ~whole => d < ToCome(input, first, pos)
    BY <1>1 DEF Suffices
  <2>3. CASE whole'
    <3>1. d <= ToCome(input, first, pos)
      BY <2>1, <2>3
    <3>2. d - Left(Top) <= ToCome(input, first, pos)
      BY <1>3, <3>1
    <3> QED
      BY <2>3, <3>2 DEF Suffices
  <2>4. CASE ~whole'
    <3>1. d - Left(Top) < ToCome(input, first, pos)
      <4>1. CASE whole
        BY <1>3, <2>1, <2>4, <4>1
      <4>2. CASE ~whole
        BY <1>3, <2>2, <4>2
      <4> QED
        BY <4>1, <4>2
    <3> QED
      BY <2>4, <3>1 DEF Suffices
  <2> QED
    BY <2>3, <2>4
<1> QED
  BY <1>2, <1>4, GiveOwes

LEMMA ReturnOwes ==
  ASSUME IInv, ItemsOwed, TagReturns \/ VariantEnds
  PROVE  ItemsOwed'
<1>1. phase = "access" /\ Top.remaining # Indefinite
  BY TopCounts DEF TagReturns, VariantEnds
<1>2. Give(Pop, pos) /\ UNCHANGED <<input, first, whole>>
  BY <1>1 DEF TagReturns, VariantEnds
<1>3. whole' \in BOOLEAN
  BY <1>2, Facts
<1> QED
  BY <1>1, <1>2, <1>3, PopOwes

LEMMA AccessOwes ==
  ASSUME IInv, ItemsOwed, Leave \/ Exhausted \/ BreakEnds
  PROVE  ItemsOwed'
<1>1. /\ phase = "access" /\ Top.kind \in Collections /\ ~Top.value
      /\ Top.remaining # Indefinite /\ Top.remaining \in Nat
  BY TopCounts DEF Leave, Exhausted, BreakEnds, Visiting
<1>2. ASSUME NEW complete \in BOOLEAN, Return(pos, complete),
             ~complete => Top.remaining # 0
      PROVE  ItemsOwed'
  <2>1. Give(Pop, pos) /\ UNCHANGED <<input, first>> /\ whole' = (whole /\ complete)
    BY <1>2 DEF Return
  <2>2. Top.remaining # 0 => Left(Top) > 0
    <3>1. (IF Top.value THEN 1 ELSE 0) = 0
      BY <1>1
    <3> QED
      BY <1>1, <3>1 DEF Left, Collections
  <2> QED
    BY <1>1, <1>2, <2>1, <2>2, Facts, PopOwes
<1>3. CASE Leave
  BY <1>2, <1>3 DEF Leave
<1>4. CASE Exhausted
  BY <1>2, <1>4, FailOwes DEF Exhausted, NoMore
<1>5. CASE BreakEnds
  BY <1>1, <1>5 DEF BreakEnds
<1> QED
  BY <1>3, <1>4, <1>5

(* One of the items a frame is owed is asked for.                            *)
LEMMA AskOwes ==
  ASSUME IInv, ItemsOwed, phase = "access", NEW frame \in FrameRecord, Counting(frame),
         Ask(frame), Left(Top) = Left(frame) + 1
  PROVE  ItemsOwed'
<1> DEFINE s == [stack EXCEPT ![Len(stack)] = frame]
<1>1. /\ stack' = s /\ phase' = "value" /\ pos' = pos
      /\ UNCHANGED <<input, first, outcome, whole>>
  BY DEF Ask, WithTop
<1>2. PICK d \in Int : Owed(stack, d) /\ Suffices(d + 0, ToCome(input, first, pos), whole)
  BY DEF ItemsOwed
<1>3. Owed(s, d - Left(Top) + Left(frame)) /\ AllCounting(s)
  BY <1>2, TopCounts, Facts, OwedTop DEF Top, ItemsOwed
<1>4. Left(frame) \in Nat
  BY LeftCounts
<1>5. d - Left(Top) + Left(frame) = d - 1 /\ (d - 1) + 1 = d + 0
  BY <1>4
<1> HIDE DEF s
<1>6. Suffices((d - 1) + (IF phase' = "value" THEN 1 ELSE 0), ToCome(input, first, pos'), whole)
  BY <1>1, <1>2, <1>5
<1>7. Owed(s, d - 1) /\ d - 1 \in Int
  BY <1>3, <1>5
<1> QED
  BY <1>1, <1>3, <1>6, <1>7, MoveOwes

LEMMA ValueOwes ==
  ASSUME IInv, ItemsOwed, ValueOfEntry
  PROVE  ItemsOwed'
<1> DEFINE frame == [Top EXCEPT !.value = FALSE]
<1>1. /\ phase = "access" /\ Top.kind = "map" /\ Top.value /\ Ask(frame)
  BY DEF ValueOfEntry
<1>2. Top \in FrameRecord /\ Top.remaining \in Nat /\ Top.remaining # Indefinite
  BY <1>1, TopCounts
<1>3. /\ frame \in FrameRecord /\ ~frame.value /\ frame.kind = "map"
      /\ frame.remaining = Top.remaining
  BY <1>1, <1>2 DEF FrameRecord
<1> HIDE DEF frame
<1>4. Left(Top) = 2 * Top.remaining + 1
  BY <1>1, <1>2 DEF Left
<1>5. Left(frame) = 2 * Top.remaining + 0
  <2>1. (IF frame.value THEN 1 ELSE 0) = 0
    BY <1>3
  <2> QED
    BY <1>2, <1>3, <2>1 DEF Left
<1>6. Counting(frame) /\ Left(Top) = Left(frame) + 1
  BY <1>2, <1>3, <1>4, <1>5 DEF Counting
<1> QED
  BY <1>1, <1>3, <1>6, AskOwes

LEMMA EntryOwes ==
  ASSUME IInv, ItemsOwed, Entry
  PROVE  ItemsOwed'
<1> DEFINE frame == [Top EXCEPT !.seen = @ + 1, !.value = (Top.kind = "map"),
                       !.remaining = IF @ = Indefinite THEN @ ELSE @ - 1]
<1>1. /\ phase = "access" /\ Top.kind \in {"array", "map"} /\ ~Top.value
      /\ Top.remaining # Indefinite
  BY TopCounts DEF Entry, Visiting, Collections
<1>2. /\ Top \in FrameRecord /\ Top.remaining \in Nat /\ Top.remaining > 0 /\ Top.seen \in Nat
      /\ Ask(frame)
  BY <1>1, TopCounts DEF Entry, FrameRecord
<1>3. /\ frame.value <=> Top.kind = "map"
      /\ frame.kind = Top.kind /\ frame.remaining = Top.remaining - 1
  BY <1>1, <1>2 DEF FrameRecord
<1>4. frame \in FrameRecord
  <2>1. Top.seen + 1 \in Nat /\ Top.remaining - 1 \in Nat
    BY <1>2
  <2> QED
    BY <1>1, <1>2, <2>1 DEF FrameRecord
<1> HIDE DEF frame
<1>5. frame.remaining # Indefinite /\ frame.remaining \in Nat
  BY <1>2, <1>3 DEF Indefinite
<1>6. Left(Top) = Left(frame) + 1
  <2>1. CASE Top.kind = "array"
    BY <1>1, <1>2, <1>3, <1>5, <2>1 DEF Left
  <2>2. CASE Top.kind = "map"
    <3>1. (IF Top.value THEN 1 ELSE 0) = 0
      BY <1>1
    <3>2. frame.value /\ (IF frame.value THEN 1 ELSE 0) = 1
      BY <1>3, <2>2
    <3>3. Left(Top) = 2 * Top.remaining + 0
      BY <1>1, <2>2, <3>1 DEF Left
    <3>4. Left(frame) = 2 * (Top.remaining - 1) + 1
      BY <1>3, <1>5, <2>2, <3>2 DEF Left
    <3> QED
      BY <1>2, <3>3, <3>4
  <2> QED
    BY <1>1, <2>1, <2>2
<1> QED
  BY <1>1, <1>2, <1>4, <1>5, <1>6, AskOwes DEF Counting

LEMMA ErrorOwes ==
  ASSUME ItemsOwed,
         \/ Eof \/ ScalarRefused \/ DirectRefused \/ UnexpectedBreak
         \/ EnumMismatch \/ EnumContentMismatch \/ IgnoredFails \/ Cut \/ VisitorFails
  PROVE  ItemsOwed'
<1>1. PICK kind, p : Fail(kind, p)
  BY DEF Eof, ScalarRefused, DirectRefused, UnexpectedBreak, EnumMismatch,
         EnumContentMismatch, IgnoredFails, Cut, VisitorFails
<1> QED
  BY <1>1, FailOwes

(* from_slice: a visitor that leaves entries behind is found out, wherever   *)
(* it stands.  What it left is to come when the call ends, so that the end   *)
(* is not that of the item.                                                  *)
THEOREM DroppedIsNoticed == Safety => []NothingDropped
<1> DEFINE Inv == Definite(input) => ItemsOwed
<1>1. Init => Inv
  <2> SUFFICES ASSUME Init PROVE ItemsOwed
    OBVIOUS
  <2>1. AllCounting(stack)
    BY DEF Init, AllCounting
  <2> QED
    BY <2>1 DEF Init, ItemsOwed
<1>2. IInv /\ Inv /\ [Next]_vars => Inv'
  <2> SUFFICES ASSUME IInv, ItemsOwed, Definite(input), [Next]_vars PROVE ItemsOwed'
    <3>1. [Next]_vars => input' = input
      BY DEF Next, Step, Asking, Answering, vars, Fail, Call, Eof, Scalar, ScalarRefused, Direct,
             DirectRefused, UnexpectedBreak, Tag, Collection, OptionNone, OptionSome,
             EnumName, EnumContent, EnumMismatch, EnumContentMismatch, Ignored,
             IgnoredFails, Leave, Exhausted, BreakEnds, Cut, Entry, ValueOfEntry,
             ErrorReturns, TagReturns, VariantEnds, VisitorFails, NoMore, Return, Ask
    <3> QED
      BY <3>1
  <2>1. CASE Asking
    BY <2>1, ScalarOwes, DirectOwes, IgnoredOwes, OptionOwes, TagOwes,
       CollectionOwes, EnumOwes, ErrorOwes DEF Asking
  <2>2. CASE Answering
    BY <2>2, AccessOwes, EntryOwes, ValueOwes, ReturnOwes, ErrorOwes DEF Answering
  <2>3. CASE VisitorFails \/ \E t \in Types : Call(t)
    BY <2>3, ErrorOwes, CallOwes
  <2>4. CASE UNCHANGED vars
    BY <2>4 DEF vars, ItemsOwed
  <2>5. CASE ErrorReturns
    BY <2>5, ErrorReturnsOwes
  <2> QED
    BY <2>1, <2>2, <2>3, <2>4, <2>5 DEF Next, Step
<1>3. IInv /\ Inv => NothingDropped
  <2> SUFFICES ASSUME IInv, Definite(input) => ItemsOwed,
                      Accepted, ItemEnd(0, MaxLen) = Len(input),
                      \A i \in DOMAIN input : input[i].n # Indefinite, ~whole
               PROVE  FALSE
    BY DEF NothingDropped
  <2>1. Definite(input)
    BY DEF Definite
  <2>2. ToCome(input, 0, Len(input)) > 0
    <3>1. outcome = Ok(0, Len(input)) /\ phase = "idle"
      BY DEF Accepted
    <3> QED
      BY <2>1, <3>1 DEF ItemsOwed, Ok
  <2> DEFINE s == Spot(MaxLen, 0, 1, 0)
  <2>3. IsRest(input, 0, 1, 0) /\ Len(input) \in Nat
    BY WaitFacts, Facts, CursorAssumption DEF IsRest, AtValue
  <2>4. s \in Spots(input) /\ s.at = 0 /\ s.items = 1
    BY <2>3, RestSpot DEF Spot
  <2>5. After(input)[s] = Len(input) /\ Len(input) # NoEnd
    BY <2>3 DEF ItemEnd, NoEnd
  <2> HIDE DEF s
  <2>6. Balance(input)[Len(input)] = Balance(input)[0] - 1
    BY <2>1, <2>4, <2>5, WaitFacts, WalkBalance
  <2>7. Balance(input)[0] \in Int
    BY <2>3, ToComeIs
  <2> QED
    BY <2>2, <2>6, <2>7 DEF ToCome
<1> HIDE DEF Inv
<1> QED
  BY <1>1, <1>2, <1>3, InductiveInvariant, PTL DEF Safety
=============================================================================
