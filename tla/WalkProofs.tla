----------------------------- MODULE WalkProofs ------------------------------
(***************************************************************************)
(* Proofs about what is made of walks, for every slice and every limit.     *)
(* SliceIterators walks a slice item by item: what the iterators return     *)
(* covers the slice from its first byte on without a gap, and is cut where  *)
(* the grammar cuts it.  SkipAgreement walks the same bytes again: the      *)
(* second part writes a step of a walker as a function and follows two walks *)
(* step by step, until one of them has a reason of its own to stop, and so   *)
(* shows that the walkers agree.  The last part is about the events of a     *)
(* parser: by induction on how deep items nest and on the entries, from the  *)
(* last one backwards, a reader of them sees the grammar's items end.        *)
(***************************************************************************)
EXTENDS SkipAgreement, SkipProofs, FiniteSetTheorems

-----------------------------------------------------------------------------
(* A walk.                                                                  *)

(* A walk that has begun at a moves on with its first byte and never back.  *)
Moved(a) == a < pos \/ (phase = "item" /\ pos = a /\ stack = <<>>)

LEMMA CompleteAdvances ==
  ASSUME IInv, NEW a \in Nat, Moved(a), NEW p \in Nat, pos < p, Complete(p)
  PROVE  a < pos' /\ phase' # "stop" /\ outcome' = outcome
<1>1. pos' = p /\ phase' = "done" /\ outcome' = outcome
  BY DEF Complete
<1> QED
  BY <1>1, State DEF Moved

LEMMA OpenAdvances ==
  ASSUME IInv, NEW a \in Nat, Moved(a), HeadError(pos) = NoError, NEW frame, Open(frame)
  PROVE  a < pos' /\ phase' # "stop" /\ outcome' = outcome
<1>1. pos' = HeadEnd(pos) /\ phase' = "next" /\ outcome' = outcome
  BY DEF Open
<1>2. HeadEnd(pos) \in (pos + 1)..Len(input)
  BY ReadHead
<1> QED
  BY <1>1, <1>2, State DEF Moved

LEMMA WalkAdvances ==
  ASSUME IInv, NEW a \in Nat, Moved(a), Walk
  PROVE  \/ phase' # "stop" /\ a < pos' /\ outcome' = outcome
         \/ phase' = "stop" /\ outcome' = Ok(pos') /\ a < pos' /\ stack' = <<>>
         \/ phase' = "stop" /\ outcome'.tag = "error"
<1> DEFINE Goes == phase' # "stop" /\ a < pos' /\ outcome' = outcome
           Fails == phase' = "stop" /\ outcome'.tag = "error"
<1>0. \A kind, at : Fail(Error(kind, at)) => Fails
  BY DEF Fail, Error
<1>1. HeadError(pos) # NoError /\ Fail(HeadError(pos)) => Fails
  <2>1. HeadError(pos) # NoError =>
          \E kind \in ErrorKinds, at \in 0..Len(input) : HeadError(pos) = Error(kind, at)
    BY State, HeadErrorPlaced
  <2> QED
    BY <2>1, <1>0
<1>2. HeadError(pos) = NoError =>
        HeadEnd(pos) \in Nat /\ pos < HeadEnd(pos) /\ Argument(pos) \in Nat \cup {Indefinite}
  BY ReadHead, State
<1>3. CASE TooDeep
  BY <1>0, <1>3 DEF TooDeep
<1>4. CASE HeadFails \/ ChunkHeadFails
  BY <1>1, <1>4 DEF HeadFails, ChunkHeadFails
<1>5. CASE Integer
  <2>1. HeadError(pos) = NoError
    BY <1>5 DEF Integer, AtHead
  <2>2. Complete(HeadEnd(pos)) => Goes
    BY <1>2, <2>1, CompleteAdvances
  <2> QED
    BY <1>0, <1>5, <2>2 DEF Integer
<1>6. CASE DefiniteString
  <2>1. HeadError(pos) = NoError /\ Argument(pos) # Indefinite
    BY <1>6 DEF DefiniteString, AtHead
  <2>2. HeadEnd(pos) + Argument(pos) \in Nat /\ pos < HeadEnd(pos) + Argument(pos)
    BY <1>2, <2>1, State
  <2>3. Complete(HeadEnd(pos) + Argument(pos)) => Goes
    BY <2>2, CompleteAdvances
  <2> QED
    BY <1>0, <1>6, <2>3 DEF DefiniteString
<1>7. CASE IndefiniteString
  <2>1. HeadError(pos) = NoError
    BY <1>7 DEF IndefiniteString, AtHead
  <2>2. \/ Fail(Error("nondeterministic", pos))
        \/ pos' = HeadEnd(pos) /\ phase' = "chunks" /\ outcome' = outcome
    BY <1>7 DEF IndefiniteString
  <2>3. a < HeadEnd(pos)
    BY <1>2, <2>1, State DEF Moved
  <2> QED
    BY <1>0, <2>2, <2>3
<1>8. CASE Container \/ Tag
  <2>1. HeadError(pos) = NoError
    BY <1>8 DEF Container, Tag, AtHead
  <2>2. \A frame : Open(frame) => Goes
    BY <2>1, OpenAdvances
  <2> QED
    BY <1>0, <1>8, <2>2 DEF Container, Tag
<1>9. CASE Simple
  <2>1. HeadError(pos) = NoError
    BY <1>9 DEF Simple, AtHead
  <2>2. Complete(HeadEnd(pos)) => Goes
    BY <1>2, <2>1, CompleteAdvances
  <2> QED
    BY <1>0, <1>9, <2>2 DEF Simple
<1>10. CASE ChunkCut \/ ContainerCut
  BY <1>0, <1>10 DEF ChunkCut, ContainerCut
<1>11. CASE ChunksEnd
  <2>1. pos + 1 \in Nat /\ pos < pos + 1
    BY State
  <2> QED
    BY <1>11, <2>1, CompleteAdvances DEF ChunksEnd
<1>12. CASE Chunk
  <2>1. HeadError(pos) = NoError /\ phase = "chunks"
    BY <1>12 DEF Chunk
  <2>2. CASE Argument(pos) = Indefinite
    BY <1>0, <1>12, <2>2 DEF Chunk
  <2>3. CASE Argument(pos) # Indefinite
    <3>1. HeadEnd(pos) + Argument(pos) \in Nat /\ a < HeadEnd(pos) + Argument(pos)
      BY <1>2, <2>1, <2>3, State DEF Moved
    <3>2. pos' = HeadEnd(pos) + Argument(pos) /\ phase' = phase /\ outcome' = outcome => Goes
      BY <2>1, <3>1
    <3> QED
      BY <1>0, <1>12, <3>2 DEF Chunk
  <2> QED
    BY <2>2, <2>3
<1>13. CASE Finish
  BY <1>13 DEF Finish, Moved
<1>14. CASE ItemDone
  <2>1. phase = "done"
    BY <1>14 DEF ItemDone
  <2>2. a < pos
    BY <2>1 DEF Moved
  <2>3. Fails \/ (phase' = "next" /\ UNCHANGED <<pos, outcome>>)
    BY <1>0, <1>14 DEF ItemDone
  <2> QED
    BY <2>2, <2>3
<1>15. CASE ContainerEnds
  <2>1. phase = "next" /\ pos' = pos /\ phase' = "done" /\ outcome' = outcome
    BY <1>15 DEF ContainerEnds, Close
  <2> QED
    BY <2>1 DEF Moved
<1>16. CASE ContainerBreak
  <2>1. phase = "next"
    BY <1>16 DEF ContainerBreak
  <2>2. a < pos
    BY <2>1 DEF Moved
  <2>3. Fails \/ (pos' = pos + 1 /\ phase' = "done" /\ outcome' = outcome)
    BY <1>0, <1>16 DEF ContainerBreak, Close
  <2> QED
    BY <2>2, <2>3, State
<1>17. CASE NextItem
  <2>1. phase = "next"
    BY <1>17 DEF NextItem
  <2>2. a < pos
    BY <2>1 DEF Moved
  <2>3. Fails \/ (phase' = "item" /\ UNCHANGED <<pos, outcome>>)
    BY <1>0, <1>17 DEF NextItem
  <2> QED
    BY <2>2, <2>3
<1> HIDE DEF Goes, Fails
<1> QED
  BY <1>3, <1>4, <1>5, <1>6, <1>7, <1>8, <1>9, <1>10, <1>11, <1>12, <1>13, <1>14,
     <1>15, <1>16, <1>17 DEF Walk, Goes, Fails

-----------------------------------------------------------------------------
(* What is returned.                                                        *)

LEMMA Entries ==
  ASSUME IteratorTypeOK
  PROVE  /\ yielded \in Seq(EntryRecord) /\ Count \in Nat /\ Count = Len(yielded)
         /\ \A i \in 1..Count : /\ yielded[i] \in EntryRecord
                                /\ yielded[i].from \in Nat /\ yielded[i].to \in Nat
         /\ Begins(Count + 1) \in Nat
<1>0. MaxLen \in Nat
  BY SkipAssumption
<1>1. yielded \in Seq(EntryRecord) /\ Count = Len(yielded) /\ Count \in Nat
  BY DEF IteratorTypeOK, Count
<1>2. ASSUME NEW i \in 1..Count
      PROVE  yielded[i] \in EntryRecord /\ yielded[i].from \in Nat /\ yielded[i].to \in Nat
  <2>1. yielded[i] \in EntryRecord
    BY <1>1
  <2>2. \A e \in EntryRecord : e.from \in Offsets /\ e.to \in Offsets
    BY DEF EntryRecord
  <2> QED
    BY <1>0, <2>1, <2>2 DEF Offsets
<1>3. Begins(Count + 1) \in Nat
  <2>1. CASE Count = 0
    BY <2>1 DEF Begins
  <2>2. CASE Count # 0
    <3>1. Count \in 1..Count /\ Count + 1 # 1 /\ (Count + 1) - 1 = Count
      BY <1>1, <2>2
    <3> QED
      BY <1>2, <3>1 DEF Begins
  <2> QED
    BY <2>1, <2>2
<1> QED
  BY <1>1, <1>2, <1>3

(* Before the end of the slice a sequence decoder has not failed.           *)
LEMMA NotFailed ==
  ASSUME IteratorTypeOK, Tiled, iterator = "items", Len(input) \in Nat,
         Begins(Count + 1) < Len(input)
  PROVE  index = Count /\ \A i \in 1..Count : yielded[i].tag = "item"
<1>1. Count \in Nat /\ Begins(Count + 1) \in Nat
  BY Entries
<1>2. ASSUME NEW i \in 1..Count, yielded[i].tag # "item" PROVE FALSE
  <2>1. i = Count /\ yielded[i].to = Len(input)
    BY <1>2 DEF Tiled
  <2>2. Count + 1 # 1 /\ (Count + 1) - 1 = Count
    BY <1>1, <2>1
  <2>3. Begins(Count + 1) = Len(input)
    BY <2>1, <2>2 DEF Begins
  <2> QED
    BY <1>1, <2>3
<1>3. Count > 0 => Count \in 1..Count
  BY <1>1
<1> QED
  BY <1>2, <1>3 DEF Tiled

(* One more entry, where the last one ended.                                *)
LEMMA YieldTiles ==
  ASSUME IteratorTypeOK, Tiled, Len(input) \in Nat, Len(input) <= MaxLen,
         NEW entry \in EntryRecord,
         entry.from = Begins(Count + 1), entry.from < entry.to, entry.to <= Len(input),
         iterator = "items" /\ entry.tag # "item" =>
           entry.to = Len(input) /\ entry.item = index,
         index' = IF iterator = "items" /\ entry.tag = "item" THEN index + 1 ELSE index,
         Yield(entry), UNCHANGED <<input, iterator>>
  PROVE  yielded' \in Seq(EntryRecord) /\ Tiled'
<1>1. /\ yielded \in Seq(EntryRecord) /\ Count \in Nat /\ Count = Len(yielded)
      /\ entry.from \in Nat
  BY Entries
<1>2. yielded' = Append(yielded, entry) /\ pos' = entry.to
  BY DEF Yield
<1>3. /\ yielded' \in Seq(EntryRecord) /\ Count' = Count + 1
      /\ \A i \in 1..Count : yielded'[i] = yielded[i]
      /\ yielded'[Count + 1] = entry
  BY <1>1, <1>2, Pushed DEF Count
<1>4. iterator = "items" => index = Count /\ \A i \in 1..Count : yielded[i].tag = "item"
  <2>1. Begins(Count + 1) < Len(input)
    <3>1. entry.to \in Nat
      <4>1. \A e \in EntryRecord : e.to \in Offsets
        BY DEF EntryRecord
      <4> QED
        BY <4>1, SkipAssumption DEF Offsets
    <3> QED
      BY <1>1, <3>1
  <2> QED
    BY <2>1, NotFailed
<1>5. ASSUME NEW i \in 1..(Count + 1) PROVE Begins(i)' = Begins(i)
  <2>1. CASE i = 1
    BY <2>1 DEF Begins
  <2>2. CASE i # 1
    <3>1. i - 1 \in 1..Count
      BY <1>1, <2>2
    <3>2. yielded'[i - 1] = yielded[i - 1]
      BY <1>3, <3>1
    <3> QED
      BY <2>2, <3>2 DEF Begins
  <2> QED
    BY <2>1, <2>2
<1>6. ASSUME NEW i \in 1..(Count + 1)
      PROVE  /\ yielded'[i].from = Begins(i)'
             /\ yielded'[i].from < yielded'[i].to /\ yielded'[i].to <= Len(input)
             /\ iterator = "items" /\ yielded'[i].tag # "item" =>
                  i = Count + 1 /\ yielded'[i].to = Len(input) /\ yielded'[i].item = i - 1
  <2>1. CASE i \in 1..Count
    <3>1. yielded'[i] = yielded[i]
      BY <1>3, <2>1
    <3>2. /\ yielded[i].from = Begins(i)
          /\ yielded[i].from < yielded[i].to /\ yielded[i].to <= Len(input)
      BY <2>1 DEF Tiled
    <3>3. iterator = "items" => yielded[i].tag = "item"
      BY <1>4, <2>1
    <3> QED
      BY <1>5, <3>1, <3>2, <3>3
  <2>2. CASE i = Count + 1
    <3>1. yielded'[i] = entry
      BY <1>3, <2>2
    <3>2. i - 1 = Count
      BY <1>1, <2>2
    <3> QED
      BY <1>4, <1>5, <2>2, <3>1, <3>2
  <2> QED
    BY <1>1, <2>1, <2>2
<1>7. Begins(Count + 1)' = entry.to
  <2>1. Count' + 1 # 1 /\ (Count' + 1) - 1 = Count + 1
    BY <1>1, <1>3
  <2> QED
    BY <1>3, <2>1 DEF Begins
<1>8. iterator = "items" =>
        index' = IF entry.tag # "item" THEN Count ELSE Count + 1
  BY <1>4
<1>9. Tiled'
  <2>1. (Count + 1) - 1 = Count /\ Count + 1 > 0
    BY <1>1
  <2>2. Between' => pos' = Begins(Count + 1)'
    BY <1>2, <1>7
  <2> QED
    BY <1>3, <1>6, <1>8, <2>1, <2>2 DEF Tiled
<1> QED
  BY <1>3, <1>9

-----------------------------------------------------------------------------
(* The invariant, action by action.                                         *)

(* Nothing is being walked.                                                 *)
LEMMA AtRest ==
  ASSUME IInv, pos' \in 0..Len(input), phase' \in {"item", "stop"}, stack' = <<>>,
         outcome' = Running, UNCHANGED <<input, mode, string>>
  PROVE  IInv'
<1>1. TypeOK'
  BY DEF IInv, TypeOK, OutcomeOK
<1>2. Depth' = 0
  BY DEF Depth
<1>3. DepthBounded' /\ StackOK'
  BY <1>2, SkipAssumption DEF DepthBounded, StackOK
<1> QED
  BY <1>1, <1>3 DEF IInv

LEMMA Resting ==
  ASSUME IteratorIInv
  PROVE  /\ Len(input) \in Nat /\ Len(input) <= MaxLen /\ MaxLen \in Nat
         /\ pos \in 0..Len(input)
         /\ Between => stack = <<>> /\ pos = Begins(Count + 1)
BY State DEF IteratorIInv, InWalk, Tiled

(* An iterator at rest returns an entry that begins at pos.                 *)
LEMMA EntryAtRest ==
  ASSUME IteratorIInv, Between, NEW entry \in EntryRecord,
         entry.from = pos, entry.to \in (pos + 1)..Len(input),
         iterator = "items" => entry.tag = "item",
         index' = IF iterator = "items" THEN index + 1 ELSE index,
         Yield(entry),
         UNCHANGED <<input, mode, phase, string, stack, outcome, iterator, from>>
  PROVE  IteratorIInv'
<1>1. /\ Len(input) \in Nat /\ Len(input) <= MaxLen /\ pos \in 0..Len(input)
      /\ stack = <<>> /\ pos = Begins(Count + 1)
  BY Resting
<1>2. phase = "stop" /\ outcome = Running
  BY DEF Between
<1>3. pos' \in 0..Len(input)
  BY <1>1 DEF Yield
<1>4. IInv'
  BY <1>1, <1>2, <1>3, AtRest DEF IteratorIInv
<1>5. yielded' \in Seq(EntryRecord) /\ Tiled'
  <2>1. entry.from < entry.to /\ entry.to <= Len(input)
    BY <1>1
  <2>2. index' = IF iterator = "items" /\ entry.tag = "item" THEN index + 1 ELSE index
    OBVIOUS
  <2>3. IteratorTypeOK /\ Tiled
    BY DEF IteratorIInv
  <2> QED
    BY <1>1, <2>1, <2>2, <2>3, YieldTiles
<1>6. IteratorTypeOK'
  BY <1>5 DEF IteratorIInv, IteratorTypeOK
<1>7. InWalk'
  BY <1>1, <1>2 DEF InWalk, Between
<1> QED
  BY <1>4, <1>5, <1>6, <1>7 DEF IteratorIInv

LEMMA OneByteInvariant == ASSUME IteratorIInv, OneByteItem PROVE IteratorIInv'
<1>1. /\ iterator = "items" /\ Between /\ pos < Len(input)
      /\ Yield(Item(pos, pos + 1)) /\ index' = index + 1
      /\ UNCHANGED <<input, mode, phase, string, stack, outcome, iterator, from>>
  BY DEF OneByteItem, Called
<1>2. pos + 1 \in (pos + 1)..Len(input) /\ pos \in Offsets /\ pos + 1 \in Offsets
  BY <1>1, Resting DEF Offsets
<1>3. Item(pos, pos + 1) \in EntryRecord
  BY <1>2 DEF Item, EntryRecord
<1>4. /\ Item(pos, pos + 1).tag = "item" /\ Item(pos, pos + 1).from = pos
      /\ Item(pos, pos + 1).to = pos + 1
  BY DEF Item
<1> QED
  BY <1>1, <1>2, <1>3, <1>4, EntryAtRest

LEMMA BeginInvariant == ASSUME IteratorIInv, BeginItem PROVE IteratorIInv'
<1>1. /\ iterator = "items" /\ Between /\ pos < Len(input)
      /\ phase' = "item" /\ from' = pos
      /\ UNCHANGED <<input, mode, pos, string, stack, outcome, iterator, index, yielded>>
  BY DEF BeginItem, Called
<1>2. /\ Len(input) \in Nat /\ Len(input) <= MaxLen /\ pos \in 0..Len(input)
      /\ stack = <<>> /\ pos = Begins(Count + 1)
  BY <1>1, Resting
<1>3. outcome = Running
  BY <1>1 DEF Between
<1>4. IInv'
  BY <1>1, <1>2, <1>3, AtRest DEF IteratorIInv
<1>5. IteratorTypeOK'
  <2>1. pos \in Offsets
    BY <1>2, SkipAssumption DEF Offsets
  <2>2. from' \in Offsets
    BY <1>1, <2>1 DEF Offsets
  <2> QED
    BY <1>1, <2>2 DEF IteratorIInv, IteratorTypeOK
<1>6. Count' = Count /\ Begins(Count + 1)' = Begins(Count + 1)
  BY <1>1 DEF Count, Begins
<1>7. ~Between'
  BY <1>1 DEF Between
<1>8. Tiled'
  BY <1>1, <1>6, <1>7 DEF IteratorIInv, Tiled, Begins
<1>9. InWalk'
  <2>1. from' = Begins(Count + 1)' /\ from' < Len(input)' /\ pos' = from'
    BY <1>1, <1>2, <1>6
  <2>2. outcome'.tag = "running"
    BY <1>1, <1>3 DEF Running
  <2> QED
    BY <1>1, <1>2, <1>7, <2>1, <2>2 DEF InWalk
<1> QED
  BY <1>4, <1>5, <1>8, <1>9 DEF IteratorIInv

LEMMA WalkInvariant == ASSUME IteratorIInv, WalkItem PROVE IteratorIInv'
<1>1. Step /\ Walk /\ UNCHANGED <<input, mode, iterator, index, from, yielded>>
  BY DEF WalkItem, Step
<1>2. phase # "stop"
  BY <1>1 DEF Walk, TooDeep, HeadFails, Integer, DefiniteString, IndefiniteString,
     Container, Tag, Simple, AtHead, ChunkCut, ChunksEnd, ChunkHeadFails, Chunk,
     Finish, ItemDone, ContainerEnds, ContainerCut, ContainerBreak, NextItem
<1>3. ~Between /\ outcome = Running
  BY <1>2 DEF Between, IteratorIInv, IInv
<1>4. /\ iterator = "items" /\ from = Begins(Count + 1) /\ from < Len(input)
      /\ Moved(from) /\ from \in Nat
  BY <1>2, <1>3, SkipAssumption DEF IteratorIInv, InWalk, IteratorTypeOK, Offsets, Moved
<1>5. IInv'
  BY <1>1, StepPreserves DEF IteratorIInv
<1>6. IteratorTypeOK'
  BY <1>1 DEF IteratorIInv, IteratorTypeOK
<1>7. Count' = Count /\ Begins(Count + 1)' = Begins(Count + 1)
  BY <1>1 DEF Count, Begins
<1>8. \/ phase' # "stop" /\ from < pos' /\ outcome' = Running
      \/ phase' = "stop" /\ outcome' = Ok(pos') /\ from < pos' /\ stack' = <<>>
      \/ phase' = "stop" /\ outcome'.tag = "error"
  BY <1>1, <1>3, <1>4, WalkAdvances DEF IteratorIInv
<1>9. ~Between'
  BY <1>8 DEF Between, Ok, Running
<1>10. Tiled'
  BY <1>1, <1>7, <1>9 DEF IteratorIInv, Tiled, Begins
<1>11. InWalk'
  BY <1>1, <1>4, <1>7, <1>8, <1>9 DEF InWalk, Ok, Running
<1> QED
  BY <1>5, <1>6, <1>10, <1>11 DEF IteratorIInv

(* The walk is over and what it found is returned.                          *)
LEMMA EntryAfterWalk ==
  ASSUME IteratorIInv, phase = "stop", ~Between, NEW entry \in EntryRecord,
         entry.from = from, entry.to \in (from + 1)..Len(input),
         entry.tag # "item" => entry.to = Len(input) /\ entry.item = index,
         index' = IF entry.tag = "item" THEN index + 1 ELSE index,
         Yield(entry), outcome' = Running, stack' = <<>>,
         UNCHANGED <<input, mode, phase, string, iterator, from>>
  PROVE  IteratorIInv'
<1>1. /\ Len(input) \in Nat /\ Len(input) <= MaxLen
      /\ iterator = "items" /\ from = Begins(Count + 1) /\ from \in Nat
  BY Resting, SkipAssumption DEF IteratorIInv, InWalk, IteratorTypeOK, Offsets
<1>2. pos' \in 0..Len(input)
  BY <1>1 DEF Yield
<1>3. IInv'
  BY <1>2, AtRest DEF IteratorIInv
<1>4. yielded' \in Seq(EntryRecord) /\ Tiled'
  <2>1. entry.from < entry.to /\ entry.to <= Len(input)
    BY <1>1
  <2>2. index' = IF iterator = "items" /\ entry.tag = "item" THEN index + 1 ELSE index
    BY <1>1
  <2>3. IteratorTypeOK /\ Tiled
    BY DEF IteratorIInv
  <2> QED
    BY <1>1, <2>1, <2>2, <2>3, YieldTiles
<1>5. IteratorTypeOK'
  BY <1>4 DEF IteratorIInv, IteratorTypeOK
<1>6. Between'
  BY DEF Between
<1>7. InWalk'
  BY <1>6 DEF InWalk
<1> QED
  BY <1>3, <1>4, <1>5, <1>7 DEF IteratorIInv

LEMMA GiveInvariant == ASSUME IteratorIInv, GiveItem PROVE IteratorIInv'
<1>1. /\ phase = "stop" /\ outcome.tag = "ok" /\ Yield(Item(from, outcome.end))
      /\ index' = index + 1 /\ outcome' = Running
      /\ UNCHANGED <<input, mode, phase, string, stack, iterator, from>>
  BY DEF GiveItem
<1>2. outcome = Ok(pos)
  BY <1>1 DEF IteratorIInv, IInv, TypeOK, OutcomeOK, Running, Error
<1>3. ~Between
  BY <1>2 DEF Between, Ok, Running
<1>4. from < pos /\ stack = <<>> /\ from \in Nat /\ from \in Offsets
  BY <1>1, <1>3, SkipAssumption DEF IteratorIInv, InWalk, IteratorTypeOK, Offsets
<1>5. pos \in (from + 1)..Len(input) /\ pos \in Offsets
  BY <1>4, Resting DEF Offsets
<1>6. Item(from, pos) \in EntryRecord
  BY <1>4, <1>5 DEF Item, EntryRecord
<1>7. Item(from, pos).tag = "item" /\ Item(from, pos).from = from /\ Item(from, pos).to = pos
  BY DEF Item
<1>8. Yield(Item(from, pos))
  BY <1>1, <1>2 DEF Ok
<1> QED
  BY <1>1, <1>3, <1>4, <1>5, <1>6, <1>7, <1>8, EntryAfterWalk

LEMMA GiveErrorInvariant == ASSUME IteratorIInv, GiveItemError PROVE IteratorIInv'
<1> DEFINE entry == Failure(outcome, index, from, Len(input))
<1>1. /\ phase = "stop" /\ outcome.tag = "error" /\ Yield(entry)
      /\ outcome' = Running /\ stack' = <<>> /\ index' = index
      /\ UNCHANGED <<input, mode, phase, string, iterator, from>>
  BY DEF GiveItemError
<1>2. PICK kind \in ErrorKinds, at \in 0..Len(input) : outcome = Error(kind, at)
  BY <1>1 DEF IteratorIInv, IInv, TypeOK, OutcomeOK, Running, Ok
<1>3. ~Between
  BY <1>1 DEF Between, Running
<1>4. /\ from < Len(input) /\ from \in Nat /\ from \in Offsets /\ index \in Nat
      /\ Len(input) \in Nat /\ Len(input) <= MaxLen /\ MaxLen \in Nat
  BY <1>3, Resting DEF IteratorIInv, InWalk, IteratorTypeOK, Offsets
<1>5. Len(input) \in (from + 1)..Len(input) /\ Len(input) \in Offsets /\ at \in Offsets
  BY <1>4 DEF Offsets
<1>6. entry \in EntryRecord
  <2>1. outcome \in [tag: {"error"}, kind: ErrorKinds, at: Offsets]
    BY <1>2, <1>5 DEF Error
  <2> QED
    BY <1>4, <1>5, <2>1 DEF Failure, EntryRecord
<1>7. entry.tag = "failure" /\ entry.from = from /\ entry.to = Len(input) /\ entry.item = index
  BY DEF Failure
<1> HIDE DEF entry
<1> QED
  BY <1>1, <1>3, <1>4, <1>5, <1>6, <1>7, EntryAfterWalk

(* An event or an error at pos.                                             *)
LEMMA EventInvariant ==
  ASSUME IteratorIInv, Called("events"), NEW to \in (pos + 1)..Len(input),
         \/ \E kind \in {"leaf", "break", "tag", "string", "array", "map"},
               items \in Nat \cup {Indefinite} : ReadEvent(Event(kind, items, pos, to))
         \/ \E kind \in ErrorKinds, at \in 0..Len(input) : RefuseEvent(Error(kind, at), to)
  PROVE  IteratorIInv'
<1>1. /\ Len(input) \in Nat /\ Len(input) <= MaxLen /\ MaxLen \in Nat
      /\ pos \in 0..Len(input) /\ iterator = "events" /\ Between
  BY Resting DEF Called
<1>2. pos \in Offsets /\ to \in Offsets /\ \A at \in 0..Len(input) : at \in Offsets
  BY <1>1 DEF Offsets
<1>3. ASSUME NEW entry \in EntryRecord, entry.from = pos, entry.to = to, ReadEvent(entry)
      PROVE  IteratorIInv'
  <2>1. Yield(entry)
        /\ UNCHANGED <<input, mode, phase, string, stack, outcome, iterator, index, from>>
    BY <1>3 DEF ReadEvent
  <2> QED
    BY <1>1, <1>3, <2>1, EntryAtRest
<1>4. ASSUME NEW kind \in {"leaf", "break", "tag", "string", "array", "map"},
             NEW items \in Nat \cup {Indefinite}, ReadEvent(Event(kind, items, pos, to))
      PROVE  IteratorIInv'
  <2>1. Event(kind, items, pos, to) \in EntryRecord
    BY <1>2 DEF Event, EntryRecord
  <2>2. Event(kind, items, pos, to).from = pos /\ Event(kind, items, pos, to).to = to
    BY DEF Event
  <2> QED
    BY <1>3, <1>4, <2>1, <2>2
<1>5. ASSUME NEW kind \in ErrorKinds, NEW at \in 0..Len(input),
             RefuseEvent(Error(kind, at), to)
      PROVE  IteratorIInv'
  <2> DEFINE entry == Failure(Error(kind, at), NoItem, pos, to)
  <2>1. entry \in EntryRecord
    BY <1>2 DEF Failure, Error, EntryRecord
  <2>2. entry.from = pos /\ entry.to = to
    BY DEF Failure
  <2>3. ReadEvent(entry)
    BY <1>5 DEF RefuseEvent
  <2> HIDE DEF entry
  <2> QED
    BY <1>3, <2>1, <2>2, <2>3
<1> QED
  BY <1>4, <1>5

LEMMA HeadInvariant ==
  ASSUME IteratorIInv, BreakEvent \/ EventHeadFails
  PROVE  IteratorIInv'
<1>1. Called("events") /\ pos < Len(input) /\ pos \in 0..Len(input) /\ Len(input) \in Nat
  BY Resting DEF BreakEvent, EventHeadFails, Called
<1>2. pos + 1 \in (pos + 1)..Len(input)
  BY <1>1
<1>3. CASE BreakEvent
  <2>1. ReadEvent(Event("break", 0, pos, pos + 1)) /\ 0 \in Nat \cup {Indefinite}
    BY <1>3 DEF BreakEvent
  <2> QED
    BY <1>1, <1>2, <2>1, EventInvariant
<1>4. CASE EventHeadFails
  <2> DEFINE to == IF HeadError(pos).kind = "nondeterministic" THEN HeadEnd(pos) ELSE pos + 1
  <2>1. HeadError(pos) # NoError /\ RefuseEvent(HeadError(pos), to)
    BY <1>4 DEF EventHeadFails
  <2>2. PICK kind \in ErrorKinds, at \in 0..Len(input) : HeadError(pos) = Error(kind, at)
    BY <1>1, <2>1, State, HeadErrorPlaced DEF IteratorIInv
  <2>3. to \in (pos + 1)..Len(input)
    <3>1. CASE HeadError(pos).kind # "nondeterministic"
      BY <1>2, <3>1
    <3>2. CASE HeadError(pos).kind = "nondeterministic"
      <4>1. ~(HeadEnd(pos) > Len(input))
        BY <1>1, <3>2 DEF HeadError, Error
      <4>2. HeadEnd(pos) \in Nat /\ HeadEnd(pos) >= pos + 1
        BY SMTT(30), <1>1 DEF HeadEnd, Width
      <4> QED
        BY <1>1, <3>2, <4>1, <4>2
    <3> QED
      BY <3>1, <3>2
  <2> HIDE DEF to
  <2> QED
    BY <1>1, <2>1, <2>2, <2>3, EventInvariant
<1> QED
  BY <1>3, <1>4

LEMMA AtEventFacts ==
  ASSUME IteratorIInv, NEW majors, AtEvent(majors)
  PROVE  /\ Called("events") /\ pos < Len(input) /\ pos \in 0..Len(input)
         /\ Len(input) \in Nat
         /\ HeadEnd(pos) \in (pos + 1)..Len(input)
         /\ Argument(pos) \in Nat \cup {Indefinite}
BY Resting, ReadHead DEF AtEvent, Called, IteratorIInv

LEMMA ArgumentEventInvariant ==
  ASSUME IteratorIInv, IntegerEvent \/ ContainerEvent \/ TagEvent \/ SimpleEvent
  PROVE  IteratorIInv'
<1>1. PICK majors : AtEvent(majors)
  BY DEF IntegerEvent, ContainerEvent, TagEvent, SimpleEvent
<1>2. /\ Called("events") /\ pos \in 0..Len(input)
      /\ HeadEnd(pos) \in (pos + 1)..Len(input)
      /\ Argument(pos) \in Nat \cup {Indefinite}
  BY <1>1, AtEventFacts
<1>3. CASE IntegerEvent
  <2>1. CASE Info(pos) = 31
    <3>1. iterator' = "unwound" /\ iterator = "events" /\ UNCHANGED <<vars, index, from, yielded>>
      BY <1>2, <1>3, <2>1 DEF IntegerEvent, Called
    <3>2. UNCHANGED <<input, mode, phase, pos, string, stack, outcome, index, from, yielded>>
      BY <3>1 DEF vars
    <3>3. IInv'
      BY <3>2 DEF IteratorIInv, IInv, TypeOK, OutcomeOK, DepthBounded, StackOK, FrameOK,
                  RoomForOne, MostItems, PerEntry, Depth
    <3>4. IteratorTypeOK'
      BY <3>1, <3>2 DEF IteratorIInv, IteratorTypeOK
    <3>5. Between /\ Between'
      BY <1>2, <3>2 DEF Called, Between
    <3>6. Tiled'
      BY <3>1, <3>2, <3>5 DEF IteratorIInv, Tiled, Begins, Count
    <3>7. InWalk'
      BY <3>2, <3>5 DEF IteratorIInv, InWalk
    <3> QED
      BY <3>3, <3>4, <3>6, <3>7 DEF IteratorIInv
  <2>2. CASE Info(pos) # 31
    <3>1. ReadEvent(Event("leaf", 0, pos, HeadEnd(pos))) /\ 0 \in Nat \cup {Indefinite}
      BY <1>3, <2>2 DEF IntegerEvent
    <3> QED
      BY <1>2, <3>1, EventInvariant
  <2> QED
    BY <2>1, <2>2
<1>4. CASE ContainerEvent
  <2>1. \E kind \in {"leaf", "break", "tag", "string", "array", "map"} :
          ReadEvent(Event(kind, Argument(pos), pos, HeadEnd(pos)))
    BY <1>4 DEF ContainerEvent
  <2> QED
    BY <1>2, <2>1, EventInvariant
<1>5. CASE TagEvent \/ SimpleEvent
  <2>1. \/ RefuseEvent(Error("additional", pos), HeadEnd(pos))
        \/ RefuseEvent(Error("nondeterministic", pos), HeadEnd(pos))
        \/ ReadEvent(Event("tag", 1, pos, HeadEnd(pos)))
        \/ ReadEvent(Event("leaf", 0, pos, HeadEnd(pos)))
    BY <1>5 DEF TagEvent, SimpleEvent
  <2>2. /\ "additional" \in ErrorKinds /\ "nondeterministic" \in ErrorKinds
        /\ 0 \in Nat \cup {Indefinite} /\ 1 \in Nat \cup {Indefinite}
    BY DEF ErrorKinds
  <2> QED
    BY <1>2, <2>1, <2>2, EventInvariant
<1> QED
  BY <1>3, <1>4, <1>5

LEMMA StringInvariant == ASSUME IteratorIInv, StringEvent PROVE IteratorIInv'
<1> DEFINE n == Argument(pos)
           begin == HeadEnd(pos)
<1>1. /\ Called("events") /\ pos \in 0..Len(input) /\ Len(input) \in Nat
      /\ begin \in (pos + 1)..Len(input) /\ n \in Nat \cup {Indefinite}
      /\ begin \in 0..Len(input)
  BY AtEventFacts DEF StringEvent
<1>2. "eof" \in ErrorKinds /\ "utf8" \in ErrorKinds /\ 0 \in Nat \cup {Indefinite}
  BY DEF ErrorKinds
<1>3. \/ n = Indefinite /\ ReadEvent(Event("string", Indefinite, pos, begin))
      \/ n # Indefinite /\ RefuseEvent(Error("eof", begin), begin)
      \/ n # Indefinite /\ ~(begin + n > Len(input)) /\ RefuseEvent(Error("utf8", pos), begin + n)
      \/ n # Indefinite /\ ~(begin + n > Len(input)) /\ ReadEvent(Event("leaf", 0, pos, begin + n))
  BY DEF StringEvent
<1>4. n # Indefinite /\ ~(begin + n > Len(input)) => begin + n \in (pos + 1)..Len(input)
  BY <1>1
<1> HIDE DEF n, begin
<1> QED
  BY <1>1, <1>2, <1>3, <1>4, EventInvariant

LEMMA StopInvariant ==
  ASSUME IteratorIInv, UNCHANGED iteratorVars
  PROVE  IteratorIInv'
<1>1. UNCHANGED <<input, mode, phase, pos, string, stack, outcome, iterator, index,
                  from, yielded>>
  BY DEF iteratorVars, vars
<1>2. IInv'
  BY <1>1 DEF IteratorIInv, IInv, TypeOK, OutcomeOK, DepthBounded, StackOK, FrameOK,
              RoomForOne, MostItems, PerEntry, Depth
<1>3. IteratorTypeOK' /\ Tiled' /\ InWalk'
  BY <1>1 DEF IteratorIInv, IteratorTypeOK, Tiled, InWalk, Between, Begins, Count
<1> QED
  BY <1>2, <1>3 DEF IteratorIInv

LEMMA IteratorInitInvariant == IteratorInit => IteratorIInv
<1> SUFFICES ASSUME IteratorInit PROVE IteratorIInv
  OBVIOUS
<1>1. IsInput(input) /\ Len(input) \in Nat /\ MaxLen \in Nat
  BY InputIsSeq, SkipAssumption DEF IteratorInit
<1>2. TypeOK
  BY <1>1, SkipAssumption DEF IteratorInit, TypeOK, OutcomeOK
<1>3. StackOK /\ DepthBounded
  BY SkipAssumption DEF IteratorInit, StackOK, DepthBounded, Depth
<1>4. IInv
  BY <1>2, <1>3, SkipAssumption DEF IteratorInit, IInv
<1>5. yielded = <<>> /\ <<>> \in Seq(EntryRecord) /\ Count = 0
  BY DEF IteratorInit, Count
<1>6. IteratorTypeOK
  BY <1>1, <1>5 DEF IteratorInit, IteratorTypeOK, Offsets
<1>7. Tiled
  BY <1>5 DEF IteratorInit, Tiled, Begins
<1>8. InWalk
  BY DEF IteratorInit, InWalk, Between
<1> QED
  BY <1>4, <1>6, <1>7, <1>8 DEF IteratorIInv

(* The invariant holds for every slice, with every limit and validation.    *)
THEOREM IteratorInvariant == IteratorSafety => []IteratorIInv
<1>1. IteratorIInv /\ [IteratorNext]_iteratorVars => IteratorIInv'
  <2> SUFFICES ASSUME IteratorIInv, [IteratorNext]_iteratorVars PROVE IteratorIInv'
    OBVIOUS
  <2>1. CASE NextItemCall
    BY <2>1, OneByteInvariant, BeginInvariant, WalkInvariant, GiveInvariant,
       GiveErrorInvariant DEF NextItemCall
  <2>2. CASE NextEventCall
    BY <2>2, HeadInvariant, ArgumentEventInvariant, StringInvariant DEF NextEventCall
  <2>3. CASE Stopped \/ UNCHANGED iteratorVars
    BY <2>3, StopInvariant DEF Stopped
  <2> QED
    BY <2>1, <2>2, <2>3 DEF IteratorNext
<1> QED
  BY <1>1, IteratorInitInvariant, PTL DEF IteratorSafety

(* Whatever the slice, both iterators return what lies in it end to end from *)
(* the first byte on, never a byte twice and none left out, and the index of *)
(* a sequence decoder's one error is the number of items before it.          *)
THEOREM Tiling == IteratorSafety => []Tiled
<1>1. IteratorIInv => Tiled
  BY DEF IteratorIInv
<1> QED
  BY <1>1, IteratorInvariant, PTL

-----------------------------------------------------------------------------
(* What a sequence decoder returns is what the grammar has.                 *)

LEMMA NoText == ASSUME NEW p \in Nat PROVE TextAccepted(p, p)
<1> DEFINE byLead(f, i) ==
             \/ i = p
             \/ \E q \in {i + 1, i + 2, i + 3, i + 4} :
                  q <= p /\ Character(i, q) /\ f[q]
           leads(f) == f = [i \in p..p |-> byLead(f, i)]
<1>1. leads([i \in p..p |-> TRUE])
  <2>1. \A i \in p..p : i = p
    OBVIOUS
  <2> QED
    BY <2>1
<1>2. leads(CHOOSE f : leads(f))
  BY <1>1
<1>3. (CHOOSE f : leads(f))[p]
  <2>1. PICK f : f = (CHOOSE g : leads(g))
    OBVIOUS
  <2>2. f = [i \in p..p |-> byLead(f, i)]
    BY <1>2, <2>1
  <2>3. p \in p..p /\ byLead(f, p)
    OBVIOUS
  <2>4. f[p]
    BY <2>2, <2>3
  <2> QED
    BY <2>1, <2>4
<1> HIDE DEF leads
<1> QED
  BY <1>3 DEF TextAccepted, leads

(* The heads of the short path: whole, without an argument of their own.     *)
LEMMA OneByteHead ==
  ASSUME IsInput(input), NEW p \in Nat, p < Len(input), Byte(p) \in OneByteItems
  PROVE  /\ HeadError(p) = NoError /\ HeadEnd(p) = p + 1 /\ p + 1 \in Positions
         /\ Argument(p) = Info(p) /\ Info(p) \in 0..23
         /\ Major(p) \in {0, 1, 7} \/ (Major(p) \in {2, 3, 4, 5} /\ Info(p) = 0)
<1>1. PICK b \in OneByteItems : b = Byte(p)
  OBVIOUS
<1>2. /\ b % 32 \in 0..23
      /\ b \div 32 \in {0, 1, 7} \/ (b \div 32 \in {2, 3, 4, 5} /\ b % 32 = 0)
  BY DEF OneByteItems
<1>3. /\ Info(p) \in 0..23
      /\ Major(p) \in {0, 1, 7} \/ (Major(p) \in {2, 3, 4, 5} /\ Info(p) = 0)
  BY <1>1, <1>2 DEF Info, Major
<1>4. /\ Info(p) # 24 /\ Info(p) # 25 /\ Info(p) # 26 /\ Info(p) # 27 /\ Info(p) # 31
      /\ Info(p) \notin 28..30
  <2>1. PICK n \in 0..23 : n = Info(p)
    BY <1>3
  <2>2. n # 24 /\ n # 25 /\ n # 26 /\ n # 27 /\ n # 31 /\ n \notin 28..30
    OBVIOUS
  <2> QED
    BY <2>1, <2>2
<1>5. Width(p) = 0 /\ Argument(p) = Info(p) /\ Preferred(p)
  BY <1>4 DEF Width, Argument, Preferred
<1>6. Len(input) \in Nat /\ HeadEnd(p) = p + 1 /\ p + 1 <= Len(input)
  BY <1>5, InputIsSeq, SkipAssumption DEF HeadEnd
<1>7. HeadError(p) = NoError
  BY <1>4, <1>5, <1>6 DEF HeadError
<1> QED
  BY <1>3, <1>5, <1>6, <1>7 DEF Positions

(* The short path agrees with the grammar whatever the limits are.          *)
LEMMA OneByteReach ==
  ASSUME IsInput(input), NEW p \in Nat, p < Len(input), Byte(p) \in OneByteItems
  PROVE  Reach(mode, input, 0, p) = {p + 1}
<1> DEFINE R == Inner(mode, input, 1)
<1>0. /\ MaxDepth \in Nat /\ MaxCollection \in Nat /\ MaxLen \in Nat /\ Len(input) \in Nat
      /\ Len(input) <= MaxLen
  BY InputIsSeq, SkipAssumption DEF IsInput
<1>1. /\ HeadError(p) = NoError /\ HeadEnd(p) = p + 1 /\ p + 1 \in Positions
      /\ Argument(p) = Info(p) /\ Info(p) \in 0..23
      /\ Major(p) \in {0, 1, 7} \/ (Major(p) \in {2, 3, 4, 5} /\ Info(p) = 0)
  BY OneByteHead
<1>2. p \in Positions /\ 0 \in 0..MaxDepth /\ 1 \in 0..(MaxDepth + 1)
  BY <1>0 DEF Positions
<1>3. Reach(mode, input, 0, p) = Around(R, p) /\ R \in Rows
  <2>1. 0 + 1 = 1
    OBVIOUS
  <2> QED
    BY <1>2, <2>1, ReachAround, InnerRows
<1>4. Info(p) # 31 /\ Info(p) # 24 /\ Info(p) \notin 25..27 /\ Argument(p) # Indefinite
  <2>1. PICK n \in 0..23 : n = Info(p) /\ n = Argument(p)
    BY <1>1
  <2>2. n # 31 /\ n # 24 /\ n \notin 25..27 /\ n # Indefinite
    BY DEF Indefinite
  <2> QED
    BY <2>1, <2>2
<1> HIDE DEF R
<1>5. CASE Major(p) \in {0, 1}
  BY <1>1, <1>3, <1>4, <1>5, AroundInteger
<1>6. CASE Major(p) = 7
  <2>1. FloatAccepted(p)
    BY <1>4 DEF FloatAccepted
  <2> QED
    BY <1>1, <1>3, <1>4, <1>6, <2>1, AroundSimple
<1>7. CASE Major(p) \in {2, 3}
  <2>1. Argument(p) = 0 /\ HeadEnd(p) + Argument(p) = p + 1 /\ p + 1 \in Nat
    BY <1>1, <1>7
  <2>2. RunRead(Major(p), p)
    BY <1>0, <1>1, <1>4, <2>1, NoText DEF RunRead
  <2> QED
    BY <1>0, <1>1, <1>3, <1>4, <1>7, <2>1, <2>2, AroundString
<1>8. CASE Major(p) \in {4, 5}
  <2> DEFINE f == Frame(KindOf(p), p, 0)
  <2>1. Argument(p) = 0 /\ ~(Argument(p) > MaxCollection)
    BY <1>0, <1>1, <1>8
  <2>2. PerEntry(KindOf(p)) \in {1, 2} /\ Argument(p) * PerEntry(KindOf(p)) = 0
    BY <2>1 DEF PerEntry
  <2>3. /\ f.kind = KindOf(p) /\ f.items = 0 /\ f.done = 0
        /\ KindOf(p) \in {"array", "map"} /\ 0 # Indefinite /\ 0 % 2 = 0
    BY Fresh DEF KindOf, Indefinite
  <2>4. f \in FrameRecord
    <3>1. p \in 0..MaxLen
      BY <1>0, <1>2 DEF Positions
    <3>2. KindOf(p) \in {"tag", "array", "map"} /\ 0 \in Nat /\ <<>> \in Seq(Bytes)
      BY <2>3
    <3> QED
      BY <3>1, <3>2 DEF Frame, FrameRecord
  <2>5. Paired(f)
    BY <2>3 DEF Paired
  <2>6. Around(R, p) = Remaining(mode, input, R, f, HeadEnd(p))
    BY <1>1, <1>3, <1>4, <1>8, <2>1, <2>2, OpenCounted
  <2> HIDE DEF f
  <2>7. Remaining(mode, input, R, f, HeadEnd(p)) = {HeadEnd(p)}
    BY <1>1, <1>3, <2>3, <2>4, <2>5, RemainingNone
  <2> QED
    BY <1>1, <1>3, <2>6, <2>7
<1> QED
  BY <1>1, <1>5, <1>6, <1>7, <1>8

(* What is returned for an entry of the grammar is an entry of the grammar.  *)
LEMMA YieldCuts ==
  ASSUME ItemsIInv, NEW entry, Yield(entry), UNCHANGED <<input, mode, iterator>>,
         iterator = "items" =>
           Reach(mode, input, 0, entry.from) = IF entry.tag = "item" THEN {entry.to} ELSE {}
  PROVE  EntriesDecided'
<1>1. yielded \in Seq(EntryRecord) /\ Count \in Nat /\ Count = Len(yielded)
  BY Entries DEF ItemsIInv, IteratorIInv
<1>2. /\ yielded' = Append(yielded, entry) /\ Count' = Count + 1
      /\ yielded'[Count + 1] = entry
      /\ \A i \in 1..Count : yielded'[i] = yielded[i]
  BY <1>1, Pushed DEF Yield, Count
<1>3. \A i \in 1..(Count + 1) : i = Count + 1 \/ i \in 1..Count
  BY <1>1
<1> SUFFICES ASSUME iterator = "items", NEW i \in 1..(Count + 1)
             PROVE  Reach(mode, input, 0, yielded'[i].from)
                      = IF yielded'[i].tag = "item" THEN {yielded'[i].to} ELSE {}
  BY <1>2 DEF EntriesDecided
<1>4. CASE i = Count + 1
  BY <1>2, <1>4
<1>5. CASE i \in 1..Count
  BY <1>2, <1>5 DEF ItemsIInv, EntriesDecided
<1> QED
  BY <1>3, <1>4, <1>5

LEMMA KeepCuts ==
  ASSUME ItemsIInv, UNCHANGED <<input, mode, iterator, yielded>>
  PROVE  EntriesDecided'
BY DEF ItemsIInv, EntriesDecided, Count

LEMMA OneByteCuts == ASSUME ItemsIInv, OneByteItem PROVE ItemsIInv'
<1>1. /\ Between /\ pos < Len(input) /\ Byte(pos) \in OneByteItems
      /\ Yield(Item(pos, pos + 1))
      /\ UNCHANGED <<input, mode, phase, string, stack, outcome, iterator, from>>
  BY DEF OneByteItem, Called
<1>2. IteratorIInv'
  BY OneByteInvariant DEF ItemsIInv
<1>3. Reach(mode, input, 0, pos) = {pos + 1}
  BY <1>1, OneByteReach, State DEF ItemsIInv, IteratorIInv
<1>4. EntriesDecided'
  BY <1>1, <1>3, YieldCuts DEF Item
<1>5. Between'
  BY <1>1 DEF Between
<1> QED
  BY <1>2, <1>4, <1>5 DEF ItemsIInv

LEMMA BeginCuts == ASSUME ItemsIInv, BeginItem PROVE ItemsIInv'
<1>1. /\ Between /\ pos < Len(input) /\ phase' = "item" /\ from' = pos
      /\ UNCHANGED <<input, mode, pos, string, stack, outcome, iterator, index, yielded>>
  BY DEF BeginItem, Called
<1>2. IteratorIInv'
  BY BeginInvariant DEF ItemsIInv
<1>3. EntriesDecided'
  BY <1>1, KeepCuts
<1>4. stack = <<>> /\ pos \in 0..Len(input)
  BY <1>1, Resting DEF ItemsIInv
<1>5. WalkIInv(pos)'
  <2>1. PICK b : b = pos
    OBVIOUS
  <2>2. WalkIInv(b)'
    <3>1. Depth' = 0
      BY <1>1, <1>4 DEF Depth
    <3>2. FramesLinked(b)'
      BY <3>1 DEF FramesLinked
    <3>3. pos' = (Start(b, Depth))'
      BY <1>1, <2>1, <3>1 DEF Start
    <3>4. (b \in 0..Len(input))'
      BY <1>1, <1>4, <2>1
    <3> QED
      BY <1>1, <3>2, <3>3, <3>4 DEF WalkIInv, Decided
  <2> QED
    BY <1>1, <2>1, <2>2
<1>6. WalkIInv(from)'
  BY <1>1, <1>5
<1> QED
  BY <1>2, <1>3, <1>6 DEF ItemsIInv

LEMMA WalkCuts == ASSUME ItemsIInv, WalkItem PROVE ItemsIInv'
<1>1. Step /\ Walk /\ UNCHANGED <<input, mode, iterator, index, from, yielded>>
  BY DEF WalkItem, Step
<1>2. IteratorIInv'
  BY WalkInvariant DEF ItemsIInv
<1>3. EntriesDecided'
  BY <1>1, KeepCuts
<1>4. phase # "stop"
  BY <1>1 DEF Walk, TooDeep, HeadFails, Integer, DefiniteString, IndefiniteString,
     Container, Tag, Simple, AtHead, ChunkCut, ChunksEnd, ChunkHeadFails, Chunk,
     Finish, ItemDone, ContainerEnds, ContainerCut, ContainerBreak, NextItem
<1>5. ~Between
  BY <1>4 DEF Between
<1>6. PICK b : b = from
  OBVIOUS
<1>7. LInv(b)
  BY <1>5, <1>6 DEF ItemsIInv, IteratorIInv, LInv
<1>8. WalkIInv(b)'
  BY <1>1, <1>7, StepLanguage
<1>9. WalkIInv(from)'
  BY <1>1, <1>6, <1>8
<1> QED
  BY <1>2, <1>3, <1>9 DEF ItemsIInv

(* The walk is over and the grammar agrees with it.                          *)
LEMMA WalkDecided ==
  ASSUME ItemsIInv, ~Between, phase = "stop"
  PROVE  Reach(mode, input, 0, from) = IF outcome.tag = "ok" THEN {outcome.end} ELSE {}
<1>1. Decided(from)
  BY DEF ItemsIInv, WalkIInv
<1> QED
  BY <1>1 DEF Decided, EndsOf, Start

LEMMA GiveCuts == ASSUME ItemsIInv, GiveItem PROVE ItemsIInv'
<1>1. /\ phase = "stop" /\ outcome.tag = "ok" /\ Yield(Item(from, outcome.end))
      /\ outcome' = Running /\ UNCHANGED <<input, mode, phase, iterator>>
  BY DEF GiveItem
<1>2. IteratorIInv'
  BY GiveInvariant DEF ItemsIInv
<1>3. ~Between
  BY <1>1 DEF Between, Running
<1>4. EntriesDecided'
  BY <1>1, <1>3, WalkDecided, YieldCuts DEF Item
<1>5. Between'
  BY <1>1 DEF Between
<1> QED
  BY <1>2, <1>4, <1>5 DEF ItemsIInv

LEMMA GiveErrorCuts == ASSUME ItemsIInv, GiveItemError PROVE ItemsIInv'
<1>1. /\ phase = "stop" /\ outcome.tag = "error"
      /\ Yield(Failure(outcome, index, from, Len(input)))
      /\ outcome' = Running /\ UNCHANGED <<input, mode, phase, iterator>>
  BY DEF GiveItemError
<1>2. IteratorIInv'
  BY GiveErrorInvariant DEF ItemsIInv
<1>3. ~Between
  BY <1>1 DEF Between, Running
<1>4. EntriesDecided'
  BY <1>1, <1>3, WalkDecided, YieldCuts DEF Failure
<1>5. Between'
  BY <1>1 DEF Between
<1> QED
  BY <1>2, <1>4, <1>5 DEF ItemsIInv

(* A parser yields no items, and never walks one.                            *)
LEMMA EventCuts == ASSUME ItemsIInv, NextEventCall PROVE ItemsIInv'
<1>1. Called("events") /\ UNCHANGED <<phase, outcome>> /\ iterator' \in {"events", "unwound"}
  BY DEF NextEventCall, BreakEvent, EventHeadFails, IntegerEvent, StringEvent,
         ContainerEvent, TagEvent, SimpleEvent, AtEvent, RefuseEvent, ReadEvent,
         Called, vars
<1>2. IteratorIInv'
  BY HeadInvariant, ArgumentEventInvariant, StringInvariant DEF NextEventCall, ItemsIInv
<1>3. EntriesDecided' /\ Between'
  BY <1>1 DEF EntriesDecided, Called, Between
<1> QED
  BY <1>2, <1>3 DEF ItemsIInv

LEMMA StopCuts == ASSUME ItemsIInv, UNCHANGED iteratorVars PROVE ItemsIInv'
<1>1. /\ UNCHANGED vars
      /\ UNCHANGED <<input, mode, phase, outcome, iterator, from, yielded>>
  BY DEF iteratorVars, vars
<1>2. IteratorIInv'
  BY StopInvariant DEF ItemsIInv
<1>3. EntriesDecided' /\ Between' = Between
  BY <1>1, KeepCuts DEF Between
<1>4. ASSUME ~Between PROVE WalkIInv(from)'
  <2>1. PICK b : b = from
    OBVIOUS
  <2>2. LInv(b)
    BY <1>4, <2>1 DEF ItemsIInv, IteratorIInv, LInv
  <2>3. LInv(b)'
    BY <1>1, <2>2, Idle
  <2> QED
    BY <1>1, <2>1, <2>3 DEF LInv
<1> QED
  BY <1>2, <1>3, <1>4 DEF ItemsIInv

(* In every state what a sequence decoder has returned is what the grammar   *)
(* has from the first byte on, and the walk of the next item reads what the  *)
(* grammar has behind it.                                                   *)
THEOREM ItemsInvariant == IteratorSafety => []ItemsIInv
<1>1. IteratorInit => ItemsIInv
  <2> SUFFICES ASSUME IteratorInit PROVE ItemsIInv
    OBVIOUS
  <2>1. IteratorIInv
    BY IteratorInitInvariant
  <2>2. Between /\ Count = 0
    BY DEF IteratorInit, Between, Count
  <2> QED
    BY <2>1, <2>2 DEF ItemsIInv, EntriesDecided
<1>2. ItemsIInv /\ [IteratorNext]_iteratorVars => ItemsIInv'
  <2> SUFFICES ASSUME ItemsIInv, [IteratorNext]_iteratorVars PROVE ItemsIInv'
    OBVIOUS
  <2>1. CASE NextItemCall
    BY <2>1, OneByteCuts, BeginCuts, WalkCuts, GiveCuts, GiveErrorCuts DEF NextItemCall
  <2>2. CASE NextEventCall
    BY <2>2, EventCuts
  <2>3. CASE Stopped \/ UNCHANGED iteratorVars
    BY <2>3, StopCuts DEF Stopped
  <2> QED
    BY <2>1, <2>2, <2>3 DEF IteratorNext
<1> QED
  BY <1>1, <1>2, PTL DEF IteratorSafety

(* Of every slice, under every limit and validation, a sequence decoder that *)
(* is called until it returns None has returned the items the grammar has,   *)
(* one behind the other from the first byte on, the short path included; if   *)
(* it failed, it was where no item begins, and after all items before it.    *)
THEOREM ItemsAreCut == IteratorSafety => []ItemsCut
<1>1. ItemsIInv => ItemsCut
  <2> SUFFICES ASSUME ItemsIInv, iterator = "items", Drained, NEW i \in 1..Count
               PROVE  /\ yielded[i].from = IF i = 1 THEN 0 ELSE yielded[i - 1].to
                      /\ IF yielded[i].tag = "item"
                         THEN /\ ItemEnds[yielded[i].from + 1] = {yielded[i].to}
                              /\ i = Count => yielded[i].to = Len(input)
                         ELSE /\ ItemEnds[yielded[i].from + 1] = {}
                              /\ yielded[i].item = i - 1
                              /\ i = Count
    BY DEF ItemsCut
  <2>1. yielded[i].from = Begins(i) /\ Between /\ pos = Len(input) /\ pos = Begins(Count + 1)
    BY DEF ItemsIInv, IteratorIInv, Tiled, Drained
  <2>2. Count \in Nat
    BY Entries DEF ItemsIInv, IteratorIInv
  <2>3. i = Count => Begins(Count + 1) = yielded[i].to
    <3>1. i = Count => Count + 1 # 1 /\ (Count + 1) - 1 = i
      BY <2>2
    <3> QED
      BY <3>1 DEF Begins
  <2>4. yielded[i].tag # "item" => i = Count /\ yielded[i].item = i - 1
    BY DEF ItemsIInv, IteratorIInv, Tiled
  <2>5. Reach(mode, input, 0, yielded[i].from) = ItemEnds[yielded[i].from + 1]
    <3>1. MaxDepth + 1 - 0 = MaxDepth + 1
      BY SkipAssumption
    <3> QED
      BY <3>1 DEF Reach, Inner, ItemEnds, Grammar!Items, Grammar!At
  <2>6. Reach(mode, input, 0, yielded[i].from)
          = IF yielded[i].tag = "item" THEN {yielded[i].to} ELSE {}
    BY DEF ItemsIInv, EntriesDecided
  <2> QED
    BY <2>1, <2>3, <2>4, <2>5, <2>6 DEF Begins
<1> QED
  BY <1>1, ItemsInvariant, PTL
-----------------------------------------------------------------------------
(* The walk as a function.  A walk a has a slice a.in and a walker a.mode;   *)
(* what the walker does next is told by what it has now.                     *)

Heads(in) == INSTANCE SkipItem WITH input <- in, mode <- "basic"

Walker(p, q, r, s, t) ==
  [phase |-> p, pos |-> q, string |-> r, stack |-> s, outcome |-> t]

Now == Walker(phase, pos, string, stack, outcome)

This == [in |-> input, mode |-> mode]

(* The ways a step ends: with an error, after an item, in a container, after *)
(* one, and on with the container that is open.                              *)
GivesUp(s, error) == Walker("stop", s.pos, s.string, s.stack, error)

Reads(s, p) == Walker("done", p, s.string, s.stack, s.outcome)

Enters(s, p, frame) == Walker("next", p, s.string, Append(s.stack, frame), s.outcome)

Leaves(s, p) ==
  Walker("done", p, s.string, SubSeq(s.stack, 1, Len(s.stack) - 1), s.outcome)

Turns(s, phase_, frame) ==
  Walker(phase_, s.pos, s.string, [s.stack EXCEPT ![Len(s.stack)] = frame], s.outcome)

(* HeadError and the texts and floats accepted, for the walker of a.         *)
Problem(a, p) ==
  IF p >= Len(a.in) THEN Error("eof", p)
  ELSE IF Heads(a.in)!Info(p) \in 28..30 THEN Error("additional", p)
  ELSE IF Heads(a.in)!HeadEnd(p) > Len(a.in) THEN Error("eof", p + 1)
  ELSE IF /\ a.mode = "deterministic" /\ Heads(a.in)!Major(p) # 7
          /\ ~Heads(a.in)!Preferred(p)
       THEN Error("nondeterministic", p)
  ELSE NoError

TextRead(a, body, to) == a.mode = "structural" \/ Heads(a.in)!TextAccepted(body, to)

FloatRead(a, p) ==
  \/ a.mode # "deterministic" \/ Heads(a.in)!Info(p) \notin 25..27
  \/ Data!FloatAccepted(SubSeq(a.in, p + 1, Heads(a.in)!HeadEnd(p)))

(* What the actions of an item do, then those of the other phases.           *)
ReadsString(a, s) ==
  LET p == s.pos
      n == Heads(a.in)!Argument(p)
      body == Heads(a.in)!HeadEnd(p)
      major == Heads(a.in)!Major(p)
  IN  IF n # Indefinite
      THEN IF n > MaxCollection THEN GivesUp(s, Error("limit", p))
           ELSE IF body + n > Len(a.in) THEN GivesUp(s, Error("eof", body))
           ELSE IF major = 3 /\ ~TextRead(a, body, body + n) THEN GivesUp(s, Error("utf8", p))
           ELSE Reads(s, body + n)
      ELSE IF a.mode = "deterministic" THEN GivesUp(s, Error("nondeterministic", p))
      ELSE Walker("chunks", body, [major |-> major, total |-> 0], s.stack, s.outcome)

ReadsContainer(a, s) ==
  LET p == s.pos
      n == Heads(a.in)!Argument(p)
      body == Heads(a.in)!HeadEnd(p)
      kind == IF Heads(a.in)!Major(p) = 5 THEN "map" ELSE "array"
  IN  IF n > MaxCollection THEN GivesUp(s, Error("limit", p))
      ELSE IF n # Indefinite THEN Enters(s, body, Frame(kind, p, n * PerEntry(kind)))
      ELSE IF a.mode = "deterministic" THEN GivesUp(s, Error("nondeterministic", p))
      ELSE Enters(s, body, Frame(kind, p, Indefinite))

ReadsSimple(a, s) ==
  LET p == s.pos
  IN  IF Heads(a.in)!Info(p) = 31 THEN GivesUp(s, Error("break", p))
      ELSE IF Heads(a.in)!Info(p) = 24 /\ Heads(a.in)!Argument(p) < 32
           THEN GivesUp(s, Error("additional", p))
      ELSE IF ~FloatRead(a, p) THEN GivesUp(s, Error("nondeterministic", p))
      ELSE Reads(s, Heads(a.in)!HeadEnd(p))

AtItem(a, s) ==
  LET p == s.pos
      major == Heads(a.in)!Major(p)
      body == Heads(a.in)!HeadEnd(p)
  IN  IF Len(s.stack) > MaxDepth THEN GivesUp(s, Error("depth", p))
      ELSE IF Problem(a, p) # NoError THEN GivesUp(s, Problem(a, p))
      ELSE IF major \in {0, 1}
           THEN IF Heads(a.in)!Info(p) = 31 THEN GivesUp(s, Error("additional", p))
                ELSE Reads(s, body)
      ELSE IF major \in {2, 3} THEN ReadsString(a, s)
      ELSE IF major \in {4, 5} THEN ReadsContainer(a, s)
      ELSE IF major = 6
           THEN IF Heads(a.in)!Info(p) = 31 THEN GivesUp(s, Error("additional", p))
                ELSE Enters(s, body, Frame("tag", p, 1))
      ELSE ReadsSimple(a, s)

AtChunk(a, s) ==
  LET p == s.pos
      n == Heads(a.in)!Argument(p)
      body == Heads(a.in)!HeadEnd(p)
  IN  IF p = Len(a.in) THEN GivesUp(s, Error("eof", p))
      ELSE IF Heads(a.in)!Byte(p) = Break THEN Reads(s, p + 1)
      ELSE IF Problem(a, p) # NoError THEN GivesUp(s, Problem(a, p))
      ELSE IF Heads(a.in)!Major(p) # s.string.major \/ n = Indefinite
           THEN GivesUp(s, Error("type", p))
      ELSE IF a.mode = "value" /\ s.string.total + n > MaxCollection
           THEN GivesUp(s, Error("limit", p))
      ELSE IF body + n > Len(a.in) THEN GivesUp(s, Error("eof", body))
      ELSE IF Heads(a.in)!Major(p) = 3 /\ ~TextRead(a, body, body + n)
           THEN GivesUp(s, Error("utf8", p))
      ELSE Walker("chunks", body + n, [major |-> s.string.major, total |-> s.string.total + n],
                  s.stack, s.outcome)

TopOf(s) == s.stack[Len(s.stack)]

AtDone(a, s) ==
  LET key == SubSeq(a.in, TopOf(s).from + 1, s.pos)
      ordered == a.mode = "deterministic" /\ IsKey(TopOf(s))
      counted == [TopOf(s) EXCEPT !.done = @ + 1, !.previous = IF ordered THEN key ELSE @]
  IN  IF s.stack = <<>> THEN Walker("stop", s.pos, s.string, s.stack, Ok(s.pos))
      ELSE IF ordered /\ TopOf(s).previous # <<>> /\ ~Before(TopOf(s).previous, key)
           THEN GivesUp(s, Error("nondeterministic", TopOf(s).from))
      ELSE IF /\ TopOf(s).items = Indefinite /\ a.mode # "value"
              /\ counted.done > MaxCollection * PerEntry(TopOf(s).kind)
           THEN GivesUp(s, Error("limit", TopOf(s).at))
      ELSE Turns(s, "next", counted)

AtNext(a, s) ==
  LET p == s.pos
      open == TopOf(s).items = Indefinite
  IN  IF ~open /\ TopOf(s).done = TopOf(s).items THEN Leaves(s, p)
      ELSE IF open /\ p = Len(a.in) THEN GivesUp(s, Error("eof", p))
      ELSE IF open /\ Heads(a.in)!Byte(p) = Break
           THEN IF TopOf(s).kind = "map" /\ TopOf(s).done % 2 = 1
                THEN GivesUp(s, Error("break", p))
                ELSE Leaves(s, p + 1)
      ELSE IF open /\ a.mode = "value" /\ TopOf(s).done = MaxCollection * PerEntry(TopOf(s).kind)
           THEN GivesUp(s, Error("limit", TopOf(s).at))
      ELSE Turns(s, "item", [TopOf(s) EXCEPT !.from = p])

Successor(a, s) ==
  IF s.phase = "item" THEN AtItem(a, s)
  ELSE IF s.phase = "chunks" THEN AtChunk(a, s)
  ELSE IF s.phase = "done" THEN AtDone(a, s)
  ELSE AtNext(a, s)

-----------------------------------------------------------------------------
(* Every step of a walk is its successor.                                   *)

LEMMA SameHeads ==
  ASSUME NEW p
  PROVE  /\ Heads(input)!Byte(p) = Byte(p) /\ Heads(input)!Info(p) = Info(p)
         /\ Heads(input)!Major(p) = Major(p) /\ Heads(input)!HeadEnd(p) = HeadEnd(p)
         /\ Heads(input)!Argument(p) = Argument(p)
         /\ Heads(input)!Preferred(p) <=> Preferred(p)
<1>1. \A q : Heads(input)!Byte(q) = Byte(q)
  BY DEF Heads!Byte, Byte
<1>2. Heads(input)!Info(p) = Info(p) /\ Heads(input)!Major(p) = Major(p)
  BY <1>1 DEF Heads!Info, Info, Heads!Major, Major
<1>3. Heads(input)!HeadEnd(p) = HeadEnd(p)
  BY <1>2 DEF Heads!HeadEnd, HeadEnd, Heads!Width, Width
<1>4. \A q : Heads(input)!Two(q) = Two(q) /\ Heads(input)!Four(q) = Four(q)
  BY <1>1 DEF Heads!Two, Two, Heads!Four, Four
<1>5. Heads(input)!Argument(p) = Argument(p)
  BY <1>1, <1>2, <1>4 DEF Heads!Argument, Argument, Heads!Indefinite, Indefinite
<1>6. Heads(input)!Preferred(p) <=> Preferred(p)
  BY <1>2, <1>4, <1>5 DEF Heads!Preferred, Preferred
<1> QED
  BY <1>1, <1>2, <1>3, <1>5, <1>6

LEMMA SameText ==
  ASSUME NEW p, NEW q
  PROVE  TextRead(This, p, q) <=> TextAccepted(p, q)
<1> DEFINE byMine(f, r) ==
             \/ r = q
             \/ \E u \in {r + 1, r + 2, r + 3, r + 4} : u <= q /\ Character(r, u) /\ f[u]
           byIts(f, r) ==
             \/ r = q
             \/ \E u \in {r + 1, r + 2, r + 3, r + 4} :
                  u <= q /\ Heads(input)!Character(r, u) /\ f[u]
           mine(f) == f = [r \in p..q |-> byMine(f, r)]
           its(f) == f = [r \in p..q |-> byIts(f, r)]
<1>1. ASSUME NEW f PROVE mine(f) <=> its(f)
  <2>1. ASSUME NEW r, NEW u PROVE Heads(input)!Character(r, u) <=> Character(r, u)
    <3>1. \A x : Heads(input)!Byte(x) = Byte(x)
      BY SameHeads
    <3>2. Heads(input)!Byte(r) = Byte(r) /\ Heads(input)!Byte(r + 1) = Byte(r + 1)
      BY <3>1
    <3>3. (\A x \in (r + 2)..(u - 1) : Heads(input)!Byte(x) \in 128..191)
            <=> (\A x \in (r + 2)..(u - 1) : Byte(x) \in 128..191)
      BY <3>1
    <3> DEFINE leads(x, y) ==
                 LET least == CASE x = 224 -> 160 [] x = 240 -> 144 [] OTHER -> 128
                     most == CASE x = 237 -> 159 [] x = 244 -> 143 [] OTHER -> 191
                 IN  /\ x \in CASE u - r = 1 -> 0..127   [] u - r = 2 -> 194..223
                                [] u - r = 3 -> 224..239 [] u - r = 4 -> 240..244
                     /\ u > r + 1 => y \in least..most
    <3>4. Heads(input)!Character(r, u)
            <=> /\ leads(Heads(input)!Byte(r), Heads(input)!Byte(r + 1))
                /\ \A x \in (r + 2)..(u - 1) : Heads(input)!Byte(x) \in 128..191
      BY DEF Heads!Character
    <3>5. Character(r, u)
            <=> /\ leads(Byte(r), Byte(r + 1))
                /\ \A x \in (r + 2)..(u - 1) : Byte(x) \in 128..191
      BY DEF Character
    <3> HIDE DEF leads
    <3> QED
      BY <3>2, <3>3, <3>4, <3>5
  <2>2. ASSUME NEW r \in p..q PROVE byMine(f, r) = byIts(f, r)
    <3>1. byMine(f, r) <=> byIts(f, r)
      BY <2>1
    <3>2. byMine(f, r) \in BOOLEAN /\ byIts(f, r) \in BOOLEAN
      OBVIOUS
    <3> HIDE DEF byMine, byIts
    <3> QED
      BY <3>1, <3>2
  <2> HIDE DEF byMine, byIts
  <2>3. [r \in p..q |-> byMine(f, r)] = [r \in p..q |-> byIts(f, r)]
    BY <2>2
  <2> QED
    BY <2>3
<1>2. CASE mode = "structural"
  BY <1>2 DEF This, TextRead, TextAccepted
<1>3. CASE mode # "structural"
  <2>1. TextRead(This, p, q) <=> Heads(input)!TextAccepted(p, q)
    BY <1>3 DEF This, TextRead
  <2>2. TextAccepted(p, q)
          <=> (CHOOSE f : mine(f))[p]
    BY <1>3 DEF TextAccepted
  <2>3. Heads(input)!TextAccepted(p, q)
          <=> (CHOOSE f : its(f))[p]
    BY DEF Heads!TextAccepted
  <2> HIDE DEF mine, its
  <2>4. (CHOOSE f : mine(f)) = (CHOOSE f : its(f))
    BY <1>1
  <2> QED
    BY <2>1, <2>2, <2>3, <2>4
<1> QED
  BY <1>2, <1>3

LEMMA SameFloat ==
  ASSUME NEW p
  PROVE  FloatRead(This, p) <=> FloatAccepted(p)
BY SameHeads DEF This, FloatRead, FloatAccepted

LEMMA SameProblem ==
  ASSUME NEW p
  PROVE  Problem(This, p) = HeadError(p)
BY SameHeads DEF This, Problem, HeadError


LEMMA NowIs ==
  /\ Now.phase = phase /\ Now.pos = pos /\ Now.string = string
  /\ Now.stack = stack /\ Now.outcome = outcome
  /\ This.in = input /\ This.mode = mode
BY DEF Now, This, Walker

LEMMA EndingsAre ==
  /\ \A e : Fail(e) => Now' = GivesUp(Now, e)
  /\ \A p : Complete(p) => Now' = Reads(Now, p)
  /\ \A f : Open(f) => Now' = Enters(Now, HeadEnd(pos), f)
  /\ \A p : Close(p) => Now' = Leaves(Now, p)
<1>1. \A e : Fail(e) => Now' = GivesUp(Now, e)
  BY NowIs DEF Fail, Now, GivesUp
<1>2. \A p : Complete(p) => Now' = Reads(Now, p)
  BY NowIs DEF Complete, Now, Reads
<1>3. \A f : Open(f) => Now' = Enters(Now, HeadEnd(pos), f)
  BY NowIs DEF Open, Now, Enters
<1>4. \A p : Close(p) => Now' = Leaves(Now, p)
  BY NowIs DEF Close, Now, Leaves, Pop, Depth
<1> QED
  BY <1>1, <1>2, <1>3, <1>4

LEMMA ItemFollows ==
  ASSUME TooDeep \/ HeadFails \/ Integer \/ DefiniteString \/ IndefiniteString
           \/ Container \/ Tag \/ Simple
  PROVE  Now' = AtItem(This, Now)
<1>0. /\ Heads(input)!Info(pos) = Info(pos) /\ Heads(input)!Major(pos) = Major(pos)
      /\ Heads(input)!HeadEnd(pos) = HeadEnd(pos)
      /\ Heads(input)!Argument(pos) = Argument(pos)
  BY SameHeads
<1>1. /\ AtItem(This, Now) =
            IF Deep THEN GivesUp(Now, Error("depth", pos))
            ELSE IF HeadError(pos) # NoError THEN GivesUp(Now, HeadError(pos))
            ELSE IF Major(pos) \in {0, 1}
                 THEN IF Info(pos) = 31 THEN GivesUp(Now, Error("additional", pos))
                      ELSE Reads(Now, HeadEnd(pos))
            ELSE IF Major(pos) \in {2, 3} THEN ReadsString(This, Now)
            ELSE IF Major(pos) \in {4, 5} THEN ReadsContainer(This, Now)
            ELSE IF Major(pos) = 6
                 THEN IF Info(pos) = 31 THEN GivesUp(Now, Error("additional", pos))
                      ELSE Enters(Now, HeadEnd(pos), Frame("tag", pos, 1))
            ELSE ReadsSimple(This, Now)
  BY <1>0, NowIs, SameProblem DEF AtItem, Deep, Depth
<1>2. CASE TooDeep
  BY <1>1, <1>2, EndingsAre DEF TooDeep
<1>3. CASE HeadFails
  BY <1>1, <1>3, EndingsAre DEF HeadFails
<1>4. CASE Integer
  BY <1>1, <1>4, EndingsAre DEF Integer, AtHead
<1>5. CASE DefiniteString
  <2>1. AtItem(This, Now) = ReadsString(This, Now)
    BY <1>1, <1>5 DEF DefiniteString, AtHead
  <2>2. ReadsString(This, Now) =
          IF Argument(pos) > MaxCollection THEN GivesUp(Now, Error("limit", pos))
          ELSE IF HeadEnd(pos) + Argument(pos) > Len(input)
               THEN GivesUp(Now, Error("eof", HeadEnd(pos)))
          ELSE IF Major(pos) = 3
                    /\ ~TextAccepted(HeadEnd(pos), HeadEnd(pos) + Argument(pos))
               THEN GivesUp(Now, Error("utf8", pos))
          ELSE Reads(Now, HeadEnd(pos) + Argument(pos))
    BY <1>0, <1>5, NowIs, SameText DEF DefiniteString, ReadsString
  <2> QED
    BY <1>5, <2>1, <2>2, EndingsAre DEF DefiniteString
<1>6. CASE IndefiniteString
  <2>1. AtItem(This, Now) = ReadsString(This, Now)
    BY <1>1, <1>6 DEF IndefiniteString, AtHead
  <2>2. ReadsString(This, Now) =
          IF mode = "deterministic" THEN GivesUp(Now, Error("nondeterministic", pos))
          ELSE Walker("chunks", HeadEnd(pos), [major |-> Major(pos), total |-> 0],
                      stack, outcome)
    BY <1>0, <1>6, NowIs DEF IndefiniteString, ReadsString
  <2> QED
    BY <1>6, <2>1, <2>2, EndingsAre DEF IndefiniteString, Now
<1>7. CASE Container
  <2>1. AtItem(This, Now) = ReadsContainer(This, Now)
    BY <1>1, <1>7 DEF Container, AtHead
  <2> DEFINE kind == IF Major(pos) = 5 THEN "map" ELSE "array"
  <2>2. ReadsContainer(This, Now) =
          IF Argument(pos) > MaxCollection THEN GivesUp(Now, Error("limit", pos))
          ELSE IF Argument(pos) # Indefinite
               THEN Enters(Now, HeadEnd(pos),
                           Frame(kind, pos, Argument(pos) * PerEntry(kind)))
          ELSE IF mode = "deterministic" THEN GivesUp(Now, Error("nondeterministic", pos))
          ELSE Enters(Now, HeadEnd(pos), Frame(kind, pos, Indefinite))
    BY <1>0, NowIs DEF ReadsContainer
  <2> QED
    BY <1>7, <2>1, <2>2, EndingsAre DEF Container
<1>8. CASE Tag
  BY <1>1, <1>8, EndingsAre DEF Tag, AtHead
<1>9. CASE Simple
  <2>1. AtItem(This, Now) = ReadsSimple(This, Now)
    BY <1>1, <1>9 DEF Simple, AtHead
  <2>2. ReadsSimple(This, Now) =
          IF Info(pos) = 31 THEN GivesUp(Now, Error("break", pos))
          ELSE IF Info(pos) = 24 /\ Argument(pos) < 32
               THEN GivesUp(Now, Error("additional", pos))
          ELSE IF ~FloatAccepted(pos) THEN GivesUp(Now, Error("nondeterministic", pos))
          ELSE Reads(Now, HeadEnd(pos))
    BY <1>0, NowIs, SameFloat DEF ReadsSimple
  <2> QED
    BY <1>9, <2>1, <2>2, EndingsAre DEF Simple
<1> QED
  BY <1>2, <1>3, <1>4, <1>5, <1>6, <1>7, <1>8, <1>9

LEMMA ChunkFollows ==
  ASSUME IInv, ChunkCut \/ ChunksEnd \/ ChunkHeadFails \/ Chunk
  PROVE  Now' = AtChunk(This, Now)
<1>0. /\ Heads(input)!Byte(pos) = Byte(pos) /\ Heads(input)!Major(pos) = Major(pos)
      /\ Heads(input)!HeadEnd(pos) = HeadEnd(pos)
      /\ Heads(input)!Argument(pos) = Argument(pos)
  BY SameHeads
<1> DEFINE n == Argument(pos)
           body == HeadEnd(pos)
<1>1. AtChunk(This, Now) =
        IF pos = Len(input) THEN GivesUp(Now, Error("eof", pos))
        ELSE IF Byte(pos) = Break THEN Reads(Now, pos + 1)
        ELSE IF HeadError(pos) # NoError THEN GivesUp(Now, HeadError(pos))
        ELSE IF Major(pos) # string.major \/ n = Indefinite
             THEN GivesUp(Now, Error("type", pos))
        ELSE IF mode = "value" /\ string.total + n > MaxCollection
             THEN GivesUp(Now, Error("limit", pos))
        ELSE IF body + n > Len(input) THEN GivesUp(Now, Error("eof", body))
        ELSE IF Major(pos) = 3 /\ ~TextAccepted(body, body + n)
             THEN GivesUp(Now, Error("utf8", pos))
        ELSE Walker("chunks", body + n,
                    [major |-> string.major, total |-> string.total + n], stack, outcome)
  BY <1>0, NowIs, SameProblem, SameText DEF AtChunk
<1> HIDE DEF n, body
<1>2. Len(input) \in Nat
  BY State
<1>3. CASE ChunkCut
  BY <1>1, <1>3, EndingsAre DEF ChunkCut
<1>4. CASE ChunksEnd
  BY <1>1, <1>2, <1>4, EndingsAre DEF ChunksEnd
<1>5. CASE ChunkHeadFails
  BY <1>1, <1>2, <1>5, EndingsAre DEF ChunkHeadFails
<1>6. CASE Chunk
  <2>1. pos # Len(input) /\ Byte(pos) # Break /\ HeadError(pos) = NoError
    BY <1>2, <1>6 DEF Chunk
  <2>2. string \in [major: {2, 3}, total: Nat]
    BY State
  <2>3. [string EXCEPT !.total = @ + n] = [major |-> string.major, total |-> string.total + n]
    BY <2>2
  <2> DEFINE other == Major(pos) # string.major \/ n = Indefinite
             large == mode = "value" /\ string.total + n > MaxCollection
             cut == body + n > Len(input)
             bad == Major(pos) = 3 /\ ~TextAccepted(body, body + n)
             read == [major |-> string.major, total |-> string.total + n]
  <2>4. AtChunk(This, Now) = IF other THEN GivesUp(Now, Error("type", pos))
                             ELSE IF large THEN GivesUp(Now, Error("limit", pos))
                             ELSE IF cut THEN GivesUp(Now, Error("eof", body))
                             ELSE IF bad THEN GivesUp(Now, Error("utf8", pos))
                             ELSE Walker("chunks", body + n, read, stack, outcome)
    BY <1>1, <2>1
  <2>5. IF other THEN Fail(Error("type", pos))
        ELSE IF large THEN Fail(Error("limit", pos))
        ELSE IF cut THEN Fail(Error("eof", body))
        ELSE IF bad THEN Fail(Error("utf8", pos))
        ELSE pos' = body + n /\ string' = read /\ UNCHANGED <<phase, stack, outcome>>
    BY <1>6, <2>3 DEF Chunk, n, body
  <2>6. phase = "chunks"
    BY <1>6 DEF Chunk
  <2> HIDE DEF other, large, cut, bad, read
  <2>7. pos' = body + n /\ string' = read /\ UNCHANGED <<phase, stack, outcome>>
          => Now' = Walker("chunks", body + n, read, stack, outcome)
    BY <2>6 DEF Now
  <2> QED
    BY <2>4, <2>5, <2>7, EndingsAre
<1> QED
  BY <1>3, <1>4, <1>5, <1>6

LEMMA DoneFollows ==
  ASSUME Finish \/ ItemDone
  PROVE  Now' = AtDone(This, Now)
<1>0. stack # <<>> => TopOf(Now) = Top
  BY NowIs DEF TopOf, Top, Depth
<1>1. CASE Finish
  <2>1. AtDone(This, Now) = Walker("stop", pos, string, stack, Ok(pos))
    BY <1>1, NowIs DEF Finish, AtDone
  <2> QED
    BY <1>1, <2>1 DEF Finish, Now
<1>2. CASE ItemDone
  <2> DEFINE key == SubSeq(input, Top.from + 1, pos)
             ordered == mode = "deterministic" /\ IsKey(Top)
             counted == [Top EXCEPT !.done = @ + 1,
                                    !.previous = IF ordered THEN key ELSE @]
  <2>1. AtDone(This, Now) =
          IF ordered /\ Top.previous # <<>> /\ ~Before(Top.previous, key)
          THEN GivesUp(Now, Error("nondeterministic", Top.from))
          ELSE IF /\ Top.items = Indefinite /\ mode # "value"
                  /\ counted.done > MaxCollection * PerEntry(Top.kind)
               THEN GivesUp(Now, Error("limit", Top.at))
          ELSE Turns(Now, "next", counted)
    BY <1>0, <1>2, NowIs DEF ItemDone, AtDone
  <2>2. \/ /\ ordered /\ Top.previous # <<>> /\ ~Before(Top.previous, key)
           /\ Fail(Error("nondeterministic", Top.from))
        \/ /\ ~(ordered /\ Top.previous # <<>> /\ ~Before(Top.previous, key))
           /\ IF /\ Top.items = Indefinite /\ mode # "value"
                 /\ counted.done > MaxCollection * PerEntry(Top.kind)
              THEN Fail(Error("limit", Top.at))
              ELSE /\ stack' = WithTop(counted)
                   /\ phase' = "next"
                   /\ UNCHANGED <<pos, string, outcome>>
    BY <1>2 DEF ItemDone
  <2> HIDE DEF ordered, counted, key
  <2>3. stack' = WithTop(counted) /\ phase' = "next" /\ UNCHANGED <<pos, string, outcome>>
          => Now' = Turns(Now, "next", counted)
    BY NowIs DEF Now, Turns, WithTop, Depth
  <2> QED
    BY <2>1, <2>2, <2>3, EndingsAre
<1> QED
  BY <1>1, <1>2

LEMMA NextFollows ==
  ASSUME IInv, ContainerEnds \/ ContainerCut \/ ContainerBreak \/ NextItem
  PROVE  Now' = AtNext(This, Now)
<1>0. /\ TopOf(Now) = Top /\ Heads(input)!Byte(pos) = Byte(pos)
      /\ Len(input) \in Nat /\ pos \in Nat
  BY NowIs, SameHeads, State DEF TopOf, Top, Depth
<1>t. Top \in FrameRecord
  BY TopFrame DEF IInv, ContainerEnds, ContainerCut, ContainerBreak, NextItem
<1>d. Top.done # Indefinite
  BY <1>t DEF FrameRecord, Indefinite
<1>1. AtNext(This, Now) =
        IF Top.items # Indefinite /\ Top.done = Top.items THEN Leaves(Now, pos)
        ELSE IF Top.items = Indefinite /\ pos = Len(input)
             THEN GivesUp(Now, Error("eof", pos))
        ELSE IF Top.items = Indefinite /\ Byte(pos) = Break
             THEN IF Top.kind = "map" /\ Top.done % 2 = 1
                  THEN GivesUp(Now, Error("break", pos))
                  ELSE Leaves(Now, pos + 1)
        ELSE IF /\ Top.items = Indefinite /\ mode = "value"
                /\ Top.done = MaxCollection * PerEntry(Top.kind)
             THEN GivesUp(Now, Error("limit", Top.at))
        ELSE Turns(Now, "item", [Top EXCEPT !.from = pos])
  BY <1>0, NowIs DEF AtNext
<1>2. CASE ContainerEnds
  BY <1>1, <1>2, <1>d, EndingsAre DEF ContainerEnds
<1>3. CASE ContainerCut
  BY <1>1, <1>3, EndingsAre DEF ContainerCut
<1>4. CASE ContainerBreak
  BY <1>0, <1>1, <1>4, EndingsAre DEF ContainerBreak
<1>5. CASE NextItem
  <2>1. /\ ~(Top.items # Indefinite /\ Top.done = Top.items)
        /\ ~(Top.items = Indefinite /\ pos = Len(input))
        /\ ~(Top.items = Indefinite /\ Byte(pos) = Break)
    BY <1>0, <1>5, <1>t DEF NextItem, FrameRecord, Indefinite
  <2>2. stack' = WithTop([Top EXCEPT !.from = pos]) /\ phase' = "item"
          /\ UNCHANGED <<pos, string, outcome>>
          => Now' = Turns(Now, "item", [Top EXCEPT !.from = pos])
    BY NowIs DEF Now, Turns, WithTop, Depth
  <2> QED
    BY <1>1, <1>5, <2>1, <2>2, EndingsAre DEF NextItem
<1> QED
  BY <1>2, <1>3, <1>4, <1>5

(* A walker does what the function says.                                    *)
LEMMA StepFollows ==
  ASSUME IInv, Step
  PROVE  Now' = Successor(This, Now)
<1>0. Now.phase = phase
  BY NowIs
<1>1. CASE TooDeep \/ HeadFails \/ Integer \/ DefiniteString \/ IndefiniteString
           \/ Container \/ Tag \/ Simple
  <2>1. phase = "item"
    BY <1>1 DEF TooDeep, HeadFails, Integer, DefiniteString, IndefiniteString, Container,
                Tag, Simple, AtHead
  <2> QED
    BY <1>0, <1>1, <2>1, ItemFollows DEF Successor
<1>2. CASE ChunkCut \/ ChunksEnd \/ ChunkHeadFails \/ Chunk
  <2>1. phase = "chunks"
    BY <1>2 DEF ChunkCut, ChunksEnd, ChunkHeadFails, Chunk
  <2> QED
    BY <1>0, <1>2, <2>1, ChunkFollows DEF Successor
<1>3. CASE Finish \/ ItemDone
  <2>1. phase = "done"
    BY <1>3 DEF Finish, ItemDone
  <2> QED
    BY <1>0, <1>3, <2>1, DoneFollows DEF Successor
<1>4. CASE ContainerEnds \/ ContainerCut \/ ContainerBreak \/ NextItem
  <2>1. phase = "next"
    BY <1>4 DEF ContainerEnds, ContainerCut, ContainerBreak, NextItem
  <2> QED
    BY <1>0, <1>4, <2>1, NextFollows DEF Successor
<1> QED
  BY <1>1, <1>2, <1>3, <1>4 DEF Step, Walk

-----------------------------------------------------------------------------
(* Two walks step by step.  A walker and a stricter one on the same bytes,   *)
(* and a walker on a slice and on the slice without its last byte, take the  *)
(* same steps until the second has a reason of its own to stop.              *)

(* <<a, b, reason>>: b refuses what a accepts for this reason only.          *)
Stricter ==
  {<<"structural", "basic", "utf8">>, <<"basic", "value", "limit">>,
   <<"basic", "deterministic", "nondeterministic">>}

(* Two walks whose answers differ only when the second has this reason.      *)
Companions(a, b, reason) ==
  /\ IsInput(a.in)
  /\ \/ a.in = b.in /\ <<a.mode, b.mode, reason>> \in Stricter
     \/ /\ a.in # <<>> /\ b.in = SubSeq(a.in, 1, Len(a.in) - 1)
        /\ a.mode = b.mode /\ reason = "eof"

Excused(t, reason) == t.phase = "stop" /\ IsError(t.outcome, {reason})

(* What a walk that goes on has.                                            *)
Sound(a, s) ==
  /\ IsInput(a.in)
  /\ s.phase \in {"item", "chunks", "done", "next"}
  /\ s.pos \in 0..Len(a.in)
  /\ s.string \in [major: {2, 3}, total: Nat]
  /\ s.stack \in Seq(FrameRecord)
  /\ Problem(a, s.pos) = NoError =>
       /\ s.pos < Len(a.in)
       /\ Heads(a.in)!HeadEnd(s.pos) \in (s.pos + 1)..Len(a.in)
       /\ Heads(a.in)!Argument(s.pos) \in Nat \cup {Indefinite}
  /\ s.phase = "next" => s.stack # <<>>
  /\ s.phase = "done" /\ s.stack # <<>> /\ a.mode = "value"
       /\ TopOf(s).items = Indefinite
       => TopOf(s).done < MostItems(TopOf(s))
  /\ s.outcome = Running

(* Only the deterministic validation keeps the last key of a map.            *)
Plain(frame) == [frame EXCEPT !.previous = <<>>]

PlainStack(frames) == [i \in 1..Len(frames) |-> Plain(frames[i])]

Bare(t) == Walker(t.phase, t.pos, t.string, PlainStack(t.stack), t.outcome)

Seen(a, b, t) == IF a.mode = b.mode \/ b.mode # "deterministic" THEN t ELSE Bare(t)

LEMMA GivesUpIs ==
  ASSUME NEW s, NEW e
  PROVE  GivesUp(s, e).phase = "stop" /\ GivesUp(s, e).outcome = e
BY DEF GivesUp, Walker

LEMMA Excuse ==
  ASSUME NEW s, NEW r, NEW p
  PROVE  Excused(GivesUp(s, Error(r, p)), r)
BY GivesUpIs DEF Excused, IsError, Error

(* The structural scan and skip, skip and the value decoders.               *)
Looser(a, b, reason) ==
  /\ a.in = b.in
  /\ <<a.mode, b.mode, reason>> \in
       {<<"structural", "basic", "utf8">>, <<"basic", "value", "limit">>}

LEMMA LooserHeads ==
  ASSUME NEW a, NEW b, NEW reason, Looser(a, b, reason)
  PROVE  /\ a.mode # "deterministic" /\ b.mode # "deterministic"
         /\ a.mode # "value" /\ (b.mode = "value" => reason = "limit")
         /\ \A p : Problem(a, p) = Problem(b, p)
         /\ \A p, q : (TextRead(a, p, q) <=> TextRead(b, p, q))
                      \/ (reason = "utf8" /\ TextRead(a, p, q))
         /\ \A p : FloatRead(a, p) /\ FloatRead(b, p)
<1>1. /\ a.mode # "deterministic" /\ b.mode # "deterministic" /\ a.in = b.in
      /\ a.mode # "value" /\ (b.mode = "value" => reason = "limit")
      /\ \/ a.mode = "structural" /\ reason = "utf8"
         \/ a.mode # "structural" /\ b.mode # "structural"
  BY DEF Looser
<1>2. \A p : Problem(a, p) = Problem(b, p)
  BY <1>1 DEF Problem
<1>3. \A p, q : (TextRead(a, p, q) <=> TextRead(b, p, q))
               \/ (reason = "utf8" /\ TextRead(a, p, q))
  BY <1>1 DEF TextRead
<1> QED
  BY <1>1, <1>2, <1>3 DEF FloatRead

LEMMA LooserItem ==
  ASSUME NEW a, NEW b, NEW reason, NEW t, Looser(a, b, reason)
  PROVE  AtItem(b, t) = AtItem(a, t) \/ Excused(AtItem(b, t), reason)
<1>1. a.in = b.in
  BY DEF Looser
<1>2. ReadsString(b, t) = ReadsString(a, t) \/ Excused(ReadsString(b, t), reason)
  BY <1>1, LooserHeads, Excuse DEF ReadsString
<1>3. ReadsContainer(b, t) = ReadsContainer(a, t)
  BY <1>1, LooserHeads DEF ReadsContainer
<1>4. ReadsSimple(b, t) = ReadsSimple(a, t)
  BY <1>1, LooserHeads DEF ReadsSimple
<1> QED
  BY <1>1, <1>2, <1>3, <1>4, LooserHeads DEF AtItem

LEMMA LooserChunk ==
  ASSUME NEW a, NEW b, NEW reason, NEW t, Looser(a, b, reason)
  PROVE  AtChunk(b, t) = AtChunk(a, t) \/ Excused(AtChunk(b, t), reason)
<1>1. a.in = b.in
  BY DEF Looser
<1> QED
  BY <1>1, LooserHeads, Excuse DEF AtChunk

LEMMA LastIs ==
  ASSUME NEW t, t.stack \in Seq(FrameRecord), t.stack # <<>>
  PROVE  /\ TopOf(t) \in FrameRecord /\ Len(t.stack) \in 1..Len(t.stack)
         /\ TopOf(t).done \in Nat /\ TopOf(t).from \in Nat
         /\ MaxCollection * PerEntry(TopOf(t).kind) \in Nat
<1>1. Len(t.stack) \in 1..Len(t.stack)
  BY NonEmpty
<1>2. TopOf(t) \in FrameRecord
  BY <1>1 DEF TopOf
<1>3. PerEntry(TopOf(t).kind) \in {1, 2}
  BY DEF PerEntry
<1> QED
  BY SMTT(30), <1>1, <1>2, <1>3, SkipAssumption DEF FrameRecord

LEMMA LooserDone ==
  ASSUME NEW a, NEW b, NEW reason, NEW t, Looser(a, b, reason), Sound(b, t),
         t.phase = "done"
  PROVE  AtDone(b, t) = AtDone(a, t)
<1>1. a.in = b.in
  BY DEF Looser
<1>2. CASE t.stack = <<>>
  BY <1>2 DEF AtDone
<1>3. CASE t.stack # <<>>
  <2>1. /\ TopOf(t) \in FrameRecord /\ TopOf(t).done \in Nat
        /\ MaxCollection * PerEntry(TopOf(t).kind) \in Nat
    BY <1>3, LastIs DEF Sound
  <2>2. \A x : [TopOf(t) EXCEPT !.done = @ + 1, !.previous = x].done = TopOf(t).done + 1
    BY <2>1 DEF FrameRecord
  <2>3. b.mode = "value" /\ TopOf(t).items = Indefinite
          => ~(TopOf(t).done + 1 > MaxCollection * PerEntry(TopOf(t).kind))
    BY <1>3, <2>1 DEF Sound, MostItems
  <2>4. a.mode # "deterministic" /\ b.mode # "deterministic" /\ a.mode # "value"
    BY LooserHeads
  <2> QED
    BY <1>1, <1>3, <2>2, <2>3, <2>4 DEF AtDone
<1> QED
  BY <1>2, <1>3

LEMMA LooserNext ==
  ASSUME NEW a, NEW b, NEW reason, NEW t, Looser(a, b, reason)
  PROVE  AtNext(b, t) = AtNext(a, t) \/ Excused(AtNext(b, t), reason)
<1>1. a.in = b.in
  BY DEF Looser
<1> QED
  BY <1>1, LooserHeads, Excuse DEF AtNext

LEMMA LooserSteps ==
  ASSUME NEW a, NEW b, NEW reason, NEW t, Looser(a, b, reason), Sound(b, t)
  PROVE  Successor(b, t) = Successor(a, t) \/ Excused(Successor(b, t), reason)
BY LooserItem, LooserChunk, LooserDone, LooserNext DEF Successor, Sound

(* skip and the deterministic validation: the frames differ by the last key. *)
Sorting(a, b, reason) ==
  /\ a.in = b.in
  /\ a.mode = "basic" /\ b.mode = "deterministic" /\ reason = "nondeterministic"

LEMMA SameSeq ==
  ASSUME NEW S, NEW s \in Seq(S), NEW t \in Seq(S), Len(s) = Len(t),
         \A i \in 1..Len(s) : s[i] = t[i]
  PROVE  s = t
OBVIOUS

LEMMA FrameIsPlain ==
  ASSUME NEW f \in FrameRecord
  PROVE  /\ Plain(f) \in FrameRecord /\ Plain(f).kind = f.kind /\ Plain(f).at = f.at
         /\ Plain(f).items = f.items /\ Plain(f).done = f.done
         /\ Plain(f).from = f.from /\ Plain(f).previous = <<>>
<1>1. <<>> \in Seq(Bytes)
  OBVIOUS
<1> QED
  BY <1>1 DEF Plain, FrameRecord

LEMMA PlainStackIs ==
  ASSUME NEW S \in Seq(FrameRecord)
  PROVE  /\ PlainStack(S) \in Seq(FrameRecord) /\ Len(PlainStack(S)) = Len(S)
         /\ \A i \in 1..Len(S) : PlainStack(S)[i] = Plain(S[i])
         /\ PlainStack(S) = <<>> <=> S = <<>>
<1>1. Len(S) \in Nat /\ \A i \in 1..Len(S) : S[i] \in FrameRecord
  OBVIOUS
<1>2. \A i \in 1..Len(S) : Plain(S[i]) \in FrameRecord
  BY <1>1, FrameIsPlain
<1>3. PlainStack(S) \in [1..Len(S) -> FrameRecord]
  BY <1>2 DEF PlainStack
<1>4. PlainStack(S) \in Seq(FrameRecord) /\ Len(PlainStack(S)) = Len(S)
  BY <1>1, <1>3
<1>5. \A i \in 1..Len(S) : PlainStack(S)[i] = Plain(S[i])
  BY DEF PlainStack
<1>6. PlainStack(S) = <<>> <=> S = <<>>
  BY <1>4
<1> QED
  BY <1>4, <1>5, <1>6

LEMMA PlainPush ==
  ASSUME NEW S \in Seq(FrameRecord), NEW f \in FrameRecord, Plain(f) = f
  PROVE  PlainStack(Append(S, f)) = Append(PlainStack(S), f)
<1>1. /\ Append(S, f) \in Seq(FrameRecord) /\ Len(Append(S, f)) = Len(S) + 1
      /\ \A i \in 1..Len(S) : Append(S, f)[i] = S[i]
      /\ Append(S, f)[Len(S) + 1] = f /\ Len(S) \in Nat
  BY Pushed
<1>2. /\ PlainStack(S) \in Seq(FrameRecord) /\ Len(PlainStack(S)) = Len(S)
      /\ \A i \in 1..Len(S) : PlainStack(S)[i] = Plain(S[i])
  BY PlainStackIs
<1>3. /\ Append(PlainStack(S), f) \in Seq(FrameRecord)
      /\ Len(Append(PlainStack(S), f)) = Len(S) + 1
      /\ \A i \in 1..Len(S) : Append(PlainStack(S), f)[i] = Plain(S[i])
      /\ Append(PlainStack(S), f)[Len(S) + 1] = f
  BY <1>2, Pushed
<1>4. /\ PlainStack(Append(S, f)) \in Seq(FrameRecord)
      /\ Len(PlainStack(Append(S, f))) = Len(S) + 1
      /\ \A i \in 1..(Len(S) + 1) : PlainStack(Append(S, f))[i] = Plain(Append(S, f)[i])
  BY <1>1, PlainStackIs
<1>5. \A i \in 1..(Len(S) + 1) :
        PlainStack(Append(S, f))[i] = Append(PlainStack(S), f)[i]
  <2>1. SUFFICES ASSUME NEW i \in 1..(Len(S) + 1)
                 PROVE  PlainStack(Append(S, f))[i] = Append(PlainStack(S), f)[i]
    OBVIOUS
  <2>2. CASE i = Len(S) + 1
    BY <1>1, <1>3, <1>4, <2>2
  <2>3. CASE i # Len(S) + 1
    <3>1. i \in 1..Len(S)
      BY <1>1, <2>3
    <3> QED
      BY <1>1, <1>3, <1>4, <3>1
  <2> QED
    BY <2>2, <2>3
<1> QED
  BY <1>3, <1>4, <1>5, SameSeq

LEMMA PlainPop ==
  ASSUME NEW S \in Seq(FrameRecord), S # <<>>
  PROVE  PlainStack(SubSeq(S, 1, Len(S) - 1))
           = SubSeq(PlainStack(S), 1, Len(PlainStack(S)) - 1)
<1> DEFINE T == SubSeq(S, 1, Len(S) - 1)
           P == PlainStack(S)
<1>1. /\ P \in Seq(FrameRecord) /\ Len(P) = Len(S) /\ P # <<>>
      /\ \A i \in 1..Len(S) : P[i] = Plain(S[i])
      /\ Len(S) \in Nat
  BY PlainStackIs
<1>2. /\ T \in Seq(FrameRecord) /\ Len(T) = Len(S) - 1
      /\ \A i \in 1..(Len(S) - 1) : T[i] = S[i]
  BY Popped
<1>3. /\ SubSeq(P, 1, Len(P) - 1) \in Seq(FrameRecord)
      /\ Len(SubSeq(P, 1, Len(P) - 1)) = Len(P) - 1
      /\ \A i \in 1..(Len(P) - 1) : SubSeq(P, 1, Len(P) - 1)[i] = P[i]
  <2> HIDE DEF P
  <2> QED
    BY <1>1, Popped
<1>4. /\ PlainStack(T) \in Seq(FrameRecord) /\ Len(PlainStack(T)) = Len(T)
      /\ \A i \in 1..Len(T) : PlainStack(T)[i] = Plain(T[i])
  <2> HIDE DEF T
  <2> QED
    BY <1>2, PlainStackIs
<1> HIDE DEF T, P
<1>5. \A i \in 1..Len(PlainStack(T)) : PlainStack(T)[i] = SubSeq(P, 1, Len(P) - 1)[i]
  <2>1. SUFFICES ASSUME NEW i \in 1..Len(PlainStack(T))
                 PROVE  PlainStack(T)[i] = SubSeq(P, 1, Len(P) - 1)[i]
    OBVIOUS
  <2>2. i \in 1..(Len(S) - 1) /\ i \in 1..Len(S) /\ i \in 1..Len(T) /\ i \in 1..(Len(P) - 1)
    BY <1>1, <1>2, <1>4
  <2> QED
    BY <1>1, <1>2, <1>3, <1>4, <2>2
<1>6. PlainStack(T) = SubSeq(P, 1, Len(P) - 1)
  BY <1>1, <1>2, <1>3, <1>4, <1>5, SameSeq
<1> QED
  BY <1>6 DEF T, P

LEMMA PlainTop ==
  ASSUME NEW S \in Seq(FrameRecord), S # <<>>, NEW f \in FrameRecord
  PROVE  PlainStack([S EXCEPT ![Len(S)] = f])
           = [PlainStack(S) EXCEPT ![Len(PlainStack(S))] = Plain(f)]
<1> DEFINE T == [S EXCEPT ![Len(S)] = f]
           P == PlainStack(S)
           Q == [P EXCEPT ![Len(P)] = Plain(f)]
<1>1. /\ P \in Seq(FrameRecord) /\ Len(P) = Len(S) /\ P # <<>>
      /\ \A i \in 1..Len(S) : P[i] = Plain(S[i])
      /\ Len(S) \in Nat
  BY PlainStackIs
<1>2. /\ T \in Seq(FrameRecord) /\ Len(T) = Len(S)
      /\ \A i \in 1..(Len(S) - 1) : T[i] = S[i]
      /\ T[Len(S)] = f
  BY Replaced
<1>3. Plain(f) \in FrameRecord
  BY FrameIsPlain
<1>4. /\ Q \in Seq(FrameRecord) /\ Len(Q) = Len(P)
      /\ \A i \in 1..(Len(P) - 1) : Q[i] = P[i]
      /\ Q[Len(P)] = Plain(f)
  <2> HIDE DEF P
  <2> QED
    BY <1>1, <1>3, Replaced
<1>5. /\ PlainStack(T) \in Seq(FrameRecord) /\ Len(PlainStack(T)) = Len(T)
      /\ \A i \in 1..Len(T) : PlainStack(T)[i] = Plain(T[i])
  <2> HIDE DEF T
  <2> QED
    BY <1>2, PlainStackIs
<1> HIDE DEF T, P, Q
<1>6. \A i \in 1..Len(PlainStack(T)) : PlainStack(T)[i] = Q[i]
  <2>1. SUFFICES ASSUME NEW i \in 1..Len(PlainStack(T))
                 PROVE  PlainStack(T)[i] = Q[i]
    OBVIOUS
  <2>2. i \in 1..Len(S) /\ PlainStack(T)[i] = Plain(T[i])
    BY <1>2, <1>5
  <2>3. CASE i = Len(S)
    BY <1>1, <1>2, <1>4, <2>2, <2>3
  <2>4. CASE i # Len(S)
    <3>1. i \in 1..(Len(S) - 1)
      BY <1>1, <2>2, <2>4
    <3> QED
      BY <1>1, <1>2, <1>4, <2>2, <3>1
  <2> QED
    BY <2>3, <2>4
<1>7. PlainStack(T) = Q
  BY <1>1, <1>2, <1>4, <1>5, <1>6, SameSeq
<1> QED
  BY <1>7 DEF T, P, Q

LEMMA BareIs ==
  ASSUME NEW t
  PROVE  /\ Bare(t).phase = t.phase /\ Bare(t).pos = t.pos /\ Bare(t).string = t.string
         /\ Bare(t).stack = PlainStack(t.stack) /\ Bare(t).outcome = t.outcome
         /\ \A e : Bare(GivesUp(t, e)) = GivesUp(Bare(t), e)
         /\ \A p : Bare(Reads(t, p)) = Reads(Bare(t), p)
         /\ \A phase_, p, string_, o :
              Bare(Walker(phase_, p, string_, t.stack, o))
                = Walker(phase_, p, string_, Bare(t).stack, o)
BY DEF Bare, GivesUp, Reads, Walker

LEMMA BareMoves ==
  ASSUME NEW t, t.stack \in Seq(FrameRecord)
  PROVE  /\ \A p : \A f \in FrameRecord : Plain(f) = f =>
              Bare(Enters(t, p, f)) = Enters(Bare(t), p, f)
         /\ t.stack # <<>> => \A p : Bare(Leaves(t, p)) = Leaves(Bare(t), p)
         /\ t.stack # <<>> => \A phase_ : \A f \in FrameRecord :
              Bare(Turns(t, phase_, f)) = Turns(Bare(t), phase_, Plain(f))
         /\ t.stack # <<>> => TopOf(Bare(t)) = Plain(TopOf(t))
         /\ Bare(t).stack = <<>> <=> t.stack = <<>>
         /\ Len(Bare(t).stack) = Len(t.stack)
<1>0. /\ Bare(t).phase = t.phase /\ Bare(t).pos = t.pos /\ Bare(t).string = t.string
      /\ Bare(t).stack = PlainStack(t.stack) /\ Bare(t).outcome = t.outcome
  BY BareIs
<1>1. ASSUME NEW p, NEW f \in FrameRecord, Plain(f) = f
      PROVE  Bare(Enters(t, p, f)) = Enters(Bare(t), p, f)
  <2>1. PlainStack(Append(t.stack, f)) = Append(PlainStack(t.stack), f)
    BY <1>1, PlainPush
  <2> QED
    BY <1>0, <2>1 DEF Bare, Enters, Walker
<1>2. ASSUME t.stack # <<>>, NEW p
      PROVE  Bare(Leaves(t, p)) = Leaves(Bare(t), p)
  <2>1. PlainStack(SubSeq(t.stack, 1, Len(t.stack) - 1))
          = SubSeq(PlainStack(t.stack), 1, Len(PlainStack(t.stack)) - 1)
    BY <1>2, PlainPop
  <2> QED
    BY <1>0, <2>1 DEF Bare, Leaves, Walker
<1>3. ASSUME t.stack # <<>>, NEW phase_, NEW f \in FrameRecord
      PROVE  Bare(Turns(t, phase_, f)) = Turns(Bare(t), phase_, Plain(f))
  <2>1. PlainStack([t.stack EXCEPT ![Len(t.stack)] = f])
          = [PlainStack(t.stack) EXCEPT ![Len(PlainStack(t.stack))] = Plain(f)]
    BY <1>3, PlainTop
  <2> QED
    BY <1>0, <2>1 DEF Bare, Turns, Walker
<1>4. /\ Bare(t).stack = <<>> <=> t.stack = <<>>
      /\ Len(Bare(t).stack) = Len(t.stack)
      /\ \A i \in 1..Len(t.stack) : Bare(t).stack[i] = Plain(t.stack[i])
  BY <1>0, PlainStackIs
<1>5. ASSUME t.stack # <<>>
      PROVE  TopOf(Bare(t)) = Plain(TopOf(t))
  BY <1>4, <1>5, NonEmpty DEF TopOf
<1> QED
  BY <1>1, <1>2, <1>3, <1>4, <1>5

LEMMA SortingHeads ==
  ASSUME NEW a, NEW b, NEW reason, Sorting(a, b, reason)
  PROVE  /\ a.in = b.in /\ a.mode = "basic" /\ b.mode = "deterministic"
         /\ reason = "nondeterministic"
         /\ \A p : \/ Problem(b, p) = Problem(a, p)
                   \/ Problem(b, p) = Error(reason, p)
         /\ \A p, q : TextRead(a, p, q) <=> TextRead(b, p, q)
         /\ \A p : FloatRead(a, p)
<1>1. /\ a.in = b.in /\ a.mode = "basic" /\ b.mode = "deterministic"
      /\ reason = "nondeterministic"
  BY DEF Sorting
<1>2. \A p : Problem(b, p) = Problem(a, p) \/ Problem(b, p) = Error(reason, p)
  BY <1>1 DEF Problem
<1> QED
  BY <1>1, <1>2 DEF TextRead, FloatRead

LEMMA OpenedPlain ==
  ASSUME NEW b, NEW t, Sound(b, t), NEW kind \in {"tag", "array", "map"},
         NEW items \in Nat \cup {Indefinite}
  PROVE  /\ Frame(kind, t.pos, items) \in FrameRecord
         /\ Plain(Frame(kind, t.pos, items)) = Frame(kind, t.pos, items)
<1>1. t.pos \in 0..MaxLen
  BY SkipAssumption DEF Sound, IsInput
<1>2. <<>> \in Seq(Bytes)
  OBVIOUS
<1>3. Frame(kind, t.pos, items) \in FrameRecord
  BY <1>1, <1>2 DEF Frame, FrameRecord
<1>4. Plain(Frame(kind, t.pos, items)) = Frame(kind, t.pos, items)
  BY DEF Plain, Frame
<1> QED
  BY <1>3, <1>4

LEMMA SortingString ==
  ASSUME NEW a, NEW b, NEW reason, NEW t, Sorting(a, b, reason), Sound(b, t)
  PROVE  Bare(ReadsString(b, t)) = ReadsString(a, Bare(t)) \/ Excused(ReadsString(b, t), reason)
<1> DEFINE p == t.pos
           n == Heads(b.in)!Argument(p)
<1>0. a.in = b.in /\ b.mode = "deterministic" /\ reason = "nondeterministic"
  BY SortingHeads
<1>1. CASE n = Indefinite
  <2>1. ReadsString(b, t) = GivesUp(t, Error(reason, p))
    BY <1>0, <1>1 DEF ReadsString
  <2> QED
    BY <2>1, Excuse
<1>2. CASE n # Indefinite
  BY <1>0, <1>2, SortingHeads, BareIs DEF ReadsString
<1> QED
  BY <1>1, <1>2

LEMMA SortingContainer ==
  ASSUME NEW a, NEW b, NEW reason, NEW t, Sorting(a, b, reason), Sound(b, t),
         Problem(b, t.pos) = NoError
  PROVE  \/ Bare(ReadsContainer(b, t)) = ReadsContainer(a, Bare(t))
         \/ Excused(ReadsContainer(b, t), reason)
<1> DEFINE p == t.pos
           n == Heads(b.in)!Argument(p)
           kind == IF Heads(b.in)!Major(p) = 5 THEN "map" ELSE "array"
           frame == Frame(kind, p, n * PerEntry(kind))
<1>0. /\ a.in = b.in /\ b.mode = "deterministic" /\ reason = "nondeterministic"
      /\ Bare(t).pos = p
  BY SortingHeads, BareIs
<1>1. n \in Nat \cup {Indefinite}
  BY DEF Sound
<1>2. CASE n > MaxCollection
  <2>1. ReadsContainer(b, t) = GivesUp(t, Error("limit", p))
    BY <1>2 DEF ReadsContainer
  <2>2. ReadsContainer(a, Bare(t)) = GivesUp(Bare(t), Error("limit", p))
    BY <1>0, <1>2 DEF ReadsContainer
  <2> QED
    BY <2>1, <2>2, BareIs
<1>3. CASE ~(n > MaxCollection) /\ n = Indefinite
  <2>1. ReadsContainer(b, t) = GivesUp(t, Error(reason, p))
    BY <1>0, <1>3 DEF ReadsContainer
  <2> QED
    BY <2>1, Excuse
<1>4. CASE ~(n > MaxCollection) /\ n # Indefinite
  <2>1. ReadsContainer(b, t) = Enters(t, Heads(b.in)!HeadEnd(p), frame)
    BY <1>4 DEF ReadsContainer
  <2>2. ReadsContainer(a, Bare(t)) = Enters(Bare(t), Heads(b.in)!HeadEnd(p), frame)
    BY <1>0, <1>4 DEF ReadsContainer
  <2>3. kind \in {"tag", "array", "map"} /\ n * PerEntry(kind) \in Nat \cup {Indefinite}
    BY <1>1, <1>4 DEF PerEntry
  <2>4. frame \in FrameRecord /\ Plain(frame) = frame
    BY <2>3, OpenedPlain
  <2>5. t.stack \in Seq(FrameRecord)
    BY DEF Sound
  <2> HIDE DEF frame
  <2> QED
    BY <2>1, <2>2, <2>4, <2>5, BareMoves
<1> QED
  BY <1>2, <1>3, <1>4

LEMMA SortingSimple ==
  ASSUME NEW a, NEW b, NEW reason, NEW t, Sorting(a, b, reason)
  PROVE  Bare(ReadsSimple(b, t)) = ReadsSimple(a, Bare(t)) \/ Excused(ReadsSimple(b, t), reason)
BY SortingHeads, BareIs, Excuse DEF ReadsSimple

LEMMA SortingItem ==
  ASSUME NEW a, NEW b, NEW reason, NEW t, Sorting(a, b, reason), Sound(b, t)
  PROVE  Bare(AtItem(b, t)) = AtItem(a, Bare(t)) \/ Excused(AtItem(b, t), reason)
<1> DEFINE p == t.pos
           major == Heads(b.in)!Major(p)
           body == Heads(b.in)!HeadEnd(p)
<1>0. /\ a.in = b.in /\ Bare(t).pos = p /\ Len(Bare(t).stack) = Len(t.stack)
      /\ t.stack \in Seq(FrameRecord)
  BY SortingHeads, BareIs, BareMoves DEF Sound
<1>1. CASE Len(t.stack) > MaxDepth
  BY <1>0, <1>1, BareIs DEF AtItem
<1>2. CASE ~(Len(t.stack) > MaxDepth) /\ Problem(b, p) # NoError
  <2>1. AtItem(b, t) = GivesUp(t, Problem(b, p))
    BY <1>2 DEF AtItem
  <2>2. CASE Problem(b, p) = Problem(a, p)
    <3>1. AtItem(a, Bare(t)) = GivesUp(Bare(t), Problem(b, p))
      BY <1>0, <1>2, <2>2 DEF AtItem
    <3> QED
      BY <2>1, <3>1, BareIs
  <2> QED
    BY <2>1, <2>2, SortingHeads, Excuse
<1>3. CASE ~(Len(t.stack) > MaxDepth) /\ Problem(b, p) = NoError
  <2>1. Problem(a, p) = NoError
    <3>1. \A kind, at : Error(kind, at) # NoError
      BY DEF Error, NoError
    <3> QED
      BY <1>3, <3>1, SortingHeads
  <2>2. /\ AtItem(b, t) =
              IF major \in {0, 1}
              THEN IF Heads(b.in)!Info(p) = 31 THEN GivesUp(t, Error("additional", p))
                   ELSE Reads(t, body)
              ELSE IF major \in {2, 3} THEN ReadsString(b, t)
              ELSE IF major \in {4, 5} THEN ReadsContainer(b, t)
              ELSE IF major = 6
                   THEN IF Heads(b.in)!Info(p) = 31 THEN GivesUp(t, Error("additional", p))
                        ELSE Enters(t, body, Frame("tag", p, 1))
              ELSE ReadsSimple(b, t)
        /\ AtItem(a, Bare(t)) =
              IF major \in {0, 1}
              THEN IF Heads(b.in)!Info(p) = 31 THEN GivesUp(Bare(t), Error("additional", p))
                   ELSE Reads(Bare(t), body)
              ELSE IF major \in {2, 3} THEN ReadsString(a, Bare(t))
              ELSE IF major \in {4, 5} THEN ReadsContainer(a, Bare(t))
              ELSE IF major = 6
                   THEN IF Heads(b.in)!Info(p) = 31 THEN GivesUp(Bare(t), Error("additional", p))
                        ELSE Enters(Bare(t), body, Frame("tag", p, 1))
              ELSE ReadsSimple(a, Bare(t))
    BY <1>0, <1>3, <2>1 DEF AtItem
  <2>3. Bare(Enters(t, body, Frame("tag", p, 1))) = Enters(Bare(t), body, Frame("tag", p, 1))
    <3>1. Frame("tag", p, 1) \in FrameRecord /\ Plain(Frame("tag", p, 1)) = Frame("tag", p, 1)
      BY OpenedPlain
    <3> QED
      BY <1>0, <3>1, BareMoves
  <2> HIDE DEF p, major, body
  <2> QED
    BY <1>3, <2>2, <2>3, SortingString, SortingContainer, SortingSimple, BareIs DEF p
<1> QED
  BY <1>1, <1>2, <1>3

LEMMA SortingChunk ==
  ASSUME NEW a, NEW b, NEW reason, NEW t, Sorting(a, b, reason)
  PROVE  Bare(AtChunk(b, t)) = AtChunk(a, Bare(t)) \/ Excused(AtChunk(b, t), reason)
<1>1. a.in = b.in /\ a.mode # "value" /\ b.mode # "value"
  BY SortingHeads
<1>2. \A p, r : Bare(Walker("chunks", p, r, t.stack, t.outcome))
                   = Walker("chunks", p, r, Bare(t).stack, Bare(t).outcome)
  BY BareIs
<1>3. /\ \A e : Bare(GivesUp(t, e)) = GivesUp(Bare(t), e)
      /\ \A p : Bare(Reads(t, p)) = Reads(Bare(t), p)
      /\ Bare(t).pos = t.pos /\ Bare(t).string = t.string
  BY BareIs
<1> DEFINE p == t.pos
           n == Heads(b.in)!Argument(p)
           body == Heads(b.in)!HeadEnd(p)
           other == Heads(b.in)!Major(p) # t.string.major \/ n = Indefinite
           bad == Heads(b.in)!Major(p) = 3 /\ ~TextRead(b, body, body + n)
           read == [major |-> t.string.major, total |-> t.string.total + n]
           rest(s, problem) ==
             IF p = Len(b.in) THEN GivesUp(s, Error("eof", p))
             ELSE IF Heads(b.in)!Byte(p) = Break THEN Reads(s, p + 1)
             ELSE IF problem # NoError THEN GivesUp(s, problem)
             ELSE IF other THEN GivesUp(s, Error("type", p))
             ELSE IF body + n > Len(b.in) THEN GivesUp(s, Error("eof", body))
             ELSE IF bad THEN GivesUp(s, Error("utf8", p))
             ELSE Walker("chunks", body + n, read, s.stack, s.outcome)
<1>4. AtChunk(b, t) = rest(t, Problem(b, p))
  BY <1>1 DEF AtChunk
<1>5. AtChunk(a, Bare(t)) = rest(Bare(t), Problem(a, p))
  BY <1>1, <1>3, SortingHeads DEF AtChunk
<1> HIDE DEF n, body, other, bad, read
<1>6. CASE Problem(b, p) = Problem(a, p)
  <2>1. \A problem : Bare(rest(t, problem)) = rest(Bare(t), problem)
    BY <1>2, <1>3
  <2> QED
    BY <1>4, <1>5, <1>6, <2>1
<1>7. CASE Problem(b, p) = Error(reason, p) /\ Problem(b, p) # Problem(a, p)
  <2>1. CASE p = Len(b.in) \/ Heads(b.in)!Byte(p) = Break
    BY <1>3, <1>4, <1>5, <2>1
  <2>2. CASE ~(p = Len(b.in) \/ Heads(b.in)!Byte(p) = Break)
    <3>1. Error(reason, p) # NoError
      BY DEF Error, NoError
    <3>2. AtChunk(b, t) = GivesUp(t, Error(reason, p))
      BY <1>4, <1>7, <2>2, <3>1
    <3> QED
      BY <3>2, Excuse
  <2> QED
    BY <2>1, <2>2
<1> QED
  BY <1>6, <1>7, SortingHeads

LEMMA SortingDone ==
  ASSUME NEW a, NEW b, NEW reason, NEW t, Sorting(a, b, reason), Sound(b, t)
  PROVE  Bare(AtDone(b, t)) = AtDone(a, Bare(t)) \/ Excused(AtDone(b, t), reason)
<1>0. /\ a.in = b.in /\ a.mode = "basic" /\ b.mode = "deterministic"
      /\ reason = "nondeterministic"
      /\ t.stack \in Seq(FrameRecord)
  BY SortingHeads DEF Sound
<1>1. CASE t.stack = <<>>
  <2>1. AtDone(b, t) = Walker("stop", t.pos, t.string, t.stack, Ok(t.pos))
    BY <1>1 DEF AtDone
  <2>2. AtDone(a, Bare(t)) = Walker("stop", t.pos, t.string, Bare(t).stack, Ok(t.pos))
    BY <1>0, <1>1, BareIs, BareMoves DEF AtDone
  <2> QED
    BY <2>1, <2>2, BareIs
<1>2. CASE t.stack # <<>>
  <2> DEFINE key == SubSeq(b.in, TopOf(t).from + 1, t.pos)
             ordered == b.mode = "deterministic" /\ IsKey(TopOf(t))
             refused == ordered /\ TopOf(t).previous # <<>> /\ ~Before(TopOf(t).previous, key)
             counted == [TopOf(t) EXCEPT !.done = @ + 1,
                                        !.previous = IF ordered THEN key ELSE @]
             full == /\ TopOf(t).items = Indefinite
                     /\ TopOf(t).done + 1 > MaxCollection * PerEntry(TopOf(t).kind)
  <2>1. TopOf(t) \in FrameRecord /\ TopOf(t).done \in Nat /\ TopOf(t).from \in Nat
    BY <1>0, <1>2, LastIs
  <2>2. /\ TopOf(Bare(t)) = Plain(TopOf(t)) /\ Bare(t).stack # <<>>
        /\ Bare(t).pos = t.pos
    BY <1>0, <1>2, BareMoves, BareIs
  <2>3. key \in Seq(Bytes)
    BY <2>1, CutKey DEF Sound, IsInput
  <2>4. counted \in FrameRecord /\ counted.done = TopOf(t).done + 1
    <3>1. PICK last \in Seq(Bytes) : last = IF ordered THEN key ELSE TopOf(t).previous
      BY <2>1, <2>3 DEF FrameRecord
    <3>2. counted = [TopOf(t) EXCEPT !.done = TopOf(t).done + 1, !.previous = last]
      BY <3>1
    <3> HIDE DEF counted
    <3> QED
      BY <2>1, <3>2, Counted
  <2>5. AtDone(b, t) = IF refused THEN GivesUp(t, Error(reason, TopOf(t).from))
                       ELSE IF full THEN GivesUp(t, Error("limit", TopOf(t).at))
                       ELSE Turns(t, "next", counted)
    BY <1>0, <1>2, <2>4 DEF AtDone
  <2>6. [Plain(TopOf(t)) EXCEPT !.done = @ + 1, !.previous = @] = Plain(counted)
    BY <2>1 DEF Plain, FrameRecord
  <2>7. Plain(counted).done = TopOf(t).done + 1
    BY <2>4, FrameIsPlain
  <2>8. AtDone(a, Bare(t)) = IF full THEN GivesUp(Bare(t), Error("limit", TopOf(t).at))
                             ELSE Turns(Bare(t), "next", Plain(counted))
    <3>1. /\ TopOf(Bare(t)).items = TopOf(t).items /\ TopOf(Bare(t)).kind = TopOf(t).kind
          /\ TopOf(Bare(t)).at = TopOf(t).at
      BY <2>1, <2>2, FrameIsPlain
    <3>2. [TopOf(Bare(t)) EXCEPT !.done = @ + 1, !.previous = @] = Plain(counted)
      BY <2>2, <2>6
    <3> HIDE DEF counted
    <3> QED
      BY <1>0, <2>2, <2>7, <3>1, <3>2 DEF AtDone
  <2>9. Bare(Turns(t, "next", counted)) = Turns(Bare(t), "next", Plain(counted))
    <3> HIDE DEF counted
    <3> QED
      BY <1>0, <1>2, <2>4, BareMoves
  <2> HIDE DEF counted, refused, full, key, ordered
  <2> QED
    BY <2>5, <2>8, <2>9, BareIs, Excuse
<1> QED
  BY <1>1, <1>2

LEMMA SortingNext ==
  ASSUME NEW a, NEW b, NEW reason, NEW t, Sorting(a, b, reason), Sound(b, t),
         t.stack # <<>>
  PROVE  Bare(AtNext(b, t)) = AtNext(a, Bare(t))
<1>0. /\ a.in = b.in /\ a.mode = "basic" /\ b.mode = "deterministic"
      /\ t.stack \in Seq(FrameRecord) /\ Bare(t).pos = t.pos
  BY SortingHeads, BareIs DEF Sound
<1>1. TopOf(t) \in FrameRecord
  BY <1>0, LastIs
<1>2. /\ TopOf(Bare(t)) = Plain(TopOf(t)) /\ TopOf(Bare(t)).items = TopOf(t).items
      /\ TopOf(Bare(t)).kind = TopOf(t).kind /\ TopOf(Bare(t)).done = TopOf(t).done
      /\ TopOf(Bare(t)).at = TopOf(t).at
  BY <1>0, <1>1, FrameIsPlain, BareMoves
<1> DEFINE begun == [TopOf(t) EXCEPT !.from = t.pos]
<1>3. begun \in FrameRecord
  <2>1. t.pos \in 0..MaxLen
    BY SkipAssumption DEF Sound, IsInput
  <2> QED
    BY <1>1, <2>1 DEF FrameRecord
<1>4. [TopOf(Bare(t)) EXCEPT !.from = t.pos] = Plain(begun)
  BY <1>1, <1>2 DEF Plain, FrameRecord
<1>5. Bare(Turns(t, "item", begun)) = Turns(Bare(t), "item", Plain(begun))
  <2> HIDE DEF begun
  <2> QED
    BY <1>0, <1>3, BareMoves
<1>6. \A p : Bare(Leaves(t, p)) = Leaves(Bare(t), p)
  BY <1>0, BareMoves
<1>7. \A e : Bare(GivesUp(t, e)) = GivesUp(Bare(t), e)
  BY BareIs
<1> HIDE DEF begun
<1> QED
  BY <1>0, <1>2, <1>4, <1>5, <1>6, <1>7 DEF AtNext, begun

LEMMA SortingSteps ==
  ASSUME NEW a, NEW b, NEW reason, NEW t, Sorting(a, b, reason), Sound(b, t)
  PROVE  Bare(Successor(b, t)) = Successor(a, Bare(t)) \/ Excused(Successor(b, t), reason)
<1>1. Bare(t).phase = t.phase
  BY BareIs
<1> QED
  BY <1>1, SortingItem, SortingChunk, SortingDone, SortingNext DEF Successor, Sound

(* A walker on a slice and on the slice without its last byte.               *)
Cut(a, b) ==
  /\ IsInput(a.in) /\ a.in # <<>> /\ b.in = SubSeq(a.in, 1, Len(a.in) - 1)
  /\ a.mode = b.mode

LEMMA SliceOfCut ==
  ASSUME NEW S, NEW s \in Seq(S), s # <<>>, NEW m \in Nat, m >= 1,
         NEW n \in 0..(Len(s) - 1)
  PROVE  SubSeq(SubSeq(s, 1, Len(s) - 1), m, n) = SubSeq(s, m, n)
<1> DEFINE c == SubSeq(s, 1, Len(s) - 1)
<1>1. /\ c \in Seq(S) /\ Len(c) = Len(s) - 1 /\ Len(s) \in Nat
      /\ \A i \in 1..(Len(s) - 1) : c[i] = s[i]
  BY Popped
<1> HIDE DEF c
<1>2. \A i \in m..n : c[i] = s[i]
  BY <1>1
<1>3. SubSeq(c, m, n) = SubSeq(s, m, n)
  BY <1>1, <1>2
<1> QED
  BY <1>3 DEF c

LEMMA CutBytes ==
  ASSUME NEW a, NEW b, Cut(a, b)
  PROVE  /\ a.in \in Seq(Bytes) /\ b.in \in Seq(Bytes)
         /\ Len(a.in) \in Nat /\ Len(b.in) \in Nat /\ Len(a.in) = Len(b.in) + 1
         /\ \A p \in 0..(Len(b.in) - 1) : Heads(b.in)!Byte(p) = Heads(a.in)!Byte(p)
<1>1. a.in \in Seq(Bytes) /\ a.in # <<>> /\ b.in = SubSeq(a.in, 1, Len(a.in) - 1)
  BY DEF Cut, IsInput
<1>2. /\ b.in \in Seq(Bytes) /\ Len(b.in) = Len(a.in) - 1
      /\ \A i \in 1..(Len(a.in) - 1) : b.in[i] = a.in[i]
  BY <1>1, Popped
<1>3. Len(a.in) \in Nat /\ Len(a.in) >= 1
  BY <1>1, NonEmpty
<1>4. \A p \in 0..(Len(b.in) - 1) : Heads(b.in)!Byte(p) = Heads(a.in)!Byte(p)
  <2>1. SUFFICES ASSUME NEW p \in 0..(Len(b.in) - 1)
                 PROVE  b.in[p + 1] = a.in[p + 1]
    BY DEF Heads!Byte
  <2>2. p + 1 \in 1..(Len(a.in) - 1)
    BY <1>2, <1>3, <2>1
  <2> QED
    BY <1>2, <2>2
<1> QED
  BY <1>1, <1>2, <1>3, <1>4

LEMMA CutSlice ==
  ASSUME NEW a, NEW b, Cut(a, b), NEW m \in Nat, m >= 1, NEW n \in 0..Len(b.in)
  PROVE  SubSeq(b.in, m, n) = SubSeq(a.in, m, n)
<1>1. a.in \in Seq(Bytes) /\ a.in # <<>> /\ b.in = SubSeq(a.in, 1, Len(a.in) - 1)
  BY DEF Cut, IsInput
<1>2. n \in 0..(Len(a.in) - 1)
  BY CutBytes
<1> QED
  BY <1>1, <1>2, SliceOfCut

LEMMA CutHead ==
  ASSUME NEW a, NEW b, Cut(a, b), NEW p \in 0..(Len(b.in) - 1)
  PROVE  /\ Heads(b.in)!Info(p) = Heads(a.in)!Info(p)
         /\ Heads(b.in)!Major(p) = Heads(a.in)!Major(p)
         /\ Heads(b.in)!HeadEnd(p) = Heads(a.in)!HeadEnd(p)
         /\ Heads(b.in)!HeadEnd(p) = p + 1 + Heads(b.in)!Width(p)
         /\ Heads(b.in)!Width(p) \in {0, 1, 2, 4, 8}
<1>1. Heads(b.in)!Byte(p) = Heads(a.in)!Byte(p)
  BY CutBytes
<1>2. /\ Heads(b.in)!Info(p) = Heads(a.in)!Info(p)
      /\ Heads(b.in)!Major(p) = Heads(a.in)!Major(p)
  BY <1>1 DEF Heads!Info, Heads!Major
<1>3. Heads(b.in)!Width(p) = Heads(a.in)!Width(p) /\ Heads(b.in)!Width(p) \in {0, 1, 2, 4, 8}
  BY <1>2 DEF Heads!Width
<1> QED
  BY <1>2, <1>3 DEF Heads!HeadEnd

LEMMA CutArgument ==
  ASSUME NEW a, NEW b, Cut(a, b), NEW p \in 0..(Len(b.in) - 1),
         Heads(b.in)!HeadEnd(p) <= Len(b.in)
  PROVE  /\ Heads(b.in)!Argument(p) = Heads(a.in)!Argument(p)
         /\ Heads(b.in)!Preferred(p) <=> Heads(a.in)!Preferred(p)
         /\ FloatRead(b, p) <=> FloatRead(a, p)
<1>0. Len(b.in) \in Nat /\ p \in Nat
  BY CutBytes
<1>1. /\ Heads(b.in)!Info(p) = Heads(a.in)!Info(p)
      /\ Heads(b.in)!HeadEnd(p) = Heads(a.in)!HeadEnd(p)
      /\ p + 1 + Heads(b.in)!Width(p) <= Len(b.in)
      /\ Heads(b.in)!Width(p) \in {0, 1, 2, 4, 8}
      /\ Heads(b.in)!HeadEnd(p) = p + 1 + Heads(b.in)!Width(p)
  BY CutHead
<1>2. \A i \in 1..8 : i <= Heads(b.in)!Width(p)
        => Heads(b.in)!Byte(p + i) = Heads(a.in)!Byte(p + i)
  <2>1. SUFFICES ASSUME NEW i \in 1..8, i <= Heads(b.in)!Width(p)
                 PROVE  Heads(b.in)!Byte(p + i) = Heads(a.in)!Byte(p + i)
    OBVIOUS
  <2>2. p + i \in 0..(Len(b.in) - 1)
    BY SMTT(30), <1>0, <1>1, <2>1
  <2> QED
    BY <2>2, CutBytes
<1>3. \A q : /\ Heads(b.in)!Byte(q) = Heads(a.in)!Byte(q)
              /\ Heads(b.in)!Byte(q + 1) = Heads(a.in)!Byte(q + 1)
              => Heads(b.in)!Two(q) = Heads(a.in)!Two(q)
  BY DEF Heads!Two
<1>4. \A q : /\ Heads(b.in)!Two(q) = Heads(a.in)!Two(q)
              /\ Heads(b.in)!Two(q + 2) = Heads(a.in)!Two(q + 2)
              => Heads(b.in)!Four(q) = Heads(a.in)!Four(q)
  BY DEF Heads!Four
<1>5. CASE Heads(b.in)!Info(p) = 24
  <2>1. Heads(b.in)!Byte(p + 1) = Heads(a.in)!Byte(p + 1)
    BY <1>2, <1>5 DEF Heads!Width
  <2> QED
    BY <1>1, <1>5, <2>1 DEF Heads!Argument, Heads!Preferred, FloatRead, Cut
<1>b. Heads(b.in)!Info(p) \in 25..27 => (FloatRead(b, p) <=> FloatRead(a, p))
  <2>1. p + 1 \in Nat /\ p + 1 >= 1 /\ Heads(b.in)!HeadEnd(p) \in 0..Len(b.in)
    BY <1>0, <1>1
  <2>2. SubSeq(b.in, p + 1, Heads(b.in)!HeadEnd(p)) = SubSeq(a.in, p + 1, Heads(b.in)!HeadEnd(p))
    BY <2>1, CutSlice
  <2> QED
    BY <1>1, <2>2 DEF FloatRead, Cut
<1>6. CASE Heads(b.in)!Info(p) = 25
  <2>1. Heads(b.in)!Width(p) = 2
    BY <1>6 DEF Heads!Width
  <2>2. /\ Heads(b.in)!Byte(p + 1) = Heads(a.in)!Byte(p + 1)
        /\ Heads(b.in)!Byte(p + 1 + 1) = Heads(a.in)!Byte(p + 1 + 1)
    <3>1. p + 1 + 1 = p + 2
      BY <1>0
    <3> QED
      BY <1>2, <2>1, <3>1
  <2>3. Heads(b.in)!Two(p + 1) = Heads(a.in)!Two(p + 1)
    BY <1>3, <2>2
  <2> QED
    BY <1>1, <1>6, <1>b, <2>3 DEF Heads!Argument, Heads!Preferred
<1>7. CASE Heads(b.in)!Info(p) = 26
  <2>1. Heads(b.in)!Width(p) = 4
    BY <1>7 DEF Heads!Width
  <2>2. /\ Heads(b.in)!Byte(p + 1) = Heads(a.in)!Byte(p + 1)
        /\ Heads(b.in)!Byte(p + 1 + 1) = Heads(a.in)!Byte(p + 1 + 1)
        /\ Heads(b.in)!Byte(p + 1 + 2) = Heads(a.in)!Byte(p + 1 + 2)
        /\ Heads(b.in)!Byte(p + 1 + 2 + 1) = Heads(a.in)!Byte(p + 1 + 2 + 1)
    <3>1. p + 1 + 1 = p + 2 /\ p + 1 + 2 = p + 3 /\ p + 1 + 2 + 1 = p + 4
      BY <1>0
    <3> QED
      BY <1>2, <2>1, <3>1
  <2>3. /\ Heads(b.in)!Two(p + 1) = Heads(a.in)!Two(p + 1)
        /\ Heads(b.in)!Four(p + 1) = Heads(a.in)!Four(p + 1)
    BY <1>3, <1>4, <2>2
  <2> QED
    BY <1>1, <1>7, <1>b, <2>3 DEF Heads!Argument, Heads!Preferred
<1>8. CASE Heads(b.in)!Info(p) = 27
  <2>1. Heads(b.in)!Width(p) = 8
    BY <1>8 DEF Heads!Width
  <2>2. /\ Heads(b.in)!Byte(p + 1) = Heads(a.in)!Byte(p + 1)
        /\ Heads(b.in)!Byte(p + 1 + 1) = Heads(a.in)!Byte(p + 1 + 1)
        /\ Heads(b.in)!Byte(p + 1 + 2) = Heads(a.in)!Byte(p + 1 + 2)
        /\ Heads(b.in)!Byte(p + 1 + 2 + 1) = Heads(a.in)!Byte(p + 1 + 2 + 1)
        /\ Heads(b.in)!Byte(p + 5) = Heads(a.in)!Byte(p + 5)
        /\ Heads(b.in)!Byte(p + 5 + 1) = Heads(a.in)!Byte(p + 5 + 1)
        /\ Heads(b.in)!Byte(p + 5 + 2) = Heads(a.in)!Byte(p + 5 + 2)
        /\ Heads(b.in)!Byte(p + 5 + 2 + 1) = Heads(a.in)!Byte(p + 5 + 2 + 1)
    <3>1. /\ p + 1 + 1 = p + 2 /\ p + 1 + 2 = p + 3 /\ p + 1 + 2 + 1 = p + 4
          /\ p + 5 + 1 = p + 6 /\ p + 5 + 2 = p + 7 /\ p + 5 + 2 + 1 = p + 8
      BY <1>0
    <3> QED
      BY <1>2, <2>1, <3>1
  <2>3. /\ Heads(b.in)!Two(p + 1) = Heads(a.in)!Two(p + 1)
        /\ Heads(b.in)!Two(p + 3) = Heads(a.in)!Two(p + 3)
        /\ Heads(b.in)!Four(p + 1) = Heads(a.in)!Four(p + 1)
        /\ Heads(b.in)!Four(p + 5) = Heads(a.in)!Four(p + 5)
    <3>1. p + 1 + 2 = p + 3
      BY <1>0
    <3> QED
      BY <1>3, <1>4, <2>2, <3>1
  <2> QED
    BY <1>1, <1>8, <1>b, <2>3 DEF Heads!Argument, Heads!Preferred
<1>9. CASE Heads(b.in)!Info(p) \notin 24..27
  BY <1>1, <1>9 DEF Heads!Argument, Heads!Preferred, Heads!Indefinite, FloatRead
<1> QED
  BY <1>5, <1>6, <1>7, <1>8, <1>9

LEMMA CutProblem ==
  ASSUME NEW a, NEW b, Cut(a, b), NEW p \in 0..Len(b.in)
  PROVE  \/ \E at : Problem(b, p) = Error("eof", at)
         \/ Problem(b, p) = Problem(a, p)
<1>0. Len(b.in) \in Nat /\ Len(a.in) = Len(b.in) + 1 /\ a.mode = b.mode
  BY CutBytes DEF Cut
<1>1. CASE p >= Len(b.in)
  BY <1>1 DEF Problem
<1>2. CASE p < Len(b.in)
  <2>1. p \in 0..(Len(b.in) - 1) /\ ~(p >= Len(b.in)) /\ ~(p >= Len(a.in))
    BY <1>0, <1>2
  <2>2. /\ Heads(b.in)!Info(p) = Heads(a.in)!Info(p)
        /\ Heads(b.in)!Major(p) = Heads(a.in)!Major(p)
        /\ Heads(b.in)!HeadEnd(p) = Heads(a.in)!HeadEnd(p)
        /\ Heads(b.in)!HeadEnd(p) \in Nat
    BY <1>0, <2>1, CutHead
  <2>3. CASE Heads(b.in)!HeadEnd(p) > Len(b.in)
    BY <2>1, <2>2, <2>3 DEF Problem
  <2>4. CASE ~(Heads(b.in)!HeadEnd(p) > Len(b.in))
    <3>1. Heads(b.in)!HeadEnd(p) <= Len(b.in) /\ ~(Heads(a.in)!HeadEnd(p) > Len(a.in))
      BY <1>0, <2>2, <2>4
    <3>2. Heads(b.in)!Preferred(p) <=> Heads(a.in)!Preferred(p)
      BY <2>1, <3>1, CutArgument
    <3> QED
      BY <1>0, <2>1, <2>2, <2>4, <3>1, <3>2 DEF Problem
  <2> QED
    BY <2>3, <2>4
<1> QED
  BY <1>0, <1>1, <1>2

LEMMA CutText ==
  ASSUME NEW a, NEW b, Cut(a, b), NEW body \in Nat, NEW to \in Nat, to <= Len(b.in)
  PROVE  TextRead(b, body, to) <=> TextRead(a, body, to)
<1> DEFINE byCut(f, r) ==
             \/ r = to
             \/ \E u \in {r + 1, r + 2, r + 3, r + 4} :
                  u <= to /\ Heads(b.in)!Character(r, u) /\ f[u]
           byWhole(f, r) ==
             \/ r = to
             \/ \E u \in {r + 1, r + 2, r + 3, r + 4} :
                  u <= to /\ Heads(a.in)!Character(r, u) /\ f[u]
           cut(f) == f = [r \in body..to |-> byCut(f, r)]
           whole_(f) == f = [r \in body..to |-> byWhole(f, r)]
<1>0. Len(b.in) \in Nat /\ a.mode = b.mode
      /\ \A x \in 0..(Len(b.in) - 1) : Heads(b.in)!Byte(x) = Heads(a.in)!Byte(x)
  BY CutBytes DEF Cut
<1>1. ASSUME NEW r \in body..to, NEW u \in {r + 1, r + 2, r + 3, r + 4}, u <= to
      PROVE  Heads(b.in)!Character(r, u) <=> Heads(a.in)!Character(r, u)
  <2>0. r \in Nat /\ u \in Nat /\ r < u
    BY <1>1
  <2>1. Heads(b.in)!Byte(r) = Heads(a.in)!Byte(r)
    BY <1>0, <1>1, <2>0
  <2>2. u > r + 1 => Heads(b.in)!Byte(r + 1) = Heads(a.in)!Byte(r + 1)
    BY <1>0, <1>1, <2>0
  <2>3. (\A x \in (r + 2)..(u - 1) : Heads(b.in)!Byte(x) \in 128..191)
          <=> (\A x \in (r + 2)..(u - 1) : Heads(a.in)!Byte(x) \in 128..191)
    <3>1. \A x \in (r + 2)..(u - 1) : x \in 0..(Len(b.in) - 1)
      BY <1>0, <1>1, <2>0
    <3> QED
      BY <1>0, <3>1
  <2> DEFINE leads(x) ==
               x \in CASE u - r = 1 -> 0..127   [] u - r = 2 -> 194..223
                       [] u - r = 3 -> 224..239 [] u - r = 4 -> 240..244
             second(x, y) ==
               LET least == CASE x = 224 -> 160 [] x = 240 -> 144 [] OTHER -> 128
                   most == CASE x = 237 -> 159 [] x = 244 -> 143 [] OTHER -> 191
               IN  y \in least..most
  <2>4. Heads(b.in)!Character(r, u)
          <=> /\ leads(Heads(b.in)!Byte(r))
              /\ u > r + 1 => second(Heads(b.in)!Byte(r), Heads(b.in)!Byte(r + 1))
              /\ \A x \in (r + 2)..(u - 1) : Heads(b.in)!Byte(x) \in 128..191
    BY DEF Heads!Character
  <2>5. Heads(a.in)!Character(r, u)
          <=> /\ leads(Heads(a.in)!Byte(r))
              /\ u > r + 1 => second(Heads(a.in)!Byte(r), Heads(a.in)!Byte(r + 1))
              /\ \A x \in (r + 2)..(u - 1) : Heads(a.in)!Byte(x) \in 128..191
    BY DEF Heads!Character
  <2> HIDE DEF leads, second
  <2> QED
    BY <2>1, <2>2, <2>3, <2>4, <2>5
<1>2. ASSUME NEW f PROVE cut(f) <=> whole_(f)
  <2>1. ASSUME NEW r \in body..to PROVE byCut(f, r) = byWhole(f, r)
    <3>1. byCut(f, r) <=> byWhole(f, r)
      BY <1>1
    <3>2. byCut(f, r) \in BOOLEAN /\ byWhole(f, r) \in BOOLEAN
      OBVIOUS
    <3> HIDE DEF byCut, byWhole
    <3> QED
      BY <3>1, <3>2
  <2> HIDE DEF byCut, byWhole
  <2>2. [r \in body..to |-> byCut(f, r)] = [r \in body..to |-> byWhole(f, r)]
    BY <2>1
  <2> QED
    BY <2>2
<1>3. CASE a.mode = "structural"
  BY <1>0, <1>3 DEF TextRead
<1>4. CASE a.mode # "structural"
  <2>1. /\ TextRead(b, body, to) <=> Heads(b.in)!TextAccepted(body, to)
        /\ TextRead(a, body, to) <=> Heads(a.in)!TextAccepted(body, to)
    BY <1>0, <1>4 DEF TextRead
  <2>2. Heads(b.in)!TextAccepted(body, to) <=> (CHOOSE f : cut(f))[body]
    BY DEF Heads!TextAccepted
  <2>3. Heads(a.in)!TextAccepted(body, to) <=> (CHOOSE f : whole_(f))[body]
    BY DEF Heads!TextAccepted
  <2> HIDE DEF cut, whole_
  <2>4. (CHOOSE f : cut(f)) = (CHOOSE f : whole_(f))
    BY <1>2
  <2> QED
    BY <2>1, <2>2, <2>3, <2>4
<1> QED
  BY <1>3, <1>4

LEMMA CutString ==
  ASSUME NEW a, NEW b, NEW t, Cut(a, b), Sound(b, t), Problem(b, t.pos) = NoError
  PROVE  ReadsString(b, t) = ReadsString(a, t) \/ Excused(ReadsString(b, t), "eof")
<1> DEFINE p == t.pos
           n == Heads(b.in)!Argument(p)
           body == Heads(b.in)!HeadEnd(p)
<1>1. /\ Len(b.in) \in Nat /\ Len(a.in) = Len(b.in) + 1 /\ a.mode = b.mode
      /\ p \in 0..(Len(b.in) - 1) /\ body \in (p + 1)..Len(b.in)
      /\ n \in Nat \cup {Indefinite}
  BY SMTT(30), CutBytes DEF Sound, Cut
<1>2. /\ Heads(a.in)!Argument(p) = n /\ Heads(a.in)!HeadEnd(p) = body
      /\ Heads(a.in)!Major(p) = Heads(b.in)!Major(p)
  BY <1>1, CutArgument, CutHead
<1> HIDE DEF n, body
<1>3. CASE n # Indefinite /\ ~(n > MaxCollection) /\ body + n > Len(b.in)
  <2>1. ReadsString(b, t) = GivesUp(t, Error("eof", body))
    BY <1>3 DEF ReadsString, n, body
  <2> QED
    BY <2>1, Excuse
<1>4. CASE n # Indefinite /\ ~(n > MaxCollection) /\ ~(body + n > Len(b.in))
  <2>1. body \in Nat /\ body + n \in Nat /\ body + n <= Len(b.in) /\ ~(body + n > Len(a.in))
    BY SMTT(30), <1>1, <1>4
  <2>2. TextRead(b, body, body + n) <=> TextRead(a, body, body + n)
    BY <2>1, CutText
  <2> QED
    BY <1>2, <1>4, <2>1, <2>2 DEF ReadsString, n, body
<1>5. CASE n = Indefinite \/ n > MaxCollection
  BY <1>1, <1>2, <1>5 DEF ReadsString, n, body
<1> QED
  BY <1>3, <1>4, <1>5

LEMMA CutItem ==
  ASSUME NEW a, NEW b, NEW t, Cut(a, b), Sound(b, t)
  PROVE  AtItem(b, t) = AtItem(a, t) \/ Excused(AtItem(b, t), "eof")
<1> DEFINE p == t.pos
<1>0. a.mode = b.mode /\ p \in 0..Len(b.in)
  BY DEF Cut, Sound
<1>1. CASE Len(t.stack) > MaxDepth
  BY <1>1 DEF AtItem
<1>2. CASE ~(Len(t.stack) > MaxDepth) /\ Problem(b, p) # NoError
  <2>1. AtItem(b, t) = GivesUp(t, Problem(b, p))
    BY <1>2 DEF AtItem
  <2>2. CASE Problem(b, p) = Problem(a, p)
    BY <1>2, <2>1, <2>2 DEF AtItem
  <2>3. CASE \E at : Problem(b, p) = Error("eof", at)
    BY <2>1, <2>3, Excuse
  <2> QED
    BY <1>0, <2>2, <2>3, CutProblem
<1>3. CASE ~(Len(t.stack) > MaxDepth) /\ Problem(b, p) = NoError
  <2>1. Problem(a, p) = NoError
    <3>1. \A kind, at : Error(kind, at) # NoError
      BY DEF Error, NoError
    <3> QED
      BY <1>0, <1>3, <3>1, CutProblem
  <2>2. p \in 0..(Len(b.in) - 1) /\ Heads(b.in)!HeadEnd(p) <= Len(b.in)
    BY <1>3, CutBytes DEF Sound
  <2>3. /\ Heads(b.in)!Info(p) = Heads(a.in)!Info(p)
        /\ Heads(b.in)!Major(p) = Heads(a.in)!Major(p)
        /\ Heads(b.in)!HeadEnd(p) = Heads(a.in)!HeadEnd(p)
        /\ Heads(b.in)!Argument(p) = Heads(a.in)!Argument(p)
        /\ FloatRead(b, p) <=> FloatRead(a, p)
    BY <2>2, CutHead, CutArgument
  <2>4. ReadsString(b, t) = ReadsString(a, t) \/ Excused(ReadsString(b, t), "eof")
    BY <1>3, CutString
  <2>5. ReadsContainer(b, t) = ReadsContainer(a, t)
    BY <1>0, <2>3 DEF ReadsContainer
  <2>6. ReadsSimple(b, t) = ReadsSimple(a, t)
    BY <2>3 DEF ReadsSimple
  <2> QED
    BY <1>3, <2>1, <2>3, <2>4, <2>5, <2>6 DEF AtItem
<1> QED
  BY <1>1, <1>2, <1>3

LEMMA CutChunk ==
  ASSUME NEW a, NEW b, NEW t, Cut(a, b), Sound(b, t)
  PROVE  AtChunk(b, t) = AtChunk(a, t) \/ Excused(AtChunk(b, t), "eof")
<1> DEFINE p == t.pos
           n == Heads(b.in)!Argument(p)
           body == Heads(b.in)!HeadEnd(p)
<1>0. /\ a.mode = b.mode /\ p \in 0..Len(b.in)
      /\ Len(b.in) \in Nat /\ Len(a.in) = Len(b.in) + 1
  BY CutBytes DEF Cut, Sound
<1>1. CASE p = Len(b.in)
  <2>1. AtChunk(b, t) = GivesUp(t, Error("eof", p))
    BY <1>1 DEF AtChunk
  <2> QED
    BY <2>1, Excuse
<1>2. CASE p # Len(b.in)
  <2>1. p \in 0..(Len(b.in) - 1) /\ p # Len(a.in)
    BY <1>0, <1>2
  <2>2. Heads(b.in)!Byte(p) = Heads(a.in)!Byte(p)
    BY <2>1, CutBytes
  <2>3. CASE Heads(b.in)!Byte(p) = Break
    BY <1>2, <2>1, <2>2, <2>3 DEF AtChunk
  <2>4. CASE Heads(b.in)!Byte(p) # Break /\ Problem(b, p) # NoError
    <3>1. AtChunk(b, t) = GivesUp(t, Problem(b, p))
      BY <1>2, <2>4 DEF AtChunk
    <3>2. CASE Problem(b, p) = Problem(a, p)
      BY <2>1, <2>2, <2>4, <3>1, <3>2 DEF AtChunk
    <3>3. CASE \E at : Problem(b, p) = Error("eof", at)
      BY <3>1, <3>3, Excuse
    <3> QED
      BY <1>0, <3>2, <3>3, CutProblem
  <2>5. CASE Heads(b.in)!Byte(p) # Break /\ Problem(b, p) = NoError
    <3>1. Problem(a, p) = NoError
      <4>1. \A kind, at : Error(kind, at) # NoError
        BY DEF Error, NoError
      <4> QED
        BY <1>0, <2>5, <4>1, CutProblem
    <3>2. body \in (p + 1)..Len(b.in) /\ n \in Nat \cup {Indefinite}
      BY <2>5 DEF Sound
    <3>3. /\ Heads(a.in)!Argument(p) = n /\ Heads(a.in)!HeadEnd(p) = body
          /\ Heads(a.in)!Major(p) = Heads(b.in)!Major(p)
      BY <1>0, <2>1, <3>2, CutArgument, CutHead
    <3> DEFINE other == Heads(b.in)!Major(p) # t.string.major \/ n = Indefinite
               large == b.mode = "value" /\ t.string.total + n > MaxCollection
               read == [major |-> t.string.major, total |-> t.string.total + n]
    <3>4. /\ AtChunk(b, t) =
                IF other THEN GivesUp(t, Error("type", p))
                ELSE IF large THEN GivesUp(t, Error("limit", p))
                ELSE IF body + n > Len(b.in) THEN GivesUp(t, Error("eof", body))
                ELSE IF Heads(b.in)!Major(p) = 3 /\ ~TextRead(b, body, body + n)
                     THEN GivesUp(t, Error("utf8", p))
                ELSE Walker("chunks", body + n, read, t.stack, t.outcome)
          /\ AtChunk(a, t) =
                IF other THEN GivesUp(t, Error("type", p))
                ELSE IF large THEN GivesUp(t, Error("limit", p))
                ELSE IF body + n > Len(a.in) THEN GivesUp(t, Error("eof", body))
                ELSE IF Heads(b.in)!Major(p) = 3 /\ ~TextRead(a, body, body + n)
                     THEN GivesUp(t, Error("utf8", p))
                ELSE Walker("chunks", body + n, read, t.stack, t.outcome)
      <4>1. /\ p # Len(b.in) /\ p # Len(a.in) /\ Heads(b.in)!Byte(p) # Break
            /\ Heads(a.in)!Byte(p) # Break
            /\ Problem(b, p) = NoError /\ Problem(a, p) = NoError
        BY <1>2, <2>1, <2>2, <2>5, <3>1
      <4> QED
        BY <1>0, <3>3, <4>1 DEF AtChunk
    <3>5. ~other /\ ~(body + n > Len(b.in))
            => /\ ~(body + n > Len(a.in))
               /\ TextRead(b, body, body + n) <=> TextRead(a, body, body + n)
      <4>1. SUFFICES ASSUME ~other, ~(body + n > Len(b.in))
                     PROVE  /\ ~(body + n > Len(a.in))
                            /\ TextRead(b, body, body + n) <=> TextRead(a, body, body + n)
        OBVIOUS
      <4>2. body \in Nat /\ body + n \in Nat /\ body + n <= Len(b.in)
            /\ ~(body + n > Len(a.in))
        BY <1>0, <3>2, <4>1
      <4> QED
        BY <4>2, CutText
    <3> HIDE DEF n, body, other, large, read
    <3>6. CASE ~other /\ ~large /\ body + n > Len(b.in)
      <4>1. AtChunk(b, t) = GivesUp(t, Error("eof", body))
        BY <3>4, <3>6
      <4> QED
        BY <4>1, Excuse
    <3>7. CASE other \/ large \/ ~(body + n > Len(b.in))
      BY <3>4, <3>5, <3>7
    <3> QED
      BY <3>6, <3>7
  <2> QED
    BY <2>3, <2>4, <2>5
<1> QED
  BY <1>1, <1>2

LEMMA CutDone ==
  ASSUME NEW a, NEW b, NEW t, Cut(a, b), Sound(b, t)
  PROVE  AtDone(b, t) = AtDone(a, t)
<1>0. a.mode = b.mode /\ t.pos \in 0..Len(b.in) /\ t.stack \in Seq(FrameRecord)
  BY DEF Cut, Sound
<1>1. CASE t.stack = <<>>
  BY <1>1 DEF AtDone
<1>2. CASE t.stack # <<>>
  <2>1. TopOf(t).from + 1 \in Nat /\ TopOf(t).from + 1 >= 1
    BY <1>0, <1>2, LastIs
  <2>2. SubSeq(b.in, TopOf(t).from + 1, t.pos) = SubSeq(a.in, TopOf(t).from + 1, t.pos)
    BY <1>0, <2>1, CutSlice
  <2> QED
    BY <1>0, <1>2, <2>2 DEF AtDone
<1> QED
  BY <1>1, <1>2

LEMMA CutNext ==
  ASSUME NEW a, NEW b, NEW t, Cut(a, b), Sound(b, t)
  PROVE  AtNext(b, t) = AtNext(a, t) \/ Excused(AtNext(b, t), "eof")
<1>0. /\ a.mode = b.mode /\ t.pos \in 0..Len(b.in)
      /\ Len(b.in) \in Nat /\ Len(a.in) = Len(b.in) + 1
  BY CutBytes DEF Cut, Sound
<1>1. CASE t.pos = Len(b.in)
  <2>1. CASE TopOf(t).items # Indefinite
    BY <1>0, <2>1 DEF AtNext
  <2>2. CASE TopOf(t).items = Indefinite
    <3>1. AtNext(b, t) = GivesUp(t, Error("eof", t.pos))
      BY <1>1, <2>2 DEF AtNext
    <3> QED
      BY <3>1, Excuse
  <2> QED
    BY <2>1, <2>2
<1>2. CASE t.pos # Len(b.in)
  <2>1. t.pos \in 0..(Len(b.in) - 1) /\ t.pos # Len(a.in)
    BY <1>0, <1>2
  <2>2. Heads(b.in)!Byte(t.pos) = Heads(a.in)!Byte(t.pos)
    BY <2>1, CutBytes
  <2> QED
    BY <1>0, <1>2, <2>1, <2>2 DEF AtNext
<1> QED
  BY <1>1, <1>2

LEMMA CutSteps ==
  ASSUME NEW a, NEW b, NEW t, Cut(a, b), Sound(b, t)
  PROVE  Successor(b, t) = Successor(a, t) \/ Excused(Successor(b, t), "eof")
BY CutItem, CutChunk, CutDone, CutNext DEF Successor

(* All three kinds of companions.                                           *)
LEMMA Lockstep ==
  ASSUME NEW a, NEW b, NEW reason, NEW t, Companions(a, b, reason), Sound(b, t)
  PROVE  \/ Successor(a, Seen(a, b, t)) = Seen(a, b, Successor(b, t))
         \/ Excused(Successor(b, t), reason)
<1>1. CASE Looser(a, b, reason)
  <2>1. \A s : Seen(a, b, s) = s
    BY <1>1, LooserHeads DEF Seen
  <2> QED
    BY <1>1, <2>1, LooserSteps
<1>2. CASE Sorting(a, b, reason)
  <2>1. \A s : Seen(a, b, s) = Bare(s)
    BY <1>2, SortingHeads DEF Seen
  <2> QED
    BY <1>2, <2>1, SortingSteps
<1>3. CASE Cut(a, b) /\ reason = "eof"
  <2>1. \A s : Seen(a, b, s) = s
    BY <1>3 DEF Seen, Cut
  <2> QED
    BY <1>3, <2>1, CutSteps
<1> QED
  BY <1>1, <1>2, <1>3 DEF Companions, Stricter, Looser, Sorting, Cut

-----------------------------------------------------------------------------
(* The walk of a, from the first byte to s.                                 *)

First == Walker("item", 0, [major |-> 2, total |-> 0], <<>>, Running)

(* The first n steps of the walk of a, and where they lead.                  *)
Trace(a, f, n) ==
  /\ f[0] = First
  /\ \A i \in 0..(n - 1) : Sound(a, f[i]) /\ f[i + 1] = Successor(a, f[i])

Visits(a, s) == \E n \in Nat : \E f : Trace(a, f, n) /\ f[n] = s

LEMMA VisitsFirst ==
  ASSUME NEW a
  PROVE  Visits(a, First)
<1> DEFINE f == [i \in 0..0 |-> First]
<1>1. Trace(a, f, 0) /\ f[0] = First
  BY DEF Trace
<1> QED
  BY <1>1 DEF Visits

LEMMA VisitsNext ==
  ASSUME NEW a, NEW s, Visits(a, s), Sound(a, s)
  PROVE  Visits(a, Successor(a, s))
<1>1. PICK n \in Nat : \E f : Trace(a, f, n) /\ f[n] = s
  BY DEF Visits
<1>2. PICK f : Trace(a, f, n) /\ f[n] = s
  BY <1>1
<1> DEFINE t == Successor(a, s)
           g == [i \in 0..(n + 1) |-> IF i = n + 1 THEN t ELSE f[i]]
<1> HIDE DEF t
<1>3. /\ \A i \in 0..n : g[i] = f[i]
      /\ g[n + 1] = t
  BY <1>1
<1> HIDE DEF g
<1>4. g[0] = First
  BY <1>1, <1>2, <1>3 DEF Trace
<1>5. ASSUME NEW i \in 0..n
      PROVE  Sound(a, g[i]) /\ g[i + 1] = Successor(a, g[i])
  <2>1. CASE i = n
    BY <1>2, <1>3, <1>5, <2>1 DEF t
  <2>2. CASE i # n
    <3>1. i \in 0..(n - 1) /\ i + 1 \in 0..n
      BY <1>1, <1>5, <2>2
    <3>2. Sound(a, f[i]) /\ f[i + 1] = Successor(a, f[i])
      BY <1>2, <3>1 DEF Trace
    <3> QED
      BY <1>3, <1>5, <3>1, <3>2
  <2> QED
    BY <2>1, <2>2
<1>6. (n + 1) - 1 = n /\ n + 1 \in Nat
  BY <1>1
<1>7. Trace(a, g, n + 1)
  BY <1>4, <1>5, <1>6 DEF Trace
<1> QED
  BY <1>3, <1>6, <1>7 DEF Visits, t

LEMMA SeenIs ==
  ASSUME NEW a, NEW b, NEW t
  PROVE  /\ Seen(a, b, t).phase = t.phase /\ Seen(a, b, t).outcome = t.outcome
         /\ Seen(a, b, First) = First
<1>1. Bare(First) = First
  BY DEF Bare, First, Walker, PlainStack
<1> QED
  BY <1>1, BareIs DEF Seen

(* Two walks that are companions return the same, or the second one stops    *)
(* for its reason.                                                          *)
LEMMA Outcomes ==
  ASSUME NEW a, NEW b, NEW reason, Companions(a, b, reason),
         NEW s, Visits(a, s), s.phase = "stop",
         NEW t, Visits(b, t), t.phase = "stop"
  PROVE  s.outcome = t.outcome \/ IsError(t.outcome, {reason})
<1>1. PICK n \in Nat : \E f : Trace(a, f, n) /\ f[n] = s
  BY DEF Visits
<1>2. PICK f : Trace(a, f, n) /\ f[n] = s
  BY <1>1
<1>3. PICK m \in Nat : \E g : Trace(b, g, m) /\ g[m] = t
  BY DEF Visits
<1>4. PICK g : Trace(b, g, m) /\ g[m] = t
  BY <1>3
<1> DEFINE Apart == {i \in 0..m : i <= n /\ f[i] # Seen(a, b, g[i])}
<1>r. /\ \A i \in 0..(n - 1) : f[i].phase # "stop"
      /\ \A i \in 0..(m - 1) : g[i].phase # "stop"
  BY <1>2, <1>4 DEF Trace, Sound
<1>5. CASE Apart = {}
  <2>1. \A i \in 0..m : i <= n => f[i] = Seen(a, b, g[i])
    BY <1>5
  <2>2. CASE n < m
    <3>1. f[n] = Seen(a, b, g[n]) /\ n \in 0..(m - 1)
      BY <1>1, <1>3, <2>1, <2>2
    <3>2. g[n].phase = "stop"
      BY <1>2, <3>1, SeenIs
    <3> QED
      BY <1>r, <3>1, <3>2
  <2>3. CASE m < n
    <3>1. f[m] = Seen(a, b, g[m]) /\ m \in 0..(n - 1)
      BY <1>1, <1>3, <2>1, <2>3
    <3>2. f[m].phase = "stop"
      BY <1>4, <3>1, SeenIs
    <3> QED
      BY <1>r, <3>1, <3>2
  <2>4. CASE m = n
    <3>1. f[n] = Seen(a, b, g[n])
      BY <1>1, <1>3, <2>1, <2>4
    <3> QED
      BY <1>2, <1>4, <2>4, <3>1, SeenIs
  <2> QED
    BY <1>1, <1>3, <2>2, <2>3, <2>4
<1>6. CASE Apart # {}
  <2>1. Apart \subseteq Nat
    BY <1>3
  <2>2. PICK k \in Apart : \A i \in Apart : k <= i
    BY <1>6, <2>1, Least
  <2>3. k # 0
    BY <1>2, <1>4, <2>2, SeenIs DEF Trace
  <2>4. /\ k - 1 \in 0..(m - 1) /\ k - 1 \in 0..(n - 1) /\ k - 1 \in 0..m
        /\ k - 1 \notin Apart /\ (k - 1) + 1 = k /\ k - 1 <= n
        /\ k \in 0..m /\ k <= n
    BY <1>1, <1>3, <2>2, <2>3
  <2>5. PICK j : j = k - 1
    OBVIOUS
  <2>6. /\ f[j] = Seen(a, b, g[j]) /\ Sound(b, g[j])
        /\ g[k] = Successor(b, g[j]) /\ f[k] = Successor(a, f[j])
    <3>1. f[j] = Seen(a, b, g[j])
      BY <2>4, <2>5
    <3>2. Sound(b, g[j]) /\ g[j + 1] = Successor(b, g[j])
      BY <1>4, <2>4, <2>5 DEF Trace
    <3>3. f[j + 1] = Successor(a, f[j])
      BY <1>2, <2>4, <2>5 DEF Trace
    <3> QED
      BY <2>4, <2>5, <3>1, <3>2, <3>3
  <2>7. f[k] # Seen(a, b, g[k])
    BY <2>2
  <2>8. Excused(g[k], reason)
    BY <2>6, <2>7, Lockstep
  <2>9. k = m
    <3>1. g[k].phase = "stop"
      BY <2>8 DEF Excused
    <3>2. k \notin 0..(m - 1)
      BY <1>r, <3>1
    <3> QED
      BY <1>3, <2>4, <3>2
  <2> QED
    BY <1>4, <2>8, <2>9 DEF Excused
<1> QED
  BY <1>5, <1>6

LEMMA SoundNow ==
  ASSUME IInv, phase # "stop"
  PROVE  Sound(This, Now)
<1>1. /\ Now.phase = phase /\ Now.pos = pos /\ Now.string = string
      /\ Now.stack = stack /\ Now.outcome = outcome
      /\ This.in = input /\ This.mode = mode
  BY NowIs
<1>2. /\ IsInput(input) /\ phase \in {"item", "chunks", "done", "next"}
      /\ pos \in 0..Len(input) /\ string \in [major: {2, 3}, total: Nat]
      /\ stack \in Seq(FrameRecord) /\ outcome = Running
      /\ phase = "next" => stack # <<>>
  BY DEF IInv, TypeOK
<1>3. HeadError(pos) = NoError =>
        /\ pos < Len(input) /\ HeadEnd(pos) \in (pos + 1)..Len(input)
        /\ Argument(pos) \in Nat \cup {Indefinite}
  BY ReadHead
<1>4. Problem(This, pos) = NoError =>
        /\ pos < Len(input)
        /\ Heads(input)!HeadEnd(pos) \in (pos + 1)..Len(input)
        /\ Heads(input)!Argument(pos) \in Nat \cup {Indefinite}
  <2>1. /\ Heads(input)!HeadEnd(pos) = HeadEnd(pos)
        /\ Heads(input)!Argument(pos) = Argument(pos)
    BY SameHeads
  <2> QED
    BY <1>3, <2>1, SameProblem
<1>5. phase = "done" /\ stack # <<>> /\ mode = "value" /\ Top.items = Indefinite
        => Top.done < MostItems(Top)
  BY TopFrame DEF RoomForOne
<1>6. TopOf(Now) = Top
  BY <1>1 DEF TopOf, Top, Depth
<1> QED
  BY <1>1, <1>2, <1>4, <1>5, <1>6 DEF Sound

LEMMA StopsWith ==
  ASSUME Step
  PROVE  phase # "stop" /\ (phase' = "stop" => outcome' # Running)
<1>1. \A kind, at : Error(kind, at) # Running
  BY DEF Error, Running
<1>2. \A kind, at : Fail(Error(kind, at)) => outcome' # Running
  BY <1>1 DEF Fail
<1>3. \A p : Complete(p) \/ Close(p) => phase' # "stop"
  BY DEF Complete, Close
<1>4. \A frame : Open(frame) => phase' # "stop"
  BY DEF Open
<1>5. HeadError(pos) # NoError /\ Fail(HeadError(pos)) => outcome' # Running
  BY <1>1 DEF Fail, HeadError
<1>6. CASE TooDeep \/ HeadFails
  BY <1>2, <1>5, <1>6 DEF TooDeep, HeadFails
<1>7. CASE Integer \/ DefiniteString \/ Tag \/ Simple
  BY <1>2, <1>3, <1>4, <1>7 DEF Integer, DefiniteString, Tag, Simple, AtHead
<1>8. CASE IndefiniteString
  BY <1>2, <1>8 DEF IndefiniteString, AtHead
<1>9. CASE Container
  BY <1>2, <1>4, <1>9 DEF Container, AtHead
<1>10. CASE ChunkCut \/ ChunksEnd \/ ChunkHeadFails
  BY <1>2, <1>3, <1>5, <1>10 DEF ChunkCut, ChunksEnd, ChunkHeadFails
<1>11. CASE Chunk
  <2>1. phase = "chunks"
    BY <1>11 DEF Chunk
  <2>2. (\E kind, at : Fail(Error(kind, at))) \/ UNCHANGED phase
    BY <1>11 DEF Chunk
  <2> QED
    BY <1>2, <2>1, <2>2
<1>12. CASE Finish
  BY <1>12 DEF Finish, Ok, Running
<1>13. CASE ItemDone
  <2>1. phase = "done"
    BY <1>13 DEF ItemDone
  <2>2. (\E kind, at : Fail(Error(kind, at))) \/ phase' = "next"
    BY <1>13 DEF ItemDone
  <2> QED
    BY <1>2, <2>1, <2>2
<1>14. CASE ContainerEnds \/ ContainerCut \/ ContainerBreak
  BY <1>2, <1>3, <1>14 DEF ContainerEnds, ContainerCut, ContainerBreak
<1>15. CASE NextItem
  <2>1. phase = "next"
    BY <1>15 DEF NextItem
  <2>2. (\E kind, at : Fail(Error(kind, at))) \/ phase' = "item"
    BY <1>15 DEF NextItem
  <2> QED
    BY <1>2, <2>1, <2>2
<1> QED
  BY <1>6, <1>7, <1>8, <1>9, <1>10, <1>11, <1>12, <1>13, <1>14, <1>15 DEF Step, Walk

-----------------------------------------------------------------------------
(* The walks of SkipAgreement, one after the other.                         *)

WalkOf(w) == [in |-> Part(w), mode |-> w.mode]

(* The walk w ends with this result.                                         *)
Returns(w, result) ==
  result # Running /\ \E s : Visits(WalkOf(w), s) /\ s.phase = "stop" /\ s.outcome = result

(* The first n walks are made, and the next one is under way.               *)
Under(n) ==
  /\ \A i \in 1..Len(Order) :
       IF i <= n THEN Returns(Order[i], results[Order[i]])
       ELSE results[Order[i]] = Running
  /\ IF n = Len(Order) THEN phase = "stop"
     ELSE /\ IInv /\ This = WalkOf(Order[n + 1]) /\ Visits(This, Now)
          /\ phase = "stop" => outcome # Running

(* The answers kept are those of walks from the first byte to the last step, *)
(* in their order, and the walk under way is one of them.                    *)
AgreementIInv ==
  /\ whole \in Inputs \ {<<>>}
  /\ results = [w \in Walks |-> results[w]]
  /\ \E n \in 0..Len(Order) : Under(n)

LEMMA OrderIsOrder ==
  /\ Len(Order) \in Nat /\ Len(Order) >= 1
  /\ \A i \in 1..Len(Order) : Order[i] \in Walks
  /\ \A w \in Walks : \E i \in 1..Len(Order) : w = Order[i]
  /\ \A i, j \in 1..Len(Order) : Order[i] = Order[j] => i = j
<1>1. Order \in Seq(Walks) /\ {Order[i] : i \in 1..Len(Order)} = Walks
  BY AgreementAssumption
<1>2. /\ Len(Order) \in Nat
      /\ \A i \in 1..Len(Order) : Order[i] \in Walks
      /\ \A w \in Walks : \E i \in 1..Len(Order) : w = Order[i]
  BY <1>1
<1>3. [mode |-> "basic", cut |-> FALSE] \in Walks
  BY AgreementAssumption DEF Walks
<1>4. Len(Order) >= 1
  BY <1>2, <1>3
<1> QED
  BY <1>2, <1>4, AgreementAssumption

LEMMA MadeIs ==
  ASSUME NEW n \in 0..Len(Order), Under(n)
  PROVE  Made = n
<1> DEFINE Finished == {Order[i] : i \in 1..n}
           f == [i \in 1..n |-> Order[i]]
<1>0. Len(Order) \in Nat /\ n \in Nat /\ \A i \in 1..n : i \in 1..Len(Order)
  BY OrderIsOrder
<1>1. \A i \in 1..Len(Order) : results[Order[i]] # Running <=> i <= n
  BY DEF Under, Returns
<1>2. Walks \ Pending = Finished
  <2>1. ASSUME NEW w \in Walks, results[w] # Running
        PROVE  w \in Finished
    <3>1. PICK i \in 1..Len(Order) : w = Order[i]
      BY OrderIsOrder
    <3>2. i \in 1..n
      BY <1>0, <1>1, <2>1, <3>1
    <3> QED
      BY <3>1, <3>2
  <2>2. ASSUME NEW i \in 1..n
        PROVE  Order[i] \in Walks /\ results[Order[i]] # Running
    BY <1>0, <1>1, <2>2, OrderIsOrder
  <2> QED
    BY <2>1, <2>2 DEF Pending
<1>3. f \in Bijection(1..n, Finished)
  <2>1. f \in [1..n -> Finished] /\ \A i \in 1..n : f[i] = Order[i]
    OBVIOUS
  <2>2. \A i, j \in 1..n : f[i] = f[j] => i = j
    BY <1>0, <2>1, OrderIsOrder
  <2>3. \A w \in Finished : \E i \in 1..n : f[i] = w
    BY <2>1
  <2> HIDE DEF f, Finished
  <2> QED
    BY <2>1, <2>2, <2>3, Zenon DEF Bijection, Injection, Surjection, IsInjective
<1>4. Cardinality(Finished) = n
  <2>1. ExistsBijection(1..n, Finished)
    BY <1>3 DEF ExistsBijection
  <2> QED
    BY <1>0, <2>1, FS_CountingElements
<1> QED
  BY <1>2, <1>4 DEF Made

LEMMA PartIsInput ==
  ASSUME whole \in Inputs \ {<<>>}, NEW w
  PROVE  IsInput(Part(w)) /\ IsInput(whole)
<1>1. IsInput(whole) /\ whole \in Seq(Bytes) /\ whole # <<>>
  BY SkipAssumption DEF IsInput
<1>2. /\ SubSeq(whole, 1, Len(whole) - 1) \in Seq(Bytes)
      /\ Len(SubSeq(whole, 1, Len(whole) - 1)) = Len(whole) - 1 /\ Len(whole) \in Nat
  BY <1>1, Popped
<1> QED
  BY <1>1, <1>2, SkipAssumption DEF Part, IsInput

(* A walk begins with a decoder of its own.                                 *)
LEMMA FreshState ==
  ASSUME IsInput(input'), mode' \in Modes, phase' = "item", pos' = 0, stack' = <<>>,
         outcome' = Running, string' = [major |-> 2, total |-> 0]
  PROVE  IInv' /\ Now' = First
<1>1. IsInput(input)' /\ Len(input') \in Nat
  <2>1. Len(input') \in Nat
    BY DEF IsInput
  <2> QED
    BY <2>1 DEF IsInput
<1>2. TypeOK'
  BY <1>1, SkipAssumption DEF TypeOK, OutcomeOK
<1>3. StackOK' /\ DepthBounded'
  BY SkipAssumption DEF StackOK, DepthBounded, Depth
<1>4. IInv'
  BY <1>2, <1>3, SkipAssumption DEF IInv
<1> QED
  BY <1>4 DEF Now, First

LEMMA InitAgreement ==
  ASSUME AgreementInit
  PROVE  AgreementIInv
<1>1. /\ whole \in Inputs \ {<<>>} /\ results = [w \in Walks |-> Running]
      /\ input = Part(Order[1]) /\ mode = Order[1].mode
      /\ phase = "item" /\ pos = 0 /\ stack = <<>> /\ outcome = Running
      /\ string = [major |-> 2, total |-> 0]
  BY DEF AgreementInit
<1>2. IsInput(input) /\ mode \in Modes /\ Len(input) \in Nat
  <2>1. Order[1] \in Walks
    BY OrderIsOrder
  <2>2. IsInput(input) /\ mode \in Modes
    BY <1>1, <2>1, PartIsInput DEF Walks
  <2> QED
    BY <2>2 DEF IsInput
<1>3. IInv
  <2>1. TypeOK
    BY <1>1, <1>2, SkipAssumption DEF TypeOK, OutcomeOK
  <2>2. StackOK /\ DepthBounded
    BY <1>1, SkipAssumption DEF StackOK, DepthBounded, Depth
  <2> QED
    BY <1>1, <2>1, <2>2, SkipAssumption DEF IInv
<1>4. Visits(This, Now)
  <2>1. Now = First
    BY <1>1 DEF Now, First
  <2> QED
    BY <2>1, VisitsFirst
<1>5. Under(0)
  <2>1. \A i \in 1..Len(Order) : results[Order[i]] = Running /\ ~(i <= 0)
    BY <1>1, OrderIsOrder
  <2>2. This = WalkOf(Order[0 + 1])
    BY <1>1 DEF This, WalkOf
  <2>3. Len(Order) # 0
    BY OrderIsOrder
  <2> QED
    BY <1>1, <1>3, <1>4, <2>1, <2>2, <2>3 DEF Under
<1>6. 0 \in 0..Len(Order)
  BY OrderIsOrder
<1>7. results = [w \in Walks |-> results[w]]
  BY <1>1
<1> QED
  BY <1>1, <1>5, <1>6, <1>7 DEF AgreementIInv

LEMMA WalkingAgreement ==
  ASSUME NEW n \in 0..Len(Order), Under(n), Walking
  PROVE  Under(n)'
<1>1. Step /\ UNCHANGED <<whole, results>> /\ input' = input /\ mode' = mode
  BY DEF Walking, Step
<1>2. phase # "stop" /\ (phase' = "stop" => outcome' # Running)
  BY <1>1, StopsWith
<1>3. n # Len(Order)
  BY <1>2 DEF Under
<1>4. IInv /\ This = WalkOf(Order[n + 1]) /\ Visits(This, Now)
  BY <1>3 DEF Under
<1>5. IInv'
  BY <1>1, <1>4, StepPreserves
<1>6. This' = This /\ \A w : WalkOf(w)' = WalkOf(w)
  BY <1>1 DEF This, WalkOf, Part
<1>7. Visits(This, Now')
  <2>1. Now' = Successor(This, Now)
    BY <1>1, <1>4, StepFollows
  <2>2. Sound(This, Now)
    BY <1>2, <1>4, SoundNow
  <2> QED
    BY <1>4, <2>1, <2>2, VisitsNext
<1>8. ASSUME NEW i \in 1..Len(Order)
      PROVE  IF i <= n THEN Returns(Order[i], results[Order[i]])'
             ELSE results'[Order[i]] = Running
  <2>1. results' = results
    BY <1>1
  <2>2. Returns(Order[i], results[Order[i]])' <=> Returns(Order[i], results[Order[i]])
    BY <1>6, <2>1 DEF Returns
  <2> QED
    BY <2>1, <2>2 DEF Under
<1> QED
  BY <1>2, <1>3, <1>4, <1>5, <1>6, <1>7, <1>8 DEF Under

LEMMA NextWalkAgreement ==
  ASSUME NEW n \in 0..Len(Order), Under(n), NextWalk, whole \in Inputs \ {<<>>},
         results = [w \in Walks |-> results[w]]
  PROVE  n + 1 \in 0..Len(Order) /\ Under(n + 1)' /\ results' = [w \in Walks |-> results'[w]]
<1>0. Made = n /\ Len(Order) \in Nat
  BY MadeIs, OrderIsOrder
<1>1. /\ phase = "stop" /\ n < Len(Order) /\ whole' = whole
      /\ results' = [results EXCEPT ![Order[n + 1]] = outcome]
  BY <1>0 DEF NextWalk
<1>2. n + 1 \in 1..Len(Order) /\ n + 1 \in 0..Len(Order) /\ n # Len(Order)
  BY <1>0, <1>1
<1>3. /\ This = WalkOf(Order[n + 1]) /\ Visits(This, Now) /\ outcome # Running
  BY <1>1, <1>2 DEF Under
<1>4. \A w : WalkOf(w)' = WalkOf(w)
  BY <1>1 DEF WalkOf, Part
<1>5. Returns(Order[n + 1], outcome)
  BY <1>1, <1>3, NowIs DEF Returns
<1>6. /\ results' = [w \in Walks |-> results'[w]]
      /\ \A i \in 1..Len(Order) :
           results'[Order[i]] = IF i = n + 1 THEN outcome ELSE results[Order[i]]
  <2>1. results \in [Walks -> {results[w] : w \in Walks}]
    <3>1. [w \in Walks |-> results[w]] \in [Walks -> {results[w] : w \in Walks}]
      OBVIOUS
    <3> QED
      BY <3>1
  <2>2. \A i \in 1..Len(Order) : Order[i] \in Walks /\ (Order[i] = Order[n + 1] => i = n + 1)
    BY <1>2, OrderIsOrder
  <2>3. results' = [w \in Walks |-> results'[w]]
    BY <1>1, <2>1
  <2>4. \A i \in 1..Len(Order) :
          results'[Order[i]] = IF Order[i] = Order[n + 1] THEN outcome ELSE results[Order[i]]
    BY <1>1, <2>1, <2>2
  <2> QED
    BY <2>2, <2>3, <2>4
<1>7. ASSUME NEW i \in 1..Len(Order)
      PROVE  IF i <= n + 1 THEN Returns(Order[i], results[Order[i]])'
             ELSE results'[Order[i]] = Running
  <2>1. \A result : WalkOf(Order[i])' = WalkOf(Order[i])
    BY <1>4
  <2>2. CASE i = n + 1
    <3>1. results'[Order[i]] = outcome
      BY <1>6, <2>2
    <3>2. Returns(Order[i], results[Order[i]])'
      BY <1>5, <2>1, <2>2, <3>1 DEF Returns
    <3> QED
      BY <1>2, <2>2, <3>2
  <2>3. CASE i # n + 1
    <3>1. results'[Order[i]] = results[Order[i]] /\ (i <= n + 1 <=> i <= n)
      BY <1>0, <1>6, <2>3
    <3>2. Returns(Order[i], results[Order[i]])' <=> Returns(Order[i], results[Order[i]])
      BY <2>1, <3>1 DEF Returns
    <3> QED
      BY <3>1, <3>2 DEF Under
  <2> QED
    BY <2>2, <2>3
<1>8. CASE n + 1 = Len(Order)
  <2>1. phase' = "stop"
    BY <1>0, <1>1, <1>8 DEF NextWalk, vars
  <2> QED
    BY <1>2, <1>6, <1>7, <1>8, <2>1 DEF Under
<1>9. CASE n + 1 # Len(Order)
  <2>1. /\ input' = Part(Order[n + 2]) /\ mode' = Order[n + 2].mode
        /\ phase' = "item" /\ pos' = 0 /\ stack' = <<>> /\ outcome' = Running
        /\ string' = [major |-> 2, total |-> 0]
    BY <1>0, <1>9 DEF NextWalk
  <2>2. n + 2 \in 1..Len(Order) /\ (n + 1) + 1 = n + 2
    BY <1>0, <1>1, <1>9
  <2>3. IsInput(input') /\ mode' \in Modes
    <3>1. Order[n + 2] \in Walks
      BY <2>2, OrderIsOrder
    <3> QED
      BY <2>1, <3>1, PartIsInput DEF Walks
  <2>4. IInv' /\ Now' = First
    BY <2>1, <2>3, FreshState
  <2>5. This' = WalkOf(Order[n + 2])'
    BY <1>1, <2>1 DEF This, WalkOf, Part
  <2>6. Visits(This, Now)'
    BY <2>4, VisitsFirst
  <2> QED
    BY <1>2, <1>6, <1>7, <1>9, <2>1, <2>2, <2>4, <2>5, <2>6 DEF Under
<1> QED
  BY <1>8, <1>9

LEMMA IdleAgreement ==
  ASSUME AgreementIInv, UNCHANGED allVars
  PROVE  AgreementIInv'
<1>1. /\ UNCHANGED vars /\ whole' = whole /\ results' = results
      /\ input' = input /\ mode' = mode /\ phase' = phase /\ outcome' = outcome
  BY DEF allVars, vars
<1>2. PICK n \in 0..Len(Order) : Under(n)
  BY DEF AgreementIInv
<1>3. /\ \A w : WalkOf(w)' = WalkOf(w)
      /\ This' = This /\ Now' = Now
  BY <1>1 DEF WalkOf, Part, This, Now, vars
<1>4. \A i \in 1..Len(Order) :
        Returns(Order[i], results[Order[i]])' <=> Returns(Order[i], results[Order[i]])
  BY <1>1, <1>3 DEF Returns
<1>5. IInv => IInv'
  BY <1>1 DEF vars, IInv, TypeOK, OutcomeOK, DepthBounded, StackOK, FrameOK,
              RoomForOne, MostItems, PerEntry, Depth
<1>6. Under(n)'
  BY SMTT(30), <1>1, <1>2, <1>3, <1>4, <1>5 DEF Under
<1> QED
  BY <1>1, <1>2, <1>6 DEF AgreementIInv

(* However long the slice and whatever the limits: each answer is where a     *)
(* walk of its slice ends, and the walk under way is one from its beginning. *)
THEOREM AgreementInvariant == AgreementSafety => []AgreementIInv
<1>1. AgreementInit => AgreementIInv
  BY InitAgreement
<1>2. AgreementIInv /\ [AgreementNext]_allVars => AgreementIInv'
  <2> SUFFICES ASSUME AgreementIInv, [AgreementNext]_allVars PROVE AgreementIInv'
    OBVIOUS
  <2>1. PICK n \in 0..Len(Order) : Under(n)
    BY DEF AgreementIInv
  <2>2. whole \in Inputs \ {<<>>} /\ results = [w \in Walks |-> results[w]]
    BY DEF AgreementIInv
  <2>3. CASE Walking
    <3>1. Under(n)'
      BY <2>1, <2>3, WalkingAgreement
    <3> QED
      BY <2>2, <2>3, <3>1 DEF AgreementIInv, Walking
  <2>4. CASE NextWalk
    <3>1. /\ n + 1 \in 0..Len(Order) /\ Under(n + 1)'
          /\ results' = [w \in Walks |-> results'[w]]
      BY <2>1, <2>2, <2>4, NextWalkAgreement
    <3>2. whole' = whole
      BY <2>4 DEF NextWalk
    <3>3. \E k \in 0..Len(Order) : Under(k)'
      BY <3>1
    <3> QED
      BY <2>2, <3>1, <3>2, <3>3 DEF AgreementIInv
  <2>5. CASE UNCHANGED allVars
    BY <2>5, IdleAgreement
  <2> QED
    BY <2>3, <2>4, <2>5 DEF AgreementNext, Compared
<1> QED
  BY <1>1, <1>2, PTL DEF AgreementSafety

(* When all walks are made, the answers of two companions agree.             *)
LEMMA AnswersAgree ==
  ASSUME AgreementIInv, Pending = {}, NEW v \in Walks, NEW w \in Walks, NEW reason,
         Companions(WalkOf(v), WalkOf(w), reason)
  PROVE  results[v] = results[w] \/ IsError(results[w], {reason})
<1>1. PICK n \in 0..Len(Order) : Under(n)
  BY DEF AgreementIInv
<1>2. ASSUME NEW u \in Walks
      PROVE  Returns(u, results[u])
  <2>1. PICK i \in 1..Len(Order) : u = Order[i]
    BY OrderIsOrder
  <2>2. results[Order[i]] # Running
    BY <2>1 DEF Pending
  <2> QED
    BY <1>1, <2>1, <2>2 DEF Under
<1>3. PICK s : Visits(WalkOf(v), s) /\ s.phase = "stop" /\ s.outcome = results[v]
  BY <1>2 DEF Returns
<1>4. PICK t : Visits(WalkOf(w), t) /\ t.phase = "stop" /\ t.outcome = results[w]
  BY <1>2 DEF Returns
<1> QED
  BY <1>3, <1>4, Outcomes

(* The walkers agree on every slice: two that accept an item end it at the    *)
(* same byte, and one refuses what another accepts for its own reason only -  *)
(* skip for the text, a value decoder for a limit, the deterministic          *)
(* validation for the form.                                                   *)
THEOREM WalkersAgree == AgreementSafety => []SameItems
<1>1. ASSUME AgreementIInv, Pending = {}, NEW m \in Modes, NEW k \in Modes, NEW reason,
             <<m, k, reason>> \in Stricter
      PROVE  Answer(m) = Answer(k) \/ IsError(Answer(k), {reason})
  <2>1. /\ [mode |-> m, cut |-> FALSE] \in Walks /\ [mode |-> k, cut |-> FALSE] \in Walks
    BY DEF Walks
  <2>2. IsInput(whole)
    BY <1>1, PartIsInput DEF AgreementIInv
  <2>3. Companions(WalkOf([mode |-> m, cut |-> FALSE]), WalkOf([mode |-> k, cut |-> FALSE]),
                   reason)
    BY <1>1, <2>2 DEF Companions, WalkOf, Part
  <2> QED
    BY <1>1, <2>1, <2>3, AnswersAgree DEF Answer
<1>2. \A result, kinds : IsOk(result) => ~IsError(result, kinds)
  BY DEF IsOk, IsError
<1>3. ASSUME AgreementIInv, Pending = {} PROVE SameItems
  <2>1. Answer("structural") = Answer("basic") \/ IsError(Answer("basic"), {"utf8"})
    BY <1>1, <1>3, AgreementAssumption DEF Stricter
  <2>2. Answer("basic") = Answer("value") \/ IsError(Answer("value"), {"limit"})
    BY <1>1, <1>3, AgreementAssumption DEF Stricter
  <2>3. \/ Answer("basic") = Answer("deterministic")
        \/ IsError(Answer("deterministic"), {"nondeterministic"})
    BY <1>1, <1>3, AgreementAssumption DEF Stricter
  <2> QED
    BY <1>2, <2>1, <2>2, <2>3 DEF SameItems
<1>4. AgreementIInv => SameItems
  BY <1>3 DEF SameItems
<1> QED
  BY <1>4, AgreementInvariant, PTL

(* What a walker decides on a prefix it decides on every slice that goes on   *)
(* by a byte, and so on every longer one: an error that is not the end of     *)
(* the input, its kind and its place, or the end of the item.                *)
THEOREM PrefixesDecide == AgreementSafety => []PrefixDecides
<1>1. ASSUME AgreementIInv, Pending = {} PROVE PrefixDecides
  <2>1. SUFFICES ASSUME NEW m \in Modes
                 PROVE  \/ IsError(results[[mode |-> m, cut |-> TRUE]], {"eof"})
                        \/ Answer(m) = results[[mode |-> m, cut |-> TRUE]]
    BY DEF PrefixDecides
  <2>2. /\ [mode |-> m, cut |-> FALSE] \in Walks /\ [mode |-> m, cut |-> TRUE] \in Walks
    BY DEF Walks
  <2>3. IsInput(whole) /\ whole # <<>>
    BY <1>1, PartIsInput DEF AgreementIInv
  <2>4. Companions(WalkOf([mode |-> m, cut |-> FALSE]), WalkOf([mode |-> m, cut |-> TRUE]),
                   "eof")
    BY <2>3 DEF Companions, WalkOf, Part
  <2> QED
    BY <1>1, <2>2, <2>4, AnswersAgree DEF Answer
<1>2. AgreementIInv => PrefixDecides
  BY <1>1 DEF PrefixDecides
<1> QED
  BY <1>2, AgreementInvariant, PTL

-----------------------------------------------------------------------------
(* The events of a parser.                                                  *)

(* What next refuses, as a function of the slice and the validation.        *)
LongIn(a, p) == Heads(a.in)!Major(p) \in {2, 3} /\ Heads(a.in)!Argument(p) # Indefinite

RefusedIn(a, p) ==
  /\ Heads(a.in)!Byte(p) # Break
  /\ \/ Problem(a, p) # NoError
     \/ LongIn(a, p) /\ Heads(a.in)!HeadEnd(p) + Heads(a.in)!Argument(p) > Len(a.in)
     \/ LongIn(a, p) /\ Heads(a.in)!Major(p) = 3
          /\ ~TextRead(a, Heads(a.in)!HeadEnd(p), Heads(a.in)!HeadEnd(p) + Heads(a.in)!Argument(p))
     \/ Heads(a.in)!Major(p) = 6 /\ Heads(a.in)!Info(p) = 31
     \/ /\ Heads(a.in)!Major(p) = 7
        /\ \/ ~FloatRead(a, p)
           \/ Heads(a.in)!Info(p) = 24 /\ Heads(a.in)!Argument(p) < 32

LEMMA RefusedIs == \A p : Refused(p) <=> RefusedIn(This, p)
<1> TAKE p
<1>1. LongString(p) <=> LongIn(This, p)
  BY SameHeads, NowIs DEF LongString, LongIn
<1>2. /\ This.in = input /\ Problem(This, p) = HeadError(p)
      /\ FloatRead(This, p) <=> FloatAccepted(p)
  BY NowIs, SameFloat, SameProblem
<1>3. /\ Heads(input)!Byte(p) = Byte(p) /\ Heads(input)!Info(p) = Info(p)
      /\ Heads(input)!Major(p) = Major(p) /\ Heads(input)!HeadEnd(p) = HeadEnd(p)
      /\ Heads(input)!Argument(p) = Argument(p)
  BY SameHeads
<1>4. TextRead(This, HeadEnd(p), HeadEnd(p) + Argument(p))
        <=> TextAccepted(HeadEnd(p), HeadEnd(p) + Argument(p))
  BY SameText
<1> QED
  BY <1>1, <1>2, <1>3, <1>4, Zenon DEF Refused, RefusedIn

(* What is refused and read depends on the slice and the validation alone.   *)
LEMMA RefusedStays ==
  ASSUME UNCHANGED <<input, mode>>
  PROVE  \A p : Refused(p)' <=> Refused(p)
<1>1. (\A p : Refused(p) <=> RefusedIn(This, p))'
  BY RefusedIs, PTL
<1>2. This' = This
  BY DEF This
<1>3. \A p : RefusedIn(This, p)' <=> RefusedIn(This, p)
  BY <1>2
<1> QED
  BY <1>1, <1>3, RefusedIs

LEMMA EventStays ==
  ASSUME UNCHANGED <<input, mode>>, NEW p
  PROVE  EventAt(p)' = EventAt(p)
BY DEF EventAt, Byte, Major, Info, LongString, HeadEnd, Width, Argument, Two, Four

LEMMA YieldDecides ==
  ASSUME EventsIInv, NEW entry, Yield(entry), UNCHANGED <<input, mode, iterator>>,
         iterator = "events" => (~Refused(entry.from) => entry = EventAt(entry.from))
  PROVE  EventsDecided'
<1>1. yielded \in Seq(EntryRecord) /\ Count \in Nat /\ Count = Len(yielded)
  BY Entries DEF EventsIInv, IteratorIInv
<1>2. /\ yielded' = Append(yielded, entry) /\ Count' = Count + 1
      /\ yielded'[Count + 1] = entry
      /\ \A i \in 1..Count : yielded'[i] = yielded[i]
  BY <1>1, Pushed DEF Yield, Count
<1>3. \A i \in 1..(Count + 1) : i = Count + 1 \/ i \in 1..Count
  BY <1>1
<1>4. \A p : (Refused(p)' <=> Refused(p)) /\ EventAt(p)' = EventAt(p)
  BY RefusedStays, EventStays
<1> SUFFICES ASSUME iterator = "events", NEW i \in 1..(Count + 1)
             PROVE  ~Refused(yielded'[i].from) => yielded'[i] = EventAt(yielded'[i].from)
  BY <1>2, <1>4 DEF EventsDecided
<1>5. CASE i = Count + 1
  BY <1>2, <1>5
<1>6. CASE i \in 1..Count
  BY <1>2, <1>6 DEF EventsIInv, EventsDecided
<1> QED
  BY <1>3, <1>5, <1>6

LEMMA KeepDecides ==
  ASSUME EventsIInv, UNCHANGED <<input, mode, iterator, yielded>>
  PROVE  EventsDecided'
<1>1. \A p : (Refused(p)' <=> Refused(p)) /\ EventAt(p)' = EventAt(p)
  BY RefusedStays, EventStays
<1> QED
  BY <1>1 DEF EventsIInv, EventsDecided, Count

LEMMA EntryFrom ==
  ASSUME NEW kind, NEW items, NEW p, NEW q, NEW error, NEW item
  PROVE  /\ Event(kind, items, p, q).from = p /\ Event(kind, items, p, q).to = q
         /\ Event(kind, items, p, q).kind = kind /\ Event(kind, items, p, q).items = items
         /\ Event(kind, items, p, q).tag = "event"
         /\ Failure(error, item, p, q).from = p
BY DEF Event, Failure

LEMMA AnswerDecides ==
  ASSUME EventsIInv, iterator = "events", NEW entry, entry.from = pos,
         ReadEvent(entry), Refused(pos) \/ entry = EventAt(pos)
  PROVE  EventsDecided'
<1>1. Yield(entry) /\ UNCHANGED <<input, mode, iterator>>
  BY DEF ReadEvent
<1> QED
  BY <1>1, YieldDecides

LEMMA RefusalDecides ==
  ASSUME EventsIInv, iterator = "events", NEW error, NEW to, RefuseEvent(error, to),
         Refused(pos)
  PROVE  EventsDecided'
BY EntryFrom, AnswerDecides DEF RefuseEvent

LEMMA EventDecides == ASSUME EventsIInv, NextEventCall PROVE EventsDecided'
<1>2. iterator = "events"
  BY DEF NextEventCall, BreakEvent, EventHeadFails, IntegerEvent, StringEvent,
         ContainerEvent, TagEvent, SimpleEvent, AtEvent, Called
<1>3. CASE BreakEvent
  <2>1. ReadEvent(EventAt(pos)) /\ EventAt(pos).from = pos
    BY <1>3, EntryFrom DEF BreakEvent, EventAt
  <2> QED
    BY <1>2, <2>1, AnswerDecides
<1>4. CASE EventHeadFails
  BY <1>2, <1>4, RefusalDecides DEF EventHeadFails, Refused
<1>5. CASE IntegerEvent
  <2>1. CASE Info(pos) = 31
    <3>1. iterator' = "unwound"
      BY <1>5, <2>1 DEF IntegerEvent
    <3> QED
      BY <3>1 DEF EventsDecided
  <2>2. CASE Info(pos) # 31
    <3>1. ReadEvent(Event("leaf", 0, pos, HeadEnd(pos))) /\ Byte(pos) # Break
          /\ Major(pos) \in {0, 1}
      BY <1>5, <2>2 DEF IntegerEvent, AtEvent
    <3>2. EventAt(pos) = Event("leaf", 0, pos, HeadEnd(pos))
      BY <3>1 DEF EventAt, LongString
    <3> QED
      BY <1>2, <3>1, <3>2, EntryFrom, AnswerDecides
  <2> QED
    BY <2>1, <2>2
<1>6. CASE StringEvent
  <2> DEFINE n == Argument(pos)
             begin == HeadEnd(pos)
  <2>1. Byte(pos) # Break /\ Major(pos) \in {2, 3}
    BY <1>6 DEF StringEvent, AtEvent
  <2>2. \/ n = Indefinite /\ ReadEvent(Event("string", Indefinite, pos, begin))
        \/ n # Indefinite /\ begin + n > Len(input) /\ RefuseEvent(Error("eof", begin), begin)
        \/ n # Indefinite /\ Major(pos) = 3 /\ ~TextAccepted(begin, begin + n)
             /\ RefuseEvent(Error("utf8", pos), begin + n)
        \/ n # Indefinite /\ ReadEvent(Event("leaf", 0, pos, begin + n))
    BY <1>6 DEF StringEvent
  <2>3. CASE n = Indefinite
    <3>1. EventAt(pos) = Event("string", Indefinite, pos, begin)
      BY <2>1, <2>3 DEF EventAt, LongString
    <3>2. ReadEvent(EventAt(pos)) /\ EventAt(pos).from = pos
      BY <2>2, <2>3, <3>1, EntryFrom
    <3> QED
      BY <1>2, <3>2, AnswerDecides
  <2>4. CASE n # Indefinite
    <3>1. LongString(pos) /\ EventAt(pos) = Event("leaf", 0, pos, begin + n)
      BY <2>1, <2>4 DEF EventAt, LongString
    <3>2. CASE ReadEvent(Event("leaf", 0, pos, begin + n))
      BY <1>2, <3>1, <3>2, EntryFrom, AnswerDecides
    <3>3. CASE begin + n > Len(input) /\ RefuseEvent(Error("eof", begin), begin)
      <4>1. Refused(pos)
        BY <2>1, <3>1, <3>3 DEF Refused
      <4> HIDE DEF begin
      <4> QED
        BY <1>2, <3>3, <4>1, RefusalDecides
    <3>4. CASE Major(pos) = 3 /\ ~TextAccepted(begin, begin + n)
                 /\ RefuseEvent(Error("utf8", pos), begin + n)
      <4>1. Refused(pos)
        BY <2>1, <3>1, <3>4 DEF Refused
      <4> HIDE DEF begin, n
      <4> QED
        BY <1>2, <3>4, <4>1, RefusalDecides
    <3> HIDE DEF begin, n
    <3> QED
      BY <2>2, <2>4, <3>2, <3>3, <3>4
  <2> QED
    BY <2>3, <2>4
<1>7. CASE ContainerEvent
  <2>1. ReadEvent(EventAt(pos)) /\ EventAt(pos).from = pos
    <3>1. /\ Byte(pos) # Break /\ Major(pos) \in {4, 5}
          /\ ReadEvent(Event(IF Major(pos) = 5 THEN "map" ELSE "array", Argument(pos),
                             pos, HeadEnd(pos)))
      BY <1>7 DEF ContainerEvent, AtEvent
    <3>2. EventAt(pos) = Event(IF Major(pos) = 5 THEN "map" ELSE "array", Argument(pos),
                               pos, HeadEnd(pos))
      BY <3>1 DEF EventAt, LongString
    <3> QED
      BY <3>1, <3>2, EntryFrom
  <2> QED
    BY <1>2, <2>1, AnswerDecides
<1>8. CASE TagEvent
  <2>1. Byte(pos) # Break /\ Major(pos) = 6
    BY <1>8 DEF TagEvent, AtEvent
  <2>2. CASE Info(pos) = 31
    BY <1>2, <1>8, <2>1, <2>2, RefusalDecides DEF TagEvent, Refused
  <2>3. CASE Info(pos) # 31
    <3>1. EventAt(pos) = Event("tag", 1, pos, HeadEnd(pos))
      BY <2>1 DEF EventAt, LongString
    <3>2. ReadEvent(EventAt(pos)) /\ EventAt(pos).from = pos
      BY <1>8, <2>3, <3>1, EntryFrom DEF TagEvent
    <3> QED
      BY <1>2, <3>2, AnswerDecides
  <2> QED
    BY <2>2, <2>3
<1>9. CASE SimpleEvent
  <2> DEFINE bad == ~FloatAccepted(pos) \/ (Info(pos) = 24 /\ Argument(pos) < 32)
  <2>1. Byte(pos) # Break /\ Major(pos) = 7
    BY <1>9 DEF SimpleEvent, AtEvent
  <2>2. CASE bad
    <3>1. Refused(pos)
      BY <2>1, <2>2 DEF Refused
    <3>2. PICK kind \in {"additional", "nondeterministic"} :
            RefuseEvent(Error(kind, pos), HeadEnd(pos))
      BY <1>9, <2>2 DEF SimpleEvent
    <3> QED
      BY <1>2, <3>1, <3>2, RefusalDecides
  <2>3. CASE ~bad
    <3>1. EventAt(pos) = Event("leaf", 0, pos, HeadEnd(pos))
      BY <2>1 DEF EventAt, LongString
    <3>2. ReadEvent(EventAt(pos)) /\ EventAt(pos).from = pos
      BY <1>9, <2>3, <3>1, EntryFrom DEF SimpleEvent
    <3> QED
      BY <1>2, <3>2, AnswerDecides
  <2> QED
    BY <2>2, <2>3
<1> QED
  BY <1>3, <1>4, <1>5, <1>6, <1>7, <1>8, <1>9 DEF NextEventCall

LEMMA StepWalks == Step => phase # "stop"
BY DEF Step, Walk, TooDeep, HeadFails, Integer, DefiniteString, IndefiniteString,
       Container, Tag, Simple, AtHead, ChunkCut, ChunksEnd, ChunkHeadFails, Chunk,
       Finish, ItemDone, ContainerEnds, ContainerCut, ContainerBreak, NextItem

(* What a parser returns for the bytes at an offset depends on them alone:   *)
(* the head's event, or an error.                                            *)
THEOREM EventsInvariant == IteratorSafety => []EventsIInv
<1>1. IteratorInit => EventsIInv
  <2> SUFFICES ASSUME IteratorInit PROVE EventsIInv
    OBVIOUS
  <2>1. Count = 0
    BY DEF IteratorInit, Count
  <2> QED
    BY <2>1, IteratorInitInvariant DEF EventsIInv, EventsDecided
<1>2. EventsIInv /\ [IteratorNext]_iteratorVars => EventsIInv'
  <2> SUFFICES ASSUME EventsIInv, [IteratorNext]_iteratorVars PROVE EventsIInv'
    OBVIOUS
  <2>1. CASE NextItemCall
    <3>1. IteratorIInv'
      BY <2>1, OneByteInvariant, BeginInvariant, WalkInvariant, GiveInvariant,
         GiveErrorInvariant DEF NextItemCall, EventsIInv
    <3>2. iterator = "items" /\ iterator' = iterator
      <4>1. Called("items") \/ ~Between
        BY <2>1, StepWalks DEF NextItemCall, OneByteItem, BeginItem, WalkItem, GiveItem,
                               GiveItemError, Between, Running
      <4>2. iterator' = iterator
        BY <2>1 DEF NextItemCall, OneByteItem, BeginItem, WalkItem, GiveItem, GiveItemError
      <4> QED
        BY <4>1, <4>2 DEF Called, EventsIInv, IteratorIInv, InWalk
    <3> QED
      BY <3>1, <3>2 DEF EventsIInv, EventsDecided
  <2>2. CASE NextEventCall
    BY <2>2, EventDecides, HeadInvariant, ArgumentEventInvariant, StringInvariant
       DEF NextEventCall, EventsIInv
  <2>3. CASE Stopped \/ UNCHANGED iteratorVars
    <3>1. UNCHANGED iteratorVars
      BY <2>3 DEF Stopped
    <3>2. UNCHANGED <<input, mode, iterator, yielded>>
      BY <3>1 DEF iteratorVars, vars
    <3>3. IteratorIInv'
      BY <3>1, StopInvariant DEF EventsIInv
    <3> QED
      BY <3>2, <3>3, KeepDecides DEF EventsIInv
  <2> QED
    BY <2>1, <2>2, <2>3 DEF IteratorNext
<1> QED
  BY <1>1, <1>2, PTL DEF IteratorSafety

-----------------------------------------------------------------------------
(* A reader of events.                                                      *)

LEMMA MaxExists ==
  ASSUME NEW S, S \subseteq Nat, S # {}, NEW n \in Nat, \A y \in S : y <= n
  PROVE  Max(S) \in S
<1> DEFINE T == {n - y : y \in S}
<1>1. T \subseteq Nat /\ T # {}
  <2>1. \A y \in S : n - y \in Nat
    OBVIOUS
  <2> QED
    BY <2>1
<1> HIDE DEF T
<1>2. PICK m \in T : \A k \in T : m <= k
  BY <1>1, Least
<1>3. PICK x \in S : m = n - x
  BY DEF T
<1>4. ASSUME NEW y \in S PROVE y <= x
  <2>1. n - y \in T
    BY DEF T
  <2>2. m <= n - y
    BY <1>2, <2>1
  <2> QED
    BY <1>3, <2>2
<1> QED
  BY <1>4, MaxIs

Unsettled(open) == {0} \cup {i \in 1..Len(open) : open[i] # 1}

(* The last item of a container ends the item the container is.             *)
LEMMA EndedIs ==
  ASSUME NEW s \in Seq(Int), NEW m \in Int
  PROVE  ItemEnded(Append(s, m))
           = IF m = 1 THEN ItemEnded(s)
             ELSE Append(s, IF m = Indefinite THEN m ELSE m - 1)
<1> DEFINE t == Append(s, m)
           n == Len(s)
<1>1. /\ n \in Nat /\ t \in Seq(Int) /\ Len(t) = n + 1 /\ t[n + 1] = m
      /\ \A i \in 1..n : t[i] = s[i]
  BY Pushed
<1>2. CASE m # 1
  <2> DEFINE e == IF m = Indefinite THEN m ELSE m - 1
  <2>1. Max(Unsettled(t)) = n + 1
    <3>1. n + 1 \in Unsettled(t) /\ Unsettled(t) \subseteq Nat
      BY <1>1, <1>2 DEF Unsettled
    <3>2. \A y \in Unsettled(t) : y <= n + 1
      BY <1>1 DEF Unsettled
    <3> HIDE DEF t, n
    <3> QED
      BY <3>1, <3>2, MaxIs
  <2>2. SubSeq(t, 1, n + 1) = t
    BY <1>1
  <2>3. n + 1 # 0
    BY <1>1
  <2>4. ItemEnded(t) = [t EXCEPT ![n + 1] = IF @ = Indefinite THEN @ ELSE @ - 1]
    <3> HIDE DEF t, n
    <3> QED
      BY <2>1, <2>2, <2>3 DEF ItemEnded, Unsettled
  <2>5. [t EXCEPT ![n + 1] = IF @ = Indefinite THEN @ ELSE @ - 1] = [t EXCEPT ![n + 1] = e]
    <3> HIDE DEF t, n
    <3> QED
      BY <1>1
  <2>6. [t EXCEPT ![n + 1] = e] = Append(s, e)
    <3>1. e \in Int /\ t # <<>>
      BY <1>1 DEF Indefinite
    <3> HIDE DEF e, t, n
    <3>2. /\ [t EXCEPT ![Len(t)] = e] \in Seq(Int) /\ Len([t EXCEPT ![Len(t)] = e]) = n + 1
          /\ \A i \in 1..(Len(t) - 1) : [t EXCEPT ![Len(t)] = e][i] = t[i]
          /\ [t EXCEPT ![Len(t)] = e][Len(t)] = e
      BY <1>1, <3>1, Replaced
    <3>3. /\ Append(s, e) \in Seq(Int) /\ Len(Append(s, e)) = n + 1
          /\ Append(s, e)[n + 1] = e /\ \A i \in 1..n : Append(s, e)[i] = s[i]
      BY <3>1, Pushed DEF n
    <3>4. ASSUME NEW i \in 1..(n + 1)
          PROVE  [t EXCEPT ![Len(t)] = e][i] = Append(s, e)[i]
      <4>1. i = n + 1 \/ i \in 1..n
        BY <1>1
      <4>2. (n + 1) - 1 = n
        BY <1>1
      <4> QED
        BY <1>1, <3>2, <3>3, <4>1, <4>2
    <3>5. [t EXCEPT ![Len(t)] = e] = Append(s, e)
      BY <3>2, <3>3, <3>4, SameSeq
    <3> QED
      BY <1>1, <3>5
  <2> QED
    BY <1>2, <2>4, <2>5, <2>6
<1>3. CASE m = 1
  <2>1. Unsettled(t) = Unsettled(s)
    <3>1. \A i \in 1..(n + 1) : i = n + 1 \/ i \in 1..n
      BY <1>1
    <3>2. \A i : i \in {j \in 1..Len(t) : t[j] # 1} <=> i \in {j \in 1..n : s[j] # 1}
      <4> HIDE DEF t, n
      <4> QED
        BY <1>1, <1>3, <3>1
    <3> QED
      BY <3>2 DEF Unsettled
  <2>2. Max(Unsettled(s)) \in Unsettled(s)
    <3>1. Unsettled(s) \subseteq Nat /\ Unsettled(s) # {} /\ \A y \in Unsettled(s) : y <= n
      BY <1>1 DEF Unsettled
    <3> QED
      BY <1>1, <3>1, MaxExists
  <2>3. PICK k : k = Max(Unsettled(s))
    OBVIOUS
  <2>4. k \in 0..n
    BY <1>1, <2>2, <2>3 DEF Unsettled
  <2>5. SubSeq(t, 1, k) = SubSeq(s, 1, k)
    BY <1>1, <2>4
  <2>6. ItemEnded(t) = ItemEnded(s)
    <3> HIDE DEF t, n
    <3> QED
      BY <2>1, <2>3, <2>5 DEF ItemEnded, Unsettled
  <2> QED
    BY <1>3, <2>6
<1> QED
  BY <1>2, <1>3

LEMMA EndedEmpty == ItemEnded(<<>>) = <<>>
<1>1. Unsettled(<<>>) = {0}
  BY DEF Unsettled
<1>2. Max({0}) = 0
  BY MaxIs
<1> QED
  BY <1>1, <1>2 DEF ItemEnded, Unsettled

-----------------------------------------------------------------------------
(* What is open before and after an event, when the reader began with the    *)
(* a-th.                                                                     *)
OpenBefore(a, i) == IF i = a THEN <<>> ELSE OpenFrom(a)[i - 1]

OpensTo(f, a, n) ==
  f = [k \in a..n |-> AfterEvent(IF k = a THEN <<>> ELSE f[k - 1], yielded[k])]

LEMMA OpensExists ==
  ASSUME NEW a \in Nat, NEW n \in Nat
  PROVE  \E f : OpensTo(f, a, n)
<1> DEFINE bad == {m \in Nat : ~ \E f : OpensTo(f, a, m)}
           after(f, k) == AfterEvent(IF k = a THEN <<>> ELSE f[k - 1], yielded[k])
<1>1. ASSUME bad # {} PROVE FALSE
  <2>1. PICK m \in bad : \A k \in bad : m <= k
    <3>1. bad \subseteq Nat
      OBVIOUS
    <3> HIDE DEF bad
    <3> QED
      BY <1>1, <3>1, Least
  <2>2. m \in Nat /\ ~ \E f : OpensTo(f, a, m)
    OBVIOUS
  <2>3. CASE m < a
    <3>1. a..m = {}
      BY <2>2, <2>3
    <3>2. OpensTo([k \in {} |-> <<>>], a, m)
      BY <3>1 DEF OpensTo
    <3> QED
      BY <2>2, <3>2
  <2>4. CASE m = a
    <3> DEFINE g == [k \in a..m |-> AfterEvent(<<>>, yielded[k])]
    <3>1. \A k \in a..m : k = a
      BY <2>4
    <3>2. g = [k \in a..m |-> AfterEvent(IF k = a THEN <<>> ELSE g[k - 1], yielded[k])]
      BY <3>1
    <3> QED
      BY <2>2, <3>2 DEF OpensTo
  <2>5. CASE m > a
    <3>1. m - 1 \in Nat /\ m - 1 \notin bad
      <4>1. m - 1 \in Nat /\ ~(m <= m - 1)
        BY <2>2, <2>5
      <4> HIDE DEF bad
      <4> QED
        BY <2>1, <4>1
    <3>2. PICK f : OpensTo(f, a, m - 1)
      BY <3>1
    <3> DEFINE g == [k \in a..m |-> IF k = m THEN AfterEvent(f[m - 1], yielded[m]) ELSE f[k]]
    <3>3. ASSUME NEW k \in a..m
          PROVE  g[k] = after(g, k)
      <4>1. CASE k = m
        <5>1. m - 1 \in a..m /\ m - 1 # m
          BY <2>2, <2>5
        <5>2. g[m - 1] = f[m - 1] /\ k # a
          BY <2>5, <4>1, <5>1
        <5> QED
          BY <4>1, <5>2
      <4>2. CASE k # m
        <5>1. k \in a..(m - 1)
          BY <2>2, <4>2
        <5>2. f[k] = after(f, k)
          BY <3>2, <5>1 DEF OpensTo
        <5>3. k # a => k - 1 \in a..m /\ k - 1 # m
          BY <2>2, <4>2
        <5>4. k # a => g[k - 1] = f[k - 1]
          BY <5>3
        <5>5. g[k] = f[k]
          BY <4>2
        <5> HIDE DEF g
        <5> QED
          BY <5>2, <5>4, <5>5
      <4> QED
        BY <4>1, <4>2
    <3>4. g = [k \in a..m |-> g[k]]
      OBVIOUS
    <3>5. g = [k \in a..m |-> after(g, k)]
      <4> HIDE DEF g, after
      <4> QED
        BY <3>3, <3>4
    <3> HIDE DEF g
    <3> QED
      BY <2>2, <3>5 DEF OpensTo
  <2> QED
    BY <2>2, <2>3, <2>4, <2>5
<1> QED
  BY <1>1

LEMMA OpenIsNext ==
  ASSUME NEW a \in Nat, Count \in Nat, NEW i \in a..Count
  PROVE  OpenFrom(a)[i] = AfterEvent(OpenBefore(a, i), yielded[i])
<1> DEFINE chosen == CHOOSE f : OpensTo(f, a, Count)
<1>1. OpensTo(chosen, a, Count)
  BY OpensExists
<1>2. OpenFrom(a) = chosen
  BY DEF OpenFrom, OpensTo
<1> HIDE DEF chosen
<1>3. chosen[i] = AfterEvent(IF i = a THEN <<>> ELSE chosen[i - 1], yielded[i])
  BY <1>1 DEF OpensTo
<1> QED
  BY <1>2, <1>3 DEF OpenBefore

LEMMA AfterLeaf ==
  ASSUME NEW s, NEW p, NEW q
  PROVE  AfterEvent(s, Event("leaf", 0, p, q)) = ItemEnded(s)
BY EntryFrom DEF AfterEvent, Announced

LEMMA AfterBreak ==
  ASSUME NEW s, NEW p, NEW q
  PROVE  AfterEvent(s, Event("break", 0, p, q)) = ItemEnded(SubSeq(s, 1, Len(s) - 1))
BY EntryFrom DEF AfterEvent, Announced

(* A container, a tag or an indefinite string with the items it announces.  *)
LEMMA AfterOpening ==
  ASSUME NEW s, NEW kind \in {"array", "map", "tag", "string"}, NEW items \in Int,
         NEW p, NEW q, NEW n,
         n = IF kind = "map" /\ items # Indefinite THEN 2 * items ELSE items
  PROVE  AfterEvent(s, Event(kind, items, p, q))
           = IF n = 0 THEN ItemEnded(s) ELSE Append(s, n)
BY EntryFrom DEF AfterEvent, Announced

-----------------------------------------------------------------------------
(* The items a reader sees end.                                             *)

(* A parser has returned None.                                              *)
AllRead == EventsIInv /\ iterator = "events" /\ Drained

LEMMA ReadEntry ==
  ASSUME AllRead, NEW i \in 1..Count, NEW p, p = yielded[i].from
  PROVE  /\ IsInput(input) /\ Len(input) \in Nat /\ Len(input) <= MaxLen /\ Count \in Nat
         /\ i \in Nat /\ p \in Nat /\ p < Len(input) /\ p \in Positions
         /\ ~Refused(p) => yielded[i] = EventAt(p)
         /\ yielded[i].to \in Positions
         /\ i = Count => yielded[i].to = Len(input)
         /\ i # Count => i + 1 \in 1..Count /\ yielded[i + 1].from = yielded[i].to
<1>1. IteratorIInv /\ IteratorTypeOK /\ Tiled /\ IInv /\ pos = Len(input) /\ Between
  BY DEF AllRead, EventsIInv, IteratorIInv, Drained
<1>2. IsInput(input) /\ Len(input) \in Nat /\ Len(input) <= MaxLen
  BY <1>1, Placed, Resting
<1>3. Count \in Nat /\ yielded[i].from \in Nat /\ yielded[i].to \in Nat
  BY <1>1, Entries
<1>4. yielded[i].from < yielded[i].to /\ yielded[i].to <= Len(input)
  BY <1>1 DEF Tiled
<1>5. i \in Nat /\ p \in Nat /\ p < Len(input) /\ p \in Positions /\ yielded[i].to \in Positions
  BY <1>2, <1>3, <1>4 DEF Positions
<1>6. i = Count => yielded[i].to = Len(input)
  <2>1. Begins(Count + 1) = Len(input)
    BY <1>1 DEF Tiled
  <2>2. Count + 1 # 1 /\ (Count + 1) - 1 = Count
    BY <1>3
  <2> QED
    BY <2>1, <2>2 DEF Begins
<1>7. i # Count => i + 1 \in 1..Count /\ yielded[i + 1].from = yielded[i].to
  <2>1. i + 1 # 1 /\ (i + 1) - 1 = i /\ (i # Count => i + 1 \in 1..Count)
    BY <1>3
  <2> QED
    BY <1>1, <2>1 DEF Tiled, Begins
<1> QED
  BY <1>2, <1>3, <1>5, <1>6, <1>7 DEF AllRead, EventsIInv, EventsDecided

(* The events from the i-th on end, at q, an item in what was open as s.    *)
Closing(a, i, j, s, q) ==
  /\ yielded[j].to = q /\ OpenFrom(a)[j] = ItemEnded(s)
  /\ \A k \in i..j : yielded[k].tag = "event"
  /\ \A k \in i..(j - 1) : Len(OpenFrom(a)[k]) > Len(s)

Closes(a, i, s, q) == \E j \in i..Count : Closing(a, i, j, s, q)

LEMMA ClosesNow ==
  ASSUME AllRead, NEW a, NEW i \in 1..Count, NEW s, NEW q, yielded[i].to = q,
         yielded[i].tag = "event", OpenFrom(a)[i] = ItemEnded(s)
  PROVE  Closes(a, i, s, q)
<1>1. i \in Nat /\ Count \in Nat /\ i \in i..Count
  BY ReadEntry
<1>2. i..(i - 1) = {} /\ \A k \in i..i : k = i
  BY <1>1
<1> QED
  BY <1>1, <1>2 DEF Closes, Closing

(* An item is followed by what ends the item it is in.                      *)
LEMMA ClosesAfter ==
  ASSUME AllRead, NEW a, NEW i \in 1..Count, NEW j \in i..Count, NEW s, NEW q,
         \A k \in i..j : yielded[k].tag = "event" /\ Len(OpenFrom(a)[k]) > Len(s),
         j # Count, Closes(a, j + 1, s, q)
  PROVE  Closes(a, i, s, q)
<1>1. i \in Nat /\ j \in Nat /\ Count \in Nat /\ i <= j
  BY ReadEntry
<1>2. PICK l \in (j + 1)..Count : Closing(a, j + 1, l, s, q)
  BY DEF Closes
<1>3. /\ l \in i..Count
      /\ \A k \in i..l : k \in i..j \/ k \in (j + 1)..l
      /\ \A k \in i..(l - 1) : k \in i..j \/ k \in (j + 1)..(l - 1)
  BY <1>1
<1>4. Closing(a, i, l, s, q)
  BY <1>2, <1>3 DEF Closing
<1> QED
  BY <1>3, <1>4 DEF Closes

(* What begins at an entry is read by the events from there on.             *)
Spelt(a, i, q) == Closes(a, i, OpenBefore(a, i), q)

Inside(h) == Grammar(mode)!Nested(input, h)

Spells(a, h) ==
  \A i \in a..Count : OpenBefore(a, i) \in Seq(Int) =>
    \A q \in Grammar(mode)!At(Inside(h), yielded[i].from) : Spelt(a, i, q)

Owed(f) == IF f.items = Indefinite THEN Indefinite ELSE f.items - f.done

Unfinished(f) == Paired(f) /\ (f.items # Indefinite => f.done < f.items)

LEMMA RemainingAtEnd ==
  ASSUME IsInput(input), Len(input) <= MaxLen, NEW h \in Nat, NEW f \in FrameRecord,
         Unfinished(f)
  PROVE  Remaining(mode, input, Inside(h), f, Len(input)) = {}
<1> DEFINE p == Len(input)
           g == [f EXCEPT !.from = p]
           R == Inside(h)
<1>0. p \in Nat /\ p \in Positions /\ p \in 0..MaxLen
  BY InputIsSeq, SkipAssumption DEF Positions
<1>1. /\ g \in FrameRecord /\ g.from = p /\ g.kind = f.kind /\ g.items = f.items
      /\ g.done = f.done /\ g.previous = f.previous
  BY <1>0 DEF FrameRecord
<1>2. R \in Rows /\ Grammar(mode)!At(R, p) = {}
  BY <1>0, NestedStep, NestedNone DEF Inside
<1>3. Grammar(mode)!Stop(input, p) = {}
  BY <1>0, StopIs
<1> HIDE DEF g, R, p
<1>4. Remaining(mode, input, R, f, p) = Remaining(mode, input, R, g, p)
  BY <1>1, RemainingSame
<1>5. Paired(g)
  BY <1>1 DEF Unfinished, Paired
<1>6. Remaining(mode, input, R, g, p)
        = UNION {Beyond(mode, input, R, g, e) : e \in Grammar(mode)!At(R, p)}
  <2>1. CASE g.items = Indefinite
    BY <1>0, <1>1, <1>2, <1>3, <2>1, RemainingOpen
  <2>2. CASE g.items # Indefinite
    BY <1>0, <1>1, <1>2, <1>5, <2>2, RemainingItem DEF Unfinished
  <2> QED
    BY <2>1, <2>2
<1> QED
  BY <1>2, <1>4, <1>6 DEF R, p

PartsClose(a, h, i) ==
  \A f \in FrameRecord : \A s \in Seq(Int) : \A q :
    /\ Unfinished(f) /\ OpenBefore(a, i) = Append(s, Owed(f))
    /\ q \in Remaining(mode, input, Inside(h), f, yielded[i].from)
    => Closes(a, i, s, q)

LEMMA AdvancedFrame ==
  ASSUME IsInput(input), NEW f \in FrameRecord, f.from \in Positions, NEW e \in Positions
  PROVE  Advanced(mode, input, f, e) \in FrameRecord
<1>1. SubSeq(input, f.from + 1, e) \in Seq(Bytes)
  BY KeyIs DEF Key
<1>2. f.done + 1 \in Nat
  BY FrameIs
<1> QED
  BY <1>1, <1>2 DEF Advanced, FrameRecord

LEMMA BreakCloses ==
  ASSUME AllRead, NEW a \in 1..Count, NEW i \in a..Count, NEW s \in Seq(Int), NEW q,
         OpenBefore(a, i) = Append(s, Indefinite),
         q \in Grammar(mode)!Stop(input, yielded[i].from)
  PROVE  Closes(a, i, s, q)
<1> DEFINE p == yielded[i].from
<1>1. /\ IsInput(input) /\ p \in Nat /\ p \in Positions /\ a \in Nat /\ Count \in Nat
      /\ i \in 1..Count /\ (~Refused(p) => yielded[i] = EventAt(p))
  <2>1. a \in Nat /\ Count \in Nat
    BY ReadEntry
  <2>2. i \in 1..Count
    BY <2>1
  <2> QED
    BY <2>1, <2>2, ReadEntry
<1> HIDE DEF p
<1>2. Byte(p) = Break /\ q = p + 1
  BY <1>1, StopIs DEF p
<1>3. yielded[i] = Event("break", 0, p, p + 1)
  BY <1>1, <1>2 DEF Refused, EventAt
<1>4. OpenFrom(a)[i] = ItemEnded(SubSeq(Append(s, Indefinite), 1, Len(Append(s, Indefinite)) - 1))
  <2>1. OpenFrom(a)[i] = AfterEvent(Append(s, Indefinite), yielded[i])
    BY <1>1, OpenIsNext
  <2> QED
    BY <1>3, <2>1, AfterBreak
<1>5. SubSeq(Append(s, Indefinite), 1, Len(Append(s, Indefinite)) - 1) = s
  BY DEF Indefinite
<1>6. yielded[i].to = q /\ yielded[i].tag = "event"
  BY <1>2, <1>3, EntryFrom
<1>7. OpenFrom(a)[i] = ItemEnded(s)
  BY <1>4, <1>5
<1> QED
  BY <1>1, <1>6, <1>7, ClosesNow

LEMMA OneLess ==
  ASSUME NEW n \in Nat, NEW d \in Nat, d < n, d + 1 # n
  PROVE  n - d # 1 /\ n - (d + 1) = (n - d) - 1 /\ n - d # Indefinite
BY DEF Indefinite

(* One part of a container, then the others.                                *)
LEMMA PartCloses ==
  ASSUME AllRead, NEW a \in 1..Count, NEW h \in Nat, Spells(a, h), NEW i \in a..Count,
         \A k \in (i + 1)..Count : PartsClose(a, h, k),
         NEW f \in FrameRecord, NEW s \in Seq(Int), NEW q, NEW p, p = yielded[i].from,
         Unfinished(f), OpenBefore(a, i) = Append(s, Owed(f)), f.from = p,
         NEW e \in Grammar(mode)!At(Inside(h), p),
         q \in Remaining(mode, input, Inside(h), Advanced(mode, input, f, e), e)
  PROVE  Closes(a, i, s, q)
<1> DEFINE R == Inside(h)
           A == Advanced(mode, input, f, e)
           m == Owed(f)
           O == OpenFrom(a)
<1>0. a \in Nat /\ Count \in Nat /\ i \in 1..Count /\ i \in Nat
  <2>1. a \in Nat /\ Count \in Nat
    BY ReadEntry
  <2> QED
    BY <2>1
<1>1. /\ IsInput(input) /\ Len(input) \in Nat /\ Len(input) <= MaxLen
      /\ p \in Nat /\ p \in Positions
  BY <1>0, ReadEntry
<1>2. R \in Rows /\ e \in Positions
  <2>1. R \in Rows
    BY <1>1, NestedStep DEF Inside
  <2>2. Grammar(mode)!At(R, p) \in SUBSET Positions
    BY <1>1, <2>1, AtRow
  <2> QED
    BY <2>1, <2>2
<1>3. /\ A \in FrameRecord /\ A.kind = f.kind /\ A.items = f.items /\ A.done = f.done + 1
  BY <1>1, <1>2, AdvancedFrame, AdvancedIs
<1>4. Paired(A)
  BY <1>3 DEF Unfinished, Paired
<1>5. m \in Int /\ f.done \in Nat /\ f.items \in Nat \cup {Indefinite}
  BY FrameIs DEF Owed, Indefinite
<1>6. Spelt(a, i, e)
  <2>1. OpenBefore(a, i) \in Seq(Int)
    BY <1>5, Pushed
  <2> QED
    BY <2>1 DEF Spells
<1>7. PICK j \in i..Count : Closing(a, i, j, Append(s, m), e)
  BY <1>6 DEF Spelt, Closes
<1>8. /\ \A k \in i..(j - 1) : Len(O[k]) > Len(s)
      /\ \A k \in i..j : yielded[k].tag = "event"
      /\ yielded[j].to = e /\ O[j] = ItemEnded(Append(s, m))
  <2>1. Len(s) \in Nat /\ Len(Append(s, m)) = Len(s) + 1
    BY <1>5, Pushed
  <2>2. \A k \in i..(j - 1) : Len(O[k]) > Len(s) + 1
    BY <1>7, <2>1 DEF Closing
  <2>3. ASSUME NEW k \in i..(j - 1) PROVE Len(O[k]) > Len(s)
    <3>1. Len(O[k]) > Len(s) + 1
      BY <2>2
    <3> HIDE DEF O
    <3> QED
      BY <2>1, <3>1
  <2> QED
    BY <1>7, <2>3 DEF Closing
<1> HIDE DEF A, R, O, m
<1>9. j \in 1..Count /\ j \in Nat
  BY <1>0
<1>10. CASE f.items # Indefinite /\ f.done + 1 = f.items
  <2>1. m = 1
    BY <1>5, <1>10 DEF m, Owed
  <2>2. q = e
    <3>1. A.items # Indefinite /\ A.done = A.items
      BY <1>3, <1>10
    <3>2. Remaining(mode, input, R, A, e) = {e}
      BY <1>1, <1>2, <1>3, <1>4, <3>1, RemainingNone
    <3> QED
      BY <3>2 DEF A, R
  <2>3. O[j] = ItemEnded(s)
    BY <1>5, <1>8, <2>1, EndedIs
  <2> QED
    BY <1>8, <2>2, <2>3 DEF Closes, Closing, O
<1>11. CASE ~(f.items # Indefinite /\ f.done + 1 = f.items)
  <2>1. Unfinished(A)
    BY <1>3, <1>4, <1>5, <1>11 DEF Unfinished
  <2>2. m # 1 /\ Owed(A) = IF m = Indefinite THEN m ELSE m - 1
    <3>1. CASE f.items = Indefinite
      BY <1>3, <3>1 DEF m, Owed, Indefinite
    <3>2. CASE f.items # Indefinite
      <4>1. f.done < f.items
        BY <3>2 DEF Unfinished
      <4>2. PICK n \in Nat, d \in Nat : n = f.items /\ d = f.done
        BY <1>5, <3>2
      <4>3. m = n - d /\ Owed(A) = n - (d + 1)
        BY <1>3, <3>2, <4>2 DEF m, Owed
      <4>4. d < n /\ d + 1 # n
        BY <1>11, <3>2, <4>1, <4>2
      <4>5. n - d # 1 /\ n - (d + 1) = (n - d) - 1 /\ n - d # Indefinite
        BY <4>4, OneLess
      <4>6. m # 1 /\ m # Indefinite /\ Owed(A) = m - 1
        BY <4>3, <4>5
      <4> QED
        BY <4>6
    <3> QED
      BY <3>1, <3>2
  <2>3. O[j] = Append(s, Owed(A)) /\ Owed(A) \in Int
    BY <1>5, <1>8, <2>2, EndedIs DEF Indefinite
  <2>4. e # Len(input)
    BY <1>1, <1>3, <2>1, RemainingAtEnd DEF A
  <2>5. j # Count /\ j + 1 \in 1..Count /\ yielded[j + 1].from = e
    BY <1>8, <1>9, <2>4, ReadEntry
  <2>6. OpenBefore(a, j + 1) = Append(s, Owed(A))
    <3>1. j + 1 # a /\ (j + 1) - 1 = j
      BY <1>0
    <3> QED
      BY <2>3, <3>1 DEF OpenBefore, O
  <2>7. Closes(a, j + 1, s, q)
    <3>1. PartsClose(a, h, j + 1)
      <4>1. j + 1 \in (i + 1)..Count
        BY <1>0, <2>5
      <4> QED
        BY <4>1
    <3> QED
      BY <1>3, <2>1, <2>5, <2>6, <3>1 DEF PartsClose, A
  <2>8. \A k \in i..j : yielded[k].tag = "event" /\ Len(O[k]) > Len(s)
    <3>1. Len(O[j]) > Len(s)
      <4>1. Len(s) \in Nat /\ Len(Append(s, Owed(A))) = Len(s) + 1
        BY <2>3, Pushed
      <4> QED
        BY <2>3, <4>1
    <3>2. \A k \in i..j : k = j \/ k \in i..(j - 1)
      BY <1>0
    <3> QED
      BY <1>8, <3>1, <3>2
  <2> QED
    BY <1>0, <2>5, <2>7, <2>8, ClosesAfter DEF O
<1> QED
  BY <1>10, <1>11

LEMMA PartsStep ==
  ASSUME AllRead, NEW a \in 1..Count, NEW h \in Nat, Spells(a, h), NEW i \in a..Count,
         \A k \in (i + 1)..Count : PartsClose(a, h, k)
  PROVE  PartsClose(a, h, i)
<1> DEFINE p == yielded[i].from
           R == Inside(h)
<1> SUFFICES ASSUME NEW f \in FrameRecord, NEW s \in Seq(Int), NEW q, Unfinished(f),
                    OpenBefore(a, i) = Append(s, Owed(f)),
                    q \in Remaining(mode, input, R, f, p)
             PROVE  Closes(a, i, s, q)
  BY DEF PartsClose
<1>0. a \in Nat /\ Count \in Nat /\ i \in 1..Count
  <2>1. a \in Nat /\ Count \in Nat
    BY ReadEntry
  <2> QED
    BY <2>1
<1>1. /\ IsInput(input) /\ Len(input) \in Nat /\ Len(input) <= MaxLen
      /\ p \in Nat /\ p \in Positions /\ p < Len(input)
  BY <1>0, ReadEntry
<1>2. R \in Rows
  BY <1>1, NestedStep DEF Inside
<1> DEFINE g == [f EXCEPT !.from = p]
<1>3. /\ g \in FrameRecord /\ g.from = p /\ g.kind = f.kind /\ g.items = f.items
      /\ g.done = f.done /\ g.previous = f.previous
  <2>1. p \in 0..MaxLen
    BY <1>1, SkipAssumption
  <2> QED
    BY <2>1 DEF FrameRecord
<1> HIDE DEF g, R, p
<1>4. q \in Remaining(mode, input, R, g, p)
  BY <1>3, RemainingSame
<1>5. Unfinished(g) /\ Owed(g) = Owed(f)
  BY <1>3 DEF Unfinished, Paired, Owed
<1>6. CASE f.items = Indefinite /\ Byte(p) = Break
  <2>1. Grammar(mode)!At(R, p) = {}
    BY <1>1, <1>6, NestedNone DEF R, Inside
  <2>2. q \in Grammar(mode)!Stop(input, p)
    <3>1. g.done \in Nat /\ MostItems(g) \in Nat
      BY <1>3, FrameIs
    <3>2. CASE g.done > MostItems(g)
      BY <1>3, <1>4, <1>6, <3>2, RemainingOver
    <3>3. CASE g.done <= MostItems(g)
      BY <1>1, <1>2, <1>3, <1>4, <1>6, <2>1, <3>3, RemainingBreak
    <3> QED
      BY <3>1, <3>2, <3>3
  <2>3. OpenBefore(a, i) = Append(s, Indefinite)
    BY <1>6 DEF Owed
  <2> QED
    BY <2>2, <2>3, BreakCloses DEF p
<1>7. CASE ~(f.items = Indefinite /\ Byte(p) = Break)
  <2>1. Remaining(mode, input, R, g, p)
          = UNION {Beyond(mode, input, R, g, e) : e \in Grammar(mode)!At(R, p)}
    <3>1. CASE f.items = Indefinite
      <4>1. Grammar(mode)!Stop(input, p) = {}
        BY <1>1, <1>7, <3>1, StopIs
      <4> QED
        BY <1>1, <1>2, <1>3, <3>1, <4>1, RemainingOpen
    <3>2. CASE f.items # Indefinite
      BY <1>1, <1>2, <1>3, <1>5, <3>2, RemainingItem DEF Unfinished
    <3> QED
      BY <3>1, <3>2
  <2>2. PICK e \in Grammar(mode)!At(R, p) : q \in Beyond(mode, input, R, g, e)
    BY <1>4, <2>1
  <2>3. q \in Remaining(mode, input, R, Advanced(mode, input, g, e), e)
    BY <2>2 DEF Beyond
  <2>4. OpenBefore(a, i) = Append(s, Owed(g))
    BY <1>5
  <2> QED
    BY <1>3, <1>5, <2>3, <2>4, PartCloses DEF p, R
<1> QED
  BY <1>6, <1>7

(* Whatever holds of an entry when it holds of the later ones.              *)
LEMMA Backwards ==
  ASSUME NEW n \in Nat, NEW a \in Nat, NEW T,
         \A i \in a..n : (\A k \in (i + 1)..n : k \in T) => i \in T
  PROVE  \A i \in a..n : i \in T
<1> DEFINE bad == {m \in Nat : n - m \in a..n /\ n - m \notin T}
<1>1. ASSUME bad # {} PROVE FALSE
  <2>1. bad \subseteq Nat
    OBVIOUS
  <2> HIDE DEF bad
  <2>2. PICK m \in bad : \A k \in bad : m <= k
    BY <1>1, <2>1, Least
  <2>3. m \in Nat /\ n - m \in a..n /\ n - m \notin T
    BY <2>2 DEF bad
  <2>4. ASSUME NEW k \in (n - m + 1)..n PROVE k \in T
    <3>1. /\ n - k \in Nat /\ n - (n - k) = k /\ k \in a..n /\ ~(m <= n - k)
      BY <2>3
    <3>2. n - k \notin bad
      BY <2>2, <3>1
    <3> QED
      BY <3>1, <3>2 DEF bad
  <2> QED
    BY <2>3, <2>4
<1>2. ASSUME NEW i \in a..n, i \notin T PROVE FALSE
  <2>1. n - i \in Nat /\ n - (n - i) = i
    OBVIOUS
  <2>2. n - i \in bad
    BY <1>2, <2>1
  <2> QED
    BY <1>1, <2>2
<1> QED
  BY <1>2

LEMMA PartsCloseAll ==
  ASSUME AllRead, NEW a \in 1..Count, NEW h \in Nat, Spells(a, h)
  PROVE  \A i \in a..Count : PartsClose(a, h, i)
<1> DEFINE T == {i \in a..Count : PartsClose(a, h, i)}
<1>1. a \in Nat /\ Count \in Nat
  BY ReadEntry
<1>2. ASSUME NEW i \in a..Count, \A k \in (i + 1)..Count : k \in T
      PROVE  i \in T
  <2>1. \A k \in (i + 1)..Count : PartsClose(a, h, k)
    BY <1>2
  <2> QED
    BY <2>1, PartsStep
<1> HIDE DEF T
<1>3. \A i \in a..Count : i \in T
  BY <1>1, <1>2, Backwards
<1> QED
  BY <1>3 DEF T

-----------------------------------------------------------------------------
(* The chunks of a string.                                                  *)
ChunksClose(a, major, i) ==
  \A total \in Nat : \A s \in Seq(Int) : \A q :
    /\ OpenBefore(a, i) = Append(s, Indefinite)
    /\ q \in Ending(mode, input, major, total, yielded[i].from)
    => Closes(a, i, s, q)

LEMMA ChunksStepClose ==
  ASSUME AllRead, NEW a \in 1..Count, NEW major \in {2, 3}, NEW i \in a..Count,
         \A k \in (i + 1)..Count : ChunksClose(a, major, k)
  PROVE  ChunksClose(a, major, i)
<1> DEFINE p == yielded[i].from
           n == Argument(p)
           O == OpenFrom(a)
<1> SUFFICES ASSUME NEW total \in Nat, NEW s \in Seq(Int), NEW q,
                    OpenBefore(a, i) = Append(s, Indefinite),
                    q \in Ending(mode, input, major, total, p)
             PROVE  Closes(a, i, s, q)
  BY DEF ChunksClose
<1>0. a \in Nat /\ Count \in Nat /\ i \in 1..Count /\ i \in Nat
  <2>1. a \in Nat /\ Count \in Nat
    BY ReadEntry
  <2> QED
    BY <2>1
<1>1. /\ IsInput(input) /\ Len(input) \in Nat /\ p \in Nat /\ p \in Positions
      /\ p < Len(input) /\ (~Refused(p) => yielded[i] = EventAt(p))
  BY <1>0, ReadEntry
<1>5. q \in Ending(mode, input, major, total, p)
  OBVIOUS
<1> HIDE DEF p
<1>2. \/ q \in Grammar(mode)!Stop(input, p)
      \/ \E r \in Grammar(mode)!Run(input, major, p) :
           q \in Ending(mode, input, major, total + Grammar(mode)!N(input, p), r)
  <2>1. \A y : y \in Ending(mode, input, major, total, p) <=>
           \/ y \in Grammar(mode)!Stop(input, p) /\ (mode = "value" => total <= MaxCollection)
           \/ \E r \in Grammar(mode)!Run(input, major, p) :
                y \in Ending(mode, input, major, total + Grammar(mode)!N(input, p), r)
    <3>1. IsInput(input) /\ p \in Positions
      BY <1>1
    <3> QED
      BY <3>1, EndingStep, ZenonT(30)
  <2> QED
    BY <1>5, <2>1
<1>3. CASE q \in Grammar(mode)!Stop(input, p)
  BY <1>3, BreakCloses DEF p
<1>4. CASE \E r \in Grammar(mode)!Run(input, major, p) :
             q \in Ending(mode, input, major, total + Grammar(mode)!N(input, p), r)
  <2>1. PICK r \in Grammar(mode)!Run(input, major, p) :
          q \in Ending(mode, input, major, total + Grammar(mode)!N(input, p), r)
    BY <1>4
  <2>2. RunRead(major, p) /\ r = HeadEnd(p) + n
    BY <1>1, <2>1, RunIs
  <2>3. HeadError(p) = NoError /\ Major(p) = major /\ n # Indefinite
    BY <2>2 DEF RunRead
  <2>4. total + Grammar(mode)!N(input, p) \in Nat /\ r \in Positions
    <3>1. Grammar(mode)!N(input, p) \in Nat /\ r \in Positions
      BY <1>1, <2>1, RunForward
    <3> QED
      BY <3>1
  <2>5. Byte(p) # Break
    BY <2>3 DEF Major, Break
  <2>6. ~Refused(p) /\ EventAt(p) = Event("leaf", 0, p, r)
    <3>1. LongString(p)
      BY <2>3 DEF LongString
    <3>2. ~(HeadEnd(p) + n > Len(input))
      BY <1>1, <2>2, <2>4 DEF Positions
    <3>3. ~Refused(p)
      BY <2>2, <2>3, <2>5, <3>2 DEF Refused, RunRead
    <3> QED
      BY <2>2, <2>5, <3>1, <3>3 DEF EventAt
  <2>7. yielded[i] = Event("leaf", 0, p, r)
    BY <1>1, <2>6
  <2>8. O[i] = Append(s, Indefinite)
    <3>1. O[i] = AfterEvent(Append(s, Indefinite), yielded[i])
      BY <1>0, OpenIsNext
    <3>2. O[i] = ItemEnded(Append(s, Indefinite))
      BY <2>7, <3>1, AfterLeaf
    <3>3. Indefinite \in Int /\ Indefinite # 1
      BY DEF Indefinite
    <3> QED
      BY <3>2, <3>3, EndedIs
  <2>9. yielded[i].to = r /\ yielded[i].tag = "event"
    <3>1. Event("leaf", 0, p, r).to = r /\ Event("leaf", 0, p, r).tag = "event"
      BY DEF Event
    <3> QED
      BY <2>7, <3>1
  <2>10. r # Len(input)
    <3>1. ASSUME r = Len(input)
          PROVE  FALSE
      <4>1. ~RunRead(major, r)
        <5>1. HeadError(r) # NoError
          BY <1>1, <3>1 DEF HeadError, Error, NoError
        <5> QED
          BY <5>1 DEF RunRead
      <4> QED
        BY <1>1, <2>1, <2>4, <3>1, <4>1, EndingCut
    <3> QED
      BY <3>1
  <2>11. i # Count /\ i + 1 \in 1..Count /\ yielded[i + 1].from = r
    BY <1>0, <2>9, <2>10, ReadEntry
  <2>12. Closes(a, i + 1, s, q)
    <3>1. i + 1 # a /\ (i + 1) - 1 = i
      BY <1>0
    <3>2. OpenBefore(a, i + 1) = Append(s, Indefinite)
      BY <2>8, <3>1 DEF OpenBefore
    <3>3. ChunksClose(a, major, i + 1)
      <4>1. i + 1 \in (i + 1)..Count
        BY <1>0, <2>11
      <4> QED
        BY <4>1
    <3> QED
      BY <2>1, <2>4, <2>11, <3>2, <3>3 DEF ChunksClose
  <2>13. \A k \in i..i : yielded[k].tag = "event" /\ Len(O[k]) > Len(s)
    <3>1. Len(s) \in Nat /\ Len(Append(s, Indefinite)) = Len(s) + 1
      BY Pushed DEF Indefinite
    <3>2. \A k \in i..i : k = i
      BY <1>0
    <3> QED
      BY <2>8, <2>9, <3>1, <3>2
  <2>14. i \in i..Count
    BY <1>0
  <2> QED
    BY <1>0, <2>11, <2>12, <2>13, <2>14, ClosesAfter
<1> QED
  BY <1>2, <1>3, <1>4

LEMMA ChunksCloseAll ==
  ASSUME AllRead, NEW a \in 1..Count, NEW major \in {2, 3}
  PROVE  \A i \in a..Count : ChunksClose(a, major, i)
<1> DEFINE T == {i \in a..Count : ChunksClose(a, major, i)}
<1>1. a \in Nat /\ Count \in Nat
  BY ReadEntry
<1>2. ASSUME NEW i \in a..Count, \A k \in (i + 1)..Count : k \in T
      PROVE  i \in T
  <2>1. \A k \in (i + 1)..Count : ChunksClose(a, major, k)
    BY <1>2
  <2> QED
    BY <2>1, ChunksStepClose
<1> HIDE DEF T
<1>3. \A i \in a..Count : i \in T
  BY <1>1, <1>2, Backwards
<1> QED
  BY <1>3 DEF T

-----------------------------------------------------------------------------
(* An event that announces items leaves them open for the next one.         *)
LEMMA EntryOpens ==
  ASSUME AllRead, NEW a \in 1..Count, NEW i \in a..Count, NEW s \in Seq(Int),
         OpenBefore(a, i) = s, NEW n \in Int, n # 0, NEW kind \in {"array", "map", "tag", "string"},
         NEW items \in Int, n = IF kind = "map" /\ items # Indefinite THEN 2 * items ELSE items,
         NEW p, NEW e, yielded[i] = Event(kind, items, p, e), e # Len(input)
  PROVE  /\ i + 1 \in (i + 1)..Count /\ i + 1 \in a..Count /\ yielded[i + 1].from = e
         /\ OpenBefore(a, i + 1) = Append(s, n)
         /\ \A q : Closes(a, i + 1, s, q) => Closes(a, i, s, q)
<1> DEFINE O == OpenFrom(a)
<1>0. a \in Nat /\ Count \in Nat /\ i \in 1..Count /\ i \in Nat /\ i \in i..Count
  <2>1. a \in Nat /\ Count \in Nat
    BY ReadEntry
  <2> QED
    BY <2>1
<1>1. yielded[i].to = e /\ yielded[i].tag = "event"
  BY EntryFrom DEF Event
<1>2. O[i] = Append(s, n)
  <2>1. O[i] = AfterEvent(s, yielded[i])
    BY <1>0, OpenIsNext
  <2>2. AfterEvent(s, Event(kind, items, p, e)) = IF n = 0 THEN ItemEnded(s) ELSE Append(s, n)
    BY EntryFrom DEF AfterEvent, Announced, Event
  <2> QED
    BY <2>1, <2>2
<1>3. i # Count /\ i + 1 \in 1..Count /\ yielded[i + 1].from = e
  BY <1>0, <1>1, ReadEntry
<1>4. i + 1 \in (i + 1)..Count /\ i + 1 \in a..Count
  BY <1>0, <1>3
<1>5. OpenBefore(a, i + 1) = Append(s, n)
  <2>1. i + 1 # a /\ (i + 1) - 1 = i
    BY <1>0
  <2> QED
    BY <1>2, <2>1 DEF OpenBefore
<1>6. \A k \in i..i : yielded[k].tag = "event" /\ Len(O[k]) > Len(s)
  <2>1. Len(s) \in Nat /\ Len(Append(s, n)) = Len(s) + 1
    BY Pushed
  <2>2. \A k \in i..i : k = i
    BY <1>0
  <2> HIDE DEF O
  <2> QED
    BY <1>1, <1>2, <2>1, <2>2
<1>7. ASSUME NEW q, Closes(a, i + 1, s, q) PROVE Closes(a, i, s, q)
  BY <1>0, <1>3, <1>6, <1>7, ClosesAfter
<1> QED
  BY <1>3, <1>4, <1>5, <1>7

(* An array, a map or a tag.                                                *)
LEMMA ContainerSpelt ==
  ASSUME AllRead, NEW a \in 1..Count, NEW h \in Nat, Spells(a, h), NEW i \in a..Count,
         OpenBefore(a, i) \in Seq(Int), NEW kind \in {"array", "map", "tag"},
         NEW items \in Int, NEW p, NEW e \in Positions, yielded[i] = Event(kind, items, p, e),
         NEW f \in FrameRecord, f.done = 0, Paired(f),
         f.items = IF kind = "map" /\ items # Indefinite THEN 2 * items ELSE items,
         NEW q \in Remaining(mode, input, Inside(h), f, e)
  PROVE  Spelt(a, i, q)
<1> DEFINE s == OpenBefore(a, i)
           n == f.items
<1>0. /\ a \in Nat /\ Count \in Nat /\ i \in 1..Count
      /\ IsInput(input) /\ Len(input) \in Nat /\ Len(input) <= MaxLen
  <2>1. a \in Nat /\ Count \in Nat
    BY ReadEntry
  <2>2. i \in 1..Count
    BY <2>1
  <2> QED
    BY <2>1, <2>2, ReadEntry
<1>1. n \in Nat \cup {Indefinite} /\ n \in Int /\ 0 \in Nat
  BY FrameIs DEF Indefinite
<1>2. CASE n = 0
  <2>1. f.items # Indefinite /\ f.done = f.items
    BY <1>2 DEF Indefinite
  <2>2. Inside(h) \in Rows
    BY <1>0, NestedStep DEF Inside
  <2>3. q = e
    <3>1. Remaining(mode, input, Inside(h), f, e) = {e}
      BY <1>0, <2>1, <2>2, RemainingNone
    <3> QED
      BY <3>1
  <2>4. OpenFrom(a)[i] = ItemEnded(s)
    <3>1. OpenFrom(a)[i] = AfterEvent(s, yielded[i])
      BY <1>0, OpenIsNext
    <3>2. AfterEvent(s, Event(kind, items, p, e)) = ItemEnded(s)
      BY <1>2, AfterOpening
    <3> QED
      BY <3>1, <3>2
  <2>5. yielded[i].to = e /\ yielded[i].tag = "event"
    BY DEF Event
  <2> QED
    BY <1>0, <2>3, <2>4, <2>5, ClosesNow DEF Spelt
<1>3. CASE n # 0
  <2>1. Unfinished(f) /\ Owed(f) = n
    BY <1>1, <1>3 DEF Unfinished, Owed, Indefinite
  <2>2. e # Len(input)
    BY <1>0, <2>1, RemainingAtEnd
  <2> HIDE DEF n
  <2>3. n = IF kind = "map" /\ items # Indefinite THEN 2 * items ELSE items
    BY DEF n
  <2>4. /\ i + 1 \in a..Count /\ yielded[i + 1].from = e
        /\ OpenBefore(a, i + 1) = Append(s, n)
        /\ Closes(a, i + 1, s, q) => Closes(a, i, s, q)
    BY <1>1, <1>3, <2>2, <2>3, EntryOpens
  <2>5. PartsClose(a, h, i + 1)
    BY <2>4, PartsCloseAll
  <2>6. Closes(a, i + 1, s, q)
    BY <2>1, <2>4, <2>5 DEF PartsClose
  <2> QED
    BY <2>4, <2>6 DEF Spelt
<1> QED
  BY <1>2, <1>3

(* One event that is an item.                                               *)
LEMMA LeafSpelt ==
  ASSUME AllRead, NEW a \in 1..Count, NEW i \in a..Count, NEW p, NEW q,
         yielded[i] = Event("leaf", 0, p, q)
  PROVE  Spelt(a, i, q)
<1>1. a \in Nat /\ Count \in Nat
  BY ReadEntry
<1>2. i \in 1..Count
  BY <1>1
<1>3. yielded[i].to = q /\ yielded[i].tag = "event"
  BY DEF Event
<1>4. OpenFrom(a)[i] = ItemEnded(OpenBefore(a, i))
  <2>1. OpenFrom(a)[i] = AfterEvent(OpenBefore(a, i), yielded[i])
    BY <1>1, OpenIsNext
  <2> QED
    BY <2>1, AfterLeaf
<1> QED
  BY <1>2, <1>3, <1>4, ClosesNow DEF Spelt

LEMMA FreshFrame ==
  ASSUME NEW kind \in {"array", "map", "tag"}, NEW p \in 0..MaxLen,
         NEW n \in Nat \cup {Indefinite}
  PROVE  Frame(kind, p, n) \in FrameRecord /\ Frame(kind, p, n).done = 0
         /\ Frame(kind, p, n).items = n /\ Frame(kind, p, n).kind = kind
<1>1. <<>> \in Seq(Bytes) /\ 0 \in Nat
  OBVIOUS
<1> QED
  BY <1>1 DEF Frame, FrameRecord

LEMMA ItemSpelt ==
  ASSUME AllRead, NEW a \in 1..Count, NEW h \in Nat, Spells(a, h), NEW i \in a..Count,
         OpenBefore(a, i) \in Seq(Int), NEW q \in Around(Inside(h), yielded[i].from)
  PROVE  Spelt(a, i, q)
<1> DEFINE p == yielded[i].from
           R == Inside(h)
           s == OpenBefore(a, i)
           major == Major(p)
           n == Argument(p)
           to == HeadEnd(p)
<1>0. a \in Nat /\ Count \in Nat /\ i \in 1..Count
  <2>1. a \in Nat /\ Count \in Nat
    BY ReadEntry
  <2> QED
    BY <2>1
<1>1. /\ IsInput(input) /\ Len(input) \in Nat /\ Len(input) <= MaxLen /\ MaxLen \in Nat
      /\ p \in Nat /\ p < Len(input) /\ p \in Positions
      /\ ~Refused(p) => yielded[i] = EventAt(p)
  BY <1>0, ReadEntry, SkipAssumption
<1>2. R \in Rows /\ q \in Around(R, p)
  BY <1>1, NestedStep DEF Inside
<1> HIDE DEF p, R
<1>3. HeadError(p) = NoError
  BY <1>1, <1>2, AroundNone
<1>4. /\ to \in Nat /\ p < to /\ to <= Len(input) /\ to \in Positions
      /\ Info(p) = 31 <=> n = Indefinite
      /\ n # Indefinite => n \in Nat
  BY <1>1, <1>3, OpenIs DEF Positions
<1>5. /\ major \in 0..7 /\ Info(p) \in 0..31 /\ Byte(p) = 32 * major + Info(p)
  BY <1>1, InfoRange
<1>6. Byte(p) # Break
  <2>1. Around(R, p) = {} \/ ~(major = 7 /\ Info(p) = 31)
    BY <1>1, <1>3, AroundSimple
  <2>2. 32 * major + Info(p) = 255 => major = 7 /\ Info(p) = 31
    <3>1. PICK m \in 0..7, j \in 0..31 : m = major /\ j = Info(p)
      BY <1>5
    <3>2. 32 * m + j = 255 => m = 7 /\ j = 31
      OBVIOUS
    <3> QED
      BY <3>1, <3>2
  <2> QED
    BY <1>2, <1>5, <2>1, <2>2 DEF Break
<1>7. p \in 0..MaxLen
  BY <1>1
<1> HIDE DEF major, n, to
<1>8. CASE major \in {0, 1}
  <2>1. q = to
    BY <1>1, <1>2, <1>3, <1>8, AroundInteger DEF major, to
  <2>2. ~LongString(p) /\ ~Refused(p)
    BY <1>3, <1>8 DEF Refused, LongString, major
  <2>3. EventAt(p) = Event("leaf", 0, p, to)
    BY <1>6, <1>8, <2>2 DEF EventAt, major, to
  <2> QED
    BY <1>1, <2>1, <2>2, <2>3, LeafSpelt
<1>9. CASE major = 7
  <2>1. /\ q = to /\ FloatAccepted(p) /\ ~(Info(p) = 24 /\ n < 32)
    BY <1>1, <1>2, <1>3, <1>9, AroundSimple DEF major, to, n
  <2>2. ~LongString(p) /\ ~Refused(p)
    BY <1>3, <1>9, <2>1 DEF Refused, LongString, major, n
  <2>3. EventAt(p) = Event("leaf", 0, p, to)
    BY <1>6, <1>9, <2>2 DEF EventAt, major, to
  <2> QED
    BY <1>1, <2>1, <2>2, <2>3, LeafSpelt
<1>10. CASE major \in {2, 3} /\ n # Indefinite
  <2>1. RunRead(major, p) /\ q = to + n
    BY <1>1, <1>2, <1>3, <1>10, AroundString DEF major, to, n
  <2>2. LongString(p)
    BY <1>10 DEF LongString, major, n
  <2>3. ~(to + n > Len(input)) /\ (major = 3 => TextAccepted(to, to + n))
    BY <1>1, <1>4, <1>10, <2>1 DEF RunRead, to, n
  <2>4. ~Refused(p)
    BY <1>3, <1>10, <2>3 DEF Refused, major, to, n
  <2>5. EventAt(p) = Event("leaf", 0, p, q)
    BY <1>6, <2>1, <2>2 DEF EventAt, to, n
  <2> QED
    BY <1>1, <2>4, <2>5, LeafSpelt
<1>11. CASE major \in {2, 3} /\ n = Indefinite
  <2>1. q \in Ending(mode, input, major, 0, to)
    BY <1>1, <1>2, <1>3, <1>11, AroundChunks DEF major, to, n
  <2>2. ~LongString(p) /\ ~Refused(p)
    BY <1>3, <1>11 DEF Refused, LongString, major, n
  <2>3. EventAt(p) = Event("string", Indefinite, p, to)
    BY <1>6, <1>11, <2>2 DEF EventAt, major, to
  <2>4. to # Len(input)
    <3>1. ASSUME to = Len(input) PROVE FALSE
      <4>1. HeadError(to) # NoError
        BY <1>1, <3>1 DEF HeadError, Error, NoError
      <4>2. ~RunRead(major, to)
        BY <4>1 DEF RunRead
      <4>3. Ending(mode, input, major, 0, to) = {}
        BY <1>1, <1>4, <3>1, <4>2, EndingCut
      <4> QED
        BY <2>1, <4>3
    <3> QED
      BY <3>1
  <2>5. Indefinite \in Int /\ Indefinite # 0
    BY DEF Indefinite
  <2>6. yielded[i] = Event("string", Indefinite, p, to)
    BY <1>1, <2>2, <2>3
  <2>7. /\ i + 1 \in a..Count /\ yielded[i + 1].from = to
        /\ OpenBefore(a, i + 1) = Append(s, Indefinite)
        /\ Closes(a, i + 1, s, q) => Closes(a, i, s, q)
    BY <2>4, <2>5, <2>6, EntryOpens
  <2>8. ChunksClose(a, major, i + 1)
    BY <1>11, <2>7, ChunksCloseAll
  <2>9. Closes(a, i + 1, s, q)
    BY <2>1, <2>7, <2>8 DEF ChunksClose
  <2> QED
    BY <2>7, <2>9 DEF Spelt
<1>12. CASE major = 6
  <2>1. ~LongString(p) /\ ~(Info(p) = 31)
    BY <1>1, <1>2, <1>3, <1>12, AroundTag DEF LongString, major
  <2>2. ~Refused(p)
    BY <1>3, <1>12, <2>1 DEF Refused, major
  <2>3. EventAt(p) = Event("tag", 1, p, to)
    BY <1>6, <1>12, <2>1 DEF EventAt, major, to
  <2> DEFINE f == Frame("tag", p, 1)
  <2>4. q \in Remaining(mode, input, R, f, to)
    BY <1>1, <1>2, <1>3, <1>12, <2>1, OpenTag DEF major, to
  <2>5. f \in FrameRecord /\ f.done = 0 /\ f.items = 1 /\ f.kind = "tag"
    BY <1>7, FreshFrame
  <2>6. Paired(f)
    BY <2>5 DEF Paired
  <2> HIDE DEF f
  <2>7. yielded[i] = Event("tag", 1, p, to)
    BY <1>1, <2>2, <2>3
  <2> QED
    BY <1>4, <2>4, <2>5, <2>6, <2>7, ContainerSpelt DEF R
<1>13. CASE major \in {4, 5}
  <2> DEFINE kind == KindOf(p)
             items == IF n = Indefinite THEN n ELSE n * PerEntry(kind)
             f == Frame(kind, p, items)
  <2>1. /\ kind \in {"array", "map"} /\ (kind = "map" <=> major = 5)
        /\ PerEntry(kind) = IF major = 5 THEN 2 ELSE 1
    BY <1>13 DEF KindOf, PerEntry, major
  <2>2. ~LongString(p) /\ ~Refused(p)
    BY <1>3, <1>13 DEF Refused, LongString, major
  <2>3. EventAt(p) = Event(kind, n, p, to)
    BY <1>6, <1>13, <2>2 DEF EventAt, major, to, n, KindOf
  <2>4. n \in Int
    BY <1>4 DEF Indefinite
  <2>5. /\ items \in Nat \cup {Indefinite}
        /\ items = IF kind = "map" /\ n # Indefinite THEN 2 * n ELSE n
        /\ (kind = "map" /\ items # Indefinite => items % 2 = 0)
    <3>1. CASE n = Indefinite
      BY <3>1
    <3>2. CASE n # Indefinite /\ major = 5
      <4>1. items = 2 * n /\ n \in Nat
        BY <1>4, <2>1, <3>2
      <4>2. (2 * n) % 2 = 0 /\ 2 * n \in Nat
        BY <4>1
      <4> QED
        BY <2>1, <3>2, <4>1, <4>2
    <3>3. CASE n # Indefinite /\ major # 5
      BY <1>4, <2>1, <3>3
    <3> QED
      BY <3>1, <3>2, <3>3
  <2>6. q \in Remaining(mode, input, R, f, to)
    <3>1. CASE n = Indefinite
      BY <1>1, <1>2, <1>3, <1>13, <3>1, OpenIndefinite DEF major, to, n
    <3>2. CASE n # Indefinite
      <4>1. ~(n > MaxCollection)
        BY <1>1, <1>2, <1>3, <1>13, OpenLong DEF major, n
      <4>2. f = Frame(KindOf(p), p, n * PerEntry(KindOf(p)))
        BY <3>2
      <4> QED
        BY <1>1, <1>2, <1>3, <1>13, <3>2, <4>1, <4>2, OpenCounted DEF major, to, n
    <3> QED
      BY <3>1, <3>2
  <2> HIDE DEF kind, items
  <2>7. f \in FrameRecord /\ f.done = 0 /\ f.items = items /\ f.kind = kind
    BY <1>7, <2>1, <2>5, FreshFrame
  <2> HIDE DEF f
  <2>8. Paired(f)
    BY <2>5, <2>7 DEF Paired
  <2>9. yielded[i] = Event(kind, n, p, to)
    BY <1>1, <2>2, <2>3
  <2> QED
    BY <1>4, <2>1, <2>4, <2>5, <2>6, <2>7, <2>8, <2>9, ContainerSpelt DEF R
<1> QED
  BY <1>5, <1>8, <1>9, <1>10, <1>11, <1>12, <1>13

(* However deep the items may nest.                                         *)
LEMMA SpellsAll ==
  ASSUME AllRead, NEW a \in 1..Count
  PROVE  \A h \in Nat : Spells(a, h)
<1> DEFINE bad == {h \in Nat : ~Spells(a, h)}
<1>1. a \in Nat /\ Count \in Nat
  BY ReadEntry
<1>2. ASSUME NEW i \in a..Count
      PROVE  i \in 1..Count /\ IsInput(input) /\ yielded[i].from \in Positions
  <2>1. i \in 1..Count
    BY <1>1
  <2> QED
    BY <2>1, ReadEntry
<1>3. ASSUME bad # {} PROVE FALSE
  <2>1. bad \subseteq Nat
    OBVIOUS
  <2> HIDE DEF bad
  <2>2. PICK h \in bad : \A k \in bad : h <= k
    BY <1>3, <2>1, Least
  <2>3. h \in Nat /\ ~Spells(a, h)
    BY DEF bad
  <2>4. PICK i \in a..Count : OpenBefore(a, i) \in Seq(Int) /\
          \E q \in Grammar(mode)!At(Inside(h), yielded[i].from) : ~Spelt(a, i, q)
    BY <2>3 DEF Spells
  <2>5. PICK q \in Grammar(mode)!At(Inside(h), yielded[i].from) : ~Spelt(a, i, q)
    BY <2>4
  <2>6. CASE h = 0
    <3>1. Grammar(mode)!At(Inside(0), yielded[i].from) = {}
      BY <1>2, NestedAt DEF Inside
    <3> QED
      BY <2>5, <2>6, <3>1
  <2>7. CASE h # 0
    <3>1. PICK m \in Nat : h = m + 1
      <4>1. h - 1 \in Nat /\ h = (h - 1) + 1
        BY <2>3, <2>7
      <4> QED
        BY <4>1
    <3>2. Spells(a, m)
      <4>1. ~(h <= m)
        BY <2>3, <3>1
      <4> QED
        BY <2>2, <4>1 DEF bad
    <3>3. Grammar(mode)!At(Inside(m + 1), yielded[i].from) = Around(Inside(m), yielded[i].from)
      BY <1>2, NestedAt DEF Inside
    <3>4. q \in Around(Inside(m), yielded[i].from)
      BY <2>5, <3>1, <3>3
    <3> QED
      BY <2>4, <2>5, <3>2, <3>4, ItemSpelt
  <2> QED
    BY <2>6, <2>7
<1> QED
  BY <1>3

(* Whatever a parser answered to the end of the slice: where an event begins *)
(* and the grammar has an item, the events from there on are that item and    *)
(* no more, for a reader that counts announced items and breaks.             *)
THEOREM EventsAreSpelt == IteratorSafety => []EventsSpell
<1>1. EventsIInv => EventsSpell
  <2> SUFFICES ASSUME EventsIInv, iterator = "events", Drained, NEW i \in 1..Count,
                      NEW q \in ItemEnds[yielded[i].from + 1]
               PROVE  \E j \in i..Count :
                        /\ \A k \in i..j : yielded[k].tag = "event"
                        /\ yielded[j].to = q
                        /\ \A k \in i..j : OpenFrom(i)[k] = <<>> <=> k = j
    BY DEF EventsSpell
  <2>1. AllRead
    BY DEF AllRead
  <2>2. Count \in Nat /\ i \in Nat /\ i \in i..Count /\ MaxDepth + 1 \in Nat
    BY <2>1, ReadEntry, SkipAssumption
  <2>3. q \in Grammar(mode)!At(Inside(MaxDepth + 1), yielded[i].from)
    BY DEF ItemEnds, Inside, Grammar!Items, Grammar!At
  <2>4. OpenBefore(i, i) = <<>> /\ <<>> \in Seq(Int)
    BY DEF OpenBefore
  <2>5. Spelt(i, i, q)
    <3>1. Spells(i, MaxDepth + 1)
      BY <2>1, <2>2, SpellsAll
    <3> QED
      BY <2>2, <2>3, <2>4, <3>1 DEF Spells
  <2>6. PICK j \in i..Count : Closing(i, i, j, <<>>, q)
    BY <2>4, <2>5 DEF Spelt, Closes
  <2>7. /\ yielded[j].to = q /\ OpenFrom(i)[j] = <<>>
        /\ \A k \in i..j : yielded[k].tag = "event"
        /\ \A k \in i..(j - 1) : Len(OpenFrom(i)[k]) > 0
    BY <2>6, EndedEmpty DEF Closing
  <2>8. ASSUME NEW k \in i..j PROVE OpenFrom(i)[k] = <<>> <=> k = j
    <3>1. k = j \/ k \in i..(j - 1)
      BY <2>2
    <3>2. k # j => Len(OpenFrom(i)[k]) > 0
      BY <2>7, <3>1
    <3>3. Len(<<>>) = 0
      OBVIOUS
    <3>4. k # j => OpenFrom(i)[k] # <<>>
      <4> HIDE DEF OpenFrom
      <4> QED
        BY <3>2, <3>3
    <3> QED
      BY <2>7, <3>4
  <2> QED
    BY <2>7, <2>8
<1> QED
  BY <1>1, EventsInvariant, PTL
==============================================================================
