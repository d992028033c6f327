--------------------------- MODULE PipelineProofs ---------------------------
(* Proofs about Pipeline for every number of items, chunk size, threshold   *)
(* and pool.                                                                *)
EXTENDS Pipeline, TLAPS

LEMMA InputFields ==
  ASSUME NEW in \in Input
  PROVE  /\ in.items \in 0..MaxItems
         /\ in.malformed \in BOOLEAN
         /\ in.failing \subseteq 0..(in.items - 1)
         /\ in.big \in BOOLEAN
         /\ in.minItems \in Thresholds
<1>1. PICK n \in 0..MaxItems :
        in \in [items: {n}, malformed: BOOLEAN, failing: SUBSET (0..(n - 1)),
                big: BOOLEAN, minItems: Thresholds]
  BY DEF Input
<1> QED
  BY <1>1

(* Replacing an element of a sequence.                                      *)
LEMMA ExceptSeq ==
  ASSUME NEW S, NEW s \in Seq(S), NEW k \in DOMAIN s, NEW e \in S
  PROVE  /\ [s EXCEPT ![k] = e] \in Seq(S)
         /\ DOMAIN [s EXCEPT ![k] = e] = DOMAIN s
         /\ Len([s EXCEPT ![k] = e]) = Len(s)
<1> DEFINE r == [s EXCEPT ![k] = e]
<1>1. s \in [1..Len(s) -> S] /\ Len(s) \in Nat
  OBVIOUS
<1>2. r \in [1..Len(s) -> S]
  BY <1>1
<1>3. r \in Seq(S)
  BY <1>1, <1>2
<1>4. Len(r) = Len(s)
  BY <1>1, <1>2, <1>3
<1> QED
  BY <1>2, <1>3, <1>4

-----------------------------------------------------------------------------
(* What the steps that touch one chunk do to the sequence of chunks.        *)

(* Only the progress fields of chunk k differ after the step.               *)
Touches(k) ==
  /\ k \in DOMAIN chunks
  /\ chunks' \in Seq(ChunkRecord)
  /\ Len(chunks') = Len(chunks)
  /\ DOMAIN chunks' = DOMAIN chunks
  /\ \A j \in DOMAIN chunks : j # k => chunks'[j] = chunks[j]
  /\ chunks'[k].first = chunks[k].first
  /\ chunks'[k].end = chunks[k].end

LEMMA TouchOne ==
  ASSUME TypeOK, NEW k \in DOMAIN chunks, NEW c \in ChunkRecord,
         c.first = chunks[k].first, c.end = chunks[k].end,
         chunks' = [chunks EXCEPT ![k] = c]
  PROVE  Touches(k) /\ chunks'[k] = c
<1>1. chunks \in Seq(ChunkRecord)
  BY DEF TypeOK
<1>2. /\ chunks' \in Seq(ChunkRecord)
      /\ DOMAIN chunks' = DOMAIN chunks
      /\ Len(chunks') = Len(chunks)
  BY <1>1, ExceptSeq
<1>3. /\ chunks'[k] = c
      /\ \A j \in DOMAIN chunks : j # k => chunks'[j] = chunks[j]
  BY <1>1
<1> QED
  BY <1>2, <1>3 DEF Touches

LEMMA ChunkTyped ==
  ASSUME TypeOK, NEW k \in DOMAIN chunks
  PROVE  /\ chunks[k] \in ChunkRecord
         /\ chunks[k].first \in 0..MaxItems
         /\ chunks[k].end \in 0..MaxItems
         /\ chunks[k].next \in 0..MaxItems
         /\ k \in 1..Len(chunks)
         /\ Len(chunks) \in Nat
<1>1. chunks \in Seq(ChunkRecord)
  BY DEF TypeOK
<1>2. chunks[k] \in ChunkRecord
  BY <1>1
<1> QED
  BY <1>1, <1>2 DEF ChunkRecord

LEMMA TakeEffect ==
  ASSUME TypeOK, NEW t \in Threads, Take(t)
  PROVE  \E k \in DOMAIN chunks :
           /\ Touches(k)
           /\ chunks[k].status = "queued"
           /\ chunks'[k] = [chunks[k] EXCEPT !.status = "running", !.by = t]
<1>1. PICK k \in WithStatus("queued") :
        chunks' = [chunks EXCEPT ![k].status = "running", ![k].by = t]
  BY DEF Take
<1> DEFINE c == [chunks[k] EXCEPT !.status = "running", !.by = t]
<1>2. k \in DOMAIN chunks /\ chunks[k].status = "queued"
  BY DEF WithStatus
<1>3. chunks[k] \in ChunkRecord
  BY <1>2, ChunkTyped
<1>4. c \in ChunkRecord /\ c.first = chunks[k].first /\ c.end = chunks[k].end
  BY <1>3 DEF ChunkRecord
<1>5. chunks' = [chunks EXCEPT ![k] = c]
  BY <1>1, <1>2, <1>3 DEF TypeOK, ChunkRecord
<1> QED
  BY <1>2, <1>4, <1>5, TouchOne

(* The three things a running closure does next.                            *)
Sends(k) ==
  /\ chunks[k].next = chunks[k].end
  /\ chunks'[k] = [chunks[k] EXCEPT !.status = "sent"]

Rejects(k) ==
  /\ chunks[k].next # chunks[k].end
  /\ chunks[k].next \in input.failing
  /\ chunks'[k] = [chunks[k] EXCEPT !.status = "sent"]

Advances(k) ==
  /\ chunks[k].next # chunks[k].end
  /\ chunks[k].next \notin input.failing
  /\ chunks'[k] = [chunks[k] EXCEPT !.next = chunks[k].next + 1]

LEMMA RunEffect ==
  ASSUME TypeOK, ChunkProgress, NEW t \in Threads, Run(t)
  PROVE  \E k \in DOMAIN chunks :
           /\ Touches(k)
           /\ chunks[k].status = "running"
           /\ Sends(k) \/ Rejects(k) \/ Advances(k)
           /\ IF chunks[k].next = chunks[k].end THEN UNCHANGED decodes
              ELSE Decode(chunks[k].next)
<1>1. PICK k \in WithStatus("running") :
        IF chunks[k].next = chunks[k].end
        THEN /\ chunks' = [chunks EXCEPT ![k].status = "sent"]
             /\ UNCHANGED decodes
        ELSE /\ Decode(chunks[k].next)
             /\ chunks' = IF chunks[k].next \in input.failing
                          THEN [chunks EXCEPT ![k].status = "sent"]
                          ELSE [chunks EXCEPT ![k].next = @ + 1]
  BY DEF Run
<1> DEFINE sent == [chunks[k] EXCEPT !.status = "sent"]
           more == [chunks[k] EXCEPT !.next = chunks[k].next + 1]
<1>2. k \in DOMAIN chunks /\ chunks[k].status = "running"
  BY DEF WithStatus
<1>3. /\ chunks[k] \in ChunkRecord
      /\ chunks[k].next \in 0..MaxItems /\ chunks[k].end \in 0..MaxItems
  BY <1>2, ChunkTyped
<1>4. chunks \in Seq(ChunkRecord)
  BY DEF TypeOK
<1>5. chunks[k].next <= chunks[k].end
  BY <1>2 DEF ChunkProgress
<1>6. CASE chunks' = [chunks EXCEPT ![k].status = "sent"]
  <2>1. /\ sent \in ChunkRecord
        /\ sent.first = chunks[k].first /\ sent.end = chunks[k].end
    BY <1>3 DEF ChunkRecord
  <2>2. chunks' = [chunks EXCEPT ![k] = sent]
    BY <1>2, <1>3, <1>4, <1>6 DEF ChunkRecord
  <2>3. Touches(k) /\ chunks'[k] = sent
    BY <1>2, <2>1, <2>2, TouchOne
  <2>4. Sends(k) \/ Rejects(k) \/ Advances(k)
    <3>1. CASE chunks[k].next = chunks[k].end
      BY <2>3, <3>1 DEF Sends
    <3>2. CASE chunks[k].next # chunks[k].end /\ chunks[k].next \in input.failing
      BY <2>3, <3>2 DEF Rejects
    <3>3. CASE chunks[k].next # chunks[k].end /\ chunks[k].next \notin input.failing
      <4>1. chunks' = [chunks EXCEPT ![k].next = @ + 1]
        BY <1>1, <3>3
      <4>2. chunks'[k].status = "running"
        BY <1>2, <1>3, <1>4, <4>1 DEF ChunkRecord
      <4> QED
        BY <2>3, <4>2, <1>3 DEF ChunkRecord
    <3> QED
      BY <3>1, <3>2, <3>3
  <2> QED
    BY <1>1, <1>2, <2>3, <2>4
<1>7. CASE /\ chunks[k].next # chunks[k].end
           /\ chunks[k].next \notin input.failing
           /\ chunks' = [chunks EXCEPT ![k].next = @ + 1]
  <2>1. /\ more \in ChunkRecord
        /\ more.first = chunks[k].first /\ more.end = chunks[k].end
    BY <1>3, <1>5, <1>7, PipelineAssumption DEF ChunkRecord
  <2>2. chunks' = [chunks EXCEPT ![k] = more]
    BY <1>2, <1>3, <1>4, <1>7 DEF ChunkRecord
  <2>3. Touches(k) /\ chunks'[k] = more
    BY <1>2, <2>1, <2>2, TouchOne
  <2> QED
    BY <1>1, <1>2, <1>7, <2>3 DEF Advances
<1> QED
  BY <1>1, <1>6, <1>7

LEMMA MergeEffect ==
  ASSUME TypeOK, Merge
  PROVE  \E k \in DOMAIN chunks :
           /\ NextInOrder(k)
           /\ chunks[k].status = "sent"
           /\ \/ /\ Failed(chunks[k])
                 /\ Return(Err("item", chunks[k].next))
                 /\ UNCHANGED <<chunks, output>>
              \/ /\ ~Failed(chunks[k])
                 /\ output' = output \o Values(chunks[k])
                 /\ Touches(k)
                 /\ chunks'[k] = [chunks[k] EXCEPT !.status = "merged"]
                 /\ UNCHANGED <<pc, result>>
<1>1. PICK k \in DOMAIN chunks :
        /\ NextInOrder(k)
        /\ IF Failed(chunks[k])
           THEN /\ Return(Err("item", chunks[k].next))
                /\ UNCHANGED <<chunks, output>>
           ELSE /\ output' = output \o Values(chunks[k])
                /\ chunks' = [chunks EXCEPT ![k].status = "merged"]
                /\ UNCHANGED <<pc, result>>
  BY DEF Merge
<1> DEFINE c == [chunks[k] EXCEPT !.status = "merged"]
<1>2. chunks[k].status = "sent"
  BY <1>1 DEF NextInOrder, WithStatus
<1>3. CASE Failed(chunks[k])
  BY <1>1, <1>2, <1>3
<1>4. CASE ~Failed(chunks[k])
  <2>1. chunks[k] \in ChunkRecord
    BY ChunkTyped
  <2>2. c \in ChunkRecord /\ c.first = chunks[k].first /\ c.end = chunks[k].end
    BY <2>1 DEF ChunkRecord
  <2>3. chunks' = [chunks EXCEPT ![k] = c]
    BY <1>1, <1>4, <2>1 DEF TypeOK, ChunkRecord
  <2>4. Touches(k) /\ chunks'[k] = c
    BY <2>2, <2>3, TouchOne
  <2> QED
    BY <1>1, <1>2, <1>4, <2>4
<1> QED
  BY <1>3, <1>4

-----------------------------------------------------------------------------
(* Each conjunct of the inductive invariant is preserved by every step.     *)

(* Appending keeps a sequence of items a sequence of items.                  *)
LEMMA ValuesTyped ==
  ASSUME TypeOK, ChunkProgress, NEW k \in DOMAIN chunks
  PROVE  /\ Values(chunks[k]) \in Seq(Item)
         /\ Len(Values(chunks[k])) = chunks[k].end - chunks[k].first
         /\ \A i \in 1..(chunks[k].end - chunks[k].first) :
              Values(chunks[k])[i] = chunks[k].first + i - 1
<1>1. /\ chunks[k].first \in 0..MaxItems /\ chunks[k].end \in 0..MaxItems
      /\ chunks[k].first < chunks[k].end
  BY ChunkTyped DEF ChunkProgress
<1> DEFINE n == chunks[k].end - chunks[k].first
<1>2. n \in Nat /\ \A i \in 1..n : chunks[k].first + i - 1 \in Item
  BY <1>1, PipelineAssumption DEF Item
<1> QED
  BY <1>2 DEF Values

LEMMA DecodeTyped ==
  ASSUME decodes \in [Item -> Nat], NEW i, Decode(i)
  PROVE  decodes' \in [Item -> Nat]
<1>1. CASE i \in Item
  BY <1>1 DEF Decode
<1>2. CASE i \notin Item
  <2>1. decodes' = decodes
    BY <1>2 DEF Decode
  <2> QED
    BY <2>1
<1> QED
  BY <1>1, <1>2

LEMMA TypeStep ==
  ASSUME IInv, [Next]_vars
  PROVE  TypeOK'
<1> USE PipelineAssumption DEF NoItem, Item
<1> USE DEF TypeOK, ResultOK
<1>0. /\ TypeOK /\ Counters /\ ChunkProgress
      /\ input.items \in 0..MaxItems
      /\ input.failing \subseteq 0..(input.items - 1)
  BY InputFields DEF IInv
<1>1. CASE ScanItem
  BY <1>0, <1>1 DEF ScanItem
<1>2. CASE ScanFails
  BY <1>0, <1>2 DEF ScanFails, Return
<1>3. CASE ScanEnds
  BY <1>0, <1>3 DEF ScanEnds
<1>4. CASE SequentialItem
  <2>1. Len(output) \in Item /\ result = Pending
    BY <1>0, <1>4 DEF SequentialItem, Counters
  <2>2. decodes' \in [Item -> Nat]
    BY <1>0, <1>4 DEF SequentialItem, Decode
  <2>3. output' \in Seq(Item)
    <3>1. Append(output, Len(output)) \in Seq(Item)
      BY <1>0, <2>1
    <3>2. output' = output \/ output' = Append(output, Len(output))
      BY <1>4 DEF SequentialItem
    <3> QED
      BY <1>0, <3>1, <3>2
  <2>4. result' = Pending \/ result' = Err("item", Len(output))
    BY <1>4, <2>1 DEF SequentialItem, Return
  <2>5. ResultOK'
    BY <2>1, <2>4
  <2>6. UNCHANGED <<input, scanned, itemCount, start, boundaryError, chunks>>
        /\ pc' \in {pc, "done"}
    BY <1>4 DEF SequentialItem, Return
  <2> QED
    BY <1>0, <2>2, <2>3, <2>5, <2>6
<1>5. CASE SequentialEnds
  BY <1>0, <1>5 DEF SequentialEnds, Return
<1>6. CASE TakeInitial
  BY <1>0, <1>6 DEF TakeInitial
<1>7. CASE TakeScanned
  BY <1>0, <1>7 DEF TakeScanned
<1>8. CASE BoundaryFails
  BY <1>0, <1>8 DEF BoundaryFails
<1>9. CASE Spawn
  BY <1>0, <1>9 DEF Spawn, Chunk, ChunkRecord
<1>10. CASE ScopeBodyEnds
  BY <1>0, <1>10 DEF ScopeBodyEnds
<1>11. CASE Join
  BY <1>0, <1>11 DEF Join, Return
<1>12. CASE Merge
  <2>1. PICK k \in DOMAIN chunks :
           /\ \/ /\ Return(Err("item", chunks[k].next))
                 /\ UNCHANGED <<chunks, output>>
              \/ /\ output' = output \o Values(chunks[k])
                 /\ chunks' \in Seq(ChunkRecord)
                 /\ UNCHANGED <<pc, result>>
    BY <1>0, <1>12, MergeEffect DEF Touches
  <2>2. chunks[k].next \in 0..MaxItems /\ Values(chunks[k]) \in Seq(Item)
    BY <1>0, ChunkTyped, ValuesTyped
  <2>3. result = Pending
    BY <1>0, <1>12 DEF Merge, Counters
  <2>4. output' \in Seq(Item) /\ chunks' \in Seq(ChunkRecord)
    <3>1. output \o Values(chunks[k]) \in Seq(Item)
      BY <1>0, <2>2
    <3> QED
      BY <1>0, <2>1, <3>1
  <2>5. ResultOK'
    BY <2>1, <2>2, <2>3 DEF Return
  <2>6. UNCHANGED <<input, scanned, itemCount, start, boundaryError, decodes>>
        /\ pc' \in {pc, "done"}
    BY <1>12, <2>1 DEF Merge, Return
  <2> QED
    BY <1>0, <2>4, <2>5, <2>6
<1>13. CASE MergeEnds
  BY <1>0, <1>13 DEF MergeEnds, Return
<1>14. ASSUME NEW t \in Threads, Take(t) PROVE TypeOK'
  <2>1. chunks' \in Seq(ChunkRecord)
    BY <1>0, <1>14, TakeEffect DEF Touches
  <2> QED
    BY <1>0, <1>14, <2>1 DEF Take
<1>15. ASSUME NEW t \in Threads, Run(t) PROVE TypeOK'
  <2>1. chunks' \in Seq(ChunkRecord)
    BY <1>0, <1>15, RunEffect DEF Touches
  <2>2. decodes' \in [Item -> Nat]
    <3>1. UNCHANGED decodes \/ \E i : Decode(i)
      BY <1>15 DEF Run
    <3> QED
      BY <1>0, <3>1, DecodeTyped
  <2>3. UNCHANGED <<input, pc, scanned, itemCount, start, boundaryError,
                    output, result>>
    BY <1>15 DEF Run
  <2> QED
    BY <1>0, <2>1, <2>2, <2>3
<1>16. CASE Returned \/ UNCHANGED vars
  BY <1>0, <1>16 DEF Returned, vars
<1> QED
  BY <1>1, <1>2, <1>3, <1>4, <1>5, <1>6, <1>7, <1>8, <1>9, <1>10, <1>11,
     <1>12, <1>13, <1>14, <1>15, <1>16 DEF Next, Caller

LEMMA CountersStep ==
  ASSUME IInv, [Next]_vars
  PROVE  Counters'
<1> USE PipelineAssumption DEF NoItem, Item, Counters, AtEnd
<1>0. /\ TypeOK /\ Counters /\ ChunkProgress
      /\ input.items \in 0..MaxItems
      /\ scanned \in 0..MaxItems
      /\ itemCount \in 0..MaxItems
      /\ start \in 0..MaxItems
  BY InputFields DEF IInv, TypeOK
<1>1. CASE ScanItem
  BY <1>0, <1>1 DEF ScanItem
<1>2. CASE ScanFails
  BY <1>0, <1>2 DEF ScanFails, Return
<1>3. CASE ScanEnds
  BY <1>0, <1>3 DEF ScanEnds
<1>4. CASE SequentialItem
  BY <1>0, <1>4 DEF SequentialItem, Return
<1>5. CASE SequentialEnds
  BY <1>0, <1>5 DEF SequentialEnds, Return
<1>6. CASE TakeInitial
  BY <1>0, <1>6 DEF TakeInitial, Filling
<1>7. CASE TakeScanned
  BY <1>0, <1>7 DEF TakeScanned, Filling
<1>8. CASE BoundaryFails
  BY <1>0, <1>8 DEF BoundaryFails, Filling
<1>9. CASE Spawn
  BY <1>0, <1>9 DEF Spawn, ChunkFilled
<1>10. CASE ScopeBodyEnds
  BY <1>0, <1>10 DEF ScopeBodyEnds, ChunkFilled
<1>11. CASE Join
  BY <1>0, <1>11 DEF Join, Return
<1>12. CASE Merge
  BY <1>0, <1>12 DEF Merge, Return
<1>13. CASE MergeEnds
  BY <1>0, <1>13 DEF MergeEnds, Return
<1>14. ASSUME NEW t \in Threads, Take(t) PROVE Counters'
  <2>1. chunks # <<>>
    BY <1>0, <1>14 DEF Take, WithStatus
  <2> QED
    BY <1>0, <1>14, <2>1 DEF Take
<1>15. ASSUME NEW t \in Threads, Run(t) PROVE Counters'
  <2>1. chunks # <<>>
    BY <1>0, <1>15 DEF Run, WithStatus
  <2> QED
    BY <1>0, <1>15, <2>1 DEF Run
<1>16. CASE Returned \/ UNCHANGED vars
  BY <1>0, <1>16 DEF Returned, vars
<1> QED
  BY <1>1, <1>2, <1>3, <1>4, <1>5, <1>6, <1>7, <1>8, <1>9, <1>10, <1>11,
     <1>12, <1>13, <1>14, <1>15, <1>16 DEF Next, Caller

(* Steps of the caller that neither spawn nor merge leave the chunks, the   *)
(* output and the start of the next chunk alone.                            *)
CallerElsewhere ==
  /\ UNCHANGED <<input, chunks, start>>
  /\ \/ UNCHANGED output
     \/ SequentialItem

LEMMA StepCases ==
  ASSUME [Next]_vars
  PROVE  \/ CallerElsewhere
         \/ Spawn
         \/ Merge
         \/ \E t \in Threads : Take(t) \/ Run(t)
<1>1. CASE ScanItem \/ ScanFails \/ ScanEnds \/ SequentialItem \/ SequentialEnds
  BY <1>1 DEF CallerElsewhere, ScanItem, ScanFails, ScanEnds, SequentialItem,
              SequentialEnds
<1>2. CASE TakeInitial \/ TakeScanned \/ BoundaryFails \/ ScopeBodyEnds
  BY <1>2 DEF CallerElsewhere, TakeInitial, TakeScanned, BoundaryFails,
              ScopeBodyEnds
<1>3. CASE Join \/ MergeEnds
  BY <1>3 DEF CallerElsewhere, Join, MergeEnds
<1>4. CASE Returned \/ UNCHANGED vars
  BY <1>4 DEF CallerElsewhere, Returned, vars
<1> QED
  BY <1>1, <1>2, <1>3, <1>4 DEF Next, Caller

(* The invariants of the chunks, read at one of them.                       *)
LEMMA ProgressAt ==
  ASSUME ChunkProgress, NEW k \in DOMAIN chunks
  PROVE  /\ chunks[k].first < chunks[k].end
         /\ chunks[k].first <= chunks[k].next
         /\ chunks[k].next <= chunks[k].end
BY DEF ChunkProgress

LEMMA TilingAt ==
  ASSUME ChunkTiling, NEW k \in DOMAIN chunks
  PROVE  /\ k = 1 => chunks[k].first = 0
         /\ k > 1 => chunks[k].first = chunks[k - 1].end
         /\ k = Len(chunks) => chunks[k].end = start
         /\ \A j \in 1..(k - 1) : chunks[j].end <= chunks[k].first
BY DEF ChunkTiling

LEMMA EndsBeforeStart ==
  ASSUME TypeOK, ChunkProgress, ChunkTiling, NEW j \in DOMAIN chunks
  PROVE  chunks[j].end <= start
<1> DEFINE n == Len(chunks)
<1>1. n \in Nat /\ DOMAIN chunks = 1..n
  BY DEF TypeOK
<1>2. j \in 1..n /\ n \in 1..n /\ n \in DOMAIN chunks
  BY <1>1
<1>3. /\ chunks[j].end \in 0..MaxItems /\ chunks[n].first \in 0..MaxItems
      /\ chunks[n].end \in 0..MaxItems
  BY <1>2, ChunkTyped
<1>4. chunks[n].end = start
  BY <1>2, TilingAt
<1>5. CASE j = n
  BY <1>3, <1>4, <1>5
<1>6. CASE j # n
  <2>1. j \in 1..(n - 1)
    BY <1>1, <1>2, <1>6
  <2>2. chunks[j].end <= chunks[n].first
    BY <1>2, <2>1, TilingAt
  <2>3. chunks[n].first < chunks[n].end
    BY <1>2, ProgressAt
  <2> QED
    BY <1>3, <1>4, <2>2, <2>3
<1> QED
  BY <1>5, <1>6

LEMMA TilingTouch ==
  ASSUME TypeOK, ChunkTiling, NEW k \in DOMAIN chunks, Touches(k),
         UNCHANGED start
  PROVE  ChunkTiling'
<1>1. /\ Len(chunks) \in Nat /\ DOMAIN chunks = 1..Len(chunks)
      /\ DOMAIN chunks' = 1..Len(chunks) /\ Len(chunks') = Len(chunks)
  BY DEF TypeOK, Touches
<1>2. \A j \in 1..Len(chunks) : /\ chunks'[j].first = chunks[j].first
                                /\ chunks'[j].end = chunks[j].end
  BY <1>1 DEF Touches
<1>3. chunks' = <<>> <=> chunks = <<>>
  BY <1>1 DEF TypeOK, Touches
<1>4. /\ \A j \in 1..Len(chunks) :
           /\ j = 1 => chunks[j].first = 0
           /\ j > 1 => chunks[j].first = chunks[j - 1].end
           /\ j = Len(chunks) => chunks[j].end = start
           /\ \A i \in 1..(j - 1) : chunks[i].end <= chunks[j].first
      /\ chunks = <<>> => start = 0
  BY <1>1 DEF ChunkTiling
<1>5. ASSUME NEW j \in 1..Len(chunks)
      PROVE  /\ j = 1 => chunks'[j].first = 0
             /\ j > 1 => chunks'[j].first = chunks'[j - 1].end
             /\ j = Len(chunks) => chunks'[j].end = start
             /\ \A i \in 1..(j - 1) : chunks'[i].end <= chunks'[j].first
  <2>1. j > 1 => j - 1 \in 1..Len(chunks)
    BY <1>1
  <2>2. \A i \in 1..(j - 1) : i \in 1..Len(chunks)
    BY <1>1
  <2>3. /\ j = 1 => chunks[j].first = 0
        /\ j > 1 => chunks[j].first = chunks[j - 1].end
        /\ j = Len(chunks) => chunks[j].end = start
        /\ \A i \in 1..(j - 1) : chunks[i].end <= chunks[j].first
    BY <1>4
  <2> QED
    BY <1>2, <2>1, <2>2, <2>3
<1> QED
  BY <1>1, <1>3, <1>4, <1>5 DEF ChunkTiling

(* What Spawn adds.                                                         *)
LEMMA SpawnEffect ==
  ASSUME TypeOK, Spawn
  PROVE  /\ Len(chunks') = Len(chunks) + 1
         /\ DOMAIN chunks' = 1..(Len(chunks) + 1)
         /\ DOMAIN chunks = 1..Len(chunks)
         /\ Len(chunks) \in Nat
         /\ \A j \in DOMAIN chunks : chunks'[j] = chunks[j]
         /\ chunks'[Len(chunks) + 1] = Chunk(start, itemCount)
<1>1. chunks \in Seq(ChunkRecord)
  BY DEF TypeOK
<1>2. chunks' = Append(chunks, Chunk(start, itemCount))
  BY DEF Spawn
<1> HIDE DEF Chunk
<1> QED
  BY <1>1, <1>2

LEMMA TilingStep ==
  ASSUME IInv, [Next]_vars
  PROVE  ChunkTiling'
<1>0. TypeOK /\ Counters /\ ChunkProgress /\ ChunkTiling
  BY DEF IInv
<1>1. CASE CallerElsewhere
  BY <1>0, <1>1 DEF CallerElsewhere, ChunkTiling
<1>2. CASE Spawn
  <2> DEFINE n == Len(chunks)
  <2>0. n \in Nat
    BY <1>0 DEF TypeOK
  <2>1. /\ Len(chunks') = n + 1 /\ DOMAIN chunks' = 1..(n + 1) /\ n \in Nat
        /\ DOMAIN chunks = 1..n
        /\ \A j \in 1..n : chunks'[j] = chunks[j]
        /\ chunks'[n + 1].first = start
        /\ chunks'[n + 1].end = itemCount
        /\ start' = itemCount
    BY <1>0, <1>2, SpawnEffect DEF Spawn, Chunk
  <2>2. /\ n = 0 => start = 0
        /\ n > 0 => chunks[n].end = start
    <3>1. n = 0 => chunks = <<>>
      BY <1>0 DEF TypeOK
    <3> QED
      BY <1>0, <2>1, <3>1 DEF ChunkTiling
  <2>3. \A j \in 1..n : chunks[j].end <= start
    BY <1>0, <2>1, EndsBeforeStart
  <2>4. ASSUME NEW k \in 1..(n + 1)
        PROVE  /\ k = 1 => chunks'[k].first = 0
               /\ k > 1 => chunks'[k].first = chunks'[k - 1].end
               /\ k = n + 1 => chunks'[k].end = start'
               /\ \A j \in 1..(k - 1) : chunks'[j].end <= chunks'[k].first
    <3>1. CASE k = n + 1
      <4>1. \A j \in 1..(k - 1) : chunks'[j].end <= chunks'[k].first
        BY <2>1, <2>3, <3>1
      <4> QED
        BY <2>1, <2>2, <3>1, <4>1
    <3>2. CASE k \in 1..n
      <4>1. /\ k = 1 => chunks[k].first = 0
            /\ k > 1 => chunks[k].first = chunks[k - 1].end
            /\ \A j \in 1..(k - 1) : chunks[j].end <= chunks[k].first
        BY <1>0, <2>1, <3>2 DEF ChunkTiling
      <4> QED
        BY <2>1, <3>2, <4>1
    <3> QED
      BY <2>1, <3>1, <3>2
  <2>5. chunks' # <<>>
    BY <2>1
  <2> QED
    BY <2>1, <2>4, <2>5 DEF ChunkTiling
<1>3. CASE Merge
  <2>1. UNCHANGED chunks \/ \E k \in DOMAIN chunks : Touches(k)
    BY <1>0, <1>3, MergeEffect
  <2>2. UNCHANGED start
    BY <1>3 DEF Merge
  <2>3. CASE UNCHANGED chunks
    BY <1>0, <2>2, <2>3 DEF ChunkTiling
  <2> QED
    BY <1>0, <2>1, <2>2, <2>3, TilingTouch
<1>4. ASSUME NEW t \in Threads, Take(t) \/ Run(t) PROVE ChunkTiling'
  <2>1. \E k \in DOMAIN chunks : Touches(k)
    BY <1>0, <1>4, TakeEffect, RunEffect
  <2>2. UNCHANGED start
    BY <1>4 DEF Take, Run
  <2> QED
    BY <1>0, <2>1, <2>2, TilingTouch
<1> QED
  BY <1>1, <1>2, <1>3, <1>4, StepCases

LEMMA ProgressStep ==
  ASSUME IInv, [Next]_vars
  PROVE  ChunkProgress'
<1>0. TypeOK /\ Counters /\ ChunkProgress /\ ChunkTiling
  BY DEF IInv
<1> DEFINE Good(c) ==
             /\ c.first < c.end /\ c.first <= c.next /\ c.next <= c.end
             /\ \A i \in c.first..(c.next - 1) : i \notin input.failing
             /\ c.status = "sent" /\ Failed(c) => c.next \in input.failing
             /\ c.status = "merged" => c.next = c.end
           Phase(c, p) ==
             /\ p \in {"fill", "join"} => c.status # "merged"
             /\ p = "merge" => c.status \in {"sent", "merged"}
<1>a. \A k \in DOMAIN chunks : Good(chunks[k]) /\ Phase(chunks[k], pc)
  BY <1>0 DEF ChunkProgress
<1>b. /\ UNCHANGED input
      /\ \A k \in DOMAIN chunks' : Good(chunks'[k]) /\ Phase(chunks'[k], pc')
      => ChunkProgress'
  BY DEF ChunkProgress, Failed
<1>1. CASE CallerElsewhere
  <2>1. UNCHANGED <<input, chunks>>
    BY <1>1 DEF CallerElsewhere
  <2>2. \A k \in DOMAIN chunks : Phase(chunks[k], pc')
    <3>1. CASE pc' = pc \/ pc' = "done"
      BY <1>a, <3>1
    <3>2. CASE pc' # pc /\ pc' # "done"
      <4>1. CASE ScanEnds
        BY <1>0, <4>1 DEF ScanEnds, Counters
      <4>2. CASE BoundaryFails \/ ScopeBodyEnds
        BY <1>a, <4>2 DEF BoundaryFails, ScopeBodyEnds, Filling, ChunkFilled
      <4>3. CASE Join
        <5> SUFFICES ASSUME NEW k \in DOMAIN chunks PROVE Phase(chunks[k], pc')
          OBVIOUS
        <5>1. /\ chunks[k].status \in {"queued", "running", "sent", "merged"}
          BY <1>0, ChunkTyped DEF ChunkRecord
        <5>2. chunks[k].status # "queued" /\ chunks[k].status # "running"
          BY <4>3 DEF Join, WithStatus
        <5>3. pc' \in {"done", "merge"}
          BY <4>3 DEF Join, Return
        <5> QED
          BY <5>1, <5>2, <5>3
      <4>4. ScanEnds \/ BoundaryFails \/ ScopeBodyEnds \/ Join
        <5>1. CASE ScanItem \/ ScanFails \/ SequentialItem \/ SequentialEnds
          BY <3>2, <5>1 DEF ScanItem, ScanFails, SequentialItem, SequentialEnds,
                            Return
        <5>2. CASE TakeInitial \/ TakeScanned \/ Spawn
          BY <3>2, <5>2 DEF TakeInitial, TakeScanned, Spawn
        <5>3. CASE Merge \/ MergeEnds \/ Returned \/ UNCHANGED vars
          BY <3>2, <5>3 DEF Merge, MergeEnds, Returned, Return, vars
        <5>4. ASSUME NEW t \in Threads, Take(t) \/ Run(t) PROVE FALSE
          BY <3>2, <5>4 DEF Take, Run
        <5> QED
          BY <5>1, <5>2, <5>3, <5>4 DEF Next, Caller
      <4> QED
        BY <4>1, <4>2, <4>3, <4>4
    <3> QED
      BY <3>1, <3>2
  <2> HIDE DEF Good, Phase
  <2> QED
    BY <1>a, <1>b, <2>1, <2>2
<1>2. CASE Spawn
  <2> DEFINE n == Len(chunks)
             c == Chunk(start, itemCount)
  <2>1. /\ DOMAIN chunks' = 1..(n + 1) /\ n \in Nat /\ DOMAIN chunks = 1..n
        /\ \A j \in 1..n : chunks'[j] = chunks[j]
        /\ chunks'[n + 1] = c
        /\ pc' = pc /\ input' = input
    BY <1>0, <1>2, SpawnEffect DEF Spawn
  <2>2. /\ start \in 0..MaxItems /\ itemCount \in 0..MaxItems
        /\ start < itemCount /\ pc = "fill"
    BY <1>0, <1>2 DEF Spawn, ChunkFilled, TypeOK
  <2>3. Good(c) /\ Phase(c, pc)
    BY <2>2 DEF Chunk, Failed
  <2>4. \A k \in DOMAIN chunks' : Good(chunks'[k]) /\ Phase(chunks'[k], pc')
    <3> SUFFICES ASSUME NEW k \in 1..(n + 1)
                 PROVE  Good(chunks'[k]) /\ Phase(chunks'[k], pc')
      BY <2>1
    <3> HIDE DEF Good, Phase, c
    <3>1. k = n + 1 \/ k \in 1..n
      BY <2>1
    <3> QED
      BY <1>a, <2>1, <2>3, <3>1
  <2> HIDE DEF Good, Phase
  <2> QED
    BY <1>b, <2>1, <2>4
<1>3. ASSUME NEW k \in DOMAIN chunks, Touches(k), UNCHANGED <<input, pc>>,
             Good(chunks'[k]), Phase(chunks'[k], pc)
      PROVE  ChunkProgress'
  <2> HIDE DEF Good, Phase
  <2> QED
    BY <1>a, <1>b, <1>3 DEF Touches
<1>4. CASE Merge
  <2>1. PICK k \in DOMAIN chunks :
          \/ Return(Err("item", chunks[k].next)) /\ UNCHANGED chunks
          \/ /\ ~Failed(chunks[k])
             /\ Touches(k)
             /\ chunks'[k] = [chunks[k] EXCEPT !.status = "merged"]
             /\ UNCHANGED pc
    BY <1>0, <1>4, MergeEffect
  <2>2. UNCHANGED input
    BY <1>4 DEF Merge
  <2>3. CASE Return(Err("item", chunks[k].next)) /\ UNCHANGED chunks
    <3>1. \A j \in DOMAIN chunks : Phase(chunks[j], pc')
      BY <2>3 DEF Return
    <3> HIDE DEF Good, Phase
    <3> QED
      BY <1>a, <1>b, <2>2, <2>3, <3>1
  <2>4. CASE /\ ~Failed(chunks[k])
             /\ Touches(k)
             /\ chunks'[k] = [chunks[k] EXCEPT !.status = "merged"]
             /\ UNCHANGED pc
    <3>1. Good(chunks[k]) /\ chunks[k] \in ChunkRecord
      BY <1>0, <1>a, ChunkTyped
    <3>2. /\ chunks[k].next \in 0..MaxItems /\ chunks[k].end \in 0..MaxItems
          /\ chunks[k].next = chunks[k].end
      BY <1>0, <2>4, <3>1, ChunkTyped DEF Failed
    <3>3. /\ chunks'[k].first = chunks[k].first
          /\ chunks'[k].end = chunks[k].end
          /\ chunks'[k].next = chunks[k].next
          /\ chunks'[k].status = "merged"
      BY <2>4, <3>1 DEF ChunkRecord
    <3>4. Good(chunks'[k])
      BY <3>1, <3>2, <3>3
    <3>5. Phase(chunks'[k], pc)
      BY <1>4, <3>3 DEF Merge
    <3> QED
      BY <1>3, <2>2, <2>4, <3>4, <3>5
  <2> QED
    BY <2>1, <2>3, <2>4
<1>5. ASSUME NEW t \in Threads, Take(t) PROVE ChunkProgress'
  <2>1. PICK k \in DOMAIN chunks :
          /\ Touches(k)
          /\ chunks[k].status = "queued"
          /\ chunks'[k] = [chunks[k] EXCEPT !.status = "running", !.by = t]
    BY <1>0, <1>5, TakeEffect
  <2>2. Good(chunks[k]) /\ Phase(chunks[k], pc) /\ chunks[k] \in ChunkRecord
    BY <1>0, <1>a, ChunkTyped
  <2>3. /\ chunks'[k].first = chunks[k].first
        /\ chunks'[k].end = chunks[k].end
        /\ chunks'[k].next = chunks[k].next
        /\ chunks'[k].status = "running"
    BY <2>1, <2>2 DEF ChunkRecord
  <2>4. Good(chunks'[k]) /\ Phase(chunks'[k], pc)
    BY <2>1, <2>2, <2>3
  <2>5. UNCHANGED <<input, pc>>
    BY <1>5 DEF Take
  <2> QED
    BY <1>3, <2>1, <2>4, <2>5
<1>6. ASSUME NEW t \in Threads, Run(t) PROVE ChunkProgress'
  <2>1. PICK k \in DOMAIN chunks :
          /\ Touches(k)
          /\ chunks[k].status = "running"
          /\ Sends(k) \/ Rejects(k) \/ Advances(k)
    BY <1>0, <1>6, RunEffect
  <2>2. Good(chunks[k]) /\ Phase(chunks[k], pc) /\ chunks[k] \in ChunkRecord
    BY <1>0, <1>a, ChunkTyped
  <2>3. /\ chunks[k].first \in 0..MaxItems /\ chunks[k].next \in 0..MaxItems
        /\ chunks[k].end \in 0..MaxItems
    BY <1>0, ChunkTyped
  <2>4. UNCHANGED <<input, pc>>
    BY <1>6 DEF Run
  <2>5. CASE Sends(k) \/ Rejects(k)
    <3>1. /\ chunks'[k].first = chunks[k].first
          /\ chunks'[k].end = chunks[k].end
          /\ chunks'[k].next = chunks[k].next
          /\ chunks'[k].status = "sent"
      BY <2>2, <2>5 DEF ChunkRecord, Sends, Rejects
    <3>2. chunks[k].next = chunks[k].end \/ chunks[k].next \in input.failing
      BY <2>5 DEF Sends, Rejects
    <3>3. Good(chunks'[k]) /\ Phase(chunks'[k], pc)
      BY <2>1, <2>2, <2>3, <3>1, <3>2 DEF Failed
    <3> QED
      BY <1>3, <2>1, <2>4, <3>3
  <2>6. CASE Advances(k)
    <3>1. /\ chunks'[k].first = chunks[k].first
          /\ chunks'[k].end = chunks[k].end
          /\ chunks'[k].next = chunks[k].next + 1
          /\ chunks'[k].status = "running"
      BY <2>1, <2>2, <2>6 DEF ChunkRecord, Advances
    <3>2. /\ chunks[k].next < chunks[k].end
          /\ chunks[k].next \notin input.failing
      BY <2>2, <2>3, <2>6 DEF Advances
    <3>3. \A i \in chunks[k].first..(chunks[k].next + 1 - 1) :
            i \notin input.failing
      BY <2>2, <2>3, <3>2
    <3>4. Good(chunks'[k]) /\ Phase(chunks'[k], pc)
      BY <2>1, <2>2, <2>3, <3>1, <3>2, <3>3
    <3> QED
      BY <1>3, <2>1, <2>4, <3>4
  <2> QED
    BY <2>1, <2>5, <2>6
<1> QED
  BY <1>1, <1>2, <1>4, <1>5, <1>6, StepCases

(* The chunk taken by Merge is the one the output ends at, and those before *)
(* it have been merged.                                                     *)
LEMMA MergeNext ==
  ASSUME TypeOK, ChunkProgress, ChunkTiling, MergedPrefix, pc = "merge",
         NEW k \in DOMAIN chunks, NextInOrder(k)
  PROVE  /\ chunks[k].first = Len(output)
         /\ \A j \in 1..(k - 1) : Merged(j)
         /\ ~Merged(k)
<1>1. chunks[k].status = "sent"
  BY DEF NextInOrder, WithStatus
<1>2. k \in 1..Len(chunks) /\ DOMAIN chunks = 1..Len(chunks) /\ Len(chunks) \in Nat
  BY DEF TypeOK
<1>3. CASE k = 1
  BY <1>1, <1>2, <1>3 DEF MergedPrefix, Merged
<1>4. CASE k > 1
  <2> DEFINE p == k - 1
  <2>1. p \in DOMAIN chunks /\ p \in 1..(k - 1)
    BY <1>2, <1>4
  <2>2. /\ chunks[k].first \in 0..MaxItems /\ chunks[k].end \in 0..MaxItems
        /\ chunks[p].first \in 0..MaxItems /\ chunks[p].end \in 0..MaxItems
    BY <2>1, ChunkTyped
  <2>3. chunks[p].first < chunks[p].end /\ chunks[p].end <= chunks[k].first
    BY <2>1, ProgressAt, TilingAt
  <2>4. chunks[p].status # "sent"
    <3> SUFFICES ASSUME chunks[p].status = "sent" PROVE FALSE
      OBVIOUS
    <3>1. chunks[k].first <= chunks[p].first
      BY <2>1 DEF NextInOrder, WithStatus
    <3> QED
      BY <2>2, <2>3, <3>1
  <2>5. Merged(p)
    BY <2>1, <2>4 DEF ChunkProgress, Merged
  <2>6. \A j \in 1..(p - 1) : Merged(j)
    BY <2>1, <2>5 DEF MergedPrefix
  <2>7. \A j \in 1..(k - 1) : Merged(j)
    BY <1>2, <2>5, <2>6
  <2>8. chunks[k].first = Len(output)
    BY <1>1, <2>5 DEF MergedPrefix, Merged
  <2> QED
    BY <1>1, <2>7, <2>8 DEF Merged
<1> QED
  BY <1>2, <1>3, <1>4

(* Two runs of consecutive numbers, the second from where the first ends.   *)
LEMMA IdentityConcat ==
  ASSUME NEW S, NEW s \in Seq(S), NEW t \in Seq(S),
         \A i \in 1..Len(s) : s[i] = i - 1,
         \A i \in 1..Len(t) : t[i] = Len(s) + i - 1
  PROVE  /\ Len(s \o t) = Len(s) + Len(t)
         /\ \A i \in 1..(Len(s) + Len(t)) : (s \o t)[i] = i - 1
<1>1. Len(s) \in Nat /\ Len(t) \in Nat
  OBVIOUS
<1>2. Len(s \o t) = Len(s) + Len(t)
  OBVIOUS
<1>3. ASSUME NEW i \in 1..(Len(s) + Len(t)) PROVE (s \o t)[i] = i - 1
  <2>1. CASE i <= Len(s)
    <3>1. i \in 1..Len(s) /\ (s \o t)[i] = s[i]
      BY <1>1, <2>1
    <3> QED
      BY <3>1
  <2>2. CASE i > Len(s)
    <3>1. i - Len(s) \in 1..Len(t) /\ (s \o t)[i] = t[i - Len(s)]
      BY <1>1, <2>2
    <3>2. t[i - Len(s)] = Len(s) + (i - Len(s)) - 1
      BY <3>1
    <3> QED
      BY <1>1, <3>1, <3>2
  <2> QED
    BY <1>1, <2>1, <2>2
<1> QED
  BY <1>2, <1>3

LEMMA OutputStep ==
  ASSUME IInv, [Next]_vars
  PROVE  OutputPrefix'
<1>0. /\ TypeOK /\ Counters /\ OutputPrefix /\ ChunkProgress /\ ChunkTiling
      /\ MergedPrefix
  BY DEF IInv
<1>1. input.items \in 0..MaxItems /\ scanned \in 0..MaxItems /\ start \in 0..MaxItems
  BY <1>0, InputFields DEF TypeOK
<1>2. output \in Seq(Item) /\ Len(output) \in Nat /\ output \in Seq(Int)
  BY <1>0 DEF TypeOK, Item
<1>3. CASE UNCHANGED <<input, output>>
  BY <1>0, <1>3 DEF OutputPrefix
<1>4. CASE SequentialItem /\ ~UNCHANGED output
  <2> DEFINE i == Len(output)
  <2>1. /\ output' = Append(output, i) /\ input' = input
        /\ i < scanned /\ i \notin input.failing
    BY <1>4 DEF SequentialItem
  <2>2. scanned <= input.items
    BY <1>0 DEF Counters
  <2>3. Len(output') = i + 1
    BY <1>2, <2>1
  <2>4. \A j \in 1..(i + 1) : output'[j] = j - 1
    <3>1. \A j \in 1..i : output[j] = j - 1
      BY <1>0 DEF OutputPrefix
    <3> QED
      BY <1>2, <2>1, <3>1
  <2>5. \A j \in 0..i : j \notin input.failing
    BY <1>0, <1>2, <2>1 DEF OutputPrefix
  <2>6. \A j \in 0..(Len(output') - 1) : j \notin input'.failing
    BY <1>2, <2>1, <2>3, <2>5
  <2>7. Len(output') <= input'.items
    BY <1>1, <1>2, <2>1, <2>2, <2>3
  <2> QED
    BY <2>3, <2>4, <2>6, <2>7 DEF OutputPrefix
<1>5. CASE Merge /\ ~UNCHANGED output
  <2>1. PICK k \in DOMAIN chunks :
          /\ NextInOrder(k)
          /\ ~Failed(chunks[k])
          /\ output' = output \o Values(chunks[k])
    BY <1>0, <1>5, MergeEffect
  <2> DEFINE c == chunks[k]
             m == Len(output)
             n == c.end - c.first
  <2>2. pc = "merge" /\ input' = input
    BY <1>5 DEF Merge
  <2>3. c.first = m
    BY <1>0, <2>1, <2>2, MergeNext
  <2>4. /\ c.first \in 0..MaxItems /\ c.end \in 0..MaxItems
        /\ c.next \in 0..MaxItems
    BY <1>0, ChunkTyped
  <2>5. c.first < c.end /\ c.next <= c.end
    BY <1>0, ProgressAt
  <2>6. c.next = c.end
    BY <2>1, <2>4, <2>5 DEF Failed
  <2>7. /\ Values(c) \in Seq(Item) /\ Len(Values(c)) = n
        /\ \A i \in 1..n : Values(c)[i] = m + i - 1
    BY <1>0, <2>3, ValuesTyped
  <2>8. n \in Nat /\ m + n = c.end
    BY <2>3, <2>4, <2>5
  <2>9. (\A i \in 1..c.end : output'[i] = i - 1) /\ Len(output') = c.end
    <3>1. \A i \in 1..m : output[i] = i - 1
      BY <1>0 DEF OutputPrefix
    <3> HIDE DEF c, n
    <3>2. /\ Len(output \o Values(c)) = m + n
          /\ \A i \in 1..(m + n) : (output \o Values(c))[i] = i - 1
      BY <1>2, <2>7, <3>1, IdentityConcat
    <3> QED
      BY <2>1, <2>8, <3>2 DEF c
  <2>10. c.end <= input.items
    <3>1. c.end <= start
      BY <1>0, EndsBeforeStart
    <3>2. start <= input.items
      BY <1>0, <1>1 DEF Counters, TypeOK
    <3> QED
      BY <1>1, <2>4, <3>1, <3>2
  <2>11. \A i \in 0..(c.end - 1) : i \notin input.failing
    <3>1. \A i \in c.first..(c.next - 1) : i \notin input.failing
      BY <1>0 DEF ChunkProgress
    <3>2. \A i \in 0..(m - 1) : i \notin input.failing
      BY <1>0 DEF OutputPrefix
    <3> QED
      BY <2>3, <2>4, <2>6, <3>1, <3>2
  <2> QED
    BY <2>2, <2>9, <2>10, <2>11 DEF OutputPrefix
<1>6. UNCHANGED input
  BY StepCases DEF CallerElsewhere, Spawn, Merge, Take, Run
<1>7. UNCHANGED output \/ SequentialItem \/ Merge
  BY StepCases DEF CallerElsewhere, Spawn, Take, Run
<1> QED
  BY <1>3, <1>4, <1>5, <1>6, <1>7

LEMMA ConcatLen ==
  ASSUME NEW S, NEW s \in Seq(S), NEW t \in Seq(S)
  PROVE  Len(s \o t) = Len(s) + Len(t)
OBVIOUS

LEMMA MergedStep ==
  ASSUME IInv, [Next]_vars
  PROVE  MergedPrefix'
<1>0. /\ TypeOK /\ Counters /\ ChunkProgress /\ ChunkTiling /\ MergedPrefix
  BY DEF IInv
<1> DEFINE n == Len(chunks)
<1>1. /\ n \in Nat /\ DOMAIN chunks = 1..n
      /\ Len(output) \in Nat
  BY <1>0 DEF TypeOK
<1>2. CASE UNCHANGED <<chunks, output, start>>
  <2>1. CASE pc \in {"fill", "join", "merge"}
    BY <1>0, <1>2, <2>1 DEF MergedPrefix, Merged
  <2>2. CASE pc \notin {"fill", "join", "merge"}
           /\ pc' \in {"fill", "join", "merge"}
    <3>1. ScanEnds
      <4>1. pc \in {"scan", "sequential", "done"}
        BY <1>0, <2>2 DEF TypeOK
      <4>2. CASE ScanItem \/ ScanFails \/ SequentialItem \/ SequentialEnds
        BY <2>2, <4>2 DEF ScanItem, ScanFails, SequentialItem, SequentialEnds,
                          Return
      <4>3. CASE TakeInitial \/ TakeScanned \/ BoundaryFails \/ Spawn
                 \/ ScopeBodyEnds
        BY <4>1, <4>3 DEF TakeInitial, TakeScanned, BoundaryFails, Spawn,
                          ScopeBodyEnds, Filling, ChunkFilled
      <4>4. CASE Join \/ Merge \/ MergeEnds \/ Returned \/ UNCHANGED vars
        BY <2>2, <4>1, <4>4 DEF Join, Merge, MergeEnds, Returned, vars
      <4>5. ASSUME NEW t \in Threads, Take(t) \/ Run(t) PROVE FALSE
        BY <2>2, <4>5 DEF Take, Run
      <4> QED
        BY <4>2, <4>3, <4>4, <4>5 DEF Next, Caller
    <3>2. chunks = <<>> /\ output = <<>> /\ start = 0
      BY <1>0, <3>1 DEF ScanEnds, Counters
    <3> QED
      BY <1>2, <3>2 DEF MergedPrefix
  <2> QED
    BY <2>1, <2>2 DEF MergedPrefix
<1>3. CASE SequentialItem
  BY <1>3 DEF SequentialItem, Return, MergedPrefix
<1>4. CASE Spawn
  <2>1. pc = "fill" /\ UNCHANGED <<pc, output>> /\ output = <<>>
    BY <1>0, <1>4 DEF Spawn, ChunkFilled, Counters
  <2>2. /\ DOMAIN chunks' = 1..(n + 1)
        /\ \A j \in 1..n : chunks'[j] = chunks[j]
        /\ chunks'[n + 1].first = start
        /\ chunks'[n + 1].status = "queued"
    BY <1>0, <1>1, <1>4, SpawnEffect DEF Chunk
  <2>3. \A k \in 1..n : chunks[k].status # "merged"
    BY <1>0, <1>1, <2>1 DEF ChunkProgress
  <2>4. \A k \in 1..(n + 1) : chunks'[k].status # "merged"
    BY <1>1, <2>2, <2>3
  <2>5. Len(output') = 0
    BY <2>1
  <2>6. chunks'[1].first = 0
    <3>1. ChunkTiling'
      BY TilingStep
    <3> QED
      BY <1>1, <2>2, <3>1 DEF ChunkTiling
  <2>7. ASSUME NEW k \in DOMAIN chunks'
        PROVE  /\ ~Merged(k)'
               /\ k - 1 \in DOMAIN chunks' => ~Merged(k - 1)'
    BY <2>2, <2>4, <2>7 DEF Merged
  <2>8. ASSUME NEW k \in DOMAIN chunks', k = 1 \/ Merged(k - 1)'
        PROVE  chunks'[k].first = Len(output')
    <3>1. CASE k = 1
      BY <2>5, <2>6, <3>1
    <3>2. CASE k # 1
      <4>1. k - 1 \in DOMAIN chunks'
        BY <1>1, <2>2, <3>2
      <4> QED
        BY <2>7, <2>8, <3>2, <4>1
    <3> QED
      BY <3>1, <3>2
  <2>9. 1 \in DOMAIN chunks'
    BY <1>1, <2>2
  <2> QED
    BY <2>7, <2>8, <2>9 DEF MergedPrefix
<1>5. ASSUME NEW k \in DOMAIN chunks, Touches(k), UNCHANGED <<pc, output, start>>,
             pc \in {"fill", "join"},
             \A j \in DOMAIN chunks' : chunks'[j].status # "merged"
      PROVE  MergedPrefix'
  <2>1. /\ DOMAIN chunks' = 1..n /\ n > 0
        /\ \A j \in 1..n : chunks'[j].first = chunks[j].first
    BY <1>1, <1>5 DEF Touches
  <2>2. Len(output) = 0 /\ chunks[1].first = 0
    BY <1>0, <1>1, <1>5, <2>1 DEF Counters, ChunkTiling
  <2>3. \A j \in 1..n : ~Merged(j)'
    BY <1>5, <2>1 DEF Merged
  <2>4. ASSUME NEW j \in 1..n, j = 1 \/ Merged(j - 1)'
        PROVE  chunks'[j].first = Len(output')
    <3>1. CASE j = 1
      BY <1>5, <2>1, <2>2, <3>1
    <3>2. CASE j # 1
      <4>1. j - 1 \in 1..n
        BY <1>1, <3>2
      <4> QED
        BY <2>3, <2>4, <3>2, <4>1
    <3> QED
      BY <3>1, <3>2
  <2>5. 1 \in 1..n
    BY <1>1, <2>1
  <2> QED
    BY <2>1, <2>3, <2>4, <2>5 DEF MergedPrefix
<1>6. ASSUME NEW t \in Threads, Take(t) \/ Run(t) PROVE MergedPrefix'
  <2>1. PICK k \in DOMAIN chunks :
          Touches(k) /\ chunks[k].status \in {"queued", "running"}
    BY <1>0, <1>6, TakeEffect, RunEffect
  <2>2. UNCHANGED <<pc, output, start>>
    BY <1>6 DEF Take, Run
  <2>3. pc # "merge"
    BY <1>0, <2>1 DEF ChunkProgress
  <2>4. CASE pc \in {"fill", "join"}
    <3>1. ChunkProgress'
      BY ProgressStep
    <3>2. \A j \in DOMAIN chunks' : chunks'[j].status # "merged"
      BY <2>2, <2>4, <3>1 DEF ChunkProgress
    <3> QED
      BY <1>5, <2>1, <2>2, <2>4, <3>2
  <2> QED
    BY <2>2, <2>3, <2>4 DEF MergedPrefix
<1>7. CASE Merge
  <2>1. PICK k \in DOMAIN chunks :
           /\ NextInOrder(k)
           /\ \/ /\ Return(Err("item", chunks[k].next))
                 /\ UNCHANGED <<chunks, output>>
              \/ /\ ~Failed(chunks[k])
                 /\ output' = output \o Values(chunks[k])
                 /\ Touches(k)
                 /\ chunks'[k] = [chunks[k] EXCEPT !.status = "merged"]
                 /\ UNCHANGED <<pc, result>>
    BY <1>0, <1>7, MergeEffect
  <2>2. pc = "merge" /\ UNCHANGED start
    BY <1>7 DEF Merge
  <2>3. CASE UNCHANGED <<chunks, output>>
    BY <1>2, <2>2, <2>3
  <2>4. CASE /\ output' = output \o Values(chunks[k])
             /\ Touches(k)
             /\ chunks'[k] = [chunks[k] EXCEPT !.status = "merged"]
    <3>1. /\ chunks[k].first = Len(output)
          /\ \A j \in 1..(k - 1) : Merged(j)
          /\ ~Merged(k)
      BY <1>0, <2>1, <2>2, MergeNext
    <3>2. /\ chunks[k].first \in 0..MaxItems /\ chunks[k].end \in 0..MaxItems
          /\ chunks[k].first < chunks[k].end /\ k \in 1..n
          /\ chunks[k] \in ChunkRecord
      BY <1>0, <1>1, ChunkTyped, ProgressAt
    <3>3. Len(output') = chunks[k].end
      <4>1. /\ Values(chunks[k]) \in Seq(Item) /\ output \in Seq(Item)
            /\ Len(Values(chunks[k])) = chunks[k].end - chunks[k].first
        BY <1>0, ValuesTyped DEF TypeOK
      <4>2. Len(output \o Values(chunks[k]))
              = Len(output) + Len(Values(chunks[k]))
        BY <4>1, ConcatLen
      <4> QED
        BY <1>1, <2>4, <3>1, <3>2, <4>1, <4>2
    <3>4. /\ DOMAIN chunks' = 1..n
          /\ \A j \in 1..n : chunks'[j].first = chunks[j].first
          /\ \A j \in 1..n : chunks'[j].end = chunks[j].end
          /\ \A j \in 1..n : Merged(j)' <=> Merged(j) \/ j = k
      BY <1>1, <2>4, <3>2 DEF Touches, Merged, ChunkRecord
    <3>5. \A j \in 1..n : Merged(j) => j < k
      <4> SUFFICES ASSUME NEW j \in 1..n, Merged(j), ~(j < k) PROVE FALSE
        OBVIOUS
      <4>1. k \in 1..(j - 1) \/ j = k
        BY <1>1, <3>2
      <4>2. \A i \in 1..(j - 1) : Merged(i)
        BY <1>0, <1>1, <2>2 DEF MergedPrefix
      <4> QED
        BY <3>1, <4>1, <4>2
    <3>6. \A j \in 1..n : Merged(j)' <=> j <= k
      BY <1>1, <3>1, <3>2, <3>4, <3>5
    <3>7. ASSUME NEW j \in 1..n
          PROVE  /\ Merged(j)' => chunks'[j].end <= Len(output')
                 /\ Merged(j)' => \A i \in 1..(j - 1) : Merged(i)'
                 /\ ~Merged(j)' /\ (j = 1 \/ Merged(j - 1)')
                      => chunks'[j].first = Len(output')
      <4>1. CASE j < k
        <5>1. chunks[j].end <= chunks[k].first
          <6>1. j \in 1..(k - 1)
            BY <1>1, <3>2, <4>1
          <6> QED
            BY <1>0, <6>1, TilingAt
        <5>2. chunks[j].end \in 0..MaxItems
          BY <1>0, <1>1, ChunkTyped
        <5>3. \A i \in 1..(j - 1) : i \in 1..n /\ i <= k
          BY <1>1, <3>2, <4>1
        <5> QED
          BY SMTT(30), <3>2, <3>3, <3>4, <3>6, <4>1, <5>1, <5>2, <5>3
      <4>2. CASE j = k
        <5>1. \A i \in 1..(j - 1) : i \in 1..n /\ i <= k
          BY <1>1, <3>2, <4>2
        <5> QED
          BY <3>2, <3>3, <3>4, <3>6, <4>2, <5>1
      <4>3. CASE j > k
        <5>1. ~Merged(j)' /\ j # 1
          BY <1>1, <3>2, <3>6, <4>3
        <5>2. j - 1 \in 1..n /\ (j - 1 <= k => j - 1 = k)
          BY <1>1, <3>2, <4>3
        <5>3. j - 1 = k => chunks[j].first = chunks[k].end
          BY <1>0, <1>1, <5>1, TilingAt
        <5>4. Merged(j - 1)' => chunks'[j].first = Len(output')
          BY <3>3, <3>4, <3>6, <5>2, <5>3
        <5> QED
          BY <5>1, <5>4
      <4> QED
        BY <1>1, <3>2, <4>1, <4>2, <4>3
    <3>8. (\A j \in 1..n : Merged(j)') => Len(output') = start
      <4> SUFFICES ASSUME \A j \in 1..n : Merged(j)' PROVE Len(output') = start
        OBVIOUS
      <4>1. n \in 1..n
        BY <1>1, <3>2
      <4>2. n <= k
        BY <3>6, <4>1
      <4>3. k = n
        BY <1>1, <3>2, <4>2
      <4> QED
        BY <1>0, <1>1, <3>3, <4>1, <4>3, TilingAt
    <3> QED
      BY <2>2, <3>4, <3>7, <3>8 DEF MergedPrefix
  <2> QED
    BY <2>1, <2>3, <2>4
<1>8. CASE CallerElsewhere
  BY <1>2, <1>3, <1>8 DEF CallerElsewhere
<1> QED
  BY <1>4, <1>6, <1>7, <1>8, StepCases

LEMMA MinIs ==
  ASSUME NEW S \in SUBSET Int, NEW m \in S, \A i \in S : m <= i
  PROVE  Sequential!Min(S) = m
<1>1. \A x \in S : (\A y \in S : x =< y) => x = m
  OBVIOUS
<1> QED
  BY <1>1 DEF Sequential!Min

LEMMA OutcomeStep ==
  ASSUME IInv, [Next]_vars
  PROVE  OutcomeCorrect'
<1>0. /\ TypeOK /\ Counters /\ OutputPrefix /\ ChunkProgress /\ ChunkTiling
      /\ MergedPrefix /\ OutcomeCorrect
  BY DEF IInv
<1>1. UNCHANGED input
  BY StepCases DEF CallerElsewhere, Spawn, Merge, Take, Run
<1>2. /\ input.items \in 0..MaxItems
      /\ input.failing \subseteq 0..(input.items - 1)
      /\ input.failing \in SUBSET Int
  BY <1>0, InputFields DEF TypeOK
<1>3. /\ Len(output) \in Nat /\ output \in Seq(Item)
  BY <1>0 DEF TypeOK
<1>4. CASE UNCHANGED result
  BY <1>0, <1>1, <1>4 DEF OutcomeCorrect, Pending
<1>5. ASSUME result' = Err("boundary", input.items), input.malformed
      PROVE  OutcomeCorrect'
  BY <1>1, <1>5 DEF OutcomeCorrect, Sequential!Outcome, Err
<1>6. ASSUME NEW i \in input.failing, result' = Err("item", i),
             ~input.malformed, \A j \in 0..(i - 1) : j \notin input.failing
      PROVE  OutcomeCorrect'
  <2>1. \A j \in input.failing : i <= j
    BY <1>2, <1>6
  <2>2. Sequential!Min(input.failing) = i
    BY <1>2, <2>1, MinIs
  <2> QED
    BY <1>1, <1>6, <2>2 DEF OutcomeCorrect, Sequential!Outcome, Err
<1>7. ASSUME result' = Ok(output), ~input.malformed, Len(output) = input.items
      PROVE  OutcomeCorrect'
  <2>1. input.failing = {}
    BY <1>0, <1>2, <1>7 DEF OutputPrefix
  <2>2. output = [i \in 1..input.items |-> i - 1]
    BY <1>0, <1>3, <1>7 DEF OutputPrefix
  <2> QED
    BY <1>1, <1>7, <2>1, <2>2 DEF OutcomeCorrect, Sequential!Outcome, Ok
<1>8. CASE ScanFails
  BY <1>5, <1>8 DEF ScanFails, Return
<1>9. CASE SequentialItem /\ ~UNCHANGED result
  <2>1. /\ Len(output) \in input.failing
        /\ result' = Err("item", Len(output))
        /\ pc = "sequential"
    BY <1>9 DEF SequentialItem, Return
  <2>2. ~input.malformed
    BY <1>0, <2>1 DEF Counters, AtEnd
  <2> QED
    BY <1>0, <1>6, <2>1, <2>2 DEF OutputPrefix
<1>10. CASE SequentialEnds
  <2>1. result' = Ok(output) /\ Len(output) = scanned /\ pc = "sequential"
    BY <1>10 DEF SequentialEnds, Return
  <2> QED
    BY <1>0, <1>7, <2>1 DEF Counters, AtEnd
<1>11. CASE Join /\ ~UNCHANGED result
  BY <1>0, <1>5, <1>11 DEF Join, Return, Counters
<1>12. CASE Merge /\ ~UNCHANGED result
  <2>1. PICK k \in DOMAIN chunks :
          /\ NextInOrder(k)
          /\ chunks[k].status = "sent"
          /\ Failed(chunks[k])
          /\ result' = Err("item", chunks[k].next)
    BY <1>0, <1>12, MergeEffect DEF Return
  <2>2. pc = "merge" /\ ~input.malformed
    BY <1>0, <1>12 DEF Merge, Counters, AtEnd
  <2>3. chunks[k].first = Len(output)
    BY <1>0, <2>1, <2>2, MergeNext
  <2>4. chunks[k].next \in input.failing
    BY <1>0, <2>1 DEF ChunkProgress
  <2>5. /\ \A j \in chunks[k].first..(chunks[k].next - 1) : j \notin input.failing
        /\ \A j \in 0..(Len(output) - 1) : j \notin input.failing
    BY <1>0 DEF ChunkProgress, OutputPrefix
  <2>6. \A j \in 0..(chunks[k].next - 1) : j \notin input.failing
    BY <1>3, <2>3, <2>5
  <2> QED
    BY <1>6, <2>1, <2>2, <2>4, <2>6
<1>13. CASE MergeEnds
  <2>1. result' = Ok(output) /\ pc = "merge"
    BY <1>13 DEF MergeEnds, Return
  <2>2. ~input.malformed /\ start = input.items
    BY <1>0, <2>1 DEF Counters, AtEnd
  <2>3. \A k \in DOMAIN chunks : Merged(k)
    <3>1. \A k \in DOMAIN chunks : chunks[k].status \in {"sent", "merged"}
      BY <1>0, <2>1 DEF ChunkProgress
    <3>2. \A k \in DOMAIN chunks : chunks[k].status # "sent"
      BY <1>13 DEF MergeEnds, WithStatus
    <3> QED
      BY <3>1, <3>2 DEF Merged
  <2>4. Len(output) = start
    BY <1>0, <2>1, <2>3 DEF MergedPrefix
  <2> QED
    BY <1>7, <2>1, <2>2, <2>4
<1>14. CASE ScanItem \/ ScanEnds \/ TakeInitial \/ TakeScanned
            \/ BoundaryFails \/ Spawn \/ ScopeBodyEnds
  BY <1>4, <1>14 DEF ScanItem, ScanEnds, TakeInitial, TakeScanned,
                     BoundaryFails, Spawn, ScopeBodyEnds
<1>15. ASSUME NEW t \in Threads, Take(t) \/ Run(t) PROVE OutcomeCorrect'
  BY <1>4, <1>15 DEF Take, Run
<1>16. CASE Returned \/ UNCHANGED vars
  BY <1>4, <1>16 DEF Returned, vars
<1> QED
  BY <1>4, <1>8, <1>9, <1>10, <1>11, <1>12, <1>13, <1>14, <1>15, <1>16
     DEF Next, Caller

-----------------------------------------------------------------------------
(* The history.                                                             *)

LEMMA DoneIsQuiet ==
  ASSUME AtWork, [Next]_vars, pc = "done"
  PROVE  UNCHANGED vars
<1>1. CASE ScanItem \/ ScanFails \/ ScanEnds \/ SequentialItem \/ SequentialEnds
  BY <1>1 DEF ScanItem, ScanFails, ScanEnds, SequentialItem, SequentialEnds
<1>2. CASE TakeInitial \/ TakeScanned \/ BoundaryFails \/ Spawn \/ ScopeBodyEnds
  BY <1>2 DEF TakeInitial, TakeScanned, BoundaryFails, Spawn, ScopeBodyEnds,
              Filling, ChunkFilled
<1>3. CASE Join \/ Merge \/ MergeEnds
  BY <1>3 DEF Join, Merge, MergeEnds
<1>4. ASSUME NEW t \in Threads, Take(t) \/ Run(t) PROVE FALSE
  BY <1>4 DEF Take, Run, AtWork
<1>5. CASE Returned \/ UNCHANGED vars
  BY <1>5 DEF Returned
<1> QED
  BY <1>1, <1>2, <1>3, <1>4, <1>5 DEF Next, Caller

LEMMA AtWorkStep ==
  ASSUME HistoryIInv, [Next]_vars
  PROVE  AtWork'
<1>0. TypeOK /\ Counters /\ ChunkProgress /\ AtWork
  BY DEF HistoryIInv, IInv
<1>1. input.minItems \in Nat /\ scanned \in Nat
  <2>1. input.minItems \in Thresholds
    BY <1>0, InputFields DEF TypeOK
  <2>2. scanned \in 0..MaxItems
    BY <1>0 DEF TypeOK
  <2>3. MaxItems \in Nat /\ Thresholds \subseteq Nat
    BY PipelineAssumption DEF PipelineAssumption
  <2>4. \A n \in Thresholds : n \in Nat
    BY <2>3
  <2>5. \A n \in 0..MaxItems : n \in Nat
    OBVIOUS
  <2> QED
    BY <2>1, <2>2, <2>4, <2>5
<1> USE <1>0, <1>1 DEF AtWork, BelowThresholds
<1>2. CASE pc = "done"
  BY <1>2, DoneIsQuiet DEF vars, WithStatus
<1>3. CASE ScanItem \/ SequentialItem
  BY <1>3 DEF ScanItem, SequentialItem, Return, Counters, WithStatus
<1>4. CASE ScanFails \/ SequentialEnds
  BY <1>4 DEF ScanFails, SequentialEnds, Return, Counters, WithStatus
<1>5. CASE ScanEnds
  BY <1>5 DEF ScanEnds
<1>6. CASE TakeInitial \/ TakeScanned
  BY <1>6 DEF TakeInitial, TakeScanned, Filling
<1>7. CASE BoundaryFails \/ Spawn \/ ScopeBodyEnds
  BY <1>7 DEF BoundaryFails, Spawn, ScopeBodyEnds, Filling, ChunkFilled
<1>8. CASE Join
  BY <1>8 DEF Join, Return, WithStatus
<1>9. CASE Merge \/ MergeEnds
  <2>1. \A k \in DOMAIN chunks : chunks[k].status \in {"sent", "merged"}
    BY <1>9 DEF Merge, MergeEnds, ChunkProgress
  <2>2. UNCHANGED <<scanned, input>> /\ pc' \in {"merge", "done"}
    BY <1>9 DEF Merge, MergeEnds, Return
  <2>3. pc' = "done" => UNCHANGED chunks
    BY <1>9 DEF Merge, MergeEnds, Return
  <2>4. pc = "merge"
    BY <1>9 DEF Merge, MergeEnds
  <2> QED
    BY <2>1, <2>2, <2>3, <2>4 DEF WithStatus
<1>10. ASSUME NEW t \in Threads, Take(t) \/ Run(t), pc # "done" PROVE AtWork'
  BY <1>10 DEF Take, Run
<1>11. CASE Returned \/ UNCHANGED vars
  BY <1>11 DEF Returned, vars, WithStatus
<1> QED
  BY <1>2, <1>3, <1>4, <1>5, <1>6, <1>7, <1>8, <1>9, <1>10, <1>11
     DEF Next, Caller

(* What a running chunk decodes next, no chunk has decoded: chunks do not   *)
(* overlap.                                                                 *)
LEMMA NextUnreached ==
  ASSUME TypeOK, ChunkProgress, ChunkTiling, NEW k \in DOMAIN chunks,
         chunks[k].status = "running", chunks[k].next # chunks[k].end
  PROVE  ~ReachedByChunks(chunks[k].next)
<1> DEFINE i == chunks[k].next
<1> SUFFICES ASSUME NEW j \in DOMAIN chunks, i \in Reached(chunks[j])
             PROVE  FALSE
  BY DEF ReachedByChunks
<1>1. /\ chunks[k].first \in Int /\ chunks[k].end \in Int /\ i \in Int
      /\ chunks[j].first \in Int /\ chunks[j].end \in Int
      /\ chunks[j].next \in Int
      /\ k \in 1..Len(chunks) /\ j \in 1..Len(chunks) /\ Len(chunks) \in Nat
  <2>1. \A n \in 0..MaxItems : n \in Int
    OBVIOUS
  <2> QED
    BY <2>1, ChunkTyped
<1>2. chunks[k].first <= i /\ i < chunks[k].end
  BY <1>1, ProgressAt
<1>3. chunks[j].first <= i /\ i < chunks[j].end
  BY <1>1, ProgressAt DEF Reached, Failed
<1>4. CASE j = k
  BY <1>1, <1>4 DEF Reached
<1>5. CASE j < k
  <2>1. j \in 1..(k - 1)
    BY <1>1, <1>5
  <2>2. chunks[j].end <= chunks[k].first
    BY <2>1, TilingAt
  <2> QED
    BY <1>1, <1>2, <1>3, <2>2
<1>6. CASE k < j
  <2>0. k \in 1..(j - 1)
    BY <1>1, <1>6
  <2>1. chunks[k].end <= chunks[j].first
    BY <2>0, TilingAt
  <2> QED
    BY <1>1, <1>2, <1>3, <2>1
<1> QED
  BY <1>1, <1>4, <1>5, <1>6

(* The chunk that moved alone decides what has been reached since.          *)
LEMMA ReachedTouch ==
  ASSUME NEW k, Touches(k), Reached(chunks'[k]) = Reached(chunks[k])
  PROVE  \A i : ReachedByChunks(i)' <=> ReachedByChunks(i)
<1>1. \A j \in DOMAIN chunks : Reached(chunks'[j]) = Reached(chunks[j])
  BY DEF Touches
<1> QED
  BY <1>1 DEF ReachedByChunks, Touches

LEMMA DecodeAt ==
  ASSUME TypeOK, NEW i \in Item, Decode(i)
  PROVE  /\ decodes'[i] = decodes[i] + 1
         /\ \A j \in Item : j # i => decodes'[j] = decodes[j]
BY DEF TypeOK, Decode

(* A step of an action that leaves the history, the output and the chunks   *)
(* alone and does not return.                                               *)
LEMMA HistoryElsewhere ==
  ASSUME HistoryIInv, UNCHANGED <<input, chunks, output, decodes, result>>,
         \/ pc' = pc
         \/ pc = "scan" /\ pc' \in {"sequential", "fill"}
         \/ pc \in {"fill", "join"} /\ pc' \in {"join", "merge"}
  PROVE  DecodesCounted' /\ DecodedOnce'
<1>1. Counters /\ DecodesCounted /\ DecodedOnce /\ output \in Seq(Item)
  BY DEF HistoryIInv, IInv, TypeOK
<1>2. \A i : ReachedByChunks(i)' <=> ReachedByChunks(i)
  BY DEF ReachedByChunks
<1>3. DecodedOnce'
  BY <1>1 DEF DecodedOnce
<1>4. CASE pc' = pc
  BY <1>1, <1>2, <1>3, <1>4 DEF DecodesCounted
<1>5. CASE pc = "scan" /\ pc' \in {"sequential", "fill"}
  <2>1. chunks = <<>> /\ output = <<>>
    BY <1>1, <1>5 DEF Counters
  <2>2. \A i : ~ReachedByChunks(i)
    BY <2>1 DEF ReachedByChunks
  <2>3. \A i \in Item : ~(i < Len(output))
    BY <2>1 DEF Item
  <2> QED
    BY <1>1, <1>2, <1>3, <1>5, <2>2, <2>3 DEF DecodesCounted
<1>6. CASE pc \in {"fill", "join"} /\ pc' \in {"join", "merge"}
  <2>1. output = <<>>
    BY <1>1, <1>6 DEF Counters
  <2>2. \A i \in Item : ~(i < Len(output))
    BY <2>1 DEF Item
  <2> QED
    BY <1>1, <1>2, <1>3, <1>6, <2>2 DEF DecodesCounted
<1> QED
  BY <1>3, <1>4, <1>5, <1>6

(* Before a call returns, the history only says how often items were given. *)
LEMMA OnceWhileRunning ==
  ASSUME Counters, pc' # "done", UNCHANGED result, pc # "done",
         \A i \in Item : decodes'[i] <= 1
  PROVE  DecodedOnce'
BY DEF DecodedOnce, Counters, Pending, Sequential!Pending

LEMMA DecodesStep ==
  ASSUME HistoryIInv, IInv', [Next]_vars
  PROVE  DecodesCounted' /\ DecodedOnce'
<1>0. /\ TypeOK /\ Counters /\ OutputPrefix /\ ChunkProgress /\ ChunkTiling
      /\ MergedPrefix /\ DecodesCounted /\ AtWork /\ DecodedOnce
  BY DEF HistoryIInv, IInv
<1>1. /\ input.items \in 0..MaxItems /\ scanned \in 0..MaxItems
      /\ output \in Seq(Item) /\ Len(output) \in Nat /\ MaxItems \in Nat
      /\ decodes \in [Item -> Nat]
      /\ \A i \in Item : decodes[i] \in Nat /\ decodes[i] <= 1
  BY <1>0, InputFields, PipelineAssumption DEF TypeOK, DecodedOnce
<1>2. CASE pc = "done"
  <2>1. UNCHANGED vars
    BY <1>0, <1>2, DoneIsQuiet
  <2> QED
    BY <2>1, HistoryElsewhere DEF vars
<1>3. CASE ScanItem \/ ScanEnds \/ TakeInitial \/ TakeScanned \/ BoundaryFails
           \/ ScopeBodyEnds \/ Returned \/ UNCHANGED vars
  <2>1. UNCHANGED <<input, chunks, output, decodes, result>>
    BY <1>3 DEF ScanItem, ScanEnds, TakeInitial, TakeScanned, BoundaryFails,
                ScopeBodyEnds, Returned, vars
  <2>2. \/ pc' = pc
        \/ pc = "scan" /\ pc' \in {"sequential", "fill"}
        \/ pc \in {"fill", "join"} /\ pc' \in {"join", "merge"}
    BY <1>3 DEF ScanItem, ScanEnds, TakeInitial, TakeScanned, BoundaryFails,
                ScopeBodyEnds, Returned, vars, Filling, ChunkFilled
  <2> QED
    BY <2>1, <2>2, HistoryElsewhere
<1>4. ASSUME NEW at \in Int, result' = Err("boundary", at), pc' = "done",
             UNCHANGED decodes
      PROVE  DecodesCounted' /\ DecodedOnce'
  <2>1. result'.tag = "err" /\ result'.cause = "boundary"
    BY <1>4 DEF Err, Sequential!Err
  <2> QED
    BY <1>1, <1>4, <2>1 DEF DecodesCounted, DecodedOnce
<1>5. CASE ScanFails
  BY <1>1, <1>4, <1>5 DEF ScanFails, Return
<1>6. CASE SequentialItem
  <2> DEFINE n == Len(output)
  <2>1. pc = "sequential" /\ n < scanned /\ Decode(n) /\ UNCHANGED <<input, chunks>>
    BY <1>6 DEF SequentialItem
  <2>2. n \in Item /\ \A j \in Item : j \in Int
    BY <1>0, <1>1, <2>1 DEF Counters, Item
  <2>3. \A j \in Item : decodes[j] = IF j < n THEN 1 ELSE 0
    BY <1>0, <2>1 DEF DecodesCounted
  <2>4. \A j \in Item : decodes'[j] = IF j < n + 1 THEN 1 ELSE 0
    <3>1. /\ decodes'[n] = decodes[n] + 1
          /\ \A j \in Item : j # n => decodes'[j] = decodes[j]
      BY <1>0, <2>1, <2>2, DecodeAt
    <3> QED
      BY <1>1, <2>2, <2>3, <3>1
  <2>5. CASE n \in input.failing
    <3>1. pc' = "done" /\ result' = Err("item", n)
      BY <1>6, <2>5 DEF SequentialItem, Return
    <3>2. result'.tag = "err" /\ result'.item = n
      BY <3>1 DEF Err, Sequential!Err
    <3>3. \A j \in 0..n : j \in Item /\ j < n + 1
      BY <1>1, <2>2 DEF Item
    <3> QED
      BY <2>4, <3>1, <3>2, <3>3 DEF DecodesCounted, DecodedOnce
  <2>6. CASE n \notin input.failing
    <3>1. output' = Append(output, n) /\ UNCHANGED <<pc, result>>
      BY <1>6, <2>6 DEF SequentialItem
    <3>2. Len(output') = n + 1
      BY <1>1, <3>1
    <3>3. DecodesCounted'
      BY <2>1, <2>4, <3>1, <3>2 DEF DecodesCounted
    <3>4. DecodedOnce'
      BY <1>0, <2>1, <2>4, <3>1, OnceWhileRunning
    <3> QED
      BY <3>3, <3>4
  <2> QED
    BY <2>5, <2>6
<1>7. ASSUME result' = Ok(output), pc' = "done", UNCHANGED <<input, decodes>>,
             \A i \in 0..(input.items - 1) : decodes[i] = 1
      PROVE  DecodesCounted' /\ DecodedOnce'
  <2>1. result'.tag = "ok"
    BY <1>7 DEF Ok, Sequential!Ok
  <2> QED
    BY <1>1, <1>7, <2>1 DEF DecodesCounted, DecodedOnce
<1>8. CASE SequentialEnds
  <2>1. /\ pc = "sequential" /\ Len(output) = scanned /\ scanned = input.items
        /\ Return(Ok(output)) /\ UNCHANGED <<input, decodes>>
    BY <1>0, <1>8 DEF SequentialEnds, Counters, AtEnd
  <2>2. \A i \in 0..(input.items - 1) : decodes[i] = 1
    BY <1>0, <1>1, <2>1 DEF DecodesCounted, Item
  <2> QED
    BY <1>7, <2>1, <2>2 DEF Return
<1>9. CASE Spawn
  <2>1. /\ pc = "fill" /\ chunks' = Append(chunks, Chunk(start, itemCount))
        /\ UNCHANGED <<pc, input, output, decodes, result>>
    BY <1>9 DEF Spawn, ChunkFilled
  <2>2. Reached(Chunk(start, itemCount)) = {}
    BY <1>0 DEF Reached, Chunk, TypeOK
  <2>3. chunks \in Seq(ChunkRecord) /\ Len(chunks) \in Nat
    BY <1>0 DEF TypeOK
  <2>4. /\ DOMAIN chunks = 1..Len(chunks) /\ DOMAIN chunks' = 1..(Len(chunks) + 1)
        /\ \A k \in DOMAIN chunks : chunks'[k] = chunks[k]
        /\ chunks'[Len(chunks) + 1] = Chunk(start, itemCount)
    BY <2>1, <2>3
  <2>5. \A i : ReachedByChunks(i)' <=> ReachedByChunks(i)
    BY <2>2, <2>3, <2>4 DEF ReachedByChunks
  <2>6. DecodesCounted'
    BY <1>0, <2>1, <2>5 DEF DecodesCounted
  <2> QED
    BY <1>0, <1>1, <2>1, <2>6, OnceWhileRunning
<1>10. ASSUME NEW t \in Threads, Take(t) PROVE DecodesCounted' /\ DecodedOnce'
  <2>1. PICK k \in DOMAIN chunks :
          /\ Touches(k)
          /\ chunks[k].status = "queued"
          /\ chunks'[k] = [chunks[k] EXCEPT !.status = "running", !.by = t]
    BY <1>0, <1>10, TakeEffect
  <2>2. chunks[k] \in ChunkRecord
    BY <1>0, ChunkTyped
  <2>3. Reached(chunks'[k]) = Reached(chunks[k])
    BY <2>1, <2>2 DEF Reached, ChunkRecord
  <2>4. \A i : ReachedByChunks(i)' <=> ReachedByChunks(i)
    BY <2>1, <2>3, ReachedTouch
  <2>5. UNCHANGED <<input, pc, output, decodes, result>>
    BY <1>10 DEF Take
  <2> QED
    BY <1>0, <2>4, <2>5 DEF DecodesCounted, DecodedOnce
<1>11. ASSUME NEW t \in Threads, Run(t) PROVE DecodesCounted' /\ DecodedOnce'
  <2>1. PICK k \in DOMAIN chunks :
          /\ Touches(k)
          /\ chunks[k].status = "running"
          /\ Sends(k) \/ Rejects(k) \/ Advances(k)
          /\ IF chunks[k].next = chunks[k].end THEN UNCHANGED decodes
             ELSE Decode(chunks[k].next)
    BY <1>0, <1>11, RunEffect
  <2> DEFINE c == chunks[k]
             n == chunks[k].next
  <2>2. /\ c \in ChunkRecord /\ n \in 0..MaxItems /\ c.end \in 0..MaxItems
        /\ c.first \in 0..MaxItems
    BY <1>0, ChunkTyped
  <2>3. UNCHANGED <<input, pc, output, result>>
    BY <1>11 DEF Run
  <2>4. pc \in {"fill", "join"}
    <3>1. pc # "done"
      BY <1>0, <2>1 DEF AtWork, WithStatus
    <3>2. pc # "merge"
      BY <1>0, <2>1 DEF ChunkProgress
    <3>3. pc \notin {"scan", "sequential"}
      BY <1>0, <2>1 DEF Counters
    <3> QED
      BY <1>0, <3>1, <3>2, <3>3 DEF TypeOK
  <2>5. CASE Sends(k)
    <3>1. Reached(chunks'[k]) = Reached(c)
      BY <2>1, <2>2, <2>5 DEF Sends, Reached, Failed, ChunkRecord
    <3>2. \A i : ReachedByChunks(i)' <=> ReachedByChunks(i)
      BY <2>1, <3>1, ReachedTouch
    <3>3. UNCHANGED decodes
      BY <2>1, <2>5 DEF Sends
    <3> QED
      BY <1>0, <2>3, <3>2, <3>3 DEF DecodesCounted, DecodedOnce
  <2>6. CASE Rejects(k) \/ Advances(k)
    <3>1. n # c.end /\ Decode(n) /\ n < c.end
      BY <1>0, <2>1, <2>2, <2>6, ProgressAt DEF Rejects, Advances
    <3>2. n \in Item /\ c.first <= n
      BY <1>0, <1>1, <2>2, <3>1, ProgressAt DEF Item
    <3>3. ~ReachedByChunks(n)
      BY <1>0, <2>1, <3>1, NextUnreached
    <3>4. Reached(chunks'[k]) = c.first..n /\ Reached(c) = c.first..(n - 1)
      <4>1. Reached(c) = c.first..(n - 1)
        BY <2>1 DEF Reached
      <4>2. CASE Rejects(k)
        <5>1. /\ chunks'[k].first = c.first /\ chunks'[k].status = "sent"
              /\ chunks'[k].next = n /\ chunks'[k].end = c.end
          BY <2>2, <4>2 DEF Rejects, ChunkRecord
        <5>2. Failed(chunks'[k])
          BY <3>1, <5>1 DEF Failed
        <5> QED
          BY <4>1, <5>1, <5>2 DEF Reached
      <4>3. CASE Advances(k)
        <5>1. /\ chunks'[k].first = c.first /\ chunks'[k].status = "running"
              /\ chunks'[k].next = n + 1
          BY <2>1, <2>2, <4>3 DEF Advances, ChunkRecord
        <5> QED
          BY <2>2, <4>1, <5>1 DEF Reached
      <4> QED
        BY <2>6, <4>2, <4>3
    <3>5. \A i : ReachedByChunks(i)' <=> ReachedByChunks(i) \/ i = n
      <4>1. \A j \in DOMAIN chunks : j # k => Reached(chunks'[j]) = Reached(chunks[j])
        BY <2>1 DEF Touches
      <4>2. \A i : i \in Reached(chunks'[k]) <=> i \in Reached(chunks[k]) \/ i = n
        BY <2>2, <3>2, <3>4
      <4>3. DOMAIN chunks' = DOMAIN chunks
        BY <2>1 DEF Touches
      <4> QED
        BY <4>1, <4>2, <4>3 DEF ReachedByChunks
    <3>6. \A i \in Item : decodes[i] = IF ReachedByChunks(i) THEN 1 ELSE 0
      BY <1>0, <2>4 DEF DecodesCounted
    <3>7. \A i \in Item : decodes'[i] = IF ReachedByChunks(i)' THEN 1 ELSE 0
      <4>1. /\ decodes'[n] = decodes[n] + 1
            /\ \A j \in Item : j # n => decodes'[j] = decodes[j]
        BY <1>0, <3>1, <3>2, DecodeAt
      <4> QED
        BY <3>2, <3>3, <3>5, <3>6, <4>1
    <3>8. DecodesCounted'
      BY <2>3, <2>4, <3>7 DEF DecodesCounted
    <3>9. \A i \in Item : decodes'[i] <= 1
      BY <3>7
    <3>10. DecodedOnce'
      BY <1>0, <2>3, <2>4, <3>9, OnceWhileRunning
    <3> QED
      BY <3>8, <3>10
  <2> QED
    BY <2>1, <2>5, <2>6
<1>12. CASE Join
  <2>1. pc = "join" /\ UNCHANGED <<input, chunks, output, decodes>>
    BY <1>12 DEF Join
  <2>2. CASE boundaryError # NoItem
    <3>1. boundaryError \in Int
      BY <1>0 DEF TypeOK, NoItem
    <3> QED
      BY <1>4, <1>12, <2>1, <2>2, <3>1 DEF Join, Return
  <2>3. CASE boundaryError = NoItem
    BY <1>12, <2>1, <2>3, HistoryElsewhere DEF Join
  <2> QED
    BY <2>2, <2>3
<1>13. CASE Merge
  <2>1. PICK k \in DOMAIN chunks :
           /\ NextInOrder(k)
           /\ chunks[k].status = "sent"
           /\ \/ /\ Failed(chunks[k])
                 /\ Return(Err("item", chunks[k].next))
                 /\ UNCHANGED <<chunks, output>>
              \/ /\ ~Failed(chunks[k])
                 /\ output' = output \o Values(chunks[k])
                 /\ Touches(k)
                 /\ chunks'[k] = [chunks[k] EXCEPT !.status = "merged"]
                 /\ UNCHANGED <<pc, result>>
    BY <1>0, <1>13, MergeEffect
  <2> DEFINE c == chunks[k]
  <2>2. /\ c \in ChunkRecord /\ c.next \in 0..MaxItems /\ c.end \in 0..MaxItems
        /\ c.first \in 0..MaxItems /\ c.first < c.end /\ c.next <= c.end
    BY <1>0, ChunkTyped, ProgressAt
  <2>3. pc = "merge" /\ UNCHANGED <<input, decodes>>
    BY <1>13 DEF Merge
  <2>4. c.first = Len(output)
    BY <1>0, <2>1, <2>3, MergeNext
  <2>5. /\ \A i \in Item : decodes[i] = IF ReachedByChunks(i) THEN 1 ELSE 0
        /\ \A i \in Item : i < Len(output) => decodes[i] = 1
    BY <1>0, <2>3 DEF DecodesCounted
  <2>6. \A i \in Item : i \in Reached(c) => decodes[i] = 1
    BY <2>5 DEF ReachedByChunks
  <2>7. CASE Failed(c)
    <3>1. pc' = "done" /\ result' = Err("item", c.next)
      BY <2>1, <2>7 DEF Return
    <3>2. result'.tag = "err" /\ result'.item = c.next
      BY <3>1 DEF Err, Sequential!Err
    <3>3. Reached(c) = c.first..c.next /\ c.next < c.end
      BY <2>1, <2>7 DEF Reached, Failed
    <3>4. \A i \in 0..c.next : i \in Item /\ (i < Len(output) \/ i \in Reached(c))
      BY <1>1, <2>2, <2>4, <3>3 DEF Item
    <3>5. \A i \in 0..c.next : decodes[i] = 1
      BY <2>5, <2>6, <3>4
    <3> QED
      BY <1>1, <2>3, <3>1, <3>2, <3>5 DEF DecodesCounted, DecodedOnce
  <2>8. CASE ~Failed(c)
    <3>1. /\ output' = output \o Values(c) /\ Touches(k)
          /\ chunks'[k] = [c EXCEPT !.status = "merged"]
          /\ UNCHANGED <<pc, result>>
      BY <2>1, <2>8
    <3>2. c.next = c.end
      BY <2>2, <2>8 DEF Failed
    <3>3. Reached(c) = c.first..(c.end - 1) /\ Reached(chunks'[k]) = Reached(c)
      BY <2>2, <2>8, <3>1, <3>2 DEF Reached, Failed, ChunkRecord
    <3>4. \A i : ReachedByChunks(i)' <=> ReachedByChunks(i)
      BY <3>1, <3>3, ReachedTouch
    <3>5. Len(output') = c.end
      <4>1. Values(c) \in Seq(Item) /\ Len(Values(c)) = c.end - c.first
        BY <1>0, ValuesTyped
      <4>2. Len(output \o Values(c)) = Len(output) + Len(Values(c))
        BY <1>1, <4>1, ConcatLen
      <4> QED
        BY <1>1, <2>2, <2>4, <3>1, <4>1, <4>2
    <3>6. \A i \in Item : i < c.end => i < Len(output) \/ i \in Reached(c)
      BY <1>1, <2>2, <2>4, <3>3 DEF Item
    <3>7. \A i \in Item : i < Len(output') => decodes'[i] = 1
      BY <2>3, <2>5, <2>6, <3>5, <3>6
    <3>8. DecodesCounted'
      BY <2>3, <2>5, <3>1, <3>4, <3>7 DEF DecodesCounted
    <3>9. DecodedOnce'
      BY <1>0, <1>1, <2>3, <3>1, OnceWhileRunning
    <3> QED
      BY <3>8, <3>9
  <2> QED
    BY <2>7, <2>8
<1>14. CASE MergeEnds
  <2>1. /\ pc = "merge" /\ Return(Ok(output)) /\ UNCHANGED <<input, decodes>>
    BY <1>14 DEF MergeEnds
  <2>2. start = input.items
    BY <1>0, <2>1 DEF Counters
  <2>3. \A k \in DOMAIN chunks : Merged(k)
    <3>1. \A k \in DOMAIN chunks : chunks[k].status \in {"sent", "merged"}
      BY <1>0, <2>1 DEF ChunkProgress
    <3>2. \A k \in DOMAIN chunks : chunks[k].status # "sent"
      BY <1>14 DEF MergeEnds, WithStatus
    <3> QED
      BY <3>1, <3>2 DEF Merged
  <2>4. Len(output) = input.items
    BY <1>0, <2>1, <2>2, <2>3 DEF MergedPrefix
  <2>5. \A i \in 0..(input.items - 1) : decodes[i] = 1
    BY <1>0, <1>1, <2>1, <2>4 DEF DecodesCounted, Item
  <2> QED
    BY <1>7, <2>1, <2>5 DEF Return
<1> QED
  BY <1>2, <1>3, <1>5, <1>6, <1>8, <1>9, <1>10, <1>11, <1>12, <1>13, <1>14
     DEF Next, Caller

-----------------------------------------------------------------------------
LEMMA InitIInv == Init => IInv
<1> SUFFICES ASSUME Init PROVE IInv
  OBVIOUS
<1> USE PipelineAssumption DEF NoItem, Item
<1>0. input.items \in 0..MaxItems
  BY InputFields DEF Init
<1>1. TypeOK
  BY DEF Init, TypeOK, ResultOK
<1>2. Counters /\ OutputPrefix
  BY <1>0 DEF Init, Counters, OutputPrefix, AtEnd
<1>3. ChunkProgress /\ ChunkTiling /\ MergedPrefix
  BY DEF Init, ChunkProgress, ChunkTiling, MergedPrefix
<1>4. OutcomeCorrect
  BY DEF Init, OutcomeCorrect
<1> QED
  BY <1>1, <1>2, <1>3, <1>4 DEF IInv

(* The inductive invariant holds in every reachable state: the tiling of    *)
(* the spawned chunks is what ties the merge to the order of the input.     *)
THEOREM InductiveInvariant == Safety => []IInv
<1>1. IInv /\ [Next]_vars => IInv'
  BY TypeStep, CountersStep, OutputStep, ProgressStep, TilingStep, MergedStep,
     OutcomeStep DEF IInv
<1> QED
  BY <1>1, InitIInv, PTL DEF Safety

(* Every variable of the decoder keeps its type.                            *)
THEOREM TypeInvariant == Safety => []TypeOK
<1>1. IInv => TypeOK
  BY DEF IInv
<1> QED
  BY <1>1, InductiveInvariant, PTL

(* Whatever the input, the thresholds, the chunk size, the pool and its     *)
(* schedule, from_sequence_with_options returns what a sequential decoder   *)
(* of the same bytes would return.                                          *)
THEOREM OutcomeIsSequential == Safety => []OutcomeCorrect
<1>1. IInv => OutcomeCorrect
  BY DEF IInv
<1> QED
  BY <1>1, InductiveInvariant, PTL

(* The pipelined decoder implements the one-step one: each of its steps is  *)
(* the return of the sequential outcome or leaves the caller waiting.       *)
THEOREM Refinement == Safety => Sequential!Safety
<1>1. Init => Sequential!Init
  BY DEF Init, Sequential!Init, Pending
<1>2. IInv /\ IInv' /\ [Next]_vars => [Sequential!Return]_(Sequential!vars)
  <2> SUFFICES ASSUME IInv, IInv', [Next]_vars, ~UNCHANGED <<input, result>>
               PROVE  Sequential!Return
    BY DEF Sequential!vars
  <2>1. UNCHANGED input
    BY StepCases DEF CallerElsewhere, Spawn, Merge, Take, Run
  <2>2. result = Pending
    <3> SUFFICES ASSUME pc = "done" PROVE UNCHANGED result
      BY <2>1 DEF IInv, Counters
    <3>1. CASE ScanItem \/ ScanFails \/ ScanEnds \/ SequentialItem
               \/ SequentialEnds
      BY <3>1 DEF ScanItem, ScanFails, ScanEnds, SequentialItem, SequentialEnds
    <3>2. CASE TakeInitial \/ TakeScanned \/ BoundaryFails \/ Spawn
               \/ ScopeBodyEnds
      BY <3>2 DEF TakeInitial, TakeScanned, BoundaryFails, Spawn, ScopeBodyEnds,
                  Filling, ChunkFilled
    <3>3. CASE Join \/ Merge \/ MergeEnds \/ Returned \/ UNCHANGED vars
      BY <3>3 DEF Join, Merge, MergeEnds, Returned, vars
    <3>4. ASSUME NEW t \in Threads, Take(t) \/ Run(t) PROVE UNCHANGED result
      BY <3>4 DEF Take, Run
    <3> QED
      BY <3>1, <3>2, <3>3, <3>4 DEF Next, Caller
  <2>3. result' # Pending
    BY <2>1, <2>2
  <2>4. result' = Sequential!Outcome(input)
    BY <2>1, <2>3 DEF IInv, OutcomeCorrect, Pending
  <2> QED
    BY <2>1, <2>2, <2>4 DEF Sequential!Return, Pending
<1> QED
  BY <1>1, <1>2, InductiveInvariant, PTL DEF Safety, Sequential!Safety

-----------------------------------------------------------------------------
LEMMA EarlyStep ==
  ASSUME HistoryIInv, AtWork', DecodesCounted', IInv', [Next]_vars
  PROVE  NoEarlySideEffects'
<1>0. TypeOK /\ Counters /\ AtWork /\ NoEarlySideEffects /\ DecodesCounted
  BY DEF HistoryIInv, IInv
<1>1. TypeOK' /\ Counters' /\ AtWork'
  BY DEF IInv
<1>2. CASE pc = "done"
  <2>1. UNCHANGED vars
    BY <1>0, <1>2, DoneIsQuiet
  <2> QED
    BY <1>0, <2>1 DEF vars, NoEarlySideEffects, AtEnd, BelowThresholds
<1>3. CASE pc' \in {"fill", "join", "merge"}
  BY <1>1, <1>3 DEF AtWork, NoEarlySideEffects
<1>4. CASE pc' = "sequential"
  BY <1>1, <1>4 DEF Counters, NoEarlySideEffects
<1>5. CASE pc' = "scan"
  <2>1. \A i \in Item : decodes'[i] = 0
    <3>1. output' = <<>>
      BY <1>1, <1>5 DEF Counters
    <3> QED
      BY <1>5, <3>1 DEF DecodesCounted, Item
  <2> QED
    BY <2>1 DEF NoEarlySideEffects
<1>6. CASE pc' = "done" /\ pc # "done"
  <2>1. CASE pc \in {"join", "merge"}
    <3>1. UNCHANGED <<input, scanned>>
      <4>1. CASE Join \/ Merge \/ MergeEnds
        BY <4>1 DEF Join, Merge, MergeEnds
      <4>2. ASSUME NEW t \in Threads, Take(t) \/ Run(t)
            PROVE  UNCHANGED <<input, scanned>>
        BY <4>2 DEF Take, Run
      <4>3. CASE ScanItem \/ ScanFails \/ ScanEnds \/ SequentialItem \/ SequentialEnds
        BY <2>1, <4>3 DEF ScanItem, ScanFails, ScanEnds, SequentialItem, SequentialEnds
      <4>4. CASE TakeInitial \/ TakeScanned \/ BoundaryFails \/ Spawn \/ ScopeBodyEnds
        BY <2>1, <4>4 DEF TakeInitial, TakeScanned, BoundaryFails, Spawn,
                          ScopeBodyEnds, Filling, ChunkFilled
      <4>5. CASE Returned \/ UNCHANGED vars
        BY <4>5 DEF Returned, vars
      <4> QED
        BY <4>1, <4>2, <4>3, <4>4, <4>5 DEF Next, Caller
    <3>2. ~BelowThresholds
      BY <1>0, <2>1 DEF AtWork
    <3> QED
      BY <3>1, <3>2 DEF NoEarlySideEffects, BelowThresholds
  <2>2. CASE SequentialItem \/ SequentialEnds
    <3>1. AtEnd /\ UNCHANGED <<input, scanned>>
      BY <1>0, <2>2 DEF SequentialItem, SequentialEnds, Counters
    <3> QED
      BY <3>1 DEF NoEarlySideEffects, AtEnd
  <2>3. CASE ScanFails
    <3>1. pc = "scan" /\ UNCHANGED decodes
      BY <2>3 DEF ScanFails
    <3>2. output = <<>>
      BY <1>0, <3>1 DEF Counters
    <3>3. \A i \in Item : decodes'[i] = 0
      BY <1>0, <3>1, <3>2 DEF DecodesCounted, Item
    <3> QED
      BY <3>3 DEF NoEarlySideEffects
  <2>4. ~(ScanItem \/ ScanEnds \/ TakeInitial \/ TakeScanned \/ BoundaryFails
          \/ Spawn \/ ScopeBodyEnds \/ Returned \/ UNCHANGED vars)
    BY <1>6 DEF ScanItem, ScanEnds, TakeInitial, TakeScanned, BoundaryFails,
                Spawn, ScopeBodyEnds, Returned, vars, Filling, ChunkFilled
  <2>5. ASSUME NEW t \in Threads, Take(t) \/ Run(t) PROVE FALSE
    BY <1>6, <2>5 DEF Take, Run
  <2>6. Join \/ Merge \/ MergeEnds => pc \in {"join", "merge"}
    BY DEF Join, Merge, MergeEnds
  <2> QED
    BY <2>1, <2>2, <2>3, <2>4, <2>5, <2>6 DEF Next, Caller
<1>7. pc' \in {"scan", "sequential", "fill", "join", "merge", "done"}
  BY <1>1 DEF TypeOK
<1> QED
  BY <1>2, <1>3, <1>4, <1>5, <1>6, <1>7

LEMMA InitHistory == Init => HistoryIInv
<1> SUFFICES ASSUME Init PROVE HistoryIInv
  OBVIOUS
<1>1. IInv
  BY InitIInv
<1>2. DecodesCounted
  BY DEF Init, DecodesCounted, Item
<1>3. AtWork
  BY DEF Init, AtWork
<1>4. DecodedOnce
  BY DEF Init, DecodedOnce, Pending, Sequential!Pending
<1>5. NoEarlySideEffects
  BY DEF Init, NoEarlySideEffects
<1> QED
  BY <1>1, <1>2, <1>3, <1>4, <1>5 DEF HistoryIInv

(* What each state of the call says of the items given to T: the output of  *)
(* the one thread, or the chunks, which do not overlap.                     *)
THEOREM HistoryInvariant == Safety => []HistoryIInv
<1>1. HistoryIInv /\ IInv' /\ [Next]_vars => HistoryIInv'
  BY AtWorkStep, DecodesStep, EarlyStep DEF HistoryIInv
<1> QED
  BY <1>1, InitHistory, InductiveInvariant, PTL DEF Safety

(* "Establish the item threshold before starting work with observable       *)
(* deserializer side effects" (parallel.rs): T sees no item before the      *)
(* sequence has been cut to its end or both thresholds are reached.         *)
THEOREM NoWorkBelowThresholds == Safety => []NoEarlySideEffects
<1>1. HistoryIInv => NoEarlySideEffects
  BY DEF HistoryIInv
<1> QED
  BY <1>1, HistoryInvariant, PTL

(* On every schedule an item is given to T at most once, and a result rests *)
(* on items that were: all of them, or those up to the rejected one.        *)
THEOREM ItemsDecodedOnce == Safety => []DecodedOnce
<1>1. HistoryIInv => DecodedOnce
  BY DEF HistoryIInv
<1> QED
  BY <1>1, HistoryInvariant, PTL

(* The join waits for every chunk, an early return included: when the       *)
(* function has returned, T is not run any more.                            *)
THEOREM QuietOnceReturned == Safety => QuietAfterReturn
<1>1. HistoryIInv /\ [Next]_vars => [pc = "done" => UNCHANGED decodes]_vars
  BY DoneIsQuiet DEF HistoryIInv, vars
<1> QED
  BY <1>1, HistoryInvariant, PTL DEF Safety, QuietAfterReturn
=============================================================================
