------------------------------ MODULE Pipeline ------------------------------
(***************************************************************************)
(* parallel::from_sequence_with_options: a CBOR sequence is cut into items  *)
(* by a structural scan and the items are decoded, by the caller alone or,  *)
(* above both thresholds, in chunks on a rayon pool while the scan goes on. *)
(*                                                                          *)
(* An item is its zero-based index.  Bytes are abstracted: the input says   *)
(* how many items the structural scan can cut, whether it then meets a      *)
(* malformed one, and which items from_slice::<T> rejects (their type,      *)
(* their UTF-8 or their depth: none of that is visible to the scan).        *)
(***************************************************************************)
EXTENDS Integers, Sequences, FiniteSets

CONSTANTS
  MaxItems,    \* bound on the items of an input
  ChunkItems,  \* CHUNK_ITEMS, the items of a full chunk
  Thresholds,  \* the values tried for ParallelOptions::min_items
  Threads,     \* the threads of the rayon pool
  Scope        \* the pool thread that runs the body of rayon::scope_fifo

ASSUME PipelineAssumption ==
  /\ MaxItems \in Nat
  /\ ChunkItems \in Nat \ {0}
  /\ Thresholds \subseteq Nat
  /\ Scope \in Threads

VARIABLES
  input,         \* the sequence and how it compares with the thresholds
  pc,            \* where the calling function is
  scanned,       \* items cut so far: the position of the SliceDecoder
  itemCount,     \* item_count: items moved into a chunk
  start,         \* start: first item of the chunk being filled
  boundaryError, \* boundary_error: the item the scan failed at, or NoItem
  chunks,        \* the spawned chunks, in spawn order
  output,        \* the decoded items, in the order they were appended
  result,        \* what the function returned, or Pending
  decodes        \* history: how often each item was given to from_slice

vars == <<input, pc, scanned, itemCount, start, boundaryError, chunks,
          output, result, decodes>>

NoItem == -1

Item == 0..(MaxItems - 1)

(* big: the input has at least min_bytes bytes.                            *)
Input ==
  UNION { [items: {n}, malformed: BOOLEAN, failing: SUBSET (0..(n - 1)),
           big: BOOLEAN, minItems: Thresholds] : n \in 0..MaxItems }

Sequential == INSTANCE SequentialDecode WITH Inputs <- Input

Pending == Sequential!Pending
Ok(values) == Sequential!Ok(values)
Err(cause, item) == Sequential!Err(cause, item)

(***************************************************************************)
(* A spawned closure.  Its items are first .. end - 1 and it has decoded    *)
(* those before next.  "queued": in the pool's queue; "running": a thread   *)
(* (by) executes it; "sent": its (start, Result) is in the channel, an Err  *)
(* exactly when it stopped at an item before the end; "merged": taken from  *)
(* the sorted vector and appended to the output.                            *)
(***************************************************************************)
Chunk(first, end) ==
  [first |-> first, end |-> end, next |-> first, status |-> "queued", by |-> Scope]

Failed(chunk) == chunk.next < chunk.end

Busy(t) ==
  \E k \in DOMAIN chunks : chunks[k].status = "running" /\ chunks[k].by = t

WithStatus(status) == {k \in DOMAIN chunks : chunks[k].status = status}

(* decoder.position() == input.len()                                       *)
AtEnd == scanned = input.items /\ ~input.malformed

BelowThresholds == ~input.big \/ scanned < input.minItems

Init ==
  /\ input \in Input
  /\ pc = "scan"
  /\ scanned = 0
  /\ itemCount = 0
  /\ start = 0
  /\ boundaryError = NoItem
  /\ chunks = <<>>
  /\ output = <<>>
  /\ result = Pending
  /\ decodes = [i \in Item |-> 0]

Return(r) ==
  /\ pc' = "done"
  /\ result' = r

(* from_slice::<T> runs on item i, with whatever side effects T has.        *)
Decode(i) == decodes' = [decodes EXCEPT ![i] = @ + 1]

-----------------------------------------------------------------------------
(* The scan up to the thresholds.                                          *)

ScanItem ==
  /\ pc = "scan"
  /\ BelowThresholds
  /\ scanned < input.items
  /\ scanned' = scanned + 1
  /\ UNCHANGED <<input, pc, itemCount, start, boundaryError, chunks, output,
                 result, decodes>>

ScanFails ==
  /\ pc = "scan"
  /\ BelowThresholds
  /\ scanned = input.items
  /\ input.malformed
  /\ Return(Err("boundary", scanned))
  /\ UNCHANGED <<input, scanned, itemCount, start, boundaryError, chunks,
                 output, decodes>>

(* Fault: only the byte threshold is awaited before work starts.            *)
ScanEndsByBytes ==
  /\ pc = "scan"
  /\ AtEnd \/ input.big
  /\ pc' = IF input.big THEN "fill" ELSE "sequential"
  /\ UNCHANGED <<input, scanned, itemCount, start, boundaryError, chunks,
                 output, result, decodes>>

ScanEnds ==
  /\ pc = "scan"
  /\ AtEnd \/ ~BelowThresholds
  /\ pc' = IF BelowThresholds THEN "sequential" ELSE "fill"
  /\ UNCHANGED <<input, scanned, itemCount, start, boundaryError, chunks,
                 output, result, decodes>>

-----------------------------------------------------------------------------
(* decode_raw: the items in order, up to the first that fails.             *)

SequentialItem ==
  /\ pc = "sequential"
  /\ Len(output) < scanned
  /\ LET i == Len(output)
     IN  /\ Decode(i)
         /\ IF i \in input.failing
            THEN /\ Return(Err("item", i))
                 /\ UNCHANGED output
            ELSE /\ output' = Append(output, i)
                 /\ UNCHANGED <<pc, result>>
  /\ UNCHANGED <<input, scanned, itemCount, start, boundaryError, chunks>>

SequentialEnds ==
  /\ pc = "sequential"
  /\ Len(output) = scanned
  /\ Return(Ok(output))
  /\ UNCHANGED <<input, scanned, itemCount, start, boundaryError, chunks,
                 output, decodes>>

-----------------------------------------------------------------------------
(* decode_raw_pipelined: the body of the scope.                            *)

Filling == pc = "fill" /\ itemCount - start < ChunkItems

(* An item left over from the scan up to the thresholds.                   *)
TakeInitial ==
  /\ Filling
  /\ itemCount < scanned
  /\ itemCount' = itemCount + 1
  /\ UNCHANGED <<input, pc, scanned, start, boundaryError, chunks, output,
                 result, decodes>>

TakeScanned ==
  /\ Filling
  /\ itemCount = scanned
  /\ scanned < input.items
  /\ scanned' = scanned + 1
  /\ itemCount' = itemCount + 1
  /\ UNCHANGED <<input, pc, start, boundaryError, chunks, output, result,
                 decodes>>

(* The chunk being filled is dropped with the items it has.                *)
BoundaryFails ==
  /\ Filling
  /\ itemCount = scanned
  /\ scanned = input.items
  /\ input.malformed
  /\ boundaryError' = itemCount
  /\ pc' = "join"
  /\ UNCHANGED <<input, scanned, itemCount, start, chunks, output, result,
                 decodes>>

(* The chunk is full, or the input has no more items.                      *)
ChunkFilled ==
  /\ pc = "fill"
  /\ \/ itemCount - start = ChunkItems
     \/ itemCount = scanned /\ AtEnd

(* Fault: start is computed once, outside the loop.                         *)
SpawnFromZero ==
  /\ ChunkFilled
  /\ itemCount > start
  /\ chunks' = Append(chunks, Chunk(0, itemCount))
  /\ start' = itemCount
  /\ UNCHANGED <<input, pc, scanned, itemCount, boundaryError, output, result,
                 decodes>>

Spawn ==
  /\ ChunkFilled
  /\ itemCount > start
  /\ chunks' = Append(chunks, Chunk(start, itemCount))
  /\ start' = itemCount
  /\ UNCHANGED <<input, pc, scanned, itemCount, boundaryError, output, result,
                 decodes>>

ScopeBodyEnds ==
  /\ ChunkFilled
  /\ itemCount = start
  /\ pc' = "join"
  /\ UNCHANGED <<input, scanned, itemCount, start, boundaryError, chunks,
                 output, result, decodes>>

-----------------------------------------------------------------------------
(* The pool.  A thread takes any queued chunk ("FIFO scheduling is only a  *)
(* preference"); the scope's own thread does so while it waits in the join. *)

(* Fault: the thread of the scope blocks in the join instead of helping.    *)
TakeByOthers(t) ==
  /\ t # Scope /\ ~Busy(t)
  /\ \E k \in WithStatus("queued") :
       chunks' = [chunks EXCEPT ![k].status = "running", ![k].by = t]
  /\ UNCHANGED <<input, pc, scanned, itemCount, start, boundaryError, output,
                 result, decodes>>

Take(t) ==
  /\ t = Scope => pc = "join"
  /\ ~Busy(t)
  /\ \E k \in WithStatus("queued") :
       chunks' = [chunks EXCEPT ![k].status = "running", ![k].by = t]
  /\ UNCHANGED <<input, pc, scanned, itemCount, start, boundaryError, output,
                 result, decodes>>

(* The next item of the chunk, or the send after the last or a failed one. *)
Run(t) ==
  /\ \E k \in WithStatus("running") :
       /\ chunks[k].by = t
       /\ IF chunks[k].next = chunks[k].end
          THEN /\ chunks' = [chunks EXCEPT ![k].status = "sent"]
               /\ UNCHANGED decodes
          ELSE /\ Decode(chunks[k].next)
               /\ chunks' = IF chunks[k].next \in input.failing
                            THEN [chunks EXCEPT ![k].status = "sent"]
                            ELSE [chunks EXCEPT ![k].next = @ + 1]
  /\ UNCHANGED <<input, pc, scanned, itemCount, start, boundaryError, output,
                 result>>

-----------------------------------------------------------------------------
(* The scope has ended: every spawned closure has run.                     *)

(* Fault: a boundary error is returned without waiting for the closures.    *)
JoinUnlessError ==
  /\ pc = "join"
  /\ IF boundaryError # NoItem
     THEN Return(Err("boundary", boundaryError))
     ELSE /\ WithStatus("queued") = {} /\ WithStatus("running") = {}
          /\ pc' = "merge"
          /\ UNCHANGED result
  /\ UNCHANGED <<input, scanned, itemCount, start, boundaryError, chunks,
                 output, decodes>>

Join ==
  /\ pc = "join"
  /\ WithStatus("queued") = {} /\ WithStatus("running") = {}
  /\ IF boundaryError # NoItem
     THEN Return(Err("boundary", boundaryError))
     ELSE /\ pc' = "merge"
          /\ UNCHANGED result
  /\ UNCHANGED <<input, scanned, itemCount, start, boundaryError, chunks,
                 output, decodes>>

(* Fault: the chunks are appended in the order they were received.          *)
NextReceived(k) == k \in WithStatus("sent")

(* sort_unstable_by_key, one element at a time.                            *)
NextInOrder(k) ==
  /\ k \in WithStatus("sent")
  /\ \A j \in WithStatus("sent") : chunks[k].first <= chunks[j].first

Values(chunk) == [i \in 1..(chunk.end - chunk.first) |-> chunk.first + i - 1]

(* Fault: with_item(offset), the index within the chunk.                    *)
MergeChunkIndex ==
  /\ pc = "merge"
  /\ \E k \in DOMAIN chunks :
       /\ NextInOrder(k)
       /\ IF Failed(chunks[k])
          THEN /\ Return(Err("item", chunks[k].next - chunks[k].first))
               /\ UNCHANGED <<chunks, output>>
          ELSE /\ output' = output \o Values(chunks[k])
               /\ chunks' = [chunks EXCEPT ![k].status = "merged"]
               /\ UNCHANGED <<pc, result>>
  /\ UNCHANGED <<input, scanned, itemCount, start, boundaryError, decodes>>

Merge ==
  /\ pc = "merge"
  /\ \E k \in DOMAIN chunks :
       /\ NextInOrder(k)
       /\ IF Failed(chunks[k])
          THEN /\ Return(Err("item", chunks[k].next))
               /\ UNCHANGED <<chunks, output>>
          ELSE /\ output' = output \o Values(chunks[k])
               /\ chunks' = [chunks EXCEPT ![k].status = "merged"]
               /\ UNCHANGED <<pc, result>>
  /\ UNCHANGED <<input, scanned, itemCount, start, boundaryError, decodes>>

MergeEnds ==
  /\ pc = "merge"
  /\ WithStatus("sent") = {}
  /\ Return(Ok(output))
  /\ UNCHANGED <<input, scanned, itemCount, start, boundaryError, chunks,
                 output, decodes>>

-----------------------------------------------------------------------------
Caller ==
  \/ ScanItem \/ ScanFails \/ ScanEnds
  \/ SequentialItem \/ SequentialEnds
  \/ TakeInitial \/ TakeScanned \/ BoundaryFails \/ Spawn \/ ScopeBodyEnds
  \/ Join \/ Merge \/ MergeEnds

(* The call has returned; nothing is left to do.                           *)
Returned == pc = "done" /\ UNCHANGED vars

Next ==
  \/ Caller
  \/ \E t \in Threads : Take(t) \/ Run(t)
  \/ Returned

(***************************************************************************)
(* The caller's own steps, the scope thread's taking of queued work while   *)
(* it waits, and the end of every closure a thread has begun.  Nothing      *)
(* promises that another thread of the pool ever steals a chunk.            *)
(***************************************************************************)
Fairness ==
  /\ WF_vars(Caller)
  /\ WF_vars(Take(Scope))
  /\ \A t \in Threads : WF_vars(Run(t))

Safety == Init /\ [][Next]_vars

Spec == Safety /\ Fairness
-----------------------------------------------------------------------------
ChunkRecord ==
  [first: 0..MaxItems, end: 0..MaxItems, next: 0..MaxItems,
   status: {"queued", "running", "sent", "merged"}, by: Threads]

ResultOK ==
  \/ result \in {Pending, Ok(output)}
  \/ \E cause \in {"boundary", "item"}, i \in 0..MaxItems :
       result = Err(cause, i)

TypeOK ==
  /\ input \in Input
  /\ pc \in {"scan", "sequential", "fill", "join", "merge", "done"}
  /\ scanned \in 0..MaxItems
  /\ itemCount \in 0..MaxItems
  /\ start \in 0..MaxItems
  /\ boundaryError \in {NoItem} \cup (0..MaxItems)
  /\ chunks \in Seq(ChunkRecord)
  /\ output \in Seq(Item)
  /\ ResultOK
  /\ decodes \in [Item -> Nat]

(* Whatever the thresholds, the chunks and the schedule of the pool, the     *)
(* function returns what the sequential decoder would: every item in input   *)
(* order, the error of the malformed item if there is one, or else the error *)
(* of the rejected item with the lowest index (parallel.rs 36, 182-195).     *)
OutcomeCorrect == result # Pending => result = Sequential!Outcome(input)

(* The same as a refinement: one call, one step to its result, and the step  *)
(* happens.                                                                  *)
Implements == Sequential!Spec

(* "Establish the item threshold before starting work with observable        *)
(* deserializer side effects": no item is given to T unless the whole        *)
(* sequence has been cut without an error or both thresholds are reached.    *)
NoEarlySideEffects ==
  (\E i \in Item : decodes[i] > 0) => AtEnd \/ ~BelowThresholds

(* No item is decoded twice, and a result rests on items really decoded: all *)
(* of them when it is Ok, every item up to the failing one when it names an  *)
(* item, although the chunks before it may have been run last.               *)
DecodedOnce ==
  /\ \A i \in Item : decodes[i] <= 1
  /\ result.tag = "ok" => \A i \in 0..(input.items - 1) : decodes[i] = 1
  /\ result.tag = "err" /\ result.cause = "item"
       => \A i \in 0..result.item : decodes[i] = 1

(* The scope outlives its closures: once the function has returned, no       *)
(* thread of the pool still runs T, an early error return included.          *)
QuietAfterReturn == [][pc = "done" => UNCHANGED decodes]_vars

(* The call returns, even if no other thread of the pool ever helps.         *)
Terminates == <>(pc = "done")
-----------------------------------------------------------------------------
(* The inductive invariant behind OutcomeCorrect.                           *)

Counters ==
  /\ start <= itemCount /\ itemCount <= scanned /\ scanned <= input.items
  /\ pc # "done" => result = Pending
  /\ pc \in {"scan", "sequential"} =>
       chunks = <<>> /\ start = 0 /\ itemCount = 0 /\ boundaryError = NoItem
  /\ pc \in {"scan", "fill", "join"} => output = <<>>
  /\ pc = "fill" => boundaryError = NoItem
  /\ boundaryError # NoItem => input.malformed /\ boundaryError = input.items
  /\ pc = "sequential" => AtEnd
  /\ pc \in {"join", "merge"} /\ boundaryError = NoItem =>
       AtEnd /\ start = input.items
  /\ pc = "merge" => boundaryError = NoItem

(* What has been appended: a prefix of the input, none of it rejected.       *)
OutputPrefix ==
  /\ \A i \in 1..Len(output) : output[i] = i - 1
  /\ Len(output) <= input.items
  /\ \A i \in 0..(Len(output) - 1) : i \notin input.failing

Merged(k) == chunks[k].status = "merged"

(* A chunk has decoded a prefix of its items and stopped at a rejected one.  *)
ChunkProgress ==
  \A k \in DOMAIN chunks : LET c == chunks[k] IN
    /\ c.first < c.end /\ c.first <= c.next /\ c.next <= c.end
    /\ \A i \in c.first..(c.next - 1) : i \notin input.failing
    /\ c.status = "sent" /\ Failed(c) => c.next \in input.failing
    /\ c.status = "merged" => c.next = c.end
    /\ pc \in {"fill", "join"} => c.status # "merged"
    /\ pc = "merge" => c.status \in {"sent", "merged"}

(* The chunks in spawn order tile the items before start; those appended to  *)
(* the output are the first of them, and the output ends where the next one  *)
(* begins.                                                                   *)
ChunkTiling ==
  /\ \A k \in DOMAIN chunks :
       /\ k = 1 => chunks[k].first = 0
       /\ k > 1 => chunks[k].first = chunks[k - 1].end
       /\ k = Len(chunks) => chunks[k].end = start
       /\ \A j \in 1..(k - 1) : chunks[j].end <= chunks[k].first
  /\ chunks = <<>> => start = 0

MergedPrefix ==
  pc \in {"fill", "join", "merge"} =>
    /\ \A k \in DOMAIN chunks :
         /\ Merged(k) => chunks[k].end <= Len(output)
         /\ Merged(k) => \A j \in 1..(k - 1) : Merged(j)
         /\ ~Merged(k) /\ (k = 1 \/ Merged(k - 1))
              => chunks[k].first = Len(output)
    /\ (\A k \in DOMAIN chunks : Merged(k)) => Len(output) = start

IInv ==
  /\ TypeOK
  /\ Counters
  /\ OutputPrefix
  /\ ChunkProgress
  /\ ChunkTiling
  /\ MergedPrefix
  /\ OutcomeCorrect

(* The inductive invariant behind DecodedOnce and NoEarlySideEffects: which  *)
(* items have been given to T, read off the output while one thread decodes  *)
(* and off the chunks while several do.                                      *)

Reached(c) ==
  c.first..(IF c.status = "sent" /\ Failed(c) THEN c.next ELSE c.next - 1)

ReachedByChunks(i) == \E k \in DOMAIN chunks : i \in Reached(chunks[k])

DecodesCounted ==
  /\ pc \in {"scan", "sequential"} =>
       \A i \in Item : decodes[i] = IF i < Len(output) THEN 1 ELSE 0
  /\ pc \in {"fill", "join", "merge"} =>
       \A i \in Item : decodes[i] = IF ReachedByChunks(i) THEN 1 ELSE 0
  /\ pc = "merge" => \A i \in Item : i < Len(output) => decodes[i] = 1

(* Threads are at work only behind the thresholds, and only until the join.  *)
AtWork ==
  /\ pc \in {"fill", "join", "merge"} => ~BelowThresholds
  /\ pc = "done" => WithStatus("queued") = {} /\ WithStatus("running") = {}

HistoryIInv ==
  /\ IInv
  /\ DecodesCounted
  /\ AtWork
  /\ DecodedOnce
  /\ NoEarlySideEffects
=============================================================================
