---------------------------- MODULE SliceReading ----------------------------
(***************************************************************************)
(* What a caller makes of a slice: the bulk decoders may be called on it    *)
(* before one of the iterators walks it.                                    *)
(***************************************************************************)
EXTENDS IteratorLanguage, TypedArrays

CONSTANT BulkRead(_) \* the slices that are given to the bulk decoders

readingVars == <<iteratorVars, arrayVars>>

ReadingInit == IteratorInit /\ ArrayInit

(* The bulk decoders validate as "basic" does.                              *)
CallArray(type) ==
  /\ mode = "basic" /\ iterator = "events" /\ BulkRead(input)
  /\ pos = 0 /\ yielded = <<>>
  /\ Call(type)
  /\ UNCHANGED iteratorVars

ReadArrayOn == ReadArray /\ UNCHANGED iteratorVars

(* The vector is given up when the iteration begins.                        *)
Iterate(next) ==
  /\ next
  /\ answer # Running
  /\ element' = "u8" /\ place' = 0 /\ left' = 0
  /\ output' = <<Stale>> /\ answer' = NotCalled

ReadingNext ==
  \/ \E type \in Elements : CallArray(type)
  \/ ReadArrayOn
  \/ Iterate(NextItemCall) \/ Iterate(NextEventCall) \/ Iterate(Stopped)

ReadingSafety == ReadingInit /\ [][ReadingNext]_readingVars

ReadingSpec ==
  /\ ReadingSafety
  /\ WF_readingVars(ReadArrayOn)
  /\ WF_readingVars(Iterate(NextItemCall)) /\ WF_readingVars(Iterate(NextEventCall))
=============================================================================
