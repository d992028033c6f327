--------------------------- MODULE SliceIterators ---------------------------
(***************************************************************************)
(* The two iterators over a slice of src/decode.rs:                         *)
(*   "items"   SequenceDecoder, which yields raw items and stops for good   *)
(*             after an error                                               *)
(*   "events"  Parser, which yields heads, strings and breaks, and goes on  *)
(*             after an error                                               *)
(* The item an "items" iterator does not recognise by its first byte is     *)
(* walked by SkipItem.  Between two calls of next, phase is "stop" and      *)
(* outcome is Running.  The caller takes what is yielded until there is no  *)
(* more, as a for loop does.                                                *)
(***************************************************************************)
EXTENDS SkipItem

VARIABLES
  iterator,  \* which iterator it is; "unwound" after a panic
  index,     \* SequenceDecoder::index
  from,      \* where the item being walked begins
  yielded    \* what next has returned

iteratorVars == <<vars, iterator, index, from, yielded>>

Item(p, q) == [tag |-> "item", from |-> p, to |-> q]
Event(kind, items, p, q) ==
  [tag |-> "event", kind |-> kind, items |-> items, from |-> p, to |-> q]
Failure(error, item, p, q) ==
  [tag |-> "failure", error |-> error, item |-> item, from |-> p, to |-> q]

NoItem == -1

Between == phase = "stop" /\ outcome = Running

(* next is called and the slice has bytes left.                             *)
Called(which) == iterator = which /\ Between /\ pos < Len(input)

Yield(entry) ==
  /\ yielded' = Append(yielded, entry)
  /\ pos' = entry.to

IteratorInit ==
  /\ input \in Inputs
  /\ mode \in Modes
  /\ phase = "stop" /\ pos = 0 /\ stack = <<>> /\ outcome = Running
  /\ string = [major |-> 2, total |-> 0]
  /\ iterator \in {"items", "events"}
  /\ index = 0 /\ from = 0 /\ yielded = <<>>

-----------------------------------------------------------------------------
(* SequenceDecoder::next.                                                   *)

(* Small integers, empty strings and containers, simple values.             *)
OneByteItems == (0..23) \cup (32..55) \cup {64, 96, 128, 160} \cup (224..247)

(* A fault: the short path does not count its item.                         *)
OneByteItemUncounted ==
  /\ Called("items")
  /\ Byte(pos) \in OneByteItems
  /\ Yield(Item(pos, pos + 1))
  /\ UNCHANGED <<input, mode, phase, string, stack, outcome, iterator, index, from>>

OneByteItem ==
  /\ Called("items")
  /\ Byte(pos) \in OneByteItems
  /\ Yield(Item(pos, pos + 1))
  /\ index' = index + 1
  /\ UNCHANGED <<input, mode, phase, string, stack, outcome, iterator, from>>

BeginItem ==
  /\ Called("items")
  /\ Byte(pos) \notin OneByteItems
  /\ phase' = "item"
  /\ from' = pos
  /\ UNCHANGED <<input, mode, pos, string, stack, outcome, iterator, index, yielded>>

WalkItem == Step /\ UNCHANGED <<iterator, index, from, yielded>>

GiveItem ==
  /\ phase = "stop" /\ outcome.tag = "ok"
  /\ Yield(Item(from, outcome.end))
  /\ index' = index + 1
  /\ outcome' = Running
  /\ UNCHANGED <<input, mode, phase, string, stack, iterator, from>>

(* A fault: an item that is cut short is walked again.                      *)
GiveItemErrorRetries ==
  /\ phase = "stop" /\ outcome.tag = "error"
  /\ IF outcome.kind = "eof"
     THEN /\ phase' = "item" /\ pos' = from
          /\ UNCHANGED yielded
     ELSE /\ Yield(Failure(outcome, index, from, Len(input)))
          /\ UNCHANGED phase
  /\ outcome' = Running
  /\ stack' = <<>>
  /\ UNCHANGED <<input, mode, string, iterator, index, from>>

(* The error is given the index of its item, and nothing is left to yield.  *)
GiveItemError ==
  /\ phase = "stop" /\ outcome.tag = "error"
  /\ Yield(Failure(outcome, index, from, Len(input)))
  /\ outcome' = Running
  /\ stack' = <<>>
  /\ UNCHANGED <<input, mode, phase, string, iterator, index, from>>

-----------------------------------------------------------------------------
(* Parser::next.  A failed event leaves pos where the reading of it ended.  *)

ReadEvent(entry) ==
  /\ Yield(entry)
  /\ UNCHANGED <<input, mode, phase, string, stack, outcome, iterator, index, from>>

RefuseEvent(error, to) == ReadEvent(Failure(error, NoItem, pos, to))

BreakEvent ==
  /\ Called("events") /\ Byte(pos) = Break
  /\ ReadEvent(Event("break", 0, pos, pos + 1))

EventHeadFails ==
  /\ Called("events") /\ Byte(pos) # Break
  /\ HeadError(pos) # NoError
  /\ RefuseEvent(HeadError(pos),
                 IF HeadError(pos).kind = "nondeterministic" THEN HeadEnd(pos)
                 ELSE pos + 1)

AtEvent(majors) ==
  /\ Called("events") /\ Byte(pos) # Break
  /\ HeadError(pos) = NoError
  /\ Major(pos) \in majors

(* The argument is unwrapped: 0x1f and 0x3f have none.                      *)
IntegerEvent ==
  /\ AtEvent({0, 1})
  /\ IF Info(pos) = 31
     THEN /\ iterator' = "unwound"
          /\ UNCHANGED <<vars, index, from, yielded>>
     ELSE ReadEvent(Event("leaf", 0, pos, HeadEnd(pos)))

(* A fault: the length is not compared with what is left.                   *)
StringEventUnchecked ==
  /\ AtEvent({2, 3})
  /\ LET n == Argument(pos)
     IN  IF n = Indefinite
         THEN ReadEvent(Event("string", Indefinite, pos, HeadEnd(pos)))
         ELSE ReadEvent(Event("leaf", 0, pos, HeadEnd(pos) + n))

StringEvent ==
  /\ AtEvent({2, 3})
  /\ LET n == Argument(pos)
         begin == HeadEnd(pos)
         end == begin + n
     IN  IF n = Indefinite
         THEN ReadEvent(Event("string", Indefinite, pos, begin))
         ELSE IF end > Len(input) THEN RefuseEvent(Error("eof", begin), begin)
         ELSE IF Major(pos) = 3 /\ ~TextAccepted(begin, end)
              THEN RefuseEvent(Error("utf8", pos), end)
         ELSE ReadEvent(Event("leaf", 0, pos, end))

(* A fault: the pairs of a map are announced as its items.                  *)
ContainerEventPairs ==
  /\ AtEvent({4, 5})
  /\ ReadEvent(Event("array", Argument(pos), pos, HeadEnd(pos)))

ContainerEvent ==
  /\ AtEvent({4, 5})
  /\ ReadEvent(Event(IF Major(pos) = 5 THEN "map" ELSE "array", Argument(pos),
                     pos, HeadEnd(pos)))

TagEvent ==
  /\ AtEvent({6})
  /\ IF Info(pos) = 31
     THEN RefuseEvent(Error("additional", pos), HeadEnd(pos))
     ELSE ReadEvent(Event("tag", 1, pos, HeadEnd(pos)))

SimpleEvent ==
  /\ AtEvent({7})
  /\ IF ~FloatAccepted(pos)
     THEN RefuseEvent(Error("nondeterministic", pos), HeadEnd(pos))
     ELSE IF Info(pos) = 24 /\ Argument(pos) < 32
     THEN RefuseEvent(Error("additional", pos), HeadEnd(pos))
     ELSE ReadEvent(Event("leaf", 0, pos, HeadEnd(pos)))

-----------------------------------------------------------------------------
NextItemCall == OneByteItem \/ BeginItem \/ WalkItem \/ GiveItem \/ GiveItemError

NextEventCall ==
  \/ BreakEvent \/ EventHeadFails
  \/ IntegerEvent \/ StringEvent \/ ContainerEvent \/ TagEvent \/ SimpleEvent

(* next returns None, now and whenever it is called again.                  *)
Drained == Between /\ pos = Len(input)

Stopped == (Drained \/ iterator = "unwound") /\ UNCHANGED iteratorVars

IteratorNext == NextItemCall \/ NextEventCall \/ Stopped

IteratorSafety == IteratorInit /\ [][IteratorNext]_iteratorVars

IteratorSpec ==
  /\ IteratorSafety
  /\ WF_iteratorVars(NextItemCall) /\ WF_iteratorVars(NextEventCall)
-----------------------------------------------------------------------------
Count == Len(yielded)

Offsets == 0..MaxLen

EntryRecord ==
  [tag: {"item"}, from: Offsets, to: Offsets]
  \cup [tag: {"event"},
        kind: {"leaf", "break", "tag", "string", "array", "map"},
        items: Nat \cup {Indefinite}, from: Offsets, to: Offsets]
  \cup [tag: {"failure"},
        error: [tag: {"error"}, kind: ErrorKinds, at: Offsets],
        item: Nat \cup {NoItem}, from: Offsets, to: Offsets]

IteratorTypeOK ==
  /\ iterator \in {"items", "events", "unwound"}
  /\ index \in Nat
  /\ from \in Offsets
  /\ yielded \in Seq(EntryRecord)

(* Where the i-th entry begins.                                             *)
Begins(i) == IF i = 1 THEN 0 ELSE yielded[i - 1].to

(* What next returns lies end to end in the slice, each entry takes at least *)
(* a byte, and the next one begins at pos; a sequence decoder returns one    *)
(* error at most, after all its items and with their number, and leaves      *)
(* nothing behind it (decode.rs 3192-3214, 3085-3090).                       *)
Tiled ==
  /\ \A i \in 1..Count :
       /\ yielded[i].from = Begins(i)
       /\ yielded[i].from < yielded[i].to /\ yielded[i].to <= Len(input)
       /\ iterator = "items" /\ yielded[i].tag # "item" =>
            i = Count /\ yielded[i].to = Len(input) /\ yielded[i].item = i - 1
  /\ Between => pos = Begins(Count + 1)
  /\ iterator = "items" =>
       index = IF Count > 0 /\ yielded[Count].tag # "item" THEN Count - 1 ELSE Count

(* A walk begins behind what was returned and moves on at its first byte.   *)
InWalk ==
  /\ Between => stack = <<>>
  /\ ~Between =>
       /\ iterator = "items"
       /\ from = Begins(Count + 1) /\ from < Len(input)
       /\ phase # "stop" => from < pos \/ (phase = "item" /\ pos = from /\ stack = <<>>)
       /\ outcome.tag = "ok" => from < pos /\ stack = <<>>

(* The inductive invariant behind Tiled.                                    *)
IteratorIInv == IInv /\ IteratorTypeOK /\ Tiled /\ InWalk

(* A parser or a sequence decoder that is called until it returns None       *)
(* comes to the end of the slice, whatever it refuses on the way: after a    *)
(* malformed head too, the next call begins further on (decode.rs 3088,      *)
(* 3209).                                                                    *)
Ends == <>(Drained \/ iterator = "unwound")

(* next answers every slice with an event or an error.                       *)
Answers == iterator # "unwound"
=============================================================================
