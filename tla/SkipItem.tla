------------------------------ MODULE SkipItem ------------------------------
(***************************************************************************)
(* One CBOR item is walked from the first byte of a slice to its end, by    *)
(* one of the four walkers of src/decode.rs:                                *)
(*   "basic"          SliceDecoder::skip, Validation::Basic and Strict      *)
(*   "deterministic"  SliceDecoder::skip, Validation::Deterministic         *)
(*   "structural"     raw_structural, the scan of the parallel decoder      *)
(*   "value"          decode_owned_value and decode_borrowed_value          *)
(* The recursion of the code is a stack of frames here, one for each        *)
(* enclosing array, map or tag, so the depth of a call is its length.       *)
(*                                                                          *)
(* Bytes are the real ones.  The values a "value" walk builds are left out. *)
(***************************************************************************)
EXTENDS Integers, Sequences

CONSTANTS
  Bytes,         \* the bytes inputs are made of
  MaxLen,        \* bound on the length of an input
  Inputs,        \* the slices
  MaxDepth,      \* DecodeOptions::max_depth
  MaxCollection, \* DecodeOptions::max_collection_len
  Modes          \* the walkers

IsInput(in) == in \in Seq(Bytes) /\ Len(in) <= MaxLen

ASSUME SkipAssumption ==
  /\ Bytes \subseteq 0..255
  /\ MaxLen \in Nat
  /\ \A in \in Inputs : IsInput(in)
  /\ MaxDepth \in Nat
  /\ MaxCollection \in Nat
  /\ Modes \subseteq {"basic", "deterministic", "structural", "value"}

VARIABLES
  input,   \* the slice
  mode,    \* the walker
  phase,   \* "item": an item begins at pos; "chunks": in an indefinite
           \* string; "done": an item ended at pos; "next": at the head of
           \* the loop of the innermost container; "stop": returned
  pos,     \* SliceDecoder::pos
  string,  \* the indefinite string being read: its major type and total
  stack,   \* the open containers and tags, outermost first
  outcome  \* what the walk returned, Running before

vars == <<input, mode, phase, pos, string, stack, outcome>>

Indefinite == -1
Break == 255

Running == [tag |-> "running"]
Ok(end) == [tag |-> "ok", end |-> end]
Error(kind, at) == [tag |-> "error", kind |-> kind, at |-> at]

-----------------------------------------------------------------------------
(* Heads.  Positions are offsets, counted from 0.                           *)

Byte(p) == input[p + 1]
Major(p) == Byte(p) \div 32
Info(p) == Byte(p) % 32

Width(p) ==
  CASE Info(p) = 24 -> 1
    [] Info(p) = 25 -> 2
    [] Info(p) = 26 -> 4
    [] Info(p) = 27 -> 8
    [] OTHER -> 0

HeadEnd(p) == p + 1 + Width(p)

Two(p) == Byte(p) * 256 + Byte(p + 1)
Four(p) == Two(p) * 65536 + Two(p + 2)

Argument(p) ==
  CASE Info(p) = 24 -> Byte(p + 1)
    [] Info(p) = 25 -> Two(p + 1)
    [] Info(p) = 26 -> Four(p + 1)
    [] Info(p) = 27 -> Four(p + 1) * 65536 * 65536 + Four(p + 5)
    [] Info(p) = 31 -> Indefinite
    [] OTHER -> Info(p)

(* No shorter head holds the argument.                                      *)
Preferred(p) ==
  CASE Info(p) = 24 -> Argument(p) > 23
    [] Info(p) = 25 -> Argument(p) > 255
    [] Info(p) = 26 -> Two(p + 1) > 0
    [] Info(p) = 27 -> Two(p + 1) > 0 \/ Two(p + 3) > 0
    [] OTHER -> TRUE

NoError == [tag |-> "none"]

HeadError(p) ==
  IF p >= Len(input) THEN Error("eof", p)
  ELSE IF Info(p) \in 28..30 THEN Error("additional", p)
  ELSE IF HeadEnd(p) > Len(input) THEN Error("eof", p + 1)
  ELSE IF mode = "deterministic" /\ Major(p) # 7 /\ ~Preferred(p)
       THEN Error("nondeterministic", p)
  ELSE NoError

(* One character of UTF-8, by the bytes that may lead it and come second.   *)
Character(p, q) ==
  LET lead == Byte(p)
      least == CASE lead = 224 -> 160 [] lead = 240 -> 144 [] OTHER -> 128
      most == CASE lead = 237 -> 159 [] lead = 244 -> 143 [] OTHER -> 191
  IN  /\ lead \in CASE q - p = 1 -> 0..127   [] q - p = 2 -> 194..223
                    [] q - p = 3 -> 224..239 [] q - p = 4 -> 240..244
      /\ q > p + 1 => Byte(p + 1) \in least..most
      /\ \A r \in (p + 2)..(q - 1) : Byte(r) \in 128..191

(* The bytes of a text string: the structural scan does not look at them.   *)
TextAccepted(from, to) ==
  LET text[p \in from..to] ==
        \/ p = to
        \/ \E q \in {p + 1, p + 2, p + 3, p + 4} :
             q <= to /\ Character(p, q) /\ text[q]
  IN  mode = "structural" \/ text[from]

Data == INSTANCE EncodedData

(* Only a deterministic decoder asks for the shortest float.                *)
FloatAccepted(p) ==
  \/ mode # "deterministic" \/ Info(p) \notin 25..27
  \/ Data!FloatAccepted(SubSeq(input, p + 1, HeadEnd(p)))

-----------------------------------------------------------------------------
Frame(kind, at, items) ==
  [kind |-> kind, at |-> at, items |-> items, done |-> 0, from |-> at,
   previous |-> <<>>]

Depth == Len(stack)

Deep == Depth > MaxDepth

Top == stack[Depth]

Pop == SubSeq(stack, 1, Depth - 1)

WithTop(frame) == [stack EXCEPT ![Depth] = frame]

(* Keys and values are counted alike.                                       *)
PerEntry(kind) == IF kind = "map" THEN 2 ELSE 1

Fail(error) ==
  /\ outcome' = error
  /\ phase' = "stop"
  /\ UNCHANGED <<pos, string, stack>>

(* The item that was begun ends at p.                                       *)
Complete(p) ==
  /\ pos' = p
  /\ phase' = "done"
  /\ UNCHANGED <<string, stack, outcome>>

Open(frame) ==
  /\ stack' = Append(stack, frame)
  /\ pos' = HeadEnd(pos)
  /\ phase' = "next"
  /\ UNCHANGED <<string, outcome>>

Close(p) ==
  /\ stack' = Pop
  /\ pos' = p
  /\ phase' = "done"
  /\ UNCHANGED <<string, outcome>>

Init ==
  /\ input \in Inputs
  /\ mode \in Modes
  /\ phase = "item"
  /\ pos = 0
  /\ string = [major |-> 2, total |-> 0]
  /\ stack = <<>>
  /\ outcome = Running

-----------------------------------------------------------------------------
(* An item begins.                                                          *)

TooDeep ==
  /\ phase = "item"
  /\ Deep
  /\ Fail(Error("depth", pos))

HeadFails ==
  /\ phase = "item"
  /\ ~Deep
  /\ HeadError(pos) # NoError
  /\ Fail(HeadError(pos))

AtHead(majors) ==
  /\ phase = "item"
  /\ ~Deep
  /\ HeadError(pos) = NoError
  /\ Major(pos) \in majors

Integer ==
  /\ AtHead({0, 1})
  /\ IF Info(pos) = 31
     THEN Fail(Error("additional", pos))
     ELSE Complete(HeadEnd(pos))

(* A fault: the length is not compared with what is left.                   *)
DefiniteStringUnchecked ==
  /\ AtHead({2, 3}) /\ Argument(pos) # Indefinite
  /\ IF Argument(pos) > MaxCollection THEN Fail(Error("limit", pos))
     ELSE Complete(HeadEnd(pos) + Argument(pos))

(* A fault: a length is refused when the input does not hold it yet.        *)
DefiniteStringByInput ==
  /\ AtHead({2, 3}) /\ Argument(pos) # Indefinite
  /\ LET from == HeadEnd(pos)
         to == from + Argument(pos)
     IN  IF Argument(pos) > MaxCollection \/ to > Len(input)
         THEN Fail(Error("limit", pos))
         ELSE IF Major(pos) = 3 /\ ~TextAccepted(from, to)
              THEN Fail(Error("utf8", pos))
         ELSE Complete(to)

DefiniteString ==
  /\ AtHead({2, 3}) /\ Argument(pos) # Indefinite
  /\ LET from == HeadEnd(pos)
         to == from + Argument(pos)
     IN  IF Argument(pos) > MaxCollection THEN Fail(Error("limit", pos))
         ELSE IF to > Len(input) THEN Fail(Error("eof", from))
         ELSE IF Major(pos) = 3 /\ ~TextAccepted(from, to)
              THEN Fail(Error("utf8", pos))
         ELSE Complete(to)

IndefiniteString ==
  /\ AtHead({2, 3}) /\ Argument(pos) = Indefinite
  /\ IF mode = "deterministic"
     THEN Fail(Error("nondeterministic", pos))
     ELSE /\ string' = [major |-> Major(pos), total |-> 0]
          /\ pos' = HeadEnd(pos)
          /\ phase' = "chunks"
          /\ UNCHANGED <<stack, outcome>>

Container ==
  /\ AtHead({4, 5})
  /\ LET n == Argument(pos)
         kind == IF Major(pos) = 5 THEN "map" ELSE "array"
     IN  IF n > MaxCollection THEN Fail(Error("limit", pos))
         ELSE IF n # Indefinite THEN Open(Frame(kind, pos, n * PerEntry(kind)))
         ELSE IF mode = "deterministic" THEN Fail(Error("nondeterministic", pos))
         ELSE Open(Frame(kind, pos, Indefinite))

Tag ==
  /\ AtHead({6})
  /\ IF Info(pos) = 31
     THEN Fail(Error("additional", pos))
     ELSE Open(Frame("tag", pos, 1))

Simple ==
  /\ AtHead({7})
  /\ IF Info(pos) = 31 THEN Fail(Error("break", pos))
     ELSE IF Info(pos) = 24 /\ Argument(pos) < 32
          THEN Fail(Error("additional", pos))
     ELSE IF ~FloatAccepted(pos) THEN Fail(Error("nondeterministic", pos))
     ELSE Complete(HeadEnd(pos))

-----------------------------------------------------------------------------
(* The chunks of an indefinite string.                                      *)

ChunkCut ==
  /\ phase = "chunks"
  /\ pos = Len(input)
  /\ Fail(Error("eof", pos))

ChunksEnd ==
  /\ phase = "chunks"
  /\ pos < Len(input) /\ Byte(pos) = Break
  /\ Complete(pos + 1)

ChunkHeadFails ==
  /\ phase = "chunks"
  /\ pos < Len(input) /\ Byte(pos) # Break
  /\ HeadError(pos) # NoError
  /\ Fail(HeadError(pos))

(* A fault: the head of an empty chunk is not passed.                       *)
ChunkEmptyStays ==
  /\ phase = "chunks"
  /\ pos < Len(input) /\ Byte(pos) # Break
  /\ HeadError(pos) = NoError
  /\ LET n == Argument(pos)
         to == HeadEnd(pos) + n
     IN  IF Major(pos) # string.major \/ n = Indefinite
         THEN Fail(Error("type", pos))
         ELSE IF to > Len(input) THEN Fail(Error("eof", HeadEnd(pos)))
         ELSE /\ pos' = IF n = 0 THEN pos ELSE to
              /\ string' = [string EXCEPT !.total = @ + n]
              /\ UNCHANGED <<phase, stack, outcome>>

(* Only a decoder that joins the chunks bounds their total.                 *)
Chunk ==
  /\ phase = "chunks"
  /\ pos < Len(input) /\ Byte(pos) # Break
  /\ HeadError(pos) = NoError
  /\ LET n == Argument(pos)
         from == HeadEnd(pos)
         to == from + n
         large == mode = "value" /\ string.total + n > MaxCollection
     IN  IF Major(pos) # string.major \/ n = Indefinite
         THEN Fail(Error("type", pos))
         ELSE IF large THEN Fail(Error("limit", pos))
         ELSE IF to > Len(input) THEN Fail(Error("eof", from))
         ELSE IF Major(pos) = 3 /\ ~TextAccepted(from, to)
              THEN Fail(Error("utf8", pos))
         ELSE /\ pos' = to
              /\ string' = [string EXCEPT !.total = @ + n]
              /\ UNCHANGED <<phase, stack, outcome>>

-----------------------------------------------------------------------------
(* An item has ended.                                                       *)

Finish ==
  /\ phase = "done"
  /\ stack = <<>>
  /\ outcome' = Ok(pos)
  /\ phase' = "stop"
  /\ UNCHANGED <<pos, string, stack>>

(* Lexicographic order of the encoded keys.                                 *)
Before(s, t) ==
  \E n \in 0..Len(s) :
    /\ n < Len(t)
    /\ \A i \in 1..n : s[i] = t[i]
    /\ n = Len(s) \/ s[n + 1] < t[n + 1]

IsKey(frame) ==
  frame.kind = "map" /\ frame.done % 2 = 0 /\ frame.items # Indefinite

(* A fault: the structural walk counts the entries of a map for its items.  *)
ItemDoneHalfLimit ==
  /\ phase = "done"
  /\ stack # <<>>
  /\ LET counted == [Top EXCEPT !.done = @ + 1]
         limit == IF mode = "structural" THEN MaxCollection
                  ELSE MaxCollection * PerEntry(Top.kind)
     IN  IF Top.items = Indefinite /\ counted.done > limit
         THEN Fail(Error("limit", Top.at))
         ELSE /\ stack' = WithTop(counted)
              /\ phase' = "next"
              /\ UNCHANGED <<pos, string, outcome>>

ItemDone ==
  /\ phase = "done"
  /\ stack # <<>>
  /\ LET key == SubSeq(input, Top.from + 1, pos)
         ordered == mode = "deterministic" /\ IsKey(Top)
         counted == [Top EXCEPT !.done = @ + 1,
                                !.previous = IF ordered THEN key ELSE @]
     IN  IF ordered /\ Top.previous # <<>> /\ ~Before(Top.previous, key)
         THEN Fail(Error("nondeterministic", Top.from))
         ELSE IF /\ Top.items = Indefinite /\ mode # "value"
                 /\ counted.done > MaxCollection * PerEntry(Top.kind)
              THEN Fail(Error("limit", Top.at))
         ELSE /\ stack' = WithTop(counted)
              /\ phase' = "next"
              /\ UNCHANGED <<pos, string, outcome>>

(* The loop over the items of a container.                                  *)

ContainerEnds ==
  /\ phase = "next"
  /\ Top.done = Top.items
  /\ Close(pos)

ContainerCut ==
  /\ phase = "next"
  /\ Top.items = Indefinite
  /\ pos = Len(input)
  /\ Fail(Error("eof", pos))

(* A fault: a break is taken after a key.                                   *)
ContainerBreakAnywhere ==
  /\ phase = "next"
  /\ Top.items = Indefinite
  /\ pos < Len(input) /\ Byte(pos) = Break
  /\ Close(pos + 1)

ContainerBreak ==
  /\ phase = "next"
  /\ Top.items = Indefinite
  /\ pos < Len(input) /\ Byte(pos) = Break
  /\ IF Top.kind = "map" /\ Top.done % 2 = 1
     THEN Fail(Error("break", pos))
     ELSE Close(pos + 1)

(* A fault: the limit is tested for one entry too late.                     *)
NextItemLate ==
  /\ phase = "next"
  /\ IF Top.items = Indefinite
     THEN pos < Len(input) /\ Byte(pos) # Break
     ELSE Top.done < Top.items
  /\ IF /\ Top.items = Indefinite /\ mode = "value"
        /\ Top.done > MaxCollection * PerEntry(Top.kind)
     THEN Fail(Error("limit", Top.at))
     ELSE /\ stack' = WithTop([Top EXCEPT !.from = pos])
          /\ phase' = "item"
          /\ UNCHANGED <<pos, string, outcome>>

NextItem ==
  /\ phase = "next"
  /\ IF Top.items = Indefinite
     THEN pos < Len(input) /\ Byte(pos) # Break
     ELSE Top.done < Top.items
  /\ IF /\ Top.items = Indefinite /\ mode = "value"
        /\ Top.done = MaxCollection * PerEntry(Top.kind)
     THEN Fail(Error("limit", Top.at))
     ELSE /\ stack' = WithTop([Top EXCEPT !.from = pos])
          /\ phase' = "item"
          /\ UNCHANGED <<pos, string, outcome>>

-----------------------------------------------------------------------------
Walk ==
  \/ TooDeep \/ HeadFails
  \/ Integer \/ DefiniteString \/ IndefiniteString \/ Container \/ Tag \/ Simple
  \/ ChunkCut \/ ChunksEnd \/ ChunkHeadFails \/ Chunk
  \/ Finish \/ ItemDone
  \/ ContainerEnds \/ ContainerCut \/ ContainerBreak \/ NextItem

Step == Walk /\ UNCHANGED <<input, mode>>

(* The walk has returned.                                                   *)
Returned == phase = "stop" /\ UNCHANGED vars

Next == Step \/ Returned

Safety == Init /\ [][Next]_vars

Spec == Safety /\ WF_vars(Step)
-----------------------------------------------------------------------------
FrameRecord ==
  [kind: {"tag", "array", "map"}, at: 0..MaxLen, items: Nat \cup {Indefinite},
   done: Nat, from: 0..MaxLen, previous: Seq(Bytes)]

ErrorKinds ==
  {"eof", "additional", "type", "break", "utf8", "depth", "limit",
   "nondeterministic"}

OutcomeOK ==
  \/ outcome = Running
  \/ outcome = Ok(pos)
  \/ \E kind \in ErrorKinds, at \in 0..Len(input) : outcome = Error(kind, at)

TypeOK ==
  /\ IsInput(input)
  /\ mode \in Modes
  /\ phase \in {"item", "chunks", "done", "next", "stop"}
  /\ pos \in 0..Len(input)
  /\ string \in [major: {2, 3}, total: Nat]
  /\ stack \in Seq(FrameRecord)
  /\ OutcomeOK

(* Every call of a walker but the innermost is open in an item of its own,   *)
(* so no input takes more than MaxDepth + 2 calls: the stack of the thread   *)
(* is bounded by max_depth, tags included (decode.rs 528, 635, 789, 2729).   *)
DepthBounded == Depth <= MaxDepth + 1

(* No walk counts more than max_collection_len entries of one collection,    *)
(* whatever its head says, and no value decoder joins more bytes than that:  *)
(* what a hostile length can make it collect is bounded.                     *)
CollectionsBounded ==
  /\ \A i \in 1..Depth :
       stack[i].kind # "tag" =>
         stack[i].done <= MaxCollection * PerEntry(stack[i].kind)
  /\ mode = "value" => string.total <= MaxCollection

(* Both limits hold throughout every walk of every input.                   *)
WithinLimits == DepthBounded /\ CollectionsBounded

(* The inductive invariant behind the bounds.  A frame never counts more      *)
(* than its container may hold, and while an item of it is being walked,     *)
(* strictly less, so the item can still be counted.                          *)
MostItems(frame) == MaxCollection * PerEntry(frame.kind)

FrameOK(frame) ==
  /\ frame.at <= Len(input) /\ frame.from <= Len(input)
  /\ IF frame.kind = "tag" THEN frame.items = 1
     ELSE frame.items <= MostItems(frame) /\ frame.done <= MostItems(frame)
  /\ frame.items # Indefinite => frame.done <= frame.items

RoomForOne(frame) ==
  IF frame.items # Indefinite THEN frame.done < frame.items
  ELSE mode = "value" => frame.done < MostItems(frame)

StackOK ==
  \A i \in 1..Depth :
    /\ FrameOK(stack[i])
    /\ i < Depth \/ phase \in {"item", "chunks", "done"} => RoomForOne(stack[i])

IInv ==
  /\ TypeOK
  /\ DepthBounded
  /\ StackOK
  /\ phase = "next" => stack # <<>>
  /\ phase # "stop" => outcome = Running
  /\ mode = "value" => string.total <= MaxCollection

=============================================================================
