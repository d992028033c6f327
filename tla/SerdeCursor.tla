---------------------------- MODULE SerdeCursor -----------------------------
(***************************************************************************)
(* Deserializer (src/serde_codec.rs): a type asks for one value after the   *)
(* other, and the deserializer moves over the input as far as the visitors  *)
(* make it.  A visitor of a sequence or map takes as many entries as its    *)
(* type has; the access it is given does not know how many were left.       *)
(*                                                                          *)
(* The input is a sequence of heads: an element stands for the head of an   *)
(* item, with the bytes of a string, or for a break.  The recursion of the  *)
(* code is a stack of frames: one for each access that a visitor holds and  *)
(* for each tag that deserialize_any has passed.  Validation is Basic.      *)
(***************************************************************************)
EXTENDS Integers, Sequences, FiniteSets

CONSTANTS
  Heads,         \* the heads inputs are made of
  MaxLen,        \* bound on the heads of an input
  MaxDepth,      \* DecodeOptions::max_depth
  MaxCollection, \* DecodeOptions::max_collection_len
  Types,         \* the types a caller may ask for
  Want,          \* what a type asks the deserializer for
  Take,          \* how many entries its visitor takes, or All of them
  Elements       \* the types of its entries or contents

Indefinite == -1
All == -1

Wants == {"leaf", "integer", "seq", "map", "any", "option", "enum", "ignored"}

HeadKinds == {"scalar", "null", "array", "map", "tag", "break"}

ASSUME CursorAssumption ==
  /\ Heads \subseteq [kind: HeadKinds, n: Nat \cup {Indefinite}]
  /\ MaxLen \in Nat
  /\ MaxDepth \in Nat
  /\ MaxCollection \in Nat
  /\ Want \in [Types -> Wants]
  /\ Take \in [Types -> Nat \cup {All}]
  /\ Elements \in [Types -> SUBSET Types]
  /\ Types # {}

VARIABLES
  input,   \* the heads
  pos,     \* Parser::position, counted in heads
  depth,   \* Deserializer::depth
  stack,   \* the accesses and tags that are open, outermost first
  phase,   \* "idle"; "value": a value is asked for at pos; "access": the
           \* visitor of the innermost access has the turn; "error": it
           \* hands an error on
  type,    \* the type that asks
  first,   \* where the call began
  outcome, \* how the call ended
  whole    \* history: no visitor of this call left entries behind

vars == <<input, pos, depth, stack, phase, type, first, outcome, whole>>

Running == [tag |-> "running"]
Ok(from, to) == [tag |-> "ok", from |-> from, to |-> to]
Error(kind, at) == [tag |-> "error", kind |-> kind, at |-> at]

Inputs == UNION {[1..n -> Heads] : n \in 0..MaxLen}

AtEnd == pos = Len(input)
Here == input[pos + 1]
At(kinds) == ~AtEnd /\ Here.kind \in kinds

Collections == {"array", "map"}

Frame(kind, items, t) ==
  [kind |-> kind, type |-> t, remaining |-> items, seen |-> 0, value |-> FALSE]

(* The collections among the frames.                                        *)
Entered(s) == Cardinality({i \in DOMAIN s : s[i].kind \in Collections})

Top == stack[Len(stack)]
Pop == SubSeq(stack, 1, Len(stack) - 1)
WithTop(frame) == [stack EXCEPT ![Len(stack)] = frame]

Init ==
  /\ input \in Inputs
  /\ pos = 0
  /\ depth = 0
  /\ stack = <<>>
  /\ phase = "idle"
  /\ type = CHOOSE t \in Types : TRUE
  /\ first = 0
  /\ outcome = Ok(0, 0)
  /\ whole = TRUE

-----------------------------------------------------------------------------
(* The value asked for last is there, and the input has been read up to p.  *)
Give(rest, p) ==
  /\ pos' = p
  /\ stack' = rest
  /\ phase' = IF rest = <<>> THEN "idle" ELSE "access"
  /\ outcome' = IF rest = <<>> THEN Ok(first, p) ELSE outcome

(* An error, which the visitors that are still open hand on.                *)
Fail(kind, p) ==
  /\ pos' = p
  /\ phase' = IF stack = <<>> THEN "idle" ELSE "error"
  /\ outcome' = Error(kind, p)
  /\ UNCHANGED <<input, depth, stack, type, first, whole>>

(* A fault: `?` at the visitor's result leaves before the depth is restored. *)
ErrorReturnsAtOnce ==
  /\ phase = "error"
  /\ stack' = Pop
  /\ phase' = IF stack' = <<>> THEN "idle" ELSE "error"
  /\ UNCHANGED <<input, pos, depth, type, first, outcome, whole>>

(* The innermost caller has the error from its visitor: it takes its depth   *)
(* back, as it would with a value, and the error goes to the next caller.    *)
ErrorReturns ==
  /\ phase = "error"
  /\ stack' = Pop
  /\ depth' = IF Top.kind \in Collections THEN depth - 1 ELSE depth
  /\ phase' = IF stack' = <<>> THEN "idle" ELSE "error"
  /\ UNCHANGED <<input, pos, type, first, outcome, whole>>

(* T::deserialize(&mut deserializer), the first time, after a value or after *)
(* an error: nothing keeps the caller from going on where it stopped.        *)
Call(t) ==
  /\ phase = "idle"
  /\ phase' = "value"
  /\ type' = t
  /\ first' = pos
  /\ outcome' = Running
  /\ whole' = TRUE
  /\ UNCHANGED <<input, pos, depth, stack>>

Asked(wants) == phase = "value" /\ Want[type] \in wants

(* The requests that come down to deserialize_any when the head is not what *)
(* they look for.                                                           *)
Plain == {"leaf", "seq", "map", "any"}

Eof ==
  /\ Asked(Wants) /\ AtEnd
  /\ Fail("eof", pos)

Scalar ==
  /\ \/ Asked({"any"}) /\ At({"scalar", "null"})
     \/ Asked({"leaf"}) /\ At({"scalar"})
  /\ Give(stack, pos + 1)
  /\ UNCHANGED <<input, depth, type, first, whole>>

(* Its visitor has no method for it, or refuses the value.                   *)
ScalarRefused ==
  /\ Asked(Plain \ {"any"}) /\ At({"scalar", "null"})
  /\ Fail("message", pos + 1)

(* The signed integers, u128 and the floats look at the event themselves:    *)
(* no tag is passed but that of a bignum before its bytes.                   *)
Direct ==
  /\ Asked({"integer"})
  /\ \/ At({"scalar"}) /\ Give(stack, pos + 1)
     \/ /\ At({"tag"}) /\ pos + 1 < Len(input) /\ input[pos + 2].kind = "scalar"
        /\ Give(stack, pos + 2)
  /\ UNCHANGED <<input, depth, type, first, whole>>

DirectRefused ==
  /\ Asked({"integer"}) /\ ~AtEnd
  /\ \/ Fail("type", pos + 1)
     \/ /\ At({"tag"})
        /\ IF pos + 1 = Len(input) THEN Fail("eof", pos + 1) ELSE Fail("type", pos + 2)

UnexpectedBreak ==
  /\ Asked(Plain) /\ At({"break"})
  /\ Fail("break", pos + 1)

(* deserialize_any passes a tag by calling itself.                          *)
Tag ==
  /\ Asked(Plain) /\ At({"tag"})
  /\ pos' = pos + 1
  /\ stack' = Append(stack, Frame("tag", 1, type))
  /\ UNCHANGED <<input, depth, phase, type, first, outcome, whole>>

Accepts == Want[type] = "any" \/ (Want[type] = "seq" /\ Here.kind = "array")
                              \/ (Want[type] = "map" /\ Here.kind = "map")

(* enter_collection, and a visitor that has no visit_seq or visit_map.      *)
Collection ==
  /\ Asked(Plain) /\ At(Collections)
  /\ IF Here.n > MaxCollection THEN Fail("limit", pos + 1)
     ELSE IF depth >= MaxDepth THEN Fail("depth", pos + 1)
     ELSE IF ~Accepts THEN Fail("message", pos + 1)
     ELSE /\ pos' = pos + 1
          /\ depth' = depth + 1
          /\ stack' = Append(stack, Frame(Here.kind, Here.n, type))
          /\ phase' = "access"
          /\ UNCHANGED <<input, type, first, outcome, whole>>

OptionNone ==
  /\ Asked({"option"}) /\ At({"null"})
  /\ Give(stack, pos + 1)
  /\ UNCHANGED <<input, depth, type, first, whole>>

OptionSome ==
  /\ Asked({"option"}) /\ ~AtEnd /\ Here.kind # "null"
  /\ type' \in Elements[type]
  /\ UNCHANGED <<input, pos, depth, stack, phase, first, outcome, whole>>

-----------------------------------------------------------------------------
(* deserialize_enum: a name alone, or a map of one entry.                   *)

EnumName ==
  /\ Asked({"enum"}) /\ At({"scalar"})
  /\ Give(stack, pos + 1)
  /\ UNCHANGED <<input, depth, type, first, whole>>

EnumMap == At({"map"}) /\ Here.n \in {1, Indefinite}

EnumContent ==
  /\ Asked({"enum"}) /\ EnumMap
  /\ pos + 1 < Len(input) /\ input[pos + 2].kind = "scalar"
  /\ pos' = pos + 2
  /\ stack' = Append(stack, Frame("variant", Here.n, type))
  /\ type' \in Elements[type]
  /\ UNCHANGED <<input, depth, phase, first, outcome, whole>>

(* Something else, or a scalar that names no variant.                        *)
EnumMismatch ==
  /\ Asked({"enum"}) /\ ~AtEnd /\ ~EnumMap
  /\ Fail("type", pos + 1)

EnumContentMismatch ==
  /\ Asked({"enum"}) /\ EnumMap
  /\ IF pos + 1 = Len(input) THEN Fail("eof", pos + 1) ELSE Fail("type", pos + 2)

(* finish of DirectVariant.                                                 *)
VariantEnds ==
  /\ phase = "access" /\ Top.kind = "variant"
  /\ IF Top.remaining # Indefinite
     THEN Give(Pop, pos) /\ UNCHANGED <<input, depth, type, first, whole>>
     ELSE IF AtEnd THEN Fail("eof", pos)
     ELSE IF Here.kind # "break" THEN Fail("type", pos + 1)
     ELSE Give(Pop, pos + 1) /\ UNCHANGED <<input, depth, type, first, whole>>

-----------------------------------------------------------------------------
(* How skip walks.  A spot is a place in the input where items are still to   *)
(* be walked with so many levels left; inside a container of indefinite      *)
(* length items is negative, and count the entries walked.  The walk from a  *)
(* spot ends behind the items, or at NoEnd where skip refuses.               *)
NoEnd == -2

InArray == -1
AtKey == -2
AtValue == -3

Following(items) ==
  CASE items = AtKey -> AtValue
    [] items = AtValue -> AtKey
    [] items = InArray -> InArray
    [] OTHER -> items - 1

Inside(head) ==
  IF head.kind = "tag" THEN 1
  ELSE IF head.n = Indefinite THEN IF head.kind = "map" THEN AtKey ELSE InArray
  ELSE IF head.kind = "map" THEN 2 * head.n ELSE head.n

Limit(items) == IF items = InArray THEN MaxCollection ELSE 2 * MaxCollection

Spot(levels, at, items, count) ==
  [levels |-> levels, at |-> at, items |-> items, count |-> count]

Spots(in) ==
  [levels: -1..(MaxDepth + MaxLen), at: 0..Len(in),
   items: AtValue..(2 * MaxCollection + 1), count: 0..(2 * MaxCollection)]

Walk(in, after, spot) ==
  LET head == in[spot.at + 1]
      open == spot.items < 0
      end == IF head.kind \in {"scalar", "null"} THEN spot.at + 1
             ELSE IF head.kind # "tag" /\ head.n > MaxCollection THEN NoEnd
             ELSE after[Spot(spot.levels - 1, spot.at + 1, Inside(head), 0)]
  IN  IF spot.items = 0 THEN spot.at
      ELSE IF spot.at = Len(in) THEN NoEnd
      ELSE IF head.kind = "break"
           THEN IF spot.items \in {InArray, AtKey} THEN spot.at + 1 ELSE NoEnd
      ELSE IF spot.levels = -1 \/ (open /\ spot.count >= Limit(spot.items)) THEN NoEnd
      ELSE IF end = NoEnd THEN NoEnd
      ELSE after[Spot(spot.levels, end, Following(spot.items),
                      IF open THEN spot.count + 1 ELSE 0)]

After(in) == LET after[spot \in Spots(in)] == Walk(in, after, spot) IN after

ItemEnd(p, levels) == After(input)[Spot(levels, p, 1, 0)]

(* deserialize_ignored_any: skip_item.                                      *)
Ignored ==
  /\ Asked({"ignored"}) /\ ~AtEnd
  /\ \E p \in pos..Len(input) :
       /\ p = ItemEnd(pos, MaxDepth)
       /\ Give(stack, p)
  /\ UNCHANGED <<input, depth, type, first, whole>>

IgnoredFails ==
  /\ Asked({"ignored"}) /\ ~AtEnd
  /\ ItemEnd(pos, MaxDepth) = NoEnd
  /\ \E p \in pos..Len(input) : Fail("skip", p)

-----------------------------------------------------------------------------
(* The visitor of the innermost access.                                     *)

Visiting == phase = "access" /\ Top.kind \in Collections /\ ~Top.value

VisitorDone == Take[Top.type] # All /\ Top.seen = Take[Top.type]

(* visit_seq or visit_map returns, and the depth is taken back.             *)
Return(p, complete) ==
  /\ Give(Pop, p)
  /\ depth' = depth - 1
  /\ whole' = (whole /\ complete)
  /\ UNCHANGED <<input, type, first>>

(* It has as many entries as its type: the access is dropped as it is.      *)
Leave ==
  /\ Visiting /\ VisitorDone
  /\ Return(pos, Top.remaining = 0)

(* It is told that there are no more; a type of a fixed length refuses.     *)
NoMore(p) ==
  IF Take[Top.type] = All THEN Return(p, TRUE) ELSE Fail("message", p)

Exhausted ==
  /\ Visiting /\ ~VisitorDone /\ Top.remaining = 0
  /\ NoMore(pos)

(* A fault: the break is looked at and not consumed.                        *)
BreakStays ==
  /\ Visiting /\ ~VisitorDone /\ Top.remaining = Indefinite /\ At({"break"})
  /\ NoMore(pos)

BreakEnds ==
  /\ Visiting /\ ~VisitorDone /\ Top.remaining = Indefinite /\ At({"break"})
  /\ NoMore(pos + 1)

(* A fault: the end of the input is waited out.                             *)
CutWaits ==
  /\ Visiting /\ ~VisitorDone /\ Top.remaining = Indefinite /\ AtEnd
  /\ UNCHANGED vars

Cut ==
  /\ Visiting /\ ~VisitorDone /\ Top.remaining = Indefinite /\ AtEnd
  /\ Fail("eof", pos)

(* A visitor may refuse what it was given whenever it has the turn.          *)
VisitorFails ==
  /\ phase = "access" /\ Top.kind \in Collections
  /\ Fail("message", pos)

Ask(frame) ==
  /\ stack' = WithTop(frame)
  /\ type' \in Elements[frame.type]
  /\ phase' = "value"
  /\ UNCHANGED <<input, pos, depth, first, outcome, whole>>

(* A fault: the entries of an indefinite collection are counted by nobody.  *)
EntryUncounted ==
  /\ Visiting /\ ~VisitorDone
  /\ IF Top.remaining = Indefinite THEN ~AtEnd /\ Here.kind # "break"
     ELSE Top.remaining > 0
  /\ Ask([Top EXCEPT !.seen = @ + 1, !.value = (Top.kind = "map"),
                     !.remaining = IF @ = Indefinite THEN @ ELSE @ - 1])

(* A fault: the entries left in a definite array are not counted down.      *)
EntryUndecremented ==
  /\ Visiting /\ ~VisitorDone
  /\ IF Top.remaining = Indefinite THEN ~AtEnd /\ Here.kind # "break"
     ELSE Top.remaining > 0
  /\ IF Top.remaining = Indefinite /\ Top.seen = MaxCollection
     THEN Fail("limit", pos)
     ELSE Ask([Top EXCEPT !.seen = @ + 1, !.value = (Top.kind = "map")])

Entry ==
  /\ Visiting /\ ~VisitorDone
  /\ IF Top.remaining = Indefinite THEN ~AtEnd /\ Here.kind # "break"
     ELSE Top.remaining > 0
  /\ IF Top.remaining = Indefinite /\ Top.seen = MaxCollection
     THEN Fail("limit", pos)
     ELSE Ask([Top EXCEPT !.seen = @ + 1, !.value = (Top.kind = "map"),
                          !.remaining = IF @ = Indefinite THEN @ ELSE @ - 1])

ValueOfEntry ==
  /\ phase = "access" /\ Top.kind = "map" /\ Top.value
  /\ Ask([Top EXCEPT !.value = FALSE])

(* A fault: a tag takes back a depth it has not taken.                      *)
TagReturnsDepth ==
  /\ phase = "access" /\ Top.kind = "tag"
  /\ Give(Pop, pos)
  /\ depth' = depth - 1
  /\ UNCHANGED <<input, type, first, whole>>

(* deserialize_any returns from behind the tag.                             *)
TagReturns ==
  /\ phase = "access" /\ Top.kind = "tag"
  /\ Give(Pop, pos)
  /\ UNCHANGED <<input, depth, type, first, whole>>

-----------------------------------------------------------------------------
Asking ==
  \/ Eof \/ Scalar \/ ScalarRefused \/ Direct \/ DirectRefused
  \/ UnexpectedBreak \/ Tag \/ Collection
  \/ OptionNone \/ OptionSome
  \/ EnumName \/ EnumContent \/ EnumMismatch \/ EnumContentMismatch
  \/ Ignored \/ IgnoredFails

Answering ==
  \/ Leave \/ Exhausted \/ BreakEnds \/ Cut \/ Entry \/ ValueOfEntry
  \/ TagReturns \/ VariantEnds

Step == Asking \/ Answering \/ ErrorReturns

Next == Step \/ VisitorFails \/ \E t \in Types : Call(t)

Safety == Init /\ [][Next]_vars

(* The call runs on; that a visitor gives up is not relied on.               *)
Spec == Safety /\ WF_vars(Step)
-----------------------------------------------------------------------------
FrameRecord ==
  [kind: Collections \cup {"tag", "variant"}, type: Types,
   remaining: Nat \cup {Indefinite}, seen: Nat, value: BOOLEAN]

OutcomeOK ==
  \/ outcome = Running
  \/ \E from, to \in 0..Len(input) : outcome = Ok(from, to)
  \/ \E kind \in {"eof", "message", "break", "limit", "depth", "type", "skip"},
        at \in 0..Len(input) : outcome = Error(kind, at)

TypeOK ==
  /\ input \in Inputs
  /\ pos \in 0..Len(input)
  /\ depth \in Nat
  /\ stack \in Seq(FrameRecord)
  /\ phase \in {"idle", "value", "access", "error"}
  /\ type \in Types
  /\ first \in 0..Len(input)
  /\ OutcomeOK
  /\ whole \in BOOLEAN

(* However a value was asked for, by types that descend or ignore, with      *)
(* tags, enums and options on the way: if no visitor left entries behind,    *)
(* the value is one whole item and the next call begins where skip ends.     *)
WholeItem ==
  phase = "idle" /\ outcome.tag = "ok" /\ outcome.to > outcome.from /\ whole =>
    outcome.to = ItemEnd(outcome.from, MaxLen)

(* from_slice: one call, and then end().                                     *)
Accepted ==
  /\ phase = "idle" /\ Len(input) > 0
  /\ outcome = Ok(0, Len(input))

(* A visitor that leaves entries behind is found out by from_slice, wherever *)
(* it stands: an item without indefinite lengths is never accepted when a    *)
(* part of it was not looked at or was taken for something else.             *)
NothingDropped ==
  /\ Accepted
  /\ ItemEnd(0, MaxLen) = Len(input)
  /\ \A i \in DOMAIN input : input[i].n # Indefinite
  => whole

(* "Deserializes exactly one CBOR item from `input`" (serde_codec.rs 77).    *)
ExactlyOneItem == Accepted => ItemEnd(0, MaxLen) = Len(input)

(* "The maximum permitted nesting depth" (options.rs 21): what is accepted   *)
(* lies within the depth at which skip refuses.                              *)
WithinDepth == Accepted /\ whole => ItemEnd(0, MaxDepth) = Len(input)

(* The depth is that of the collections being visited, while an error leaves *)
(* them too, and so back at zero when a call has ended, well or not: a        *)
(* decoder for many items keeps its whole limit for each.                    *)
DepthBalanced ==
  /\ depth = Entered(stack)
  /\ depth <= MaxDepth

(* No visitor is given more entries than max_collection_len, whatever the    *)
(* head says or leaves open.                                                *)
Most(frame) ==
  frame.seen + (IF frame.remaining = Indefinite THEN 0 ELSE frame.remaining)

EntriesBounded ==
  \A i \in DOMAIN stack :
    stack[i].kind \in Collections => Most(stack[i]) <= MaxCollection

(* The inductive invariant.                                                  *)
IInv ==
  /\ TypeOK
  /\ DepthBalanced
  /\ EntriesBounded
  /\ phase \in {"access", "error"} => stack # <<>>
  /\ phase = "idle" => stack = <<>>
  /\ phase = "error" => outcome.tag = "error"

(* Every call ends.                                                         *)
CallEnds == phase # "idle" ~> phase = "idle"
=============================================================================
