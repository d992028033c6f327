----------------------------- MODULE TypedArrays -----------------------------
(***************************************************************************)
(* The bulk decoders of src/decode.rs, from_slice_u8_array to               *)
(* from_slice_f64_array with their _into forms: a slice that holds one      *)
(* array of numbers is read into a vector of one type.  They take the       *)
(* default options, whatever the caller uses elsewhere.  Elements of a      *)
(* definite array are read in blocks where several in a row have the same   *)
(* head, one by one elsewhere; those of an indefinite array by the getters  *)
(* of SliceDecoder.                                                         *)
(*                                                                          *)
(* An integer of the vector is the bytes of its two's complement.  A float  *)
(* is the number the last conversion (as f32, as f64) is given; that        *)
(* conversion is the language's and the same on every path.                 *)
(***************************************************************************)
EXTENDS SkipItem, SequencesExt

CONSTANTS
  ArrayLimit, \* DecodeOptions::default().max_collection_len
  Stale       \* what an earlier call left in the caller's vector

ASSUME ArrayAssumption == ArrayLimit \in Nat

VARIABLES
  element, \* the type of the elements
  output,  \* the caller's vector
  place,   \* where the next element begins
  left,    \* how many elements are still to be read, Indefinite before a break
  answer   \* what the call returned, Running before

arrayVars == <<element, output, place, left, answer>>

Unsigned == {"u8", "u16", "u32", "u64"}
Signed == {"i8", "i16", "i32", "i64"}
Floats == {"f32", "f64"}
Elements == Unsigned \cup Signed \cup Floats \cup {"bool"}

Size(type) ==
  CASE type \in {"u8", "i8"} -> 1
    [] type \in {"u16", "i16"} -> 2
    [] type \in {"u32", "i32", "f32"} -> 4
    [] type \in {"u64", "i64", "f64"} -> 8

Majors(type) == IF type \in Signed THEN {0, 1} ELSE {0}

Encoded(p) == SubSeq(input, p + 1, HeadEnd(p))
Word(p) ==
  Data!Extended(IF Width(p) = 0 THEN <<Info(p)>> ELSE Tail(Encoded(p)), 8)

(* u8::try_from and its like; a negative number has the same bound.         *)
InRange(type, p) ==
  /\ Data!Narrow(Word(p), Size(type))
  /\ type \in Signed => Word(p)[9 - Size(type)] < 128

(* What the element at p is in the vector.                                  *)
Cast(type, p) ==
  CASE type \in Unsigned -> Data!Low(Word(p), Size(type))
    [] type \in Signed ->
         IF Major(p) = 1 THEN Data!Not(Data!Low(Word(p), Size(type)))
         ELSE Data!Low(Word(p), Size(type))
    [] type \in Floats /\ Major(p) = 7 -> Data!ReadFloat(Encoded(p))
    [] type \in Floats /\ Major(p) # 7 ->
         [negative |-> Major(p) = 1, magnitude |-> Word(p)]
    [] type = "bool" -> Byte(p) = 245

NotCalled == [tag |-> "none"]
Done == [tag |-> "done"]

ArrayInit ==
  /\ element = "u8" /\ place = 0 /\ left = 0
  /\ output = <<Stale>>
  /\ answer = NotCalled

-----------------------------------------------------------------------------
(* The vector is cleared before the call and after an error.                *)
Call(type) ==
  /\ answer = NotCalled
  /\ element' = type
  /\ output' = <<>>
  /\ IF HeadError(0) # NoError
     THEN answer' = HeadError(0) /\ UNCHANGED <<place, left>>
     ELSE IF Major(0) # 4
     THEN answer' = Error("type", 0) /\ UNCHANGED <<place, left>>
     ELSE IF Argument(0) > ArrayLimit
     THEN answer' = Error("limit", 0) /\ UNCHANGED <<place, left>>
     ELSE answer' = Running /\ place' = HeadEnd(0) /\ left' = Argument(0)

Refuse(error) ==
  /\ answer' = error
  /\ output' = <<>>
  /\ UNCHANGED <<element, place, left>>

Push(values, to) ==
  /\ output' = output \o values
  /\ place' = to
  /\ left' = IF left = Indefinite THEN left ELSE left - Len(values)
  /\ UNCHANGED <<element, answer>>

PushOne(error) ==
  IF error # NoError THEN Refuse(error)
  ELSE Push(<<Cast(element, place)>>, HeadEnd(place))

Reading(types) == answer = Running /\ element \in types

-----------------------------------------------------------------------------
(* Definite arrays of integers.  A block is four heads of the same width, or *)
(* eight of a byte.                                                         *)

Short == 0
Members(info) == IF info = Short THEN 8 ELSE 4
Stride(info) ==
  CASE info = Short -> 1 [] info = 24 -> 2 [] info = 25 -> 3 [] info = 26 -> 5
    [] info = 27 -> 9

Block(info) == {place + i * Stride(info) : i \in 0..(Members(info) - 1)}

(* A fault: an argument as wide as the type is taken for its value.         *)
FitsUnsigned(info) ==
  /\ left >= Members(info)
  /\ place + Members(info) * Stride(info) <= Len(input)
  /\ \A p \in Block(info) :
       /\ Major(p) \in Majors(element)
       /\ IF info = Short THEN Info(p) < 24 ELSE Info(p) = info

(* An argument as wide as the type must leave its sign bit clear.           *)
Fits(info) ==
  /\ left >= Members(info)
  /\ place + Members(info) * Stride(info) <= Len(input)
  /\ \A p \in Block(info) :
       /\ Major(p) \in Majors(element)
       /\ IF info = Short THEN Info(p) < 24 ELSE Info(p) = info
       /\ element \in Signed /\ Stride(info) = 1 + Size(element) => Byte(p + 1) < 128

ReadBlock(info) ==
  Push([i \in 1..Members(info) |-> Cast(element, place + (i - 1) * Stride(info))],
       place + Members(info) * Stride(info))

BodyError(p) ==
  IF p >= Len(input) THEN Error("eof", p)
  ELSE IF Major(p) \notin Majors(element) \/ Info(p) = 31 THEN Error("type", p)
  ELSE IF HeadError(p) # NoError THEN HeadError(p)
  ELSE IF ~InRange(element, p) THEN Error("overflow", HeadEnd(p))
  ELSE NoError

Round(type, infos) ==
  /\ Reading({type}) /\ left > 0
  /\ IF \E info \in infos : Fits(info)
     THEN ReadBlock(CHOOSE info \in infos : Fits(info))
     ELSE PushOne(BodyError(place))

RoundU8 == Round("u8", {24})
RoundU16 == Round("u16", {25})
RoundU32 == Round("u32", {26})
RoundU64 == Round("u64", {27, Short, 24, 25, 26})
RoundI8 == Round("i8", {24})
RoundI16 == Round("i16", {25})
RoundI32 == Round("i32", {25})
RoundI64 == Round("i64", {27, Short, 24, 25, 26})

-----------------------------------------------------------------------------
(* Definite arrays of booleans: all bytes must be there before one is read. *)

BoolCut ==
  /\ Reading({"bool"}) /\ left > 0
  /\ place + left > Len(input)
  /\ Refuse(Error("eof", Len(input)))

RoundBool ==
  /\ Reading({"bool"}) /\ left > 0
  /\ place + left <= Len(input)
  /\ LET n == IF left >= 8 THEN 8 ELSE 1
         others == {p \in place..(place + n - 1) : Byte(p) \notin {244, 245}}
     IN  IF others # {} THEN Refuse(Error("type", Min(others)))
         ELSE Push([i \in 1..n |-> Cast("bool", place + i - 1)], place + n)

(* Definite arrays of floats: all of them of the width of the type, or any.  *)

Fixed ==
  LET stride == 1 + Size(element)
  IN  /\ output = <<>>
      /\ place + left * stride <= Len(input)
      /\ \A i \in 0..(left - 1) :
           Byte(place + i * stride) = IF element = "f32" THEN 250 ELSE 251

FixedBody ==
  /\ Reading(Floats) /\ left > 0 /\ Fixed
  /\ LET stride == 1 + Size(element)
     IN  Push([i \in 1..left |-> Cast(element, place + (i - 1) * stride)],
              place + left * stride)

FloatError(p) ==
  IF p >= Len(input) THEN Error("eof", p)
  ELSE IF Major(p) \notin {0, 1, 7} THEN Error("type", p)
  ELSE IF HeadError(p) # NoError THEN HeadError(p)
  ELSE IF Info(p) = 31 \/ (Major(p) = 7 /\ Info(p) \notin 25..27)
  THEN Error("type", p)
  ELSE NoError

RoundFloat ==
  /\ Reading(Floats) /\ left > 0 /\ ~Fixed
  /\ PushOne(FloatError(place))

-----------------------------------------------------------------------------
(* Indefinite arrays.                                                       *)

(* unsigned looks at the type first, integer_i64_basic at the range.        *)
IntegerError(p) ==
  LET wrong == Major(p) \notin Majors(element)
  IN  IF HeadError(p) # NoError THEN HeadError(p)
      ELSE IF Info(p) = 31 \/ (wrong /\ element \in Unsigned) THEN Error("type", p)
      ELSE IF ~InRange(element, p) THEN Error("overflow", HeadEnd(p))
      ELSE IF wrong THEN Error("type", p)
      ELSE NoError

EntryError(p) ==
  CASE element = "bool" -> IF Byte(p) \in {244, 245} THEN NoError ELSE Error("type", p)
    [] element \in Floats -> FloatError(p)
    [] OTHER -> IntegerError(p)

EntriesCut ==
  /\ Reading(Elements) /\ left = Indefinite
  /\ place = Len(input)
  /\ Refuse(Error("eof", place))

EntriesBreak ==
  /\ Reading(Elements) /\ left = Indefinite
  /\ place < Len(input) /\ Byte(place) = Break
  /\ place' = place + 1
  /\ left' = 0
  /\ UNCHANGED <<element, output, answer>>

EntriesFull ==
  /\ Reading(Elements) /\ left = Indefinite
  /\ place < Len(input) /\ Byte(place) # Break
  /\ Len(output) = ArrayLimit
  /\ Refuse(Error("limit", 0))

Entry ==
  /\ Reading(Elements) /\ left = Indefinite
  /\ place < Len(input) /\ Byte(place) # Break
  /\ Len(output) < ArrayLimit
  /\ PushOne(EntryError(place))

-----------------------------------------------------------------------------
FinishArray ==
  /\ Reading(Elements) /\ left = 0
  /\ IF place = Len(input)
     THEN answer' = Done /\ UNCHANGED <<element, output, place, left>>
     ELSE Refuse(Error("trailing", place))

ReadArray ==
  \/ RoundU8 \/ RoundU16 \/ RoundU32 \/ RoundU64
  \/ RoundI8 \/ RoundI16 \/ RoundI32 \/ RoundI64
  \/ BoolCut \/ RoundBool \/ FixedBody \/ RoundFloat
  \/ EntriesCut \/ EntriesBreak \/ EntriesFull \/ Entry
  \/ FinishArray
-----------------------------------------------------------------------------
(* What the bytes of the vector mean, and what the item at p says.          *)
Meaning(type, value) ==
  IF type \in Floats \cup {"bool"} THEN value
  ELSE IF type \in Signed /\ value[1] >= 128
  THEN [negative |-> TRUE, magnitude |-> Data!Extended(Data!Not(value), 8)]
  ELSE [negative |-> FALSE, magnitude |-> Data!Extended(value, 8)]

Said(type, p) ==
  IF type \in Floats \cup {"bool"} THEN Cast(type, p)
  ELSE [negative |-> Major(p) = 1, magnitude |-> Word(p)]

(* The item at p is a number the type has, in whatever width it is encoded. *)
IsElement(type, p) ==
  /\ p < Len(input) /\ Info(p) \notin 28..31 /\ HeadEnd(p) <= Len(input)
  /\ CASE type = "bool" -> Byte(p) \in {244, 245}
       [] type \in Floats -> Major(p) \in {0, 1} \/ Byte(p) \in 249..251
       [] OTHER -> /\ Major(p) \in Majors(type)
                   /\ Meaning(type, Cast(type, p)) = Said(type, p)

(* Where the elements begin, and last where the first item that is none does. *)
Begin ==
  FoldLeft(LAMBDA begin, byte :
             LET p == Last(begin)
             IN  IF IsElement(element, p) THEN Append(begin, HeadEnd(p)) ELSE begin,
           <<HeadEnd(0)>>, input)

(* A bulk decoder reads what one element at a time would give: in blocks or  *)
(* not, it accepts the arrays of numbers of its type and no others, and each *)
(* number keeps its value and its place.  An error leaves the vector empty,  *)
(* whatever an earlier call left in it, and is placed in the first item that *)
(* is no element, behind the array, or at its head for the limit (decode.rs  *)
(* 1111-2706).                                                              *)
ArraysRead ==
  answer \notin {NotCalled, Running} =>
    IF HeadError(0) # NoError \/ Major(0) # 4
    THEN answer.tag = "error" /\ answer.at <= 1 /\ output = <<>>
    ELSE
    LET begin == Begin
        announced == Argument(0)
        good == Len(begin) - 1
        count == IF announced \in 0..good THEN announced ELSE good
        end == begin[count + 1]
        broken == announced = Indefinite /\ end < Len(input) /\ Byte(end) = Break
        complete == announced = count \/ broken
        after == IF broken THEN end + 1 ELSE end
    IN  IF complete /\ count <= ArrayLimit /\ after = Len(input)
        THEN /\ answer = Done
             /\ Len(output) = count
             /\ \A i \in 1..count : Meaning(element, output[i]) = Said(element, begin[i])
        ELSE /\ answer.tag = "error" /\ output = <<>>
             /\ CASE announced > ArrayLimit \/ count > ArrayLimit ->
                       answer = Error("limit", 0)
                  [] complete /\ count <= ArrayLimit /\ announced <= ArrayLimit ->
                       answer = Error("trailing", after)
                  [] OTHER ->
                       \/ answer.at \in end..Len(input)
                          /\ (end < Len(input) => answer.at <= HeadEnd(end))
                       \/ element = "bool" /\ announced # Indefinite
                          /\ answer = Error("eof", Len(input))
                       \/ announced = Indefinite /\ count = ArrayLimit
                          /\ answer = Error("limit", 0)
-----------------------------------------------------------------------------
(* The inductive invariant behind ArraysRead: the vector holds the first      *)
(* elements, and the next one is where the decoder is, or the break behind   *)
(* them has been read.                                                       *)
ElementsRead ==
  LET begin == Begin
      read == Len(output)
      next == begin[read + 1]
  IN  /\ output \in Seq(Range(output))
      /\ read < Len(begin)
      /\ \A i \in 1..read : Meaning(element, output[i]) = Said(element, begin[i])
      /\ IF Argument(0) # Indefinite
         THEN left \in Nat /\ read + left = Argument(0) /\ place = next
         ELSE /\ read <= ArrayLimit
              /\ \/ left = Indefinite /\ place = next
                 \/ /\ left = 0 /\ place = next + 1
                    /\ next < Len(input) /\ Byte(next) = Break

ArrayIInv ==
  /\ IsInput(input)
  /\ answer # NotCalled => mode # "deterministic"
  /\ answer = Running =>
       /\ HeadError(0) = NoError /\ Major(0) = 4 /\ ~(Argument(0) > ArrayLimit)
       /\ element \in Elements
       /\ ElementsRead
  /\ ArraysRead
=============================================================================
