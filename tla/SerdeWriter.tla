---------------------------- MODULE SerdeWriter ----------------------------
(***************************************************************************)
(* The serializers of serde_codec.rs that write into a vector: the          *)
(* streaming one, the packed one and the deterministic one, driven by the   *)
(* Serialize of a value.  Sequences and maps of known length go straight to *)
(* the vector; the deterministic serializer keeps the entries of a map in   *)
(* an arena of their own and writes them, sorted, when the map ends.  A     *)
(* Tagged value is encoded by the streaming serializer into a vector of its *)
(* own, which is then copied.                                               *)
(*                                                                         *)
(* Bytes are real CBOR.  A scalar is its encoding, which the three agree on *)
(* (floats, which they do not agree on, are left out).  The scratch of the  *)
(* deterministic serializer is cleared when it is taken and when it is put  *)
(* back: it carries storage from call to call and no data, and is left out. *)
(***************************************************************************)
EXTENDS Integers, SequencesExt, FiniteSetsExt

CONSTANTS
  Scalars,    \* the encodings of the scalars in a value
  Names,      \* the encoded names of fields and variants, as declared
  MaxEntries, \* bound: the most entries of one sequence or map
  MaxNesting, \* bound: the most values around a value
  MaxBytes    \* bound: the most bytes written when another value begins

ASSUME WriterAssumption ==
  /\ Scalars \subseteq Seq(0..255)
  /\ Names \in Seq(Seq(0..255))
  /\ Len(Names) \in 1..23
  /\ MaxEntries \in 1..23
  /\ MaxNesting \in Nat
  /\ MaxBytes \in Nat

VARIABLES
  mode,    \* which serializer was called
  buffers, \* the caller's vector and the bodies, arenas and vectors above it
  frames,  \* the values being written, each inside the one before
  tagged,  \* whether a Tagged was copied
  outcome, \* how the call ended
  ideal    \* the encoding of the value of a call that ended well

vars == <<mode, buffers, frames, tagged, outcome, ideal>>

Modes == {"streaming", "packed", "deterministic"}
Unknown == -1
Clean == <<<<>>>>

Running == outcome = "running"
Top == Last(frames)
Mode == IF frames = <<>> THEN mode ELSE Top.mode

(* asked: a serialize_element, serialize_key, serialize_value or            *)
(* serialize_field has called serialize and waits for it.  span: offsets in *)
(* the arena, the start and the end of a key (two of them are the           *)
(* pending_key) and the start of its value.  given: the encodings of the    *)
(* keys and values so far, at and field: the fields passed by the caller    *)
(* and counted by PackedCompound.                                           *)
Frame(shape, m, known) ==
  [shape |-> shape, mode |-> m, known |-> known, asked |-> FALSE,
   span |-> <<>>, entries |-> <<>>, count |-> 0, at |-> 0, field |-> 0,
   given |-> <<>>]

WithTop(f) == Append(Front(frames), f)

Sorting(f) == f.mode = "deterministic" /\ f.shape \in {"map", "struct"}
Buffering(f) == f.mode = "deterministic" /\ f.shape = "seq" /\ f.known = Unknown
Owns(f) == Sorting(f) \/ Buffering(f) \/ f.shape = "tagged"

Head1(major, n) == <<32 * major + n>>
Major(f) == IF f.shape = "seq" THEN 4 ELSE 5
Opening(f) == IF f.known = Unknown THEN Head1(Major(f), 31) ELSE Head1(Major(f), f.known)
Closing(f) == IF f.known = Unknown THEN <<255>> ELSE <<>>
VariantHead == Head1(5, 1)
TagHead == Head1(6, 1)

(* Bytes go to the vector that was opened last.                             *)
Put(bufs, bytes) == Append(Front(bufs), Last(bufs) \o bytes)
Target == Last(buffers)

(* A fault: the order of RFC 7049, the shorter first.                        *)
BeforeByLength(s, t) ==
  \/ Len(s) < Len(t)
  \/ Len(s) = Len(t) /\ \E i \in 1..Len(t) : s[i] < t[i] /\ \A j \in 1..(i - 1) : s[j] = t[j]

(* The order of byte strings.                                               *)
Before(s, t) ==
  \E i \in 1..Len(t) :
    /\ \A j \in 1..(i - 1) : j <= Len(s) /\ s[j] = t[j]
    /\ i <= Len(s) => s[i] < t[i]

(* The encoding of a value from those of its parts: what the buffers, heads *)
(* and offsets below have to come to.                                       *)
PairsOf(f) == {<<f.given[2 * i - 1], f.given[2 * i]>> : i \in 1..(Len(f.given) \div 2)}

InOrder(pairs) ==
  CHOOSE s \in [1..Cardinality(pairs) -> pairs] :
    IsInjective(s) /\ \A i, j \in DOMAIN s : i < j => ~Before(s[j][1], s[i][1])

Encoding(f) ==
  CASE f.shape = "variant" -> VariantHead \o FlattenSeq(f.given)
    [] f.shape = "tagged" -> TagHead \o FlattenSeq(f.given)
    [] Sorting(f) ->
         Head1(5, Cardinality(PairsOf(f))) \o FlattenSeq(FlattenSeq(InOrder(PairsOf(f))))
    [] Buffering(f) -> Head1(4, Len(f.given)) \o FlattenSeq(f.given)
    [] OTHER -> Opening(f) \o FlattenSeq(f.given) \o Closing(f)

-----------------------------------------------------------------------------
Init ==
  /\ mode \in Modes
  /\ buffers = Clean
  /\ frames = <<>>
  /\ tagged = FALSE
  /\ outcome = "running"
  /\ ideal = <<>>

(* to_vec_into, to_vec_deterministic_into, EncodeConfig::serialize_into.     *)
Call ==
  /\ ~Running
  /\ mode' \in Modes
  /\ buffers' = Clean
  /\ outcome' = "running"
  /\ tagged' = FALSE
  /\ ideal' = <<>>
  /\ UNCHANGED frames

(* An error leaves through every ? up to the call, which clears the vector. *)
Fail(result) ==
  /\ outcome' = result
  /\ buffers' = Clean
  /\ frames' = <<>>
  /\ UNCHANGED <<mode, tagged, ideal>>

(* What the call around a value does when serialize returned, with the       *)
(* vector now size bytes long.                                              *)
Took(f, size, bytes) ==
  [f EXCEPT !.asked = FALSE,
            !.given = Append(@, bytes),
            !.count = @ + 1,
            !.span = IF ~Sorting(f) \/ Len(@) = 3 THEN <<>> ELSE Append(@, size),
            !.entries = IF Len(f.span) = 3 THEN Append(@, Append(f.span, size)) ELSE @]

(* A value encoded as bytes has ended, in bufs, inside the values around.   *)
Ended(around, bufs, bytes) ==
  /\ buffers' = bufs
  /\ IF around = <<>>
       THEN /\ outcome' = "ok"
            /\ ideal' = bytes
            /\ frames' = <<>>
       ELSE /\ frames' = Append(Front(around), Took(Last(around), Len(Last(bufs)), bytes))
            /\ UNCHANGED <<outcome, ideal>>
  /\ UNCHANGED <<mode, tagged>>

-----------------------------------------------------------------------------
(* The calls of Serialize on a compound.  A caller gives as many entries as *)
(* it announced and each key with its value; only the maps of the           *)
(* deterministic serializer do not rely on it.                              *)
Asking(shape) ==
  /\ Running
  /\ frames # <<>>
  /\ Top.shape = shape
  /\ ~Top.asked

Limit(f) == IF Sorting(f) \/ f.known = Unknown THEN MaxEntries ELSE f.known

Ask(f) ==
  /\ frames' = WithTop([f EXCEPT !.asked = TRUE])
  /\ UNCHANGED <<mode, buffers, tagged, outcome, ideal>>

SerializeElement ==
  /\ Asking("seq")
  /\ Len(Top.given) < Limit(Top)
  /\ Ask(Top)

(* A fault: the offset is taken in the vector the map goes to.               *)
MarkedOutside == [Top EXCEPT !.span = Append(@, Len(Last(Front(buffers))))]

Marked == [Top EXCEPT !.span = Append(@, Len(Target))]

SerializeKey ==
  /\ Asking("map")
  /\ Len(Top.given) < 2 * Limit(Top)
  /\ IF Sorting(Top) THEN Top.span = <<>> /\ Ask(Marked)
                     ELSE Len(Top.given) % 2 = 0 /\ Ask(Top)

SerializeValue ==
  /\ Asking("map")
  /\ IF Sorting(Top) THEN Len(Top.span) = 2 /\ Ask(Marked)
                     ELSE Len(Top.given) % 2 = 1 /\ Ask(Top)

(* Another key while one is pending, or a value while none is.              *)
OutOfTurn ==
  /\ Asking("map")
  /\ Sorting(Top)
  /\ Fail("error")

FieldName(f) == IF f.mode = "packed" THEN <<f.field>> ELSE Names[f.at + 1]
DeclaredName(f) == IF f.mode = "packed" THEN <<f.at>> ELSE Names[f.at + 1]

(* serialize_field writes the key, which is a name or an index, and goes on  *)
(* with the value.                                                          *)
SerializeField ==
  /\ Asking("struct")
  /\ Len(Top.given) < 2 * Top.known
  /\ LET start == Len(Target)
         end == start + Len(FieldName(Top))
     IN  frames' = WithTop(
           [Top EXCEPT !.asked = TRUE,
                       !.at = @ + 1,
                       !.field = @ + 1,
                       !.given = Append(@, DeclaredName(Top)),
                       !.span = IF Sorting(Top) THEN <<start, end, end>> ELSE @])
  /\ buffers' = Put(buffers, FieldName(Top))
  /\ UNCHANGED <<mode, tagged, outcome, ideal>>

(* A fault: the index of the fields behind it does not move.                 *)
SkipFieldUncounted ==
  /\ Asking("struct")
  /\ Len(Names) - Top.at > Top.known - Len(Top.given) \div 2
  /\ frames' = WithTop([Top EXCEPT !.at = @ + 1])
  /\ UNCHANGED <<mode, buffers, tagged, outcome, ideal>>

(* The caller leaves a field out, which it did not count.                   *)
SkipField ==
  /\ Asking("struct")
  /\ Len(Names) - Top.at > Top.known - Len(Top.given) \div 2
  /\ frames' = WithTop([Top EXCEPT !.at = @ + 1, !.field = @ + 1])
  /\ UNCHANGED <<mode, buffers, tagged, outcome, ideal>>

-----------------------------------------------------------------------------
(* The calls of Serialize on a serializer.                                  *)
Serializing ==
  /\ Running
  /\ IF frames = <<>> THEN TRUE ELSE Top.asked
  /\ Len(FlattenSeq(buffers)) <= MaxBytes

Scalar ==
  /\ Serializing
  /\ \E bytes \in Scalars : Ended(frames, Put(buffers, bytes), bytes)

VariantName(i) == IF Mode = "packed" THEN <<i - 1>> ELSE Names[i]

UnitVariant ==
  /\ Serializing
  /\ \E i \in 1..Len(Names) : Ended(frames, Put(buffers, VariantName(i)), VariantName(i))

Inside(f, bufs) ==
  /\ Len(frames) < MaxNesting
  /\ frames' = Append(frames, f)
  /\ buffers' = bufs
  /\ UNCHANGED <<mode, outcome, ideal>>

Opened(f, bufs) == IF Owns(f) THEN Append(bufs, <<>>) ELSE Put(bufs, Opening(f))

(* The deterministic serializer only reserves memory for the length of a map. *)
Lengths(shape) ==
  IF shape = "map" /\ Mode = "deterministic" THEN {Unknown} ELSE 0..MaxEntries \cup {Unknown}

Collection(shape) ==
  /\ Serializing
  /\ \E known \in Lengths(shape) :
       LET f == Frame(shape, Mode, known) IN Inside(f, Opened(f, buffers))
  /\ UNCHANGED tagged

Struct ==
  /\ Serializing
  /\ \E known \in 0..Len(Names) :
       LET f == Frame("struct", Mode, known) IN Inside(f, Opened(f, buffers))
  /\ UNCHANGED tagged

Naming(name) == [Frame("variant", Mode, 1) EXCEPT !.asked = TRUE, !.given = <<name>>]

(* serialize_newtype_variant and serialize_tuple_variant: a map of one       *)
(* entry, whose key is the name for every serializer.                       *)
Variant ==
  /\ Serializing
  /\ \E i \in 1..Len(Names) : Inside(Naming(Names[i]), Put(buffers, VariantHead \o Names[i]))
  /\ UNCHANGED tagged

StructVariant ==
  /\ Serializing
  /\ Len(frames) + 1 < MaxNesting
  /\ \E i \in 1..Len(Names), known \in 0..Len(Names) :
       LET f == Frame("struct", Mode, known)
       IN  /\ frames' = frames \o <<Naming(VariantName(i)), f>>
           /\ buffers' = Opened(f, Put(buffers, VariantHead \o VariantName(i)))
  /\ UNCHANGED <<mode, tagged, outcome, ideal>>

(* Tagged::serialize calls to_vec.                                          *)
Tagged ==
  /\ Serializing
  /\ Inside([Frame("tagged", "streaming", 1) EXCEPT !.asked = TRUE], Append(buffers, <<>>))
  /\ tagged' = TRUE

SerializeFails == Running /\ Fail("error")

-----------------------------------------------------------------------------
(* end of a compound, and the return of what encloses one value.            *)
Given(f) ==
  CASE f.shape = "seq" -> Len(f.given)
    [] f.shape = "map" -> IF Len(f.given) % 2 = 1 THEN Unknown ELSE Len(f.given) \div 2
    [] f.shape = "struct" -> IF f.at < Len(Names) THEN Unknown ELSE Len(f.given) \div 2

Kept(f) == Given(f) # Unknown /\ (f.known = Unknown \/ Given(f) = f.known)

Ending == Running /\ frames # <<>> /\ ~Top.asked

EndDirect ==
  /\ Ending
  /\ Top.shape \in {"seq", "map", "struct"}
  /\ ~Owns(Top)
  /\ Kept(Top)
  /\ Ended(Front(frames), Put(buffers, Closing(Top)), Encoding(Top))

(* A fault: the body stays where it is.                                      *)
EndBufferedTwice ==
  /\ Ending
  /\ Buffering(Top)
  /\ Ended(Front(frames), Put(buffers, Head1(4, Top.count) \o Target), Encoding(Top))

EndBuffered ==
  /\ Ending
  /\ Buffering(Top)
  /\ Ended(Front(frames), Put(Front(buffers), Head1(4, Top.count) \o Target), Encoding(Top))

KeyOf(arena, e) == SubSeq(arena, e[1] + 1, e[2])
ValueOf(arena, e) == SubSeq(arena, e[3] + 1, e[4])

(* sort_unstable_by: an order of the entries in which no key goes back.      *)
Sorted(f, arena) ==
  LET n == Len(f.entries)
      KeyAt(i) == KeyOf(arena, f.entries[i])
      order == CHOOSE p \in [1..n -> 1..n] :
                 IsInjective(p) /\ \A i, j \in 1..n : i < j => ~Before(KeyAt(p[j]), KeyAt(p[i]))
  IN  [i \in 1..n |-> f.entries[order[i]]]

Repeated(entries, arena) ==
  \E i \in 1..(Len(entries) - 1) : KeyOf(arena, entries[i]) = KeyOf(arena, entries[i + 1])

Written(entries, arena) ==
  FlattenSeq([i \in 1..Len(entries) |-> KeyOf(arena, entries[i]) \o ValueOf(arena, entries[i])])

SortedEnds ==
  /\ Ending
  /\ Sorting(Top)
  /\ Top.shape = "struct" => Kept(Top)

KeyWithoutValue ==
  /\ SortedEnds
  /\ Top.span # <<>>
  /\ Fail("error")

DuplicateKey ==
  /\ SortedEnds
  /\ Top.span = <<>>
  /\ Repeated(Sorted(Top, Target), Target)
  /\ Fail("duplicate")

EndMap ==
  /\ SortedEnds
  /\ Top.span = <<>>
  /\ ~Repeated(Sorted(Top, Target), Target)
  /\ Ended(Front(frames),
           Put(Front(buffers),
               Head1(5, Len(Top.entries)) \o Written(Sorted(Top, Target), Target)),
           Encoding(Top))

VariantEnds ==
  /\ Ending
  /\ Top.shape = "variant"
  /\ Ended(Front(frames), buffers, Encoding(Top))

TaggedEnds ==
  /\ Ending
  /\ Top.shape = "tagged"
  /\ Ended(Front(frames), Put(Front(buffers), TagHead \o Target), Encoding(Top))

Compound == SerializeElement \/ SerializeKey \/ SerializeValue \/ OutOfTurn
            \/ SerializeField \/ SkipField
Value == Scalar \/ UnitVariant \/ Collection("seq") \/ Collection("map") \/ Struct
         \/ Variant \/ StructVariant \/ Tagged \/ SerializeFails
End == EndDirect \/ EndBuffered \/ KeyWithoutValue \/ DuplicateKey \/ EndMap
       \/ VariantEnds \/ TaggedEnds

Next == Call \/ Compound \/ Value \/ End

Spec == Init /\ [][Next]_vars

-----------------------------------------------------------------------------
Bytes == 0..255

Shapes == {"seq", "map", "struct", "variant", "tagged"}

Frames ==
  [shape: Shapes, mode: Modes, known: 0..Len(Names) \cup 0..MaxEntries \cup {Unknown},
   asked: BOOLEAN, span: Seq(Nat), entries: Seq([1..4 -> Nat]), count: Nat,
   at: 0..Len(Names), field: 0..Len(Names), given: Seq(Seq(Bytes))]

(* The vector into which the parts of the i-th value go when it owns one.   *)
Own(i) == buffers[1 + Cardinality({j \in 1..i : Owns(frames[j])})]

(* Every variable has its type.  A vector is open for every value that owns *)
(* one, above the caller's, and every value around another waits for it     *)
(* (serde_codec.rs 1861-1886, 1540-1555, tag.rs 42).                        *)
TypeOK ==
  /\ mode \in Modes
  /\ buffers \in Seq(Seq(Bytes))
  /\ Len(buffers) = 1 + Cardinality({i \in 1..Len(frames) : Owns(frames[i])})
  /\ frames \in Seq(Frames)
  /\ Len(frames) <= MaxNesting
  /\ \A i \in 1..(Len(frames) - 1) : frames[i].asked
  /\ tagged \in BOOLEAN
  /\ outcome \in {"running", "ok", "error", "duplicate"}
  /\ ideal \in Seq(Bytes)
  /\ ~Running => frames = <<>>

(* The offsets a map of the deterministic serializer has recorded delimit    *)
(* the keys and values it was given, in order, however the arena has grown    *)
(* since and whatever a nested map, a Tagged or a key that is itself a map    *)
(* wrote into it (serialize_key, serialize_value, serde_codec.rs 1957-1999). *)
SpansExact ==
  \A i \in 1..Len(frames) :
    LET f == frames[i]
        arena == Own(i)
        n == Len(f.entries)
    IN  Sorting(f) =>
          /\ \A j \in 1..n : /\ KeyOf(arena, f.entries[j]) = f.given[2 * j - 1]
                             /\ ValueOf(arena, f.entries[j]) = f.given[2 * j]
          /\ IF Len(f.span) < 2
               THEN Len(f.given) = 2 * n
               ELSE Len(f.given) = 2 * n + 1 /\ KeyOf(arena, f.span) = f.given[2 * n + 1]

(* After every call the caller's vector holds the encoding of the value, or   *)
(* nothing when the call failed: to_vec_into, to_vec_packed and              *)
(* to_vec_deterministic_impl (serde_codec.rs 102-187), whose maps come out    *)
(* the same in whatever order their entries were given.                      *)
Faithful == ~Running => buffers = <<ideal>>

-----------------------------------------------------------------------------
(* The inductive invariant: what every vector holds, from the parts given to *)
(* the values around, and what a map has recorded of its arena.              *)

(* What a value has written of itself; one that owns a vector, in there.     *)
Partial(f) ==
  CASE Owns(f) -> FlattenSeq(f.given)
    [] f.shape = "variant" -> VariantHead \o FlattenSeq(f.given)
    [] OTHER -> Opening(f) \o FlattenSeq(f.given)

Holding(bufs, f) == IF Owns(f) THEN Append(bufs, Partial(f)) ELSE Put(bufs, Partial(f))

(* The vectors that hold the values fs, each inside the one before.          *)
Layered(fs) ==
  LET layer[i \in 0..Len(fs)] == IF i = 0 THEN Clean ELSE Holding(layer[i - 1], fs[i])
  IN  layer[Len(fs)]

(* A caller gives no more than it announced, and a struct has enough fields  *)
(* left for those it announced.                                              *)
EntriesFit(f) ==
  /\ f.shape = "seq" => f.count = Len(f.given)
  /\ f.shape \in {"seq", "map"} =>
       LET most == IF f.shape = "seq" THEN Limit(f) ELSE 2 * Limit(f)
       IN  Len(f.given) <= most /\ (f.asked => Len(f.given) < most)
  /\ f.shape = "struct" =>
       /\ f.known \in 0..Len(Names)
       /\ f.field = f.at
       /\ Len(f.given) <= 2 * f.known
       /\ f.asked <=> Len(f.given) % 2 = 1
       /\ Len(Names) - f.at >= f.known - (Len(f.given) + 1) \div 2
  /\ f.shape # "struct" => f.known \in 0..MaxEntries \cup {Unknown}

(* The offsets e delimit a key and a value in an arena.                      *)
Cuts(arena, e, key, value) ==
  /\ e[1] <= e[2] /\ e[2] <= e[3] /\ e[3] <= e[4] /\ e[4] <= Len(arena)
  /\ KeyOf(arena, e) = key
  /\ ValueOf(arena, e) = value

SpansCut(f) ==
  LET arena == FlattenSeq(f.given)
      n == Len(f.entries)
      at == Len(f.span)
  IN  /\ at <= 3
      /\ ~Sorting(f) => f.span = <<>> /\ f.entries = <<>>
      /\ Sorting(f) =>
           /\ Len(f.given) = 2 * n + (IF at < 2 THEN 0 ELSE 1)
           /\ \A j \in 1..n : Cuts(arena, f.entries[j], f.given[2 * j - 1], f.given[2 * j])
           /\ f.asked <=> at \in {1, 3}
           /\ at = 1 => f.span[1] = Len(arena)
           /\ at \in {2, 3} =>
                /\ f.span[1] <= f.span[2] /\ f.span[2] = Len(arena)
                /\ KeyOf(arena, f.span) = f.given[2 * n + 1]
           /\ at = 3 => f.span[3] = Len(arena)
           /\ f.shape = "struct" => at \in {0, 3}

(* The values fs, each waiting for the next.                                *)
Stack(fs) ==
  /\ fs \in Seq(Frames)
  /\ Len(fs) <= MaxNesting
  /\ \A i \in 1..(Len(fs) - 1) : fs[i].asked
  /\ \A i \in 1..Len(fs) : EntriesFit(fs[i]) /\ SpansCut(fs[i])

WriterIInv ==
  /\ TypeOK
  /\ Stack(frames)
  /\ Running => buffers = Layered(frames) /\ ideal = <<>>
  /\ Faithful
=============================================================================
