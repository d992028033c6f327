------------------------------ MODULE Encoder -------------------------------
(***************************************************************************)
(* What a call of an encoder writes, as the pieces it hands to ByteOutput:  *)
(*   "encoder"        Encoder of src/encode.rs, and Value::encode over it   *)
(*   "serializer"     StreamingSerializer of src/serde_codec.rs             *)
(*   "deterministic"  the floats of DeterministicSerializer                 *)
(* A call is a list of operations made one after another, each with `?`:    *)
(* one operation, or those of a value that is encoded.                      *)
(*                                                                          *)
(* Integers are words, floats patterns, strings bytes (EncodedData).        *)
(***************************************************************************)
EXTENDS EncodedData, SequencesExt

(* An integer of two's complement: its head is that of n or of -1 - n.      *)
SignMajor(n) == IF Negative(n) THEN 1 ELSE 0
Magnitude(n) == IF Negative(n) THEN Not(n) ELSE n

-----------------------------------------------------------------------------
(* Encoder.                                                                 *)

SimplePieces(b) == IF b < 20 THEN <<<<224 + b>>>> ELSE <<<<248, b>>>>

StringMajor(op) == IF op = "text" THEN 3 ELSE 2

EncoderPieces(o) ==
  CASE o.op = "unsigned" -> <<HeadBytes(0, o.n)>>
    [] o.op \in {"negative", "signed", "integer"} ->
         <<HeadBytes(SignMajor(o.n), Low(Magnitude(o.n), 8))>>
    [] o.op \in {"bytes", "text"} ->
         <<HeadBytes(StringMajor(o.op), Word(Len(o.body))), o.body>>
    [] o.op = "array" -> <<HeadBytes(4, o.n)>>
    [] o.op = "map" -> <<HeadBytes(5, o.n)>>
    [] o.op = "tag" -> <<HeadBytes(6, o.n)>>
    [] o.op = "simple" -> SimplePieces(o.b)
    [] o.op = "plain" -> <<<<o.b>>>>
    [] o.op = "f32" -> <<FloatSingle(o.single)>>
    [] o.op = "f64" -> <<FloatDouble(o.double)>>
    [] o.op = "f64_preferred" -> <<Preferred(o.double)>>
    [] o.op = "raw" -> <<o.body>>

EncoderRefusal(o) ==
  CASE o.op = "negative" /\ ~Negative(o.n) -> "type"
    [] o.op = "integer" /\ ~Narrow(Magnitude(o.n), 8) -> "overflow"
    [] o.op = "simple" /\ o.b \in 20..31 -> "additional"
    [] OTHER -> "ok"

-----------------------------------------------------------------------------
(* The serializers.                                                         *)

(* write_bignum_bytes: leading zeros are left out, the last byte is not.    *)
Stripped(n) ==
  LET first == CHOOSE i \in 1..Len(n) :
                 /\ i = Len(n) \/ n[i] # 0
                 /\ \A j \in 1..(i - 1) : n[j] = 0
  IN  SubSeq(n, first, Len(n))

BytesPieces(major, body) == Append(HeadPieces(major, Word(Len(body))), body)

(* i128 and u128: a head where one is wide enough, else a bignum.           *)
WidePieces(n, negative) ==
  LET m == IF negative THEN Not(n) ELSE n
      major == IF negative THEN 1 ELSE 0
  IN  IF Narrow(m, 8) THEN HeadPieces(major, Low(m, 8))
      ELSE HeadPieces(6, Word(2 + major)) \o BytesPieces(2, Stripped(m))

SerializerPieces(o) ==
  CASE o.op = "unsigned" -> HeadPieces(0, o.n)
    [] o.op = "signed" -> HeadPieces(SignMajor(o.n), Low(Magnitude(o.n), 8))
    [] o.op = "i128" -> WidePieces(o.n, Negative(o.n))
    [] o.op = "u128" -> WidePieces(o.n, FALSE)
    [] o.op \in {"bytes", "text"} -> BytesPieces(StringMajor(o.op), o.body)
    [] o.op = "plain" -> <<<<o.b>>>>
    [] o.op = "f32" -> <<FloatSingle(o.single)>>
    [] o.op = "f64" -> <<FloatDouble(o.double)>>
    [] o.op = "f64_preferred" -> <<PreferredBits(o.double)>>

-----------------------------------------------------------------------------
(* Value::encode.                                                           *)

RECURSIVE Operations(_)
Operations(v) ==
  CASE v.type = "array" ->
         <<[op |-> "array", n |-> Word(Len(v.items))]>>
         \o FlattenSeq([i \in 1..Len(v.items) |-> Operations(v.items[i])])
    [] v.type = "map" ->
         <<[op |-> "map", n |-> Word(Len(v.items) \div 2)]>>
         \o FlattenSeq([i \in 1..Len(v.items) |-> Operations(v.items[i])])
    [] v.type = "tag" ->
         <<[op |-> "tag", n |-> v.tag]>> \o Operations(v.items[1])
    [] v.type = "leaf" -> <<v.leaf>>

-----------------------------------------------------------------------------
(* The calls.                                                               *)

Pieces(by, o) ==
  IF by = "encoder" THEN EncoderPieces(o) ELSE SerializerPieces(o)

RefusalBy(by, o) == IF by = "encoder" THEN EncoderRefusal(o) ELSE "ok"

(* The first operation that is refused ends the call, after the pieces of   *)
(* those before it.  An empty piece asks nothing of an output.              *)
Call(by, ops) ==
  LET refused == SelectInSeq(ops, LAMBDA o : RefusalBy(by, o) # "ok")
      made == IF refused = 0 THEN ops ELSE SubSeq(ops, 1, refused - 1)
      pieces == FlattenSeq([i \in 1..Len(made) |-> Pieces(by, made[i])])
  IN  [front |-> by, ops |-> ops, bytes |-> FlattenSeq(pieces),
       cuts |-> {Len(FlattenSeq(SubSeq(pieces, 1, i))) : i \in 1..Len(pieces)} \ {0},
       refusal |-> IF refused = 0 THEN "ok" ELSE RefusalBy(by, ops[refused])]
=============================================================================
