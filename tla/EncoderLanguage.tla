-------------------------- MODULE EncoderLanguage ---------------------------
(***************************************************************************)
(* The encoders on their outputs, and what a decoder reads of it.           *)
(***************************************************************************)
EXTENDS Encoder, ByteOutput

Grammar ==
  INSTANCE WellFormed WITH
    Height <- 4, MaxCollection <- 4, TextChecked <- TRUE, TotalBounded <- FALSE,
    Canonical <- FALSE

Rest(in, n) == SubSeq(in, n + 1, Len(in))

(* The integer an item is read as, 16 bytes of two's complement.            *)
ReadInteger(in) ==
  LET head == ReadHead(in)
      string == Rest(in, head.length)
      bytes == Rest(string, ReadHead(string).length)
  IN  CASE head.major = 0 -> Extended(head.argument, 16)
        [] head.major = 1 -> Not(Extended(head.argument, 16))
        [] head.major = 6 /\ head.argument = Word(2) -> Extended(bytes, 16)
        [] head.major = 6 /\ head.argument = Word(3) -> Not(Extended(bytes, 16))

(* The number that was meant, as 16 bytes.                                  *)
Meant(o) ==
  IF o.op \in {"negative", "signed"} /\ Negative(o.n) THEN Not(Extended(Not(o.n), 16))
  ELSE Extended(o.n, 16)

ReadsBack(o, in) ==
  LET head == ReadHead(in)
      body == Rest(in, head.length)
      preferred == HeadWidth(in) = PreferredWidth(head.argument)
      majors == [bytes |-> 2, text |-> 3, array |-> 4, map |-> 5, tag |-> 6]
  IN  CASE o.op \in {"unsigned", "negative", "signed", "integer", "i128", "u128"} ->
             preferred /\ ReadInteger(in) = Meant(o)
        [] o.op \in {"bytes", "text"} ->
             /\ preferred /\ head.major = majors[o.op]
             /\ head.argument = Word(Len(o.body)) /\ body = o.body
        [] o.op \in {"array", "map", "tag"} ->
             /\ preferred /\ head.major = majors[o.op]
             /\ head.argument = o.n /\ body = <<>>
        [] o.op = "simple" ->
             /\ head.major = 7 /\ body = <<>> /\ head.argument = Word(o.b)
             /\ Info(in) \in (0..19) \cup {24}
             /\ Info(in) = 24 => o.b >= 32
        [] o.op = "f32" -> ReadFloat(in) = Widened(o.single)
        [] o.op = "f64" -> ReadFloat(in) = o.double
        [] o.op = "f64_preferred" ->
             /\ FloatAccepted(in)
             /\ IF IsNaN(o.double) THEN IsNaN(ReadFloat(in))
                ELSE ReadFloat(in) = o.double
        [] o.op \in {"plain", "raw"} -> TRUE

Written == SubSeq(taken, Len(settled) + 1, Len(taken))

(* What a call that returns Ok has written a decoder reads as the value that *)
(* was given, in the one form a deterministic decoder accepts (encode.rs     *)
(* 67-279, serde_codec.rs 713-829): every head at its shortest, integers of  *)
(* any width and sign, and floats, for which two encoders and the decoder    *)
(* each have an arithmetic of their own.  A value is one item.               *)
RoundTrip ==
  phase = "writing" /\ given = Len(Bytes) /\ Current.refusal = "ok" =>
    IF Len(Current.ops) = 1 THEN ReadsBack(Current.ops[1], Written)
    ELSE Grammar!Ends(Written) = {Len(Written)}
=============================================================================
