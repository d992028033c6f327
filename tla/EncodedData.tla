---------------------------- MODULE EncodedData -----------------------------
(***************************************************************************)
(* Heads and floats as bytes: how src/encode.rs and src/serde_codec.rs      *)
(* write them and how src/decode.rs reads them.  A word is the sequence of  *)
(* its bytes, the most significant one first: 8 of them for u64 and i64, 16 *)
(* for i128, in two's complement.                                           *)
(***************************************************************************)
EXTENDS Integers, Sequences

Zeros(n) == [i \in 1..n |-> 0]

Low(word, n) == SubSeq(word, Len(word) - n + 1, Len(word))

(* The value needs no more than n bytes.                                    *)
Narrow(word, n) == \A i \in 1..(Len(word) - n) : word[i] = 0

Extended(word, n) == Zeros(n - Len(word)) \o word

Word(n) ==
  Zeros(4) \o <<n \div 16777216, (n \div 65536) % 256, (n \div 256) % 256, n % 256>>

(* !n, which is -1 - n.                                                     *)
Not(word) == [i \in 1..Len(word) |-> 255 - word[i]]

Negative(word) == word[1] >= 128

-----------------------------------------------------------------------------
(* Heads.                                                                   *)

(* Encoder::head and encode_tag_header: the shortest head for an argument.  *)
HeadBytes(major, n) ==
  LET low == Low(n, 1)[1]
  IN  CASE Narrow(n, 1) /\ low < 24     -> <<32 * major + low>>
        [] Narrow(n, 1) /\ low >= 24    -> <<32 * major + 24, low>>
        [] Narrow(n, 2) /\ ~Narrow(n, 1) -> <<32 * major + 25>> \o Low(n, 2)
        [] Narrow(n, 4) /\ ~Narrow(n, 2) -> <<32 * major + 26>> \o Low(n, 4)
        [] OTHER                         -> <<32 * major + 27>> \o n

(* write_head: a head of more than two bytes is written in two pieces.      *)
HeadPieces(major, n) ==
  LET head == HeadBytes(major, n)
  IN  IF Len(head) <= 2 THEN <<head>>
      ELSE <<SubSeq(head, 1, 1), SubSeq(head, 2, Len(head))>>

Info(in) == in[1] % 32

HeadWidth(in) ==
  CASE Info(in) < 24 -> 0
    [] Info(in) = 24 -> 1
    [] Info(in) = 25 -> 2
    [] Info(in) = 26 -> 4
    [] Info(in) = 27 -> 8

(* SliceDecoder::header of the bytes in.                                    *)
ReadHead(in) ==
  LET width == HeadWidth(in)
  IN  [major |-> in[1] \div 32,
       argument |-> IF width = 0 THEN Word(Info(in))
                    ELSE Extended(SubSeq(in, 2, 1 + width), 8),
       length |-> 1 + width]

(* What a deterministic decoder asks of the width of an argument.           *)
PreferredWidth(n) ==
  IF Narrow(n, 1) THEN IF n[8] < 24 THEN 0 ELSE 1
  ELSE IF Narrow(n, 2) THEN 2
  ELSE IF Narrow(n, 4) THEN 4
  ELSE 8

-----------------------------------------------------------------------------
(* Floats.  The fraction of a double is high, its upper 23 bits, and low,   *)
(* the 29 bits a single has no room for.                                    *)

Single(sign, exponent, fraction) ==
  [sign |-> sign, exponent |-> exponent, fraction |-> fraction]

Double(sign, exponent, high, low) ==
  [sign |-> sign, exponent |-> exponent, high |-> high, low |-> low]

None == -1
NotSingle == Single(0, None, 0)

IsNaN(d) == d.exponent = 2047 /\ (d.high # 0 \/ d.low # 0)

HalfNaN == 32256

SingleBytes(s) ==
  <<s.sign * 128 + s.exponent \div 2,
    (s.exponent % 2) * 128 + s.fraction \div 65536,
    (s.fraction \div 256) % 256, s.fraction % 256>>

DoubleBytes(d) ==
  <<d.sign * 128 + d.exponent \div 16,
    (d.exponent % 16) * 16 + d.high \div 524288,
    (d.high \div 2048) % 256, (d.high \div 8) % 256,
    (d.high % 8) * 32 + d.low \div 16777216,
    (d.low \div 65536) % 256, (d.low \div 256) % 256, d.low % 256>>

HalfBytes(h) == <<h \div 256, h % 256>>

SingleOf(b) ==
  Single(b[1] \div 128, (b[1] % 128) * 2 + b[2] \div 128,
         (b[2] % 128) * 65536 + b[3] * 256 + b[4])

DoubleOf(b) ==
  Double(b[1] \div 128, (b[1] % 128) * 16 + b[2] \div 16,
         (b[2] % 16) * 524288 + b[3] * 2048 + b[4] * 8 + b[5] \div 32,
         (b[5] % 32) * 16777216 + b[6] * 65536 + b[7] * 256 + b[8])

(* f64::from(f32).                                                          *)
Widened(s) ==
  IF s.exponent = 255 THEN Double(s.sign, 2047, s.fraction, 0)
  ELSE IF s.exponent > 0 THEN Double(s.sign, s.exponent + 896, s.fraction, 0)
  ELSE IF s.fraction = 0 THEN Double(s.sign, 0, 0, 0)
  ELSE LET k == CHOOSE k \in 0..22 : s.fraction \div (2 ^ k) = 1
       IN  Double(s.sign, 874 + k, (s.fraction - 2 ^ k) * 2 ^ (23 - k), 0)

(* value as f32, when widening it gives value again.                        *)
Narrowed(d) ==
  LET shift == 897 - d.exponent
  IN  CASE d.low # 0 -> NotSingle
        [] d.low = 0 /\ d.exponent = 2047 ->
             IF d.high = 0 THEN Single(d.sign, 255, 0) ELSE NotSingle
        [] d.low = 0 /\ d.exponent \in 897..1150 ->
             Single(d.sign, d.exponent - 896, d.high)
        [] d.low = 0 /\ d.exponent \in 874..896 ->
             IF (8388608 + d.high) % (2 ^ shift) = 0
             THEN Single(d.sign, 0, (8388608 + d.high) \div (2 ^ shift))
             ELSE NotSingle
        [] d.low = 0 /\ d.exponent = 0 /\ d.high = 0 -> Single(d.sign, 0, 0)
        [] OTHER -> NotSingle

(* A fault: the bits a subnormal half has no room for are not looked at.    *)
ExactHalfRounds(s) ==
  LET half == s.exponent - 127 + 15
      sign == s.sign * 32768
  IN  IF s.exponent = 255 THEN IF s.fraction = 0 THEN sign + 31744 ELSE sign + HalfNaN
      ELSE IF half >= 31 THEN None
      ELSE IF half <= 0
      THEN IF s.exponent = 0 /\ s.fraction = 0 THEN sign
           ELSE IF half < -10 THEN None
           ELSE sign + (8388608 + s.fraction) \div (2 ^ (14 - half))
      ELSE IF s.fraction % 8192 # 0 THEN None
      ELSE sign + half * 1024 + s.fraction \div 8192

ExactHalf(s) ==
  LET half == s.exponent - 127 + 15
      sign == s.sign * 32768
      mantissa == 8388608 + s.fraction
      unit == 2 ^ (14 - half)
  IN  CASE s.exponent = 255 /\ s.fraction = 0 -> sign + 31744
        [] s.exponent = 255 /\ s.fraction # 0 -> sign + HalfNaN
        [] s.exponent = 0 /\ s.fraction = 0 -> sign
        [] s.exponent # 0 /\ half \in -10..0 ->
             IF mantissa % unit = 0 THEN sign + mantissa \div unit ELSE None
        [] half \in 1..30 ->
             IF s.fraction % 8192 = 0 THEN sign + half * 1024 + s.fraction \div 8192
             ELSE None
        [] OTHER -> None

(* exact_half_f64, which works on the bits of the double.                   *)
ExactHalfOfDouble(d) ==
  LET sign == d.sign * 32768
      mantissa == 8388608 + d.high
      unit == 2 ^ (1022 - d.exponent)
  IN  CASE d.exponent = 2047 /\ d.high = 0 /\ d.low = 0 -> sign + 31744
        [] d.exponent \in 1009..1038 /\ d.low = 0 /\ d.high % 8192 = 0 ->
             sign + (d.exponent - 1008) * 1024 + d.high \div 8192
        [] d.exponent \in 999..1008 /\ d.low = 0 /\ mantissa % unit = 0 ->
             sign + mantissa \div unit
        [] d.exponent = 0 /\ d.high = 0 /\ d.low = 0 -> sign
        [] OTHER -> None

FloatHalf(h) == <<249>> \o HalfBytes(h)
FloatSingle(s) == <<250>> \o SingleBytes(s)
FloatDouble(d) == <<251>> \o DoubleBytes(d)

(* Encoder::f64_preferred.                                                  *)
Preferred(d) ==
  LET single == Narrowed(d)
  IN  IF IsNaN(d) THEN FloatHalf(HalfNaN)
      ELSE IF single = NotSingle THEN FloatDouble(d)
      ELSE IF ExactHalf(single) # None THEN FloatHalf(ExactHalf(single))
      ELSE FloatSingle(single)

(* write_float_preferred of the serializers.                                *)
PreferredBits(d) ==
  IF d.exponent # 2047 /\ d.low # 0 THEN FloatDouble(d)
  ELSE IF IsNaN(d) THEN FloatHalf(HalfNaN)
  ELSE IF d.low = 0 /\ d.high % 8192 = 0 /\ ExactHalfOfDouble(d) # None
  THEN FloatHalf(ExactHalfOfDouble(d))
  ELSE IF Narrowed(d) # NotSingle THEN FloatSingle(Narrowed(d))
  ELSE FloatDouble(d)

(* half_to_f64 before it is widened.                                        *)
HalfToSingle(h) ==
  LET sign == h \div 32768
      exponent == (h \div 1024) % 32
      fraction == h % 1024
      top == CHOOSE k \in 0..9 : fraction \div (2 ^ k) = 1
      shift == 10 - top
  IN  CASE exponent = 0 /\ fraction = 0 -> Single(sign, 0, 0)
        [] exponent = 0 /\ fraction # 0 ->
             Single(sign, 113 - shift, ((fraction * 2 ^ shift) % 1024) * 8192)
        [] exponent = 31 -> Single(sign, 255, fraction * 8192)
        [] OTHER -> Single(sign, exponent + 112, fraction * 8192)

(* The floats an Event::Float can come from.                                *)
ReadFloat(in) ==
  CASE in[1] = 249 -> Widened(HalfToSingle(in[2] * 256 + in[3]))
    [] in[1] = 250 -> Widened(SingleOf(SubSeq(in, 2, 5)))
    [] in[1] = 251 -> DoubleOf(SubSeq(in, 2, 9))

(* validate_deterministic_float.                                            *)
FloatAccepted(in) ==
  CASE in[1] = 249 ->
         IsNaN(Widened(HalfToSingle(in[2] * 256 + in[3]))) =>
           in[2] * 256 + in[3] = HalfNaN
    [] in[1] = 250 -> ExactHalf(SingleOf(SubSeq(in, 2, 5))) = None
    [] in[1] = 251 -> LET d == DoubleOf(SubSeq(in, 2, 9))
                      IN  ~IsNaN(d) /\ Narrowed(d) = NotSingle
=============================================================================
