----------------------------- MODULE WellFormed -----------------------------
(***************************************************************************)
(* Which parts of a slice are CBOR items, defined from the grammar of the   *)
(* items bottom up: for every offset the offsets where an item that begins  *)
(* there may end, level by level of nesting.  It has no position, no stack  *)
(* and no order of tests; the walkers of SkipItem and what SerdeWriter      *)
(* writes are compared with it.                                             *)
(***************************************************************************)
EXTENDS Integers, Sequences

CONSTANTS
  Height,        \* the deepest nesting of an item
  MaxCollection, \* the most entries of a collection and bytes of a string
  TextChecked,   \* text is to be UTF-8
  TotalBounded,  \* the chunks of a string are bounded together
  Canonical      \* heads and floats are to be the shortest, lengths given,
                 \* keys sorted

Data == INSTANCE EncodedData

-----------------------------------------------------------------------------
(* Complete heads, their ends and arguments, and those that have a shorter  *)
(* form.  Offsets count from 0.                                             *)

Byte(in, p) == in[p + 1]
Major(in, p) == Byte(in, p) \div 32
Info(in, p) == Byte(in, p) % 32

Extra(in, p) == IF Info(in, p) \in 24..27 THEN 2 ^ (Info(in, p) - 24) ELSE 0

End(in, p) == p + 1 + Extra(in, p)

(* n bytes from p on as a number.                                           *)
Number(in, p, n) ==
  LET number[i \in 0..n] ==
        IF i = 0 THEN 0 ELSE 256 * number[i - 1] + Byte(in, p + i - 1)
  IN  number[n]

N(in, p) ==
  IF Extra(in, p) = 0 THEN Info(in, p) ELSE Number(in, p + 1, Extra(in, p))

Shortened(in, p) ==
  CASE Info(in, p) = 24 -> N(in, p) < 24
    [] Info(in, p) \in 25..27 ->
         \A i \in 1..(Extra(in, p) \div 2) : Byte(in, p + i) = 0
    [] OTHER -> FALSE

Whole(in, p) ==
  /\ p < Len(in)
  /\ Info(in, p) \notin 28..30
  /\ p + Extra(in, p) < Len(in)
  /\ Canonical /\ Major(in, p) # 7 => ~Shortened(in, p)

Open(in, p) == Info(in, p) = 31

(* Where a break at p ends.                                                 *)
Stop(in, p) == IF p < Len(in) /\ Byte(in, p) = 255 THEN {p + 1} ELSE {}

-----------------------------------------------------------------------------
(* Strings and floats.                                                      *)

(* A code point that is no surrogate.                                       *)
Scalar(code) == code <= 1114111 /\ ~(55296 <= code /\ code <= 57343)

(* The bytes from p to q are a character in its shortest form.              *)
CodePoint(in, p, n) ==
  LET code[i \in 0..(n - 1)] ==
        IF i = 0 THEN Byte(in, p) % 2 ^ (7 - n)
        ELSE 64 * code[i - 1] + (Byte(in, p + i) % 64)
  IN  code[n - 1]

Character(in, p, q) ==
  LET n == q - p
      least == CASE n = 2 -> 128 [] n = 3 -> 2048 [] n = 4 -> 65536
  IN  \/ n = 1 /\ Byte(in, p) < 128
      \/ /\ n \in 2..4 /\ Byte(in, p) \div 2 ^ (7 - n) = 2 ^ (n + 1) - 2
         /\ \A i \in (p + 1)..(q - 1) : Byte(in, i) \div 64 = 2
         /\ CodePoint(in, p, n) >= least /\ Scalar(CodePoint(in, p, n))

(* The bytes from p to q are characters, one after another.                 *)
Text(in, p, q) ==
  LET text[i \in p..q] ==
        i = q \/ \E j \in (i + 1)..q : j - i <= 4 /\ Character(in, i, j) /\ text[j]
  IN  text[p]

(* A definite string of a major type, whatever its length.                  *)
Run(in, major, p) ==
  {q \in IF Whole(in, p) /\ Major(in, p) = major
         THEN {End(in, p) + N(in, p)} ELSE {} :
     /\ ~Open(in, p) /\ q <= Len(in)
     /\ TextChecked /\ major = 3 => Text(in, End(in, p), q)}

(* <<q, n>>: chunks of a major type and a break, from p to q, hold n bytes.  *)
Chunks(in, major, p) ==
  LET chunks[i \in p..Len(in)] ==
        {<<q, 0>> : q \in Stop(in, i)} \cup
        UNION {{<<c[1], c[2] + N(in, i)>> : c \in chunks[q]} :
                 q \in Run(in, major, i)}
  IN  chunks[p]

Bounded(chunks) == {c \in chunks : TotalBounded => c[2] <= MaxCollection}

String(in, p) ==
  IF ~Open(in, p) THEN {q \in Run(in, Major(in, p), p) : N(in, p) <= MaxCollection}
  ELSE {c[1] : c \in Bounded(Chunks(in, Major(in, p), End(in, p)))}

(* The bytes of a float are those an encoder writes for it.                 *)
Shortest(in, p) ==
  Info(in, p) \in 25..27 =>
    LET float == SubSeq(in, p + 1, End(in, p))
    IN  Data!Preferred(Data!ReadFloat(float)) = float

Leaf(in, p) ==
  CASE Major(in, p) \in {0, 1} -> {q \in {End(in, p)} : ~Open(in, p)}
    [] Major(in, p) \in {2, 3} -> {q \in String(in, p) : Open(in, p) => ~Canonical}
    [] Major(in, p) = 7 ->
         {q \in {End(in, p)} :
            /\ ~Open(in, p)
            /\ Info(in, p) = 24 => N(in, p) >= 32
            /\ Canonical => Shortest(in, p)}

-----------------------------------------------------------------------------
(* Collections.  R[p + 1] are the ends of what begins at p.                 *)
At(R, p) == R[p + 1]

(* Where parts of R end that begin in P, and n of them one after another.   *)
Following(R, P) == UNION {At(R, p) : p \in P}

After(R, P, n) ==
  LET after[k \in 0..n] == IF k = 0 THEN P ELSE Following(R, after[k - 1])
  IN  after[n]

Less(k, l) ==
  k # l /\ \A i \in 1..Len(k) :
    (\A j \in 1..(i - 1) : j <= Len(l) /\ k[j] = l[j]) => i <= Len(l) /\ k[i] <= l[i]

(* The entries that follow one with a smaller key, and n of them.           *)
Greater(in, R, entry) ==
  {q \in At(R, entry.to) : Less(entry.key, SubSeq(in, entry.to + 1, q))}

Entry(in, R, entry, q) ==
  {[to |-> v, key |-> SubSeq(in, entry.to + 1, q)] : v \in At(R, q)}

Sorted(in, R, S) ==
  UNION {UNION {Entry(in, R, e, q) : q \in Greater(in, R, e)} : e \in S}

Entries(in, R, S, n) ==
  LET entries[k \in 0..n] == IF k = 0 THEN S ELSE Sorted(in, R, entries[k - 1])
  IN  entries[n]

PerEntry(in, p) == IF Major(in, p) = 5 THEN 2 ELSE 1

Container(in, R, p) ==
  CASE Open(in, p) ->
         UNION {Stop(in, q) : q \in
           UNION {After(R, {End(in, p)}, n * PerEntry(in, p)) :
                    n \in {n \in 0..MaxCollection : ~Canonical}}}
    [] ~Open(in, p) /\ N(in, p) > MaxCollection -> {}
    [] ~Open(in, p) /\ N(in, p) <= MaxCollection /\ Canonical /\ Major(in, p) = 5 ->
         {e.to : e \in Entries(in, R, {[to |-> End(in, p), key |-> <<>>]}, N(in, p))}
    [] OTHER -> After(R, {End(in, p)}, N(in, p) * PerEntry(in, p))

(* One more level of nesting around the items of R.                         *)
Around(in, R, p) ==
  IF ~Whole(in, p) THEN {}
  ELSE CASE Major(in, p) = 6 -> {q \in At(R, End(in, p)) : ~Open(in, p)}
         [] Major(in, p) \in {4, 5} -> Container(in, R, p)
         [] OTHER -> Leaf(in, p)

-----------------------------------------------------------------------------
Nothing(in) == [i \in 1..(Len(in) + 1) |-> {}]

(* \o <<>> makes TLC evaluate a level only once.                            *)
Level(in, R) == [i \in 1..(Len(in) + 1) |-> Around(in, R, i - 1)] \o <<>>

(* The items of less than h levels.                                         *)
Nested(in, h) ==
  LET nested[k \in 0..h] ==
        IF k = 0 THEN Nothing(in) ELSE Level(in, nested[k - 1])
  IN  nested[h]

Items(in) == Nested(in, Height + 1)

(* Where the item at the front of in ends; empty when none does.            *)
Ends(in) == At(Items(in), 0)
=============================================================================
