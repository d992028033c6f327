------------------------------ MODULE MCEncoder ------------------------------
(* Boundary values for the encoders, and outputs that fail anywhere.        *)
EXTENDS EncoderLanguage

(* Arguments on both sides of every width.                                   *)
MCWords ==
  {Word(n) : n \in {0, 1, 23, 24, 255, 256, 65535, 65536}}
  \cup {Zeros(4) \o <<255, 255, 255, 255>>, Zeros(3) \o <<1>> \o Zeros(4),
        <<127, 255, 255, 255, 255, 255, 255, 255>>}
MCLarge == {<<128>> \o Zeros(7), <<255, 255, 255, 255, 255, 255, 255, 255>>}
MCUnsigned == MCWords \cup MCLarge
MCSigned == MCWords \cup {Not(w) : w \in MCWords}

(* Up to and beyond the widest head.                                         *)
MCMagnitudes ==
  {Extended(w, 16) : w \in MCUnsigned}
  \cup {Zeros(7) \o <<1>> \o Zeros(8), Not(<<128>> \o Zeros(15))}
MCWide == MCMagnitudes \cup {Not(w) : w \in MCMagnitudes}

MCBodies == {<<>>, <<65>>, [i \in 1..24 |-> 65]}
MCLong == [i \in 1..256 |-> 65]

(* Singles and doubles on both sides of what fits a half or a single.        *)
MCHighs == {0, 1, 2, 8191, 8192, 16384, 4194304, 8380416, 8388607}
MCDoubles ==
  [sign: {0, 1},
   exponent: {0, 1, 873, 874, 875, 896, 897, 998, 999, 1000, 1007, 1008, 1009,
              1023, 1038, 1039, 1150, 1151, 2046, 2047},
   high: MCHighs, low: {0, 1}]
MCSingles ==
  {Single(0, e, f) : e \in {0, 1, 127, 254}, f \in {0, 1, 3, 4194304, 8388607}}

Integers16(name, words) == {[op |-> name, n |-> w] : w \in words}
Bodies(bodies) == [op: {"bytes", "text"}, body: bodies]
Floats32 == {[op |-> "f32", single |-> s] : s \in MCSingles}
Floats64(name, doubles) == {[op |-> name, double |-> d] : d \in doubles}
Plain == {[op |-> "plain", b |-> b] : b \in {244, 245, 246, 247}}

MCEncoderOps ==
  UNION {Integers16(name, MCUnsigned) : name \in {"unsigned", "array", "tag"}}
  \cup UNION {Integers16(name, MCSigned) : name \in {"negative", "signed"}}
  \cup Integers16("integer", MCWide) \cup Integers16("map", {Word(0), Word(256)})
  \cup Bodies(MCBodies) \cup [op: {"raw"}, body: MCBodies] \cup Plain \cup Floats32
  \cup [op: {"simple"}, b: {0, 19, 20, 23, 24, 31, 32, 255}]
  \cup Floats64("f64", {d \in MCDoubles : d.exponent = 1023})
  \cup Floats64("f64_preferred", MCDoubles)

MCSerializerOps ==
  Integers16("unsigned", MCUnsigned) \cup Integers16("signed", MCSigned)
  \cup Integers16("i128", MCWide)
  \cup Integers16("u128", MCMagnitudes \cup {Not(Zeros(16))})
  \cup Bodies(MCBodies) \cup [op: {"bytes"}, body: {MCLong}] \cup Plain \cup Floats32
  \cup Floats64("f64", {d \in MCDoubles : d.exponent = 1023})

(* Values: every level may be cut off or be refused.                         *)
Leaf(o) == [type |-> "leaf", leaf |-> o]
Array(items) == [type |-> "array", items |-> items]
Map(items) == [type |-> "map", items |-> items]
Tag(tag, item) == [type |-> "tag", tag |-> tag, items |-> <<item>>]

MCSmall == Leaf([op |-> "unsigned", n |-> Word(24)])
MCText == Leaf([op |-> "text", body |-> <<65, 66>>])
MCBad == Leaf([op |-> "simple", b |-> 24])
MCHuge == Leaf([op |-> "integer", n |-> Zeros(7) \o <<1>> \o Zeros(8)])
MCValues ==
  {Array(<<>>), Array(<<MCSmall, MCText>>), Map(<<MCText, Array(<<MCSmall>>)>>),
   Tag(Word(55799), MCText), Array(<<MCSmall, MCBad, MCText>>),
   Map(<<MCSmall, MCHuge>>), Tag(Word(1), Map(<<MCSmall, Array(<<MCText, MCText>>)>>))}

One(by, ops) == {Call(by, <<o>>) : o \in ops}

MCFew == One("encoder", {[op |-> "unsigned", n |-> Word(24)], [op |-> "simple", b |-> 20],
                         [op |-> "text", body |-> <<65, 65, 65>>]})
         \cup {Call("encoder", Operations(v)) : v \in MCValues}
MCFewOther ==
  One("serializer",
      {[op |-> "unsigned", n |-> Word(256)], [op |-> "text", body |-> <<65, 65>>],
       [op |-> "i128", n |-> Not(Zeros(7) \o <<1>> \o Zeros(8))]})

MCCalls ==
  One("encoder", MCEncoderOps) \cup One("serializer", MCSerializerOps)
  \cup One("deterministic", Floats64("f64_preferred", MCDoubles))
  \cup MCFew \cup MCFewOther

Scripted(by, few) ==
  {<<c>> : c \in {c \in MCCalls : c.front = by}} \cup [1..2 -> few]

MCScripts ==
  [encoder |-> Scripted("encoder", MCFew),
   serializer |-> Scripted("serializer", MCFewOther),
   deterministic |-> Scripted("deterministic", {})]
=============================================================================
