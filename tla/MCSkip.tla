------------------------------- MODULE MCSkip -------------------------------
(* Small inputs for the walkers.                                            *)
EXTENDS SkipAgreement, SkipLanguage

AllModes == {"basic", "deterministic", "structural", "value"}

(* Every walker on the complete slice, then every walker on the shorter one. *)
MCOrder ==
  << [mode |-> "basic", cut |-> FALSE], [mode |-> "structural", cut |-> FALSE],
     [mode |-> "value", cut |-> FALSE], [mode |-> "deterministic", cut |-> FALSE],
     [mode |-> "basic", cut |-> TRUE], [mode |-> "structural", cut |-> TRUE],
     [mode |-> "value", cut |-> TRUE], [mode |-> "deterministic", cut |-> TRUE] >>

(* Every major type: 0, one-byte and two-byte arguments, a reserved head,     *)
(* strings of at most one byte and indefinite ones, arrays of one item,       *)
(* containers of indefinite length, a tag, a simple value and the break.      *)
MCHeads == {0, 24, 25, 28, 64, 65, 95, 97, 127, 129, 159, 191, 193, 248, 255}

(* All short inputs.                                                         *)
MCShort == UNION {[1..n -> MCHeads] : n \in 1..3}

(* Strings, containers of two entries, a tag and the break.                  *)
MCMixed == {0, 65, 95, 97, 130, 162, 191, 193, 255}
MCFour == [1..4 -> MCMixed]

(* Containers of two entries, and keys in any order.                         *)
MCNested == [1..5 -> {0, 1, 130, 162, 191, 255}]

(* Maps of two entries without their length.                                 *)
MCPairs == {<<191>> \o entries \o <<255>> : entries \in [1..4 -> {0, 97, 130}]}

(* Chains of one-item containers and tags, deeper than the limit.            *)
MCDeep ==
  {opens \o <<0>> \o closes :
     opens \in UNION {[1..n -> {129, 159, 193}] : n \in 2..3},
     closes \in UNION {[1..n -> {255}] : n \in 0..3}}

(* Strings in chunks, together longer than the limit.                        *)
MCChunks == {<<>>, <<64>>, <<65, 0>>, <<97, 0>>, <<66, 0, 1>>}
MCStrings ==
  {<<head>> \o a \o b \o c \o end :
     head \in {95, 127}, a \in MCChunks, b \in MCChunks, c \in MCChunks,
     end \in {<<>>, <<255>>}}

(* More entries than the limit, announced or not.                            *)
MCLong ==
  {<<131, 0, 0, 0>>, <<159, 0, 0, 0, 255>>, <<163, 0, 0, 1, 0, 24, 24, 0>>,
   <<191, 0, 0, 1, 0, 24, 24, 0, 255>>, <<191, 0, 0, 1, 0, 24, 255>>}

(* Characters of every length, some too long for their code point, cut short, *)
(* surrogates or beyond the last one; in one chunk, or broken over two.       *)
MCText ==
  {<<195, 169>>, <<193, 128>>, <<195, 40>>, <<223, 191>>, <<128, 128>>, <<65, 195>>,
   <<224, 160, 128>>, <<224, 128, 128>>, <<237, 159, 191>>, <<237, 160, 128>>,
   <<239, 191, 191>>, <<226, 40, 161>>, <<226, 130, 40>>, <<195, 169, 65>>,
   <<240, 144, 128, 128>>, <<240, 143, 128, 128>>, <<244, 143, 191, 191>>,
   <<244, 144, 128, 128>>, <<245, 128, 128, 128>>, <<195, 169, 195, 168>>}
MCTexts ==
  UNION {{<<96 + Len(t)>> \o t, <<64 + Len(t)>> \o t,
          <<127, 96 + Len(t)>> \o t \o <<255>>,
          <<127, 97, t[1], 95 + Len(t)>> \o Tail(t) \o <<255>>} : t \in MCText}

(* Floats of the three widths: zeros, subnormals, the edges of normal ones,   *)
(* infinities and NaNs, some of which have a shorter form.                    *)
MCFloats ==
  {<<249, a, b>> : a \in {0, 60, 124, 126}, b \in {0, 1}}
  \cup {<<250, a, b, c, 0>> : a \in {0, 51, 63, 127}, b \in {0, 127, 128, 192},
                             c \in {0, 32}}
  \cup {<<251, a, b, c, 0, d, 0, 0, 1 - e>> :
         a \in {0, 54, 63, 127}, b \in {0, 224, 240, 248}, c \in {0, 32},
         d \in {0, 32}, e \in {0, 1}}

MCBytes == 0..255

MCInputs == MCShort \cup MCFour \cup MCNested \cup MCPairs \cup MCDeep
           \cup MCStrings \cup MCLong \cup MCTexts \cup MCFloats
=============================================================================
