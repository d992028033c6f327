----------------------------- MODULE MCIterators -----------------------------
(* Small slices for the iterators and the bulk decoders.                    *)
EXTENDS SliceReading

(* Items of one byte, heads that end in the next byte, a reserved head,       *)
(* integers without an argument, strings, containers, a tag and the break.   *)
MCHeads == {0, 24, 28, 31, 65, 95, 97, 129, 159, 161, 191, 193, 246, 248, 255}
MCShort == UNION {[1..n -> MCHeads] : n \in 1..3}

(* Containers and strings of two levels, and an argument of two bytes.        *)
MCNested == [1..5 -> {0, 24, 129, 162, 191, 255}]
MCWide == [1..4 -> {25, 28, 96, 98, 130, 192}]

MCItems == {<<>>, <<0>>, <<24, 24>>, <<24, 5>>, <<128>>, <<130, 0, 246>>, <<97, 0>>,
            <<97, 128>>, <<193, 0>>, <<95, 65, 0, 255>>, <<191, 0, 161, 0, 0, 255>>,
            <<159, 159, 255>>, <<131, 0, 0, 0>>, <<193, 193, 193, 193, 0>>,
            <<248, 5>>, <<29>>}
MCLast == {<<>>, <<0>>, <<24, 5>>, <<97, 128>>, <<159, 159, 255>>, <<29>>}
(* Sequences of items, some refused.                                          *)
MCSequences == {a \o b \o c : a \in MCItems, b \in MCItems, c \in MCLast}

(* Text and floats that a decoder may refuse, before a last item.            *)
MCTails ==
  {t \o <<0>> : t \in
     {<<98, 195, 169>>, <<98, 195, 40>>, <<99, 237, 160, 128>>, <<127, 98, 195, 169, 255>>,
      <<249, 60, 0>>, <<249, 126, 0>>, <<249, 126, 1>>, <<250, 63, 128, 0, 0>>,
      <<250, 63, 128, 32, 1>>, <<251, 63, 240, 0, 0, 0, 0, 0, 0>>,
      <<251, 63, 240, 0, 0, 0, 0, 0, 1>>, <<251, 127, 248, 0, 0, 0, 0, 0, 0>>}}

-----------------------------------------------------------------------------
(* Arrays.  Four heads of a width, arguments on both sides of a sign bit, and *)
(* one that breaks the block.                                                 *)
MCOfByte == {<<24, 5>>, <<24, 200>>, <<56, 127>>, <<56, 128>>}
MCOfTwo == {<<25, 0, 5>>, <<25, 128, 0>>, <<57, 127, 255>>}
MCOfFour == {<<26, 0, 0, 0, 5>>, <<26, 128, 0, 0, 0>>, <<58, 127, 255, 255, 255>>}
MCOfEight ==
  {<<27, 0, 0, 0, 0, 0, 0, 0, 5>>, <<27, 128, 0, 0, 0, 0, 0, 0, 0>>,
   <<59, 127, 255, 255, 255, 255, 255, 255, 255>>}

MCFour(elements) ==
  {a \o b \o c \o d : a \in elements, b \in elements, c \in elements, d \in elements}

MCBlocks ==
  {<<132>> \o four : four \in MCFour(MCOfByte) \cup MCFour(MCOfTwo)
                               \cup MCFour(MCOfFour) \cup MCFour(MCOfEight)}

(* A block behind or before another element, cut short, or followed.         *)
MCFirst == {<<24, 5>>, <<25, 0, 5>>, <<26, 0, 0, 0, 5>>, <<27, 0, 0, 0, 0, 0, 0, 0, 5>>}
MCEdges ==
  UNION {LET four == e \o e \o e \o e
         IN  {<<133>> \o four \o e, <<133>> \o <<7>> \o four, <<133>> \o four,
              <<132>> \o SubSeq(four, 1, Len(four) - 1), <<132>> \o four \o <<0>>,
              <<136>> \o four \o four, <<159>> \o four, <<159>> \o four \o <<255>>,
              <<159>> \o four \o <<255, 0>>} : e \in MCFirst}

(* Eight items of a byte, one of which may be another.                       *)
MCEights ==
  {<<136>> \o [[i \in 1..8 |-> IF i % 2 = 0 THEN pair[1] ELSE pair[2]] EXCEPT ![k] = odd] :
     pair \in {<<0, 23>>, <<32, 55>>, <<244, 245>>}, k \in 1..8, odd \in {23, 24, 245, 246}}

(* Nine items: more than the limit.                                          *)
MCNine ==
  UNION {{<<137>> \o [i \in 1..9 |-> b], <<159>> \o [i \in 1..9 |-> b] \o <<255>>,
          <<159>> \o [i \in 1..8 |-> b] \o <<255>>, <<152, 9>> \o [i \in 1..9 |-> b],
          <<152, 8>> \o [i \in 1..8 |-> b]} : b \in {0, 32, 245}}

(* Two elements of any kind, or cut short.                                   *)
MCElements ==
  {<<>>, <<5>>, <<55>>, <<24, 200>>, <<25, 1, 0>>, <<56, 128>>, <<57, 128, 0>>,
   <<26, 0, 1, 0, 0>>, <<27, 0, 0, 0, 1, 0, 0, 0, 0>>, <<59, 128, 0, 0, 0, 0, 0, 0, 0>>,
   <<28>>, <<31>>, <<60>>, <<63>>, <<24>>, <<27, 0>>, <<96>>, <<128>>, <<192>>,
   <<244>>, <<245>>, <<246>>, <<248, 40>>, <<255>>, <<249, 60, 0>>, <<249, 60>>,
   <<250, 63, 128, 32, 1>>, <<251, 63, 240, 0, 0, 0, 0, 0, 1>>, <<251, 0>>}
MCMixed ==
  {<<130>> \o a \o b : a \in MCElements, b \in MCElements}
  \cup {<<159>> \o a \o b \o <<255>> : a \in MCElements, b \in MCElements}

(* Floats of one width, and one of another among them.                        *)
MCFloats ==
  {<<132>> \o four : four \in MCFour({<<250, 63, 128, 32, 1>>, <<249, 60, 0>>})
                              \cup MCFour({<<251, 63, 240, 0, 0, 0, 0, 0, 1>>, <<5>>})}

MCArrays ==
  MCBlocks \cup MCEdges \cup MCEights \cup MCNine \cup MCMixed \cup MCFloats

MCBulkRead(in) == IF in = <<>> THEN TRUE ELSE Len(in) = 1 \/ in[1] \div 32 = 4

MCBytes == 0..255

MCInputs ==
  MCShort \cup MCNested \cup MCWide \cup MCSequences \cup MCTails \cup MCArrays
=============================================================================
