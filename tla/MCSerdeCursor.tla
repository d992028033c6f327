--------------------------- MODULE MCSerdeCursor ----------------------------
(* Small types and inputs for SerdeCursor.                                  *)
EXTENDS SerdeCursor

H(kind, n) == [kind |-> kind, n |-> n]

MCHeads ==
  { H("scalar", 0), H("null", 0), H("tag", 0), H("break", 0),
    H("array", 1), H("array", 2), H("array", Indefinite),
    H("map", 1), H("map", Indefinite) }

(* Value-like, ignored, integers, a vector, a one-tuple, a map, an option and *)
(* an enum.                                                                  *)
MCTypes == {"any", "ignored", "leaf", "integer", "vec", "one", "map", "option", "enum"}

MCWant == [t \in MCTypes |-> IF t \in {"vec", "one"} THEN "seq" ELSE t]
MCTake == [t \in MCTypes |-> IF t = "one" THEN 1 ELSE All]
MCElements ==
  [t \in MCTypes |->
     CASE t = "any" -> {"any"}
       [] t = "vec" -> {"one", "option"}
       [] t = "one" -> {"leaf", "vec"}
       [] t = "map" -> {"integer", "ignored"}
       [] t = "option" -> {"leaf", "enum"}
       [] t = "enum" -> {"vec", "any"}
       [] OTHER -> {}]

-----------------------------------------------------------------------------
(* Vec, pairs and one-tuples of each other, all of a fixed length but Vec.   *)
TupleTypes == {"vec", "one", "two", "leaf"}

TupleWant == [t \in TupleTypes |-> IF t = "leaf" THEN "leaf" ELSE "seq"]
TupleTake ==
  [t \in TupleTypes |-> CASE t = "one" -> 1 [] t = "two" -> 2 [] OTHER -> All]
TupleElements == [t \in TupleTypes |-> IF t = "leaf" THEN {} ELSE TupleTypes]

TupleHeads ==
  { H("scalar", 0), H("break", 0), H("array", 0), H("array", 1), H("array", 2),
    H("array", 3), H("array", Indefinite) }
=============================================================================
