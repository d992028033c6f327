--------------------------- MODULE MCSerdeWriter ---------------------------
(* Small values for the serializers.                                        *)
EXTENDS SerdeWriterLanguage

(* With the names, which unit variants write too, values of different length *)
(* and order.                                                               *)
MCScalars == {<<0>>}

(* Two names, "a" and "", declared against their order.                      *)
MCNames == <<<<97, 97>>, <<96>>>>
=============================================================================
