------------------------ MODULE SerdeWriterLanguage ------------------------
(***************************************************************************)
(* What SerdeWriter writes, stated with the grammar of WellFormed.          *)
(***************************************************************************)
EXTENDS SerdeWriter

(* A variant is a map of its own and a Tagged a tag: one level each.        *)
Grammar(canonical) ==
  INSTANCE WellFormed WITH
    Height <- MaxNesting, MaxCollection <- Max({MaxEntries, Len(Names)}),
    TextChecked <- TRUE, TotalBounded <- FALSE, Canonical <- canonical

IsItem(canonical) == Len(Target) \in Grammar(canonical)!Ends(Target)

(* What a successful call leaves is one CBOR item and nothing behind it, and  *)
(* when the deterministic serializer wrote all of it, an item in              *)
(* deterministic encoding: lengths given and keys in order, each only once    *)
(* (StreamingCompound::new, finish, serde_codec.rs 1506-1562;                *)
(* DeterministicCompound::finish, 2001-2049).                                *)
WellEncoded == outcome = "ok" => IsItem(mode = "deterministic" /\ ~tagged)

(* The doc of to_vec_deterministic (serde_codec.rs 124), for all values.     *)
Deterministic == outcome = "ok" /\ mode = "deterministic" => IsItem(TRUE)
=============================================================================
