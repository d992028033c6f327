----------------------------- MODULE WholeItems -----------------------------
(***************************************************************************)
(* What encoding to an output promises: a call that returns Ok has added    *)
(* all its bytes, one that returns an error has added the bytes before the  *)
(* place where it failed, and nothing that an earlier call added changes.   *)
(* A growing vector and a counter never fail, a slice fails exactly when    *)
(* the bytes do not fit, a writer may fail whenever bytes are left.         *)
(***************************************************************************)
EXTENDS Integers, Sequences

VARIABLES
  kind,    \* the output: "vec", "slice", "count", "io"
  room,    \* the length of a slice
  script,  \* the calls the caller makes
  made,    \* how many have returned
  done,    \* the bytes added
  answer   \* what the last call returned

vars == <<kind, room, script, made, done, answer>>

Current == script[made + 1]

Fits == kind = "slice" => Len(done) + Len(Current.bytes) <= room

Init ==
  /\ made = 0
  /\ done = <<>>
  /\ answer = "none"

Answered(bytes, result) ==
  /\ done' = done \o bytes
  /\ made' = made + 1
  /\ answer' = result
  /\ UNCHANGED <<kind, room, script>>

(* All was given: an error then is the encoder's own refusal.               *)
Complete ==
  /\ made < Len(script) /\ Fits
  /\ Answered(Current.bytes, Current.refusal)

(* The output failed: at least one byte is missing.                         *)
Partial(result) ==
  /\ made < Len(script)
  /\ \E n \in 0..(Len(Current.bytes) - 1) :
       Answered(SubSeq(Current.bytes, 1, n), result)

Full == made < Len(script) /\ ~Fits /\ Partial("too_small")

Broken == kind = "io" /\ (Partial("write_zero") \/ Partial("io"))

Next == Complete \/ Full \/ Broken

Spec == Init /\ [][Next]_vars
=============================================================================
