--------------------------- MODULE SkipAgreement ---------------------------
(***************************************************************************)
(* The walkers of SkipItem on the same bytes: each of them walks a slice    *)
(* and the slice without its last byte, and their answers are compared.     *)
(* Callers rely on it: the parallel decoder cuts with one walker what       *)
(* another one reads, and a reader decodes a prefix again when it is longer.*)
(***************************************************************************)
EXTENDS SkipItem, FiniteSets

CONSTANT Order \* the walks, in the order they are made, each once

Walks == [mode: Modes, cut: BOOLEAN]

ASSUME AgreementAssumption ==
  /\ Modes = {"basic", "deterministic", "structural", "value"}
  /\ Order \in Seq(Walks) /\ {Order[i] : i \in 1..Len(Order)} = Walks
  /\ \A i, j \in 1..Len(Order) : Order[i] = Order[j] => i = j

VARIABLES
  whole,   \* the complete slice
  results  \* the answers of the walks made so far

allVars == <<vars, whole, results>>

Part(walk) == IF walk.cut THEN SubSeq(whole, 1, Len(whole) - 1) ELSE whole

Pending == {w \in Walks : results[w] = Running}

AgreementInit ==
  /\ whole \in Inputs \ {<<>>}
  /\ results = [w \in Walks |-> Running]
  /\ input = Part(Order[1]) /\ mode = Order[1].mode
  /\ phase = "item" /\ pos = 0 /\ stack = <<>> /\ outcome = Running
  /\ string = [major |-> 2, total |-> 0]

Walking == Step /\ UNCHANGED <<whole, results>>

Made == Cardinality(Walks \ Pending)

(* The answer is kept and the next walk begins with a decoder of its own.   *)
NextWalk ==
  /\ phase = "stop"
  /\ Made < Len(Order)
  /\ results' = [results EXCEPT ![Order[Made + 1]] = outcome]
  /\ IF Made + 1 = Len(Order)
     THEN UNCHANGED vars
     ELSE /\ input' = Part(Order[Made + 2]) /\ mode' = Order[Made + 2].mode
          /\ phase' = "item" /\ pos' = 0 /\ stack' = <<>> /\ outcome' = Running
          /\ string' = [major |-> 2, total |-> 0]
  /\ UNCHANGED whole

Compared == Pending = {} /\ UNCHANGED allVars

AgreementNext == Walking \/ NextWalk \/ Compared

AgreementSafety == AgreementInit /\ [][AgreementNext]_allVars

AgreementSpec ==
  /\ AgreementSafety
  /\ WF_allVars(Walking) /\ WF_allVars(NextWalk)
-----------------------------------------------------------------------------
Answer(walker) == results[[mode |-> walker, cut |-> FALSE]]

IsOk(answer) == answer.tag = "ok"

IsError(answer, kinds) == answer.tag = "error" /\ answer.kind \in kinds

(* What one walker accepts another may only refuse for its own reason, and   *)
(* two that accept end the item at the same byte: the parallel scan cuts     *)
(* where skip and the value decoder stop, skip refuses what the scan accepts *)
(* only for its text, the value decoder what skip accepts only for a limit.  *)
SameItems ==
  Pending = {} =>
    /\ IsOk(Answer("basic")) => Answer("structural") = Answer("basic")
    /\ IsOk(Answer("structural")) =>
         \/ Answer("basic") = Answer("structural")
         \/ IsError(Answer("basic"), {"utf8"})
    /\ IsOk(Answer("value")) => Answer("basic") = Answer("value")
    /\ IsOk(Answer("basic")) =>
         Answer("value") = Answer("basic") \/ IsError(Answer("value"), {"limit"})
    /\ IsOk(Answer("deterministic")) => Answer("basic") = Answer("deterministic")
    /\ IsOk(Answer("basic")) =>
         \/ Answer("deterministic") = Answer("basic")
         \/ IsError(Answer("deterministic"), {"nondeterministic"})

(* A walker that decides on a prefix decides the same on every longer slice: *)
(* only the end of the input asks for more.  The reader decoders rely on it. *)
(* A proper prefix of an item is therefore refused for its end, which one    *)
(* example of core_adversarial.rs 95 tries.                                  *)
PrefixDecides ==
  Pending = {} =>
    \A m \in Modes :
      LET cut == results[[mode |-> m, cut |-> TRUE]]
      IN  IsError(cut, {"eof"}) \/ Answer(m) = cut

(* Every walk returns, however the lengths in the input lie.                 *)
WalksReturn == <>(Pending = {})
=============================================================================
