---------------------------- MODULE SkipLanguage ----------------------------
(***************************************************************************)
(* What the walkers of SkipItem accept, stated with the grammar of          *)
(* WellFormed.                                                              *)
(***************************************************************************)
EXTENDS SkipItem

(* The deepest nesting of an item is that of a leaf at MaxDepth.  The        *)
(* structural scan does not look at text, a value decoder joins the chunks,   *)
(* the deterministic validation has the order and the shortest forms.        *)
Grammar(walker) ==
  INSTANCE WellFormed WITH
    Height <- MaxDepth, TextChecked <- walker # "structural",
    TotalBounded <- walker = "value", Canonical <- walker = "deterministic"

Accepted == Grammar(mode)!Ends(input)

(* A walk returns Ok at an offset exactly when the grammar has an item from  *)
(* the first byte to that offset: skip, raw_structural and the value         *)
(* decoders (decode.rs 504-889, 2719-2916) accept the items within the       *)
(* limits, all of them and nothing else, and end where the item ends.        *)
Language ==
  phase = "stop" =>
    Accepted = IF outcome.tag = "ok" THEN {outcome.end} ELSE {}

-----------------------------------------------------------------------------
(* The inductive invariant behind Language.  Every open frame stands for the *)
(* item whose head opened it: what the grammar allows that item is what is   *)
(* left to read of the frame.                                                *)

(* The chunks of a string from p on, when total bytes of it were read.       *)
Ending(w, in, major, total, p) ==
  {c[1] : c \in {c \in Grammar(w)!Chunks(in, major, p) :
                   w = "value" => total + c[2] <= MaxCollection}}

(* Where a container ends whose frame is f, when its next item is to begin   *)
(* at q and R holds the items it is made of.                                *)

OpenCounts(f) ==
  {n \in 0..MostItems(f) : /\ f.done + n <= MostItems(f)
                            /\ (f.done + n) % PerEntry(f.kind) = 0}

(* The value of the entry that was begun may be still to come.               *)
Begun(w, R, f, q) ==
  IF f.done % 2 = 0 THEN {[to |-> q, key |-> f.previous]}
  ELSE {[to |-> v, key |-> f.previous] : v \in Grammar(w)!At(R, q)}

Remaining(w, in, R, f, q) ==
  IF f.items = Indefinite
  THEN UNION {Grammar(w)!Stop(in, e) :
                e \in UNION {Grammar(w)!After(R, {q}, n) : n \in OpenCounts(f)}}
  ELSE IF w = "deterministic" /\ f.kind = "map"
  THEN {e.to : e \in Grammar(w)!Entries(in, R, Begun(w, R, f, q),
                                        (f.items - f.done) \div 2)}
  ELSE Grammar(w)!After(R, {q}, f.items - f.done)

(* The same when an item of it has begun at f.from and ended at e.           *)
Advanced(w, in, f, e) ==
  [f EXCEPT !.done = @ + 1,
            !.previous = IF w = "deterministic" /\ IsKey(f)
                         THEN SubSeq(in, f.from + 1, e) ELSE @]

Unordered(w, in, f, e) ==
  /\ w = "deterministic" /\ IsKey(f)
  /\ ~Grammar(w)!Less(f.previous, SubSeq(in, f.from + 1, e))

Beyond(w, in, R, f, e) ==
  IF Unordered(w, in, f, e) THEN {} ELSE Remaining(w, in, R, Advanced(w, in, f, e), e)

(* Entries have a key and a value.                                          *)
Paired(f) == f.kind = "map" /\ f.items # Indefinite => f.items % 2 = 0

(* An item that begins at p below d open frames, and the rest of such a frame. *)
Inner(w, in, d) == Grammar(w)!Nested(in, MaxDepth + 1 - d)

Reach(w, in, d, p) == Grammar(w)!At(Inner(w, in, d), p)

Left(w, in, d, f, q) == Remaining(w, in, Inner(w, in, d), f, q)

LeftBeyond(w, in, d, f, e) == Beyond(w, in, Inner(w, in, d), f, e)

(* Where the item began that is read below i open frames, when the walk      *)
(* began at b: from_slice begins at 0, a SequenceDecoder behind the last item. *)
Start(b, i) == IF i = 0 THEN b ELSE stack[i].from

EndsOf(b, i) == Reach(mode, input, i, Start(b, i))

Linked(b, i) ==
  EndsOf(b, i - 1)
    = UNION {LeftBeyond(mode, input, i, stack[i], e) : e \in EndsOf(b, i)}

FramesLinked(b) ==
  \A i \in 1..Depth :
    /\ Paired(stack[i])
    /\ stack[i].at = Start(b, i - 1)
    /\ i < Depth \/ phase \in {"item", "chunks", "done"} =>
         stack[i].at < stack[i].from /\ Linked(b, i)

Decided(b) ==
  phase = "stop" =>
    EndsOf(b, 0) = IF outcome.tag = "ok" THEN {outcome.end} ELSE {}

WalkIInv(b) ==
  /\ b \in 0..Len(input)
  /\ FramesLinked(b)
  /\ phase = "item" => pos = Start(b, Depth)
  /\ phase \in {"chunks", "done"} => pos > Start(b, Depth)
  /\ phase = "done" => EndsOf(b, Depth) = {pos}
  /\ phase = "chunks" =>
       EndsOf(b, Depth) = Ending(mode, input, string.major, string.total, pos)
  /\ phase = "next" =>
       pos > Top.at /\ EndsOf(b, Depth - 1) = Left(mode, input, Depth, Top, pos)
  /\ Decided(b)

LanguageIInv == WalkIInv(0)
=============================================================================
