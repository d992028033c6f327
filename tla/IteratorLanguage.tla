-------------------------- MODULE IteratorLanguage --------------------------
(***************************************************************************)
(* What the iterators of SliceIterators yield, stated with the grammar of   *)
(* WellFormed.                                                              *)
(***************************************************************************)
EXTENDS SliceIterators, SkipLanguage, FiniteSetsExt

(* Where the items that begin at each offset end.                           *)
ItemEnds == Grammar(mode)!Items(input)

(* A sequence decoder cuts the slice into its items, from the first byte on, *)
(* without a gap and without a limit of its own: the short path for items of *)
(* one byte changes nothing.  It fails only where no item begins, tells how  *)
(* many items came before, and yields nothing after that (decode.rs          *)
(* 3189-3213).                                                               *)
ItemsCut ==
  iterator = "items" /\ Drained =>
    LET ends == ItemEnds IN
    \A i \in 1..Count :
      LET entry == yielded[i] IN
      /\ entry.from = IF i = 1 THEN 0 ELSE yielded[i - 1].to
      /\ IF entry.tag = "item"
         THEN /\ ends[entry.from + 1] = {entry.to}
              /\ i = Count => entry.to = Len(input)
         ELSE /\ ends[entry.from + 1] = {}
              /\ entry.item = i - 1
              /\ i = Count

(* The inductive invariant behind ItemsCut: the entries are the grammar's as *)
(* they are returned, and so will be the one whose item is being walked.     *)
EntriesDecided ==
  iterator = "items" =>
    \A i \in 1..Count :
      Reach(mode, input, 0, yielded[i].from)
        = IF yielded[i].tag = "item" THEN {yielded[i].to} ELSE {}

ItemsIInv ==
  /\ IteratorIInv
  /\ EntriesDecided
  /\ ~Between => WalkIInv(from)

-----------------------------------------------------------------------------
(* A reader of events keeps, for each container that is open, how many items *)
(* of it are missing.                                                        *)

ItemEnded(open) ==
  LET k == Max({0} \cup {i \in 1..Len(open) : open[i] # 1})
  IN  IF k = 0 THEN <<>>
      ELSE [SubSeq(open, 1, k) EXCEPT ![k] = IF @ = Indefinite THEN @ ELSE @ - 1]

Announced(event) ==
  IF event.kind = "map" /\ event.items # Indefinite THEN 2 * event.items
  ELSE event.items

AfterEvent(open, event) ==
  IF event.kind = "break" THEN ItemEnded(SubSeq(open, 1, Len(open) - 1))
  ELSE IF Announced(event) = 0 THEN ItemEnded(open)
  ELSE Append(open, Announced(event))

(* What is open after each event from the i-th on.                          *)
OpenFrom(i) ==
  LET open[k \in i..Count] ==
        AfterEvent(IF k = i THEN <<>> ELSE open[k - 1], yielded[k])
  IN  open

(* Wherever an event begins and the grammar has an item, the events from     *)
(* there on are that item and no more: none is refused, none reaches past    *)
(* its end, and a reader that counts announced items and breaks sees it end  *)
(* exactly where it does (decode.rs 3094-3141).                              *)
EventsSpell ==
  iterator = "events" /\ Drained =>
    LET ends == ItemEnds IN
    \A i \in 1..Count : \A q \in ends[yielded[i].from + 1] :
      \E j \in i..Count :
        /\ \A k \in i..j : yielded[k].tag = "event"
        /\ yielded[j].to = q
        /\ \A k \in i..j : OpenFrom(i)[k] = <<>> <=> k = j
-----------------------------------------------------------------------------
(* The inductive invariant behind EventsSpell: an entry of a parser is what   *)
(* the bytes from its offset on say, unless next refuses them.               *)

LongString(p) == Major(p) \in {2, 3} /\ Argument(p) # Indefinite

Refused(p) ==
  /\ Byte(p) # Break
  /\ \/ HeadError(p) # NoError
     \/ LongString(p) /\ HeadEnd(p) + Argument(p) > Len(input)
     \/ LongString(p) /\ Major(p) = 3
          /\ ~TextAccepted(HeadEnd(p), HeadEnd(p) + Argument(p))
     \/ Major(p) = 6 /\ Info(p) = 31
     \/ Major(p) = 7 /\ (~FloatAccepted(p) \/ (Info(p) = 24 /\ Argument(p) < 32))

EventAt(p) ==
  IF Byte(p) = Break THEN Event("break", 0, p, p + 1)
  ELSE IF LongString(p) THEN Event("leaf", 0, p, HeadEnd(p) + Argument(p))
  ELSE CASE Major(p) \in {0, 1, 7} -> Event("leaf", 0, p, HeadEnd(p))
         [] Major(p) \in {2, 3} -> Event("string", Indefinite, p, HeadEnd(p))
         [] Major(p) = 4 -> Event("array", Argument(p), p, HeadEnd(p))
         [] Major(p) = 5 -> Event("map", Argument(p), p, HeadEnd(p))
         [] Major(p) = 6 -> Event("tag", 1, p, HeadEnd(p))

EventsDecided ==
  iterator = "events" =>
    \A i \in 1..Count : LET p == yielded[i].from IN ~Refused(p) => yielded[i] = EventAt(p)

EventsIInv == IteratorIInv /\ EventsDecided
=============================================================================
