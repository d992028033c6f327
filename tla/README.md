# A TLA+ development of fcpw

fcpw is a CBOR (RFC 8949) library in Rust: a zero-copy slice decoder, an
encoder, serde drivers for both, readers for byte streams and a parallel
decoder for CBOR sequences. This directory holds TLA+ models of its control,
TLC configurations that check them on small instances, and proofs, checked by
TLAPS, of what matters most for every instance. Line numbers refer to the
sources under `src/` of the repository.

## The system

| part | source | state it keeps | operations |
|---|---|---|---|
| slice decoder | `decode.rs` 86-900 | `input`, `pos`, options | scalar getters, `skip`, `raw`, `raw_structural`, `finish` |
| dynamic value decoders | `decode.rs` 880-1108, 2718-2921 | the slice decoder, vectors being filled | `decode_owned_value`, `decode_borrowed_value` |
| typed array decoders | `decode.rs` 1110-2705 | output vectors, cleared on failure | `from_slice_*_array` and `from_slice_*_array_into` for eleven types |
| `Parser`, `SequenceDecoder` | `decode.rs` 2923-3215 | the slice decoder, an item index | iterators over events and raw items |
| serde drivers | `serde_codec.rs` | parser, depth; compound serializers, deterministic scratch | `Deserializer`, `Serializer`, `to_vec_deterministic*` |
| outputs | `encode.rs`, `lib.rs` 104-155 | length written, offset | `Encoder`, `SliceOutput`, `IoWrite` |
| one-shot readers | `lib.rs` 160-216 | a buffer, possibly the caller's | `from_reader`, `from_reader_with_buffer` |
| stream reader | `lib.rs` 223-314 | `buffer`, `start`, `offset`, `eof` | `deserialize_next`, `byte_offset`, `into_inner` |
| parallel decoder | `parallel.rs` | scanned items, spawned chunks, a channel | `from_sequence*`, `from_slices*` |
| values, tags, diagnostic notation, options, errors | `value.rs`, `tag.rs`, `diagnostic.rs`, `options.rs`, `error.rs` | none | conversions and formatting |

How they interact. Everything that decodes stands on `SliceDecoder` and its
`pos`. The parallel decoder cuts a sequence with the structural scan and gives
each piece to `from_slice` on a rayon thread; the two readers give
`from_slice` or a `Deserializer` a prefix of the stream, take `Eof` for "not
yet", read more and decode again. So both rely on agreements between separate
pieces of code: that the scan, `skip` and the decoders end an item at the same
byte, and that what is decided on a prefix holds for every longer input.

What is hard here:

* chunks of one sequence are decoded by several threads in any order, one
  failing while others run, while the scan goes on (`parallel.rs` 128-199);
* readers deliver pieces, are interrupted, fail and are called again, end in
  the middle of an item (`lib.rs` 180-210, 264-311);
* one grammar is walked by several recursive functions with limits of their
  own (`decode.rs` 528-880, 909-1108, 2727-2921);
* lengths in the input are anything up to 2^64 - 1, and depth, entries and
  joined bytes are bounded by options;
* state survives a failed operation: the reader's buffer, an output's length,
  an iterator's position, the deterministic serializer's scratch;
* one number has several encodings, and several pieces of code decide which is
  the shortest or read some of them faster (`encode.rs` 209-279,
  `serde_codec.rs` 773-829, `decode.rs` 428-450, 1311-2706).

`PROJECT.json` lists the hazards one by one with the properties aimed at them.

## What each part must guarantee

* Parallel decoder: the outcome is the sequential decoder's, on every schedule;
  no deserializer runs before the thresholds are established; nothing runs
  after the return; a pool without helpers is enough.
* Stream reader: no byte is lost, repeated or invented, whatever the reader
  does; errors are placed in the stream; the buffer stays bounded; the reader
  is not asked again after its end; every call returns.
* One-shot reader: the outcome is that of `from_slice` on all the bytes; it
  reads at most about twice the item.
* Deserializer: a value that every visitor looked at to its end is one whole
  item, so the next call begins at the next item; depth is balanced on every
  path out of a call; no visitor is given more entries than the limit.
* Serializers: after a call the vector holds the encoding of the value, or
  nothing when it failed; the encoding is one item, and a deterministic one when
  that was asked for; offsets into an arena stay right while it grows.
* Walkers: each accepts exactly the well-formed items within the limits, ends
  them at the same byte, and never recurses or counts beyond the limits.
* Iterators: raw items are the items of the slice without a gap, with the right
  index and nothing after an error; events spell every item exactly; `next`
  always moves on, after an error too.
* Typed arrays: the numbers of the array, value for value, whether they are read
  in blocks or one by one; nothing is left in the vector after an error.
* Encoders and outputs: what is written reads back as what was given, in its
  shortest form; every byte is counted once, whatever the writer does; a call
  adds all its bytes or fails.

## Modules

### Pipeline: `parallel.rs`

`SequentialDecode` is what `from_sequence_with_options` promises: one step
from the call to `Outcome(input)`. `Pipeline` is the code: an action for each
step of the scan to the thresholds, the loop that fills and spawns chunks, the
threads that take, run and send them, the join of the scope, and the merge. A
thread runs chunks one item at a time, so every interleaving of item decodes
is a behaviour. An item is its index; an input says how many items the scan
can cut, whether it meets a malformed one, and which ones the type rejects.
`Decode` counts calls of `from_slice` so that side effects can be talked about.
`PipelineProofs` holds the proofs. A `Deserialize` that panics is not modelled.

### ReaderStream: `ReaderDeserializer`

`ItemStream` is a stream decoder that never sees a buffer: the answer of a call
depends on the offset and the type. `ReaderStream` is the code: `buffer` with
`start`, growth by `Room` (8 KiB) filled with zeros, the read of any number of
bytes, `Interrupted`, I/O errors that cut the buffer back, `eof`, compaction.
A byte of the stream is its index, so the invariant can say *which* bytes the
buffer holds; a zero of the unfilled room is `Zero`. What a type decodes at an
offset is a table, `verdict`, chosen at the start: an item of `need` bytes or
an error found after `need` bytes, at a position. The table gives every offset
a verdict, so items of a stream may be anything, also inconsistent between
types. `MCReaderStream` gives the small verdict sets.

### ReaderOneShot: `from_reader`, `from_reader_with_buffer`

One call, from the clearing of the caller's buffer through the chunks of
doubling size and the decode after each, to the probe for a trailing byte.
Bytes are counted only; `stale` are those a caller left in the buffer.
`FromSlice(n)` is the outcome of `from_slice` on the first `n` bytes: `Eof`
before `need`, then a value, trailing data or an error. `OneShotProofs` holds
the proofs.

### SkipItem: the walkers of `decode.rs`

One machine for four walkers, distinguished by `mode`: `skip` with basic
validation, `skip` with deterministic validation, `raw_structural`, and the
value decoders. Bytes are the real ones: heads are computed from them, text is
UTF-8 as `core::str::from_utf8` has it, and the deterministic mode asks floats
for their shortest form. Strings and collections are given lengths TLC can count;
an integer's argument may be any. The recursion is a stack of frames; an action is the
head of one item, a chunk of an indefinite string, the end of an item, or one
round of a container's loop. Where the walkers differ - when a limit is
compared, whether text is looked at, whether keys must be in order - the guard
names the mode. `WellFormed` is the grammar, written from what the walkers
accept: for every offset of an input the offsets where an item that begins there
may end, level by level of nesting, with UTF-8 by code points and a float's shortest
form as the one the encoder writes. `SkipLanguage` compares a walk with it and
states the invariant that relates the two at every step; `SkipAgreement` runs all
walkers one after the other over the same bytes and over the bytes without the
last and compares their answers; `MCSkip` checks both on the same walks.
`SkipProofs` proves the invariants of `SkipItem` and of `SkipLanguage`, `WalkProofs`
that the walkers agree.

### SliceIterators: `SequenceDecoder` and `Parser`

The two iterators over a slice, extending `SkipItem`: a call of `next` of a
`SequenceDecoder` is its one-byte path, or a walk of `SkipItem`, step by step,
whose end it turns into an item or its last error; a call of `Parser::next` is one
event, one action for each branch of `parse_event`. `yielded` is what `next` has
returned so far, with the bytes each entry stands for. After an error the next
call begins where the code stopped reading; the caller goes on until `None`. The
heads 0x1f and 0x3f, whose missing argument `parse_event` unwraps, make the
iterator "unwound". `IteratorLanguage` states with the grammar of `WellFormed`
what the iterators must yield, and the invariant behind the items.
`WalkProofs` holds the proofs.

### TypedArrays, SliceReading: the bulk decoders

`TypedArrays` is `from_slice_*_array` with its `_into` form for eleven types: the
head, then one step of the loop of the type's body at a time - a block of four
or eight numbers whose heads agree, or one element - the body of fixed floats, the
loop over an indefinite array, `finish`. `output` is the caller's vector, which holds
something from an earlier call before this one. Integers are the bytes of their
two's complement. `ArraysRead` says what must come out without blocks or paths:
it goes through the elements from the left, each in whatever width it has.
`SliceReading` puts the bulk decoders before the iterators, so that one run
holds both; a caller may try a slice as an array of one type after another. The proofs
are in `SkipProofs`, behind those about the heads they need.

### EncodedData, Encoder, ByteOutput, WholeItems: encoding

`EncodedData` is the arithmetic: heads and their shortest form, `exact_half` and
`exact_half_f64`, `half_to_f64`, the narrowing of doubles, what the deterministic
validator asks, over words of bytes and floats of sign, exponent and fraction.
`Encoder` says which pieces each operation of `Encoder`, of the streaming serializer
and of the deterministic serializer's floats hands to its output, and which
operations `Value::encode` makes. `ByteOutput` is the output: a call writes its
pieces one after another to a vector, a slice, a counter or a writer, which takes a
part, is interrupted, takes none or fails; the next call follows. It knows a call
only by its bytes and where its pieces end, so its proofs hold for any encoder.
`WholeItems` is what it promises, and `Implements` that it does. `EncoderLanguage`
reads back what was written. `OutputProofs` holds the proofs.

### SerdeCursor: `Deserializer` of `serde_codec.rs`

The pull side of serde: a type asks (`Want`), the deserializer reads a head and
answers or hands the type's visitor an access, and the visitor asks for
entries of other types until it has as many as it takes (`Take`), is told that
there are no more, or gives up. The input is a sequence of heads, a string's
bytes included in its head; the recursion of Rust calls is `stack`, one frame
for each access that a visitor holds, each tag that `deserialize_any` has
passed and each enum variant being read. `Elements` leaves open which type asks
next, so one run holds every nesting of the types it is given. `ItemEnd` is where
`skip` ends with a whole item, with the same limits (`Walk` takes one head, and
`After` is the function of all walks over an input); it is what ignored items use
and what the properties compare a call with. An error goes through the open
visitors one by one (`ErrorReturns`), each caller taking its depth back. A visitor
hands on an error it was given, as derived ones do, and asks for a map's value
after its key, so the checks of 2991 and 3010 never fail. After an error the caller
may call again where the parser stopped. Validation is basic. `SerdeProofs` holds the
proofs.

### SerdeWriter: the serializers of `serde_codec.rs`, and `Tagged`

The push side of serde: the `Serialize` of a value calls a serializer, which
writes heads and bytes or returns a compound that takes the entries one by one.
Every call is an action and any value may follow at any place, so one run holds
every value of a size. `frames` are the values being written, from the outside
in; `asked` says that a compound waits for a part. `buffers` are the vectors:
the caller's first, then one for every value that has one of its own, which is
the body of a sequence of unknown length or the arena of a map, both of the
deterministic serializer, and the copy that `Tagged` makes. Bytes always go to
the last one. Sequences and maps that know their length write their heads at
once. For a map, `span` holds the offsets recorded so far for the entry being
written and `entries` those of the entries before it; keys and values are cut
out of the arena by these offsets alone when the map ends. `given` and `ideal`
are not in the code: they are the encodings of the parts and of the whole,
composed by `Encoding` without vectors and offsets, which `Faithful` compares
with what was written. The sort of a map's entries is modelled by its result: an
order of the positions, each once, in which the keys do not decrease.
`SerdeWriterProofs` holds the proofs.

A caller keeps to serde's contract, as many entries as announced and each key with
its value, except where the code checks it: a map of the deterministic serializer
may be given a second key, a value without one, or end with a key pending.
The scratch of the deterministic serializer is cleared whenever it is taken
and put back, so it carries no data from call to call and is not a variable.
`SerdeWriterLanguage` compares what is written with `WellFormed`.

Some definitions carry a second, faulty variant ("A fault: ..."). They are
never part of a specification; they show that the property named for them in
`PROJECT.json` fails when the code is wrong in that way.

## Runs

| run | what it asks | instance |
|---|---|---|
| `pipeline` | safety, refinement of `SequentialDecode` and termination of the parallel decoder | up to 5 items, chunks of 2, three threads, every set of rejected items, thresholds 0, 2, 3, large and small inputs |
| `reader` | safety, refinement of `ItemStream` and return of every call of the stream reader | streams of 3 bytes, two types, reads of up to 2 bytes, items of up to 3 |
| `one_shot` | safety and termination of the one-shot reader | up to 7 bytes, chunks of 2, 2, 4, 8, stale bytes |
| `skip` | language, agreement, prefixes, bounds and termination of the walkers | every input of up to 3 of 15 bytes, whole and without its last byte, and families of longer ones: four of 9 bytes, containers of two entries, deep chains, strings in chunks, long containers, characters and floats at every edge; depth 2, collections of 2 |
| `serde` | safety of the `Deserializer`, and that every call ends | up to 4 of 9 heads, nine kinds of types, depth 2, collections of 2 |
| `serde_one_item` | what `from_slice` documents; violated | up to 3 heads of arrays |
| `serde_nesting` | what `max_depth` documents; violated | up to 4 heads |
| `serializer` | offsets, faithfulness and language of the three serializers | values of up to two levels around a scalar, entries of up to 2, two names, vectors of 6 bytes when another value begins |
| `serializer_tagged` | what `to_vec_deterministic` documents; violated | the same |
| `iterators` | items, events, their tiling and the end of both iterators; what the bulk decoders read | up to 3 of 15 bytes, four and five of 6 bytes, sequences of three of 16 items, text and floats, in two levels of validation; 1600 arrays of numbers for every type, at most 8 elements; depth 2, collections of 2 |
| `parser_total` | that `Parser::next` answers every slice; violated | the same |
| `encoder` | round trip of what encoders write, every output, refinement of `WholeItems`, return of every call | integers, lengths and floats on both sides of every boundary, strings, seven values, one call or two; slices of up to 4 bytes |

Why these bounds are enough to see the cases. Pipeline: three chunks with a
short last one, more chunks than helpers, a rejected item in each position and
a boundary error behind any of them; the thresholds fall before, inside and
behind a chunk. Reader: an item spans two reads, two items share one, a read
begins with a part of an item in a compacted buffer. One-shot: items that end
before, with and after a chunk, and two doublings. Walkers: the short inputs
hold a head of every major type, the indefinite forms, a reserved head, a
two-byte and a non-preferred argument in every order; each further family goes
past one of the limits, by items and by pairs, or puts two keys in either order.
Deserializer: four heads hold three nested collections and a content, an
indefinite collection with one entry too many, a variant with its content, a
short tuple inside a vector and a second item behind a first one. Serializers:
two levels hold a map as a key or a value of a map, a buffered sequence in an arena and a
tagged value in either; two entries come in order, out of order and equal, by
keys of different length; two names, declared against the order of their
encodings, leave out one or the other; another call follows a failed one.
Iterators: two items in every order and a last one of six, refused ones among
them, and containers
open when the slice ends. Typed arrays: four heads of each width with arguments on both
sides of the sign bit in every position, blocks behind, before and without
another element, eight short ones with another in each place, one more than the
limit, any two elements of 29 kinds. Encoders: each integer and float has its
neighbours across the edge where its form changes, and an output is full at each
byte of a call of several pieces.

### Fairness

* Pipeline: weak fairness of the caller and of the thread the scope's body
  runs on (rayon's `scope_fifo` makes the waiting thread execute queued jobs
  itself). No other thread of the pool is assumed to run.
* Stream reader: the call runs on, and the reader eventually delivers bytes,
  its end or an error; it may be interrupted any finite number of times.
* One-shot reader: the call runs on; a reader does not answer `Interrupted`
  for ever.
* Walkers: the walk goes on, nothing else.
* Iterators: the caller calls `next` until it returns `None`; a bulk call runs on.
* Outputs: the call runs on; a writer that is interrupted eventually answers a
  count or an error.
* Deserializer: the call runs on; that a visitor gives up (`VisitorFails`) is
  possible and never relied on.

### Disagreements found

`serde_one_item`: `from_slice`
documents "exactly one CBOR item" (`serde_codec.rs` 77). A one-tuple read from
an array that announces two entries, of which the input holds one, or from an
indefinite array without its break, reaches the end of the input and is
accepted. What does hold is `NothingDropped`: if the input is a well-formed
item without indefinite lengths, entries left behind are always found out. With
indefinite lengths they may be taken for entries of the outer collection. The
stream reader advances by what the type consumed as well (`lib.rs` 270), so after
such a type `byte_offset`, "the absolute byte offset of the next unread item"
(`lib.rs` 252), points inside the item, and the next call decodes from there.

`serde_nesting`: `max_depth` is "the maximum permitted nesting depth"
(`options.rs` 21). `skip` counts tags and every container; the `Deserializer`
counts only arrays and maps it enters, not tags (3089) nor enum variants (3308,
3325). An item of more nested tags is accepted by the one and refused by the
other.

`serializer_tagged`: `to_vec_deterministic` "deterministically serializes"
(`serde_codec.rs` 124). `Tagged` encodes its content with `to_vec` whatever
the serializer (`tag.rs` 42) and passes on a finished item, which is copied. A
tagged sequence of unknown length comes out with an indefinite head, a tagged map
unsorted. `WellEncoded` says that without tags the encoding is deterministic.

`parser_total`: `parse_event` unwraps the argument of an integer (`decode.rs`
3102-3103), which the heads 0x1f and 0x3f do not have. `Parser::next` panics on them,
where `skip` answers `InvalidAdditionalInfo`, "an initial byte contained reserved or
invalid additional information" (`error.rs` 13).

Two more are seen in the code without a run. `to_vec_packed` documents that variant
names are replaced by their indices (`serde_codec.rs` 100-101): the code does so for unit
and struct variants and writes newtype and tuple variants by name (1125-1163), as the
test `packed_encoding_matches_serde_cbor` expects; the model follows the code.
`options.rs` 8 gives the validation of skipped text to `Strict`: `skip` has it in `Basic` as
well, and so has `SkipItem`, which has one mode for both.

## What is proved

For every value of the constants, under the assumptions named in the modules
(sizes are natural numbers, chunks and reads at least one):

* `PipelineProofs`: `TypeOK`, the inductive invariant, `OutcomeCorrect` and the
  refinement of the safety part of `SequentialDecode`. The outcome alone is
  not inductive: the invariant adds that the spawned chunks tile the items
  before `start` in spawn order (`ChunkTiling`), that a chunk has decoded a
  prefix of its items without a rejected one (`ChunkProgress`), and that the
  merged chunks are the first ones and the output ends where the next begins
  (`MergedPrefix`). Sorting by first item then makes the first error in order
  the lowest rejected index. A second invariant, `HistoryIInv`, is about the
  calls of `from_slice`: no item is decoded before the thresholds are passed,
  items behind the scan and behind a chunk's progress have not been decoded, those
  done have been once, and no chunk is unfinished once the scope is joined.
  `NoEarlySideEffects`, `DecodedOnce` and `QuietAfterReturn` follow from it.
* `ReaderProofs`: `TypeOK`, `Accounting`, `IoErrorPosition`, `BufferBounded`,
  `NoReadAfterEnd`, and the refinement of `ItemStream`. The invariant is
  `Accounting` with the phases of a call: while a read is pending the held
  bytes are those before `before`, the buffer is compacted, and the end has
  not been seen.
* `OneShotProofs`: `TypeOK`, `OutcomeOfWhole` and `ReadBounded`. The invariant
  says that when a chunk is begun the buffer holds fewer bytes than the item
  needs, so that the chunk at most doubles them.
* `SkipProofs`: `TypeOK` and `WithinLimits`, from an
  invariant on the stack: no frame counts more than its container may hold,
  and every frame but the innermost has room for the item being walked in it. Then
  `Language`: each walker accepts the items of the grammar and nothing else, for
  every input and every limit. The walkers go from left to right with a stack, the
  grammar is built from the innermost items outwards, so the invariant
  (`LanguageIInv`) is about what is still to come: for each open frame, the ends that
  the grammar gives the item whose head opened it are the ends of what is left to
  read of the frame, after one more item, wherever that one ends (`FramesLinked`).
  A head opens what the grammar builds around it (one lemma for each
  kind of head), an item's end or a chunk takes one step off what is left, and with an
  error nothing is left. Underneath are statements about the operators alone: a head is refused
  exactly when the grammar has none (`HeadIs`), the byte ranges of the UTF-8
  validation are the shortest encodings of code points (`TextIs`), the tests on
  a float's bits are those of the width the encoder chooses (`FloatIs`), and two keys
  compare as the grammar orders them (`OrderIs`). What a recursive function of the
  grammar computes is taken from its equation one level at a time, or by the least
  counterexample.
* `WalkProofs`, for the iterators: what they return lies end to end in the slice, each
  entry takes at least a byte, an item iterator's error comes last with the
  right index (`Tiled`). The invariant adds the walkers' own, and that a walk under
  way has begun behind what was returned and is past its first byte (`InWalk`).
  `ItemsCut` needs the grammar: the invariant of a walk is that of `SkipLanguage`
  with the offset where the walk began, so the items returned are the
  grammar's (`EntriesDecided`), those of the short path because a head without an
  argument is an item of one byte.
* `WalkProofs`, for the events: `EventsSpell`. The invariant of the parser is small
  (`EventsDecided`): an entry is what the bytes at its offset say (`EventAt`) unless
  `next` refuses them (`Refused`), since the parser has no stack. All of the argument is
  about the finished list and the reader's stack. Under any stack `s`, the events from
  an entry on take a reader back to `s` with one item less exactly at the grammar's end
  of the item that begins there (`Spells`), by induction on how deep items may
  nest; for the rest of a container (`PartsClose`) or of a string's chunks
  (`ChunksClose`) the same from the last entry backwards. An open frame of the
  reader is what the container is still owed (`Owed`), and the last item of a container
  ends the item that the container is (`EndedIs`).
* `WalkProofs`, for the agreement of the walkers: `SameItems` and `PrefixDecides`, for
  every slice, every limit and every order of the walks. A walk is written as a
  function of where it is (`Successor`), and every step of `SkipItem` follows it
  (`StepFollows`): a walk is determined by its bytes and its mode. Two walks are
  then companions: a walker and a stricter one on the same bytes, or a walker on a
  slice and on the slice without its last byte. From the same place they
  take the same step, unless the second one stops for its own reason: `utf8`,
  `limit`, `nondeterministic`, or the end of the shorter slice. (The
  frames of the deterministic walk are compared without the keys it keeps.) By
  the first place where they would part, they end alike or for that reason
  (`Outcomes`). The invariant `AgreementIInv` says of the answers kept that walks from the
  first byte end with them. It assumes that each walk is made once
  (`AgreementAssumption`).
* `SkipProofs`, for the bulk decoders: `ArraysRead` (`ArraysAreRead`), for every slice,
  every limit and all eleven types. `Begin` goes through the elements one at a time,
  the decoders take several at once, so what is proved first is where the elements begin: the
  sequence exists and is determined by the bytes (`BeginIsCut`, `BeginUnique`). What
  refuses an item refuses exactly what is no element, at an offset in it. A
  block fits only if each of its heads is that of an element of the same width,
  so that its numbers are elements one behind the other (`InARow`), with the value
  each would have alone (`StridePushed`; for integers
  `MeantIs`: two's complement keeps a number exactly if it is in the type's range). The invariant (`ElementsRead`) says that the vector holds the first
  elements and that the decoder is where the next one begins, or behind the break; an
  answer is then judged by where the elements end. `ReadingIterates` carries
  the theorems about the iterators over to slices that are read with both.
* `OutputProofs`: for every script of calls and every cut into pieces, the output
  holds and counts what was encoded up to the place of the call (`IInv`), and
  `ByteOutput` refines `WholeItems`.

* `SerdeProofs`: `TypeOK`, `DepthBalanced` and `EntriesBounded`, for every set of
  types and every input. Depth is the number of collection frames on the stack;
  lemmas say how that number follows a push, a pop and a change of the innermost
  frame, and more that an error, its way back through the callers, an answer and
  a request each keep the invariant.
* `SerdeProofs`, for the item a call consumes: `WholeItem` (`EndsWithItem`) and
  `NothingDropped` (`DroppedIsNoticed`), for every input, every limit and any nesting
  of types. Each walk within another is further on, so the function of all walks is
  determined from the last head backwards (`AfterIs`), and a head takes one level,
  so more levels than heads change nothing (`LevelsEnough`). The invariant of
  `EndsWithItem` (`ItemsAwaited`) is a chain through the stack: each frame
  has so many items left, and behind those its own item ends, at the place where
  the frame outside it goes on; the outermost ends where the item at the
  start of the call does. A step of the deserializer takes one item from one
  frame (`RestItem`) or moves the innermost end of the chain. The theorem has the hypothesis
  `MaxCollection > 0`: with a `max_collection_len` of zero `deserialize_enum`
  still reads a map of one entry (3308, 3325), which `skip` refuses. For `DroppedIsNoticed` the
  invariant (`ItemsOwed`) counts. Without indefinite lengths a head takes one item and
  brings those inside it, so there is a balance of the items to come at each
  place; what the open frames are owed is at most that, and less once a visitor
  has left something behind. At the end nobody is owed anything, and after
  a whole item nothing is to come (`WalkBalance`).
* `SerdeWriterProofs`: `TypeOK`, `SpansExact` and `Faithful`, for every set of scalars
  and names, every bound and both serializers. The invariant (`WriterIInv`, in
  `SerdeWriter`) walks the stack from the inside out and says of each vector
  that it ends with what the open values on it have been given (`Layered`): a
  buffer that a value owns holds exactly that value's parts, the one it shares holds
  the layer below first. Spans recorded for a map therefore lie below the layers of
  the values nested in it and keep cutting out the keys and values given (`Cuts`,
  `SpansCut`). That the sorted body is *the* encoding needs the order: the
  byte-string order is a strict total order, a sorting permutation exists (by insertion,
  one entry more at a time), and if no sorted neighbours are equal, all keys differ,
  so that there is only one such order. Where these arguments are inductions,
  they are made by taking the least counterexample.

Only model-checked: liveness and termination; that the serializers write an item of the
grammar (`WellEncoded`), which needs an invariant that relates their stack to it, as
`LanguageIInv` does for the walkers;
`RoundTrip`, which is arithmetic of powers of two over a recursive operator. The type invariants of the pipeline and of the two readers are proved and
therefore not checked again.

## Not modelled, and why

The values a dynamic decoder builds: no decision of its control depends on them.
`from_slices_with_options`: a parallel collect over independent slices.
The dead parallel branch of `decode_raw` (`parallel.rs` 106-114; its only caller
is below a threshold). Compounds serialized into sinks that can be full: the pieces of
scalars and strings are, one after the other. `as f32` and `as f64` of the typed
arrays: the language's. The conversions of `Value` and `BorrowedValue`, the decoding of
tags, diagnostic notation, options and errors: conversions without state. Allocation failure.

## Plan

1. The deterministic validation of the `Deserializer`, and the decoding of `Tagged`.
2. Proofs: the invariant that relates the stack of the serializers to the grammar, hence
   `WellEncoded`.
