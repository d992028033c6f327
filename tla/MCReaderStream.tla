--------------------------- MODULE MCReaderStream ---------------------------
(* Small streams for ReaderStream.                                          *)
EXTENDS ReaderStream

(* A one-byte item, an item over two reads and an error found in its last   *)
(* byte.                                                                    *)
MCVerdicts ==
  { [ok |-> TRUE, need |-> 1, at |-> 0],
    [ok |-> TRUE, need |-> 2, at |-> 0],
    [ok |-> TRUE, need |-> 3, at |-> 1],
    [ok |-> FALSE, need |-> 2, at |-> 1] }

=============================================================================
