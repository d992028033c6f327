\* Two types over every stream of up to three bytes, reads of up to two bytes.
CONSTANTS
  MaxBytes = 3
  Room = 2
  Longest = 3
  Types = {t1, t2}
  Verdicts <- MCVerdicts
SPECIFICATION Spec
INVARIANTS Accounting IoErrorPosition BufferBounded
PROPERTIES NoReadAfterEnd Implements CallReturns
\* The owner may take the reader back; nothing follows.
CHECK_DEADLOCK FALSE
