CONSTANTS
  ArrayLimit = 8
  Stale = Stale
  BulkRead <- MCBulkRead
  Bytes <- MCBytes
  MaxLen = 80
  Inputs <- MCInputs
  MaxDepth = 2
  MaxCollection = 2
  Modes = {"basic", "deterministic"}
SPECIFICATION ReadingSpec
INVARIANTS IteratorIInv ItemsCut EventsSpell ArraysRead
PROPERTY Ends
