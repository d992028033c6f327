CONSTANTS
  Heads <- TupleHeads
  MaxLen = 3
  MaxDepth = 3
  MaxCollection = 3
  Types <- TupleTypes
  Want <- TupleWant
  Take <- TupleTake
  Elements <- TupleElements
SPECIFICATION Safety
INVARIANT ExactlyOneItem
