CONSTANTS
  Heads <- MCHeads
  MaxLen = 4
  MaxDepth = 2
  MaxCollection = 2
  Types <- MCTypes
  Want <- MCWant
  Take <- MCTake
  Elements <- MCElements
SPECIFICATION Safety
INVARIANT WithinDepth
