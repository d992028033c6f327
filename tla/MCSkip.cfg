CONSTANTS
  Bytes <- MCBytes
  MaxLen = 11
  Inputs <- MCInputs
  MaxDepth = 2
  MaxCollection = 2
  Modes <- AllModes
  Order <- MCOrder
SPECIFICATION AgreementSpec
INVARIANTS TypeOK WithinLimits Language SameItems PrefixDecides
PROPERTY WalksReturn
