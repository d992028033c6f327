CONSTANTS
  Scalars <- MCScalars
  Names <- MCNames
  MaxEntries = 2
  MaxNesting = 2
  MaxBytes = 6
SPECIFICATION Spec
INVARIANTS TypeOK SpansExact Faithful WellEncoded
