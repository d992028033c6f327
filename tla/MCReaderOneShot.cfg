\* Readers of up to seven bytes, chunks of 2, 2, 4 and 8 bytes.
CONSTANTS
  MaxBytes = 7
  InitialChunkSize = 2
  MaxStale = 2
SPECIFICATION Spec
INVARIANTS OutcomeOfWhole ReadBounded
PROPERTY Terminates
\* The call is made once.
CHECK_DEADLOCK FALSE
