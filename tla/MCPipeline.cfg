\* Three pool threads, of which only the one that waits is relied on.
CONSTANTS
  MaxItems = 5
  ChunkItems = 2
  Thresholds = {0, 2, 3}
  Threads = {scope, t1, t2}
  Scope = scope
SPECIFICATION Spec
INVARIANTS OutcomeCorrect NoEarlySideEffects DecodedOnce
PROPERTIES QuietAfterReturn Implements Terminates
