CONSTANTS
  Fronts = {"encoder", "serializer", "deterministic"}
  MaxRoom = 4
  Scripts <- MCScripts
SPECIFICATION Spec
INVARIANTS IInv RoundTrip
PROPERTIES Implements Returns
