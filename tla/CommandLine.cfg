SPECIFICATION Spec
CONSTANTS
  InputLength = 3
  Inputs <- AllInputs
  ArgumentLists <- Lines
  READ_CHUNK_BYTES = 3
  MaxFindings = 1
INVARIANTS NoByteLost RedactedInFull CheckedInFull IdsUnique NothingHeld
PROPERTIES Ends
CHECK_DEADLOCK FALSE
