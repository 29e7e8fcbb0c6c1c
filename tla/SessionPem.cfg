SPECIFICATION Spec
CONSTANTS
  Lexeme = {"line", "value", "BEGIN_A", "END_A", "BEGIN_B"}
  ChunkLength = 3
  Chunks <- AllChunks
  max_input_bytes = 7
  max_buffered_bytes = 7
  max_token_bytes = 3
  max_multiline_bytes = 5
  LOOKAROUND_BYTES = 1
  Detect <- Tabulated
INVARIANTS TypeOK PartitionInvariance ReleasedTextIsSanitized RetainedBounded
PROPERTIES ImplementsContract
