SPECIFICATION Spec
CONSTANTS
  Lexeme = {"line", "blank", "key", "value", "auth", "bearer"}
  ChunkLength = 2
  Chunks <- AllChunks
  max_input_bytes = 6
  max_buffered_bytes = 5
  max_token_bytes = 4
  max_multiline_bytes = 4
  LOOKAROUND_BYTES = 1
  Detect <- Tabulated
INVARIANTS PartitionInvariance HintsSettleUnits ReportedInOrder LimitRefusalStands
