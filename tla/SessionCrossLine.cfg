SPECIFICATION Spec
CONSTANTS
  Lexeme = {"line", "blank", "name", "key", "value"}
  ChunkLength = 2
  Chunks <- AllChunks
  max_input_bytes = 5
  max_buffered_bytes = 6
  max_token_bytes = 5
  max_multiline_bytes = 5
  LOOKAROUND_BYTES = 1
  Detect <- Tabulated
INVARIANTS PartitionInvariance
