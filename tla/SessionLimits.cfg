SPECIFICATION Spec
CONSTANTS
  Lexeme = {"line", "value", "BEGIN_A", "END_A"}
  ChunkLength = 2
  Chunks <- AllChunks
  max_input_bytes = 6
  max_buffered_bytes = 7
  max_token_bytes = 3
  max_multiline_bytes = 5
  LOOKAROUND_BYTES = 1
  Detect <- Tabulated
INVARIANTS LimitRefusalStands
