SPECIFICATION Spec
CONSTANTS
  Chunks <- UpToTwo
  max_buffered_bytes = 5
  MaxText = 3
  CallTexts <- FewTexts
INVARIANTS OffsetsExact PrunedInTime IndexBounded SameErrorEitherWay RedactsWhatTheHostNamed ScannedFindingsRedact
