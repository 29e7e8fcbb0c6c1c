SPECIFICATION Spec
CONSTANTS
  Callers = {c1, c2}
  MaxAttempts = 2
  MaxChunks = 3
INVARIANTS LoadsOnce FailureNotCached EndMeansComplete NothingHeldOnceOver
PROPERTIES EveryCallSettles AbortWaitsForReaderOnly
CHECK_DEADLOCK FALSE
