SPECIFICATION Spec
CONSTANTS
  Callers = {c1}
  MaxAttempts = 1
  MaxChunks = 2
PROPERTIES AbortTakesEffect
CHECK_DEADLOCK FALSE
