SPECIFICATION Spec
CONSTANTS
  Fragments <- AllFragments
  MAX_DELIMITER_LEN = 5
  MaxText = 8
INVARIANTS TrackerMatchesScan LookbehindReaches
