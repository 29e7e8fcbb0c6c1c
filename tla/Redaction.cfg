SPECIFICATION Spec
CONSTANTS
  input_len = 6
  Inside = {2}
  FindingLists <- UpToThree
  Placeholder = {"p0", "p1", "p2", "long"}
  Malformed = {"long"}
  Reproduces <- Texts
INVARIANTS OverlapsRefused RedactedInPlace ReplacedTextIsGone PlaceholdersRevealNothing
CHECK_DEADLOCK FALSE
