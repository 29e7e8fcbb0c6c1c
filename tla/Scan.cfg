SPECIFICATION Spec
CONSTANTS
  Id = {"a", "b", "B!"}
  Identifier = {"a", "b"}
  InputLengths = {0, 6}
  Inside = {5}
  Spells <- Spelt
  Emissions <- UpToTwo
  Actions = {"Redact", "Allow"}
INVARIANTS AcceptedDisjoint FindingsInTextOrder FindingsAreTheKernel OneBadCandidateFailsAll
