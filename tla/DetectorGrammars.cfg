SPECIFICATION DetectSpec
CONSTANTS
  TextsOf <- AllTexts
  Lengths <- Scaled
  MAX_PASSWORD_LENGTH = 6
  MAX_AUTHORITY_LENGTH = 34
  MAX_AZURE_SEGMENT_LENGTH = 20
  MIN_AZURE_ACCOUNT_KEY_LENGTH = 4
  MIN_CONTEXT_VALUE_LENGTH = 1
  MIN_HIGH_ENTROPY_LENGTH = 2
  MAX_CONTEXT_VALUE_LENGTH = 3
INVARIANTS CandidatesAreCredentials NoCredentialMissed
PROPERTIES AlwaysAdvances
CHECK_DEADLOCK FALSE
