SPECIFICATION Spec
CONSTANTS
  Base = 3
  U32 = 1
  U64 = 1
  U128 = 2
  None = None
  CommittedRecords <- SomeCommitted
  IntentRecords <- SomeIntents
  MaxLen = 11
CHECK_DEADLOCK FALSE
INVARIANTS RoundTrip DamageDetected Canonical OrderPreserved
